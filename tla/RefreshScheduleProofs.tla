------------------------ MODULE RefreshScheduleProofs ------------------------
(***************************************************************************)
(* The cached token outlives the wait for the next refresh and that        *)
(* refresh, for every lifetime, floor and latency that leave a margin.     *)
(***************************************************************************)
EXTENDS RefreshSchedule, TLAPS

(* As long as no refresh failed the token outlives what is left of the     *)
(* wait and a whole round trip, or what is left of the round trip.         *)
Outlives ==
  ~missed => IF fetching THEN left + latency > MaxLatency ELSE left > wait + MaxLatency

(* The interval is a natural number, at least the floor.                   *)
LEMMA IntervalIsNat ==
  ASSUME NEW e \in Nat
  PROVE  RefreshInterval(e) \in Nat /\ RefreshInterval(e) >= MIN_REFRESH_INTERVAL
<1>1. (e * 2) \div 3 \in Nat
  OBVIOUS
<1>. QED BY <1>1, ScheduleAssumption DEF RefreshInterval

(* A refresh that succeeds or fails takes no longer than MaxLatency, and   *)
(* the task always waits for one of the intervals of the IdP's lifetimes.  *)
LEMMA ScheduleTypeCorrect == Spec => []TypeOK
<1>0. \A e \in Lifetimes : e \in Nat /\ RefreshInterval(e) \in Nat
  BY ScheduleAssumption, IntervalIsNat
<1>1. Init => TypeOK
  <2>. SUFFICES ASSUME Init PROVE TypeOK
    OBVIOUS
  <2>1. interval \in Nat /\ interval \in {RefreshInterval(e) : e \in Lifetimes}
    BY <1>0 DEF Init
  <2>2. wait \in 0 .. interval /\ latency \in 0 .. MaxLatency /\ left \in Nat
    BY <1>0, <2>1, ScheduleAssumption DEF Init
  <2>. QED BY <2>1, <2>2 DEF Init, TypeOK
<1>2. TypeOK /\ [Next]_vars => TypeOK'
  <2>. SUFFICES ASSUME TypeOK, [Next]_vars PROVE TypeOK'
    OBVIOUS
  <2>0. interval \in Nat
    BY <1>0 DEF TypeOK
  <2>. USE <1>0, <2>0, ScheduleAssumption DEF TypeOK
  <2>1. CASE Tick BY <2>1 DEF Tick
  <2>2. CASE Wake BY <2>2 DEF Wake
  <2>3. interval \in 0 .. interval /\ 0 \in 0 .. MaxLatency
    OBVIOUS
  <2>4. ASSUME NEW e \in Lifetimes, Refreshed(e) PROVE TypeOK'
    <3>1. left' \in Nat
      BY <2>4 DEF Refreshed
    <3>2. wait' \in 0 .. interval' /\ latency' \in 0 .. MaxLatency /\ interval' = interval
      BY <2>3, <2>4 DEF Refreshed
    <3>. QED BY <2>4, <3>1, <3>2 DEF Refreshed
  <2>6. CASE RefreshFailed
    <3>1. wait' \in 0 .. interval' /\ latency' \in 0 .. MaxLatency /\ interval' = interval
      BY <2>3, <2>6 DEF RefreshFailed
    <3>. QED BY <2>6, <3>1 DEF RefreshFailed
  <2>5. CASE UNCHANGED vars BY <2>5 DEF vars
  <2>. QED BY <2>1, <2>2, <2>4, <2>5, <2>6 DEF Next
<1>. QED BY <1>1, <1>2, PTL DEF Spec

(* If every lifetime outlasts every interval by two round trips, the token *)
(* never expires before a refresh fails.                                   *)
THEOREM NeverExpiresHolds ==
  ASSUME MarginSuffices
  PROVE  Spec => []NeverExpires
<1>0. \A e \in Lifetimes : e \in Nat /\ RefreshInterval(e) \in Nat
  BY ScheduleAssumption, IntervalIsNat
<1>1. Init => Outlives
  BY <1>0, ScheduleAssumption DEF Init, Outlives, MarginSuffices
<1>2. TypeOK /\ Outlives /\ [Next]_vars => Outlives'
  <2>. SUFFICES ASSUME TypeOK, Outlives, [Next]_vars PROVE Outlives'
    OBVIOUS
  <2>0. /\ left \in Nat /\ latency \in Nat /\ latency <= MaxLatency
        /\ interval \in Nat /\ wait \in Nat /\ wait <= interval /\ MaxLatency \in Nat
    BY <1>0, ScheduleAssumption DEF TypeOK
  <2>1. CASE Tick BY <2>0, <2>1 DEF Tick, Outlives
  <2>2. CASE Wake BY <2>0, <2>2 DEF Wake, Outlives
  <2>3. ASSUME NEW e \in Lifetimes, Refreshed(e) PROVE Outlives'
    <3>1. PICK d \in Lifetimes : interval = RefreshInterval(d)
      BY DEF TypeOK
    <3>2. interval + 2 * MaxLatency < e /\ e \in Nat
      BY <1>0, <3>1 DEF MarginSuffices
    <3>. QED BY <2>0, <2>3, <3>2 DEF Refreshed, Outlives
  <2>4. CASE RefreshFailed BY <2>4 DEF RefreshFailed, Outlives
  <2>5. CASE UNCHANGED vars BY <2>5 DEF vars, Outlives
  <2>. QED BY <2>1, <2>2, <2>3, <2>4, <2>5 DEF Next
<1>3. TypeOK /\ Outlives => NeverExpires
  BY <1>0, ScheduleAssumption DEF TypeOK, Outlives, NeverExpires
<1>. QED BY <1>1, <1>2, <1>3, ScheduleTypeCorrect, PTL DEF Spec

(* Two thirds of a lifetime, or the floor, leave the rest of it as margin. *)
LEMMA MarginOfOneLifetime ==
  ASSUME NEW L \in Nat, 6 * MaxLatency < L, MIN_REFRESH_INTERVAL + 2 * MaxLatency < L
  PROVE  RefreshInterval(L) + 2 * MaxLatency < L
<1>. DEFINE twoThirds == (L * 2) \div 3
<1>1. twoThirds \in Nat /\ 3 * twoThirds <= 2 * L
  OBVIOUS
<1>2. twoThirds + 2 * MaxLatency < L
  BY <1>1, ScheduleAssumption
<1>. QED BY <1>2, ScheduleAssumption DEF RefreshInterval

(* With an IdP that reports one lifetime for ever, as RociaDB's own does,  *)
(* the margin of refresh_interval() is enough as soon as that lifetime is  *)
(* more than six round trips, and more than the floor and two of them.     *)
THEOREM OneLifetimeNeverExpires ==
  ASSUME NEW L \in Nat, Lifetimes = {L},
         6 * MaxLatency < L, MIN_REFRESH_INTERVAL + 2 * MaxLatency < L
  PROVE  Spec => []NeverExpires
<1>1. MarginSuffices
  BY MarginOfOneLifetime DEF MarginSuffices
<1>. QED BY <1>1, NeverExpiresHolds
=============================================================================
