--------------------------- MODULE RefreshSchedule ---------------------------
(***************************************************************************)
(* When the background task of TokenManager refreshes (_refresh_loop and   *)
(* refresh_interval of src/rociadb_sdk/auth.py, spawned by connect() in    *)
(* client.py), against the lifetime of the token that is cached.  Time is  *)
(* counted in ticks and only as what remains of it, so no run is bounded   *)
(* in length.  TokenManager has the concurrency; here a refresh is one     *)
(* fetch that takes up to MaxLatency ticks.                                *)
(***************************************************************************)
EXTENDS Naturals

CONSTANTS
  Lifetimes,             \* values of expires_in that the IdP may report
  MIN_REFRESH_INTERVAL,  \* the floor of the interval
  MaxLatency,            \* longest round trip to the IdP
  FetchFailures,         \* may a refresh fail?
  EarlyRequests          \* may request_refresh() wake the task early?

ASSUME ScheduleAssumption ==
  /\ Lifetimes \subseteq Nat \ {0}
  /\ MIN_REFRESH_INTERVAL \in Nat \ {0}
  /\ MaxLatency \in Nat
  /\ FetchFailures \in BOOLEAN
  /\ EarlyRequests \in BOOLEAN

VARIABLES
  left,        \* ticks until the cached token expires
  expires_in,  \* _expires_in, as last reported
  interval,    \* the interval _refresh_loop was started with
  wait,        \* ticks until wait_for times out
  fetching,    \* is the task awaiting refresh_now()?
  latency,     \* ticks since that fetch started
  missed       \* has a refresh failed since the cached token came?

vars == <<left, expires_in, interval, wait, fetching, latency, missed>>

(* Altered form: the lifetime itself, without the margin of a third.       *)
RefreshIntervalWithoutMargin(e) ==
  IF e < MIN_REFRESH_INTERVAL THEN MIN_REFRESH_INTERVAL ELSE e

(* refresh_interval(): max(expires_in * 2 // 3, MIN_REFRESH_INTERVAL).     *)
RefreshInterval(e) ==
  LET twoThirds == (e * 2) \div 3
  IN  IF twoThirds < MIN_REFRESH_INTERVAL THEN MIN_REFRESH_INTERVAL ELSE twoThirds

TypeOK ==
  /\ left \in Nat
  /\ expires_in \in Lifetimes
  /\ interval \in {RefreshInterval(e) : e \in Lifetimes}
  /\ wait \in 0 .. interval
  /\ fetching \in BOOLEAN
  /\ latency \in 0 .. MaxLatency
  /\ missed \in BOOLEAN

(* connect() has fetched the first token and spawns the task with the      *)
(* interval of that token.                                                 *)
Init ==
  /\ expires_in \in Lifetimes
  /\ left = expires_in
  /\ interval = RefreshInterval(expires_in)
  /\ wait = interval
  /\ fetching = FALSE
  /\ latency = 0
  /\ missed = FALSE

-----------------------------------------------------------------------------
(* Time passes, but not over a timeout that is due nor over an answer.     *)
Tick ==
  /\ IF fetching THEN latency < MaxLatency ELSE wait > 0
  /\ left' = IF left > 0 THEN left - 1 ELSE 0
  /\ latency' = IF fetching THEN latency + 1 ELSE 0
  /\ wait' = IF fetching THEN wait ELSE wait - 1
  /\ UNCHANGED <<expires_in, interval, fetching, missed>>

(* wait_for times out, or request_refresh() set the event.                 *)
Wake ==
  /\ ~fetching
  /\ wait = 0 \/ EarlyRequests
  /\ fetching' = TRUE
  /\ latency' = 0
  /\ UNCHANGED <<left, expires_in, interval, wait, missed>>

(* The new token replaces the cached one.  The IdP may have issued it when *)
(* the request arrived, and its life is counted from there; the next wait  *)
(* starts only now and lasts the interval the task was started with.       *)
Refreshed(e) ==
  /\ fetching
  /\ expires_in' = e
  /\ left' = IF e > latency THEN e - latency ELSE 0
  /\ wait' = interval
  /\ fetching' = FALSE
  /\ latency' = 0
  /\ missed' = FALSE
  /\ UNCHANGED interval

(* A failed refresh is logged, and the next one comes a full interval on.  *)
RefreshFailed ==
  /\ FetchFailures
  /\ fetching
  /\ wait' = interval
  /\ fetching' = FALSE
  /\ latency' = 0
  /\ missed' = TRUE
  /\ UNCHANGED <<left, expires_in, interval>>

Next == Tick \/ Wake \/ (\E e \in Lifetimes : Refreshed(e)) \/ RefreshFailed

Spec == Init /\ [][Next]_vars

-----------------------------------------------------------------------------
(* What the property needs: every lifetime the IdP may report outlasts any *)
(* interval the task may run at, and the refreshes at both its ends.       *)
MarginSuffices ==
  \A d, e \in Lifetimes : RefreshInterval(d) + 2 * MaxLatency < e

(* The cached token never expires while no refresh has failed since it     *)
(* came: "leaving margin so the token never actually expires between two   *)
(* refreshes".                                                             *)
NeverExpires == left > 0 \/ missed
=============================================================================
