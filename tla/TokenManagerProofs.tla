------------------------- MODULE TokenManagerProofs -------------------------
(***************************************************************************)
(* What TLC checks of TokenManager on two callers and three fetches, for   *)
(* any set of callers and any number of fetches.  The safety properties    *)
(* follow from the invariant TokensConsistent, which is inductive together *)
(* with TypeOK; that the manager is a TokenSource follows from the same.   *)
(***************************************************************************)
EXTENDS TokenManager, TLAPS

(* Starting to wait for a refresh: the fetch awaited is the newest one, it *)
(* is alive, and nothing but a fresh fetch changes.                        *)
LEMMA JoinLemma ==
  ASSUME TypeOK, NEW f, Join(f)
  PROVE  /\ f \in Fetches /\ f \in 0 .. MaxFetches /\ inflight' = f
         /\ fetch' \in [Fetches -> FetchState]
         /\ fetch'[f] \notin Ended
         /\ UNCHANGED <<authorization, response, posted, issued>>
         /\ \/ NeedsFetch /\ f = inflight + 1 /\ fetch' = [fetch EXCEPT ![f] = "created"]
            \/ ~NeedsFetch /\ f = inflight /\ fetch' = fetch
<1>1. f \in Fetches /\ RefreshNow(f) /\ UNCHANGED <<authorization, response, posted, issued>>
  BY DEF Join
<1>2. f \in 0 .. MaxFetches
  BY <1>1, ConstantsAssumption DEF Fetches
<1>3. fetch \in [Fetches -> FetchState]
  BY DEF TypeOK
<1>4. CASE NeedsFetch
  BY <1>1, <1>2, <1>3, <1>4 DEF RefreshNow, FetchState, Ended
<1>5. CASE ~NeedsFetch
  <2>1. f = inflight /\ fetch' = fetch /\ inflight' = inflight
    BY <1>1, <1>5 DEF RefreshNow
  <2>. QED BY <1>1, <1>2, <1>3, <1>5, <2>1 DEF NeedsFetch, Done
<1>. QED BY <1>4, <1>5

(* Ending a call leaves a well-typed record.                               *)
LEMMA EndedCall ==
  ASSUME NEW r \in CallerState, NEW e \in Ended, NEW h \in Nat
  PROVE  [r EXCEPT !.st = e, !.header = h] \in CallerState
BY DEF CallerState, Ended

(* A call whose task was cancelled is a call still.                        *)
LEMMA ToldCall == ASSUME NEW r \in CallerState PROVE [r EXCEPT !.told = TRUE] \in CallerState
BY DEF CallerState

(* The steps of each kind keep the state well-typed.                       *)
LEMMA TypeInductive == TypeOK /\ [Next]_vars => TypeOK'
<1>. SUFFICES ASSUME TypeOK, [Next]_vars PROVE TypeOK'
  OBVIOUS
<1>. USE ConstantsAssumption DEF TypeOK, CallerState, LoopState, FetchState, Ended, Fetches
<1>a. ASSUME NEW c \in Callers, CallerStep(c) PROVE TypeOK'
  <2>1. CASE CallRefreshNow(c)
    <3>1. PICK f : Join(f) /\ caller' = [caller EXCEPT ![c] =
            [st |-> "waiting", on |-> f, told |-> FALSE,
             floor |-> authorization, header |-> 0]]
      BY <2>1 DEF CallRefreshNow
    <3>2. caller' \in [Callers -> CallerState]
      BY <3>1, JoinLemma
    <3>3. UNCHANGED <<authorization, response, posted, issued, refresh_requested, loop, handle>>
      BY <2>1, <3>1, JoinLemma DEF CallRefreshNow
    <3>4. inflight' \in 0 .. MaxFetches /\ fetch' \in [Fetches -> FetchState]
      BY <3>1, JoinLemma
    <3>. HIDE DEF CallerState, LoopState, FetchState, Ended, Fetches
    <3>. QED BY <3>2, <3>3, <3>4
  <2>2. CASE GetCachedHeader(c)
    BY <2>2 DEF GetCachedHeader, fetchVars
  <2>3. CASE GetFirstHeader(c)
    BY <2>1, <2>3 DEF GetFirstHeader
  <2>4. CASE CallerResumes(c)
    <3>. DEFINE end == IF caller[c].told THEN "cancelled" ELSE fetch[caller[c].on]
    <3>1. end \in Ended
      BY <2>4 DEF CallerResumes, Done
    <3>. DEFINE header == IF end = "ok" THEN authorization ELSE 0
    <3>2. caller' = [caller EXCEPT ![c] = [@ EXCEPT !.st = end, !.header = header]]
      BY <2>4 DEF CallerResumes
    <3>3. header \in Nat
      OBVIOUS
    <3>. HIDE DEF end, header, CallerState, LoopState, FetchState, Ended, Fetches
    <3>4. [caller[c] EXCEPT !.st = end, !.header = header] \in CallerState
      BY <3>1, <3>3, EndedCall
    <3>5. caller' \in [Callers -> CallerState]
      BY <3>2, <3>4
    <3>6. UNCHANGED <<fetchVars, refresh_requested, loop, handle>>
      BY <2>4 DEF CallerResumes
    <3>. QED BY <3>5, <3>6 DEF fetchVars
  <2>5. CASE CancelCaller(c)
    <3>1. caller' \in [Callers -> CallerState]
      <4>. HIDE DEF CallerState
      <4>1. caller' = [caller EXCEPT ![c] = [caller[c] EXCEPT !.told = TRUE]]
        BY <2>5 DEF CancelCaller
      <4>2. [caller[c] EXCEPT !.told = TRUE] \in CallerState
        BY ToldCall
      <4>. QED BY <4>1, <4>2
    <3>2. fetch' \in [Fetches -> FetchState]
      BY <2>5 DEF CancelCaller, CancelFetch
    <3>3. UNCHANGED <<authorization, inflight, response, posted, issued, refresh_requested, loop, handle>>
      BY <2>5 DEF CancelCaller
    <3>. HIDE DEF CallerState, LoopState, FetchState, Ended, Fetches
    <3>. QED BY <3>1, <3>2, <3>3
  <2>. QED BY <1>a, <2>1, <2>2, <2>3, <2>4, <2>5 DEF CallerStep
<1>b. ASSUME NEW f \in Fetches, FetchStep(f) PROVE TypeOK'
  <2>1. CASE StartFetch(f) BY <2>1 DEF StartFetch
  <2>2. CASE IssueToken(f) BY <2>2 DEF IssueToken
  <2>3. CASE FetchReturns(f) BY <2>3 DEF FetchReturns
  <2>4. CASE FetchFails(f) BY <2>4 DEF FetchFails
  <2>5. CASE FetchCancelled(f) BY <2>5 DEF FetchCancelled
  <2>. QED BY <1>b, <2>1, <2>2, <2>3, <2>4, <2>5 DEF FetchStep
<1>c. ASSUME LoopStep PROVE TypeOK'
  <2>1. CASE RequestRefresh BY <2>1 DEF RequestRefresh, fetchVars
  <2>2. CASE SpawnRefresh BY <2>2 DEF SpawnRefresh, fetchVars
  <2>3. CASE LoopStarts BY <2>3 DEF LoopStarts, fetchVars
  <2>4. CASE LoopWoken
    <3>1. PICK f : Join(f) /\ loop' = [loop EXCEPT !.st = "waiting", !.on = f]
      BY <2>4 DEF LoopWoken
    <3>. QED BY <2>4, <3>1, JoinLemma DEF LoopWoken
  <2>5. CASE LoopTick
    <3>1. PICK f : Join(f) /\ loop' = [loop EXCEPT !.st = "waiting", !.on = f]
      BY <2>5 DEF LoopTick
    <3>. QED BY <2>5, <3>1, JoinLemma DEF LoopTick
  <2>6. CASE LoopResumes BY <2>6 DEF LoopResumes, fetchVars, Done
  <2>7. CASE LoopCancelled BY <2>7 DEF LoopCancelled, fetchVars
  <2>8. CASE Aclose BY <2>8 DEF Aclose, CancelLoop, CancelFetch
  <2>9. CASE AcloseResumes BY <2>9 DEF AcloseResumes, fetchVars
  <2>. QED BY <1>c, <2>1, <2>2, <2>3, <2>4, <2>5, <2>6, <2>7, <2>8, <2>9 DEF LoopStep
<1>d. CASE UNCHANGED vars
  BY <1>d DEF vars, fetchVars
<1>. QED BY <1>a, <1>b, <1>c, <1>d DEF Next

(* Every reachable state of the manager, its callers and its background    *)
(* task is well-typed.                                                     *)
THEOREM TypeCorrect == Spec => []TypeOK
<1>1. Init => TypeOK
  <2>. SUFFICES ASSUME Init PROVE TypeOK
    OBVIOUS
  <2>1. 0 \in 0 .. MaxFetches /\ 0 \in Nat
    BY ConstantsAssumption
  <2>2. fetch \in [Fetches -> FetchState] /\ response \in [Fetches -> Nat]
    BY DEF Init, FetchState
  <2>3. caller \in [Callers -> CallerState] /\ loop \in LoopState
    BY <2>1 DEF Init, CallerState, LoopState
  <2>. QED BY <2>1, <2>2, <2>3 DEF Init, TypeOK
<1>. QED BY <1>1, TypeInductive, PTL DEF Spec

-----------------------------------------------------------------------------
(* A fetch that is cancelled was the newest, if it was alive at all, and   *)
(* stays the only one alive; no answer and no wait is touched.             *)
LEMMA CancelKeepsFetches ==
  ASSUME TypeOK, TokensConsistent, NEW f, CancelFetch(f),
         UNCHANGED <<authorization, inflight, response, posted, issued>>
  PROVE  /\ OnlyNewestLive' /\ AnswersAreIssued' /\ LiveAnswersAreNewer'
         /\ \A g \in Fetches : fetch'[g] = "ok" => fetch[g] = "ok"
BY DEF TypeOK, TokensConsistent, OnlyNewestLive, AnswersAreIssued, LiveAnswersAreNewer,
       CancelFetch, Live, FetchState, Ended

(* So does a task that joins the newest fetch or starts the next one: it   *)
(* only starts one when the last has ended, so that nothing is alive.      *)
LEMMA JoinKeepsFetches ==
  ASSUME TypeOK, TokensConsistent, NEW f, Join(f)
  PROVE  /\ OnlyNewestLive' /\ AnswersAreIssued' /\ LiveAnswersAreNewer'
         /\ \A g \in Fetches : fetch'[g] = "ok" => fetch[g] = "ok"
<1>1. CASE NeedsFetch /\ f = inflight + 1 /\ fetch' = [fetch EXCEPT ![f] = "created"]
  <2>1. \A g \in Fetches : ~Live(g)
    BY <1>1 DEF TokensConsistent, OnlyNewestLive, NeedsFetch, Live, Done, Ended
  <2>2. f \notin posted /\ response[f] = 0
    <3>1. f \in Fetches
      BY JoinLemma
    <3>2. f > inflight
      BY <1>1, ConstantsAssumption DEF TypeOK
    <3>. QED BY <3>1, <3>2 DEF TokensConsistent, OnlyNewestLive, AnswersAreIssued
  <2>3. inflight' = f /\ f \in Fetches /\ UNCHANGED <<authorization, response, posted, issued>>
    BY JoinLemma
  <2>4. OnlyNewestLive'
    BY <1>1, <2>1, <2>3 DEF TypeOK, TokensConsistent, OnlyNewestLive, Live, Fetches
  <2>5. \A g \in Fetches : fetch'[g] = IF g = f THEN "created" ELSE fetch[g]
    BY <1>1, <2>3 DEF TypeOK
  <2>6. AnswersAreIssued'
    BY <2>2, <2>3, <2>5 DEF TokensConsistent, AnswersAreIssued
  <2>7. LiveAnswersAreNewer'
    BY <2>3, <2>5 DEF TokensConsistent, LiveAnswersAreNewer
  <2>. QED BY <2>4, <2>5, <2>6, <2>7
<1>2. CASE ~NeedsFetch /\ f = inflight /\ fetch' = fetch
  <2>1. UNCHANGED <<authorization, inflight, fetch, response, posted, issued>>
    BY <1>2, JoinLemma
  <2>. QED BY <2>1 DEF TokensConsistent, OnlyNewestLive, AnswersAreIssued, LiveAnswersAreNewer, Live
<1>. QED BY <1>1, <1>2, JoinLemma

(* Waiting calls still improve on their floor as long as no call changes,  *)
(* no fetch succeeds and the header does not.                              *)
LEMMA WaitersUndisturbed ==
  ASSUME TokensConsistent, UNCHANGED <<authorization, caller>>,
         \A g \in Fetches : fetch'[g] = "ok" => fetch[g] = "ok"
  PROVE  WaitersImprove'
BY DEF TokensConsistent, WaitersImprove

(* The invariant the safety properties rest on is inductive.               *)
LEMMA ConsistentInductive ==
  TypeOK /\ TypeOK' /\ TokensConsistent /\ [Next]_vars => TokensConsistent'
<1>. SUFFICES ASSUME TypeOK, TypeOK', TokensConsistent, [Next]_vars PROVE TokensConsistent'
  OBVIOUS
<1>a. ASSUME NEW c \in Callers, CallerStep(c) PROVE TokensConsistent'
  <2>1. CASE CallRefreshNow(c)
    <3>1. PICK f : Join(f) /\ caller' = [caller EXCEPT ![c] =
            [st |-> "waiting", on |-> f, told |-> FALSE,
             floor |-> authorization, header |-> 0]]
      BY <2>1 DEF CallRefreshNow
    <3>2. WaitersImprove'
      BY <3>1, JoinLemma, JoinKeepsFetches DEF TypeOK, TokensConsistent, WaitersImprove, Ended
    <3>. QED BY <3>1, <3>2, JoinKeepsFetches DEF TokensConsistent
  <2>2. CASE GetCachedHeader(c)
    BY <2>2 DEF GetCachedHeader, fetchVars, TypeOK, TokensConsistent, OnlyNewestLive,
                AnswersAreIssued, LiveAnswersAreNewer, WaitersImprove, Live
  <2>3. CASE GetFirstHeader(c)
    BY <2>1, <2>3 DEF GetFirstHeader
  <2>4. CASE CallerResumes(c)
    <3>1. \A d \in Callers : caller'[d].st = "waiting" => caller'[d] = caller[d]
      <4>. DEFINE end == IF caller[c].told THEN "cancelled" ELSE fetch[caller[c].on]
      <4>. DEFINE header == IF end = "ok" THEN authorization ELSE 0
      <4>1. end # "waiting"
        BY <2>4 DEF CallerResumes, Done, Ended
      <4>2. caller' = [caller EXCEPT ![c] = [@ EXCEPT !.st = end, !.header = header]]
        BY <2>4 DEF CallerResumes
      <4>. HIDE DEF end, header
      <4>. QED BY <4>1, <4>2 DEF TypeOK, CallerState
    <3>2. UNCHANGED fetchVars
      BY <2>4 DEF CallerResumes
    <3>. QED BY <3>1, <3>2 DEF fetchVars, TokensConsistent, OnlyNewestLive, AnswersAreIssued,
                               LiveAnswersAreNewer, WaitersImprove, Live
  <2>5. CASE CancelCaller(c)
    <3>1. CancelFetch(caller[c].on) /\ UNCHANGED <<authorization, inflight, response, posted, issued>>
      BY <2>5 DEF CancelCaller
    <3>2. \A d \in Callers : /\ caller'[d].st = caller[d].st /\ caller'[d].on = caller[d].on
                             /\ caller'[d].floor = caller[d].floor
      BY <2>5 DEF CancelCaller, TypeOK, CallerState
    <3>3. WaitersImprove'
      BY <3>1, <3>2, CancelKeepsFetches DEF TokensConsistent, WaitersImprove
    <3>. QED BY <3>1, <3>3, CancelKeepsFetches DEF TokensConsistent
  <2>. QED BY <1>a, <2>1, <2>2, <2>3, <2>4, <2>5 DEF CallerStep
<1>b. ASSUME NEW f \in Fetches, FetchStep(f) PROVE TokensConsistent'
  <2>. USE DEF TypeOK, TokensConsistent, OnlyNewestLive, AnswersAreIssued, LiveAnswersAreNewer, Live
  <2>1. CASE StartFetch(f)
    BY <2>1, WaitersUndisturbed DEF StartFetch
  <2>2. CASE IssueToken(f)
    <3>1. WaitersImprove'
      BY <2>2, WaitersUndisturbed DEF IssueToken
    <3>. QED BY <2>2, <3>1 DEF IssueToken
  <2>3. CASE FetchReturns(f)
    <3>1. authorization' > authorization
      BY <2>3 DEF FetchReturns
    <3>2. WaitersImprove'
      BY <2>3, <3>1 DEF FetchReturns, WaitersImprove, CallerState
    <3>. QED BY <2>3, <3>2 DEF FetchReturns
  <2>4. CASE FetchFails(f)
    BY <2>4, WaitersUndisturbed DEF FetchFails
  <2>5. CASE FetchCancelled(f)
    BY <2>5, WaitersUndisturbed DEF FetchCancelled
  <2>. QED BY <1>b, <2>1, <2>2, <2>3, <2>4, <2>5 DEF FetchStep
<1>c. ASSUME UNCHANGED <<fetchVars, caller>> PROVE TokensConsistent'
  BY <1>c DEF fetchVars, TokensConsistent, OnlyNewestLive, AnswersAreIssued,
              LiveAnswersAreNewer, WaitersImprove, Live
<1>d. ASSUME NEW f, Join(f), UNCHANGED caller PROVE TokensConsistent'
  <2>1. UNCHANGED <<authorization, caller>>
    BY <1>d, JoinLemma
  <2>. QED BY <1>d, <2>1, JoinKeepsFetches, WaitersUndisturbed DEF TokensConsistent
<1>e. ASSUME LoopStep PROVE TokensConsistent'
  <2>1. CASE RequestRefresh BY <2>1, <1>c DEF RequestRefresh
  <2>2. CASE SpawnRefresh BY <2>2, <1>c DEF SpawnRefresh
  <2>3. CASE LoopStarts BY <2>3, <1>c DEF LoopStarts
  <2>4. CASE LoopWoken BY <2>4, <1>d DEF LoopWoken
  <2>5. CASE LoopTick BY <2>5, <1>d DEF LoopTick
  <2>6. CASE LoopResumes BY <2>6, <1>c DEF LoopResumes
  <2>7. CASE LoopCancelled BY <2>7, <1>c DEF LoopCancelled
  <2>8. CASE Aclose
    <3>1. CASE loop.st = "waiting"
      <4>1. CancelFetch(loop.on) /\ UNCHANGED <<authorization, inflight, response, posted, issued, caller>>
        BY <2>8, <3>1 DEF Aclose, CancelLoop
      <4>. QED BY <4>1, CancelKeepsFetches, WaitersUndisturbed DEF TokensConsistent
    <3>2. CASE loop.st # "waiting"
      BY <2>8, <3>2, <1>c DEF Aclose, CancelLoop, fetchVars
    <3>. QED BY <3>1, <3>2
  <2>9. CASE AcloseResumes BY <2>9, <1>c DEF AcloseResumes
  <2>. QED BY <1>e, <2>1, <2>2, <2>3, <2>4, <2>5, <2>6, <2>7, <2>8, <2>9 DEF LoopStep
<1>f. CASE UNCHANGED vars
  BY <1>f, <1>c DEF vars
<1>. QED BY <1>a, <1>b, <1>e, <1>f DEF Next

(* What the call that resumes with the header gets is newer than its floor. *)
LEMMA AdvanceInductive ==
  TypeOK /\ TokensConsistent /\ RefreshAdvances /\ [Next]_vars => RefreshAdvances'
<1>. SUFFICES ASSUME TypeOK, TokensConsistent, RefreshAdvances, [Next]_vars PROVE RefreshAdvances'
  OBVIOUS
<1>1. ASSUME NEW c \in Callers, CallerStep(c) PROVE RefreshAdvances'
  <2>1. CASE CallRefreshNow(c)
    BY <2>1 DEF CallRefreshNow, RefreshAdvances, TypeOK
  <2>2. CASE GetCachedHeader(c)
    BY <2>2 DEF GetCachedHeader, fetchVars, RefreshAdvances, TypeOK
  <2>3. CASE GetFirstHeader(c)
    BY <2>1, <2>3 DEF GetFirstHeader
  <2>4. CASE CallerResumes(c)
    <3>. DEFINE end == IF caller[c].told THEN "cancelled" ELSE fetch[caller[c].on]
    <3>. DEFINE header == IF end = "ok" THEN authorization ELSE 0
    <3>1. end = "ok" => header > caller[c].floor
      BY <2>4 DEF CallerResumes, TypeOK, CallerState, TokensConsistent, WaitersImprove
    <3>2. caller' = [caller EXCEPT ![c] = [@ EXCEPT !.st = end, !.header = header]]
      BY <2>4 DEF CallerResumes
    <3>. HIDE DEF end, header
    <3>. QED BY <3>1, <3>2 DEF RefreshAdvances, TypeOK, CallerState
  <2>5. CASE CancelCaller(c)
    BY <2>5 DEF CancelCaller, RefreshAdvances, TypeOK, CallerState
  <2>. QED BY <1>1, <2>1, <2>2, <2>3, <2>4, <2>5 DEF CallerStep
<1>2. ASSUME UNCHANGED caller PROVE RefreshAdvances'
  BY <1>2 DEF RefreshAdvances
<1>3. ASSUME NEW f \in Fetches, FetchStep(f) PROVE UNCHANGED caller
  BY <1>3 DEF FetchStep, StartFetch, IssueToken, FetchReturns, FetchFails, FetchCancelled
<1>4. ASSUME LoopStep PROVE UNCHANGED caller
  BY <1>4 DEF LoopStep, RequestRefresh, SpawnRefresh, LoopStarts, LoopWoken, LoopTick,
              LoopResumes, LoopCancelled, Aclose, AcloseResumes
<1>. QED BY <1>1, <1>2, <1>3, <1>4 DEF Next, vars

-----------------------------------------------------------------------------
(* The life of a fetch, as one step moves it on.                           *)
MovesOn(f) ==
  \/ fetch'[f] = fetch[f]
  \/ fetch[f] = "new" /\ fetch'[f] = "created"
  \/ fetch[f] = "created" /\ fetch'[f] = "posting"
  \/ fetch[f] = "posting" /\ fetch'[f] \in {"ok", "failed", "raised"}
  \/ Live(f) /\ fetch'[f] = "cancelling"
  \/ fetch[f] = "cancelling" /\ fetch'[f] = "cancelled"

LEMMA CancelMovesOn ==
  ASSUME TypeOK, NEW g, CancelFetch(g), NEW f \in Fetches PROVE MovesOn(f)
BY DEF CancelFetch, TypeOK, MovesOn

LEMMA FetchMovesOn ==
  ASSUME TypeOK, TokensConsistent, [Next]_vars, NEW f \in Fetches PROVE MovesOn(f)
<1>1. ASSUME NEW g, Join(g) PROVE MovesOn(f)
  <2>1. CASE NeedsFetch /\ g = inflight + 1 /\ fetch' = [fetch EXCEPT ![g] = "created"]
    <3>1. g \in Fetches /\ inflight \in Nat
      BY <1>1, JoinLemma, ConstantsAssumption DEF TypeOK
    <3>2. fetch[g] = "new"
      BY <2>1, <3>1 DEF TokensConsistent, OnlyNewestLive
    <3>. QED BY <2>1, <3>2 DEF TypeOK, MovesOn
  <2>. QED BY <1>1, <2>1, JoinLemma DEF MovesOn
<1>2. ASSUME NEW c \in Callers, CallerStep(c) PROVE MovesOn(f)
  <2>1. ASSUME UNCHANGED fetch PROVE MovesOn(f)
    BY <2>1 DEF MovesOn
  <2>. QED BY <1>1, <1>2, <2>1, CancelMovesOn DEF CallerStep, CallRefreshNow, GetCachedHeader,
                GetFirstHeader, CallerResumes, CancelCaller, fetchVars
<1>3. ASSUME NEW g \in Fetches, FetchStep(g) PROVE MovesOn(f)
  BY <1>3 DEF FetchStep, StartFetch, IssueToken, FetchReturns, FetchFails, FetchCancelled,
              TypeOK, MovesOn
<1>4. ASSUME LoopStep PROVE MovesOn(f)
  <2>1. ASSUME UNCHANGED fetch PROVE MovesOn(f)
    BY <2>1 DEF MovesOn
  <2>. QED BY <1>1, <1>4, <2>1, CancelMovesOn DEF LoopStep, RequestRefresh, SpawnRefresh, LoopStarts,
        LoopWoken, LoopTick, LoopResumes, LoopCancelled, Aclose, CancelLoop, AcloseResumes, fetchVars
<1>. QED BY <1>2, <1>3, <1>4 DEF Next, vars, fetchVars, MovesOn

(* So a fetch that has ended stays as it ended, and a wait that can end    *)
(* without the IdP still can.                                              *)
LEMMA EndedStays ==
  ASSUME TypeOK, TokensConsistent, [Next]_vars, NEW f \in Fetches, Done(f)
  PROVE  fetch'[f] = fetch[f]
BY FetchMovesOn DEF MovesOn, Done, Ended, Live

LEMMA CanEndStays ==
  ASSUME NEW f, f \in Fetches => MovesOn(f), NEW told, CanEnd(f, told) PROVE CanEnd(f, told)'
BY DEF CanEnd, MovesOn, Live, Ended

(* A task that starts to wait, waits for a fetch that was started.         *)
LEMMA JoinedCanEnd ==
  ASSUME TypeOK, TokensConsistent, NEW f, Join(f) PROVE CanEnd(f, FALSE)'
<1>1. f \in Fetches
  BY JoinLemma
<1>2. CASE NeedsFetch /\ f = inflight + 1 /\ fetch' = [fetch EXCEPT ![f] = "created"]
  BY <1>1, <1>2 DEF TypeOK, CanEnd
<1>3. CASE ~NeedsFetch /\ f = inflight /\ fetch' = fetch
  <2>1. ~(f > inflight)
    BY <1>1, <1>3 DEF Fetches
  <2>. QED BY <1>1, <1>3, <2>1 DEF TokensConsistent, OnlyNewestLive, CanEnd
<1>. QED BY <1>2, <1>3, JoinLemma

(* Who is cancelled as it waits cancels what it waits for.                 *)
LEMMA CancelledCanEnd ==
  ASSUME TypeOK, NEW f, NEW told, CanEnd(f, told), CancelFetch(f) PROVE CanEnd(f, TRUE)'
BY DEF TypeOK, CanEnd, CancelFetch, Live, FetchState, Ended

(* Cancelling the background task, by aclose() or through it.              *)
LEMMA CancelLoopCanEnd ==
  ASSUME TypeOK, CancelledWaitsEnd, CancelLoop, UNCHANGED caller
  PROVE  CancelledWaitsEnd'
<1>1. ASSUME NEW f \in Fetches PROVE MovesOn(f)
  <2>1. CASE loop.st = "waiting"
    BY <2>1, CancelMovesOn DEF CancelLoop
  <2>2. CASE loop.st # "waiting"
    BY <2>2 DEF CancelLoop, MovesOn
  <2>. QED BY <2>1, <2>2
<1>2. \A c \in Callers : caller'[c].st = "waiting" => CanEnd(caller[c].on, caller[c].told)'
  BY <1>1, CanEndStays DEF CancelledWaitsEnd
<1>3. CASE loop.st = "waiting"
  <2>1. loop' = [loop EXCEPT !.told = TRUE]
    BY <1>3 DEF CancelLoop, SwallowsCancel
  <2>2. CancelFetch(loop.on) /\ CanEnd(loop.on, loop.told)
    BY <1>3 DEF CancelLoop, CancelledWaitsEnd
  <2>3. loop'.on = loop.on
    BY <2>1 DEF TypeOK, LoopState
  <2>4. CanEnd(loop.on, TRUE)'
    BY <2>2, <2>3, CancelledCanEnd DEF CanEnd
  <2>. QED BY <1>2, <2>1, <2>4 DEF CancelledWaitsEnd, CanEnd, TypeOK, LoopState
<1>4. CASE loop.st # "waiting"
  BY <1>2, <1>4 DEF CancelLoop, CancelledWaitsEnd, CanEnd, TypeOK, LoopState
<1>. QED BY <1>3, <1>4

(* Cancelling a caller.                                                    *)
LEMMA CancelCallerCanEnd ==
  ASSUME TypeOK, CancelledWaitsEnd, NEW c \in Callers, CancelFetch(caller[c].on),
         caller' = [caller EXCEPT ![c].told = TRUE], UNCHANGED loop
  PROVE  CancelledWaitsEnd'
<1>1. ASSUME NEW f, NEW told, CanEnd(f, told) PROVE CanEnd(f, told)'
  BY <1>1, CancelMovesOn, CanEndStays
<1>2. loop'.st = "waiting" => CanEnd(loop.on, loop.told)'
  BY <1>1 DEF CancelledWaitsEnd, CanEnd
<1>3. ASSUME NEW d \in Callers, caller'[d].st = "waiting" PROVE CanEnd(caller[d].on, caller[d].told)'
  <2>1. caller[d].st = "waiting" /\ caller'[d].on = caller[d].on
    BY <1>3 DEF TypeOK, CallerState
  <2>2. CASE d = c
    <3>1. CanEnd(caller[c].on, TRUE)'
      BY <2>1, <2>2, CancelledCanEnd DEF CancelledWaitsEnd, CanEnd
    <3>. QED BY <2>1, <2>2, <3>1 DEF CanEnd
  <2>3. CASE d # c
    BY <1>1, <2>1, <2>3 DEF CancelledWaitsEnd, CanEnd
  <2>. QED BY <2>2, <2>3
<1>. QED BY <1>2, <1>3 DEF CancelledWaitsEnd

LEMMA CancelledInductive ==
  TypeOK /\ TokensConsistent /\ CancelledWaitsEnd /\ [Next]_vars => CancelledWaitsEnd'
<1>. SUFFICES ASSUME TypeOK, TokensConsistent, CancelledWaitsEnd, [Next]_vars
              PROVE  CancelledWaitsEnd'
  OBVIOUS
<1>1. ASSUME NEW f, NEW told, CanEnd(f, told) PROVE CanEnd(f, told)'
  BY <1>1, FetchMovesOn, CanEndStays
<1>2. ASSUME NEW c \in Callers, caller'[c] = caller[c], caller[c].st = "waiting"
      PROVE  CanEnd(caller[c].on, caller[c].told)'
  BY <1>1, <1>2 DEF CancelledWaitsEnd, CanEnd
<1>3. ASSUME UNCHANGED <<caller, loop>> PROVE CancelledWaitsEnd'
  BY <1>1, <1>3 DEF CancelledWaitsEnd, CanEnd
<1>4. ASSUME UNCHANGED caller, \/ loop'.st # "waiting"
                               \/ \E f : loop' = [loop EXCEPT !.st = "waiting", !.on = f] /\ Join(f)
                                        /\ ~loop.told
      PROVE  CancelledWaitsEnd'
  <2>1. loop'.st = "waiting" => CanEnd(loop.on, loop.told)'
    <3>1. SUFFICES ASSUME NEW f, loop' = [loop EXCEPT !.st = "waiting", !.on = f], Join(f), ~loop.told
                   PROVE  CanEnd(loop.on, loop.told)'
      BY <1>4
    <3>2. loop'.on = f /\ loop'.told = FALSE
      BY <3>1 DEF TypeOK, LoopState
    <3>. QED BY <3>1, <3>2, JoinedCanEnd DEF CanEnd
  <2>. QED BY <1>2, <1>4, <2>1 DEF CancelledWaitsEnd
<1>5. ASSUME NEW c \in Callers, CallerStep(c) PROVE CancelledWaitsEnd'
  <2>1. UNCHANGED loop
    BY <1>5 DEF CallerStep, CallRefreshNow, GetCachedHeader, GetFirstHeader, CallerResumes, CancelCaller
  <2>2. loop'.st = "waiting" => CanEnd(loop.on, loop.told)'
    BY <1>1, <2>1 DEF CancelledWaitsEnd, CanEnd
  <2>3. \A d \in Callers : d # c => caller'[d] = caller[d]
    BY <1>5 DEF CallerStep, CallRefreshNow, GetCachedHeader, GetFirstHeader, CallerResumes,
                CancelCaller, TypeOK
  <2>4. CASE CallRefreshNow(c)
    <3>1. PICK f : Join(f) /\ caller' = [caller EXCEPT ![c] =
            [st |-> "waiting", on |-> f, told |-> FALSE,
             floor |-> authorization, header |-> 0]]
      BY <2>4 DEF CallRefreshNow
    <3>2. caller'[c].on = f /\ caller'[c].told = FALSE
      BY <3>1 DEF TypeOK
    <3>3. CanEnd(caller[c].on, caller[c].told)'
      BY <3>1, <3>2, JoinedCanEnd DEF CanEnd
    <3>. QED BY <1>2, <2>2, <2>3, <3>3 DEF CancelledWaitsEnd
  <2>5. CASE CancelCaller(c)
    <3>1. /\ caller[c].st = "waiting" /\ CancelFetch(caller[c].on)
          /\ caller' = [caller EXCEPT ![c].told = TRUE]
      BY <2>5 DEF CancelCaller
    <3>. QED BY <2>1, <3>1, CancelCallerCanEnd
  <2>6. CASE GetCachedHeader(c)
    <3>1. caller'[c].st # "waiting"
      BY <2>6 DEF GetCachedHeader, TypeOK
    <3>. QED BY <1>2, <2>2, <2>3, <3>1 DEF CancelledWaitsEnd
  <2>7. CASE CallerResumes(c)
    <3>. DEFINE end == IF caller[c].told THEN "cancelled" ELSE fetch[caller[c].on]
                header == IF end = "ok" THEN authorization ELSE 0
    <3>1. end # "waiting"
      BY <2>7 DEF CallerResumes, Done, Ended
    <3>2. caller' = [caller EXCEPT ![c] = [@ EXCEPT !.st = end, !.header = header]]
      BY <2>7 DEF CallerResumes
    <3>. HIDE DEF end, header
    <3>3. caller'[c].st # "waiting"
      BY <3>1, <3>2 DEF TypeOK, CallerState
    <3>. QED BY <1>2, <2>2, <2>3, <3>3 DEF CancelledWaitsEnd
  <2>. QED BY <1>5, <2>4, <2>5, <2>6, <2>7 DEF CallerStep, GetFirstHeader
<1>6. ASSUME NEW f \in Fetches, FetchStep(f) PROVE UNCHANGED <<caller, loop>>
  BY <1>6 DEF FetchStep, StartFetch, IssueToken, FetchReturns, FetchFails, FetchCancelled
<1>7. ASSUME LoopStep PROVE CancelledWaitsEnd'
  <2>1. CASE RequestRefresh \/ AcloseResumes
    BY <1>3, <2>1 DEF RequestRefresh, AcloseResumes
  <2>2. CASE SpawnRefresh \/ LoopStarts \/ LoopCancelled
    BY <1>4, <2>2 DEF SpawnRefresh, LoopStarts, LoopCancelled, TypeOK, LoopState
  <2>3. CASE LoopWoken \/ LoopTick
    BY <1>4, <2>3 DEF LoopWoken, LoopTick
  <2>4. CASE LoopResumes
    <3>. DEFINE end == IF loop.told THEN "cancelled" ELSE fetch[loop.on]
    <3>1. loop' = [loop EXCEPT !.st = IF end \in {"ok", "failed"} THEN "sleeping" ELSE end]
      BY <2>4 DEF LoopResumes
    <3>2. end # "waiting" /\ UNCHANGED caller
      BY <2>4 DEF LoopResumes, Done, Ended
    <3>. HIDE DEF end
    <3>. QED BY <1>4, <3>1, <3>2 DEF TypeOK, LoopState
  <2>5. CASE Aclose
    BY <2>5, CancelLoopCanEnd DEF Aclose
  <2>. QED BY <1>7, <2>1, <2>2, <2>3, <2>4, <2>5 DEF LoopStep
<1>. QED BY <1>3, <1>5, <1>6, <1>7 DEF Next, vars

(* The invariant holds initially and is kept.                               *)
THEOREM Consistency == Spec => []Consistent
<1>1. Init => TokensConsistent
  BY DEF Init, TokensConsistent, OnlyNewestLive, AnswersAreIssued, LiveAnswersAreNewer,
         WaitersImprove, Live, Fetches
<1>2. TypeOK /\ TypeOK' /\ TokensConsistent /\ [Next]_vars => TokensConsistent'
  BY ConsistentInductive
<1>3. Init => CancelledWaitsEnd
  BY DEF Init, CancelledWaitsEnd
<1>. QED BY <1>1, <1>2, <1>3, CancelledInductive, TypeCorrect, PTL DEF Spec, Consistent

(* Concurrent refreshes share one fetch: never two _do_refresh tasks alive. *)
THEOREM SingleFlightHolds == Spec => []SingleFlight
<1>1. Consistent => SingleFlight
  BY DEF Consistent, TokensConsistent, OnlyNewestLive, SingleFlight
<1>. QED BY <1>1, Consistency, PTL

(* A refresh_now() that returns leaves a header newer than the one cached   *)
(* at the call.                                                             *)
THEOREM RefreshAdvancesHolds == Spec => []RefreshAdvances
<1>1. Init => RefreshAdvances
  BY DEF Init, RefreshAdvances
<1>. QED BY <1>1, AdvanceInductive, TypeCorrect, Consistency, PTL DEF Spec, Consistent

-----------------------------------------------------------------------------
(* What a step means to those who ask: a fetch that returns renews the     *)
(* token, a call that resumes is answered or refused, and nothing else of  *)
(* a fetch, of the background task or of a cancellation is to be seen.     *)
LEMMA RequestOf ==
  ASSUME NEW c \in Callers
  PROVE  Request[c] = [st     |-> CASE caller[c].st = "idle" -> "idle"
                                   [] caller[c].st = "waiting" -> "asking"
                                   [] caller[c].st = "ok" -> "answered"
                                   [] OTHER -> "refused",
                       floor  |-> caller[c].floor,
                       header |-> caller[c].header]
BY DEF Request

(* That a caller was told to stop is not to be seen either.                *)
LEMMA ToldUnseen ==
  ASSUME TypeOK, NEW c \in Callers, caller' = [caller EXCEPT ![c].told = TRUE]
  PROVE  UNCHANGED Request
BY DEF TypeOK, CallerState, Request

LEMMA SourceStep ==
  TypeOK /\ TokensConsistent /\ [Next]_vars => [Source!Next]_<<authorization, Request>>
<1>. SUFFICES ASSUME TypeOK, TokensConsistent, [Next]_vars
              PROVE  [Source!Next]_<<authorization, Request>>
  OBVIOUS
<1>1. ASSUME UNCHANGED caller PROVE UNCHANGED Request
  BY <1>1 DEF Request
<1>2. ASSUME NEW c \in Callers, CallerStep(c) PROVE [Source!Next]_<<authorization, Request>>
  <2>1. CASE CallRefreshNow(c)
    <3>1. PICK f : Join(f) /\ caller' = [caller EXCEPT ![c] =
            [st |-> "waiting", on |-> f, told |-> FALSE,
             floor |-> authorization, header |-> 0]]
      BY <2>1 DEF CallRefreshNow
    <3>2. UNCHANGED authorization /\ Request[c].st # "asking"
      BY <2>1, <3>1, JoinLemma DEF CallRefreshNow, Request
    <3>3. Request' = [Request EXCEPT ![c] = [st |-> "asking", floor |-> authorization, header |-> 0]]
      BY <3>1 DEF Request, TypeOK
    <3>4. Source!Ask(c)
      BY <3>2, <3>3 DEF Source!Ask
    <3>. QED BY <3>4 DEF Source!Next
  <2>2. CASE GetCachedHeader(c)
    <3>1. UNCHANGED authorization /\ authorization # 0 /\ Request[c].st # "asking"
      BY <2>2 DEF GetCachedHeader, fetchVars, Request
    <3>2. Request' = [Request EXCEPT ![c] = [st |-> "answered", floor |-> 0, header |-> authorization]]
      BY <2>2 DEF GetCachedHeader, Request, TypeOK
    <3>3. Source!AnswerAtOnce(c)
      BY <3>1, <3>2 DEF Source!AnswerAtOnce
    <3>. QED BY <3>3 DEF Source!Next
  <2>3. CASE GetFirstHeader(c)
    BY <2>1, <2>3 DEF GetFirstHeader
  <2>4. CASE CallerResumes(c)
    <3>. DEFINE end == IF caller[c].told THEN "cancelled" ELSE fetch[caller[c].on]
    <3>. DEFINE header == IF end = "ok" THEN authorization ELSE 0
    <3>1. end \in Ended /\ Request[c].st = "asking" /\ UNCHANGED authorization
      BY <2>4 DEF CallerResumes, Done, Request, fetchVars, Ended
    <3>2. end = "ok" => header = authorization /\ authorization > Request[c].floor
      BY <2>4 DEF CallerResumes, TypeOK, CallerState, TokensConsistent, WaitersImprove, Request
    <3>3. caller' = [caller EXCEPT ![c] = [@ EXCEPT !.st = end, !.header = header]]
      BY <2>4 DEF CallerResumes
    <3>4. end # "ok" => header = 0
      OBVIOUS
    <3>. HIDE DEF end, header
    <3>. DEFINE st == IF end = "ok" THEN "answered" ELSE "refused"
                entry == [st |-> st, floor |-> Request[c].floor, header |-> header]
    <3>5. Request' = [Request EXCEPT ![c] = entry]
      <4>1. ASSUME NEW d \in Callers, d # c PROVE caller'[d] = caller[d]
        BY <3>3, <4>1 DEF TypeOK
      <4>2. /\ caller'[c].st = end /\ caller'[c].header = header
            /\ caller'[c].floor = caller[c].floor
        BY <3>3 DEF TypeOK, CallerState
      <4>3. Request'[c] = entry
        BY <3>1, <4>2 DEF Request, Ended
      <4>4. \A d \in Callers : d # c => Request'[d] = Request[d]
        BY <4>1 DEF Request
      <4>5. /\ Request = [d \in Callers |-> Request[d]]
            /\ Request' = [d \in Callers |-> Request'[d]]
        BY DEF Request
      <4>. HIDE DEF entry, Request
      <4>. QED BY <4>3, <4>4, <4>5
    <3>6. Source!Answer(c) \/ Source!Refuse(c)
      BY <3>1, <3>2, <3>4, <3>5 DEF Source!Answer, Source!Refuse
    <3>. QED BY <3>6 DEF Source!Next
  <2>5. CASE CancelCaller(c)
    BY <2>5, ToldUnseen DEF CancelCaller
  <2>. QED BY <1>2, <2>1, <2>2, <2>3, <2>4, <2>5 DEF CallerStep
<1>3. ASSUME NEW f \in Fetches, FetchStep(f) PROVE [Source!Next]_<<authorization, Request>>
  <2>1. UNCHANGED Request
    BY <1>1, <1>3 DEF FetchStep, StartFetch, IssueToken, FetchReturns, FetchFails, FetchCancelled
  <2>2. CASE FetchReturns(f)
    <3>1. authorization' > authorization /\ authorization' \in Nat
      BY <2>2 DEF FetchReturns, TokensConsistent, LiveAnswersAreNewer, TypeOK
    <3>. QED BY <2>1, <3>1 DEF Source!Renew, Source!Next
  <2>3. CASE ~FetchReturns(f)
    BY <1>3, <2>1, <2>3 DEF FetchStep, StartFetch, IssueToken, FetchFails, FetchCancelled
  <2>. QED BY <2>2, <2>3
<1>4. ASSUME LoopStep PROVE UNCHANGED <<authorization, caller>>
  BY <1>4 DEF LoopStep, RequestRefresh, SpawnRefresh, LoopStarts, LoopWoken, LoopTick,
              LoopResumes, LoopCancelled, Aclose, AcloseResumes, Join, fetchVars
<1>. QED BY <1>1, <1>2, <1>3, <1>4 DEF Next, vars, fetchVars

LEMMA SourceInitially == Init => Source!Init
BY DEF Init, Source!Init, Source!NoRequest, Request

(* The manager is a source of tokens that never goes back: what sharing a  *)
(* fetch, cancelling it and late answers do to its callers is no more than *)
(* what TokenSource allows, for any callers and any number of fetches.     *)
THEOREM ServesTokensHolds == Spec => ServesTokens
<1>1. TypeOK /\ TokensConsistent /\ [Next]_vars => [Source!Next]_<<authorization, Request>>
  BY SourceStep
<1>2. Consistent => TokensConsistent
  BY DEF Consistent
<1>. QED BY <1>1, <1>2, SourceInitially, TypeCorrect, Consistency, PTL DEF Spec, ServesTokens, Source!Spec

(* The header a call ended with is the cached one or older.                *)
HeadersCached == \A d \in Callers :
  Request[d].st = "answered" => Request[d].header \in Nat /\ Request[d].header <= authorization

(* In one step of a TokenSource whose answers are no newer than its token, *)
(* an answer that is new is as new as the token is and stays.              *)
LEMMA SourceAnswers ==
  ASSUME authorization \in Nat, authorization' \in Nat, HeadersCached,
         [Source!Next]_<<authorization, Request>>
  PROVE  /\ HeadersCached'
         /\ \A c \in Callers : Request'[c].st = "answered" /\ Request'[c] # Request[c] =>
                               Request'[c].header = authorization
<1>1. CASE UNCHANGED <<authorization, Request>>
  BY <1>1 DEF HeadersCached
<1>2. CASE Source!Renew
  BY <1>2 DEF Source!Renew, HeadersCached
<1>3. ASSUME NEW c \in Callers, UNCHANGED authorization, NEW entry,
             Request' = [Request EXCEPT ![c] = entry],
             entry.st = "answered" => entry.header = authorization
      PROVE  /\ HeadersCached'
             /\ \A d \in Callers : Request'[d].st = "answered" /\ Request'[d] # Request[d] =>
                                   Request'[d].header = authorization
  <2>1. DOMAIN Request = Callers
    BY DEF Request
  <2>. HIDE DEF Request
  <2>2. \A d \in Callers : Request'[d] = IF d = c THEN entry ELSE Request[d]
    BY <1>3, <2>1
  <2>. QED BY <1>3, <2>2 DEF HeadersCached
<1>4. ASSUME NEW c \in Callers,
             Source!Ask(c) \/ Source!AnswerAtOnce(c) \/ Source!Answer(c) \/ Source!Refuse(c)
      PROVE  \E entry : /\ UNCHANGED authorization
                        /\ Request' = [Request EXCEPT ![c] = entry]
                        /\ entry.st = "answered" => entry.header = authorization
  <2>1. CASE Source!Ask(c)
    <3>. DEFINE entry == [st |-> "asking", floor |-> authorization, header |-> 0]
    <3>1. /\ UNCHANGED authorization
          /\ Request' = [Request EXCEPT ![c] = entry]
          /\ entry.st = "answered" => entry.header = authorization
      BY <2>1 DEF Source!Ask
    <3>. HIDE DEF entry, Request
    <3>. QED BY <3>1
  <2>2. CASE Source!AnswerAtOnce(c)
    <3>. DEFINE entry == [st |-> "answered", floor |-> 0, header |-> authorization]
    <3>1. /\ UNCHANGED authorization
          /\ Request' = [Request EXCEPT ![c] = entry]
          /\ entry.st = "answered" => entry.header = authorization
      BY <2>2 DEF Source!AnswerAtOnce
    <3>. HIDE DEF entry, Request
    <3>. QED BY <3>1
  <2>3. CASE Source!Answer(c)
    <3>. DEFINE entry == [st |-> "answered", floor |-> Request[c].floor, header |-> authorization]
    <3>1. /\ UNCHANGED authorization
          /\ Request' = [Request EXCEPT ![c] = entry]
          /\ entry.st = "answered" => entry.header = authorization
      BY <2>3 DEF Source!Answer
    <3>. HIDE DEF entry, Request
    <3>. QED BY <3>1
  <2>4. CASE Source!Refuse(c)
    <3>. DEFINE entry == [st |-> "refused", floor |-> Request[c].floor, header |-> 0]
    <3>1. /\ UNCHANGED authorization
          /\ Request' = [Request EXCEPT ![c] = entry]
          /\ entry.st = "answered" => entry.header = authorization
      BY <2>4 DEF Source!Refuse
    <3>. HIDE DEF entry, Request
    <3>. QED BY <3>1
  <2>. QED BY <1>4, <2>1, <2>2, <2>3, <2>4
<1>. QED BY <1>1, <1>2, <1>3, <1>4 DEF Source!Next

(* So no call ends with an older header than another ended with before.    *)
LEMMA AnswersNeverGoBack ==
  ASSUME authorization \in Nat, authorization' \in Nat, HeadersCached,
         [Source!Next]_<<authorization, Request>>, NEW c \in Callers, NEW d \in Callers,
         Request[d].st = "answered", Request'[c].st = "answered", Request'[c] # Request[c]
  PROVE  Request'[c].header >= Request[d].header
BY SourceAnswers DEF HeadersCached

LEMMA HeadersCachedInitially == Init => HeadersCached
BY DEF Init, HeadersCached, Request

(* However their fetches end and whoever is cancelled, callers see the     *)
(* tokens in the order in which the IdP issued them.                       *)
THEOREM HeadersNeverGoBackHolds == Spec => HeadersNeverGoBack
<1>1. TypeOK /\ TypeOK' => authorization \in Nat /\ authorization' \in Nat
  BY DEF TypeOK
<1>2. TypeOK /\ TypeOK' /\ TokensConsistent /\ HeadersCached /\ [Next]_vars => HeadersCached'
  BY <1>1, SourceStep, SourceAnswers
<1>3. TypeOK /\ TypeOK' /\ TokensConsistent /\ HeadersCached /\ [Next]_vars =>
        [\A c, d \in Callers :
           /\ Request[d].st = "answered"
           /\ Request'[c].st = "answered" /\ Request'[c] # Request[c]
           => Request'[c].header >= Request[d].header]_vars
  BY <1>1, SourceStep, AnswersNeverGoBack
<1>4. Consistent => TokensConsistent
  BY DEF Consistent
<1>. QED BY <1>2, <1>3, <1>4, HeadersCachedInitially, TypeCorrect, Consistency, PTL
         DEF Spec, HeadersNeverGoBack

-----------------------------------------------------------------------------
(* The background task is only cancelled by aclose(), and one that ended   *)
(* by itself did so with a fetch that was cancelled or raised, for good.   *)
LoopEndsForCause ==
  /\ handle = "open" => ~loop.told
  /\ loop.st = "waiting" => loop.on \in Fetches
  /\ AuthErrorsSurvived

LEMMA CauseInductive ==
  TypeOK /\ TokensConsistent /\ LoopEndsForCause /\ [Next]_vars => LoopEndsForCause'
<1>. SUFFICES ASSUME TypeOK, TokensConsistent, LoopEndsForCause, [Next]_vars PROVE LoopEndsForCause'
  OBVIOUS
<1>1. ASSUME NEW f \in Fetches, fetch[f] \in {"cancelled", "raised"}
      PROVE  fetch'[f] \in {"cancelled", "raised"}
  BY <1>1, EndedStays DEF Done, Ended
<1>2. ASSUME UNCHANGED <<loop, handle>> PROVE LoopEndsForCause'
  BY <1>1, <1>2 DEF LoopEndsForCause, AuthErrorsSurvived
<1>3. ASSUME NEW c \in Callers, CallerStep(c) PROVE UNCHANGED <<loop, handle>>
  BY <1>3 DEF CallerStep, CallRefreshNow, GetCachedHeader, GetFirstHeader, CallerResumes, CancelCaller
<1>4. ASSUME NEW f \in Fetches, FetchStep(f) PROVE UNCHANGED <<loop, handle>>
  BY <1>4 DEF FetchStep, StartFetch, IssueToken, FetchReturns, FetchFails, FetchCancelled
<1>5. CASE RequestRefresh
  BY <1>2, <1>5 DEF RequestRefresh
<1>6. CASE SpawnRefresh \/ LoopStarts
  BY <1>6 DEF SpawnRefresh, LoopStarts, LoopEndsForCause, AuthErrorsSurvived, TypeOK, LoopState
<1>7. CASE LoopWoken \/ LoopTick
  <2>1. PICK f \in Fetches : loop' = [loop EXCEPT !.st = "waiting", !.on = f]
    BY <1>7 DEF LoopWoken, LoopTick
  <2>. QED BY <1>7, <2>1 DEF LoopWoken, LoopTick, LoopEndsForCause, AuthErrorsSurvived, TypeOK, LoopState
<1>8. CASE LoopResumes
  <2>. DEFINE end == IF loop.told THEN "cancelled" ELSE fetch[loop.on]
  <2>1. loop' = [loop EXCEPT !.st = IF end \in {"ok", "failed"} THEN "sleeping" ELSE end]
    BY <1>8 DEF LoopResumes
  <2>2. end # "waiting" /\ UNCHANGED <<fetch, handle>> /\ loop.on \in Fetches
    BY <1>8 DEF LoopResumes, Done, Ended, fetchVars, LoopEndsForCause
  <2>3. handle = "open" => ~loop.told /\ end = fetch[loop.on]
    BY DEF LoopEndsForCause
  <2>. HIDE DEF end
  <2>. QED BY <2>1, <2>2, <2>3 DEF LoopEndsForCause, AuthErrorsSurvived, TypeOK, LoopState
<1>9. CASE LoopCancelled
  BY <1>9 DEF LoopCancelled, LoopEndsForCause, AuthErrorsSurvived, TypeOK, LoopState
<1>10. CASE Aclose
  BY <1>10 DEF Aclose, CancelLoop, LoopEndsForCause, AuthErrorsSurvived, TypeOK, LoopState
<1>11. CASE AcloseResumes
  BY <1>11 DEF AcloseResumes, LoopEndsForCause, AuthErrorsSurvived
<1>12. CASE UNCHANGED vars
  BY <1>2, <1>12 DEF vars
<1>. QED BY <1>2, <1>3, <1>4, <1>5, <1>6, <1>7, <1>8, <1>9, <1>10, <1>11, <1>12 DEF Next, LoopStep

(* No refresh that failed with a RociaDbError ends the background task.    *)
THEOREM AuthErrorsSurvivedHolds == Spec => []AuthErrorsSurvived
<1>1. Init => LoopEndsForCause
  BY DEF Init, LoopEndsForCause, AuthErrorsSurvived
<1>2. LoopEndsForCause => AuthErrorsSurvived
  BY DEF LoopEndsForCause
<1>. QED BY <1>1, <1>2, CauseInductive, TypeCorrect, Consistency, PTL DEF Spec, Consistent

(* No requested refresh is lost: the safety part of RequestAnswered.  By   *)
(* LiveAnswersAreNewer the fetch that takes the request, if it ends well,  *)
(* brings a newer token than the one cached when it was made.              *)
THEOREM RequestKeptHolds == Spec => RequestKept
<1>. DEFINE Kept == refresh_requested /\ ~refresh_requested' =>
                      loop.st = "sleeping" /\ JoinedLive' /\ authorization' = authorization
<1>1. TypeOK /\ TokensConsistent /\ [Next]_vars => [Kept]_vars
  <2>. SUFFICES ASSUME TypeOK, TokensConsistent, Next, refresh_requested, ~refresh_requested'
                PROVE  loop.st = "sleeping" /\ JoinedLive' /\ authorization' = authorization
    OBVIOUS
  <2>1. LoopWoken
    BY DEF Next, CallerStep, FetchStep, LoopStep, CallRefreshNow, GetCachedHeader, GetFirstHeader,
       CallerResumes, CancelCaller, StartFetch, IssueToken, FetchReturns, FetchFails,
       FetchCancelled, RequestRefresh, SpawnRefresh, LoopStarts, LoopTick, LoopResumes,
       LoopCancelled, Aclose, CancelLoop, AcloseResumes
  <2>2. PICK f \in Fetches : Join(f) /\ loop' = [loop EXCEPT !.st = "waiting", !.on = f]
    BY <2>1 DEF LoopWoken
  <2>3. loop'.st = "waiting" /\ loop'.on = f
    BY <2>2 DEF TypeOK, LoopState
  <2>4. fetch'[f] \in {"created", "posting", "cancelling"} /\ authorization' = authorization
    <3>1. f \in Fetches /\ fetch'[f] \in FetchState \ Ended /\ authorization' = authorization
      BY <2>2, JoinLemma
    <3>2. fetch'[f] # "new"
      <4>1. CASE fetch' = [fetch EXCEPT ![f] = "created"]
        BY <4>1, <3>1 DEF TypeOK
      <4>2. CASE f = inflight /\ fetch' = fetch
        <5>1. ~(f > inflight)
          BY <4>2 DEF TypeOK
        <5>. QED BY <3>1, <4>2, <5>1 DEF TokensConsistent, OnlyNewestLive
      <4>. QED BY <2>2, <4>1, <4>2, JoinLemma
    <3>. QED BY <3>1, <3>2 DEF FetchState
  <2>. QED BY <2>1, <2>3, <2>4 DEF JoinedLive, Live, LoopWoken
<1>2. Consistent => TokensConsistent
  BY DEF Consistent
<1>. QED BY <1>1, <1>2, TypeCorrect, Consistency, PTL DEF Spec, RequestKept

-----------------------------------------------------------------------------
(* LoopSurvives, that the background task outlives every refresh until it  *)
(* is closed, is violated by the code: a caller that is cancelled, or an   *)
(* exception that is not translated, takes the task with it.  These two    *)
(* are the only causes.                                                    *)
NoneRaised == \A f \in Fetches : fetch[f] # "raised"
NoneCancelled == handle = "open" => \A f \in Fetches : fetch[f] \notin {"cancelling", "cancelled"}

LEMMA RaisedInductive ==
  ASSUME ~ForeignErrors PROVE TypeOK /\ NoneRaised /\ [Next]_vars => NoneRaised'
<1>. SUFFICES ASSUME TypeOK, NoneRaised, [Next]_vars, NEW f \in Fetches PROVE fetch'[f] # "raised"
  BY DEF NoneRaised
<1>0. fetch[f] # "raised"
  BY DEF NoneRaised
<1>1. ASSUME NEW g, Join(g) PROVE fetch'[f] # "raised"
  BY <1>0, <1>1, JoinLemma DEF TypeOK
<1>2. ASSUME NEW g, CancelFetch(g) PROVE fetch'[f] # "raised"
  BY <1>0, <1>2 DEF CancelFetch, TypeOK
<1>3. ASSUME NEW c \in Callers, CallerStep(c) PROVE fetch'[f] # "raised"
  BY <1>0, <1>1, <1>2, <1>3 DEF CallerStep, CallRefreshNow, GetCachedHeader, GetFirstHeader,
                                CallerResumes, CancelCaller, fetchVars
<1>4. ASSUME NEW g \in Fetches, FetchStep(g) PROVE fetch'[f] # "raised"
  BY <1>0, <1>4 DEF FetchStep, StartFetch, IssueToken, FetchReturns, FetchFails, FetchCancelled, TypeOK
<1>5. ASSUME LoopStep PROVE fetch'[f] # "raised"
  BY <1>0, <1>1, <1>2, <1>5 DEF LoopStep, RequestRefresh, SpawnRefresh, LoopStarts, LoopWoken,
        LoopTick, LoopResumes, LoopCancelled, Aclose, CancelLoop, AcloseResumes, fetchVars
<1>. QED BY <1>0, <1>3, <1>4, <1>5 DEF Next, vars, fetchVars

LEMMA UncancelledInductive ==
  ASSUME ~CallerCancels PROVE TypeOK /\ NoneCancelled /\ [Next]_vars => NoneCancelled'
<1>. SUFFICES ASSUME TypeOK, NoneCancelled, [Next]_vars, handle' = "open", NEW f \in Fetches
              PROVE  fetch'[f] \notin {"cancelling", "cancelled"}
  BY DEF NoneCancelled
<1>. DEFINE Fine == fetch'[f] \notin {"cancelling", "cancelled"}
<1>a. ASSUME handle = "open" PROVE fetch[f] \notin {"cancelling", "cancelled"}
  BY <1>a DEF NoneCancelled
<1>1. ASSUME NEW g, Join(g), handle = "open" PROVE Fine
  BY <1>a, <1>1, JoinLemma DEF TypeOK
<1>2. ASSUME UNCHANGED <<fetch, handle>> PROVE Fine
  BY <1>a, <1>2
<1>3. ASSUME NEW c \in Callers, CallerStep(c) PROVE Fine
  BY <1>1, <1>2, <1>3 DEF CallerStep, CallRefreshNow, GetCachedHeader, GetFirstHeader,
                          CallerResumes, CancelCaller, fetchVars
<1>4. ASSUME NEW g \in Fetches, FetchStep(g) PROVE Fine
  <2>1. handle = "open"
    BY <1>4 DEF FetchStep, StartFetch, IssueToken, FetchReturns, FetchFails, FetchCancelled
  <2>2. fetch[f] \notin {"cancelling", "cancelled"} /\ fetch[g] # "cancelling"
    BY <2>1 DEF NoneCancelled
  <2>. QED BY <1>4, <2>2 DEF FetchStep, StartFetch, IssueToken, FetchReturns, FetchFails,
                            FetchCancelled, TypeOK
<1>5. ASSUME LoopStep PROVE Fine
  BY <1>1, <1>2, <1>5 DEF LoopStep, RequestRefresh, SpawnRefresh, LoopStarts, LoopWoken,
        LoopTick, LoopResumes, LoopCancelled, Aclose, AcloseResumes, fetchVars
<1>. QED BY <1>2, <1>3, <1>4, <1>5 DEF Next, vars, fetchVars

(* If no caller is ever cancelled and nothing but a RociaDbError comes out *)
(* of a fetch, the background task lives until it is closed.               *)
THEOREM LoopSurvivesUndisturbed ==
  ASSUME ~CallerCancels, ~ForeignErrors PROVE Spec => []LoopSurvives
<1>1. Init => NoneRaised /\ NoneCancelled
  BY DEF Init, NoneRaised, NoneCancelled
<1>2. TypeOK /\ NoneRaised /\ NoneCancelled /\ [Next]_vars => (NoneRaised /\ NoneCancelled)'
  BY RaisedInductive, UncancelledInductive
<1>3. AuthErrorsSurvived /\ NoneRaised /\ NoneCancelled => LoopSurvives
  BY DEF AuthErrorsSurvived, NoneRaised, NoneCancelled, LoopSurvives
<1>. QED BY <1>1, <1>2, <1>3, TypeCorrect, AuthErrorsSurvivedHolds, PTL DEF Spec
=============================================================================
