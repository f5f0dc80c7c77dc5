-------------------------- MODULE ClientCallsProofs --------------------------
(***************************************************************************)
(* For any callers, closers and number of fetches: what connect() and      *)
(* close() leave behind, and that every RPC carries a token, a newer one   *)
(* than the rejected one when it is a retry.                               *)
(*                                                                         *)
(* The manager inside the client takes the steps of TokenManager and two   *)
(* more: the task of connect() and that of close() are cancelled.  Its     *)
(* invariants are kept by both.                                            *)
(***************************************************************************)
EXTENDS ClientCalls, TokenManagerProofs

ManagerInv == TypeOK /\ TokensConsistent /\ CancelledWaitsEnd /\ RefreshAdvances

CancelsConnector ==
  /\ CancelFetch(caller[Connector].on)
  /\ caller' = [caller EXCEPT ![Connector].told = TRUE]
  /\ UNCHANGED <<authorization, inflight, response, posted, issued,
                 refresh_requested, loop, handle>>
CancelsCloser ==
  /\ \/ CancelLoop /\ UNCHANGED handle
     \/ LoopEnded /\ handle' = "returned" /\ UNCHANGED <<fetch, loop>>
  /\ UNCHANGED <<authorization, inflight, response, posted, issued,
                 refresh_requested, caller>>
ManagerMoves == [Next]_vars \/ CancelsConnector \/ CancelsCloser

(* What a step does to the manager.                                        *)
LEMMA LifecycleMovesManager == [LifecycleNext]_allVars => ManagerMoves
<1>. USE LifecycleAssumption DEF ManagerMoves
<1>1. CASE ConnectStep
  <2>1. CASE EndpointRejected \/ CredentialsMissing \/ ConnectWithoutAuth \/ ConnectFails \/ ConnectCleaned
    BY <2>1 DEF EndpointRejected, CredentialsMissing, ConnectWithoutAuth, ConnectFails, ConnectCleaned
  <2>2. CASE ConnectFetches \/ ConnectFetched
    BY <2>2 DEF ConnectFetches, ConnectFetched, Next, CallerStep
  <2>3. CASE ChannelReady
    BY <2>3 DEF ChannelReady, Next, LoopStep
  <2>4. CASE CancelConnect
    BY <2>4 DEF CancelConnect, CancelsConnector
  <2>. QED BY <1>1, <2>1, <2>2, <2>3, <2>4 DEF ConnectStep
<1>2. ASSUME NEW k \in Closers, CloseStep(k) PROVE ManagerMoves
  <2>1. CASE Close(k) \/ CloserResumes(k)
    BY <2>1 DEF Close, CloserResumes, Next, LoopStep
  <2>2. CASE CloseAgain(k) \/ ChannelClosed(k)
    BY <2>2 DEF CloseAgain, ChannelClosed
  <2>3. CASE CancelCloser(k)
    BY <2>3 DEF CancelCloser, CancelsCloser
  <2>. QED BY <1>2, <2>1, <2>2, <2>3 DEF CloseStep
<1>3. ASSUME NEW c \in Users, UserStep(c) PROVE ManagerMoves
  BY <1>3 DEF Users, UserStep, InterceptedCall, RefreshAuthToken, UserResumes, Next, CallerStep
<1>4. CASE InvalidateAuthToken
  BY <1>4 DEF InvalidateAuthToken, Next, LoopStep
<1>5. CASE ManagerStep
  BY <1>5 DEF ManagerStep, Next, LoopStep
<1>6. CASE UNCHANGED allVars
  BY <1>6 DEF allVars
<1>. QED BY <1>1, <1>2, <1>3, <1>4, <1>5, <1>6 DEF LifecycleNext

(* The manager's invariants are kept.                                      *)
LEMMA ManagerInductive == ManagerInv /\ ManagerMoves => ManagerInv'
<1>. SUFFICES ASSUME ManagerInv, ManagerMoves PROVE ManagerInv'
  OBVIOUS
<1>. USE DEF ManagerInv
<1>1. CASE [Next]_vars
  BY <1>1, TypeInductive, ConsistentInductive, CancelledInductive, AdvanceInductive
<1>2. CASE CancelsConnector
  <2>. DEFINE f == caller[Connector].on
  <2>1. CancelFetch(f) /\ UNCHANGED <<authorization, inflight, response, posted, issued>>
    BY <1>2 DEF CancelsConnector
  <2>2. \A d \in Callers : /\ caller'[d].st = caller[d].st /\ caller'[d].on = caller[d].on
                           /\ caller'[d].floor = caller[d].floor
                           /\ caller'[d].header = caller[d].header
    BY <1>2 DEF CancelsConnector, TypeOK, CallerState
  <2>3. TypeOK'
    BY <1>2 DEF CancelsConnector, CancelFetch, TypeOK, CallerState, FetchState
  <2>. HIDE DEF f
  <2>4. TokensConsistent'
    <3>1. WaitersImprove'
      BY <2>1, <2>2, CancelKeepsFetches DEF TokensConsistent, WaitersImprove
    <3>. QED BY <2>1, <3>1, CancelKeepsFetches DEF TokensConsistent
  <2>5. CancelledWaitsEnd'
    BY <1>2, CancelCallerCanEnd, LifecycleAssumption DEF CancelsConnector
  <2>. QED BY <2>2, <2>3, <2>4, <2>5 DEF RefreshAdvances
<1>3. CASE CancelsCloser
  <2>1. TypeOK'
    BY <1>3 DEF CancelsCloser, CancelLoop, CancelFetch, TypeOK, LoopState, FetchState
  <2>2. UNCHANGED <<authorization, inflight, response, posted, issued, caller>>
    BY <1>3 DEF CancelsCloser
  <2>3. CancelFetch(loop.on) \/ UNCHANGED fetch
    BY <1>3 DEF CancelsCloser, CancelLoop
  <2>4. TokensConsistent'
    <3>1. CASE CancelFetch(loop.on)
      BY <2>2, <3>1, CancelKeepsFetches, WaitersUndisturbed DEF TokensConsistent
    <3>2. CASE UNCHANGED fetch
      BY <2>2, <3>2 DEF TokensConsistent, OnlyNewestLive, AnswersAreIssued,
                        LiveAnswersAreNewer, WaitersImprove, Live
    <3>. QED BY <2>3, <3>1, <3>2
  <2>5. CancelledWaitsEnd'
    <3>1. CASE CancelLoop
      BY <2>2, <3>1, CancelLoopCanEnd
    <3>2. CASE UNCHANGED <<fetch, loop>>
      BY <2>2, <3>2 DEF CancelledWaitsEnd, CanEnd
    <3>. QED BY <1>3, <3>1, <3>2 DEF CancelsCloser
  <2>. QED BY <2>1, <2>2, <2>4, <2>5 DEF RefreshAdvances
<1>. QED BY <1>1, <1>2, <1>3 DEF ManagerMoves

(* And what they are to its callers.                                       *)
LEMMA ManagerServes ==
  ManagerInv /\ ManagerMoves => [Source!Next]_<<authorization, Request>>
<1>. SUFFICES ASSUME ManagerInv, ManagerMoves PROVE [Source!Next]_<<authorization, Request>>
  OBVIOUS
<1>1. CASE [Next]_vars
  BY <1>1, SourceStep DEF ManagerInv
<1>2. CASE CancelsConnector
  BY <1>2, ToldUnseen, LifecycleAssumption DEF CancelsConnector, ManagerInv
<1>3. CASE CancelsCloser
  BY <1>3 DEF CancelsCloser, Request
<1>. QED BY <1>1, <1>2, <1>3 DEF ManagerMoves

(* The header, once there, is only replaced by a newer one.                *)
LEMMA ManagerKeepsToken ==
  ASSUME ManagerInv, ManagerMoves
  PROVE  authorization' \in Nat /\ authorization' >= authorization
<1>1. authorization \in Nat /\ authorization' \in Nat
  BY ManagerInductive DEF ManagerInv, TypeOK
<1>2. [Source!Next]_<<authorization, Request>>
  BY ManagerServes
<1>3. UNCHANGED authorization \/ authorization' > authorization
  BY <1>2 DEF Source!Next, Source!Renew, Source!Ask, Source!AnswerAtOnce, Source!Answer,
              Source!Refuse
<1>. QED BY <1>1, <1>3

-----------------------------------------------------------------------------
(* Nothing is running and nobody closes before connect() has returned, and *)
(* the channel is where connect() is.                                      *)
NotReadyYet ==
  connect # "ready" =>
    /\ loop.st = "absent" /\ ~closed
    /\ \A k \in Closers : closer[k] = "idle"
ChannelFollowsConnect ==
  /\ connect \in {"idle", "fetching"} => channel = "none"
  /\ connect = "dialing" => channel = "open"
  /\ connect \in {"failed", "raised"} => channel \in {"none", "closed"}
  /\ connect = "ready" /\ ~closed => channel = "open"

(* With auth there is a token from the first fetch on; without, no task.   *)
TokenFollowsConnect ==
  /\ auth /\ connect \in {"dialing", "ready"} => authorization # 0
  /\ ~auth => loop.st = "absent"
  /\ connect = "fetching" => auth

(* Somebody is still closing a closed client, or raised, or is through.    *)
ClosingGoesOn ==
  /\ \A k \in Closers : /\ closer[k] # "idle" => closed
                        /\ closer[k] = "channel" => channel \in {"closing", "closed"}
  /\ closed => \/ channel = "closed"
               \/ \E k \in Closers : closer[k] \in {"handle", "channel", "raised"}

ClientInv ==
  /\ NotReadyYet /\ ChannelFollowsConnect /\ TokenFollowsConnect
  /\ LoopEndsFirst /\ ClosingGoesOn

LifecycleInv == LifecycleTypeOK /\ ManagerInv /\ ClientInv

(* What a call that was waiting resumes with.                              *)
LEMMA Resumed ==
  ASSUME TypeOK, TokensConsistent, NEW c \in Callers, CallerResumes(c)
  PROVE  /\ caller'[c].st \in Ended
         /\ caller'[c].st = "ok" => /\ caller'[c].header = authorization
                                    /\ authorization > caller[c].floor
                                    /\ authorization # 0
         /\ \A d \in Callers : d # c => caller'[d] = caller[d]
<1>. DEFINE end == IF caller[c].told THEN "cancelled" ELSE fetch[caller[c].on]
<1>. DEFINE header == IF end = "ok" THEN authorization ELSE 0
<1>1. end \in Ended
  BY DEF CallerResumes, Done, Ended
<1>2. end = "ok" => header = authorization /\ authorization > caller[c].floor /\ authorization # 0
  BY DEF CallerResumes, TypeOK, CallerState, TokensConsistent, WaitersImprove
<1>3. caller' = [caller EXCEPT ![c] = [@ EXCEPT !.st = end, !.header = header]]
  BY DEF CallerResumes
<1>. HIDE DEF end, header
<1>4. caller'[c].st = end /\ caller'[c].header = header /\ \A d \in Callers : d # c => caller'[d] = caller[d]
  BY <1>3 DEF TypeOK, CallerState
<1>. QED BY <1>1, <1>2, <1>4

(* The steps of connect().                                                 *)
LEMMA ConnectKeeps ==
  ASSUME LifecycleInv, ManagerInv', ConnectStep
  PROVE  LifecycleTypeOK' /\ ClientInv'
<1>. USE DEF LifecycleInv, LifecycleTypeOK, ManagerInv, ClientInv, NotReadyYet, ChannelFollowsConnect,
             TokenFollowsConnect, LoopEndsFirst, ClosingGoesOn, ConnectEnded, LoopEnded
<1>1. CASE EndpointRejected
  BY <1>1 DEF EndpointRejected, vars, fetchVars
<1>2. CASE CredentialsMissing
  BY <1>2 DEF CredentialsMissing, vars, fetchVars
<1>3. CASE ConnectFetches
  BY <1>3 DEF ConnectFetches, CallRefreshNow
<1>4. CASE ConnectFetched
  <2>. DEFINE end == caller'[Connector].st
  <2>1. UNCHANGED <<authorization, loop, auth, closed, closer>> /\ connect = "fetching"
    BY <1>4 DEF ConnectFetched, CallerResumes, fetchVars
  <2>2. end \in Ended /\ (end = "ok" => authorization # 0)
    BY <1>4, LifecycleAssumption, Resumed DEF ConnectFetched
  <2>3. \/ end = "ok" /\ channel' = "open" /\ connect' = "dialing"
        \/ end # "ok" /\ connect' = end /\ UNCHANGED channel
    BY <1>4 DEF ConnectFetched
  <2>. HIDE DEF end
  <2>. QED BY <2>1, <2>2, <2>3 DEF Ended
<1>5. CASE ConnectWithoutAuth
  BY <1>5 DEF ConnectWithoutAuth, vars, fetchVars
<1>6. CASE ChannelReady
  BY <1>6 DEF ChannelReady, SpawnRefresh, vars, fetchVars
<1>7. CASE ConnectFails
  BY <1>7 DEF ConnectFails, vars, fetchVars
<1>8. CASE ConnectCleaned
  BY <1>8 DEF ConnectCleaned, vars, fetchVars
<1>9. CASE CancelConnect
  BY <1>9 DEF CancelConnect, vars, fetchVars
<1>. QED BY <1>1, <1>2, <1>3, <1>4, <1>5, <1>6, <1>7, <1>8, <1>9 DEF ConnectStep

(* Cancelling the background task does not end it.                         *)
LEMMA CancelLoopKeepsState == ASSUME TypeOK, CancelLoop PROVE loop'.st = loop.st
BY DEF CancelLoop, TypeOK, LoopState

(* One close() moves on: it stays busy or raises, or it has closed the     *)
(* channel, which waits for the end of the background task.                *)
LEMMA CloserMoves ==
  ASSUME LifecycleInv, ManagerInv', UNCHANGED <<authorization, loop, auth, connect, closed>>,
         NEW k \in Closers,
         \/ /\ closer[k] = "handle" /\ LoopEnded
            /\ \/ channel' = "closing" /\ closer' = [closer EXCEPT ![k] = "channel"]
               \/ channel' = channel /\ closer' = [closer EXCEPT ![k] = "raised"]
         \/ closer[k] = "channel" /\ channel' = "closed"
            /\ closer' = [closer EXCEPT ![k] = "returned"]
  PROVE  LifecycleTypeOK' /\ ClientInv'
<1>a. /\ LifecycleTypeOK /\ ManagerInv /\ NotReadyYet /\ ChannelFollowsConnect
      /\ TokenFollowsConnect /\ LoopEndsFirst /\ ClosingGoesOn
  BY DEF LifecycleInv, ClientInv
<1>b. closer[k] # "idle" /\ (closer[k] = "handle" => LoopEnded)
  OBVIOUS
<1>1. connect = "ready" /\ closed /\ channel \in {"none", "open", "closing", "closed"}
  BY <1>a, <1>b DEF NotReadyYet, ClosingGoesOn, LifecycleTypeOK
<1>2. LoopEnded
  BY <1>a, <1>b DEF ClosingGoesOn, LoopEndsFirst
<1>. USE <1>a DEF LifecycleInv, LifecycleTypeOK, ClientInv
<1>3. channel' \in {"none", "open", "closing", "closed"}
  BY <1>1
<1>4. closer' \in [Closers -> {"idle", "handle", "channel", "returned", "raised"}]
  OBVIOUS
<1>5. LifecycleTypeOK'
  BY <1>3, <1>4 DEF ManagerInv
<1>6. ClosingGoesOn'
  BY <1>1 DEF ClosingGoesOn
<1>. QED BY <1>1, <1>2, <1>5, <1>6 DEF NotReadyYet, ChannelFollowsConnect, TokenFollowsConnect,
                                       LoopEndsFirst, LoopEnded

(* The steps of close().                                                   *)
LEMMA CloseKeeps ==
  ASSUME LifecycleInv, ManagerInv', NEW k \in Closers, CloseStep(k)
  PROVE  LifecycleTypeOK' /\ ClientInv'
<1>. USE DEF LifecycleInv, LifecycleTypeOK, ManagerInv, ClientInv, NotReadyYet, ChannelFollowsConnect,
             TokenFollowsConnect, LoopEndsFirst, ClosingGoesOn, ConnectEnded, LoopEnded
<1>1. CASE Close(k)
  <2>1. CASE auth
    <3>1. /\ UNCHANGED <<authorization, auth, connect, channel>> /\ connect = "ready" /\ ~closed
          /\ closed' = TRUE /\ closer' = [closer EXCEPT ![k] = "handle"]
      BY <1>1, <2>1 DEF Close, Aclose
    <3>2. loop'.st = loop.st
      BY <1>1, <2>1, CancelLoopKeepsState DEF Close, Aclose
    <3>. QED BY <2>1, <3>1, <3>2
  <2>2. CASE ~auth
    BY <1>1, <2>2 DEF Close, vars, fetchVars
  <2>. QED BY <2>1, <2>2
<1>2. CASE CloseAgain(k)
  BY <1>2 DEF CloseAgain, vars, fetchVars
<1>3. CASE CloserResumes(k)
  <2>1. UNCHANGED <<authorization, loop, auth, connect, closed>> /\ LoopEnded /\ closer[k] = "handle"
    BY <1>3 DEF CloserResumes, AcloseResumes, fetchVars
  <2>2. \/ channel' = "closing" /\ closer' = [closer EXCEPT ![k] = "channel"]
        \/ channel' = channel /\ closer' = [closer EXCEPT ![k] = "raised"]
    BY <1>3 DEF CloserResumes
  <2>. QED BY <2>1, <2>2, CloserMoves
<1>4. CASE ChannelClosed(k)
  <2>1. UNCHANGED <<authorization, loop, auth, connect, closed>>
    BY <1>4 DEF ChannelClosed, vars, fetchVars
  <2>2. channel' = "closed" /\ closer' = [closer EXCEPT ![k] = "returned"] /\ closer[k] = "channel"
    BY <1>4 DEF ChannelClosed
  <2>. QED BY <2>1, <2>2, CloserMoves
<1>5. CASE CancelCloser(k)
  <2>1. UNCHANGED <<authorization, auth, connect, closed>> /\ closer[k] = "handle"
    BY <1>5 DEF CancelCloser
  <2>2. CASE LoopEnded
    <3>1. UNCHANGED loop /\ channel' = "closing" /\ closer' = [closer EXCEPT ![k] = "channel"]
      BY <1>5, <2>2 DEF CancelCloser
    <3>. QED BY <2>1, <2>2, <3>1, CloserMoves
  <2>3. CASE ~LoopEnded
    <3>1. loop'.st = loop.st /\ UNCHANGED <<channel, closer>>
      BY <1>5, <2>3, CancelLoopKeepsState DEF CancelCloser
    <3>. QED BY <2>1, <3>1
  <2>. QED BY <2>2, <2>3
<1>. QED BY <1>1, <1>2, <1>3, <1>4, <1>5 DEF CloseStep

(* The steps of users and of the manager's tasks: they do not bring a task *)
(* back that has ended, and do not lose the token.                         *)
LEMMA OthersKeep ==
  ASSUME LifecycleInv, ManagerMoves, ManagerInv', UNCHANGED lifecycleVars,
         loop.st \in {"absent", "cancelled", "raised"} => loop'.st = loop.st
  PROVE  LifecycleTypeOK' /\ ClientInv'
<1>1. authorization' \in Nat /\ authorization' >= authorization /\ authorization \in Nat
  BY ManagerKeepsToken DEF LifecycleInv, ManagerInv, TypeOK
<1>. QED BY <1>1 DEF lifecycleVars, LifecycleInv, LifecycleTypeOK, ManagerInv, ClientInv,
       NotReadyYet, ChannelFollowsConnect, TokenFollowsConnect, LoopEndsFirst, ClosingGoesOn,
       LoopEnded

LEMMA LifecycleInductive == LifecycleInv /\ [LifecycleNext]_allVars => LifecycleInv'
<1>. SUFFICES ASSUME LifecycleInv, [LifecycleNext]_allVars PROVE LifecycleInv'
  OBVIOUS
<1>1. ManagerMoves
  BY LifecycleMovesManager
<1>2. ManagerInv'
  BY <1>1, ManagerInductive DEF LifecycleInv
<1>3. CASE ConnectStep
  BY <1>2, <1>3, ConnectKeeps DEF LifecycleInv
<1>4. ASSUME NEW k \in Closers, CloseStep(k) PROVE LifecycleInv'
  BY <1>2, <1>4, CloseKeeps DEF LifecycleInv
<1>5. ASSUME UNCHANGED <<loop, lifecycleVars>> PROVE LifecycleInv'
  BY <1>1, <1>2, <1>5, OthersKeep DEF LifecycleInv
<1>6. ASSUME NEW c \in Users, UserStep(c) PROVE LifecycleInv'
  BY <1>5, <1>6 DEF UserStep, InterceptedCall, RefreshAuthToken, UserResumes, GetCachedHeader,
                    GetFirstHeader, CallRefreshNow, CallerResumes, CancelCaller
<1>7. CASE InvalidateAuthToken
  BY <1>5, <1>7 DEF InvalidateAuthToken, RequestRefresh
<1>8. CASE ManagerStep
  <2>1. ASSUME NEW f \in Fetches, FetchStep(f) PROVE UNCHANGED loop
    BY <2>1 DEF FetchStep, StartFetch, IssueToken, FetchReturns, FetchFails, FetchCancelled
  <2>2. CASE LoopStarts \/ LoopWoken \/ LoopTick \/ LoopResumes \/ LoopCancelled
    <3>1. loop.st \notin {"absent", "cancelled", "raised"}
      BY <2>2 DEF LoopStarts, LoopWoken, LoopTick, LoopResumes, LoopCancelled
    <3>2. UNCHANGED lifecycleVars
      BY <1>8 DEF ManagerStep
    <3>. QED BY <1>1, <1>2, <3>1, <3>2, OthersKeep DEF LifecycleInv
  <2>. QED BY <1>5, <1>8, <2>1, <2>2 DEF ManagerStep
<1>9. CASE UNCHANGED allVars
  BY <1>5, <1>9 DEF allVars, vars
<1>. QED BY <1>3, <1>4, <1>6, <1>7, <1>8, <1>9 DEF LifecycleNext

LEMMA LifecycleInitially == LifecycleInit => LifecycleInv
<1>. SUFFICES ASSUME LifecycleInit PROVE LifecycleInv
  OBVIOUS
<1>1. TypeOK
  <2>1. 0 \in 0 .. MaxFetches /\ 0 \in Nat
    BY ConstantsAssumption
  <2>2. fetch \in [Fetches -> FetchState] /\ response \in [Fetches -> Nat]
    BY DEF LifecycleInit, Init, FetchState
  <2>3. caller \in [Callers -> CallerState] /\ loop \in LoopState
    BY <2>1 DEF LifecycleInit, Init, CallerState, LoopState
  <2>. QED BY <2>1, <2>2, <2>3 DEF LifecycleInit, Init, TypeOK
<1>2. TokensConsistent /\ CancelledWaitsEnd /\ RefreshAdvances
  BY DEF LifecycleInit, Init, TokensConsistent, OnlyNewestLive, AnswersAreIssued, LiveAnswersAreNewer,
         WaitersImprove, Live, Fetches, CancelledWaitsEnd, RefreshAdvances
<1>3. LifecycleTypeOK
  BY <1>1 DEF LifecycleInit, LifecycleTypeOK
<1>4. ClientInv
  BY DEF LifecycleInit, Init, ClientInv, NotReadyYet, ChannelFollowsConnect, TokenFollowsConnect,
         LoopEndsFirst, ClosingGoesOn
<1>. QED BY <1>1, <1>2, <1>3, <1>4 DEF LifecycleInv, ManagerInv

LEMMA LifecycleSafe == LifecycleSpec => []LifecycleInv
BY LifecycleInitially, LifecycleInductive, PTL DEF LifecycleSpec

(* Inside a client, where the tasks of connect() and close() are cancelled *)
(* as well, the manager keeps the promise to its callers that it keeps     *)
(* alone.                                                                  *)
THEOREM ClientServesTokens == LifecycleSpec => ServesTokens
<1>1. LifecycleInit => Source!Init
  BY SourceInitially DEF LifecycleInit
<1>2. LifecycleInv /\ [LifecycleNext]_allVars => [Source!Next]_<<authorization, Request>>
  BY LifecycleMovesManager, ManagerServes DEF LifecycleInv
<1>. QED BY <1>1, <1>2, LifecycleSafe, PTL DEF LifecycleSpec, ServesTokens, Source!Spec

(* Nor do headers go back from one RPC to another, or from connect() to an *)
(* RPC.                                                                    *)
THEOREM ClientHeadersNeverGoBack == LifecycleSpec => HeadersNeverGoBack
<1>1. LifecycleInv /\ [LifecycleNext]_allVars =>
        /\ authorization \in Nat /\ authorization' \in Nat
        /\ [Source!Next]_<<authorization, Request>>
  BY LifecycleMovesManager, ManagerServes, ManagerKeepsToken DEF LifecycleInv, ManagerInv, TypeOK
<1>2. LifecycleInv /\ HeadersCached /\ [LifecycleNext]_allVars => HeadersCached'
  BY <1>1, SourceAnswers
<1>3. LifecycleInv /\ HeadersCached /\ [LifecycleNext]_allVars =>
        [\A c, d \in Callers :
           /\ Request[d].st = "answered"
           /\ Request'[c].st = "answered" /\ Request'[c] # Request[c]
           => Request'[c].header >= Request[d].header]_vars
  BY <1>1, AnswersNeverGoBack
<1>4. LifecycleInit => HeadersCached
  BY HeadersCachedInitially DEF LifecycleInit
<1>. QED BY <1>2, <1>3, <1>4, LifecycleSafe, PTL DEF LifecycleSpec, HeadersNeverGoBack

(* Inside a client, one fetch at a time, waiters that get a newer token,   *)
(* and cancelled waiters that need no answer of the IdP to come back.      *)
THEOREM ClientKeepsManager == LifecycleSpec => [](Consistent /\ SingleFlight /\ RefreshAdvances)
<1>1. LifecycleInv => Consistent /\ SingleFlight /\ RefreshAdvances
  BY DEF LifecycleInv, ManagerInv, Consistent, TokensConsistent, OnlyNewestLive, SingleFlight
<1>. QED BY <1>1, LifecycleSafe, PTL

(* A client that connect() returned has a token, for good.                 *)
THEOREM ReadyHasTokenHolds == LifecycleSpec => []ReadyHasToken
<1>1. LifecycleInv => ReadyHasToken
  BY DEF LifecycleInv, ClientInv, TokenFollowsConnect, ReadyHasToken
<1>. QED BY <1>1, LifecycleSafe, PTL

(* When connect() raises, nothing is left.                                 *)
THEOREM FailedConnectHolds == LifecycleSpec => []FailedConnectLeaksNothing
<1>1. LifecycleInv => FailedConnectLeaksNothing
  BY DEF LifecycleInv, ClientInv, NotReadyYet, ChannelFollowsConnect, FailedConnectLeaksNothing
<1>. QED BY <1>1, LifecycleSafe, PTL

(* The background task ends before the channel starts to close.            *)
THEOREM LoopEndsFirstHolds == LifecycleSpec => []LoopEndsFirst
<1>1. LifecycleInv => LoopEndsFirst
  BY DEF LifecycleInv, ClientInv
<1>. QED BY <1>1, LifecycleSafe, PTL

(* When every close() is through and none raised, the channel is closed    *)
(* and the background task has ended.                                      *)
THEOREM ReleaseHolds == LifecycleSpec => []ReturnedIsReleased
<1>1. LifecycleInv => ReturnedIsReleased
  BY DEF LifecycleInv, ClientInv, ClosingGoesOn, LoopEndsFirst, ReturnedIsReleased
<1>. QED BY <1>1, LifecycleSafe, PTL

-----------------------------------------------------------------------------
(* A background task that was told to end, or has ended, stays so.         *)
Heard == handle = "awaiting" /\ (LoopEnded \/ loop.told \/ LegacyWaitFor)

LEMMA CancelLoopIsHeard ==
  ASSUME TypeOK, CancelLoop PROVE LoopEnded' \/ loop'.told \/ LegacyWaitFor
BY DEF CancelLoop, SwallowsCancel, LoopEnded, TypeOK, LoopState

LEMMA HeardStays ==
  ASSUME TypeOK, ManagerStep \/ UNCHANGED <<loop, handle>>, Heard PROVE Heard'
<1>1. CASE UNCHANGED <<loop, handle>>
  BY <1>1 DEF Heard, LoopEnded
<1>2. ASSUME NEW f \in Fetches, FetchStep(f) PROVE UNCHANGED <<loop, handle>>
  BY <1>2 DEF FetchStep, StartFetch, IssueToken, FetchReturns, FetchFails, FetchCancelled
<1>3. CASE LoopStarts \/ LoopWoken \/ LoopTick \/ LoopResumes \/ LoopCancelled
  <2>1. UNCHANGED handle /\ ~LoopEnded
    BY <1>3 DEF LoopStarts, LoopWoken, LoopTick, LoopResumes, LoopCancelled, LoopEnded
  <2>2. loop'.told = loop.told
    BY <1>3 DEF LoopStarts, LoopWoken, LoopTick, LoopResumes, LoopCancelled, TypeOK, LoopState
  <2>. QED BY <2>1, <2>2 DEF Heard
<1>. QED BY <1>1, <1>2, <1>3 DEF ManagerStep

LEMMA HeardInductive ==
  LifecycleInv /\ CloseIsHeard /\ [LifecycleNext]_allVars => CloseIsHeard'
<1>. SUFFICES ASSUME LifecycleInv, CloseIsHeard, [LifecycleNext]_allVars PROVE CloseIsHeard'
  OBVIOUS
<1>0. /\ TypeOK /\ closer \in [Closers -> {"idle", "handle", "channel", "returned", "raised"}]
      /\ \A k \in Closers : closer[k] # "idle" => closed /\ connect = "ready"
  BY DEF LifecycleInv, LifecycleTypeOK, ManagerInv, ClientInv, ClosingGoesOn, NotReadyYet
<1>1. ASSUME UNCHANGED closer, ManagerStep \/ UNCHANGED <<loop, handle>> PROVE CloseIsHeard'
  BY <1>0, <1>1, HeardStays DEF CloseIsHeard, Heard
<1>2. ASSUME UNCHANGED closer, connect # "ready" PROVE CloseIsHeard'
  BY <1>0, <1>2 DEF CloseIsHeard
<1>3. CASE ConnectStep
  BY <1>2, <1>3 DEF ConnectStep, EndpointRejected, CredentialsMissing, ConnectFetches,
     ConnectFetched, ConnectWithoutAuth, ChannelReady, ConnectFails, ConnectCleaned, CancelConnect
<1>4. ASSUME NEW k \in Closers, CloseStep(k) PROVE CloseIsHeard'
  <2>1. CASE Close(k)
    <3>1. /\ \A j \in Closers : closer[j] = "idle"
          /\ \E st \in {"handle", "channel"} : closer' = [closer EXCEPT ![k] = st]
      BY <1>0, <2>1 DEF Close
    <3>2. \A j \in Closers : j # k => closer'[j] = "idle"
      BY <1>0, <3>1
    <3>3. closer'[k] = "handle" => Heard'
      <4>1. CASE auth
        BY <1>0, <2>1, <4>1, CancelLoopIsHeard DEF Close, Aclose, Heard
      <4>2. CASE ~auth
        BY <1>0, <2>1, <4>2 DEF Close
      <4>. QED BY <4>1, <4>2
    <3>. QED BY <3>2, <3>3 DEF CloseIsHeard, Heard
  <2>2. ASSUME NEW st \in {"channel", "returned", "raised"}, closer' = [closer EXCEPT ![k] = st],
               closer[k] \in {"handle", "channel"}
        PROVE  CloseIsHeard'
    <3>1. \A j \in Closers : closer'[j] # "handle"
      BY <1>0, <2>2 DEF CloseIsHeard
    <3>2. \A j \in Closers : closer'[j] = "channel" => closer[j] \in {"handle", "channel"}
      BY <1>0, <2>2
    <3>. QED BY <3>1, <3>2 DEF CloseIsHeard
  <2>3. CASE CloseAgain(k)
    <3>1. /\ closer' = [closer EXCEPT ![k] = "returned"] /\ UNCHANGED <<loop, handle>>
      BY <2>3 DEF CloseAgain, vars
    <3>2. \A j \in Closers : closer'[j] \in {closer[j], "returned"}
      BY <1>0, <3>1
    <3>. QED BY <3>1, <3>2 DEF CloseIsHeard, LoopEnded
  <2>4. CASE CloserResumes(k) \/ ChannelClosed(k)
    BY <2>2, <2>4 DEF CloserResumes, ChannelClosed
  <2>5. CASE CancelCloser(k)
    <3>1. CASE LoopEnded
      BY <2>2, <2>5, <3>1 DEF CancelCloser
    <3>2. CASE ~LoopEnded
      <4>1. CancelLoop /\ UNCHANGED <<handle, closer>>
        BY <2>5, <3>2 DEF CancelCloser
      <4>. QED BY <1>0, <4>1, CancelLoopIsHeard DEF CloseIsHeard
    <3>. QED BY <3>1, <3>2
  <2>. QED BY <1>4, <2>1, <2>3, <2>4, <2>5 DEF CloseStep
<1>5. ASSUME NEW c \in Users, UserStep(c) PROVE CloseIsHeard'
  BY <1>1, <1>5 DEF UserStep, InterceptedCall, RefreshAuthToken, UserResumes, GetCachedHeader,
     GetFirstHeader, CallRefreshNow, CallerResumes, CancelCaller, lifecycleVars
<1>6. CASE InvalidateAuthToken
  BY <1>1, <1>6 DEF InvalidateAuthToken, RequestRefresh, lifecycleVars
<1>7. CASE ManagerStep
  BY <1>1, <1>7 DEF ManagerStep, lifecycleVars
<1>8. CASE UNCHANGED allVars
  BY <1>1, <1>8 DEF allVars, vars, lifecycleVars
<1>. QED BY <1>3, <1>4, <1>5, <1>6, <1>7, <1>8 DEF LifecycleNext

(* The safety of CloseReturns: one close() is at work, and what it waits   *)
(* for has ended or was told to end.  By CancelledWaitsEnd, which          *)
(* ClientKeepsManager has as a part of Consistent, the background task     *)
(* that was told to end waits for nothing that only the IdP can end.       *)
THEOREM CloseIsHeardHolds == LifecycleSpec => []CloseIsHeard
<1>1. LifecycleInit => CloseIsHeard
  BY DEF LifecycleInit, CloseIsHeard
<1>. QED BY <1>1, HeardInductive, LifecycleSafe, PTL DEF LifecycleSpec

-----------------------------------------------------------------------------
(* CloseReleases, that a closed client has released everything whatever    *)
(* close() came back with, is violated by the code: an exception that      *)
(* _fetch_token_sync does not translate ends the background task and then  *)
(* close().  It is the only cause.                                         *)
NothingRaised ==
  /\ NoneRaised
  /\ loop.st # "raised"
  /\ \A k \in Closers : closer[k] # "raised"

LEMMA NothingRaisedInductive ==
  ASSUME ~ForeignErrors
  PROVE  LifecycleInv /\ NothingRaised /\ [LifecycleNext]_allVars => NothingRaised'
<1>. SUFFICES ASSUME LifecycleInv, NothingRaised, [LifecycleNext]_allVars PROVE NothingRaised'
  OBVIOUS
<1>0. TypeOK /\ CancelledWaitsEnd /\ NoneRaised /\ ManagerMoves
  BY LifecycleMovesManager DEF LifecycleInv, ManagerInv, NothingRaised
<1>1. NoneRaised'
  <2>1. CASE [Next]_vars
    BY <1>0, <2>1, RaisedInductive
  <2>2. CASE CancelsConnector \/ CancelsCloser
    BY <1>0, <2>2 DEF CancelsConnector, CancelsCloser, CancelLoop, CancelFetch, NoneRaised, TypeOK
  <2>. QED BY <1>0, <2>1, <2>2 DEF ManagerMoves
<1>2. loop'.st # "raised"
  <2>1. CASE [Next]_vars
    <3>1. CASE LoopResumes
      <4>. DEFINE end == IF loop.told THEN "cancelled" ELSE fetch[loop.on]
      <4>1. loop' = [loop EXCEPT !.st = IF end \in {"ok", "failed"} THEN "sleeping" ELSE end]
        BY <3>1 DEF LoopResumes
      <4>2. end # "raised"
        BY <1>0, <3>1 DEF LoopResumes, CancelledWaitsEnd, CanEnd, NoneRaised
      <4>. HIDE DEF end
      <4>. QED BY <1>0, <4>1, <4>2 DEF TypeOK, LoopState
    <3>2. CASE ~LoopResumes
      <4>1. loop'.st \in {loop.st, "created", "sleeping", "waiting", "cancelled"}
        <5>1. ASSUME NEW c \in Callers, CallerStep(c) PROVE UNCHANGED loop
          BY <5>1 DEF CallerStep, CallRefreshNow, GetCachedHeader, GetFirstHeader, CallerResumes,
                      CancelCaller
        <5>2. ASSUME NEW f \in Fetches, FetchStep(f) PROVE UNCHANGED loop
          BY <5>2 DEF FetchStep, StartFetch, IssueToken, FetchReturns, FetchFails, FetchCancelled
        <5>3. ASSUME LoopStep
              PROVE  loop'.st \in {loop.st, "created", "sleeping", "waiting", "cancelled"}
          BY <1>0, <3>2, <5>3 DEF LoopStep, RequestRefresh, SpawnRefresh, LoopStarts, LoopWoken,
               LoopTick, LoopCancelled, Aclose, CancelLoop, AcloseResumes, TypeOK, LoopState
        <5>. QED BY <2>1, <5>1, <5>2, <5>3 DEF Next, vars
      <4>. QED BY <4>1 DEF NothingRaised
    <3>. QED BY <3>1, <3>2
  <2>2. CASE CancelsConnector \/ CancelsCloser
    BY <1>0, <2>2 DEF CancelsConnector, CancelsCloser, CancelLoop, NothingRaised, TypeOK, LoopState
  <2>. QED BY <1>0, <2>1, <2>2 DEF ManagerMoves
<1>3. \A k \in Closers : closer'[k] # "raised"
  <2>0. closer \in [Closers -> {"idle", "handle", "channel", "returned", "raised"}]
    BY DEF LifecycleInv, LifecycleTypeOK
  <2>1. ASSUME NEW k \in Closers, CloseStep(k), NEW j \in Closers PROVE closer'[j] # "raised"
    <3>1. CASE CloserResumes(k)
      <4>1. handle' = "returned"
        BY <3>1 DEF CloserResumes, AcloseResumes, NothingRaised
      <4>. QED BY <2>0, <3>1, <4>1 DEF CloserResumes, NothingRaised
    <3>2. CASE Close(k) \/ CloseAgain(k) \/ ChannelClosed(k) \/ CancelCloser(k)
      BY <2>0, <3>2 DEF Close, CloseAgain, ChannelClosed, CancelCloser, NothingRaised
    <3>. QED BY <2>1, <3>1, <3>2 DEF CloseStep
  <2>2. ASSUME UNCHANGED closer PROVE \A k \in Closers : closer'[k] # "raised"
    BY <2>2 DEF NothingRaised
  <2>3. CASE ConnectStep
    BY <2>2, <2>3 DEF ConnectStep, EndpointRejected, CredentialsMissing, ConnectFetches,
       ConnectFetched, ConnectWithoutAuth, ChannelReady, ConnectFails, ConnectCleaned, CancelConnect
  <2>4. ASSUME NEW c \in Users, UserStep(c) PROVE UNCHANGED closer
    BY <2>4 DEF UserStep, InterceptedCall, RefreshAuthToken, UserResumes, lifecycleVars
  <2>. QED BY <2>1, <2>2, <2>3, <2>4 DEF LifecycleNext, InvalidateAuthToken, ManagerStep, allVars,
                                          lifecycleVars
<1>. QED BY <1>1, <1>2, <1>3 DEF NothingRaised

(* If nothing but a RociaDbError comes out of a fetch, close() never       *)
(* raises, and a client whose close() calls are through has closed its     *)
(* channel and ended its background task, also if they were cancelled.     *)
THEOREM CloseReleasesTranslated ==
  ASSUME ~ForeignErrors PROVE LifecycleSpec => []CloseReleases
<1>1. LifecycleInit => NothingRaised
  BY DEF LifecycleInit, Init, NoneRaised, NothingRaised
<1>2. LifecycleInv /\ NothingRaised /\ [LifecycleNext]_allVars => NothingRaised'
  BY NothingRaisedInductive
<1>3. LifecycleInv /\ NothingRaised => CloseReleases
  <2>. SUFFICES ASSUME LifecycleInv, NothingRaised, closed,
                       \A k \in Closers : closer[k] \notin {"handle", "channel"}
                PROVE  channel = "closed" /\ LoopEnded
    BY DEF CloseReleases
  <2>1. channel = "closed"
    BY DEF LifecycleInv, ClientInv, ClosingGoesOn, NothingRaised
  <2>. QED BY <2>1 DEF LifecycleInv, ClientInv, LoopEndsFirst
<1>. QED BY <1>1, <1>2, <1>3, LifecycleSafe, PTL DEF LifecycleSpec

-----------------------------------------------------------------------------
(* The background task inside a client: connect() and close() add their    *)
(* cancellations, the first of them before there is a task, the second     *)
(* after aclose() was called.                                              *)
LEMMA ClientCauseInductive ==
  LifecycleInv /\ CloseIsHeard /\ LoopEndsForCause /\ [LifecycleNext]_allVars => LoopEndsForCause'
<1>. SUFFICES ASSUME LifecycleInv, CloseIsHeard, LoopEndsForCause, [LifecycleNext]_allVars
              PROVE  LoopEndsForCause'
  OBVIOUS
<1>0. TypeOK /\ TokensConsistent
  BY DEF LifecycleInv, ManagerInv
<1>1. CASE [Next]_vars
  BY <1>0, <1>1, CauseInductive
<1>2. CASE CancelConnect
  <2>1. CASE UNCHANGED vars
    BY <1>1, <2>1
  <2>2. CASE CancelFetch(caller[Connector].on) /\ UNCHANGED <<loop, handle>>
    <3>1. ASSUME NEW f \in Fetches, fetch[f] \in {"cancelled", "raised"} PROVE fetch'[f] = fetch[f]
      BY <1>0, <2>2, <3>1 DEF CancelFetch, Live, TypeOK
    <3>. QED BY <2>2, <3>1 DEF LoopEndsForCause, AuthErrorsSurvived
  <2>. QED BY <1>2, <2>1, <2>2 DEF CancelConnect
<1>3. ASSUME NEW k \in Closers, CancelCloser(k) PROVE LoopEndsForCause'
  <2>1. handle = "awaiting"
    BY <1>3 DEF CancelCloser, CloseIsHeard
  <2>2. handle' \in {"awaiting", "returned"} /\ loop'.st = loop.st /\ loop'.on = loop.on
    BY <1>0, <1>3, <2>1 DEF CancelCloser, CancelLoop, TypeOK, LoopState
  <2>. QED BY <2>2 DEF LoopEndsForCause, AuthErrorsSurvived
<1>4. [Next]_vars \/ CancelConnect \/ \E k \in Closers : CancelCloser(k)
  <2>. USE LifecycleAssumption
  <2>1. CASE ConnectStep
    BY <2>1 DEF ConnectStep, EndpointRejected, CredentialsMissing, ConnectWithoutAuth, ConnectFails,
         ConnectCleaned, ConnectFetches, ConnectFetched, ChannelReady, Next, CallerStep, LoopStep
  <2>2. ASSUME NEW k \in Closers, CloseStep(k) PROVE [Next]_vars \/ CancelCloser(k)
    BY <2>2 DEF CloseStep, Close, CloseAgain, CloserResumes, ChannelClosed, Next, LoopStep
  <2>3. ASSUME NEW c \in Users, UserStep(c) PROVE [Next]_vars
    BY <2>3 DEF Users, UserStep, InterceptedCall, RefreshAuthToken, UserResumes, Next, CallerStep
  <2>4. ASSUME InvalidateAuthToken \/ ManagerStep PROVE [Next]_vars
    BY <2>4 DEF InvalidateAuthToken, ManagerStep, Next, LoopStep
  <2>. QED BY <2>1, <2>2, <2>3, <2>4 DEF LifecycleNext, allVars
<1>. QED BY <1>1, <1>2, <1>3, <1>4

(* Inside a client too no refresh that failed with a RociaDbError ends the *)
(* background task before it is closed.                                    *)
THEOREM ClientAuthErrorsSurvived == LifecycleSpec => []AuthErrorsSurvived
<1>1. LifecycleInit => LoopEndsForCause
  BY DEF LifecycleInit, Init, LoopEndsForCause, AuthErrorsSurvived
<1>2. LoopEndsForCause => AuthErrorsSurvived
  BY DEF LoopEndsForCause
<1>. QED BY <1>1, <1>2, ClientCauseInductive, LifecycleSafe, CloseIsHeardHolds, PTL DEF LifecycleSpec

(* If no caller is cancelled, only connect() cancels a fetch before        *)
(* aclose(), and then there is no client and no background task.           *)
OnlyConnectCancels ==
  handle = "open" =>
    \A f \in Fetches : fetch[f] \in {"cancelling", "cancelled"} =>
      \/ connect = "fetching" /\ f = caller[Connector].on
      \/ connect \in {"failed", "raised", "cancelled"}

LEMMA OnlyConnectInductive ==
  ASSUME ~CallerCancels
  PROVE  LifecycleInv /\ CloseIsHeard /\ OnlyConnectCancels /\ [LifecycleNext]_allVars
           => OnlyConnectCancels'
<1>. SUFFICES ASSUME LifecycleInv, CloseIsHeard, OnlyConnectCancels, [LifecycleNext]_allVars,
                     handle' = "open", NEW f \in Fetches, fetch'[f] \in {"cancelling", "cancelled"}
              PROVE  \/ connect' = "fetching" /\ f = caller'[Connector].on
                     \/ connect' \in {"failed", "raised", "cancelled"}
  BY DEF OnlyConnectCancels
<1>. DEFINE Meant == \/ connect' = "fetching" /\ f = caller'[Connector].on
                     \/ connect' \in {"failed", "raised", "cancelled"}
            Hit == fetch[f] \in {"cancelling", "cancelled"}
<1>0. /\ TypeOK /\ Connector \in Callers
      /\ connect # "ready" => loop.st = "absent" /\ \A k \in Closers : closer[k] = "idle"
  BY LifecycleAssumption DEF LifecycleInv, ManagerInv, ClientInv, NotReadyYet
<1>a. ASSUME handle = "open", Hit
      PROVE  \/ connect = "fetching" /\ f = caller[Connector].on
             \/ connect \in {"failed", "raised", "cancelled"}
  BY <1>a DEF OnlyConnectCancels
<1>1. ASSUME NEW g, Join(g) PROVE Hit
  BY <1>0, <1>1, JoinLemma DEF TypeOK
<1>2. CASE ConnectStep
  <2>1. CASE ConnectFetches
    <3>1. Hit /\ handle = "open"
      BY <1>1, <2>1 DEF ConnectFetches, CallRefreshNow
    <3>. QED BY <1>a, <2>1, <3>1 DEF ConnectFetches
  <2>2. CASE ConnectFetched
    <3>1. /\ Hit /\ handle = "open" /\ connect = "fetching" /\ caller[Connector].st = "waiting"
          /\ Done(caller[Connector].on)
      BY <2>2 DEF ConnectFetched, CallerResumes, fetchVars
    <3>2. f = caller[Connector].on /\ fetch[f] = "cancelled"
      BY <1>a, <3>1 DEF Done, Ended
    <3>3. caller'[Connector].st = "cancelled"
      BY <1>0, <2>2, <3>2 DEF ConnectFetched, CallerResumes, TypeOK, CallerState
    <3>. QED BY <2>2, <3>3 DEF ConnectFetched
  <2>3. CASE CancelConnect
    <3>1. CASE connect = "fetching"
      <4>1. /\ handle = "open" /\ connect' = "fetching" /\ caller'[Connector].on = caller[Connector].on
            /\ CancelFetch(caller[Connector].on)
        BY <1>0, <2>3, <3>1 DEF CancelConnect, TypeOK, CallerState
      <4>2. f = caller[Connector].on \/ Hit
        BY <1>0, <4>1 DEF CancelFetch, TypeOK
      <4>. QED BY <1>a, <3>1, <4>1, <4>2
    <3>2. CASE connect # "fetching"
      BY <2>3, <3>2 DEF CancelConnect
    <3>. QED BY <3>1, <3>2
  <2>4. CASE \/ EndpointRejected \/ CredentialsMissing \/ ConnectWithoutAuth \/ ChannelReady
             \/ ConnectFails \/ ConnectCleaned
    <3>1. Hit /\ handle = "open" /\ connect \in {"idle", "dialing", "cleaning"}
      BY <2>4 DEF EndpointRejected, CredentialsMissing, ConnectWithoutAuth, ChannelReady,
                  ConnectFails, ConnectCleaned, SpawnRefresh, vars, fetchVars
    <3>. QED BY <1>a, <3>1
  <2>. QED BY <1>2, <2>1, <2>2, <2>3, <2>4 DEF ConnectStep
<1>3. ASSUME Hit, handle = "open", UNCHANGED <<connect, caller>> PROVE Meant
  BY <1>a, <1>3
<1>4. ASSUME NEW k \in Closers, CloseStep(k) PROVE Meant
  <2>1. Hit /\ handle = "open" /\ UNCHANGED <<connect, caller>>
    BY <1>4 DEF CloseStep, Close, CloseAgain, CloserResumes, ChannelClosed, CancelCloser,
                CloseIsHeard, Aclose, AcloseResumes, vars, fetchVars
  <2>. QED BY <1>3, <2>1
<1>5. ASSUME NEW c \in Users, UserStep(c) PROVE Meant
  <2>1. Hit /\ handle = "open" /\ connect' = connect
    BY <1>1, <1>5 DEF UserStep, InterceptedCall, RefreshAuthToken, UserResumes, GetCachedHeader,
       GetFirstHeader, CallRefreshNow, CallerResumes, CancelCaller, fetchVars, lifecycleVars
  <2>2. caller'[Connector] = caller[Connector]
    BY <1>0, <1>5 DEF Users, UserStep, InterceptedCall, RefreshAuthToken, UserResumes, GetCachedHeader,
       GetFirstHeader, CallRefreshNow, CallerResumes, CancelCaller, TypeOK
  <2>. QED BY <1>a, <2>1, <2>2
<1>6. CASE InvalidateAuthToken \/ UNCHANGED allVars
  BY <1>3, <1>6 DEF InvalidateAuthToken, RequestRefresh, allVars, vars, fetchVars, lifecycleVars
<1>7. CASE ManagerStep
  <2>1. ASSUME NEW g \in Fetches, FetchStep(g) PROVE Hit /\ UNCHANGED <<handle, caller>>
    BY <1>0, <2>1 DEF FetchStep, StartFetch, IssueToken, FetchReturns, FetchFails, FetchCancelled, TypeOK
  <2>2. ASSUME LoopStarts \/ LoopWoken \/ LoopTick \/ LoopResumes \/ LoopCancelled
        PROVE  Hit /\ UNCHANGED <<handle, caller>>
    BY <1>1, <2>2 DEF LoopStarts, LoopWoken, LoopTick, LoopResumes, LoopCancelled, fetchVars
  <2>3. Hit /\ UNCHANGED <<handle, caller>>
    BY <1>7, <2>1, <2>2 DEF ManagerStep
  <2>. QED BY <1>3, <1>7, <2>3 DEF ManagerStep, lifecycleVars
<1>. QED BY <1>2, <1>4, <1>5, <1>6, <1>7 DEF LifecycleNext

(* A client's background task lives until close() if no RPC is cancelled   *)
(* as it waits for a token and nothing but a RociaDbError comes out of a   *)
(* fetch: what connect(), close() and the IdP do takes nothing from it.    *)
THEOREM ClientLoopSurvives ==
  ASSUME ~CallerCancels, ~ForeignErrors PROVE LifecycleSpec => []LoopSurvives
<1>1. LifecycleInit => OnlyConnectCancels /\ NothingRaised
  BY DEF LifecycleInit, Init, OnlyConnectCancels, NothingRaised, NoneRaised
<1>2. LifecycleInv /\ CloseIsHeard /\ OnlyConnectCancels /\ NothingRaised /\ [LifecycleNext]_allVars
        => OnlyConnectCancels' /\ NothingRaised'
  BY OnlyConnectInductive, NothingRaisedInductive
<1>3. LifecycleInv /\ OnlyConnectCancels /\ NothingRaised /\ AuthErrorsSurvived => LoopSurvives
  <2>. SUFFICES ASSUME LifecycleInv, OnlyConnectCancels, NothingRaised, AuthErrorsSurvived,
                       handle = "open", loop.st \in {"cancelled", "raised"}
                PROVE  FALSE
    BY DEF LoopSurvives
  <2>1. connect = "ready"
    BY DEF LifecycleInv, ClientInv, NotReadyYet
  <2>2. PICK f \in Fetches : fetch[f] \in {"cancelled", "raised"}
    BY DEF AuthErrorsSurvived
  <2>. QED BY <2>1, <2>2 DEF OnlyConnectCancels, NothingRaised, NoneRaised
<1>. QED BY <1>1, <1>2, <1>3, LifecycleSafe, CloseIsHeardHolds, ClientAuthErrorsSurvived, PTL
         DEF LifecycleSpec

-----------------------------------------------------------------------------
(* The calls ride on the life of the client: they take no step of it that  *)
(* its own specification does not have.                                    *)
LEMMA CallsMoveLifecycle == [CallsNext]_callsVars => [LifecycleNext]_allVars
<1>1. ASSUME NEW c \in Users, CallStep(c) PROVE UserStep(c) \/ UNCHANGED allVars
  BY <1>1 DEF CallStep, SendRpc, AwaitEnds, Answered, Recover, GiveUp, ChannelCancels, UserStep
<1>. QED BY <1>1 DEF CallsNext, LifecycleNext, callsVars

(* A client whose tasks make RPCs is a client of ClientLifecycle, so that  *)
(* what connect() and close() leave behind holds of it too.                *)
THEOREM CallsKeepLifecycle == CallsSpec => LifecycleSpec
<1>1. CallsInit => LifecycleInit
  BY DEF CallsInit
<1>. QED BY <1>1, CallsMoveLifecycle, PTL DEF CallsSpec, LifecycleSpec

-----------------------------------------------------------------------------
(* Every shape of call that the stubs have is intercepted.                 *)
LEMMA AllIntercepted == Shapes \subseteq Interceptors
BY DEF Shapes, Interceptors, DocumentServiceStub, GraphServiceStub, FileServiceStub,
       TenantServiceStub

(* One user's RPC: only a ready client has one, its tokens are none but    *)
(* with auth and not newer than the cached one, and a refresh on its       *)
(* behalf improves on the token that was rejected.                         *)
CallFits(c) ==
  /\ call[c].st = "idle" => call[c] = NoCall
  /\ call[c].st # "idle" => connect = "ready"
  /\ call[c].st # "authorizing"
  /\ call[c].token <= authorization /\ call[c].rejected <= authorization
  /\ ~auth => call[c].token = 0 /\ call[c].rejected = 0
  /\ auth /\ call[c].st = "flight" => call[c].token # 0
  /\ call[c].st = "flight" /\ call[c].rejected # 0 => call[c].token > call[c].rejected
  /\ call[c].st = "refreshing" =>
       caller[c].st = "waiting" /\ caller[c].floor >= call[c].rejected
  /\ call[c].st = "refreshed" => authorization > call[c].rejected

CallsInv == /\ LifecycleInv
            /\ call \in [Users -> CallState]
            /\ \A c \in Users : CallFits(c)

(* A ready client stays ready, and its token is only replaced by a newer.  *)
LEMMA LifecycleGoesOn ==
  ASSUME LifecycleInv, [LifecycleNext]_allVars
  PROVE  /\ auth' = auth /\ (connect = "ready" => connect' = "ready")
         /\ authorization \in Nat /\ authorization' \in Nat /\ authorization' >= authorization
<1>1. authorization \in Nat /\ authorization' \in Nat /\ authorization' >= authorization
  BY LifecycleMovesManager, ManagerKeepsToken DEF LifecycleInv, ManagerInv, TypeOK
<1>2. auth' = auth /\ (connect = "ready" => connect' = "ready")
  <2>1. CASE ConnectStep
    BY <2>1 DEF ConnectStep, EndpointRejected, CredentialsMissing, ConnectFetches, ConnectFetched,
         ConnectWithoutAuth, ChannelReady, ConnectFails, ConnectCleaned, CancelConnect
  <2>2. ASSUME NEW k \in Closers, CloseStep(k) PROVE UNCHANGED <<auth, connect>>
    BY <2>2 DEF CloseStep, Close, CloseAgain, CloserResumes, ChannelClosed, CancelCloser
  <2>3. ASSUME NEW c \in Users, UserStep(c) PROVE UNCHANGED <<auth, connect>>
    BY <2>3 DEF UserStep, InterceptedCall, RefreshAuthToken, UserResumes, lifecycleVars
  <2>. QED BY <2>1, <2>2, <2>3 DEF LifecycleNext, InvalidateAuthToken, ManagerStep, allVars,
                                    lifecycleVars
<1>. QED BY <1>1, <1>2

(* A call fits as long as its own user does nothing.                       *)
LEMMA Undisturbed ==
  ASSUME CallsInv, [LifecycleNext]_allVars, NEW c \in Users,
         call'[c] = call[c], caller'[c] = caller[c]
  PROVE  CallFits(c)'
<1>1. CallFits(c) /\ call[c] \in CallState
  BY DEF CallsInv
<1>2. /\ auth' = auth /\ (connect = "ready" => connect' = "ready")
      /\ authorization \in Nat /\ authorization' \in Nat /\ authorization' >= authorization
  BY LifecycleGoesOn DEF CallsInv
<1>. QED BY <1>1, <1>2 DEF CallFits, CallState, NoCall

(* The steps that are nobody's RPC leave every user's manager call alone.  *)
LEMMA UsersLeftAlone ==
  ASSUME CallsInv,
         ConnectStep \/ (\E k \in Closers : CloseStep(k)) \/ InvalidateAuthToken \/ ManagerStep,
         NEW c \in Users
  PROVE  caller'[c] = caller[c]
<1>1. c # Connector /\ c \in Callers /\ Connector \in Callers
  BY LifecycleAssumption DEF Users
<1>2. TypeOK /\ TokensConsistent
  BY DEF CallsInv, LifecycleInv, ManagerInv
<1>3. CASE ConnectStep
  <2>1. CASE ConnectFetches
    BY <1>1, <1>2, <2>1 DEF ConnectFetches, CallRefreshNow, TypeOK
  <2>2. CASE ConnectFetched
    BY <1>1, <1>2, <2>2, Resumed DEF ConnectFetched
  <2>3. CASE CancelConnect
    BY <1>1, <1>2, <2>3 DEF CancelConnect, TypeOK, vars
  <2>4. CASE UNCHANGED caller
    BY <2>4
  <2>. QED BY <1>3, <2>1, <2>2, <2>3, <2>4 DEF ConnectStep, EndpointRejected, CredentialsMissing,
       ConnectWithoutAuth, ChannelReady, SpawnRefresh, ConnectFails, ConnectCleaned, vars
<1>4. ASSUME NEW k \in Closers, CloseStep(k) PROVE UNCHANGED caller
  BY <1>4 DEF CloseStep, Close, Aclose, CloseAgain, CloserResumes, AcloseResumes, ChannelClosed,
              CancelCloser, vars
<1>5. CASE InvalidateAuthToken
  BY <1>5 DEF InvalidateAuthToken, RequestRefresh
<1>6. CASE ManagerStep
  <2>1. ASSUME NEW f \in Fetches, FetchStep(f) PROVE UNCHANGED caller
    BY <2>1 DEF FetchStep, StartFetch, IssueToken, FetchReturns, FetchFails, FetchCancelled
  <2>. QED BY <1>6, <2>1 DEF ManagerStep, LoopStarts, LoopWoken, LoopTick, LoopResumes, LoopCancelled
<1>. QED BY <1>3, <1>4, <1>5, <1>6

(* Nor does the RPC of one user touch that of another.                     *)
LEMMA OtherUsersLeftAlone ==
  ASSUME CallsInv, NEW c \in Users, CallStep(c), NEW d \in Users, d # c
  PROVE  caller'[d] = caller[d] /\ call'[d] = call[d]
<1>1. c \in Callers /\ d \in Callers
  BY DEF Users
<1>2. /\ TypeOK /\ TokensConsistent /\ call \in [Users -> CallState]
  BY DEF CallsInv, LifecycleInv, ManagerInv
<1>3. call'[d] = call[d]
  BY <1>2 DEF CallStep, SendRpc, AwaitEnds, Answered, Recover, GiveUp, ChannelCancels, Continuation
<1>4. ASSUME CallRefreshNow(c) \/ GetCachedHeader(c) \/ GetFirstHeader(c) \/ CancelCaller(c)
      PROVE  caller'[d] = caller[d]
  BY <1>1, <1>2, <1>4 DEF CallRefreshNow, GetCachedHeader, GetFirstHeader, CancelCaller, TypeOK
<1>5. ASSUME CallerResumes(c) PROVE caller'[d] = caller[d]
  BY <1>1, <1>2, <1>5, Resumed
<1>6. ASSUME UNCHANGED allVars PROVE caller'[d] = caller[d]
  BY <1>6 DEF allVars, vars
<1>. QED BY <1>3, <1>4, <1>5, <1>6 DEF CallStep, SendRpc, AwaitEnds, Answered, Recover, GiveUp,
            ChannelCancels, InterceptedCall, UserResumes, RefreshAuthToken

(* A call that is over fits.                                               *)
LEMMA GoneFits ==
  ASSUME NEW c \in Users, call \in [Users -> CallState], call' = [call EXCEPT ![c] = NoCall],
         authorization' \in Nat
  PROVE  call' \in [Users -> CallState] /\ CallFits(c)'
BY DEF CallState, NoCall, CallFits

(* An answer, and whatever ends the call, touches nothing else.            *)
LEMMA EndFits ==
  ASSUME CallsInv, NEW c \in Users, Answered(c) \/ GiveUp(c) \/ ChannelCancels(c)
  PROVE  call' \in [Users -> CallState] /\ CallFits(c)'
<1>1. /\ call \in [Users -> CallState] /\ call[c] \in CallState /\ CallFits(c)
      /\ authorization \in Nat
  BY DEF CallsInv, LifecycleInv, ManagerInv, TypeOK
<1>2. UNCHANGED <<authorization, auth, connect, caller>>
  BY DEF Answered, GiveUp, ChannelCancels, allVars, vars, fetchVars, lifecycleVars
<1>3. CASE call' = [call EXCEPT ![c] = NoCall]
  BY <1>1, <1>2, <1>3, GoneFits
<1>4. CASE call[c].st = "flight" /\ call' = [call EXCEPT ![c] = [@ EXCEPT !.st = "unauthenticated"]]
  <2>1. call' \in [Users -> CallState] /\ call'[c] = [call[c] EXCEPT !.st = "unauthenticated"]
    BY <1>1, <1>4 DEF CallState
  <2>. QED BY <1>1, <1>2, <1>4, <2>1 DEF CallFits, CallState
<1>. QED BY <1>3, <1>4 DEF Answered, GiveUp, ChannelCancels

(* The call goes out with the cached token, or without one when there is   *)
(* no auth.                                                                *)
LEMMA SendFits ==
  ASSUME CallsInv, NEW c \in Users, SendRpc(c)
  PROVE  call' \in [Users -> CallState] /\ CallFits(c)'
<1>1. /\ TypeOK /\ ReadyHasToken /\ c \in Callers /\ call \in [Users -> CallState]
      /\ call[c] \in CallState /\ CallFits(c) /\ authorization \in Nat /\ 0 \in Nat
  BY DEF CallsInv, LifecycleInv, ManagerInv, ClientInv, TokenFollowsConnect, ReadyHasToken, Users, TypeOK
<1>2. connect = "ready" /\ call[c].st \in {"idle", "refreshed"}
  BY DEF SendRpc
<1>3. PICK shape \in Shapes :
        IF auth /\ shape \in Interceptors
        THEN /\ InterceptedCall(c)
             /\ IF caller'[c].st = "ok"
                THEN Continuation(c, caller'[c].header)
                ELSE call' = [call EXCEPT ![c].st = "authorizing"]
        ELSE UNCHANGED allVars /\ Continuation(c, 0)
  BY DEF SendRpc
<1>4. PICK t \in {0, authorization} :
        /\ Continuation(c, t) /\ t = (IF auth THEN authorization ELSE 0)
        /\ UNCHANGED <<authorization, auth, connect>>
  <2>1. CASE auth
    <3>1. InterceptedCall(c)
      BY <1>3, <2>1, AllIntercepted
    <3>2. GetCachedHeader(c)
      BY <1>1, <1>2, <2>1, <3>1 DEF InterceptedCall, GetFirstHeader, ReadyHasToken
    <3>3. caller'[c].st = "ok" /\ caller'[c].header = authorization
      BY <1>1, <3>2 DEF GetCachedHeader, TypeOK
    <3>4. Continuation(c, authorization)
      BY <1>3, <2>1, <3>3, AllIntercepted
    <3>. QED BY <2>1, <3>1, <3>2, <3>4 DEF InterceptedCall, GetCachedHeader, fetchVars, lifecycleVars
  <2>2. CASE ~auth
    BY <1>3, <2>2 DEF allVars, vars, fetchVars, lifecycleVars
  <2>. QED BY <2>1, <2>2
<1>5. t \in Nat /\ t <= authorization /\ authorization >= 0
  BY <1>1, <1>4
<1>6. \/ call' = [call EXCEPT ![c] = [@ EXCEPT !.st = "flight", !.token = t]]
      \/ call' = [call EXCEPT ![c] = NoCall]
  BY <1>4 DEF Continuation
<1>7. CASE call' = [call EXCEPT ![c] = [@ EXCEPT !.st = "flight", !.token = t]]
  <2>1. call' \in [Users -> CallState]
    BY <1>1, <1>5, <1>7 DEF CallState
  <2>2. call'[c].st = "flight" /\ call'[c].token = t /\ call'[c].rejected = call[c].rejected
    BY <1>1, <1>7 DEF CallState
  <2>3. auth => authorization # 0
    BY <1>1, <1>2 DEF ReadyHasToken
  <2>4. call[c].rejected # 0 => authorization > call[c].rejected
    BY <1>1, <1>2 DEF CallFits, NoCall
  <2>. QED BY <1>1, <1>2, <1>4, <1>5, <2>1, <2>2, <2>3, <2>4 DEF CallFits, CallState
<1>8. CASE call' = [call EXCEPT ![c] = NoCall]
  BY <1>1, <1>2, <1>4, <1>5, <1>8, GoneFits
<1>. QED BY <1>6, <1>7, <1>8

(* A refresh on behalf of a rejected call has to improve on its token.     *)
LEMMA RecoverFits ==
  ASSUME CallsInv, NEW c \in Users, Recover(c)
  PROVE  call' \in [Users -> CallState] /\ CallFits(c)'
<1>1. /\ TypeOK /\ c \in Callers /\ call \in [Users -> CallState] /\ call[c] \in CallState
      /\ CallFits(c) /\ authorization \in Nat
  BY DEF CallsInv, LifecycleInv, ManagerInv, Users, TypeOK
<1>2. connect = "ready" /\ auth /\ CallRefreshNow(c) /\ UNCHANGED <<auth, connect>>
  BY DEF Recover, RefreshAuthToken, lifecycleVars
<1>3. caller'[c].st = "waiting" /\ caller'[c].floor = authorization /\ UNCHANGED authorization
  BY <1>1, <1>2 DEF CallRefreshNow, Join, TypeOK
<1>4. call' = [call EXCEPT ![c] = [st |-> "refreshing", token |-> 0, rejected |-> @.token]]
  BY <1>3 DEF Recover
<1>5. call[c].token \in Nat /\ call[c].token <= authorization
  BY <1>1 DEF CallFits, CallState
<1>6. call'[c] = [st |-> "refreshing", token |-> 0, rejected |-> call[c].token]
  BY <1>1, <1>4
<1>7. call' \in [Users -> CallState]
  BY <1>1, <1>4, <1>5 DEF CallState
<1>. QED BY <1>1, <1>2, <1>3, <1>5, <1>6, <1>7 DEF CallFits, NoCall

(* The refresh that succeeded has brought a newer token than the rejected. *)
LEMMA AwaitFits ==
  ASSUME CallsInv, NEW c \in Users, AwaitEnds(c)
  PROVE  call' \in [Users -> CallState] /\ CallFits(c)'
<1>1. /\ TypeOK /\ TokensConsistent /\ c \in Callers /\ call \in [Users -> CallState]
      /\ call[c] \in CallState /\ caller[c] \in CallerState /\ CallFits(c) /\ authorization \in Nat
  BY DEF CallsInv, LifecycleInv, ManagerInv, Users, TypeOK
<1>2. call[c].st = "refreshing" /\ connect = "ready" /\ UNCHANGED <<auth, connect>>
  BY <1>1 DEF AwaitEnds, CallFits, UserResumes, lifecycleVars
<1>3. CASE CallerResumes(c)
  <2>1. UNCHANGED authorization
    BY <1>3 DEF CallerResumes, fetchVars
  <2>2. caller'[c].st \in Ended /\ (caller'[c].st = "ok" => authorization > caller[c].floor)
    BY <1>1, <1>3, Resumed
  <2>3. CASE caller'[c].st = "ok"
    <3>1. call' = [call EXCEPT ![c].st = "refreshed"]
      BY <1>2, <2>3 DEF AwaitEnds
    <3>2. call' \in [Users -> CallState] /\ call'[c] = [call[c] EXCEPT !.st = "refreshed"]
      BY <1>1, <3>1 DEF CallState
    <3>3. authorization > call[c].rejected
      BY <1>1, <1>2, <2>2, <2>3 DEF CallFits, CallState, CallerState
    <3>. QED BY <1>1, <1>2, <2>1, <3>2, <3>3 DEF CallFits, CallState
  <2>4. CASE caller'[c].st # "ok"
    <3>1. call' = [call EXCEPT ![c] = NoCall]
      BY <2>2, <2>4 DEF AwaitEnds, Ended
    <3>. QED BY <1>1, <2>1, <3>1, GoneFits
  <2>. QED BY <2>3, <2>4
<1>4. CASE CancelCaller(c)
  <2>1. caller'[c].st = "waiting" /\ caller'[c].floor = caller[c].floor /\ UNCHANGED authorization
    BY <1>1, <1>4 DEF CancelCaller, TypeOK, CallerState
  <2>2. UNCHANGED call
    BY <2>1 DEF AwaitEnds
  <2>. QED BY <1>1, <1>2, <2>1, <2>2 DEF CallFits
<1>. QED BY <1>3, <1>4 DEF AwaitEnds, UserResumes

LEMMA CallsInductive == CallsInv /\ [CallsNext]_callsVars => CallsInv'
<1>. SUFFICES ASSUME CallsInv, [CallsNext]_callsVars PROVE CallsInv'
  OBVIOUS
<1>1. [LifecycleNext]_allVars
  BY CallsMoveLifecycle
<1>2. LifecycleInv'
  BY <1>1, LifecycleInductive DEF CallsInv
<1>3. ASSUME NEW c \in Users, CallStep(c) PROVE CallsInv'
  <2>1. call' \in [Users -> CallState] /\ CallFits(c)'
    <3>1. CASE SendRpc(c)
      BY <3>1, SendFits
    <3>2. CASE AwaitEnds(c)
      BY <3>2, AwaitFits
    <3>3. CASE Recover(c)
      BY <3>3, RecoverFits
    <3>4. CASE Answered(c) \/ GiveUp(c) \/ ChannelCancels(c)
      BY <3>4, EndFits
    <3>. QED BY <1>3, <3>1, <3>2, <3>3, <3>4 DEF CallStep
  <2>2. ASSUME NEW d \in Users, d # c PROVE CallFits(d)'
    BY <1>1, <1>3, <2>2, OtherUsersLeftAlone, Undisturbed
  <2>. QED BY <1>2, <2>1, <2>2 DEF CallsInv
<1>4. ASSUME UNCHANGED call,
             ConnectStep \/ (\E k \in Closers : CloseStep(k)) \/ InvalidateAuthToken \/ ManagerStep
      PROVE  CallsInv'
  <2>1. ASSUME NEW c \in Users PROVE CallFits(c)'
    BY <1>1, <1>4, UsersLeftAlone, Undisturbed
  <2>. QED BY <1>2, <1>4, <2>1 DEF CallsInv
<1>5. CASE UNCHANGED callsVars
  <2>1. UNCHANGED <<call, caller>>
    BY <1>5 DEF callsVars, allVars, vars
  <2>2. ASSUME NEW c \in Users PROVE CallFits(c)'
    BY <1>1, <2>1, Undisturbed
  <2>. QED BY <1>2, <2>1, <2>2 DEF CallsInv
<1>. QED BY <1>3, <1>4, <1>5 DEF CallsNext

LEMMA CallsInitially == CallsInit => CallsInv
<1>. SUFFICES ASSUME CallsInit PROVE CallsInv
  OBVIOUS
<1>1. LifecycleInv
  BY LifecycleInitially DEF CallsInit
<1>2. call \in [Users -> CallState]
  BY DEF CallsInit, NoCall, CallState
<1>3. authorization = 0
  BY DEF CallsInit, LifecycleInit, Init
<1>. QED BY <1>1, <1>2, <1>3 DEF CallsInit, NoCall, CallsInv, CallFits

LEMMA CallsSafe == CallsSpec => []CallsInv
BY CallsInitially, CallsInductive, PTL DEF CallsSpec

(* The client, its manager and its RPCs stay well-typed.                   *)
THEOREM CallsTypeCorrect == CallsSpec => []CallsTypeOK
<1>1. CallsInv => CallsTypeOK
  BY DEF CallsInv, CallsTypeOK, LifecycleInv
<1>. QED BY <1>1, CallsSafe, PTL

(* With auth, no RPC of any service goes out without a token.              *)
THEOREM EveryCallCarriesTokenHolds == CallsSpec => []EveryCallCarriesToken
<1>1. CallsInv => EveryCallCarriesToken
  BY DEF CallsInv, CallFits, EveryCallCarriesToken
<1>. QED BY <1>1, CallsSafe, PTL

(* The call that is made again after refresh_auth_token() carries a newer  *)
(* token than the one that was rejected.                                   *)
THEOREM RetryCarriesNewerTokenHolds == CallsSpec => []RetryCarriesNewerToken
<1>1. CallsInv => RetryCarriesNewerToken
  BY DEF CallsInv, CallFits, RetryCarriesNewerToken
<1>. QED BY <1>1, CallsSafe, PTL

(* The safety of CallsEndWithClient: an RPC that is under way on a closed  *)
(* client is one that the closing channel cancels, or close() raised, or   *)
(* it is still at work and waits for a background task that has ended or   *)
(* was told to; the IdP and the server need not answer.                    *)
CallsHeard == \A c \in Users : closed /\ call[c].st = "flight" =>
  \/ channel \in {"closing", "closed"}
  \/ \E k \in Closers :
       \/ closer[k] = "raised"
       \/ /\ closer[k] = "handle" /\ handle = "awaiting"
          /\ LoopEnded \/ loop.told \/ LegacyWaitFor

(* Every RPC under way on a closed client is on its way to its end.        *)
THEOREM CallsHeardHolds == CallsSpec => []CallsHeard
<1>1. LifecycleInv /\ CloseIsHeard => CallsHeard
  BY DEF LifecycleInv, ClientInv, ClosingGoesOn, CloseIsHeard, CallsHeard
<1>. QED BY <1>1, LifecycleSafe, CloseIsHeardHolds, CallsKeepLifecycle, PTL
=============================================================================
