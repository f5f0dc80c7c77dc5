--------------------------- MODULE ClientLifecycle ---------------------------
(***************************************************************************)
(* RociaDbClient.connect(), close() and the two token calls of the client  *)
(* (src/rociadb_sdk/client.py), composed with the TokenManager they drive: *)
(* connect() is one more caller of refresh_now(), a ready client owns the  *)
(* handle of the background task, and close() awaits its aclose() before   *)
(* it closes the channel.                                                  *)
(*                                                                         *)
(* grpc.aio is outside src/: a channel becomes ready or does not within    *)
(* the connect timeout, and Channel.close() returns.                       *)
(***************************************************************************)
EXTENDS TokenManager

CONSTANTS
  Connector,       \* the caller that is the task inside connect()
  Closers,         \* tasks that call close(), or leave `async with`, once each
  ConnectCancels   \* may the task inside connect() be cancelled?

ASSUME LifecycleAssumption ==
  /\ Connector \in Callers
  /\ ConnectCancels \in BOOLEAN

VARIABLES
  auth,      \* ~disable_auth: there is a token manager
  connect,   \* where connect() is, or how it ended
  channel,   \* self._channel
  closed,    \* self._closed
  closer     \* where each close() is, or how it ended

lifecycleVars == <<auth, connect, channel, closed, closer>>
allVars == <<vars, lifecycleVars>>

Users == Callers \ {Connector}
ConnectEnded == {"ready", "failed", "raised", "cancelled"}
LoopEnded == loop.st \in {"absent", "cancelled", "raised"}

LifecycleTypeOK ==
  /\ TypeOK
  /\ auth \in BOOLEAN
  /\ connect \in {"idle", "fetching", "dialing", "cleaning"} \cup ConnectEnded
  /\ channel \in {"none", "open", "closing", "closed"}
  /\ closed \in BOOLEAN
  /\ closer \in [Closers -> {"idle", "handle", "channel", "returned", "raised"}]

LifecycleInit ==
  /\ Init
  /\ auth \in BOOLEAN
  /\ connect = "idle"
  /\ channel = "none"
  /\ closed = FALSE
  /\ closer = [k \in Closers |-> "idle"]

-----------------------------------------------------------------------------
(* A bad scheme, host, path or timeout raises before anything exists.      *)
EndpointRejected ==
  /\ connect = "idle"
  /\ connect' = "failed"
  /\ UNCHANGED <<vars, auth, channel, closed, closer>>

(* With auth, so does a credential that is neither passed nor in the       *)
(* environment.                                                            *)
CredentialsMissing ==
  /\ connect = "idle" /\ auth
  /\ connect' = "failed"
  /\ UNCHANGED <<vars, auth, channel, closed, closer>>

(* With auth, connect() waits for the first token.                         *)
ConnectFetches ==
  /\ connect = "idle" /\ auth
  /\ CallRefreshNow(Connector)
  /\ connect' = "fetching"
  /\ UNCHANGED <<auth, channel, closed, closer>>

(* Altered form: the channel is opened whatever the first fetch brought.   *)
ConnectFetchedAnyhow ==
  /\ connect = "fetching"
  /\ CallerResumes(Connector)
  /\ channel' = "open"
  /\ connect' = "dialing"
  /\ UNCHANGED <<auth, closed, closer>>

(* The first fetch ended.  Its exception, if any, leaves connect() as it   *)
(* is; otherwise the channel is created and dialed.                        *)
ConnectFetched ==
  /\ connect = "fetching"
  /\ CallerResumes(Connector)
  /\ IF caller'[Connector].st = "ok"
     THEN channel' = "open" /\ connect' = "dialing"
     ELSE connect' = caller'[Connector].st /\ UNCHANGED channel
  /\ UNCHANGED <<auth, closed, closer>>

ConnectWithoutAuth ==
  /\ connect = "idle" /\ ~auth
  /\ channel' = "open"
  /\ connect' = "dialing"
  /\ UNCHANGED <<vars, auth, closed, closer>>

(* channel_ready() returned: spawn the background task, build the client.  *)
ChannelReady ==
  /\ connect = "dialing"
  /\ connect' = "ready"
  /\ IF auth THEN SpawnRefresh ELSE UNCHANGED vars
  /\ UNCHANGED <<auth, channel, closed, closer>>

(* Altered form: the exception leaves connect() with the channel open.     *)
ConnectFailsOpen ==
  /\ connect = "dialing"
  /\ connect' = "failed"
  /\ UNCHANGED <<vars, auth, channel, closed, closer>>

(* TimeoutError, AioRpcError or OSError: close the channel, then raise.    *)
ConnectFails ==
  /\ connect = "dialing"
  /\ channel' = "closing"
  /\ connect' = "cleaning"
  /\ UNCHANGED <<vars, auth, closed, closer>>

ConnectCleaned ==
  /\ connect = "cleaning"
  /\ channel' = "closed"
  /\ connect' = "failed"
  /\ UNCHANGED <<vars, auth, closed, closer>>

(* Cancelling connect() cancels the fetch it awaits; while it dials, the   *)
(* CancelledError is in no except clause and passes the channel by.        *)
CancelConnect ==
  /\ ConnectCancels
  /\ \/ /\ connect = "fetching" /\ ~caller[Connector].told
        /\ CancelFetch(caller[Connector].on)
        /\ caller' = [caller EXCEPT ![Connector].told = TRUE]
        /\ UNCHANGED <<authorization, inflight, response, posted, issued,
                       refresh_requested, loop, handle, connect>>
     \/ /\ connect = "dialing"
        /\ connect' = "cancelled"
        /\ UNCHANGED vars
  /\ UNCHANGED <<auth, channel, closed, closer>>

-----------------------------------------------------------------------------
(* Altered form: the channel is closed before the background task.         *)
CloseChannelFirst(k) ==
  /\ connect = "ready" /\ closer[k] = "idle"
  /\ ~closed
  /\ closed' = TRUE
  /\ channel' = "closing"
  /\ IF auth THEN Aclose ELSE UNCHANGED vars
  /\ closer' = [closer EXCEPT ![k] = "handle"]
  /\ UNCHANGED <<auth, connect>>

(* close(): the first call cancels the background task, or goes straight   *)
(* to the channel when there is none.                                      *)
Close(k) ==
  /\ connect = "ready" /\ closer[k] = "idle"
  /\ ~closed
  /\ closed' = TRUE
  /\ IF auth
     THEN /\ Aclose
          /\ closer' = [closer EXCEPT ![k] = "handle"]
          /\ UNCHANGED channel
     ELSE /\ channel' = "closing"
          /\ closer' = [closer EXCEPT ![k] = "channel"]
          /\ UNCHANGED vars
  /\ UNCHANGED <<auth, connect>>

(* Any later call returns at once, also while the first is still at it.    *)
CloseAgain(k) ==
  /\ connect = "ready" /\ closer[k] = "idle"
  /\ closed
  /\ closer' = [closer EXCEPT ![k] = "returned"]
  /\ UNCHANGED <<vars, auth, connect, channel, closed>>

(* Altered form: close() returns without closing the channel.              *)
CloserResumesAndReturns(k) ==
  /\ closer[k] = "handle"
  /\ AcloseResumes
  /\ closer' = [closer EXCEPT ![k] = IF handle' = "returned" THEN "returned" ELSE "raised"]
  /\ UNCHANGED <<auth, connect, channel, closed>>

(* aclose() returned: close the channel.  What it raises skips that.       *)
CloserResumes(k) ==
  /\ closer[k] = "handle"
  /\ AcloseResumes
  /\ IF handle' = "returned"
     THEN channel' = "closing" /\ closer' = [closer EXCEPT ![k] = "channel"]
     ELSE closer' = [closer EXCEPT ![k] = "raised"] /\ UNCHANGED channel
  /\ UNCHANGED <<auth, connect, closed>>

ChannelClosed(k) ==
  /\ closer[k] = "channel"
  /\ channel' = "closed"
  /\ closer' = [closer EXCEPT ![k] = "returned"]
  /\ UNCHANGED <<vars, auth, connect, closed>>

(* A cancellation of close() as it awaits the background task is passed to *)
(* that task, or raised at the await when the task has just ended; either  *)
(* way aclose() suppresses it and close() goes on.                         *)
CancelCloser(k) ==
  /\ closer[k] = "handle"
  /\ IF LoopEnded
     THEN /\ handle' = "returned"
          /\ channel' = "closing"
          /\ closer' = [closer EXCEPT ![k] = "channel"]
          /\ UNCHANGED <<fetch, loop>>
     ELSE CancelLoop /\ UNCHANGED <<handle, channel, closer>>
  /\ UNCHANGED <<authorization, inflight, response, posted, issued,
                 refresh_requested, caller, auth, connect, closed>>

-----------------------------------------------------------------------------
ConnectStep == \/ EndpointRejected \/ CredentialsMissing
               \/ ConnectFetches \/ ConnectFetched \/ ConnectWithoutAuth
               \/ ChannelReady \/ ConnectFails \/ ConnectCleaned \/ CancelConnect
CloseStep(k) == \/ Close(k) \/ CloseAgain(k) \/ CloserResumes(k)
                \/ ChannelClosed(k) \/ CancelCloser(k)

(* Users of a ready client, which nothing stops after close().  Every RPC  *)
(* passes an interceptor, which asks for the header first.                 *)
InterceptedCall(c) ==
  /\ connect = "ready" /\ auth
  /\ GetCachedHeader(c) \/ GetFirstHeader(c)
  /\ UNCHANGED lifecycleVars

(* Altered form: it only wakes the background task.                        *)
RefreshAuthTokenLazily(c) ==
  /\ connect = "ready" /\ auth
  /\ caller[c].st # "waiting"
  /\ RequestRefresh
  /\ UNCHANGED lifecycleVars

(* refresh_auth_token(); without auth it does nothing.                     *)
RefreshAuthToken(c) ==
  /\ connect = "ready" /\ auth
  /\ CallRefreshNow(c)
  /\ UNCHANGED lifecycleVars

(* The awaits of the two come back, or the user's task is cancelled there. *)
UserResumes(c) ==
  /\ CallerResumes(c) \/ CancelCaller(c)
  /\ UNCHANGED lifecycleVars

(* invalidate_auth_token(); without auth it does nothing.                  *)
InvalidateAuthToken ==
  /\ connect = "ready" /\ auth
  /\ RequestRefresh
  /\ UNCHANGED lifecycleVars

UserStep(c) == InterceptedCall(c) \/ RefreshAuthToken(c) \/ UserResumes(c)

(* The tasks of the manager itself.                                        *)
ManagerStep ==
  /\ \/ \E f \in Fetches : FetchStep(f)
     \/ LoopStarts \/ LoopWoken \/ LoopTick \/ LoopResumes \/ LoopCancelled
  /\ UNCHANGED lifecycleVars

LifecycleNext == \/ ConnectStep
                 \/ \E k \in Closers : CloseStep(k)
                 \/ \E c \in Users : UserStep(c)
                 \/ InvalidateAuthToken
                 \/ ManagerStep

LifecycleSpec == LifecycleInit /\ [][LifecycleNext]_allVars

(* The fairness of TokenManager for its own tasks; connect() bounds the    *)
(* wait for the channel, and Channel.close() returns.                      *)
LifecycleFairness ==
  /\ \A f \in Fetches : /\ WF_allVars(StartFetch(f) /\ UNCHANGED lifecycleVars)
                         /\ WF_allVars(FetchCancelled(f) /\ UNCHANGED lifecycleVars)
  /\ WF_allVars(LoopStarts /\ UNCHANGED lifecycleVars)
  /\ WF_allVars(LoopWoken /\ UNCHANGED lifecycleVars)
  /\ WF_allVars(LoopResumes /\ UNCHANGED lifecycleVars)
  /\ WF_allVars(LoopCancelled /\ UNCHANGED lifecycleVars)
  /\ WF_allVars(ConnectFetched) /\ WF_allVars(ConnectCleaned)
  /\ WF_allVars(ChannelReady \/ ConnectFails)
  /\ \A k \in Closers : WF_allVars(CloserResumes(k)) /\ WF_allVars(ChannelClosed(k))

LifecycleFairSpec == LifecycleSpec /\ LifecycleFairness

-----------------------------------------------------------------------------
(* A client that exists has a token: no interceptor ever finds None and    *)
(* waits for a first fetch, whatever failed or was cancelled since.        *)
ReadyHasToken == connect = "ready" /\ auth => authorization # 0

(* connect() that raises has not left a channel behind, nor a background   *)
(* task whose handle nobody holds.                                         *)
FailedConnectLeaksNothing ==
  connect \in {"failed", "raised"} => channel \in {"none", "closed"} /\ loop.st = "absent"

(* Once the client is closed and no close() is still running, the channel  *)
(* is closed and the background task has ended.                            *)
CloseReleases ==
  closed /\ (\A k \in Closers : closer[k] \notin {"handle", "channel"})
    => channel = "closed" /\ LoopEnded

(* What of that holds: when the close() calls are over and none of them    *)
(* raised, nothing is left, also if they were cancelled on the way.        *)
ReturnedIsReleased ==
  closed /\ (\A k \in Closers : closer[k] \in {"idle", "returned"})
    => channel = "closed" /\ LoopEnded

(* The background task has ended before the channel starts to close.       *)
LoopEndsFirst == channel \in {"closing", "closed"} => LoopEnded

(* One close() at most is at work, and it waits for a background task that *)
(* has ended or was told to: with a wait_for that drops no cancellation,   *)
(* no close() depends on the timer or on the IdP.                          *)
CloseIsHeard ==
  /\ \A j, k \in Closers :
       closer[j] \in {"handle", "channel"} /\ closer[k] \in {"handle", "channel"} => j = k
  /\ \A k \in Closers : closer[k] = "handle" =>
       handle = "awaiting" /\ (LoopEnded \/ loop.told \/ LegacyWaitFor)

(* Every close() returns or raises, also when the background task awaits a *)
(* fetch that the IdP never answers or that it shares with a caller.       *)
CloseReturns ==
  \A k \in Closers : closer[k] \in {"handle", "channel"} ~> closer[k] \in {"returned", "raised"}
=============================================================================
