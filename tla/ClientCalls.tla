----------------------------- MODULE ClientCalls -----------------------------
(***************************************************************************)
(* The RPCs that tasks make over one client: src/rociadb_sdk/client.py,    *)
(* its stubs, the interceptors of auth.py and the statuses of errors.py,   *)
(* composed with the life of the client and of its token.  A call takes    *)
(* the cached header with it, may be answered UNAUTHENTICATED, and is then *)
(* made again after refresh_auth_token(), as README.md has callers do.     *)
(*                                                                         *)
(* Which status the server answers with, and that a channel which is       *)
(* closed cancels the calls under way and takes no new ones, is outside    *)
(* src/.                                                                   *)
(***************************************************************************)
EXTENDS ClientLifecycle

VARIABLES call  \* the RPC of each user: how far it is, and the tokens it had

callsVars == <<allVars, call>>

NoCall == [st |-> "idle", token |-> 0, rejected |-> 0]
CallState ==
  [st : {"idle", "authorizing", "flight", "unauthenticated", "refreshing", "refreshed"},
   token : Nat, rejected : Nat]

CallsTypeOK ==
  /\ LifecycleTypeOK
  /\ call \in [Users -> CallState]

CallsInit ==
  /\ LifecycleInit
  /\ call = [c \in Users |-> NoCall]

-----------------------------------------------------------------------------
(* The stubs: what each RPC streams.                                       *)
DocumentServiceStub ==
  [PutDoc |-> "unary_unary", GetDoc |-> "unary_unary", DeleteDoc |-> "unary_unary",
   FindByField |-> "unary_unary", ListDoc |-> "unary_unary", QueryDoc |-> "unary_unary",
   ListCollections |-> "unary_unary"]
GraphServiceStub ==
  [PutNode |-> "unary_unary", GetNode |-> "unary_unary", AddEdge |-> "unary_unary",
   DeleteEdge |-> "unary_unary", NeighborsOut |-> "unary_unary",
   NeighborsIn |-> "unary_unary", ListGraphs |-> "unary_unary", ListNodes |-> "unary_unary"]
FileServiceStub ==
  [Upload |-> "stream_unary", Download |-> "unary_stream", Stat |-> "unary_unary",
   Delete |-> "unary_unary", ListBuckets |-> "unary_unary", ListFiles |-> "unary_unary"]
TenantServiceStub == [ListTenants |-> "unary_unary"]

Shapes == UNION {{stub[rpc] : rpc \in DOMAIN stub} : stub \in
            {DocumentServiceStub, GraphServiceStub, FileServiceStub, TenantServiceStub}}

(* Altered form: Upload is forgotten.                                      *)
InterceptorsOfUnaryRequests == {"unary_unary", "unary_stream"}

(* The shapes of call that have an interceptor, if there is a manager.     *)
Interceptors == {"unary_unary", "unary_stream", "stream_unary"}

(* The codes _call() makes a RociaDbStatusError of.                        *)
StatusErrors == {"unauthenticated", "permission_denied", "other"}
IsUnauthenticated(code) == code = "unauthenticated"

-----------------------------------------------------------------------------
(* gRPC takes over from the interceptor, which has the header: a call goes *)
(* out on an open channel, and fails on one that closes.                   *)
Continuation(c, token) ==
  call' = [call EXCEPT ![c] = IF channel = "open"
                              THEN [@ EXCEPT !.st = "flight", !.token = token] ELSE NoCall]

(* A task calls a stub, for the first time or once more.                   *)
SendRpc(c) ==
  /\ connect = "ready" /\ call[c].st \in {"idle", "refreshed"}
  /\ \E shape \in Shapes :
       IF auth /\ shape \in Interceptors
       THEN /\ InterceptedCall(c)
            /\ IF caller'[c].st = "ok"
               THEN Continuation(c, caller'[c].header)
               ELSE call' = [call EXCEPT ![c].st = "authorizing"]
       ELSE UNCHANGED allVars /\ Continuation(c, 0)

(* The refresh that the interceptor or the error handler waited for is     *)
(* over, or the task is cancelled while it waits.                          *)
AwaitEnds(c) ==
  /\ call[c].st \in {"authorizing", "refreshing"}
  /\ UserResumes(c)
  /\ CASE caller'[c].st = "waiting" -> UNCHANGED call
       [] caller'[c].st = "ok" /\ call[c].st = "authorizing" ->
            Continuation(c, caller'[c].header)
       [] caller'[c].st = "ok" /\ call[c].st = "refreshing" ->
            call' = [call EXCEPT ![c].st = "refreshed"]
       [] OTHER -> call' = [call EXCEPT ![c] = NoCall]

(* _call() returns the answer, or raises what the server answered.         *)
Answered(c) ==
  /\ call[c].st = "flight"
  /\ \E code \in {"ok"} \cup StatusErrors :
       call' = [call EXCEPT ![c] = IF IsUnauthenticated(code)
                                   THEN [@ EXCEPT !.st = "unauthenticated"] ELSE NoCall]
  /\ UNCHANGED allVars

(* An error handler after is_unauthenticated(), or somebody who wants a    *)
(* new token anyway, calls refresh_auth_token().                           *)
Recover(c) ==
  /\ call[c].st \in {"idle", "unauthenticated"}
  /\ RefreshAuthToken(c)
  /\ call' = [call EXCEPT ![c] =
       [st |-> IF caller'[c].st = "waiting" THEN "refreshing" ELSE "refreshed",
        token |-> 0, rejected |-> @.token]]

(* The task gives up: it is cancelled, or does not handle the error.       *)
GiveUp(c) ==
  /\ call[c].st \in {"flight", "unauthenticated", "refreshed"}
  /\ call' = [call EXCEPT ![c] = NoCall]
  /\ UNCHANGED allVars

(* Channel.close() cancels the calls under way.                            *)
ChannelCancels(c) ==
  /\ channel \in {"closing", "closed"}
  /\ call[c].st = "flight"
  /\ call' = [call EXCEPT ![c] = NoCall]
  /\ UNCHANGED allVars

-----------------------------------------------------------------------------
CallStep(c) == \/ SendRpc(c) \/ AwaitEnds(c) \/ Answered(c) \/ Recover(c)
               \/ GiveUp(c) \/ ChannelCancels(c)

CallsNext == \/ \E c \in Users : CallStep(c)
             \/ /\ \/ ConnectStep
                   \/ \E k \in Closers : CloseStep(k)
                   \/ InvalidateAuthToken
                   \/ ManagerStep
                /\ UNCHANGED call

(* The fairness of the parts, and a channel that closes does cancel.       *)
CallsSpec == /\ CallsInit /\ [][CallsNext]_callsVars
             /\ LifecycleFairness
             /\ \A c \in Users : WF_callsVars(ChannelCancels(c))

-----------------------------------------------------------------------------
(* With auth, no RPC of any service goes out without a token, whatever it  *)
(* streams and however the refreshes of others end.                        *)
EveryCallCarriesToken ==
  auth => \A c \in Users : call[c].st = "flight" => call[c].token # 0

(* The call that is made again after refresh_auth_token() never carries    *)
(* the token that was rejected, nor an older one, also when its refresh    *)
(* joined a fetch that others started, cancelled or saw fail.              *)
RetryCarriesNewerToken ==
  \A c \in Users : call[c].st = "flight" /\ call[c].rejected # 0 =>
                     call[c].token > call[c].rejected

(* No call outlives the client: once close() was called, what is under way *)
(* ends, whether or not the server answers, unless close() itself raised.  *)
CallsEndWithClient ==
  \A c \in Users : closed /\ call[c].st = "flight" ~>
                     call[c].st # "flight" \/ \E k \in Closers : closer[k] = "raised"
=============================================================================
