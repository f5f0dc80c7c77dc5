---------------------------- MODULE TokenManager ----------------------------
(***************************************************************************)
(* TokenManager of src/rociadb_sdk/auth.py: the cached bearer header, the  *)
(* single in-flight _do_refresh task that concurrent refresh_now() calls   *)
(* share, the background _refresh_loop, and TokenRefreshHandle.aclose().   *)
(*                                                                         *)
(* All of it runs on one asyncio event loop, so a step of this module is   *)
(* what one task does between two awaits.  Awaiting a Task object without  *)
(* a shield means that cancelling the awaiting task cancels the awaited    *)
(* one; that rule, and the two implementations of asyncio.wait_for, are    *)
(* the only facts about the library the module takes from outside src/.    *)
(***************************************************************************)
EXTENDS Naturals

CONSTANTS
  Callers,         \* tasks that call get_authorization_header() or refresh_now()
  MaxFetches,      \* bound on the number of _do_refresh tasks ever created
  ForeignErrors,   \* may _fetch_token_sync raise something that is no RociaDbError?
  CallerCancels,   \* may a caller be cancelled (timeout, failing sibling) as it waits?
  LegacyWaitFor    \* the asyncio.wait_for of Python 3.10 and 3.11

ASSUME ConstantsAssumption ==
  /\ MaxFetches \in Nat
  /\ ForeignErrors \in BOOLEAN
  /\ CallerCancels \in BOOLEAN
  /\ LegacyWaitFor \in BOOLEAN

VARIABLES
  authorization,      \* _authorization: 0 is None, n the n-th token the IdP issued
  inflight,           \* _inflight: 0 is None, otherwise the newest _do_refresh task
  fetch,              \* state of each _do_refresh task
  response,           \* token the IdP issued to the executor thread of a fetch, 0 = none
  posted,             \* fetches whose POST an executor thread has started
  issued,             \* number of tokens the IdP has issued
  refresh_requested,  \* _refresh_requested, an asyncio.Event
  caller,             \* the last call of each caller
  loop,               \* the task of _refresh_loop
  handle              \* TokenRefreshHandle.aclose()

fetchVars == <<authorization, inflight, fetch, response, posted, issued>>
vars == <<fetchVars, refresh_requested, caller, loop, handle>>

Fetches    == 1 .. MaxFetches
Ended      == {"ok", "failed", "raised", "cancelled"}
FetchState == {"new", "created", "posting", "cancelling"} \cup Ended
Done(f)    == fetch[f] \in Ended
Live(f)    == fetch[f] \in {"created", "posting", "cancelling"}

(* A call: the fetch it awaits, whether its own task was cancelled, the    *)
(* header it must improve on and the header it ended with.                 *)
CallerState == [st : {"idle", "waiting"} \cup Ended, on : 0 .. MaxFetches,
                told : BOOLEAN, floor : Nat, header : Nat]
LoopState   == [st : {"absent", "created", "sleeping", "waiting", "cancelled", "raised"},
                on : 0 .. MaxFetches, told : BOOLEAN]

TypeOK ==
  /\ authorization \in Nat
  /\ inflight \in 0 .. MaxFetches
  /\ fetch \in [Fetches -> FetchState]
  /\ response \in [Fetches -> Nat]
  /\ posted \in SUBSET Fetches
  /\ issued \in Nat
  /\ refresh_requested \in BOOLEAN
  /\ caller \in [Callers -> CallerState]
  /\ loop \in LoopState
  /\ handle \in {"open", "awaiting", "returned", "raised"}

Init ==
  /\ authorization = 0
  /\ inflight = 0
  /\ fetch = [f \in Fetches |-> "new"]
  /\ response = [f \in Fetches |-> 0]
  /\ posted = {}
  /\ issued = 0
  /\ refresh_requested = FALSE
  /\ caller = [c \in Callers |->
                 [st |-> "idle", on |-> 0, told |-> FALSE, floor |-> 0, header |-> 0]]
  /\ loop = [st |-> "absent", on |-> 0, told |-> FALSE]
  /\ handle = "open"

-----------------------------------------------------------------------------
(* Altered forms of NeedsFetch: no done() check; a task that is only being  *)
(* cancelled taken for one that is done.                                   *)
NeedsFetchIgnoringDone == inflight = 0
NeedsFetchWhileCancelling ==
  inflight \in Fetches => Done(inflight) \/ fetch[inflight] = "cancelling"

(* The body of refresh_now() up to its await: f is the task it awaits.     *)
NeedsFetch == inflight \in Fetches => Done(inflight)

RefreshNow(f) ==
  \/ /\ NeedsFetch
     /\ f = inflight + 1
     /\ inflight' = f
     /\ fetch' = [fetch EXCEPT ![f] = "created"]
  \/ /\ ~NeedsFetch
     /\ f = inflight
     /\ UNCHANGED <<inflight, fetch>>

(* The same for every task that starts to wait for a refresh.              *)
Join(f) ==
  /\ f \in Fetches
  /\ RefreshNow(f)
  /\ UNCHANGED <<authorization, response, posted, issued>>

(* Task.cancel() on fetch f, as the cancellation of a task awaiting it does. *)
CancelFetch(f) ==
  fetch' = IF Live(f) THEN [fetch EXCEPT ![f] = "cancelling"] ELSE fetch

-----------------------------------------------------------------------------
(* refresh_now() called by c; RociaDbClient.refresh_auth_token() is this.  *)
CallRefreshNow(c) ==
  /\ caller[c].st # "waiting"
  /\ \E f \in Fetches :
       /\ Join(f)
       /\ caller' = [caller EXCEPT ![c] =
            [st |-> "waiting", on |-> f, told |-> FALSE,
             floor |-> authorization, header |-> 0]]
  /\ UNCHANGED <<refresh_requested, loop, handle>>

(* get_authorization_header() with a cached header returns at once.        *)
GetCachedHeader(c) ==
  /\ caller[c].st # "waiting"
  /\ authorization # 0
  /\ caller' = [caller EXCEPT ![c] =
       [st |-> "ok", on |-> 0, told |-> FALSE, floor |-> 0, header |-> authorization]]
  /\ UNCHANGED <<fetchVars, refresh_requested, loop, handle>>

(* get_authorization_header() without one waits for a refresh first.       *)
GetFirstHeader(c) ==
  /\ authorization = 0
  /\ CallRefreshNow(c)

(* The call ends as the awaited fetch did, unless c itself was cancelled;  *)
(* the header is read after the await.                                     *)
CallerResumes(c) ==
  /\ caller[c].st = "waiting"
  /\ Done(caller[c].on)
  /\ LET end == IF caller[c].told THEN "cancelled" ELSE fetch[caller[c].on]
     IN  caller' = [caller EXCEPT ![c] =
           [@ EXCEPT !.st = end, !.header = IF end = "ok" THEN authorization ELSE 0]]
  /\ UNCHANGED <<fetchVars, refresh_requested, loop, handle>>

(* Somebody cancels the task of c (asyncio.wait_for around an RPC, a       *)
(* failing sibling in a batch) while it awaits the shared fetch.           *)
CancelCaller(c) ==
  /\ CallerCancels
  /\ caller[c].st = "waiting"
  /\ ~caller[c].told
  /\ CancelFetch(caller[c].on)
  /\ caller' = [caller EXCEPT ![c].told = TRUE]
  /\ UNCHANGED <<authorization, inflight, response, posted, issued,
                 refresh_requested, loop, handle>>

-----------------------------------------------------------------------------
(* _do_refresh runs to its await: fetch_token hands the POST to a thread.  *)
StartFetch(f) ==
  /\ fetch[f] = "created"
  /\ fetch' = [fetch EXCEPT ![f] = "posting"]
  /\ posted' = posted \cup {f}
  /\ UNCHANGED <<authorization, inflight, response, issued,
                 refresh_requested, caller, loop, handle>>

(* The IdP answers the POST of fetch f.  The thread cannot be cancelled,   *)
(* so this may happen after _do_refresh itself was.                        *)
IssueToken(f) ==
  /\ f \in posted
  /\ response[f] = 0
  /\ issued' = issued + 1
  /\ response' = [response EXCEPT ![f] = issued']
  /\ UNCHANGED <<authorization, inflight, fetch, posted,
                 refresh_requested, caller, loop, handle>>

(* Altered form: the executor thread stores its answer even when the task  *)
(* that started it has been cancelled.                                     *)
FetchReturnsAfterCancel(f) ==
  /\ fetch[f] \in {"posting", "cancelled"}
  /\ response[f] # 0
  /\ authorization' = response[f]
  /\ fetch' = [fetch EXCEPT ![f] = "ok"]
  /\ UNCHANGED <<inflight, response, posted, issued,
                 refresh_requested, caller, loop, handle>>

(* The rest of _do_refresh: the header is only overwritten by a success.   *)
FetchReturns(f) ==
  /\ fetch[f] = "posting"
  /\ response[f] # 0
  /\ authorization' = response[f]
  /\ fetch' = [fetch EXCEPT ![f] = "ok"]
  /\ UNCHANGED <<inflight, response, posted, issued,
                 refresh_requested, caller, loop, handle>>

(* Altered form: a failure frees the slot and resolves nobody's await.      *)
FetchFailsSilently(f) ==
  /\ fetch[f] = "posting"
  /\ fetch' = [fetch EXCEPT ![f] = "new"]
  /\ UNCHANGED <<authorization, inflight, response, posted, issued,
                 refresh_requested, caller, loop, handle>>

(* RociaDbAuthError, or an exception that no except clause of              *)
(* _fetch_token_sync translates (a connection reset as the reply is read). *)
FetchFails(f) ==
  /\ fetch[f] = "posting"
  /\ \E e \in {"failed"} \cup (IF ForeignErrors THEN {"raised"} ELSE {}) :
       fetch' = [fetch EXCEPT ![f] = e]
  /\ UNCHANGED <<authorization, inflight, response, posted, issued,
                 refresh_requested, caller, loop, handle>>

FetchCancelled(f) ==
  /\ fetch[f] = "cancelling"
  /\ fetch' = [fetch EXCEPT ![f] = "cancelled"]
  /\ UNCHANGED <<authorization, inflight, response, posted, issued,
                 refresh_requested, caller, loop, handle>>

-----------------------------------------------------------------------------
RequestRefresh ==
  /\ refresh_requested' = TRUE
  /\ UNCHANGED <<fetchVars, caller, loop, handle>>

SpawnRefresh ==
  /\ loop.st = "absent"
  /\ loop' = [loop EXCEPT !.st = "created"]
  /\ UNCHANGED <<fetchVars, refresh_requested, caller, handle>>

(* The first step of the task takes it into wait_for, unless it was        *)
(* cancelled before.                                                       *)
LoopStarts ==
  /\ loop.st = "created" /\ ~loop.told
  /\ loop' = [loop EXCEPT !.st = "sleeping"]
  /\ UNCHANGED <<fetchVars, refresh_requested, caller, handle>>

(* wait_for returns because the event is set: clear it and refresh.        *)
LoopWoken ==
  /\ loop.st = "sleeping" /\ ~loop.told
  /\ refresh_requested
  /\ refresh_requested' = FALSE
  /\ \E f \in Fetches : Join(f) /\ loop' = [loop EXCEPT !.st = "waiting", !.on = f]
  /\ UNCHANGED <<caller, handle>>

(* wait_for times out: refresh, and leave a request that raced it set.     *)
LoopTick ==
  /\ loop.st = "sleeping" /\ ~loop.told
  /\ \E f \in Fetches : Join(f) /\ loop' = [loop EXCEPT !.st = "waiting", !.on = f]
  /\ UNCHANGED <<refresh_requested, caller, handle>>

(* Altered forms: every exception is caught, also CancelledError; none is;  *)
(* the event is cleared after the refresh and not before it.               *)
LoopResumesCatchingAll ==
  /\ loop.st = "waiting"
  /\ Done(loop.on)
  /\ loop' = [loop EXCEPT !.st = "sleeping", !.told = FALSE]
  /\ UNCHANGED <<fetchVars, refresh_requested, caller, handle>>

LoopResumesCatchingNone ==
  /\ loop.st = "waiting"
  /\ Done(loop.on)
  /\ loop' = [loop EXCEPT !.st = IF loop.told \/ fetch[loop.on] = "cancelled" THEN "cancelled"
                                 ELSE IF fetch[loop.on] = "ok" THEN "sleeping" ELSE "raised"]
  /\ UNCHANGED <<fetchVars, refresh_requested, caller, handle>>

LoopResumesClearing ==
  /\ loop.st = "waiting"
  /\ Done(loop.on)
  /\ LET end == IF loop.told THEN "cancelled" ELSE fetch[loop.on]
     IN  loop' = [loop EXCEPT !.st = IF end \in {"ok", "failed"} THEN "sleeping" ELSE end]
  /\ refresh_requested' = FALSE
  /\ UNCHANGED <<fetchVars, caller, handle>>

(* Back from refresh_now(): only RociaDbError is caught, so anything else  *)
(* ends the task.                                                          *)
LoopResumes ==
  /\ loop.st = "waiting"
  /\ Done(loop.on)
  /\ LET end == IF loop.told THEN "cancelled" ELSE fetch[loop.on]
     IN  loop' = [loop EXCEPT !.st = IF end \in {"ok", "failed"} THEN "sleeping" ELSE end]
  /\ UNCHANGED <<fetchVars, refresh_requested, caller, handle>>

(* The cancellation is delivered before the first step or inside wait_for. *)
LoopCancelled ==
  /\ loop.st \in {"created", "sleeping"} /\ loop.told
  /\ loop' = [loop EXCEPT !.st = "cancelled"]
  /\ UNCHANGED <<fetchVars, refresh_requested, caller, handle>>

-----------------------------------------------------------------------------
(* Task.cancel() on the loop.  While it awaits a running fetch, the fetch  *)
(* is what is cancelled; the wait_for of 3.10/3.11 returns its result and  *)
(* drops the cancellation when the event was set before it.                *)
SwallowsCancel == LegacyWaitFor /\ loop.st = "sleeping" /\ refresh_requested

CancelLoop ==
  /\ IF loop.st = "waiting" THEN CancelFetch(loop.on) ELSE UNCHANGED fetch
  /\ loop' = IF loop.st \in {"created", "sleeping", "waiting"} /\ ~SwallowsCancel
             THEN [loop EXCEPT !.told = TRUE] ELSE loop

Aclose ==
  /\ handle = "open"
  /\ loop.st # "absent"
  /\ CancelLoop
  /\ handle' = "awaiting"
  /\ UNCHANGED <<authorization, inflight, response, posted, issued,
                 refresh_requested, caller>>

(* Altered form: CancelledError is not suppressed.                         *)
AcloseResumesUnsuppressed ==
  /\ handle = "awaiting"
  /\ loop.st \in {"cancelled", "raised"}
  /\ handle' = loop.st
  /\ UNCHANGED <<fetchVars, refresh_requested, caller, loop>>

(* `await self._task`: only CancelledError is suppressed.                  *)
AcloseResumes ==
  /\ handle = "awaiting"
  /\ loop.st \in {"cancelled", "raised"}
  /\ handle' = IF loop.st = "cancelled" THEN "returned" ELSE "raised"
  /\ UNCHANGED <<fetchVars, refresh_requested, caller, loop>>

-----------------------------------------------------------------------------
CallerStep(c) == \/ CallRefreshNow(c) \/ GetCachedHeader(c) \/ GetFirstHeader(c)
                 \/ CallerResumes(c) \/ CancelCaller(c)
FetchStep(f)  == \/ StartFetch(f) \/ IssueToken(f) \/ FetchReturns(f)
                 \/ FetchFails(f) \/ FetchCancelled(f)
LoopStep      == \/ RequestRefresh \/ SpawnRefresh \/ LoopStarts \/ LoopWoken \/ LoopTick
                 \/ LoopResumes \/ LoopCancelled \/ Aclose \/ AcloseResumes

Next == \/ \E c \in Callers : CallerStep(c)
        \/ \E f \in Fetches : FetchStep(f)
        \/ LoopStep

Spec == Init /\ [][Next]_vars

(* The event loop runs every task that is ready.  No fairness is assumed   *)
(* of the callers, of a cancellation, nor of LoopTick: the interval is     *)
(* minutes long, so nothing below may count on it.                         *)
Fairness ==
  /\ \A c \in Callers : WF_vars(CallerResumes(c))
  /\ \A f \in Fetches : WF_vars(StartFetch(f)) /\ WF_vars(FetchCancelled(f))
  /\ WF_vars(LoopStarts) /\ WF_vars(LoopWoken)
  /\ WF_vars(LoopResumes) /\ WF_vars(LoopCancelled)
  /\ WF_vars(AcloseResumes)

(* An assumption about the network and not about the code, which sets no   *)
(* timeout on the POST: it is answered, or fails, in the end.              *)
IdPAnswers == \A f \in Fetches : WF_vars(FetchReturns(f) \/ FetchFails(f))

FairSpec == Spec /\ Fairness
AnsweredSpec == FairSpec /\ IdPAnswers

-----------------------------------------------------------------------------
(* Concurrent refreshes are deduplicated into one fetch: two _do_refresh   *)
(* tasks are never alive together, also while one of them is being         *)
(* cancelled and new callers arrive.                                       *)
SingleFlight == \A f, g \in Fetches : Live(f) /\ Live(g) => f = g

(* refresh_now() that returns without an exception leaves its caller with  *)
(* a header newer than the one cached at the call, whoever started the     *)
(* fetch it joined: the retry after UNAUTHENTICATED never resends the      *)
(* rejected token.  For get_authorization_header() it says that the header *)
(* is not None, which the code asserts.                                    *)
RefreshAdvances ==
  \A c \in Callers : caller[c].st = "ok" => caller[c].header > caller[c].floor

(* Why the two hold, as an invariant that every step preserves: only the   *)
(* newest fetch is alive, tokens that a live fetch can still bring are     *)
(* newer than the cached one, and a call waits for a fetch that existed    *)
(* when it was made and cannot have succeeded before.                      *)
OnlyNewestLive == \A f \in Fetches :
  /\ Live(f) => f = inflight
  /\ f > inflight <=> fetch[f] = "new"
AnswersAreIssued == \A f \in Fetches :
  /\ fetch[f] \in {"new", "created"} => f \notin posted /\ response[f] = 0
  /\ response[f] <= issued
LiveAnswersAreNewer ==
  /\ authorization <= issued
  /\ \A f \in Fetches : fetch[f] = "posting" /\ response[f] # 0 => response[f] > authorization
WaitersImprove == \A c \in Callers :
  caller[c].st = "waiting" =>
    /\ caller[c].on \in Fetches
    /\ caller[c].floor <= authorization
    /\ fetch[caller[c].on] = "ok" => caller[c].floor < authorization
TokensConsistent == /\ OnlyNewestLive /\ AnswersAreIssued
                    /\ LiveAnswersAreNewer /\ WaitersImprove

(* Whoever waits waits for a fetch that was started, and who is cancelled  *)
(* as it waits needs no answer of the IdP to come back: its fetch is being *)
(* cancelled or has ended.                                                 *)
CanEnd(on, told) ==
  /\ on \in Fetches
  /\ fetch[on] # "new"
  /\ told => fetch[on] \in {"cancelling"} \cup Ended
CancelledWaitsEnd ==
  /\ \A c \in Callers : caller[c].st = "waiting" => CanEnd(caller[c].on, caller[c].told)
  /\ loop.st = "waiting" => CanEnd(loop.on, loop.told)
Consistent == TokensConsistent /\ CancelledWaitsEnd

(* To its callers the manager is a TokenSource, with all its sharing,      *)
(* cancelling and late answers: the cached header is only ever replaced by *)
(* a newer one, and every call comes back as TokenSource allows.           *)
Request == [c \in Callers |->
  [st     |-> CASE caller[c].st = "idle" -> "idle"
                [] caller[c].st = "waiting" -> "asking"
                [] caller[c].st = "ok" -> "answered"
                [] OTHER -> "refused",
   floor  |-> caller[c].floor,
   header |-> caller[c].header]]
Source == INSTANCE TokenSource WITH token <- authorization, request <- Request
ServesTokens == Source!Spec

(* Nor do headers go back from one caller to another: a call that ends     *)
(* with a header has one no older than what any call has ended with, also  *)
(* when the two waited for different fetches, which end in any order.      *)
HeadersNeverGoBack ==
  [][\A c, d \in Callers :
       /\ Request[d].st = "answered"
       /\ Request'[c].st = "answered" /\ Request'[c] # Request[c]
       => Request'[c].header >= Request[d].header]_vars

(* The background task outlives every failed refresh until it is closed.   *)
LoopSurvives == handle = "open" => loop.st \notin {"cancelled", "raised"}

(* What of that holds: no refresh that failed with a RociaDbError ends the *)
(* background task, however many do; it takes a fetch that was cancelled   *)
(* or that raised something else.                                          *)
AuthErrorsSurvived ==
  handle = "open" /\ loop.st \in {"cancelled", "raised"} =>
    \E f \in Fetches : fetch[f] \in {"cancelled", "raised"}

(* Nobody waits for ever on the shared fetch, if the IdP answers.          *)
CallersReturn == \A c \in Callers : caller[c].st = "waiting" ~> caller[c].st # "waiting"

(* aclose() waits for the background task "to actually stop", and the task *)
(* does stop, whether or not the IdP answers.  A wait that only the bound  *)
(* on fetches can have caused does not count.                              *)
AtBound == inflight = MaxFetches /\ NeedsFetch
AcloseReturns == handle = "awaiting" ~> handle # "awaiting" \/ AtBound

(* A requested refresh is taken only by the background task, and only as   *)
(* it joins a fetch that is still to end: never one whose token was there  *)
(* before the request, and never at the end of a refresh that was already  *)
(* under way when the request came.                                        *)
JoinedLive == loop.st = "waiting" /\ loop.on \in Fetches /\ Live(loop.on)
RequestKept ==
  [][refresh_requested /\ ~refresh_requested' =>
       loop.st = "sleeping" /\ JoinedLive' /\ authorization' = authorization]_vars

(* request_refresh() is not lost, whatever the background task is doing as *)
(* it arrives: without any help from the timer the header cached at that   *)
(* moment is replaced, unless the loop is closed, a fetch fails or the     *)
(* bound on fetches is reached.                                            *)
LoopRunning == loop.st \in {"created", "sleeping", "waiting"} /\ handle = "open"
RequestAnswered ==
  \A h \in 0 .. MaxFetches :
    (refresh_requested /\ LoopRunning /\ authorization = h)
      ~> \/ authorization > h
         \/ ~LoopRunning
         \/ \E f \in Fetches : fetch[f] \in Ended \ {"ok"}
         \/ AtBound
=============================================================================
