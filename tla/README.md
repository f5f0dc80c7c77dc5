# A TLA+ model of the RociaDB Python SDK

These modules model the parts of `rociadb-core-sdk-python` where order,
concurrency, failure or a limit decides whether the code is right. Everything is
translated from `src/src/rociadb_sdk/`; a definition says in its comment which
function it stands for, and `PROJECT.json` maps it to lines. Paths below are
relative to `src/src/rociadb_sdk/` unless they say otherwise.

The SDK runs on one asyncio event loop. A step of a model is what one task does
between two awaits, so the interleavings are those of tasks at their awaits,
plus three things that move on their own: threads of the default executor (the
token POST), the server, and the network.

## 1. Inventory

| Component | State it keeps | Operations | What makes it hard |
|---|---|---|---|
| Token manager (`auth.py:89-169`) | cached header, `_expires_in`, one shared `_inflight` task, an `asyncio.Event` | `get_authorization_header`, `refresh_now`, `request_refresh`, `spawn_refresh`, `_refresh_loop` | tasks that await one shared task without a shield, executor threads that outlive it, exceptions of two kinds |
| Refresh handle (`auth.py:172-185`) | the background task | `aclose` | cancellation meets every state of the loop |
| Interceptors (`auth.py:188-251`) | none | one per call shape | each awaits the token manager first |
| Client (`client.py:180-309`) | channel, manager, handle, `_closed` | `connect`, `close`, `refresh_auth_token`, `invalidate_auth_token` | failure in each stage of `connect`; concurrent and cancelled `close` |
| RPCs (`client.py:250-265`, `errors.py`, the stubs) | none in the client | every stub method through `_call` | a token rejected, refreshed and sent again while others refresh, fail and close |
| Builder (`client.py:83-177`) | options | setters, `build` | none: pure checks |
| Bounded batch (`client.py:47-80`) | tasks, semaphore | `_run_bounded` | failures racing, cancellation twice, late calls |
| Graph (`graph.py`) | none in the client | single RPCs, `put_nodes`, `add_edges`, neighbor hydration | replay of a half-done batch; pages that change as they are read |
| Files (`file.py`) | a generator's buffer and counters | three uploads, two downloads, metadata | re-chunking, totals checked in mid-stream |
| Documents, tenants (`document.py`, `tenant.py`) | none | single RPCs, `create_document` | two writes that are not atomic |
| Pagination (`_pagination.py`) | none | cursor rules | a server that repeats cursors |
| Errors (`errors.py`), types, `_pb` | none | `_call`, data classes, generated stubs | which exceptions are translated |

**How they interact.** Every RPC passes an interceptor of its shape, which is a caller of the
token manager; `connect()` is its first caller, and the background task one more
that comes back at intervals. `close()` awaits the handle's `aclose()`, which
awaits the background task, which may await the fetch that a user also awaits.
`put_nodes`, `add_edges` and hydration hand a worker to `_run_bounded`; when one
worker fails, the others are cancelled, and a worker cancelled while its
interceptor waits for the token cancels the fetch under every other waiter.

**What makes each part correct.**

* Token manager: one fetch at a time; a refresh that returns brought a newer
  token; the cached token never goes back; a requested refresh is not lost; the
  background task lives until it is closed; `aclose()` ends.
* Schedule: a cached token is replaced before it expires.
* Client: a ready client has a token; a failed `connect()` leaves nothing behind;
  `close()` releases the task and the channel, in this order, and ends.
* RPCs: each carries a token if there is auth; the one made again after
  `UNAUTHENTICATED` carries a newer one; none outlives the client.
* Bounded batch: a limit on calls in flight, the first failure raised, no call
  once it cleans up or was cancelled (one that waited for a slot may start between the failure and the
  clean-up, as `tests/test_run_bounded.py:75-96` of the repository shows, and is then cancelled with the others),
  no task left behind, an end even if a sibling hangs.
* Writes: calling a method again changes nothing that was written since; a method
  that returns has had everything applied; no node points to an unwritten document.
* Files: a stream that is half-closed is the declared file, cut alike by both upload
  methods, and one the server has no reason to reject; a download that returns is one
  whole file; the call of a download does not outlive its consumer.
* Walks over pages, and hydration: what was there all along is found, nothing
  twice, in order, whatever others write and however short the pages are; a server that repeats a cursor
  can make a hydration list one page again, and no more.

## 2. Modules

```
 TokenSource <-- refines -- TokenManager
 TokenManager <- ClientLifecycle <- ClientCalls          BoundedBatch <-- refines -- RunBounded
      |                                  |                                              |
 TokenManagerProofs <------- ClientCallsProofs                              RunBoundedProofs
 FileStore <-- refines -- FileTransfer
 UploadStream <- FileTransfer                            PagedListing <- NeighborHydration
      |               |                                                     |
 UploadStreamProofs <- FileTransferProofs                   NeighborHydrationProofs
 RefreshSchedule <- RefreshScheduleProofs                BatchReplay <- BatchReplayProofs
 MC<module>: instances for TLC                           A <- B: B EXTENDS A
```

**TokenManager.** Tokens are version numbers in the order in which the IdP
issued them and 0 is `None`, so "older" can be said. `fetch[f]` is the state of
the f-th `_do_refresh` task: created, posting, cancelling, ended. `caller[c]` is
the last call of a task: the fetch it awaits (`on`), whether it was itself
cancelled (`told`), the header cached when it called (`floor`) and the header it
got. `loop` is the background task and `handle` its `aclose()`. Cancelling a task
that awaits a task cancels the awaited one (`CancelFetch`); the awaiter resumes
only when that has ended. `IssueToken` is the executor thread being answered,
which no cancellation prevents. `FetchFails` covers `RociaDbAuthError` and, with
`ForeignErrors`, what `_fetch_token_sync` does not translate. `SwallowsCancel` is
`asyncio.wait_for` of Python 3.10 and 3.11 (`pyproject.toml` allows 3.10 to
3.14); with `LegacyWaitFor = FALSE` it is that of 3.12. **TokenSource** is what callers may
rely on, without fetches, tasks, threads or a loop: a cached header that only newer ones replace, and per
caller a call that comes back with a header newer than the one cached when it was made, with the cached one if it did not ask
for a refresh, or with nothing. `Source` maps a caller's call to it; the fetch it waits for, and
when its answer arrives, are hidden.

**ClientLifecycle** extends it: `connect()` is the caller `Connector`, users are
the other callers, each `close()` is a `Closer`. `connect` and `closer[k]` are
program counters at the awaits of `connect()` and `close()`; `channel` is the gRPC
channel. After `close()` users go on, as nothing in the code stops them.

**ClientCalls** adds the RPC of each user: it asks its interceptor for the header,
goes out with it, and is answered. `Shapes` is what the RPCs of the four generated stubs stream,
`Interceptors` the shapes `connect()` installs one for: gRPC picks by shape, so a
shape that is missing would send its calls without a token. `Recover` is the
loop of `README.md:213-226` of the repository: `is_unauthenticated()`, then `refresh_auth_token()`, then the call
once more; `rejected` remembers the token that was refused. What a server answers, and that closing a
channel cancels its calls and takes no new ones, is external (`Continuation`, `ChannelCancels`). `CloseIsHeard` of ClientLifecycle says who is at work in `close()` and that the task it
waits for knows.

**RefreshSchedule** has the time that TokenManager leaves out, as what is left:
ticks to the expiry of the token and to the timeout of `wait_for`, and the age of
the fetch under way. Counting down keeps the state finite without a horizon. The
token's life is counted from the request, the worst case.

**RunBounded** has a task per item, the order in which tasks ended (`completed`)
and how far gather's callbacks have come in it (`seen`), since gather decides in
callbacks of its own after the tasks have ended. `main` is the task inside
`_run_bounded`: in the first gather, in the second (`draining`), or out. **BoundedBatch**
is the same without any of this: calls begin and end, at most `Concurrency` at a
time; the batch is over only when no call is running. The mapping shows a task
waiting for a slot as an item that has not been called. `WaitsForAnswers` says when a batch may stand still;
`LeftToDo` counts what it still has to do: tasks to start, ends to record, callbacks to run, stages of the main task.

**BatchReplay** has every method that writes, but `upload_file_raw`, which sends what it is given. A method is its `stages`, sets of requests
made together, one stage after the other, and the requests that carry the caller's
`request_id`: one stage of all items for `put_nodes` and `add_edges`, one request for the single
writes and the uploads, and two stages for `create_document`, whose node gets an id of its own. Around
it are the requests on the network, the server's markers, and who wrote each item last.
Of a batch only the outcome matters here, which RunBounded justifies: on a failure every call
is given up but what was sent stays under way. `Keyed` are the items whose requests carry an id that the caller supplied; the node
of a `create_document` is never one. `Serve` is the server as
`README.md:780-800` of the repository describes it (external); markers do not expire.

**UploadStream** has the generator's variables by their names; `pc` is where it is
suspended. Bytes are counted, not stored: the buffer is a queue, so what was sent
is a prefix of what was read. `ChunkUploadRequests` is what `upload_file()`
sends, the reference for what `upload_file_chunked()` must send.

**FileTransfer** extends it by the other direction: the server's file (external), which an upload
replaces when it was half-closed and is whole, which `delete_file()` removes, and which a
download reads as it was when the call began. `generator` is where `download_file_stream()` is suspended,
`consumer` who iterates over it (`download_file()` is a consumer that never stops early), `dl_call` the RPC.
`LeaveGenerator` is the `finally` of the generator; each way to it is an action. **FileStore** is what those who upload
and download may rely on, without messages, generators or calls: an upload replaces the file at one moment by what `upload_file()` would have sent for it,
or not at all, and a download returns the file as it was at one moment, or nothing. `Store` maps the transfers to it; messages, buffers
and calls are hidden (`KeepsStore`).

**PagedListing** is the walk that a caller of any listing makes over its pages (`README.md` of the repository
shows it): page sizes of the caller's choice, an error, the same page once more. The listings
differ in what they make of an item: a JSON document may fail to decode, a name cannot. Outside
it is the server's index (external): positions in key order, each with no entry, a live object, one that
does not decode, or the entry of one that is gone (`_pagination.py:45-48` speaks of those, which make
pages short or empty), and it rejects a limit above its ceiling (`Served`; `README.md:290-292` of the repository). A cursor is the last position read; the server may say there is more when
there is not. `steady` remembers what has been there since the walk began.

**NeighborHydration** is the walk that the SDK makes itself: `_hydrate_neighbors` with its locals, its guard against a repeated
cursor, and the batch of `get_node` calls that follows, of which, as in BatchReplay, only the outcome matters. With `Repeats` the server may misbehave: `Replies` has the cursor it was given, with the page that belongs to it
or any older one. The code extends its list (`graph.py:335`) before it looks at the cursor, so that page is in the list and is fetched again; `FoundOnce` says that
this is all such a server can do. `HydrationLeft` counts what it still has to do: entries of the index that the cursor has not passed, neighbors
not yet called, neighbors not yet answered.

Definitions whose comment says "altered form" are not part of a specification:
each is a definition changed as a plausible bug would change it, used to see that
a property notices.

## 3. What the runs show

| Run | Properties | Instance and why it is enough |
|---|---|---|
| `token` | `TypeOK` `SingleFlight` `RefreshAdvances` `Consistent` `AuthErrorsSurvived` `ServesTokens` `CallersReturn` `RequestAnswered` | 2 callers, the loop, 2 fetches, every failure and cancellation, old `wait_for`; fairness of the event loop and an IdP that answers. An abandoned fetch and its successor can be answered in either order; two callers and the loop share one. 245 thousand states. |
| `client` | `ReadyHasToken` `FailedConnectLeaksNothing` `ReturnedIsReleased` `LoopEndsFirst` `EveryCallCarriesToken` `RetryCarriesNewerToken` `CloseReturns` `CallsEndWithClient` | the connector, one user with RPCs, two closers, 3 fetches, with and without auth. Two closers meet in every order; the fetch that the user's retry waits for can be the loop's, and the third can fail after one that succeeded. 142 thousand states. |
| `batch` | `WaitsForAnswers` `FirstFailureRaised` `NoLateCalls` `KeepsPromise` `FailureEndsBatch` `BatchEnds` | 4 items over 2 slots, so tasks queue, fail together and are cancelled in the queue; any number of cancellations. 52 thousand states. |
| `upload` | `VerdictFitsSource` `SameAsInMemory` `WireContract` `CompleteIsAccepted` `CallReleased` `StoppedIsCancelled` `KeepsStore` | messages of 3 bytes, declared sizes on both sides of each boundary and past a limit of 9, sources of up to 11 bytes; a bad checksum; beside it one download of an older file of two chunks, of the new one, or of none, and one deletion. 75 thousand states. |
| `schedule_fixed` | `NeverExpires` | lifetimes 18 and 20, answers within 2 ticks, failures, early requests. |
| `replay_explicit` | `TypeOK` `AppliedOnce` `BindingFollowsDocument` `ReplaySafe` | every method; 3 items, two of them for one node, over 2 slots, 3 rounds, 2 foreign writes: a request of round one can be served in round three, after a foreign write. 117 thousand states. |
| `hydration` | `TypeOK` `SteadyFound` `FoundOnce` `ResultsInOrder` `HydrationEnds` | walks of each kind and hydration over an index of 3 positions with any contents, pages of 1 and 2, a limit refused by the SDK and one by the server, 2 fetches at once, 2 foreign writes, a server that may repeat a cursor and give an old page with it: empty, short and full pages, an object deleted behind the cursor and added again. 405 thousand states. |

Five runs state what a docstring or the repository's README says, and fail:

| Run | Says | What happens |
|---|---|---|
| `token_caller_kills_loop` | the background task refreshes "until the returned handle is closed" (`auth.py:151`) | a cancelled caller cancels the fetch it shares with the loop; the loop ends in `CancelledError`. |
| `token_aclose_hangs` | `aclose()` waits for the task "to actually stop" (`auth.py:182`) | on 3.10/3.11 a set event makes `wait_for` drop the cancellation. |
| `client_close_raises` | `close()` closes the channel and stops the task, and may be called again (`client.py:278-280`) | an untranslated exception comes out of `aclose()`; the channel stays open and a second `close()` does nothing. |
| `schedule_changing` | the interval follows the last reported lifetime, so the token never expires (`auth.py:109-111`) | it is computed once in `connect()`. RociaDB's own IdP always reports 600 s, so this needs another IdP or a change. |
| `replay_default` | replay is safe with defaulted keys (`graph.py:60-61`) | the default is a new uuid in each call. With explicit ids the claim holds and is proved. |

Seen on the way and not kept as runs: a caller can end in `CancelledError` though nobody
cancelled it (it shares a fetch with one who was); a fetch's untranslated
exception alone also ends the loop; `_rechunk_upload_requests` buffers a piece of any size whole, where its
docstring (`file.py:142-143`) speaks of one message's worth; `connect_timeout` bounds the dialing and not the token
fetch before it; a replay of `create_document` rewrites its node under a fresh id, which its docstring says.

**Bounds.** `MaxFetches` bounds the number of `_do_refresh` tasks; a call that
would need one more is not made. Liveness properties discount what only this bound causes
(`AtBound`), or do not need another fetch (`CloseReturns`, `CallsEndWithClient`). `MaxRead` bounds a
source, `MaxRounds`, `MaxOthers`, `MaxWrites` and `MaxDeletes` the replays and foreign writes. Everything else is finite
by itself; a failed page may be asked for any number of times. The proofs take all of these bounds
as arbitrary numbers. The runs use no symmetry, as the items of a
batch and the callers of a client have different parts.

**Deadlock** is checked for the token and schedule runs. It is off where the
system really ends: a client that failed to connect, a finished batch, upload, replay or walk.

**Fairness.** asyncio runs every task that is ready, so each step of a task that
waits for nothing outside has weak fairness. Nothing is assumed of users, of
cancellations, or of the refresh timer: `RequestAnswered` must hold without its help.
`IdPAnswers` is an assumption about the network and is in `AnsweredSpec` only, as the code
sets no timeout on the POST; `CloseReturns` does without it. In the batch nothing is assumed
of workers in `FailureEndsBatch`; `BatchEnds` names the assumption as its
antecedent. For `connect()` the timeout of `wait_for` justifies that dialing ends;
that `Channel.close()` returns and cancels the calls under way is taken from gRPC, and `CallsEndWithClient` rests on it, not on a server that
answers. `StoppedIsCancelled` needs only the event loop's finalizer of abandoned generators; no progress of a download is assumed, as
no deadline is set. `HydrationEnds` assumes that every RPC of the
call ends, well or badly; the repetition of a cursor is left to the server.

## 4. What is proved

tlapm checks these for every value of the constants that satisfies the modules' assumptions. A theorem of
a safety property follows from an invariant that is inductive, which its property seldom is; what each invariant adds is said below.

* **TokenManagerProofs**: `TypeCorrect`, `Consistency`, `SingleFlightHolds`,
  `RefreshAdvancesHolds`, `AuthErrorsSurvivedHolds`, `ServesTokensHolds`, that the manager implements TokenSource,
  and `HeadersNeverGoBackHolds`, which follows from that: an answer carries the token of the moment, and what was answered before is
  not newer (`HeadersCached`).
  That two fetches are never alive needs that only the newest is
  (`OnlyNewestLive`); that an answer improves the header needs that a live
  fetch's answer is newer than the cached one (`LiveAnswersAreNewer`), which rests on the
  order in which answers are issued (`AnswersAreIssued`); that a waiter improves
  needs its floor to be below whatever its fetch brought (`WaitersImprove`). Their
  conjunction is inductive together with `TypeOK`, and with it `CancelledWaitsEnd`: who is told to stop waiting waits for a fetch that
  is being cancelled or has ended. The refinement maps the step in which a fetch ends well to `Renew`
  and the one in which its waiter resumes to `Answer`, which `WaitersImprove` allows.
  `AuthErrorsSurvived` needs that a fetch stays as it ended, and that before `aclose()`
  nobody cancels the loop (`LoopEndsForCause`). `RequestKeptHolds`: a request is taken only as the loop joins a fetch that has not ended. `LoopSurvivesUndisturbed` proves the claim that the run
  `token_caller_kills_loop` refutes, under `~CallerCancels` and `~ForeignErrors`: these two, and nothing else, end the loop early.
* **ClientCallsProofs**: of the client `ReadyHasTokenHolds`, `FailedConnectHolds`, `LoopEndsFirstHolds`,
  `ReleaseHolds`, `CloseIsHeardHolds`; of its RPCs `EveryCallCarriesTokenHolds` and `RetryCarriesNewerTokenHolds`;
  and `CallsKeepLifecycle`, that ClientCalls implements ClientLifecycle, so that what is proved of a client holds of it.
  The manager inside a client takes two steps that TokenManager has not, the cancellation of `connect()` and that of
  `close()`; `ClientKeepsManager` `ClientServesTokens` and `ClientHeadersNeverGoBack` show that its invariants and its promise survive them. On these rests `LifecycleInv`: what each stage of `connect()`
  implies (`NotReadyYet`, `ChannelFollowsConnect`, `TokenFollowsConnect`), that a closed client is being closed by somebody until its channel is
  (`ClosingGoesOn`). `CallFits` says of one user's RPC that the refresh on its behalf has a
  floor not below the rejected token; `WaitersImprove` then makes the retry's token newer. `CloseReleasesTranslated` proves the claim
  that the run `client_close_raises` refutes, under `~ForeignErrors`: an exception that `_fetch_token_sync` does not translate is the only
  thing that makes `close()` raise. `ClientAuthErrorsSurvived` and `ClientLoopSurvives` say of the background task inside a client what is proved of it alone: the
  cancellation of `connect()` comes before there is one, and that of `close()` after `aclose()` was called, which `CloseIsHeard` says
  (`OnlyConnectCancels`). `CallsHeardHolds`, that an RPC
  under way on a closed client only waits for steps of `close()` and of its channel, is the safety of `CallsEndWithClient`.
  `CallsTypeCorrect`: all of it stays well-typed.
* **RunBoundedProofs**: `WaitsForAnswersHolds`, `NoOrphansHolds`, `FirstFailureHolds`,
  `NoLateCallsHolds`, `UsesUpHolds`, and `KeepsPromiseHolds`, the refinement of `BoundedBatch`. The
  invariant `BatchInv` says that `completed` lists the ended tasks once each
  (`Recorded`: so when N of them have been seen, all have ended), what gather knows
  of them (`GatherKnows`), what the stage of the main task implies (`MainKnows`), and
  that a running task is one whose worker was called (`CallsKnown`). `UsesUp` needs besides that neither
  `completed` nor `seen` exceeds N, which `Recorded` gives by counting.
* **UploadStreamProofs**: `VerdictFitsSourceHolds`, `WireContractHolds` and `SameAsInMemoryHolds`, for
  any message size and any pieces. The invariant accounts for bytes: what was read is
  what was sent plus the buffer, and before the last message only full ones were sent. `ChunksUnique` says that a
  sequence of full messages with a last one that is not empty is the one `ChunkUploadRequests` gives for its bytes.
* **FileTransferProofs**: `UploadUndisturbed`, that the composition implements UploadStream, hence `UploadsHold`;
  `DownloadIsWholeHolds`, `CallReleasedHolds`, `StoppedIsHeardHolds`, `TransferTypeCorrect`, and `KeepsStoreHolds`, the refinement of `FileStore`. The invariant: what is stored and what is
  offered are whole files, what was yielded is a prefix of what is offered, and the call is open
  exactly while the generator is inside its `try`. `KeepsStoreHolds` takes from it that what is stored is what `upload_file()` would have sent
  (`SameAsInMemory`, in the state after the step) and that a download which has yielded as much as is offered has the file. `CompleteIsAcceptedHolds` says that the server's own sum of the chunks is the
  declared size. That sum is a recursive function, and what it computes takes induction over the length; the library's
  induction theorems, which have a predicate as a parameter, cannot be instantiated, so the induction is made with sets: the
  lengths for which the lemma holds contain 0 and are closed under successor, and
  a set of naturals without a least element is empty (`EveryNatural`).
* **RefreshScheduleProofs**: `NeverExpiresHolds`, under `MarginSuffices`: every
  lifetime the IdP may report exceeds every interval by more than two round trips. The invariant: when the task sleeps, the life left covers the
  wait and a round trip. `OneLifetimeNeverExpires` draws the consequence for an IdP that always reports the same lifetime, as RociaDB's does: the margin
  follows from what `refresh_interval()` computes as soon as a third of the lifetime exceeds two round trips, and the lifetime exceeds
  the floor of the interval by as much.
* **BatchReplayProofs**: `TypeCorrect`; `AppliedOnceHolds`, as an item that was answered has its id recorded, an id is recorded only with the
  write, and an item with an id of its own is written only when its id is recorded first; `BindingHolds`, as the second stage is sent only when the first was answered;
  `KeyedReplaySafeHolds`, item by item and without an assumption on the others: the one id of such an item
  is recorded from its first write on. `ReplaySafeHolds`, if every item has an explicit id, is a corollary.
* **NeighborHydrationProofs**: `WalksTyped`, `SteadyFoundHolds`, `FoundOnceHolds`, `ResultsInOrderHolds`, for the walks of all listings
  and for hydration. The invariant: what was found is ascending, but for one last page after a repeated cursor (`Ordered`), and not past the cursor, and whatever
  is steady and not past it was found (`WalkInv`). That the last page is no longer than the limit is `PageSize`: no two of its entries have equally many before them.
  `HydrationUsesUpHolds` needs that a list is never longer than the index and one more page (`ItemsBounded`, by the pigeonhole principle from
  the ascending order), which also justifies the range over which the fairness of the `get_node` calls is stated. `WalkUsesUpHolds`
  says the same of the walks that callers make: a page moves the cursor on or is the last.

**Liveness.** What holds only under fairness is out of the prover's reach and model-checked: `CallersReturn`, `RequestAnswered`, `CloseReturns`,
`CallsEndWithClient`, `FailureEndsBatch`, `BatchEnds`, `StoppedIsCancelled`, `HydrationEnds`. Where such a property has a safety core, that core is proved:
who waits waits for something that can end (`CancelledWaitsEnd` for cancelled callers, `CloseIsHeard` for `close()`, `CallsHeard` for RPCs under way, `WaitsForAnswers` for a batch,
`StoppedIsHeard` for a generator that nobody holds), a request for a refresh is not lost (`RequestKept`), and a walk or a batch uses up a finite supply (`UsesUp`, `HydrationUsesUp`, `WalkUsesUp`). What is left to
TLC is that the steps so named are enabled and, being fair, taken.

**Proved and in no run.** `HeadersNeverGoBack` follows from `ServesTokens` and `DownloadIsWhole` from `KeepsStore`, which runs check; `TransferTypeOK`,
`CallsTypeOK`, `CallsHeard`, `UsesUp`, `HydrationUsesUp`, `WalkUsesUp` and other parts of the safety of what the runs check are stated by theorems alone.

**Assumptions.** The named `ASSUME`s type the constants and make sizes positive, and TLC evaluates them in
every run. The theorems that need more state it as an `ASSUME` of their own: `MarginSuffices`, one constant lifetime,
`~CallerCancels` and `~ForeignErrors`, an explicit id on every item.

## 5. Not modelled

* Public types, enumerations and re-exports: no control. Messages of errors and `_extract_reason`: wording.
* The builder's setters and endpoint parsing: pure checks before anything exists. A bad option is `EndpointRejected` or `CredentialsMissing`.
* `upload_file_raw` forwards messages as they are.
* Generated code under `_pb` beyond the shape of each RPC: servicers, registration, the experimental classes.
* What gRPC does inside, such as how an exception of the request generator reaches the caller, which may
  be as an error of the call.
* A server that alternates between two old cursors: a walk over its pages would not end, and a caller's own loop
  does not even notice one that is repeated.
* The page size of a hydration is fixed (50): on a server whose ceiling is set lower every hydration fails. The guard of `FollowPage` has this; no
  property asks for more, as the SDK leaves the ceiling to the server.
* An order that changes under a cursor. A cursor is a fixed position of the index, which holds of names and keys; in a `query_documents`
  sorted by values an object whose value changes moves, and may be missed or found twice. `SteadyFound` and `FoundOnce` speak of objects that keep their place.
* Markers that expire after 24 hours; a newer token that the IdP has revoked.
* Contents of bytes and payloads, and checksums beyond their length; the memory a large piece takes.
* Thread exhaustion by POSTs that never return; real time in `connect_timeout`.
* The channel that a cancelled `connect()` leaves to the garbage collector: the step is modelled (`CancelConnect`), no property asks for more.

## 6. Plan

Done, in this order: TokenManager with its proofs; ClientLifecycle; BoundedBatch, RunBounded and the refinement
proof; UploadStream, RefreshSchedule and BatchReplay with proofs; NeighborHydration; then downloads
(FileTransfer), `create_document` and the single writes (BatchReplay), every listing (PagedListing), RPCs in flight (ClientCalls),
and the proofs of all their safety properties.

Left for the proofs: nothing that the provers reach; liveness, and what only fairness gives, stays with TLC. Left for the model, if a need for it
appears: several clients of one IdP that revokes older tokens; markers that expire; a walk over a server
with more than one stale cursor, to state what a caller's loop would have to remember.

## Running

`tlc -config RunBounded.cfg MCRunBounded`, and so on: a configuration belongs to the
MC module whose name it begins with. `tlapm RunBoundedProofs.tla` checks a module of proofs.
