----------------------------- MODULE RunBounded -----------------------------
(***************************************************************************)
(* _run_bounded of src/rociadb_sdk/client.py: one task per item, each      *)
(* waiting for a slot of an asyncio.Semaphore before it calls the worker;  *)
(* asyncio.gather over them; and, when that raises, the cancellation of    *)
(* every task and a second gather that waits for them to end.              *)
(*                                                                         *)
(* asyncio is outside src/.  Modelled of it: the semaphore serves waiters  *)
(* in order; a task that ends frees its slot at once, but gather learns of *)
(* it in a callback of its own, in the order in which tasks ended; and     *)
(* cancelling the task inside a gather cancels the children that are still *)
(* running.                                                                *)
(***************************************************************************)
EXTENDS Naturals, Sequences, FiniteSets

CONSTANTS
  N,            \* number of items
  Concurrency,  \* the semaphore's initial value, CONCURRENT_REQUESTS in the SDK
  MainCancels   \* may the task inside _run_bounded be cancelled?

ASSUME BatchAssumption ==
  /\ N \in Nat
  /\ Concurrency \in Nat \ {0}
  /\ MainCancels \in BOOLEAN

Items == 1 .. N

VARIABLES
  task,       \* state of the task of each item
  started,    \* items whose worker has been called
  completed,  \* items in the order in which their tasks ended
  seen,       \* how many of them the first gather's callback has processed
  gathered,   \* outcome of the first gather: pending, results, cancelled, or an item
  requested,  \* cancel() reached the first gather while children were running
  main,       \* the task inside _run_bounded
  told,       \* it must raise CancelledError when it next runs
  raised      \* what it raises: an item's exception, 0 for CancelledError

vars == <<task, started, completed, seen, gathered, requested, main, told, raised>>

Ended     == {"ok", "failed", "cancelled"}
Pending   == {"queued", "running", "cancelling"}
Outcome   == {"pending", "results", "cancelled", "failed"}
Running(i) == i \in started /\ task[i] \in Pending
InFlight  == {i \in Items : Running(i)}
Settled   == \A i \in Items : task[i] \in Ended

TypeOK ==
  /\ task \in [Items -> Pending \cup Ended]
  /\ started \in SUBSET Items
  /\ completed \in Seq(Items)
  /\ seen \in 0 .. Len(completed)
  /\ gathered \in [outcome : Outcome, item : 0 .. N]
  /\ requested \in BOOLEAN
  /\ main \in {"gathering", "draining", "returned", "raised"}
  /\ told \in BOOLEAN
  /\ raised \in 0 .. N

Init ==
  /\ task = [i \in Items |-> "queued"]
  /\ started = {}
  /\ completed = <<>>
  /\ seen = 0
  /\ gathered = [outcome |-> "pending", item |-> 0]
  /\ requested = FALSE
  /\ main = IF N = 0 THEN "returned" ELSE "gathering"
  /\ told = FALSE
  /\ raised = 0

-----------------------------------------------------------------------------
(* Altered forms: one slot too many; the slot is not given back.           *)
StartOneTooMany(i) ==
  /\ task[i] = "queued"
  /\ \A j \in 1 .. i - 1 : task[j] # "queued"
  /\ Cardinality(InFlight) <= Concurrency
  /\ task' = [task EXCEPT ![i] = "running"]
  /\ started' = started \cup {i}
  /\ UNCHANGED <<completed, seen, gathered, requested, main, told, raised>>

StartWithoutRelease(i) ==
  /\ task[i] = "queued"
  /\ \A j \in 1 .. i - 1 : task[j] # "queued"
  /\ Cardinality(started) < Concurrency
  /\ task' = [task EXCEPT ![i] = "running"]
  /\ started' = started \cup {i}
  /\ UNCHANGED <<completed, seen, gathered, requested, main, told, raised>>

(* The task at the head of the queue gets a slot and calls the worker.     *)
Start(i) ==
  /\ task[i] = "queued"
  /\ \A j \in 1 .. i - 1 : task[j] # "queued"
  /\ Cardinality(InFlight) < Concurrency
  /\ task' = [task EXCEPT ![i] = "running"]
  /\ started' = started \cup {i}
  /\ UNCHANGED <<completed, seen, gathered, requested, main, told, raised>>

(* The worker returns, raises, or ends in a CancelledError of its own (the *)
(* shared token fetch was cancelled): the slot is free again.              *)
WorkerEnds(i) ==
  /\ task[i] = "running"
  /\ \E end \in Ended : task' = [task EXCEPT ![i] = end]
  /\ completed' = Append(completed, i)
  /\ UNCHANGED <<started, seen, gathered, requested, main, told, raised>>

(* A cancelled task runs: in the queue or in the worker, it ends.          *)
TaskCancelled(i) ==
  /\ task[i] = "cancelling"
  /\ task' = [task EXCEPT ![i] = "cancelled"]
  /\ completed' = Append(completed, i)
  /\ UNCHANGED <<started, seen, gathered, requested, main, told, raised>>

(* gather's callback for the next ended task: the first that did not       *)
(* succeed decides, and otherwise the last.                                *)
GatherCallback ==
  /\ seen < Len(completed)
  /\ seen' = seen + 1
  /\ LET i == completed[seen']
     IN  gathered' =
           IF gathered.outcome # "pending" THEN gathered
           ELSE IF task[i] # "ok" THEN [outcome |-> task[i], item |-> i]
           ELSE IF seen' < N THEN gathered
           ELSE [outcome |-> IF requested THEN "cancelled" ELSE "results", item |-> 0]
  /\ UNCHANGED <<task, started, completed, requested, main, told, raised>>

-----------------------------------------------------------------------------
(* `for task in tasks: task.cancel()`, and what a gather does when it is   *)
(* cancelled.                                                              *)
CancelTasks ==
  task' = [i \in Items |-> IF task[i] \in {"queued", "running"} THEN "cancelling" ELSE task[i]]

(* gather() returned the results.                                          *)
MainReturns ==
  /\ main = "gathering"
  /\ gathered.outcome = "results" /\ ~told
  /\ main' = "returned"
  /\ UNCHANGED <<task, started, completed, seen, gathered, requested, told, raised>>

(* Altered forms: the tasks are not cancelled; they are, but not awaited;   *)
(* the exception of the first item in the list is raised.                  *)
MainFailsInItemOrder ==
  /\ main = "gathering"
  /\ gathered.outcome # "pending"
  /\ gathered.outcome # "results" \/ told
  /\ CancelTasks
  /\ raised' = IF gathered.outcome = "failed" /\ ~told
               THEN CHOOSE i \in Items : task[i] = "failed" /\ \A j \in 1 .. i - 1 : task[j] # "failed"
               ELSE 0
  /\ told' = FALSE
  /\ main' = "draining"
  /\ UNCHANGED <<started, completed, seen, gathered, requested>>

MainFailsUncancelled ==
  /\ main = "gathering"
  /\ gathered.outcome # "pending"
  /\ gathered.outcome # "results" \/ told
  /\ raised' = IF gathered.outcome = "failed" /\ ~told THEN gathered.item ELSE 0
  /\ told' = FALSE
  /\ main' = "draining"
  /\ UNCHANGED <<task, started, completed, seen, gathered, requested>>

MainFailsUndrained ==
  /\ main = "gathering"
  /\ gathered.outcome # "pending"
  /\ gathered.outcome # "results" \/ told
  /\ CancelTasks
  /\ raised' = IF gathered.outcome = "failed" /\ ~told THEN gathered.item ELSE 0
  /\ told' = FALSE
  /\ main' = "raised"
  /\ UNCHANGED <<started, completed, seen, gathered, requested>>

(* gather() raised, or the cancellation is delivered now that gather() is  *)
(* done: cancel every task and wait for all of them to end.                *)
MainFails ==
  /\ main = "gathering"
  /\ gathered.outcome # "pending"
  /\ gathered.outcome # "results" \/ told
  /\ CancelTasks
  /\ raised' = IF gathered.outcome = "failed" /\ ~told THEN gathered.item ELSE 0
  /\ told' = FALSE
  /\ main' = "draining"
  /\ UNCHANGED <<started, completed, seen, gathered, requested>>

(* Everything has ended: re-raise, unless cancelled again in the meantime. *)
MainRaises ==
  /\ main = "draining"
  /\ Settled
  /\ main' = "raised"
  /\ raised' = IF told THEN 0 ELSE raised
  /\ UNCHANGED <<task, started, completed, seen, gathered, requested, told>>

(* cancel() on the main task.  In the first gather it cancels the children *)
(* that are running; with none left, or in the second gather, where all    *)
(* are cancelled already, CancelledError comes when that gather is done.   *)
CancelMain ==
  /\ MainCancels
  /\ main \in {"gathering", "draining"}
  /\ IF main = "gathering" /\ gathered.outcome = "pending" /\ ~Settled
     THEN CancelTasks /\ requested' = TRUE /\ UNCHANGED told
     ELSE told' = TRUE /\ UNCHANGED <<task, requested>>
  /\ UNCHANGED <<started, completed, seen, gathered, main, raised>>

-----------------------------------------------------------------------------
Next == \/ \E i \in Items : Start(i) \/ WorkerEnds(i) \/ TaskCancelled(i)
        \/ GatherCallback
        \/ MainReturns \/ MainFails \/ MainRaises \/ CancelMain

Spec == Init /\ [][Next]_vars

(* The event loop runs what is ready.  Nothing is assumed of the workers:  *)
(* an RPC without a deadline need never end.                               *)
Fairness ==
  /\ \A i \in Items : WF_vars(Start(i)) /\ WF_vars(TaskCancelled(i))
  /\ WF_vars(GatherCallback)
  /\ WF_vars(MainReturns) /\ WF_vars(MainFails) /\ WF_vars(MainRaises)

FairSpec == Spec /\ Fairness

WorkersEnd == \A i \in Items : WF_vars(WorkerEnds(i))

-----------------------------------------------------------------------------
(* When the call is over, however it ended, no task of it is left running: *)
(* no RPC of a failed batch can land after the exception was seen, also    *)
(* when the batch is cancelled while it is cleaning up.                    *)
NoOrphans == main \in {"returned", "raised"} => Settled

(* The exception is that of the first call to fail: no task ended without  *)
(* a result before it.                                                     *)
FirstFailureRaised ==
  main = "raised" /\ raised # 0 =>
    \E p \in 1 .. Len(completed) :
      /\ completed[p] = raised /\ task[raised] = "failed"
      /\ \A q \in 1 .. p - 1 : task[completed[q]] = "ok"

(* No call is made once the batch has started to clean up, nor after it    *)
(* was cancelled.                                                          *)
NoLateCalls == [][started' # started => main = "gathering" /\ ~requested]_vars

(* The promise, with a task that waits for a slot standing for an item     *)
(* that has not been called.                                               *)
Promise == INSTANCE BoundedBatch WITH
  calling   <- InFlight,
  succeeded <- {i \in Items : task[i] = "ok"},
  ended     <- {i \in Items : task[i] \in Ended},
  outcome   <- IF main \in {"returned", "raised"} THEN main ELSE "open"
KeepsPromise == Promise!BatchSpec

(* What the event loop can do without an answer to any call.               *)
Ready ==
  \/ \E i \in Items : /\ task[i] = "queued" /\ \A j \in 1 .. i - 1 : task[j] # "queued"
                      /\ Cardinality(InFlight) < Concurrency
  \/ \E i \in Items : task[i] = "cancelling"
  \/ seen < Len(completed)
  \/ main = "gathering" /\ gathered.outcome # "pending"
  \/ main = "draining" /\ Settled

(* An open batch waits only for answers: a call is running, on every slot  *)
(* if an item is left, nothing has failed and nobody has cancelled it.  A  *)
(* failure or a cancellation that does not reach every task would leave it *)
(* waiting for an answer that it does not need.                            *)
WaitsForAnswers ==
  main \in {"gathering", "draining"} /\ ~Ready =>
    /\ main = "gathering" /\ ~requested
    /\ InFlight # {}
    /\ \A i \in Items : task[i] \in {"queued", "running", "ok"}
    /\ (\E i \in Items : task[i] = "queued") => Cardinality(InFlight) >= Concurrency

(* No batch goes on for ever but by being cancelled again and again: every *)
(* other step uses up some of what is left to do.  With WaitsForAnswers,   *)
(* and as the event loop runs what is ready, every batch whose calls are   *)
(* answered ends, and a batch that failed needs no answer to end.          *)
Queued == {i \in Items : task[i] = "queued"}
Stage == CASE main = "gathering" -> 2 [] main = "draining" -> 1 [] OTHER -> 0
LeftToDo == Cardinality(Queued) + (N - Len(completed)) + (N - seen) + Stage
UsesUp == [][/\ LeftToDo' \in Nat
             /\ LeftToDo' < LeftToDo \/ (CancelMain /\ LeftToDo' <= LeftToDo)]_vars

(* A failure, or a cancellation that arrives while calls are running, ends *)
(* the batch, even if no other call ever gets an answer.                   *)
FailureEndsBatch ==
  (requested \/ \E i \in Items : task[i] \in {"failed", "cancelled"})
    ~> main \in {"returned", "raised"}

(* With an answer to every call, every batch ends.                         *)
BatchEnds == WorkersEnd => <>(main \in {"returned", "raised"})
=============================================================================
