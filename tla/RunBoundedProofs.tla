-------------------------- MODULE RunBoundedProofs --------------------------
(***************************************************************************)
(* What _run_bounded keeps for any number of items and of slots.           *)
(***************************************************************************)
EXTENDS RunBounded, SequenceTheorems, FiniteSetTheorems, WellFoundedInduction, TLAPS

EndedItems == {i \in Items : task[i] \in Ended}

(* completed lists the items whose tasks ended, each once.                 *)
Recorded ==
  /\ \A p \in 1 .. Len(completed) : task[completed[p]] \in Ended
  /\ \A i \in Items : task[i] \in Ended => \E p \in 1 .. Len(completed) : completed[p] = i
  /\ Cardinality(EndedItems) = Len(completed)

(* What the first gather has learned of the tasks that ended.              *)
FirstFailure(i) ==
  \E p \in 1 .. Len(completed) :
    /\ completed[p] = i /\ task[i] = "failed"
    /\ \A q \in 1 .. p - 1 : task[completed[q]] = "ok"
GatherKnows ==
  /\ gathered.outcome = "pending" => \A q \in 1 .. seen : task[completed[q]] = "ok"
  /\ gathered.outcome = "results" => \A i \in Items : task[i] = "ok"
  /\ gathered.outcome = "failed" => FirstFailure(gathered.item)

(* What the stage of the main task says of the others.                     *)
MainKnows ==
  /\ main \in {"returned", "raised"} => Settled
  /\ main # "gathering" \/ requested => \A i \in Items : task[i] # "queued"
  /\ raised # 0 => gathered.outcome = "failed" /\ raised = gathered.item

(* A task is running once its worker has been called, and not before.      *)
CallsKnown ==
  \A i \in Items : /\ task[i] = "queued" => i \notin started
                   /\ task[i] = "running" => i \in started

BatchInv == Recorded /\ GatherKnows /\ MainKnows /\ CallsKnown

-----------------------------------------------------------------------------
(* The ended tasks are all of them once N have been recorded.              *)
LEMMA AllRecorded ==
  ASSUME TypeOK, Recorded, N <= Len(completed)
  PROVE  Len(completed) = N /\ Settled
<1>1. IsFiniteSet(Items) /\ Cardinality(Items) = N
  BY BatchAssumption, FS_Interval DEF Items
<1>2. EndedItems \subseteq Items
  BY DEF EndedItems
<1>3. /\ IsFiniteSet(EndedItems) /\ Cardinality(EndedItems) <= N
      /\ Cardinality(EndedItems) = N => EndedItems = Items
  BY <1>1, <1>2, FS_Subset
<1>4. Cardinality(EndedItems) = N
  BY <1>3, BatchAssumption DEF Recorded, TypeOK
<1>. QED BY <1>3, <1>4 DEF Recorded, EndedItems, Settled

(* A task that ends, whatever of, is recorded last.                        *)
LEMMA EndRecorded ==
  ASSUME TypeOK, Recorded, NEW i \in Items, task[i] \in Pending,
         NEW end \in Ended, task' = [task EXCEPT ![i] = end],
         completed' = Append(completed, i)
  PROVE  Recorded'
<1>1. /\ Len(completed') = Len(completed) + 1 /\ Len(completed) \in Nat
      /\ \A p \in 1 .. Len(completed) : completed'[p] = completed[p]
      /\ completed'[Len(completed) + 1] = i
  BY DEF TypeOK
<1>2. task'[i] \in Ended /\ \A j \in Items \ {i} : task'[j] = task[j]
  BY DEF TypeOK
<1>3. \A p \in 1 .. Len(completed) : completed[p] \in Items
  BY DEF TypeOK
<1>4. i \notin EndedItems /\ EndedItems' = EndedItems \cup {i}
  BY <1>2 DEF EndedItems, Pending, Ended
<1>5. IsFiniteSet(EndedItems)
  <2>1. IsFiniteSet(Items)
    BY BatchAssumption, FS_Interval DEF Items
  <2>. QED BY <2>1, FS_Subset DEF EndedItems
<1>6. Cardinality(EndedItems') = Len(completed')
  <2>1. Cardinality(EndedItems \cup {i}) = Cardinality(EndedItems) + 1
    BY <1>4, <1>5, FS_AddElement
  <2>2. Cardinality(EndedItems) = Len(completed)
    BY DEF Recorded
  <2>. QED BY <1>1, <1>4, <2>1, <2>2
<1>7. \A p \in 1 .. Len(completed') : task'[completed'[p]] \in Ended
  <2>. SUFFICES ASSUME NEW p \in 1 .. Len(completed') PROVE task'[completed'[p]] \in Ended
    OBVIOUS
  <2>1. CASE p = Len(completed) + 1 BY <1>1, <1>2, <2>1
  <2>2. CASE p \in 1 .. Len(completed) BY <1>1, <1>2, <1>3, <2>2 DEF Recorded
  <2>. QED BY <1>1, <2>1, <2>2
<1>8. ASSUME NEW j \in Items, task'[j] \in Ended
      PROVE  \E p \in 1 .. Len(completed') : completed'[p] = j
  <2>1. CASE j = i BY <1>1, <2>1
  <2>2. CASE j # i
    <3>1. PICK p \in 1 .. Len(completed) : completed[p] = j
      BY <1>2, <1>8, <2>2 DEF Recorded
    <3>. QED BY <1>1, <3>1
  <2>. QED BY <2>1, <2>2
<1>. QED BY <1>6, <1>7, <1>8 DEF Recorded

(* An outcome is final: a task that ended stays as it is, and so does its  *)
(* place in the record.                                                    *)
LEMMA OutcomesFinal ==
  ASSUME TypeOK, [Next]_vars
  PROVE  /\ \A i \in Items : task[i] \in Ended => task'[i] = task[i]
         /\ Len(completed) <= Len(completed')
         /\ \A p \in 1 .. Len(completed) : completed'[p] = completed[p]
<1>. USE DEF TypeOK, Ended
<1>1. ASSUME NEW i \in Items, Start(i) \/ WorkerEnds(i) \/ TaskCancelled(i)
      PROVE  \A j \in Items : task[j] \in Ended => task'[j] = task[j]
  BY <1>1 DEF Start, WorkerEnds, TaskCancelled
<1>2. CASE \E i \in Items : Start(i) BY <1>1, <1>2 DEF Start
<1>3. CASE \E i \in Items : WorkerEnds(i) \/ TaskCancelled(i)
  BY <1>1, <1>3 DEF WorkerEnds, TaskCancelled
<1>4. CASE GatherCallback BY <1>4 DEF GatherCallback
<1>5. CASE MainReturns BY <1>5 DEF MainReturns
<1>6. CASE MainFails BY <1>6 DEF MainFails, CancelTasks
<1>7. CASE MainRaises BY <1>7 DEF MainRaises
<1>8. CASE CancelMain BY <1>8 DEF CancelMain, CancelTasks
<1>9. CASE UNCHANGED vars BY <1>9 DEF vars
<1>. QED BY <1>2, <1>3, <1>4, <1>5, <1>6, <1>7, <1>8, <1>9 DEF Next

-----------------------------------------------------------------------------
(* Every variable stays in its type.                                       *)
LEMMA BatchTypeInductive == TypeOK /\ Recorded /\ [Next]_vars => TypeOK'
<1>. SUFFICES ASSUME TypeOK, Recorded, [Next]_vars PROVE TypeOK'
  OBVIOUS
<1>0. /\ task \in [Items -> Pending \cup Ended] /\ completed \in Seq(Items)
      /\ seen \in 0 .. Len(completed) /\ N \in Nat /\ Items = 1 .. N
  BY BatchAssumption DEF TypeOK, Items
<1>1. ASSUME NEW i \in Items, Start(i) PROVE TypeOK'
  <2>1. task' \in [Items -> Pending \cup Ended] BY <1>0, <1>1 DEF Start, Pending
  <2>. QED BY <1>1, <2>1 DEF Start, TypeOK
<1>2. ASSUME NEW i \in Items, WorkerEnds(i) \/ TaskCancelled(i) PROVE TypeOK'
  <2>1. task' \in [Items -> Pending \cup Ended]
    BY <1>0, <1>2 DEF WorkerEnds, TaskCancelled, Ended
  <2>2. completed' = Append(completed, i) /\ seen' = seen
    BY <1>2 DEF WorkerEnds, TaskCancelled
  <2>3. completed' \in Seq(Items) /\ Len(completed') = Len(completed) + 1
    BY <1>0, <2>2
  <2>4. seen' \in 0 .. Len(completed')
    BY <1>0, <2>2, <2>3
  <2>. QED BY <1>2, <2>1, <2>3, <2>4 DEF WorkerEnds, TaskCancelled, TypeOK
<1>3. CASE GatherCallback
  <2>1. seen' \in 1 .. Len(completed) /\ completed[seen'] \in Items
        /\ task[completed[seen']] \in Ended
    BY <1>0, <1>3 DEF GatherCallback, Recorded
  <2>2. gathered' \in [outcome : Outcome, item : 0 .. N]
    BY <1>0, <1>3, <2>1 DEF GatherCallback, TypeOK, Outcome, Ended
  <2>. QED BY <1>3, <2>1, <2>2 DEF GatherCallback, TypeOK
<1>4. CASE MainReturns BY <1>4 DEF MainReturns, TypeOK
<1>5. CASE MainFails
  <2>1. task' \in [Items -> Pending \cup Ended]
    BY <1>0, <1>5 DEF MainFails, CancelTasks, Pending
  <2>2. raised' \in 0 .. N BY <1>0, <1>5 DEF MainFails, TypeOK
  <2>. QED BY <1>5, <2>1, <2>2 DEF MainFails, TypeOK
<1>6. CASE MainRaises
  <2>1. raised' \in 0 .. N BY <1>0, <1>6 DEF MainRaises, TypeOK
  <2>. QED BY <1>6, <2>1 DEF MainRaises, TypeOK
<1>7. CASE CancelMain
  <2>1. task' \in [Items -> Pending \cup Ended]
    BY <1>0, <1>7 DEF CancelMain, CancelTasks, Pending
  <2>2. told' \in BOOLEAN /\ requested' \in BOOLEAN
    BY <1>7, Zenon DEF CancelMain, TypeOK
  <2>. QED BY <1>7, <2>1, <2>2 DEF CancelMain, TypeOK
<1>8. CASE UNCHANGED vars BY <1>8 DEF vars, TypeOK
<1>. QED BY <1>1, <1>2, <1>3, <1>4, <1>5, <1>6, <1>7, <1>8 DEF Next

(* The record is kept by every step.                                       *)
LEMMA RecordedInductive == TypeOK /\ Recorded /\ [Next]_vars => Recorded'
<1>. SUFFICES ASSUME TypeOK, Recorded, [Next]_vars PROVE Recorded'
  OBVIOUS
<1>0. \A p \in 1 .. Len(completed) : completed[p] \in Items
  BY DEF TypeOK
<1>1. ASSUME completed' = completed,
             \A i \in Items : (task'[i] \in Ended <=> task[i] \in Ended)
      PROVE  Recorded'
  <2>1. EndedItems' = EndedItems BY <1>1 DEF EndedItems
  <2>. QED BY <1>0, <1>1, <2>1 DEF Recorded
<1>2. ASSUME NEW i \in Items, WorkerEnds(i) PROVE Recorded'
  <2>1. PICK end \in Ended : task' = [task EXCEPT ![i] = end] BY <1>2 DEF WorkerEnds
  <2>. QED BY <1>2, <2>1, EndRecorded DEF WorkerEnds, Pending
<1>3. ASSUME NEW i \in Items, TaskCancelled(i) PROVE Recorded'
  BY <1>3, EndRecorded DEF TaskCancelled, Pending, Ended
<1>4. ASSUME NEW i \in Items, Start(i) PROVE Recorded'
  BY <1>1, <1>4 DEF Start, TypeOK, Ended
<1>5. CASE MainFails BY <1>1, <1>5 DEF MainFails, CancelTasks, TypeOK, Ended
<1>6. CASE CancelMain BY <1>1, <1>6 DEF CancelMain, CancelTasks, TypeOK, Ended
<1>7. CASE GatherCallback BY <1>1, <1>7 DEF GatherCallback
<1>8. CASE MainReturns BY <1>1, <1>8 DEF MainReturns
<1>9. CASE MainRaises BY <1>1, <1>9 DEF MainRaises
<1>10. CASE UNCHANGED vars BY <1>1, <1>10 DEF vars
<1>. QED BY <1>2, <1>3, <1>4, <1>5, <1>6, <1>7, <1>8, <1>9, <1>10 DEF Next

(* What gather knows stays true when tasks end, and its callback adds the  *)
(* next of them.                                                           *)
LEMMA GatherInductive == TypeOK /\ Recorded /\ GatherKnows /\ [Next]_vars => GatherKnows'
<1>. SUFFICES ASSUME TypeOK, Recorded, GatherKnows, [Next]_vars PROVE GatherKnows'
  OBVIOUS
<1>0. /\ seen \in 0 .. Len(completed) /\ N \in Nat /\ Len(completed) \in Nat
      /\ \A p \in 1 .. Len(completed) : completed[p] \in Items
      /\ gathered \in [outcome : Outcome, item : 0 .. N]
  BY BatchAssumption DEF TypeOK
<1>1. /\ \A i \in Items : task[i] \in Ended => task'[i] = task[i]
      /\ Len(completed) <= Len(completed')
      /\ \A p \in 1 .. Len(completed) : completed'[p] = completed[p]
  BY OutcomesFinal
<1>2. Len(completed') \in Nat
  BY BatchTypeInductive DEF TypeOK
<1>3. ASSUME NEW i, FirstFailure(i) PROVE FirstFailure(i)'
  <2>1. PICK p \in 1 .. Len(completed) : /\ completed[p] = i /\ task[i] = "failed"
                                         /\ \A q \in 1 .. p - 1 : task[completed[q]] = "ok"
    BY <1>3 DEF FirstFailure
  <2>2. i \in Items /\ task'[i] = "failed" BY <1>0, <1>1, <2>1 DEF Ended
  <2>3. \A q \in 1 .. p - 1 : task'[completed'[q]] = "ok" BY <1>0, <1>1, <2>1 DEF Ended
  <2>4. p \in 1 .. Len(completed') /\ completed'[p] = i BY <1>0, <1>1, <1>2, <2>1
  <2>. QED BY <2>2, <2>3, <2>4 DEF FirstFailure
<1>4. CASE UNCHANGED <<gathered, seen>>
  <2>1. gathered.outcome = "pending" => \A q \in 1 .. seen : task'[completed'[q]] = "ok"
    BY <1>0, <1>1 DEF GatherKnows, Ended
  <2>2. gathered.outcome = "results" => \A i \in Items : task'[i] = "ok"
    BY <1>1 DEF GatherKnows, Ended
  <2>3. gathered.outcome = "failed" => FirstFailure(gathered.item)'
    BY <1>3, <1>4 DEF GatherKnows
  <2>. QED BY <1>4, <2>1, <2>2, <2>3 DEF GatherKnows, FirstFailure
<1>5. CASE GatherCallback
  <2>0. /\ seen' = seen + 1 /\ seen + 1 \in 1 .. Len(completed)
        /\ task' = task /\ completed' = completed
    BY <1>0, <1>5 DEF GatherCallback
  <2>1. PICK i \in Items : i = completed[seen + 1] /\ task[i] \in Ended
    BY <1>0, <2>0 DEF Recorded
  <2>2. gathered' = IF gathered.outcome # "pending" THEN gathered
                    ELSE IF task[i] # "ok" THEN [outcome |-> task[i], item |-> i]
                    ELSE IF seen' < N THEN gathered
                    ELSE [outcome |-> IF requested THEN "cancelled" ELSE "results", item |-> 0]
    BY <1>5, <2>0, <2>1 DEF GatherCallback
  <2>3. CASE gathered.outcome # "pending"
    BY <2>0, <2>2, <2>3 DEF GatherKnows, FirstFailure
  <2>4. CASE gathered.outcome = "pending" /\ task[i] # "ok"
    <3>1. gathered'.outcome = task[i] /\ gathered'.item = i BY <2>2, <2>4
    <3>2. \A q \in 1 .. seen : task[completed[q]] = "ok" BY <2>4 DEF GatherKnows
    <3>3. task[i] = "failed" => FirstFailure(i)'
      BY <1>0, <2>0, <2>1, <3>2 DEF FirstFailure
    <3>. QED BY <2>1, <2>4, <3>1, <3>3 DEF GatherKnows, Ended
  <2>5. CASE gathered.outcome = "pending" /\ task[i] = "ok"
    <3>1. \A q \in 1 .. seen' : task'[completed'[q]] = "ok"
      BY <1>0, <2>0, <2>1, <2>5 DEF GatherKnows
    <3>2. CASE seen' < N
      BY <2>2, <2>5, <3>1, <3>2 DEF GatherKnows
    <3>3. CASE ~(seen' < N)
      <4>1. gathered'.outcome \in {"cancelled", "results"} BY <2>2, <2>5, <3>3
      <4>2. Len(completed) = N /\ Settled BY <1>0, <2>0, <3>3, AllRecorded
      <4>3. \A j \in Items : task'[j] = "ok"
        BY <1>0, <2>0, <3>1, <3>3, <4>2 DEF Recorded, Settled
      <4>. QED BY <4>1, <4>3 DEF GatherKnows
    <3>. QED BY <3>2, <3>3
  <2>. QED BY <2>1, <2>3, <2>4, <2>5
<1>6. CASE UNCHANGED vars BY <1>4, <1>6 DEF vars
<1>7. UNCHANGED <<gathered, seen>> \/ GatherCallback \/ UNCHANGED vars
  BY DEF Next, Start, WorkerEnds, TaskCancelled, MainReturns, MainFails, MainRaises, CancelMain
<1>. QED BY <1>4, <1>5, <1>6, <1>7

(* The main task only leaves the batch when everything has ended, and what *)
(* it raises is what the first gather raised.                              *)
LEMMA MainInductive == TypeOK /\ BatchInv /\ [Next]_vars => MainKnows'
<1>. SUFFICES ASSUME TypeOK, BatchInv, [Next]_vars PROVE MainKnows'
  OBVIOUS
<1>. USE DEF BatchInv, MainKnows
<1>0. /\ task \in [Items -> Pending \cup Ended]
      /\ main \in {"gathering", "draining", "returned", "raised"}
  BY DEF TypeOK
<1>1. ASSUME NEW i \in Items, Start(i) PROVE MainKnows'
  <2>1. main = "gathering" /\ ~requested BY <1>1 DEF Start
  <2>. QED BY <1>1, <2>1 DEF Start
<1>2. ASSUME NEW i \in Items, WorkerEnds(i) \/ TaskCancelled(i) PROVE MainKnows'
  <2>1. ~Settled BY <1>2 DEF WorkerEnds, TaskCancelled, Settled, Ended
  <2>2. \A j \in Items : task[j] # "queued" => task'[j] # "queued"
    BY <1>0, <1>2 DEF WorkerEnds, TaskCancelled, Ended
  <2>. QED BY <1>0, <1>2, <2>1, <2>2 DEF WorkerEnds, TaskCancelled
<1>3. CASE GatherCallback
  <2>1. gathered.outcome = "failed" => gathered' = gathered
    BY <1>3 DEF GatherCallback
  <2>. QED BY <1>3, <2>1 DEF GatherCallback, Settled
<1>4. CASE MainReturns
  <2>1. Settled BY <1>4 DEF MainReturns, GatherKnows, Settled, Ended
  <2>. QED BY <1>4, <2>1 DEF MainReturns, Settled, Ended
<1>5. CASE MainFails
  <2>1. \A i \in Items : task'[i] # "queued"
    BY <1>0, <1>5 DEF MainFails, CancelTasks
  <2>. QED BY <1>5, <2>1 DEF MainFails
<1>6. CASE MainRaises BY <1>6 DEF MainRaises, Settled
<1>7. CASE CancelMain
  <2>1. \A i \in Items : task[i] # "queued" => task'[i] # "queued"
    BY <1>0, <1>7 DEF CancelMain, CancelTasks
  <2>2. requested' => requested \/ \A i \in Items : task'[i] # "queued"
    BY <1>0, <1>7 DEF CancelMain, CancelTasks
  <2>. QED BY <1>7, <2>1, <2>2 DEF CancelMain
<1>8. CASE UNCHANGED vars BY <1>8 DEF vars, Settled
<1>. QED BY <1>1, <1>2, <1>3, <1>4, <1>5, <1>6, <1>7, <1>8 DEF Next

(* A worker is called in the step that makes its task run.                 *)
LEMMA CallsInductive == TypeOK /\ CallsKnown /\ [Next]_vars => CallsKnown'
<1>. SUFFICES ASSUME TypeOK, CallsKnown, [Next]_vars PROVE CallsKnown'
  OBVIOUS
<1>. USE DEF CallsKnown, TypeOK
<1>1. ASSUME NEW i \in Items, Start(i) PROVE CallsKnown' BY <1>1 DEF Start
<1>2. ASSUME NEW i \in Items, WorkerEnds(i) \/ TaskCancelled(i) PROVE CallsKnown'
  BY <1>2 DEF WorkerEnds, TaskCancelled, Ended
<1>3. CASE GatherCallback BY <1>3 DEF GatherCallback
<1>4. CASE MainReturns BY <1>4 DEF MainReturns
<1>5. CASE MainFails BY <1>5 DEF MainFails, CancelTasks
<1>6. CASE MainRaises BY <1>6 DEF MainRaises
<1>7. CASE CancelMain BY <1>7 DEF CancelMain, CancelTasks
<1>8. CASE UNCHANGED vars BY <1>8 DEF vars
<1>. QED BY <1>1, <1>2, <1>3, <1>4, <1>5, <1>6, <1>7, <1>8 DEF Next

(* Nothing has happened at the start, and an empty batch is over.          *)
LEMMA BatchInitially == Init => TypeOK /\ BatchInv
<1>. SUFFICES ASSUME Init PROVE TypeOK /\ BatchInv
  OBVIOUS
<1>1. completed \in Seq(Items) /\ Len(completed) = 0 BY DEF Init
<1>2. task \in [Items -> {"queued"}] BY DEF Init
<1>3. TypeOK
  <2>1. task \in [Items -> Pending \cup Ended] BY <1>2 DEF Pending
  <2>2. gathered \in [outcome : Outcome, item : 0 .. N]
    BY BatchAssumption DEF Init, Outcome
  <2>3. main \in {"returned", "gathering"} BY DEF Init
  <2>4. requested \in BOOLEAN /\ told \in BOOLEAN BY DEF Init
  <2>5. started \in SUBSET Items /\ seen \in 0 .. Len(completed) /\ raised \in 0 .. N
    BY <1>1, BatchAssumption DEF Init
  <2>. QED BY <1>1, <2>1, <2>2, <2>3, <2>4, <2>5 DEF TypeOK
<1>4. EndedItems = {} BY <1>2 DEF EndedItems, Ended
<1>5. Cardinality(EndedItems) = 0 BY <1>4, FS_EmptySet
<1>6. Recorded BY <1>1, <1>2, <1>5 DEF Recorded, Ended
<1>7. N = 0 => Items = {} BY DEF Items
<1>8. GatherKnows /\ CallsKnown BY DEF Init, GatherKnows, CallsKnown
<1>9. MainKnows BY <1>7, BatchAssumption DEF Init, MainKnows, Settled
<1>. QED BY <1>3, <1>6, <1>8, <1>9 DEF BatchInv

LEMMA BatchSafe == Spec => [](TypeOK /\ BatchInv)
<1>1. TypeOK /\ BatchInv /\ [Next]_vars => (TypeOK /\ BatchInv)'
  BY BatchTypeInductive, RecordedInductive, GatherInductive, MainInductive,
     CallsInductive DEF BatchInv
<1>. QED BY <1>1, BatchInitially, PTL DEF Spec

-----------------------------------------------------------------------------
(* No task outlives the call, for any number of items and slots and however *)
(* often it is cancelled.                                                  *)
THEOREM NoOrphansHolds == Spec => []NoOrphans
<1>1. BatchInv => NoOrphans BY DEF BatchInv, MainKnows, NoOrphans
<1>. QED BY <1>1, BatchSafe, PTL

(* The call raises the exception of the first item to fail.                *)
THEOREM FirstFailureHolds == Spec => []FirstFailureRaised
<1>1. BatchInv => FirstFailureRaised
  BY DEF BatchInv, MainKnows, GatherKnows, FirstFailure, FirstFailureRaised
<1>. QED BY <1>1, BatchSafe, PTL

(* No worker is called after the batch was cancelled or began to clean up. *)
THEOREM NoLateCallsHolds == Spec => NoLateCalls
<1>. DEFINE Calling == started' # started => main = "gathering" /\ ~requested
<1>1. TypeOK /\ BatchInv /\ [Next]_vars => [Calling]_vars
  <2>. SUFFICES ASSUME TypeOK, BatchInv, [Next]_vars, started' # started
                PROVE  main = "gathering" /\ ~requested
    OBVIOUS
  <2>1. PICK i \in Items : Start(i)
    BY DEF Next, WorkerEnds, TaskCancelled, GatherCallback, MainReturns, MainFails,
           MainRaises, CancelMain, vars
  <2>. QED BY <2>1 DEF Start, BatchInv, MainKnows
<1>. QED BY <1>1, BatchSafe, PTL DEF Spec, NoLateCalls

(* The whole of it: a batch, with its tasks, semaphore and gathers, does   *)
(* nothing but what BoundedBatch promises.                                 *)
THEOREM KeepsPromiseHolds == Spec => KeepsPromise
<1>. USE DEF TypeOK
<1>1. Init => Promise!BatchInit
  <2>. SUFFICES ASSUME Init PROVE Promise!BatchInit
    OBVIOUS
  <2>1. N = 0 <=> Items = {} BY BatchAssumption DEF Items
  <2>2. \A i \in Items : task[i] = "queued" BY DEF Init
  <2>3. InFlight = {} BY DEF Init, InFlight, Running
  <2>. QED BY <2>1, <2>2, <2>3 DEF Init, Promise!BatchInit, Ended
<1>2. TypeOK /\ BatchInv /\ [Next]_vars => [Promise!BatchNext]_(Promise!batchVars)
  <2>. SUFFICES ASSUME TypeOK, BatchInv, [Next]_vars
                PROVE  Promise!BatchNext \/ UNCHANGED Promise!batchVars
    OBVIOUS
  <2>. DEFINE over == main \in {"returned", "raised"}
  <2>0. over => Settled BY DEF BatchInv, MainKnows
  <2>a. ASSUME UNCHANGED <<started, main>>,
               \A i \in Items : /\ task'[i] \in Pending <=> task[i] \in Pending
                                /\ task[i] \in Ended => task'[i] = task[i]
        PROVE  UNCHANGED Promise!batchVars
    <3>1. InFlight' = InFlight BY <2>a DEF InFlight, Running
    <3>2. {i \in Items : task'[i] = "ok"} = {i \in Items : task[i] = "ok"}
      BY <2>a DEF Ended, Pending
    <3>3. {i \in Items : task'[i] \in Ended} = {i \in Items : task[i] \in Ended}
      BY <2>a DEF Ended, Pending
    <3>. QED BY <2>a, <3>1, <3>2, <3>3 DEF Promise!batchVars
  <2>1. ASSUME NEW i \in Items, Start(i) PROVE Promise!Begin(i)
    <3>1. ~over /\ i \notin started BY <2>0, <2>1 DEF Start, Settled, Ended, BatchInv, CallsKnown
    <3>2. InFlight' = InFlight \cup {i}
      BY <2>1 DEF Start, InFlight, Running, Pending
    <3>3. i \notin InFlight \cup {j \in Items : task[j] \in Ended}
      BY <2>1, <3>1 DEF Start, InFlight, Running, Ended
    <3>4. {j \in Items : task'[j] = "ok"} = {j \in Items : task[j] = "ok"}
      BY <2>1 DEF Start
    <3>5. {j \in Items : task'[j] \in Ended} = {j \in Items : task[j] \in Ended}
      BY <2>1 DEF Start, Ended
    <3>6. Cardinality(InFlight) < Concurrency /\ main' = main BY <2>1 DEF Start
    <3>7. Promise!Cardinality(InFlight) = Cardinality(InFlight)
      BY DEF Promise!Cardinality, Cardinality, Promise!IsFiniteSet, IsFiniteSet
    <3>. HIDE DEF TypeOK
    <3>. QED BY <3>1, <3>2, <3>3, <3>4, <3>5, <3>6, <3>7 DEF Promise!Begin
  <2>2. ASSUME NEW i \in Items, WorkerEnds(i) \/ TaskCancelled(i) PROVE Promise!End(i)
    <3>1. PICK end \in Ended : /\ task' = [task EXCEPT ![i] = end]
                               /\ end = "ok" => task[i] = "running"
      BY <2>2 DEF WorkerEnds, TaskCancelled, Ended
    <3>2. task[i] \in Pending /\ ~over /\ UNCHANGED <<started, main>>
      BY <2>0, <2>2 DEF WorkerEnds, TaskCancelled, Pending, Settled, Ended
    <3>3. InFlight' = InFlight \ {i}
      BY <3>1, <3>2 DEF InFlight, Running, Pending, Ended
    <3>4. {j \in Items : task'[j] \in Ended} = {j \in Items : task[j] \in Ended} \cup {i}
      BY <3>1
    <3>5. end # "ok" => {j \in Items : task'[j] = "ok"} = {j \in Items : task[j] = "ok"}
      BY <3>1, <3>2 DEF Pending
    <3>6. end = "ok" => /\ i \in InFlight
                        /\ {j \in Items : task'[j] = "ok"} = {j \in Items : task[j] = "ok"} \cup {i}
      BY <3>1, <3>2 DEF InFlight, Running, BatchInv, CallsKnown
    <3>7. i \notin {j \in Items : task[j] \in Ended} BY <3>2 DEF Pending, Ended
    <3>. QED BY <3>2, <3>3, <3>4, <3>5, <3>6, <3>7 DEF Promise!End
  <2>3. CASE GatherCallback BY <2>3, <2>a DEF GatherCallback
  <2>4. CASE MainReturns
    <3>1. {i \in Items : task[i] = "ok"} = Items
      BY <2>4 DEF MainReturns, BatchInv, GatherKnows
    <3>2. UNCHANGED <<task, started>> /\ main = "gathering" /\ main' = "returned"
      BY <2>4 DEF MainReturns
    <3>. QED BY <3>1, <3>2 DEF Promise!BatchNext, Promise!Return, InFlight, Running
  <2>5. CASE MainFails
    <3>1. \A i \in Items : /\ task'[i] \in Pending <=> task[i] \in Pending
                           /\ task[i] \in Ended => task'[i] = task[i]
      BY <2>5 DEF MainFails, CancelTasks, Pending, Ended
    <3>2. InFlight' = InFlight BY <2>5, <3>1 DEF MainFails, InFlight, Running
    <3>3. {i \in Items : task'[i] = "ok"} = {i \in Items : task[i] = "ok"}
      BY <3>1 DEF Ended, Pending
    <3>4. {i \in Items : task'[i] \in Ended} = {i \in Items : task[i] \in Ended}
      BY <3>1 DEF Ended, Pending
    <3>5. main = "gathering" /\ main' = "draining" BY <2>5 DEF MainFails
    <3>. QED BY <3>2, <3>3, <3>4, <3>5 DEF Promise!batchVars
  <2>6. CASE MainRaises
    <3>1. {i \in Items : task[i] \in Ended} = Items BY <2>6 DEF MainRaises, Settled
    <3>2. UNCHANGED <<task, started>> /\ main = "draining" /\ main' = "raised"
      BY <2>6 DEF MainRaises
    <3>. QED BY <3>1, <3>2 DEF Promise!BatchNext, Promise!Raise, InFlight, Running
  <2>7. CASE CancelMain
    <3>1. \A i \in Items : /\ task'[i] \in Pending <=> task[i] \in Pending
                           /\ task[i] \in Ended => task'[i] = task[i]
      BY <2>7 DEF CancelMain, CancelTasks, Pending, Ended
    <3>2. UNCHANGED <<started, main>> BY <2>7 DEF CancelMain
    <3>. QED BY <2>a, <3>1, <3>2
  <2>8. CASE UNCHANGED vars BY <2>8, <2>a DEF vars
  <2>. QED BY <2>1, <2>2, <2>3, <2>4, <2>5, <2>6, <2>7, <2>8 DEF Next, Promise!BatchNext
<1>. QED BY <1>1, <1>2, BatchSafe, PTL DEF Spec, KeepsPromise, Promise!BatchSpec

-----------------------------------------------------------------------------
(* Why a batch can end: gather has not heard of all tasks before it has an *)
(* outcome, and whoever cancels the tasks leaves none that runs on.        *)
GatherListens == main = "gathering" /\ gathered.outcome = "pending" => seen < N
CancelledStops == main = "draining" \/ requested => \A i \in Items : task[i] # "running"

LEMMA ListensInductive == TypeOK /\ GatherListens /\ [Next]_vars => GatherListens'
<1>. SUFFICES ASSUME TypeOK, GatherListens, [Next]_vars, main' = "gathering",
                     gathered'.outcome = "pending"
              PROVE  seen' < N
  BY DEF GatherListens
<1>0. seen \in Nat /\ N \in Nat
  BY BatchAssumption DEF TypeOK
<1>1. main = "gathering"
  BY DEF Next, Start, WorkerEnds, TaskCancelled, GatherCallback, MainReturns, MainFails,
         MainRaises, CancelMain, vars
<1>2. CASE GatherCallback
  <2>1. gathered.outcome = "pending"
    BY <1>2 DEF GatherCallback
  <2>2. seen + 1 \in 1 .. Len(completed) /\ completed[seen + 1] \in Items
    BY <1>0, <1>2 DEF GatherCallback, TypeOK
  <2>3. task[completed[seen + 1]] # "pending"
    BY <2>2 DEF TypeOK, Pending, Ended
  <2>4. seen' < N
    BY <1>2, <2>1, <2>3 DEF GatherCallback
  <2>. QED BY <2>4
<1>3. CASE ~GatherCallback
  <2>1. UNCHANGED <<seen, gathered>>
    BY <1>3 DEF Next, Start, WorkerEnds, TaskCancelled, MainReturns, MainFails,
                MainRaises, CancelMain, vars
  <2>. QED BY <1>1, <2>1 DEF GatherListens
<1>. QED BY <1>2, <1>3

LEMMA StopsInductive == TypeOK /\ BatchInv /\ CancelledStops /\ [Next]_vars => CancelledStops'
<1>. SUFFICES ASSUME TypeOK, BatchInv, CancelledStops, [Next]_vars PROVE CancelledStops'
  OBVIOUS
<1>. USE DEF CancelledStops
<1>0. task \in [Items -> Pending \cup Ended]
  BY DEF TypeOK
<1>1. ASSUME NEW i \in Items, Start(i) PROVE CancelledStops'
  <2>1. main # "draining" /\ ~requested
    BY <1>1 DEF Start, BatchInv, MainKnows
  <2>. QED BY <1>1, <2>1 DEF Start
<1>2. ASSUME NEW i \in Items, WorkerEnds(i) \/ TaskCancelled(i) PROVE CancelledStops'
  BY <1>0, <1>2 DEF WorkerEnds, TaskCancelled, Ended
<1>3. CASE GatherCallback \/ MainReturns \/ MainRaises
  BY <1>3 DEF GatherCallback, MainReturns, MainRaises
<1>4. CASE MainFails
  <2>1. \A i \in Items : task'[i] # "running"
    BY <1>0, <1>4 DEF MainFails, CancelTasks
  <2>. QED BY <2>1
<1>5. CASE CancelMain
  <2>1. CASE UNCHANGED <<task, requested>>
    BY <1>5, <2>1 DEF CancelMain
  <2>2. CASE CancelTasks
    <3>1. \A i \in Items : task'[i] # "running"
      BY <1>0, <2>2 DEF CancelTasks
    <3>. QED BY <3>1
  <2>. QED BY <1>5, <2>1, <2>2 DEF CancelMain
<1>6. CASE UNCHANGED vars BY <1>6 DEF vars
<1>. QED BY <1>1, <1>2, <1>3, <1>4, <1>5, <1>6 DEF Next

ReadyInv == GatherListens /\ CancelledStops

LEMMA ReadySafe == Spec => [](TypeOK /\ BatchInv /\ ReadyInv)
<1>1. Init => ReadyInv
  <2>1. N = 0 \/ 0 < N
    BY BatchAssumption
  <2>. QED BY <2>1 DEF Init, ReadyInv, GatherListens, CancelledStops
<1>2. TypeOK /\ BatchInv /\ ReadyInv /\ [Next]_vars => ReadyInv'
  BY ListensInductive, StopsInductive DEF ReadyInv
<1>. QED BY <1>1, <1>2, BatchSafe, PTL DEF Spec

(* If all tasks have ended, all are on record.                             *)
LEMMA SettledIsRecorded ==
  ASSUME TypeOK, Recorded, Settled
  PROVE  Len(completed) = N
<1>1. EndedItems = Items
  BY DEF EndedItems, Settled
<1>2. Cardinality(Items) = N
  BY BatchAssumption, FS_Interval DEF Items
<1>. QED BY <1>1, <1>2 DEF Recorded

(* Of some items that are queued one is at the head of the queue.          *)
LEMMA HeadOfQueue ==
  ASSUME NEW i \in Items, task[i] = "queued"
  PROVE  \E h \in Items : task[h] = "queued" /\ \A j \in 1 .. h - 1 : task[j] # "queued"
<1>1. Items \subseteq Nat /\ Queued \subseteq Nat /\ i \in Queued
  BY BatchAssumption DEF Items, Queued
<1>2. PICK h \in Queued : \A j \in Queued : <<j, h>> \notin OpToRel(<, Nat)
  BY <1>1, NatLessThanWellFounded, WFMin
<1>3. \A j \in Queued : ~(j < h)
  BY <1>1, <1>2, Zenon DEF OpToRel
<1>4. \A j \in 1 .. h - 1 : j \in Items /\ j < h
  BY <1>1, BatchAssumption DEF Items, Queued
<1>. QED BY <1>3, <1>4 DEF Queued

(* A batch that is still open and has nothing to do itself waits for an    *)
(* answer to a call it has made, and for nothing else: once one has failed *)
(* or somebody has cancelled, for none, for any number of items and slots. *)
THEOREM WaitsForAnswersHolds == Spec => []WaitsForAnswers
<1>1. TypeOK /\ BatchInv /\ ReadyInv => WaitsForAnswers
  <2>. SUFFICES ASSUME TypeOK, BatchInv, ReadyInv, main \in {"gathering", "draining"}, ~Ready
                PROVE  /\ main = "gathering" /\ ~requested
                       /\ InFlight # {}
                       /\ \A i \in Items : task[i] \in {"queued", "running", "ok"}
                       /\ (\E i \in Items : task[i] = "queued")
                            => Cardinality(InFlight) >= Concurrency
    BY DEF WaitsForAnswers
  <2>0. /\ task \in [Items -> Pending \cup Ended] /\ seen \in 0 .. Len(completed)
        /\ Len(completed) \in Nat /\ N \in Nat /\ Concurrency \in Nat \ {0}
        /\ \A p \in 1 .. Len(completed) : completed[p] \in Items
    BY BatchAssumption DEF TypeOK
  <2>1. /\ \A i \in Items : task[i] # "cancelling"
        /\ seen = Len(completed)
        /\ main = "gathering" => gathered.outcome = "pending"
        /\ main = "draining" => ~Settled
    BY <2>0 DEF Ready
  <2>2. ~Settled
    <3>1. CASE main = "gathering"
      BY <2>0, <2>1, <3>1, SettledIsRecorded DEF ReadyInv, GatherListens, BatchInv
    <3>. QED BY <2>1, <3>1
  <2>3. main = "gathering" /\ ~requested
    <3>. SUFFICES ASSUME main # "gathering" \/ requested PROVE FALSE
      OBVIOUS
    <3>1. \A i \in Items : task[i] \notin {"queued", "running", "cancelling"}
      BY <2>1 DEF ReadyInv, CancelledStops, BatchInv, MainKnows
    <3>. QED BY <2>0, <2>2, <3>1 DEF Settled, Pending
  <2>4. ASSUME NEW i \in Items PROVE task[i] \in {"queued", "running", "ok"}
    <3>1. CASE task[i] \in Ended
      <4>1. PICK p \in 1 .. Len(completed) : completed[p] = i
        BY <3>1 DEF BatchInv, Recorded
      <4>. QED BY <2>1, <2>3, <4>1 DEF BatchInv, GatherKnows
    <3>. QED BY <2>0, <2>1, <3>1 DEF Pending
  <2>5. (\E i \in Items : task[i] = "queued") => ~(Cardinality(InFlight) < Concurrency)
    BY HeadOfQueue DEF Ready
  <2>6. IsFiniteSet(InFlight) /\ Cardinality(InFlight) \in Nat
    <3>1. IsFiniteSet(Items)
      BY BatchAssumption, FS_Interval DEF Items
    <3>. QED BY <3>1, FS_Subset, FS_CardinalityType DEF InFlight
  <2>7. InFlight # {}
    <3>. SUFFICES ASSUME InFlight = {} PROVE FALSE
      OBVIOUS
    <3>1. Cardinality(InFlight) < Concurrency
      BY <2>0, FS_EmptySet
    <3>2. \A i \in Items : task[i] = "ok"
      BY <2>4, <2>5, <3>1 DEF InFlight, Running, Pending, BatchInv, CallsKnown
    <3>. QED BY <2>2, <3>2 DEF Settled, Ended
  <2>. QED BY <2>0, <2>3, <2>4, <2>5, <2>6, <2>7
<1>. QED BY <1>1, ReadySafe, PTL

(* What is left to do is counted in natural numbers.                       *)
Counted ==
  /\ IsFiniteSet(Queued) /\ Cardinality(Queued) \in Nat
  /\ Len(completed) \in 0 .. N /\ seen \in 0 .. N /\ Stage \in 0 .. 2
  /\ LeftToDo \in Nat

LEMMA LeftToDoIsNat == TypeOK /\ Recorded => Counted
<1>. SUFFICES ASSUME TypeOK, Recorded PROVE Counted
  OBVIOUS
<1>1. IsFiniteSet(Items) /\ Cardinality(Items) = N
  BY BatchAssumption, FS_Interval DEF Items
<1>2. IsFiniteSet(Queued) /\ Cardinality(Queued) \in Nat
  BY <1>1, FS_Subset, FS_CardinalityType DEF Queued
<1>3. Cardinality(EndedItems) <= N
  BY <1>1, FS_Subset DEF EndedItems
<1>4. Len(completed) \in 0 .. N /\ seen \in 0 .. N
  BY <1>3, BatchAssumption DEF Recorded, TypeOK
<1>5. Stage \in 0 .. 2
  BY DEF Stage
<1>. QED BY <1>2, <1>4, <1>5, BatchAssumption DEF Counted, LeftToDo

(* Every step but a cancellation of the caller brings the batch nearer to  *)
(* its end, and a cancellation takes it no further away.                   *)
THEOREM UsesUpHolds == Spec => UsesUp
<1>. DEFINE Less == /\ LeftToDo' \in Nat
                    /\ LeftToDo' < LeftToDo \/ (CancelMain /\ LeftToDo' <= LeftToDo)
<1>0. (TypeOK /\ Recorded)' => Counted'
  BY LeftToDoIsNat, PTL
<1>1. TypeOK /\ BatchInv /\ (TypeOK /\ BatchInv)' /\ [Next]_vars => [Less]_vars
  <2>. SUFFICES ASSUME TypeOK, BatchInv, TypeOK', BatchInv', Next PROVE Less
    OBVIOUS
  <2>0. Counted /\ N \in Nat
    BY LeftToDoIsNat, BatchAssumption DEF BatchInv
  <2>1. Counted'
    BY <1>0 DEF BatchInv
  <2>2. Queued' \subseteq Queued => Cardinality(Queued') <= Cardinality(Queued)
    BY <2>0, FS_Subset DEF Counted
  <2>. HIDE DEF Less
  <2>a. ASSUME Cardinality(Queued') + Stage' + seen + Len(completed)
                 < Cardinality(Queued) + Stage + seen' + Len(completed')
        PROVE  Less
    <3>. DEFINE q == Cardinality(Queued)   l == Len(completed)   s == seen   t == Stage
                d == Cardinality(Queued')  m == Len(completed')  r == seen'  u == Stage'
    <3>0. /\ N \in Nat
          /\ q \in Nat /\ l \in 0 .. N /\ s \in 0 .. N /\ t \in 0 .. 2
          /\ d \in Nat /\ m \in 0 .. N /\ r \in 0 .. N /\ u \in 0 .. 2
      BY <2>0, <2>1 DEF Counted
    <3>1. d + u + s + l < q + t + r + m
      BY <2>a
    <3>3. d + (N - m) + (N - r) + u < q + (N - l) + (N - s) + t
      <4>. HIDE DEF q, l, s, t, d, m, r, u
      <4>. QED BY <3>0, <3>1
    <3>4. LeftToDo' < LeftToDo
      BY <3>3 DEF LeftToDo
    <3>2. LeftToDo' \in Nat
      BY <2>1 DEF Counted
    <3>. QED BY <3>2, <3>4 DEF Less
  <2>3. ASSUME NEW i \in Items, Start(i) PROVE Less
    <3>1. i \in Queued /\ Queued' = Queued \ {i}
      BY <2>3 DEF Start, Queued, TypeOK, Pending
    <3>2. Cardinality(Queued') = Cardinality(Queued) - 1
      BY <2>0, <3>1, FS_RemoveElement DEF Counted
    <3>. QED BY <2>0, <2>a, <2>3, <3>2 DEF Counted, Start, Stage
  <2>4. ASSUME NEW i \in Items, WorkerEnds(i) \/ TaskCancelled(i) PROVE Less
    <3>1. Queued' \subseteq Queued
      BY <2>4 DEF WorkerEnds, TaskCancelled, Queued, TypeOK, Ended
    <3>2. Len(completed') = Len(completed) + 1 /\ UNCHANGED <<seen, Stage>>
      BY <2>4 DEF WorkerEnds, TaskCancelled, TypeOK, Stage
    <3>. QED BY <2>0, <2>1, <2>2, <2>a, <3>1, <3>2 DEF Counted
  <2>5. CASE GatherCallback
    <3>1. seen' = seen + 1 /\ UNCHANGED <<Queued, completed, Stage>>
      BY <2>5 DEF GatherCallback, Queued, Stage
    <3>. QED BY <2>0, <2>1, <2>a, <3>1 DEF Counted
  <2>6. CASE MainReturns \/ MainRaises \/ MainFails
    <3>1. Queued' \subseteq Queued
      BY <2>6 DEF MainReturns, MainRaises, MainFails, CancelTasks, Queued, TypeOK
    <3>2. Stage' < Stage /\ UNCHANGED <<seen, completed>>
      BY <2>6 DEF MainReturns, MainRaises, MainFails, Stage
    <3>. QED BY <2>0, <2>1, <2>2, <2>a, <3>1, <3>2 DEF Counted
  <2>7. CASE CancelMain
    <3>1. Queued' \subseteq Queued
      BY <2>7 DEF CancelMain, CancelTasks, Queued, TypeOK
    <3>2. UNCHANGED <<seen, completed, Stage>>
      BY <2>7 DEF CancelMain, Stage
    <3>3. LeftToDo' <= LeftToDo
      BY <2>0, <2>1, <2>2, <3>1, <3>2 DEF Counted, LeftToDo
    <3>. QED BY <2>1, <2>7, <3>3 DEF Counted, Less
  <2>. QED BY <2>3, <2>4, <2>5, <2>6, <2>7 DEF Next
<1>2. Spec => [](TypeOK /\ BatchInv)
  BY BatchSafe
<1>. QED BY <1>1, <1>2, PTL DEF Spec, UsesUp
=============================================================================
