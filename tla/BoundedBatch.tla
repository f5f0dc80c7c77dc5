---------------------------- MODULE BoundedBatch ----------------------------
(***************************************************************************)
(* What _run_bounded of src/rociadb_sdk/client.py promises, without tasks, *)
(* semaphore or gather: calls begin and end while the batch is open, never *)
(* more than Concurrency at a time; the batch only closes when no call is  *)
(* running, with the results if every call succeeded and otherwise with an *)
(* exception, and nothing happens afterwards.                              *)
(***************************************************************************)
EXTENDS Naturals, FiniteSets

CONSTANTS Items, Concurrency

VARIABLES
  calling,    \* items whose call is running
  succeeded,  \* items whose call returned a value
  ended,      \* items that will not be called (again)
  outcome     \* of the batch: "open", "returned" or "raised"

batchVars == <<calling, succeeded, ended, outcome>>

BatchInit ==
  /\ calling = {}
  /\ succeeded = {}
  /\ ended = {}
  /\ outcome = IF Items = {} THEN "returned" ELSE "open"

Begin(i) ==
  /\ outcome = "open"
  /\ i \in Items \ (calling \cup ended)
  /\ Cardinality(calling) < Concurrency
  /\ calling' = calling \cup {i}
  /\ UNCHANGED <<succeeded, ended, outcome>>

(* A call ends with a value or without, and an item may be given up before *)
(* its call began.                                                         *)
End(i) ==
  /\ outcome = "open"
  /\ i \in Items \ ended
  /\ calling' = calling \ {i}
  /\ ended' = ended \cup {i}
  /\ succeeded' \in {succeeded} \cup (IF i \in calling THEN {succeeded \cup {i}} ELSE {})
  /\ UNCHANGED outcome

Return == /\ outcome = "open" /\ succeeded = Items
          /\ outcome' = "returned"
          /\ UNCHANGED <<calling, succeeded, ended>>

Raise == /\ outcome = "open" /\ ended = Items
         /\ outcome' = "raised"
         /\ UNCHANGED <<calling, succeeded, ended>>

BatchNext == (\E i \in Items : Begin(i) \/ End(i)) \/ Return \/ Raise

BatchSpec == BatchInit /\ [][BatchNext]_batchVars
=============================================================================
