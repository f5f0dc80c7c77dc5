-------------------------- MODULE NeighborHydration --------------------------
(***************************************************************************)
(* get_outgoing_neighbor_nodes and get_incoming_neighbor_nodes of          *)
(* src/rociadb_sdk/graph.py, beside the walks of PagedListing:             *)
(* _hydrate_neighbors follows the pages of one node's neighbors, guards    *)
(* against a server that repeats a cursor, and then fetches every neighbor *)
(* with a bounded batch of get_node calls, of which what module            *)
(* BoundedBatch promises is used.                                          *)
(***************************************************************************)
EXTENDS PagedListing

CONSTANTS
  HydrationPageSize,  \* _NEIGHBOR_HYDRATION_PAGE_SIZE
  Concurrency,        \* CONCURRENT_REQUESTS
  Repeats             \* may the server answer with the cursor it was given?

ASSUME HydrationAssumption ==
  /\ HydrationPageSize \in Nat \ {0}
  /\ Concurrency \in Nat \ {0}
  /\ Repeats \in BOOLEAN

VARIABLES
  repeated,  \* has the server repeated a cursor?
  calling,   \* neighbors whose get_node is under way, by their place in the list
  results    \* what _run_bounded has for each of them

hydrationVars == <<repeated, calling, results>>
vars == <<listingVars, hydrationVars>>

TypeOK ==
  /\ walk \in Walks \cup {"hydration"}
  /\ entry \in [Positions -> EntryState]
  /\ writes \in 0 .. MaxWrites
  /\ steady \subseteq {p \in Positions : Present(p)}
  /\ repeated \in BOOLEAN
  /\ cursor \in 0 .. MaxPosition
  /\ items \in Seq(Positions)
  /\ calling \subseteq Slots
  /\ results \in Seq(0 .. MaxPosition)
  /\ pc \in {"paging", "page_failed", "hydrating", "returned", "failed"}
  /\ pc = "hydrating" => Len(results) = Len(items)

Init ==
  /\ ListingInit(Walks \cup {"hydration"})
  /\ repeated = FALSE
  /\ calling = {}
  /\ results = <<>>

-----------------------------------------------------------------------------
(* Altered forms: a repeated cursor is followed; an offset in place of the *)
(* server's cursor.                                                        *)
NextPaginationCursorUnguarded(current, next) == next

NextPaginationCursorByOffset(current, next) ==
  IF next = None THEN None ELSE current + HydrationPageSize

(* _next_pagination_cursor: None ends the walk.                            *)
NextPaginationCursor(current, next) == IF next \in {None, current} THEN None ELSE next

(* The replies a server may give: the page behind the cursor; or, if it    *)
(* misbehaves, the cursor it was given, with that page or an older one.    *)
Replies ==
  {[from |-> cursor, next |-> c] : c \in NextCursors(cursor, HydrationPageSize)}
    \cup (IF Repeats /\ cursor # None
          THEN {[from |-> c, next |-> cursor] : c \in 0 .. cursor} ELSE {})

(* One turn of the loop: a page arrives, its items join the list, and only *)
(* then is its cursor looked at.                                           *)
FollowPage ==
  /\ pc = "paging" /\ walk = "hydration" /\ HydrationPageSize <= MaxPageSize
  /\ \E reply \in Replies :
       LET next == NextPaginationCursor(cursor, reply.next)
       IN  /\ \E page \in InOrder(PageItems(reply.from, HydrationPageSize)) :
                items' = items \o page
           /\ repeated' = (repeated \/ (reply.next # None /\ reply.next = cursor))
           /\ cursor' = IF next = None THEN cursor ELSE next
           /\ pc' = IF next = None THEN "hydrating" ELSE "paging"
  /\ results' = IF pc' = "hydrating" THEN [i \in Slots' |-> None] ELSE results
  /\ UNCHANGED <<walk, entry, writes, steady, calling>>

(* A listing that fails ends the call, and what was found is dropped.      *)
FollowFails ==
  /\ pc = "paging" /\ walk = "hydration"
  /\ pc' = "failed"
  /\ UNCHANGED <<walk, entry, writes, steady, cursor, items, hydrationVars>>

-----------------------------------------------------------------------------
(* The worker of the i-th neighbor calls get_node.                         *)
GetNode(i) ==
  /\ pc = "hydrating"
  /\ i \notin calling /\ results[i] = None
  /\ Cardinality(calling) < Concurrency
  /\ calling' = calling \cup {i}
  /\ UNCHANGED <<listingVars, repeated, results>>

(* Altered form: results are kept in the order in which they arrive.       *)
NodeAnsweredAppending(i) ==
  /\ pc = "hydrating" /\ i \in calling
  /\ calling' = calling \ {i}
  /\ \E k \in Slots : /\ results[k] = None
                      /\ \A l \in 1 .. k - 1 : results[l] # None
                      /\ results' = [results EXCEPT ![k] = items[i]]
  /\ UNCHANGED <<listingVars, repeated>>

(* The worker returns the NeighborNode of the i-th neighbor.               *)
NodeAnswered(i) ==
  /\ pc = "hydrating" /\ i \in calling
  /\ calling' = calling \ {i}
  /\ results' = [results EXCEPT ![i] = items[i]]
  /\ UNCHANGED <<listingVars, repeated>>

(* A status, a payload that does not decode, a decoder that raises: the    *)
(* batch gives up the other calls and raises.                              *)
NodeFails(i) ==
  /\ pc = "hydrating" /\ i \in calling
  /\ pc' = "failed"
  /\ calling' = {}
  /\ UNCHANGED <<walk, entry, writes, steady, cursor, items, repeated, results>>

(* Altered form: the answer that completes the results ends the batch.     *)
HydrationReturnsOnAnswer ==
  /\ pc = "hydrating" /\ Slots # {}
  /\ \A i \in Slots : results[i] # None
  /\ pc' = "returned"
  /\ UNCHANGED <<walk, entry, writes, steady, cursor, items, hydrationVars>>

(* Every neighbor has its node, also when there was none to fetch.         *)
HydrationReturns ==
  /\ pc = "hydrating"
  /\ \A i \in Slots : results[i] # None
  /\ pc' = "returned"
  /\ UNCHANGED <<walk, entry, writes, steady, cursor, items, hydrationVars>>

-----------------------------------------------------------------------------
Next == \/ ListingStep /\ UNCHANGED hydrationVars
        \/ FollowPage \/ FollowFails \/ HydrationReturns
        \/ \E i \in Slots : GetNode(i) \/ NodeAnswered(i) \/ NodeFails(i)

Spec == Init /\ [][Next]_vars

(* The event loop runs what is ready, and every RPC ends in the end.  A    *)
(* list is never longer than the index, with one more page if the server   *)
(* repeats a cursor, as FoundOnce says.                                    *)
Fairness ==
  /\ WF_vars(FollowPage \/ FollowFails)
  /\ WF_vars(HydrationReturns)
  /\ \A i \in 1 .. 2 * MaxPosition :
       /\ WF_vars(i \in Slots /\ GetNode(i))
       /\ WF_vars(i \in Slots /\ (NodeAnswered(i) \/ NodeFails(i)))

FairSpec == Spec /\ Fairness

-----------------------------------------------------------------------------
(* A walk that reached its end has found everything that was there         *)
(* throughout, behind empty and short pages too, whatever others create or *)
(* delete around it, and also what does not decode; unless a misbehaving   *)
(* server ended a hydration by repeating a cursor.                         *)
SteadyFound ==
  pc \in {"hydrating", "returned"} /\ ~repeated =>
    \A p \in steady : \E i \in Slots : items[i] = p

(* Nothing is found twice: pages do not overlap, whatever their sizes,     *)
(* however often one is asked for again, and also when an object behind    *)
(* the cursor is deleted and created again.  Only a server that repeats a  *)
(* cursor can give a hydration what it has, and then in the last page: the *)
(* guard against a repeated cursor comes one page late, and no more.       *)
FoundOnce ==
  \A i, j \in Slots : i < j /\ items[i] = items[j] =>
    repeated /\ j > Len(items) - HydrationPageSize

(* The result has a node for every neighbor, in the order of the listing,  *)
(* however the answers were ordered.                                       *)
ResultsInOrder == pc = "returned" /\ walk = "hydration" => results = items

(* Every step of a hydration uses up a finite supply, whatever pages the   *)
(* server gives and whatever others write in the meantime: a turn of the   *)
(* loop moves the cursor on or ends the loop, and the batch that follows   *)
(* has at most one neighbor per entry of the index and one more page, each *)
(* called once and answered once.                                          *)
Unanswered == {i \in Slots : results[i] = None}
HydrationLeft ==
  CASE pc = "paging" -> (MaxPosition - cursor) + 4 * MaxPosition + 2
    [] pc = "hydrating" -> Cardinality(Unanswered) + Cardinality(Unanswered \ calling) + 1
    [] OTHER -> 0
HydrationUsesUp ==
  [][walk = "hydration" =>
       /\ HydrationLeft' \in Nat
       /\ \/ HydrationLeft' < HydrationLeft
          \/ (\E p \in Positions : OtherWrites(p)) /\ HydrationLeft' = HydrationLeft]_vars

(* So does a walk that a caller makes: each page that arrives uses up one  *)
(* of the cursors that are left, or is the last one, and neither a page    *)
(* that fails, nor asking for it again, nor a write gives one back.        *)
PagesLeft == IF pc = "returned" THEN 0 ELSE MaxPosition + 1 - cursor
WalkUsesUp ==
  [][(walk \in Walks) =>
       /\ PagesLeft' \in Nat
       /\ \/ ListPage /\ PagesLeft' < PagesLeft
          \/ ~ListPage /\ PagesLeft' = PagesLeft]_vars

(* The call ends, even if the server repeats cursors.                      *)
HydrationEnds == walk = "hydration" => <>(pc \in {"returned", "failed"})
=============================================================================
