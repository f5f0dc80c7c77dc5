----------------------------- MODULE BatchReplay -----------------------------
(***************************************************************************)
(* The writes of src/rociadb_sdk/graph.py, document.py and file.py made    *)
(* and made again after a failure, against a server that deduplicates on   *)
(* (tenant, operation, request_id).  A request that was sent may be served *)
(* late, also after the call that sent it was cancelled or the method      *)
(* called again, or never; another client writes the same nodes meanwhile. *)
(*                                                                         *)
(* Of _run_bounded only the outcome matters here (module RunBounded has    *)
(* the rest): calls in any order within the limit, and on a failure every  *)
(* call is given up.  The server and the network are outside src/; they    *)
(* are modelled as README.md describes them.                               *)
(***************************************************************************)
EXTENDS Naturals, Sequences, FiniteSets

CONSTANTS
  Items,        \* the NodeInputs of the batch, each its own PutNode request
  Document,     \* the one of them that stands for the request of a single write
  Binding,      \* and for the PutNode that create_document() adds
  Duplicates,   \* items of the batch that have the same node_id
  Explicit,     \* those whose request_id the caller supplied
  Concurrency,  \* CONCURRENT_REQUESTS
  MaxRounds,    \* bound on the number of times the method is called
  MaxOthers     \* bound on the writes of other clients

ASSUME ReplayAssumption ==
  /\ Document \in Items /\ Binding \in Items /\ Document # Binding
  /\ Explicit \subseteq Items
  /\ Duplicates \subseteq Items \ {Document}
  /\ Concurrency \in Nat \ {0}
  /\ MaxRounds \in Nat
  /\ MaxOthers \in Nat

VARIABLES
  method,    \* the method that is called
  round,     \* how often it has been called
  batch,     \* the call: idle, running, failed, rejected or done
  item,      \* state of each item in this round
  requests,  \* requests sent and not served yet
  markers,   \* request ids the server has recorded
  applied,   \* how often the server has applied each item
  written,   \* what each item wrote: 0 nothing yet, 1 it stands, 2 it was overwritten
  others     \* number of writes of other clients

vars == <<method, round, batch, item, requests, markers, applied, written, others>>

-----------------------------------------------------------------------------
(* The methods: the requests they make, stage after stage, and the ones    *)
(* that carry the request_id parameter.  An upload is one request, served  *)
(* if the stream arrives whole.                                            *)
PutNodes       == [stages |-> <<Items>>, keyed |-> Items]
AddEdges       == [stages |-> <<Items>>, keyed |-> Items]
PutNode        == [stages |-> <<{Document}>>, keyed |-> {Document}]
AddEdge        == [stages |-> <<{Document}>>, keyed |-> {Document}]
DeleteEdge     == [stages |-> <<{Document}>>, keyed |-> {Document}]
PutDocument    == [stages |-> <<{Document}>>, keyed |-> {Document}]
DeleteDocument == [stages |-> <<{Document}>>, keyed |-> {Document}]
DeleteFile     == [stages |-> <<{Document}>>, keyed |-> {Document}]
UploadFile     == [stages |-> <<{Document}>>, keyed |-> {Document}]
UploadFileChunked == [stages |-> <<{Document}>>, keyed |-> {Document}]

(* Altered form: document and node are written at the same time.           *)
CreateDocumentGathered == [stages |-> <<{Document, Binding}>>, keyed |-> {Document}]

(* The document first; the node gets an id of its own in every call.       *)
(* Without node_label it is PutDocument.                                   *)
CreateDocument == [stages |-> <<{Document}, {Binding}>>, keyed |-> {Document}]

Methods == {PutNodes, AddEdges, PutNode, AddEdge, DeleteEdge, PutDocument,
            DeleteDocument, DeleteFile, UploadFile, UploadFileChunked, CreateDocument}

Requested(mt) == UNION {mt.stages[k] : k \in 1 .. Len(mt.stages)}

(* A default id is made from a fresh uuid for every call, so it differs    *)
(* from round to round.                                                    *)
RequestIds == Items \X (0 .. MaxRounds)

TypeOK ==
  /\ method \in Methods
  /\ round \in 0 .. MaxRounds
  /\ batch \in {"idle", "running", "failed", "rejected", "done"}
  /\ item \in [Items -> {"queued", "calling", "ok"}]
  /\ requests \subseteq [item : Items, id : RequestIds, round : 0 .. MaxRounds]
  /\ markers \subseteq RequestIds
  /\ applied \in [Items -> Nat]
  /\ written \in [Items -> 0 .. 2]
  /\ others \in 0 .. MaxOthers

Init ==
  /\ method \in Methods
  /\ round = 0
  /\ batch = "idle"
  /\ item = [i \in Items |-> "queued"]
  /\ requests = {}
  /\ markers = {}
  /\ applied = [i \in Items |-> 0]
  /\ written = [i \in Items |-> 0]
  /\ others = 0

-----------------------------------------------------------------------------
(* The items whose requests carry an id that the caller supplied.          *)
Keyed == Explicit \cap method.keyed

(* Altered form: the id of an item is dropped, and every call makes one up. *)
AlwaysFreshId(i) == <<i, round>>

(* request_id if it is not None, else one with a fresh uuid4().            *)
RequestId(i) == IF i \in Keyed THEN <<i, 0>> ELSE <<i, round>>

Calling == {i \in Items : item[i] = "calling"}

(* node_label without node_graph, or the reverse: refused before any call. *)
RejectPartialBinding ==
  /\ method = CreateDocument /\ batch = "idle"
  /\ batch' = "rejected"
  /\ UNCHANGED <<method, round, item, requests, markers, applied, written, others>>

(* The method is called for the first time, or again after it raised.      *)
RunBatch ==
  /\ batch \in {"idle", "failed"}
  /\ round < MaxRounds
  /\ round' = round + 1
  /\ batch' = "running"
  /\ item' = [i \in Items |-> "queued"]
  /\ UNCHANGED <<method, requests, markers, applied, written, others>>

(* The items the method may turn to: those of a stage whose earlier stages *)
(* were answered, while a slot is free.                                    *)
Callable(i) ==
  /\ batch = "running" /\ item[i] = "queued"
  /\ Cardinality(Calling) < Concurrency
  /\ \E k \in 1 .. Len(method.stages) :
       /\ i \in method.stages[k]
       /\ \A l \in 1 .. k - 1 : \A j \in method.stages[l] : item[j] = "ok"

(* The request of an item is sent.                                         *)
Call(i) ==
  /\ Callable(i)
  /\ item' = [item EXCEPT ![i] = "calling"]
  /\ requests' = requests \cup {[item |-> i, id |-> RequestId(i), round |-> round]}
  /\ UNCHANGED <<method, round, batch, markers, applied, written, others>>

(* Its value is no JSON: RociaDbEncodeError, before the call is made.      *)
EncodeFails(i) ==
  /\ Callable(i)
  /\ batch' = "failed"
  /\ UNCHANGED <<method, round, item, requests, markers, applied, written, others>>

(* The server serves a request, once per id, and its answer arrives, too   *)
(* late if the call has been given up, or is lost.                         *)
SameNode(i, j) == {i, j} \subseteq Duplicates

Serve(r) ==
  /\ r \in requests
  /\ requests' = requests \ {r}
  /\ IF r.id \in markers
     THEN UNCHANGED <<markers, applied, written>>
     ELSE /\ markers' = markers \cup {r.id}
          /\ applied' = [applied EXCEPT ![r.item] = @ + 1]
          /\ written' = [i \in Items |->
               IF i = r.item THEN 1
               ELSE IF SameNode(i, r.item) /\ written[i] = 1 THEN 2 ELSE written[i]]
  /\ item' \in {item} \cup
       (IF batch = "running" /\ r.round = round /\ item[r.item] = "calling"
        THEN {[item EXCEPT ![r.item] = "ok"]} ELSE {})
  /\ UNCHANGED <<method, round, batch, others>>

(* A request that is lost on its way.                                      *)
Lose(r) ==
  /\ r \in requests
  /\ requests' = requests \ {r}
  /\ UNCHANGED <<method, round, batch, item, markers, applied, written, others>>

(* Altered form: the failed item is marked, and the batch goes on.         *)
FailItemOnly(i) ==
  /\ batch = "running" /\ item[i] = "calling"
  /\ item' = [item EXCEPT ![i] = "failed"]
  /\ UNCHANGED <<method, round, batch, requests, markers, applied, written, others>>

(* A call fails (a status, a deadline, a lost connection): the others are  *)
(* cancelled, what they sent stays under way, and the method raises.       *)
Fail(i) ==
  /\ batch = "running" /\ item[i] = "calling"
  /\ batch' = "failed"
  /\ UNCHANGED <<method, round, item, requests, markers, applied, written, others>>

(* Altered form: the call is over when no request is under way.            *)
FinishWhenIdle ==
  /\ batch = "running" /\ Calling = {}
  /\ batch' = "done"
  /\ UNCHANGED <<method, round, item, requests, markers, applied, written, others>>

Finish ==
  /\ batch = "running"
  /\ \A i \in Requested(method) : item[i] = "ok"
  /\ batch' = "done"
  /\ UNCHANGED <<method, round, item, requests, markers, applied, written, others>>

(* Another client replaces what an item has written.                       *)
OtherWrites(i) ==
  /\ others < MaxOthers
  /\ written[i] = 1
  /\ written' = [written EXCEPT ![i] = 2]
  /\ others' = others + 1
  /\ UNCHANGED <<method, round, batch, item, requests, markers, applied>>

Next == \/ RejectPartialBinding \/ RunBatch \/ Finish
        \/ \E i \in Items : Call(i) \/ EncodeFails(i) \/ Fail(i) \/ OtherWrites(i)
        \/ \E r \in requests : Serve(r) \/ Lose(r)

Spec == Init /\ [][Next]_vars

-----------------------------------------------------------------------------
(* Replaying is safe: what another client, or another item of the batch    *)
(* for the same node, wrote over an item stays, however often the method   *)
(* is called and however late a request of an earlier call is served.  It  *)
(* is not claimed of the node that create_document() binds.                *)
ReplaySafe == [][\A i \in method.keyed : written[i] = 2 => written'[i] = 2]_vars

(* A method that returns has had every item of it applied, in this call or *)
(* an earlier one.                                                         *)
DoneIsApplied == batch = "done" => \A i \in Requested(method) : applied[i] > 0

(* Besides, an item that carries an id of the caller's is never applied    *)
(* twice, however many requests for it were sent: a method that returns    *)
(* has had it applied exactly once.                                        *)
AppliedOnce == /\ DoneIsApplied
               /\ \A i \in Keyed : applied[i] <= 1

(* create_document() never leaves a node that points to a document it has  *)
(* not written, whatever fails or is late.                                 *)
BindingFollowsDocument ==
  method = CreateDocument /\ applied[Binding] > 0 => applied[Document] > 0
=============================================================================
