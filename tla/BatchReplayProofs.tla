-------------------------- MODULE BatchReplayProofs --------------------------
(***************************************************************************)
(* For any batch, any number of calls and any other writers: types; what a *)
(* method that returns has had applied; the order of create_document(); and *)
(* that with a request_id on every item calling again is safe.             *)
(***************************************************************************)
EXTENDS BatchReplay, TLAPS

USE ReplayAssumption

(* Every method is one of three kinds.                                     *)
Single == [stages |-> <<{Document}>>, keyed |-> {Document}]
LEMMA MethodKinds == Methods = {PutNodes, Single, CreateDocument}
  BY DEF Methods, PutNodes, AddEdges, PutNode, AddEdge, DeleteEdge, PutDocument,
         DeleteDocument, DeleteFile, UploadFile, UploadFileChunked, CreateDocument, Single

LEMMA MethodFacts ==
  ASSUME method \in Methods
  PROVE  /\ method.keyed \subseteq Items
         /\ Requested(method) \subseteq Items
<1>1. CASE method \in {PutNodes, Single}
  <2>1. PICK S \in SUBSET Items : method.stages = <<S>>
    BY <1>1 DEF PutNodes, Single
  <2>2. Requested(method) = S
    BY <2>1 DEF Requested
  <2>. QED BY <1>1, <2>2 DEF PutNodes, Single
<1>2. CASE method = CreateDocument
  <2>1. method.stages = <<{Document}, {Binding}>>
    BY <1>2 DEF CreateDocument
  <2>2. \A k \in 1 .. Len(method.stages) : method.stages[k] \subseteq Items
    BY <2>1
  <2>3. Requested(method) \subseteq Items
    BY <2>2 DEF Requested
  <2>. QED BY <1>2, <2>3 DEF CreateDocument
<1>. QED BY <1>1, <1>2, MethodKinds

-----------------------------------------------------------------------------
(* Every variable keeps its type.                                          *)
LEMMA TypeInductive == TypeOK /\ [Next]_vars => TypeOK'
<1>. SUFFICES ASSUME TypeOK, [Next]_vars PROVE TypeOK'
  OBVIOUS
<1>. USE DEF TypeOK
<1>1. CASE RejectPartialBinding BY <1>1 DEF RejectPartialBinding
<1>2. CASE RunBatch BY <1>2 DEF RunBatch
<1>3. CASE Finish BY <1>3 DEF Finish
<1>4. ASSUME NEW i \in Items, Call(i) PROVE TypeOK'
  <2>1. RequestId(i) \in RequestIds
    BY DEF RequestId, RequestIds
  <2>. QED BY <1>4, <2>1 DEF Call, Callable
<1>5. ASSUME NEW i \in Items, EncodeFails(i) \/ Fail(i) PROVE TypeOK'
  BY <1>5 DEF EncodeFails, Fail
<1>6. ASSUME NEW i \in Items, OtherWrites(i) PROVE TypeOK' BY <1>6 DEF OtherWrites
<1>7. ASSUME NEW r \in requests, Serve(r) PROVE TypeOK' BY <1>7 DEF Serve
<1>8. ASSUME NEW r \in requests, Lose(r) PROVE TypeOK' BY <1>8 DEF Lose
<1>9. CASE UNCHANGED vars BY <1>9 DEF vars
<1>. QED BY <1>1, <1>2, <1>3, <1>4, <1>5, <1>6, <1>7, <1>8, <1>9 DEF Next

THEOREM TypeCorrect == Spec => []TypeOK
<1>1. Init => TypeOK
  BY DEF Init, TypeOK
<1>. QED BY <1>1, TypeInductive, PTL DEF Spec

-----------------------------------------------------------------------------
(* What was answered, recorded or put behind another request was applied.  *)
Answered == \A i \in Items : item[i] = "ok" => applied[i] > 0
Recorded == /\ \A r \in requests : r.id[1] = r.item
            /\ \A id \in markers : applied[id[1]] > 0
BindingSent ==
  method = CreateDocument /\ (applied[Binding] > 0 \/ \E r \in requests : r.item = Binding)
    => applied[Document] > 0
AppliedInv == Answered /\ Recorded /\ DoneIsApplied /\ BindingSent

(* Applications are counted up, and never taken back.                      *)
LEMMA AppliedGrows ==
  ASSUME TypeOK, Next
  PROVE  \A i \in Items : applied'[i] \in Nat /\ applied'[i] >= applied[i]
<1>. USE DEF TypeOK
<1>1. CASE RejectPartialBinding \/ RunBatch \/ Finish
  BY <1>1 DEF RejectPartialBinding, RunBatch, Finish
<1>2. ASSUME NEW j \in Items, Call(j) \/ EncodeFails(j) \/ Fail(j) \/ OtherWrites(j)
      PROVE  UNCHANGED applied
  BY <1>2 DEF Call, EncodeFails, Fail, OtherWrites
<1>3. ASSUME NEW r \in requests, Serve(r)
      PROVE  \A i \in Items : applied'[i] \in Nat /\ applied'[i] >= applied[i]
  BY <1>3 DEF Serve
<1>4. ASSUME NEW r \in requests, Lose(r) PROVE UNCHANGED applied BY <1>4 DEF Lose
<1>. QED BY <1>1, <1>2, <1>3, <1>4 DEF Next

(* A call sent for the node of create_document() finds the document done.  *)
LEMMA BindingCalledLast ==
  ASSUME TypeOK, Answered, method = CreateDocument, Call(Binding)
  PROVE  applied[Document] > 0
<1>1. method.stages = <<{Document}, {Binding}>>
  BY DEF CreateDocument
<1>2. PICK k \in 1 .. 2 : /\ Binding \in method.stages[k]
                          /\ \A l \in 1 .. k - 1 : \A j \in method.stages[l] : item[j] = "ok"
  BY <1>1 DEF Call, Callable
<1>3. k = 2
  BY <1>1, <1>2
<1>4. item[Document] = "ok"
  BY <1>1, <1>2, <1>3
<1>. QED BY <1>4 DEF Answered

LEMMA AppliedInductive == TypeOK /\ AppliedInv /\ [Next]_vars => AppliedInv'
<1>. SUFFICES ASSUME TypeOK, AppliedInv, [Next]_vars PROVE AppliedInv'
  OBVIOUS
<1>. USE DEF AppliedInv
<1>. CASE UNCHANGED vars
  BY DEF vars, Answered, Recorded, DoneIsApplied, BindingSent
<1>. CASE Next
  <2>. USE AppliedGrows
  <2>. UNCHANGED method
    BY DEF Next, RejectPartialBinding, RunBatch, Finish, Call, EncodeFails, Fail,
           OtherWrites, Serve, Lose
  <2>1. ASSUME UNCHANGED <<item, batch, markers, applied>>, requests' \subseteq requests
        PROVE  AppliedInv'
    BY <2>1 DEF Answered, Recorded, DoneIsApplied, BindingSent
  <2>2. ASSUME RejectPartialBinding \/ RunBatch \/ \E i \in Items : EncodeFails(i) \/ Fail(i)
        PROVE  AppliedInv'
    BY <2>2 DEF RejectPartialBinding, RunBatch, EncodeFails, Fail,
                Answered, Recorded, DoneIsApplied, BindingSent
  <2>3. CASE Finish
    <3>1. \A i \in Requested(method) : i \in Items
      BY MethodFacts DEF TypeOK
    <3>2. DoneIsApplied'
      <4>1. \A i \in Requested(method) : applied[i] > 0
        BY <2>3, <3>1 DEF Finish, Answered
      <4>2. UNCHANGED applied
        BY <2>3 DEF Finish
      <4>. QED BY <4>1, <4>2 DEF DoneIsApplied, Requested
    <3>3. UNCHANGED <<item, requests, markers, applied>>
      BY <2>3 DEF Finish
    <3>4. Answered' /\ Recorded' /\ BindingSent'
      BY <3>3 DEF Answered, Recorded, BindingSent
    <3>. QED BY <3>2, <3>4
  <2>4. ASSUME NEW i \in Items, Call(i) PROVE AppliedInv'
    <3>1. Answered' /\ DoneIsApplied'
      BY <2>4 DEF Call, Callable, Answered, DoneIsApplied, TypeOK
    <3>2. Recorded'
      <4>1. RequestId(i)[1] = i
        BY DEF RequestId
      <4>. QED BY <2>4, <4>1 DEF Call, Recorded
    <3>3. BindingSent'
      <4>1. CASE i = Binding
        <5>1. method = CreateDocument => applied[Document] > 0
          BY <2>4, <4>1, BindingCalledLast
        <5>. QED BY <2>4, <5>1 DEF Call, BindingSent
      <4>2. CASE i # Binding
        <5>1. \A r \in requests' : r.item = Binding => r \in requests
          BY <2>4, <4>2 DEF Call
        <5>. QED BY <2>4, <5>1 DEF Call, BindingSent
      <4>. QED BY <4>1, <4>2
    <3>. QED BY <3>1, <3>2, <3>3
  <2>5. ASSUME NEW i \in Items, OtherWrites(i) PROVE AppliedInv'
    BY <2>1, <2>5 DEF OtherWrites
  <2>6. ASSUME NEW r \in requests, Lose(r) PROVE AppliedInv'
    BY <2>1, <2>6 DEF Lose
  <2>7. ASSUME NEW r \in requests, Serve(r) PROVE AppliedInv'
    <3>1. r.item \in Items /\ r.id[1] = r.item
      BY DEF TypeOK, Recorded
    <3>2. applied'[r.item] > 0
      BY <2>7, <3>1 DEF Serve, TypeOK, Recorded
    <3>3. Answered'
      BY <2>7, <3>1, <3>2 DEF Serve, Answered, TypeOK
    <3>4. Recorded'
      <4>1. \A q \in requests' : q.id[1] = q.item
        BY <2>7 DEF Serve, Recorded
      <4>2. \A id \in markers' : id \in markers \/ id = r.id
        BY <2>7 DEF Serve
      <4>3. \A id \in markers : id[1] \in Items
        BY DEF TypeOK, RequestIds
      <4>. QED BY <3>1, <3>2, <4>1, <4>2, <4>3 DEF Recorded, TypeOK
    <3>5. DoneIsApplied'
      <4>1. \A i \in Requested(method) : i \in Items
        BY MethodFacts DEF TypeOK
      <4>2. UNCHANGED batch
        BY <2>7 DEF Serve
      <4>3. batch = "done" => \A i \in Requested(method) : applied'[i] > 0
        BY <4>1 DEF DoneIsApplied, TypeOK
      <4>. QED BY <4>2, <4>3 DEF DoneIsApplied, Requested
    <3>6. BindingSent'
      <4>1. applied[Binding] > 0 \/ r.item = Binding \/ UNCHANGED applied \/ applied'[Binding] = applied[Binding]
        BY <2>7 DEF Serve, TypeOK
      <4>. QED BY <2>7, <4>1 DEF Serve, BindingSent, TypeOK
    <3>. QED BY <3>3, <3>4, <3>5, <3>6
  <2>. QED BY <2>2, <2>3, <2>4, <2>5, <2>6, <2>7 DEF Next
<1>. QED OBVIOUS

LEMMA AppliedSafe == Spec => []AppliedInv
<1>1. Init => TypeOK /\ AppliedInv
  <2>1. Init => TypeOK
    BY DEF Init, TypeOK
  <2>. QED BY <2>1 DEF Init, AppliedInv, Answered, Recorded, DoneIsApplied, BindingSent
<1>. QED BY <1>1, TypeInductive, AppliedInductive, PTL DEF Spec

(* A method that returns, after whatever calls failed before it, has had   *)
(* every item applied.                                                     *)
THEOREM DoneIsAppliedHolds == Spec => []DoneIsApplied
<1>1. AppliedInv => DoneIsApplied
  BY DEF AppliedInv
<1>. QED BY <1>1, AppliedSafe, PTL

(* create_document() never leaves a node without its document.             *)
THEOREM BindingHolds == Spec => []BindingFollowsDocument
<1>1. AppliedInv => BindingFollowsDocument
  BY DEF AppliedInv, BindingSent, BindingFollowsDocument
<1>. QED BY <1>1, AppliedSafe, PTL

-----------------------------------------------------------------------------
(* Requests of an item with an id of the caller's carry that id, which is  *)
(* recorded with the one time that the item is applied.                    *)
IdsStable ==
  /\ \A r \in requests : r.item \in Keyed => r.id = <<r.item, 0>>
  /\ \A i \in Keyed : /\ applied[i] <= 1
                      /\ applied[i] = 1 \/ written[i] # 0 => <<i, 0>> \in markers

(* The ids stay those of the items: every step that sends a request sends  *)
(* the caller's, and every step that writes records it.                    *)
LEMMA IdsStableInductive == TypeOK /\ IdsStable /\ [Next]_vars => IdsStable'
<1>. SUFFICES ASSUME TypeOK, IdsStable, [Next]_vars PROVE IdsStable'
  OBVIOUS
<1>. USE DEF IdsStable
<1>0. Keyed \subseteq Items /\ Keyed' = Keyed
  <2>1. UNCHANGED method
    BY DEF Next, RejectPartialBinding, RunBatch, Finish, Call, EncodeFails, Fail,
           OtherWrites, Serve, Lose, vars
  <2>. QED BY <2>1, MethodFacts DEF TypeOK, Keyed
<1>1. CASE RejectPartialBinding \/ RunBatch \/ Finish
  BY <1>0, <1>1 DEF RejectPartialBinding, RunBatch, Finish
<1>2. ASSUME NEW i \in Items, Call(i) PROVE IdsStable'
  <2>1. i \in Keyed => RequestId(i) = <<i, 0>>
    BY DEF RequestId, Keyed
  <2>. QED BY <1>0, <1>2, <2>1 DEF Call
<1>3. ASSUME NEW i \in Items, EncodeFails(i) \/ Fail(i) PROVE IdsStable'
  BY <1>0, <1>3 DEF EncodeFails, Fail
<1>4. ASSUME NEW i \in Items, OtherWrites(i) PROVE IdsStable'
  BY <1>0, <1>4 DEF OtherWrites, TypeOK
<1>5. ASSUME NEW r \in requests, Serve(r) PROVE IdsStable'
  <2>1. CASE r.id \in markers
    BY <1>0, <1>5, <2>1 DEF Serve
  <2>2. CASE r.id \notin markers
    <3>1. /\ \A i \in Items : i # r.item => applied'[i] = applied[i]
          /\ \A i \in Items : i # r.item /\ written'[i] # 0 => written[i] # 0
      <4>1. \A i \in Items : i # r.item => applied'[i] = applied[i]
        BY <1>5, <2>2 DEF Serve, TypeOK
      <4>2. \A i \in Items : i # r.item /\ written'[i] # 0 => written[i] # 0
        BY <1>5, <2>2 DEF Serve
      <4>. QED BY <4>1, <4>2
    <3>2. markers' = markers \cup {r.id} /\ requests' \subseteq requests
      BY <1>5, <2>2 DEF Serve
    <3>3. r.item \in Keyed => applied'[r.item] = 1 /\ <<r.item, 0>> \in markers'
      <4>. SUFFICES ASSUME r.item \in Keyed PROVE applied'[r.item] = 1 /\ <<r.item, 0>> \in markers'
        OBVIOUS
      <4>1. r.item \in Items /\ r.id = <<r.item, 0>>
        BY <1>0
      <4>2. applied[r.item] \in Nat /\ applied[r.item] <= 1 /\ applied[r.item] # 1
        BY <2>2, <4>1 DEF TypeOK
      <4>3. applied'[r.item] = 1
        BY <1>5, <2>2, <4>1, <4>2 DEF Serve, TypeOK
      <4>. QED BY <3>2, <4>1, <4>3
    <3>. QED BY <1>0, <3>1, <3>2, <3>3
  <2>. QED BY <2>1, <2>2
<1>6. ASSUME NEW r \in requests, Lose(r) PROVE IdsStable' BY <1>0, <1>6 DEF Lose
<1>7. CASE UNCHANGED vars BY <1>0, <1>7 DEF vars
<1>. QED BY <1>1, <1>2, <1>3, <1>4, <1>5, <1>6, <1>7 DEF Next

LEMMA IdsStableSafe == Spec => [](TypeOK /\ IdsStable)
<1>1. Init => TypeOK /\ IdsStable
  BY MethodFacts DEF Init, IdsStable, TypeOK, Keyed
<1>. QED BY <1>1, TypeInductive, IdsStableInductive, PTL DEF Spec

(* Items with an id of the caller's are applied exactly once by a method   *)
(* that returns, and at most once by one that does not, whatever is lost,  *)
(* late or called again.                                                   *)
THEOREM AppliedOnceHolds == Spec => []AppliedOnce
<1>1. IdsStable /\ DoneIsApplied => AppliedOnce
  BY DEF IdsStable, AppliedOnce
<1>. QED BY <1>1, IdsStableSafe, DoneIsAppliedHolds, PTL

(* No step puts an item that carries an id of the caller's back over what  *)
(* has been written over it; items without one do not disturb it.          *)
KeyedReplaySafe == [][\A i \in Keyed : written[i] = 2 => written'[i] = 2]_vars
THEOREM KeyedReplaySafeHolds == Spec => KeyedReplaySafe
<1>1. TypeOK /\ IdsStable /\ [Next]_vars
        => [\A i \in Keyed : written[i] = 2 => written'[i] = 2]_vars
  <2>. SUFFICES ASSUME TypeOK, IdsStable, Next
                PROVE  \A i \in Keyed : written[i] = 2 => written'[i] = 2
    OBVIOUS
  <2>. Keyed \subseteq Items
    BY MethodFacts DEF TypeOK, Keyed
  <2>1. CASE RejectPartialBinding \/ RunBatch \/ Finish
    BY <2>1 DEF RejectPartialBinding, RunBatch, Finish
  <2>2. ASSUME NEW j \in Items, Call(j) \/ EncodeFails(j) \/ Fail(j) PROVE UNCHANGED written
    BY <2>2 DEF Call, EncodeFails, Fail
  <2>3. ASSUME NEW j \in Items, OtherWrites(j)
        PROVE  \A i \in Keyed : written[i] = 2 => written'[i] = 2
    BY <2>3 DEF OtherWrites, TypeOK
  <2>4. ASSUME NEW r \in requests, Serve(r)
        PROVE  \A i \in Keyed : written[i] = 2 => written'[i] = 2
    <3>1. CASE r.id \in markers
      BY <2>4, <3>1 DEF Serve
    <3>2. CASE r.id \notin markers
      <4>1. r.item \in Keyed => written[r.item] = 0
        BY <3>2 DEF IdsStable
      <4>2. \A i \in Items : i # r.item /\ written[i] = 2 => written'[i] = 2
        BY <2>4, <3>2 DEF Serve
      <4>. QED BY <4>1, <4>2
    <3>. QED BY <3>1, <3>2
  <2>5. ASSUME NEW r \in requests, Lose(r) PROVE UNCHANGED written
    BY <2>5 DEF Lose
  <2>. QED BY <2>1, <2>2, <2>3, <2>4, <2>5 DEF Next
<1>. QED BY <1>1, IdsStableSafe, PTL DEF Spec, KeyedReplaySafe

(* With an id on every item, no call of the method overwrites what was     *)
(* written over one of its items.                                          *)
THEOREM ReplaySafeHolds ==
  ASSUME Explicit = Items
  PROVE  Spec => ReplaySafe
<1>1. TypeOK => method.keyed = Keyed
  BY MethodFacts DEF TypeOK, Keyed
<1>2. TypeOK /\ [\A i \in Keyed : written[i] = 2 => written'[i] = 2]_vars
        => [\A i \in method.keyed : written[i] = 2 => written'[i] = 2]_vars
  BY <1>1
<1>. QED BY <1>2, KeyedReplaySafeHolds, TypeCorrect, PTL DEF KeyedReplaySafe, ReplaySafe
=============================================================================
