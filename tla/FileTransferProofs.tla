------------------------- MODULE FileTransferProofs -------------------------
(***************************************************************************)
(* Downloads beside an upload, for every size of file and of chunk.        *)
(***************************************************************************)
EXTENDS FileTransfer, UploadStreamProofs, WellFoundedInduction

(* Downloads do not disturb the upload: the composition is a run of        *)
(* UploadStream, with all that holds of one.                               *)
THEOREM UploadUndisturbed == TransferSpec => Spec
<1>1. TransferInit => Init
  BY DEF TransferInit
<1>2. [TransferNext]_transferVars => [Next]_vars
  BY DEF TransferNext, UploadStep, FileDeleted, DownloadStep, BeginDownload, YieldChunk, NextChunk,
         DownloadEnds, DownloadFails, CancelledAwaiting, AcloseGenerator, StopIterating,
         FinalizeGenerator, transferVars
<1>. QED BY <1>1, <1>2, PTL DEF TransferSpec, Spec

-----------------------------------------------------------------------------
(* A whole file is the older one, or the one whose upload is complete.     *)
IsFile(chunks) ==
  /\ chunks \in Seq(Nat) \cup {NoFile}
  /\ \/ chunks \in {NoFile, OlderFile}
     \/ pc = "complete" /\ Total(chunks) = size_bytes

(* The invariant: what is stored and what is sent are whole files, what    *)
(* was yielded is a prefix of what is sent, and the call is open exactly   *)
(* while the generator is inside its `try`.                                *)
Reading ==
  /\ pieces \in Seq(Nat)
  /\ generator = "created" => pieces = <<>> /\ dl_call = "none"
  /\ generator \in {"awaiting", "yielded"} /\ offered # NoFile =>
       /\ Len(pieces) <= Len(offered)
       /\ \A k \in 1 .. Len(pieces) : pieces[k] = offered[k]
Inside ==
  /\ dl_call = "open" <=> generator \in {"awaiting", "yielded", "dropped"}
  /\ consumer = "iterating" <=> generator \in {"created", "awaiting", "yielded"}
  /\ generator = "dropped" => consumer = "stopped"
  /\ consumer = "stopped" => generator = "dropped" \/ dl_call = "cancelled"
TransferInv == IsFile(stored) /\ IsFile(offered) /\ Reading /\ Inside /\ DownloadIsWhole

(* An upload that is complete stays so, and every upload keeps its size.   *)
LEMMA CompleteIsFinal ==
  ASSUME [Next]_vars PROVE size_bytes' = size_bytes /\ (pc = "complete" => pc' = "complete")
  BY DEF Next, BeginUpload, SendChunk, BufferSent, NextPiece, SendFull, SendFullOverflows, SendRest,
         SendRestOverflows, Finish, Abort, Suspended, vars, streamVars

LEMMA ChunksType == TypeOK => Chunks(sent) \in Seq(Nat)
<1>. SUFFICES ASSUME TypeOK PROVE Chunks(sent) \in Seq(Nat)
  OBVIOUS
<1>1. sent \in Seq(Message)
  BY DEF TypeOK, Message
<1>2. ASSUME NEW k \in 1 .. Len(sent) PROVE sent[k].bytes \in Nat
  <2>1. sent[k] \in Message
    BY <1>1
  <2>. QED BY <2>1 DEF Message
<1>. QED BY <1>1, <1>2 DEF Chunks

(* What does not touch the download keeps the invariant, if what is stored *)
(* remains a whole file.                                                   *)
LEMMA StoreStep ==
  ASSUME TransferInv, UNCHANGED downloadVars, [Next]_vars, IsFile(stored)'
  PROVE  TransferInv'
<1>1. IsFile(offered)'
  BY CompleteIsFinal DEF TransferInv, IsFile, downloadVars
<1>2. Reading' /\ Inside'
  BY DEF TransferInv, Reading, Inside, downloadVars
<1>3. DownloadIsWhole'
  BY CompleteIsFinal DEF TransferInv, DownloadIsWhole, ReadWhole, downloadVars
<1>. QED BY <1>1, <1>2, <1>3 DEF TransferInv

LEMMA DownloadStepInv == ASSUME TransferInv, DownloadStep PROVE TransferInv'
<1>0. UNCHANGED <<stored, pc, size_bytes>>
  BY DEF DownloadStep, BeginDownload, YieldChunk, NextChunk, DownloadEnds, DownloadFails,
         CancelledAwaiting, AcloseGenerator, StopIterating, FinalizeGenerator, vars, streamVars
<1>1. IsFile(stored)' /\ IsFile(offered)'
  <2>1. offered' = offered \/ offered' = stored
    BY DEF DownloadStep, BeginDownload, YieldChunk, NextChunk, DownloadEnds, DownloadFails,
           CancelledAwaiting, AcloseGenerator, StopIterating, FinalizeGenerator
  <2>. QED BY <1>0, <2>1 DEF TransferInv, IsFile
<1>2. Inside'
  BY DEF DownloadStep, BeginDownload, YieldChunk, NextChunk, DownloadEnds, DownloadFails,
         CancelledAwaiting, AcloseGenerator, StopIterating, FinalizeGenerator, LeaveGenerator,
         TransferInv, Inside
<1>3. Reading'
  <2>1. CASE BeginDownload
    BY <1>1, <2>1 DEF BeginDownload, TransferInv, Reading, IsFile
  <2>2. CASE YieldChunk
    <3>. DEFINE n == Len(pieces) + 1
    <3>1. /\ offered \in Seq(Nat) /\ n <= Len(offered) /\ offered' = offered /\ offered # NoFile
          /\ pieces \in Seq(Nat) /\ \A k \in 1 .. Len(pieces) : pieces[k] = offered[k]
          /\ pieces' = Append(pieces, offered[n]) /\ generator' = "yielded"
      BY <2>2 DEF YieldChunk, TransferInv, Reading, IsFile
    <3>2. offered[n] \in Nat
      BY <3>1
    <3>3. /\ pieces' \in Seq(Nat) /\ Len(pieces') = n /\ pieces'[n] = offered[n]
          /\ \A k \in 1 .. Len(pieces) : pieces'[k] = pieces[k]
      BY <3>1, <3>2
    <3>. QED BY <3>1, <3>3 DEF Reading
  <2>3. CASE NextChunk
    BY <2>3 DEF NextChunk, TransferInv, Reading
  <2>4. CASE \/ DownloadEnds \/ DownloadFails \/ CancelledAwaiting \/ AcloseGenerator
             \/ StopIterating \/ FinalizeGenerator
    BY <2>4 DEF DownloadEnds, DownloadFails, CancelledAwaiting, AcloseGenerator, StopIterating,
                FinalizeGenerator, LeaveGenerator, TransferInv, Reading
  <2>. QED BY <2>1, <2>2, <2>3, <2>4 DEF DownloadStep
<1>4. DownloadIsWhole'
  <2>1. CASE DownloadEnds
    <3>1. /\ offered # NoFile /\ Len(pieces) = Len(offered) /\ pieces' = pieces
          /\ pieces \in Seq(Nat) /\ offered \in Seq(Nat)
          /\ \A k \in 1 .. Len(pieces) : pieces[k] = offered[k]
      BY <2>1 DEF DownloadEnds, TransferInv, Reading, IsFile
    <3>2. pieces = offered
      BY <3>1, SeqEqual
    <3>. QED BY <1>0, <3>1, <3>2 DEF TransferInv, IsFile, DownloadIsWhole, ReadWhole
  <2>2. CASE BeginDownload \/ YieldChunk \/ NextChunk \/ StopIterating
    BY <2>2 DEF BeginDownload, YieldChunk, NextChunk, StopIterating, DownloadIsWhole, ReadWhole,
                TransferInv, Inside
  <2>3. CASE DownloadFails \/ CancelledAwaiting
    BY <2>3 DEF DownloadFails, CancelledAwaiting, DownloadIsWhole, ReadWhole
  <2>4. CASE AcloseGenerator
    BY <2>4 DEF AcloseGenerator, LeaveGenerator, DownloadIsWhole, ReadWhole, TransferInv, Inside, Reading
  <2>5. CASE FinalizeGenerator
    BY <2>5 DEF FinalizeGenerator, DownloadIsWhole, ReadWhole, TransferInv, Inside
  <2>. QED BY <2>1, <2>2, <2>3, <2>4, <2>5 DEF DownloadStep
<1>. QED BY <1>1, <1>2, <1>3, <1>4 DEF TransferInv

LEMMA TransferInvInductive ==
  TypeOK /\ TransferInv /\ [TransferNext]_transferVars => TransferInv'
<1>. SUFFICES ASSUME TypeOK, TransferInv, [TransferNext]_transferVars PROVE TransferInv'
  OBVIOUS
<1>1. CASE UploadStep
  <2>1. [Next]_vars /\ UNCHANGED downloadVars
    BY <1>1 DEF UploadStep
  <2>2. stored' = stored \/ (pc' = "complete" /\ Accepted(sent) /\ stored' = Chunks(sent))
    BY <1>1 DEF UploadStep
  <2>3. IsFile(stored)'
    <3>1. CASE stored' = stored
      BY <2>1, <3>1, CompleteIsFinal DEF TransferInv, IsFile
    <3>2. CASE pc' = "complete" /\ Accepted(sent) /\ stored' = Chunks(sent)
      BY <2>1, <3>2, CompleteIsFinal, ChunksType DEF IsFile, Accepted
    <3>. QED BY <2>2, <3>1, <3>2
  <2>. QED BY <2>1, <2>3, StoreStep
<1>2. CASE FileDeleted
  <2>1. [Next]_vars /\ UNCHANGED downloadVars /\ stored' = NoFile
    BY <1>2 DEF FileDeleted
  <2>. QED BY <2>1, StoreStep DEF IsFile
<1>3. CASE DownloadStep
  BY <1>3, DownloadStepInv
<1>4. CASE UNCHANGED transferVars
  <2>1. [Next]_vars /\ UNCHANGED downloadVars /\ UNCHANGED <<stored, pc, size_bytes>>
    BY <1>4 DEF transferVars, vars, streamVars
  <2>. QED BY <2>1, StoreStep DEF IsFile, TransferInv
<1>. QED BY <1>1, <1>2, <1>3, <1>4 DEF TransferNext

LEMMA TransferSafe == TransferSpec => []TransferInv
<1>1. TransferInit => TransferInv
  BY TransferAssumption DEF TransferInit, TransferInv, IsFile, Reading, Inside, DownloadIsWhole, ReadWhole
<1>2. TypeOK /\ TransferInv /\ [TransferNext]_transferVars => TransferInv'
  BY TransferInvInductive
<1>3. TransferSpec => []TypeOK
  BY UploadUndisturbed, UploadSafe, PTL
<1>. QED BY <1>1, <1>2, <1>3, PTL DEF TransferSpec

(* A download that ends without an exception has read one whole file.      *)
THEOREM DownloadIsWholeHolds == TransferSpec => []DownloadIsWhole
<1>1. TransferInv => DownloadIsWhole
  BY DEF TransferInv
<1>. QED BY <1>1, TransferSafe, PTL

(* A consumer that is back from the generator has left no call open.       *)
THEOREM CallReleasedHolds == TransferSpec => []CallReleased
<1>1. TransferInv => CallReleased
  BY DEF TransferInv, Inside, CallReleased
<1>. QED BY <1>1, TransferSafe, PTL

(* After a `break` nothing but the finalizer stands between an open call   *)
(* and its end: the safety part of StoppedIsCancelled.                     *)
THEOREM StoppedIsHeardHolds == TransferSpec => []StoppedIsHeard
<1>1. TransferInv => StoppedIsHeard
  BY DEF TransferInv, Inside, StoppedIsHeard
<1>. QED BY <1>1, TransferSafe, PTL

(* What upload_file() sends depends on the size alone.                     *)
LEMMA SameInMemory == ASSUME UNCHANGED size_bytes PROVE UNCHANGED InMemory
<1>1. ChunkUploadRequests(size_bytes)' = ChunkUploadRequests(size_bytes)
  BY Zenon DEF ChunkUploadRequests
<1>. QED BY <1>1, Zenon DEF InMemory, Chunks

(* An upload is over once; what it would replace the file by stays the     *)
(* same; and it replaces the file by that and by nothing else.             *)
LEMMA UploadIsOver ==
  ASSUME [Next]_vars
  PROVE  /\ InMemory' = InMemory
         /\ UploadStage' # UploadStage =>
              UploadStage = "open" /\ UploadStage' \in {"sent", "given_up"}
         /\ pc # "complete" /\ pc' = "complete" => sent' = sent
<1>1. InMemory' = InMemory
  BY CompleteIsFinal, SameInMemory
<1>2. pc' = pc \/ (pc \notin UploadEnded /\ (pc' = "complete" => sent' = sent))
  BY DEF Next, BeginUpload, SendChunk, BufferSent, NextPiece, SendFull, SendFullOverflows, SendRest,
         SendRestOverflows, Finish, Abort, Suspended, UploadEnded, vars, streamVars
<1>. QED BY <1>1, <1>2 DEF UploadStage, UploadEnded

LEMMA UploadStepStore ==
  ASSUME UploadStep, SameAsInMemory' PROVE [Store!StoreNext]_(Store!storeVars)
<1>1. Next /\ UNCHANGED downloadVars
  BY DEF UploadStep
<1>2. UNCHANGED <<offered, DownloadStage, Result>>
  BY <1>1 DEF downloadVars, DownloadStage, Result, ReadWhole
<1>3. stored' = stored \/ (UploadStage # "sent" /\ UploadStage' = "sent" /\ stored' = InMemory)
  <2>1. CASE stored' = stored
    BY <2>1
  <2>2. CASE pc # "complete" /\ pc' = "complete" /\ stored' = Chunks(sent)
    <3>1. sent = ChunkUploadRequests(size_bytes)
      BY <1>1, <2>2, UploadIsOver, CompleteIsFinal DEF SameAsInMemory, ChunkUploadRequests
    <3>. QED BY <2>2, <3>1 DEF InMemory, UploadStage
  <2>. QED BY <2>1, <2>2 DEF UploadStep
<1>4. CASE UploadStage' = "sent" /\ UploadStage = "open"
  BY <1>1, <1>2, <1>3, <1>4, UploadIsOver DEF Store!StoreNext, Store!Put
<1>5. CASE UploadStage' = "given_up" /\ UploadStage = "open"
  BY <1>1, <1>2, <1>3, <1>5, UploadIsOver DEF Store!StoreNext, Store!GiveUpUpload
<1>6. CASE UploadStage' = UploadStage
  BY <1>1, <1>2, <1>3, <1>6, UploadIsOver DEF Store!storeVars
<1>. QED BY <1>1, <1>4, <1>5, <1>6, UploadIsOver

LEMMA DownloadStepStore ==
  ASSUME TransferInv, DownloadStep PROVE [Store!StoreNext]_(Store!storeVars)
<1>1. UNCHANGED <<stored, InMemory, UploadStage>>
  <2>1. UNCHANGED <<stored, pc, size_bytes>>
    BY DEF DownloadStep, BeginDownload, YieldChunk, NextChunk, DownloadEnds, DownloadFails,
           CancelledAwaiting, AcloseGenerator, StopIterating, FinalizeGenerator, vars, streamVars
  <2>. QED BY <2>1, SameInMemory DEF UploadStage
<1>. USE DEF DownloadStage, Result, ReadWhole
<1>2. CASE BeginDownload
  BY <1>1, <1>2 DEF BeginDownload, Store!StoreNext, Store!BeginRead
<1>3. CASE DownloadEnds
  <2>1. offered # NoFile /\ pieces = offered
    <3>1. /\ offered # NoFile /\ Len(pieces) = Len(offered)
          /\ pieces \in Seq(Nat) /\ offered \in Seq(Nat)
          /\ \A k \in 1 .. Len(pieces) : pieces[k] = offered[k]
      BY <1>3 DEF DownloadEnds, TransferInv, Reading, IsFile
    <3>. QED BY <3>1, SeqEqual
  <2>. QED BY <1>1, <1>3, <2>1 DEF DownloadEnds, TransferInv, Inside, Store!StoreNext, Store!EndRead,
                                  NoFile, Store!NoFile
<1>4. CASE YieldChunk \/ NextChunk \/ FinalizeGenerator
  BY <1>1, <1>4 DEF YieldChunk, NextChunk, FinalizeGenerator, TransferInv, Inside, Store!storeVars
<1>5. CASE DownloadFails \/ CancelledAwaiting \/ StopIterating \/ AcloseGenerator
  <2>1. DownloadStage \in {"idle", "reading"} /\ DownloadStage' = "given_up"
    BY <1>5 DEF DownloadFails, CancelledAwaiting, StopIterating, AcloseGenerator, LeaveGenerator,
                TransferInv, Inside, Reading
  <2>2. UNCHANGED <<offered, Result>>
    BY <1>5 DEF DownloadFails, CancelledAwaiting, StopIterating, AcloseGenerator, LeaveGenerator,
                TransferInv, Inside, Reading
  <2>. QED BY <1>1, <2>1, <2>2 DEF Store!StoreNext, Store!GiveUpRead
<1>. QED BY <1>2, <1>3, <1>4, <1>5 DEF DownloadStep

(* Uploads and downloads together implement a file that is replaced and    *)
(* read as a whole, for any sizes of messages, pieces and files.           *)
THEOREM KeepsStoreHolds == TransferSpec => KeepsStore
<1>1. TypeOK /\ TransferInit => Store!StoreInit
  <2>. SUFFICES ASSUME TypeOK, TransferInit PROVE Store!StoreInit
    OBVIOUS
  <2>1. InMemory \in Seq(Nat)
    <3>1. size_bytes \in Nat
      BY UploadAssumption DEF TypeOK
    <3>. DEFINE w == ChunkUploadRequests(size_bytes)
    <3>2. w \in Seq(Message)
      BY <3>1, ChunkFacts
    <3>. HIDE DEF w
    <3>3. ASSUME NEW k \in 1 .. Len(w) PROVE w[k].bytes \in Nat
      <4>1. w[k] \in Message
        BY <3>2
      <4>. QED BY <4>1 DEF Message
    <3>4. Chunks(w) \in Seq(Nat)
      BY <3>2, <3>3 DEF Chunks
    <3>. QED BY <3>4 DEF InMemory, w
  <2>. QED BY <2>1, TransferAssumption DEF TransferInit, Init, Store!StoreInit, Store!Files, UploadStage,
              UploadEnded, DownloadStage, ReadWhole, Result, NoFile, Store!NoFile
<1>2. TransferInv /\ SameAsInMemory' /\ [TransferNext]_transferVars
        => [Store!StoreNext]_(Store!storeVars)
  <2>. SUFFICES ASSUME TransferInv, SameAsInMemory', [TransferNext]_transferVars
                PROVE  [Store!StoreNext]_(Store!storeVars)
    OBVIOUS
  <2>1. CASE FileDeleted
    BY <2>1, SameInMemory DEF FileDeleted, vars, streamVars, downloadVars,
                UploadStage, DownloadStage, ReadWhole, Result, NoFile, Store!NoFile,
                Store!StoreNext, Store!Delete
  <2>2. CASE UNCHANGED transferVars
    BY <2>2, SameInMemory DEF transferVars, vars, streamVars, downloadVars,
                UploadStage, DownloadStage, ReadWhole, Result, Store!storeVars
  <2>. QED BY <2>1, <2>2, UploadStepStore, DownloadStepStore DEF TransferNext
<1>3. TransferSpec => []TypeOK /\ []SameAsInMemory
  BY UploadUndisturbed, UploadSafe, SameAsInMemoryHolds, PTL
<1>. QED BY <1>1, <1>2, <1>3, TransferSafe, PTL DEF TransferSpec, KeepsStore, Store!StoreSpec

(* What was proved of an upload alone holds beside downloads.              *)
THEOREM UploadsHold == TransferSpec => [](VerdictFitsSource /\ WireContract /\ SameAsInMemory)
  BY UploadUndisturbed, VerdictFitsSourceHolds, WireContractHolds, SameAsInMemoryHolds, PTL

(* Where the generator and its consumer are, which needs no invariant.     *)
Whereabouts ==
  /\ deletes \in 0 .. MaxDeletes
  /\ form \in {"download_file_stream", "download_file"}
  /\ dl_call \in {"none", "open", "over", "cancelled"}
  /\ generator \in {"created", "awaiting", "yielded", "dropped", "over"}
  /\ consumer \in {"iterating", "stopped", "returned", "raised", "cancelled"}

(* Every reachable state of an upload, the server's file and a download is *)
(* well-typed.                                                             *)
THEOREM TransferTypeCorrect == TransferSpec => []TransferTypeOK
<1>1. TransferInit => Whereabouts
  BY TransferAssumption DEF TransferInit, Whereabouts
<1>2. Whereabouts /\ [TransferNext]_transferVars => Whereabouts'
  <2>. SUFFICES ASSUME Whereabouts, [TransferNext]_transferVars PROVE Whereabouts'
    OBVIOUS
  <2>1. CASE FileDeleted
    BY <2>1, TransferAssumption DEF FileDeleted, downloadVars, Whereabouts
  <2>2. CASE DownloadStep
    <3>1. UNCHANGED <<deletes, form>>
      BY <2>2 DEF DownloadStep, BeginDownload, YieldChunk, NextChunk, DownloadEnds, DownloadFails,
                  CancelledAwaiting, AcloseGenerator, StopIterating, FinalizeGenerator
    <3>2. /\ dl_call' \in {dl_call, "open", "over", "cancelled"}
          /\ generator' \in {"awaiting", "yielded", "dropped", "over"}
          /\ consumer' \in {consumer, "stopped", "returned", "raised", "cancelled"}
      BY <2>2 DEF DownloadStep, BeginDownload, YieldChunk, NextChunk, DownloadEnds, DownloadFails,
                  CancelledAwaiting, AcloseGenerator, StopIterating, FinalizeGenerator, LeaveGenerator
    <3>. QED BY <3>1, <3>2 DEF Whereabouts
  <2>3. CASE UploadStep \/ UNCHANGED transferVars
    BY <2>3 DEF UploadStep, transferVars, downloadVars, Whereabouts
  <2>. QED BY <2>1, <2>2, <2>3 DEF TransferNext
<1>3. TransferSpec => []TypeOK
  BY UploadUndisturbed, UploadSafe, PTL
<1>4. TypeOK /\ TransferInv /\ Whereabouts => TransferTypeOK
  BY DEF TransferInv, IsFile, Reading, Whereabouts, TransferTypeOK
<1>. QED BY <1>1, <1>2, <1>3, <1>4, TransferSafe, PTL DEF TransferSpec

-----------------------------------------------------------------------------
(* What the bytes of the messages add up to.  Total() is the last value of *)
(* a recursive function, which denotes the sums only if there is one       *)
(* function of sums: there is, by induction over the length.               *)
IsSum(f, c) == f = [k \in 0 .. Len(c) |-> IF k = 0 THEN 0 ELSE f[k - 1] + c[k]]
AddsUpTo(c, n) ==
  /\ \E f : IsSum(f, c)
  /\ \A f : IsSum(f, c) => f[Len(c)] = n

LEMMA SumStep ==
  ASSUME NEW c, NEW f, IsSum(f, c), NEW k \in 0 .. Len(c)
  PROVE  f[k] = IF k = 0 THEN 0 ELSE f[k - 1] + c[k]
<1>. DEFINE F == [j \in 0 .. Len(c) |-> IF j = 0 THEN 0 ELSE f[j - 1] + c[j]]
<1>1. F[k] = IF k = 0 THEN 0 ELSE f[k - 1] + c[k]
  OBVIOUS
<1>2. f = F
  BY DEF IsSum
<1>. HIDE DEF F
<1>. QED BY <1>1, <1>2

LEMMA TotalIsSum == ASSUME NEW c, NEW n, AddsUpTo(c, n) PROVE Total(c) = n
<1>. DEFINE sum == CHOOSE f : IsSum(f, c)
<1>1. IsSum(sum, c)
  BY Zenon DEF AddsUpTo
<1>2. Total(c) = sum[Len(c)]
  BY DEF Total, IsSum
<1>. QED BY <1>1, <1>2 DEF AddsUpTo

LEMMA NothingAddsUp == AddsUpTo(<<>>, 0)
<1>. DEFINE zero == [k \in 0 .. Len(<<>>) |-> 0]
<1>1. IsSum(zero, <<>>)
  BY DEF IsSum
<1>2. ASSUME NEW f, IsSum(f, <<>>) PROVE f[Len(<<>>)] = 0
  BY <1>2 DEF IsSum
<1>. QED BY <1>1, <1>2 DEF AddsUpTo

(* One more chunk: the function of sums is extended by one value, and the  *)
(* old one is what any new one is without that value.                      *)
LEMMA AppendAddsUp ==
  ASSUME NEW c \in Seq(Nat), NEW n \in Nat, AddsUpTo(c, n), NEW b \in Nat
  PROVE  AddsUpTo(Append(c, b), n + b)
<1>. DEFINE d == Append(c, b)
            L == Len(c)
<1>1. /\ d \in Seq(Nat) /\ L \in Nat /\ Len(d) = L + 1 /\ d[L + 1] = b
      /\ \A k \in 1 .. L : d[k] = c[k]
  OBVIOUS
<1>. HIDE DEF d
<1>2. \E g : IsSum(g, d)
  <2>1. PICK f : IsSum(f, c)
    BY DEF AddsUpTo
  <2>. DEFINE g == [k \in 0 .. L + 1 |-> IF k = L + 1 THEN n + b ELSE f[k]]
  <2>2. f[L] = n
    BY <2>1 DEF AddsUpTo
  <2>3. ASSUME NEW k \in 0 .. L + 1 PROVE g[k] = IF k = 0 THEN 0 ELSE g[k - 1] + d[k]
    <3>1. CASE k = L + 1
      BY <1>1, <2>2, <3>1
    <3>2. CASE k \in 0 .. L
      <4>1. g[k] = f[k] /\ f[k] = IF k = 0 THEN 0 ELSE f[k - 1] + c[k]
        BY <1>1, <2>1, <3>2, SumStep
      <4>2. k # 0 => g[k - 1] = f[k - 1] /\ d[k] = c[k]
        BY <1>1, <3>2
      <4>. QED BY <4>1, <4>2
    <3>. QED BY <1>1, <3>1, <3>2
  <2>4. g = [k \in 0 .. L + 1 |-> IF k = 0 THEN 0 ELSE g[k - 1] + d[k]]
    BY <2>3
  <2>. QED BY <1>1, <2>4 DEF IsSum
<1>3. ASSUME NEW g, IsSum(g, d) PROVE g[Len(d)] = n + b
  <2>1. ASSUME NEW k \in 0 .. Len(d) PROVE g[k] = IF k = 0 THEN 0 ELSE g[k - 1] + d[k]
    BY <1>3, SumStep
  <2>2. ASSUME NEW k \in 0 .. L PROVE g[k] = IF k = 0 THEN 0 ELSE g[k - 1] + d[k]
    <3>1. k \in 0 .. Len(d)
      BY <1>1
    <3>. QED BY <2>1, <3>1
  <2>a. g[L + 1] = g[L] + d[L + 1]
    <3>1. L + 1 \in 0 .. Len(d) /\ L + 1 # 0 /\ (L + 1) - 1 = L
      BY <1>1
    <3>2. g[L + 1] = IF L + 1 = 0 THEN 0 ELSE g[(L + 1) - 1] + d[L + 1]
      BY <2>1, <3>1
    <3>. QED BY <3>1, <3>2
  <2>. DEFINE f == [k \in 0 .. L |-> g[k]]
  <2>3. ASSUME NEW k \in 0 .. L PROVE f[k] = IF k = 0 THEN 0 ELSE f[k - 1] + c[k]
    <3>1. f[k] = g[k] /\ (k # 0 => f[k - 1] = g[k - 1] /\ d[k] = c[k])
      BY <1>1
    <3>2. g[k] = IF k = 0 THEN 0 ELSE g[k - 1] + d[k]
      BY <2>2
    <3>. HIDE DEF f
    <3>. QED BY <3>1, <3>2
  <2>4. f = [k \in 0 .. L |-> IF k = 0 THEN 0 ELSE f[k - 1] + c[k]]
    BY <2>3
  <2>5. f[L] = g[L]
    BY <1>1
  <2>. HIDE DEF f
  <2>6. f[L] = n
    BY <2>4 DEF IsSum, AddsUpTo
  <2>. QED BY <1>1, <2>a, <2>5, <2>6
<1>. QED BY <1>2, <1>3 DEF AddsUpTo, d

(* Induction without a predicate as a parameter: a set of naturals has a   *)
(* least element, and one closed under successor holds them all.           *)
LEMMA LeastNatural ==
  ASSUME NEW T \in SUBSET Nat, T # {}
  PROVE  \E n \in T : \A m \in T : n <= m
<1>1. PICK n \in T : \A m \in T : <<m, n>> \notin OpToRel(<, Nat)
  BY NatLessThanWellFounded, WFMin
<1>2. \A m \in T : ~(m < n)
  BY <1>1, Zenon DEF OpToRel
<1>3. \A m \in T : n <= m
  BY <1>2
<1>. QED BY <1>3

LEMMA EveryNatural ==
  ASSUME NEW S, 0 \in S, \A n \in Nat : n \in S => n + 1 \in S
  PROVE  Nat \subseteq S
<1>. DEFINE T == Nat \ S
<1>1. SUFFICES ASSUME T # {} PROVE FALSE
  OBVIOUS
<1>2. PICK n \in T : \A m \in T : n <= m
  BY <1>1, LeastNatural
<1>3. n # 0 /\ n - 1 \in Nat /\ n - 1 \notin T
  BY <1>2
<1>. QED BY <1>3

LEMMA EverySequenceAddsUp == \A c \in Seq(Nat) : \E n \in Nat : AddsUpTo(c, n)
<1>. DEFINE Lengths == {l \in Nat : \A c \in Seq(Nat) : Len(c) = l => \E n \in Nat : AddsUpTo(c, n)}
<1>1. 0 \in Lengths
  <2>1. \A c \in Seq(Nat) : Len(c) = 0 => c = <<>>
    OBVIOUS
  <2>. QED BY <2>1, NothingAddsUp
<1>2. ASSUME NEW l \in Nat, l \in Lengths PROVE l + 1 \in Lengths
  <2>1. ASSUME NEW c \in Seq(Nat), Len(c) = l + 1 PROVE \E n \in Nat : AddsUpTo(c, n)
    <3>. DEFINE front == SubSeq(c, 1, l)
                b     == c[l + 1]
    <3>1. front \in Seq(Nat) /\ Len(front) = l /\ b \in Nat /\ c = Append(front, b)
      BY <2>1
    <3>. HIDE DEF front, b
    <3>2. PICK n \in Nat : AddsUpTo(front, n)
      BY <1>2, <3>1
    <3>. QED BY <3>1, <3>2, AppendAddsUp
  <2>. QED BY <2>1
<1>. HIDE DEF Lengths
<1>3. Nat \subseteq Lengths
  BY <1>1, <1>2, EveryNatural
<1>. QED BY <1>3 DEF Lengths

LEMMA TotalEmpty == Total(<<>>) = 0
BY NothingAddsUp, TotalIsSum

LEMMA TotalAppend ==
  ASSUME NEW c \in Seq(Nat), NEW b \in Nat
  PROVE  Total(c) \in Nat /\ Total(Append(c, b)) = Total(c) + b
<1>1. PICK n \in Nat : AddsUpTo(c, n)
  BY EverySequenceAddsUp
<1>2. Total(c) = n
  BY <1>1, TotalIsSum
<1>3. AddsUpTo(Append(c, b), n + b)
  BY <1>1, AppendAddsUp
<1>4. Total(Append(c, b)) = n + b
  BY <1>3, TotalIsSum
<1>. QED BY <1>2, <1>4

-----------------------------------------------------------------------------
(* The generator's count is the sum of what is in the messages, and only   *)
(* an upload whose checksum has the right length gets as far as sending.   *)
Counted == Total(Chunks(sent)) = total_written
Checked == pc \notin {"called", "rejected"} => ResolveChecksum = CHECKSUM_LEN

(* One more message is one more chunk.                                     *)
LEMMA SentCounts ==
  ASSUME TypeOK, Counted, NEW m \in Message, sent' = Append(sent, m),
         total_written' = total_written + m.bytes
  PROVE  Counted'
<1>1. sent \in Seq(Message) /\ m.bytes \in Nat /\ Chunks(sent) \in Seq(Nat)
  BY ChunksType DEF TypeOK, Message
<1>2. Chunks(sent') = Append(Chunks(sent), m.bytes)
  BY <1>1 DEF Chunks
<1>3. Total(Append(Chunks(sent), m.bytes)) = Total(Chunks(sent)) + m.bytes
  BY <1>1, TotalAppend
<1>. QED BY <1>2, <1>3 DEF Counted

LEMMA CountedInductive == TypeOK /\ Counted /\ Checked /\ [Next]_vars => Counted' /\ Checked'
<1>. SUFFICES ASSUME TypeOK, Counted, Checked, [Next]_vars PROVE Counted' /\ Checked'
  OBVIOUS
<1>1. CASE BeginUpload
  BY <1>1 DEF BeginUpload, Valid, streamVars, Counted, Checked, ResolveChecksum
<1>2. CASE SendChunk
  <2>. DEFINE m == Whole[Len(sent) + 1]
  <2>1. size_bytes \in Nat
    BY UploadAssumption DEF TypeOK
  <2>2. Whole \in Seq(Message) /\ Len(sent) + 1 \in 1 .. Len(Whole)
    BY <1>2, <2>1, ChunkFacts DEF SendChunk, Whole, TypeOK
  <2>3. m \in Message
    BY <2>2
  <2>4. /\ sent' = Append(sent, m) /\ total_written' = total_written + m.bytes
        /\ UNCHANGED <<checksum_len, pc>>
    BY <1>2 DEF SendChunk, Whole
  <2>. HIDE DEF m
  <2>5. Counted'
    BY <2>3, <2>4, SentCounts
  <2>. QED BY <2>4, <2>5 DEF Checked, ResolveChecksum
<1>3. CASE SendFull \/ SendRest
  <2>1. PICK n \in Nat : /\ BuildRequest(n) /\ total_written' = total_written + n
                         /\ UNCHANGED checksum_len /\ pc \in {"full", "reading"}
    BY <1>3, UploadAssumption DEF SendFull, SendRest, TypeOK
  <2>. DEFINE m == [metadata |-> first, bytes |-> n]
  <2>2. m \in Message /\ m.bytes = n
    BY DEF TypeOK, Message
  <2>3. sent' = Append(sent, m)
    BY <2>1 DEF BuildRequest
  <2>. HIDE DEF m
  <2>4. Counted'
    BY <2>1, <2>2, <2>3, SentCounts
  <2>. QED BY <2>1, <2>4 DEF Checked, ResolveChecksum
<1>4. CASE \/ BufferSent \/ SendFullOverflows \/ SendRestOverflows \/ Finish \/ Abort
           \/ UNCHANGED vars
  BY <1>4 DEF BufferSent, SendFullOverflows, SendRestOverflows, Finish, Abort, Suspended, vars,
              streamVars, Counted, Checked, ResolveChecksum
<1>5. ASSUME NEW n \in PieceSizes, NextPiece(n) PROVE Counted' /\ Checked'
  BY <1>5 DEF NextPiece, Counted, Checked, ResolveChecksum
<1>. QED BY <1>1, <1>2, <1>3, <1>4, <1>5 DEF Next

(* Whatever a source or a buffer is cut into, the server finds no fault    *)
(* with a stream that was half-closed: its own sum of the chunks is the    *)
(* declared size, the metadata is where it looks for it, the checksum is   *)
(* of its length and no message is too long.                               *)
THEOREM CompleteIsAcceptedHolds == TransferSpec => []CompleteIsAccepted
<1>1. Init => Counted /\ Checked
  <2>. SUFFICES ASSUME Init PROVE Counted /\ Checked
    OBVIOUS
  <2>1. Chunks(sent) = <<>>
    BY DEF Init, Chunks
  <2>. QED BY <2>1, TotalEmpty DEF Init, Counted, Checked
<1>2. TypeOK /\ Counted /\ Checked /\ [Next]_vars => Counted' /\ Checked'
  BY CountedInductive
<1>3. TypeOK /\ UploadInv /\ Counted /\ Checked => CompleteIsAccepted
  <2>. SUFFICES ASSUME TypeOK, UploadInv, Counted, Checked, pc = "complete"
                PROVE  Accepted(sent)
    BY DEF CompleteIsAccepted
  <2>1. sent = ChunkUploadRequests(size_bytes) /\ total_written = size_bytes
    BY DEF UploadInv, SameAsInMemory, Accounting
  <2>2. size_bytes \in Nat
    BY UploadAssumption DEF TypeOK
  <2>3. Len(sent) \in Nat /\ Len(sent) >= 1 /\ 1 \in 1 .. Len(sent)
    BY <2>1, <2>2, ChunkFacts
  <2>4. sent # <<>> /\ sent[1].metadata
    BY <2>3 DEF UploadInv, WireContract
  <2>. QED BY <2>1, <2>4 DEF Counted, Checked, UploadInv, WireContract, Accepted
<1>. QED BY <1>1, <1>2, <1>3, UploadUndisturbed, UploadSafe, PTL DEF Spec
=============================================================================
