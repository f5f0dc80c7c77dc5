------------------------- MODULE UploadStreamProofs -------------------------
(***************************************************************************)
(* What the two generators send, for every chunk size, every source and    *)
(* every declared size: one file whose messages do not depend on how the   *)
(* source was cut.                                                         *)
(***************************************************************************)
EXTENDS UploadStream, SequenceTheorems, TLAPS

(* Division by the size of a message.                                      *)
LEMMA DivFacts ==
  ASSUME NEW m \in Nat, NEW d \in Nat \ {0}
  PROVE  /\ m \div d \in Nat
         /\ (m \div d) * d <= m
         /\ m < (m \div d) * d + d
  BY Z3

LEMMA DivUnique ==
  ASSUME NEW m \in Nat, NEW d \in Nat \ {0}, NEW q \in Nat, q * d <= m, m < q * d + d
  PROVE  m \div d = q
<1>. DEFINE v == m \div d
<1>1. v \in Nat /\ v * d <= m /\ m < v * d + d
  BY DivFacts
<1>. HIDE DEF v
<1>2. CASE v < q
  <2>1. q * d >= (v + 1) * d
    BY <1>1, <1>2
  <2>2. (v + 1) * d = v * d + d
    BY <1>1
  <2>. QED BY <1>1, <2>1, <2>2
<1>3. CASE v > q
  <2>1. v * d >= (q + 1) * d
    BY <1>1, <1>3
  <2>2. (q + 1) * d = q * d + d
    OBVIOUS
  <2>. QED BY <1>1, <2>1, <2>2
<1>4. v = q
  BY <1>1, <1>2, <1>3
<1>. QED BY <1>4 DEF v

Message == [metadata : BOOLEAN, bytes : Nat]

(* The messages of a buffer: all but the last are full, the last ends the  *)
(* buffer.                                                                 *)
LEMMA ChunkFacts ==
  ASSUME NEW n \in Nat
  PROVE  LET M == ChunkUploadRequests(n)
             L == Len(M)
         IN  /\ M \in Seq(Message) /\ L \in Nat /\ L >= 1
             /\ \A k \in 1 .. L : M[k].metadata <=> k = 1
             /\ \A k \in 1 .. L - 1 : M[k].bytes = UPLOAD_CHUNK_BYTES
             /\ M[L].bytes <= UPLOAD_CHUNK_BYTES
             /\ (L - 1) * UPLOAD_CHUNK_BYTES + M[L].bytes = n
<1>. DEFINE C == UPLOAD_CHUNK_BYTES
            M == ChunkUploadRequests(n)
            L == (n + C - 1) \div C
            Size(k) == IF n - (k - 1) * C < C THEN n - (k - 1) * C ELSE C
<1>0. C \in Nat \ {0}
  BY UploadAssumption
<1>1. CASE n = 0
  <2>1. M = <<[metadata |-> TRUE, bytes |-> 0]>>
    BY <1>1 DEF ChunkUploadRequests
  <2>2. [metadata |-> TRUE, bytes |-> 0] \in Message
    BY DEF Message
  <2>3. Len(M) = 1 /\ M \in Seq(Message) /\ M[1] = [metadata |-> TRUE, bytes |-> 0]
    BY <2>1, <2>2
  <2>4. M[1].bytes = 0 /\ M[1].metadata = TRUE /\ (1 - 1) * C = 0
    BY <2>3, <1>0
  <2>. HIDE DEF M, C
  <2>5. QED BY <1>0, <1>1, <2>3, <2>4 DEF M, C
<1>2. CASE n # 0
  <2>1. M = [k \in 1 .. L |-> [metadata |-> k = 1, bytes |-> Size(k)]]
    BY <1>2 DEF ChunkUploadRequests
  <2>2. L \in Nat /\ L * C <= n + C - 1 /\ n + C - 1 < L * C + C
    BY <1>0, <1>2, DivFacts
  <2>. HIDE DEF L, C
  <2>3. L >= 1
    <3>1. CASE L = 0
      <4>1. L * C = 0
        BY <1>0, <3>1
      <4>. QED BY <1>0, <1>2, <2>2, <4>1
    <3>. QED BY <2>2, <3>1
  <2>4. (L - 1) * C = L * C - C
    BY <1>0, <2>2
  <2>5. (L - 1) * C < n /\ n <= (L - 1) * C + C
    BY <1>0, <2>2, <2>4
  <2>6. ASSUME NEW k \in 1 .. L - 1 PROVE (k - 1) * C + C <= (L - 1) * C
    <3>1. k * C <= (L - 1) * C
      BY <1>0, <2>2
    <3>2. k * C = (k - 1) * C + C
      BY <1>0
    <3>. QED BY <3>1, <3>2
  <2>7. ASSUME NEW k \in 1 .. L - 1 PROVE Size(k) = C
    <3>1. (k - 1) * C \in Int /\ (L - 1) * C \in Int
      BY <1>0, <2>2
    <3>. QED BY <1>0, <2>5, <2>6, <2>7, <3>1
  <2>8. Size(L) = n - (L - 1) * C /\ Size(L) <= C /\ Size(L) \in Nat
    <3>1. (L - 1) * C \in Int
      BY <1>0, <2>2
    <3>. QED BY <1>0, <2>5, <3>1
  <2>9. ASSUME NEW k \in 1 .. L PROVE Size(k) \in Nat
    BY <1>0, <2>2, <2>7, <2>8
  <2>. HIDE DEF Size
  <2>10. M \in Seq(Message) /\ Len(M) = L
    BY <2>1, <2>2, <2>9 DEF Message
  <2>11. \A k \in 1 .. L : M[k].metadata = (k = 1) /\ M[k].bytes = Size(k)
    BY <2>1
  <2>. HIDE DEF M
  <2>12. (L - 1) * C + M[L].bytes = n
    <3>1. M[L].bytes = n - (L - 1) * C
      BY <2>2, <2>3, <2>8, <2>11
    <3>2. (L - 1) * C \in Int
      BY <1>0, <2>2
    <3>. QED BY <3>1, <3>2
  <2>13. /\ M[L].bytes <= C
         /\ \A k \in 1 .. L : M[k].metadata <=> k = 1
         /\ \A k \in 1 .. L - 1 : M[k].bytes = C
    <3>1. L \in 1 .. L /\ \A k \in 1 .. L - 1 : k \in 1 .. L
      BY <2>2, <2>3
    <3>. QED BY <2>7, <2>8, <2>11, <3>1
  <2>. QED BY <2>2, <2>3, <2>10, <2>12, <2>13 DEF M, C
<1>. QED BY <1>1, <1>2

(* Two messages with the same content are the same.                        *)
LEMMA MessageEqual ==
  ASSUME NEW a \in Message, NEW b \in Message, a.metadata = b.metadata, a.bytes = b.bytes
  PROVE  a = b
BY DEF Message

(* Full messages and a last one that is not empty, unless it is the only   *)
(* one: this is how a buffer of that many bytes is sent.                   *)
LEMMA ChunksUnique ==
  ASSUME NEW n \in Nat, NEW s \in Seq(Message), Len(s) >= 1,
         \A k \in 1 .. Len(s) : s[k].metadata <=> k = 1,
         \A k \in 1 .. Len(s) - 1 : s[k].bytes = UPLOAD_CHUNK_BYTES,
         s[Len(s)].bytes <= UPLOAD_CHUNK_BYTES,
         s[Len(s)].bytes > 0 \/ Len(s) = 1,
         (Len(s) - 1) * UPLOAD_CHUNK_BYTES + s[Len(s)].bytes = n
  PROVE  s = ChunkUploadRequests(n)
<1>. DEFINE C == UPLOAD_CHUNK_BYTES
            M == ChunkUploadRequests(n)
            L == Len(s)
            b == s[L].bytes
<1>0. C \in Nat \ {0} /\ L \in Nat /\ b \in Nat
  <2>1. C \in Nat \ {0} /\ L \in Nat /\ L \in 1 .. Len(s)
    BY UploadAssumption
  <2>2. s[L] \in Message
    BY <2>1
  <2>. QED BY <2>1, <2>2 DEF Message
<1>1. /\ M \in Seq(Message) /\ Len(M) \in Nat /\ Len(M) >= 1
      /\ \A k \in 1 .. Len(M) : M[k].metadata <=> k = 1
      /\ \A k \in 1 .. Len(M) - 1 : M[k].bytes = C
      /\ (Len(M) - 1) * C + M[Len(M)].bytes = n
  BY ChunkFacts
<1>2. Len(M) = L
  <2>1. CASE n = 0
    <3>1. Len(M) = 1
      BY <2>1 DEF ChunkUploadRequests
    <3>2. L = 1
      <4>1. (L - 1) * C >= 0
        BY <1>0
      <4>2. (L - 1) * C \in Nat
        BY <1>0, <4>1
      <4>3. b = 0
        BY <1>0, <2>1, <4>2
      <4>. QED BY <1>0, <4>3
    <3>. QED BY <3>1, <3>2
  <2>2. CASE n # 0
    <3>1. Len(M) = (n + C - 1) \div C
      <4>. HIDE DEF C
      <4>0. n + C - 1 \in Nat
        BY <1>0, <2>2
      <4>1. (n + C - 1) \div C \in Nat
        BY <1>0, <4>0, DivFacts
      <4>. USE DEF C
      <4>. QED BY <2>2, <4>1 DEF ChunkUploadRequests
    <3>. DEFINE P == (L - 1) * C
    <3>2. P \in Nat /\ L * C = P + C /\ P + b = n
      <4>1. L - 1 \in Nat
        BY <1>0
      <4>2. P \in Nat
        BY <1>0, <4>1
      <4>3. L * C = P + C
        BY <1>0
      <4>. QED BY <4>2, <4>3
    <3>3. b > 0
      <4>1. CASE L = 1
        <5>1. P = 0
          BY <1>0, <4>1
        <5>. HIDE DEF P
        <5>. QED BY <1>0, <2>2, <3>2, <5>1
      <4>. QED BY <1>0, <4>1
    <3>. HIDE DEF P
    <3>4. L * C <= n + C - 1 /\ n + C - 1 < L * C + C
      BY <1>0, <3>2, <3>3
    <3>5. n + C - 1 \in Nat
      BY <1>0, <2>2
    <3>6. (n + C - 1) \div C = L
      BY <1>0, <3>4, <3>5, DivUnique
    <3>. QED BY <3>1, <3>6
  <2>. QED BY <2>1, <2>2
<1>3. M[L].bytes = b
  <2>0. M[L] \in Message
    <3>1. L \in 1 .. Len(M)
      BY <1>0, <1>2
    <3>. HIDE DEF M
    <3>. QED BY <1>1, <3>1
  <2>1. (L - 1) * C \in Int /\ M[L].bytes \in Int
    BY <1>0, <2>0 DEF Message
  <2>2. (L - 1) * C + M[L].bytes = (L - 1) * C + b
    BY <1>1, <1>2
  <2>. HIDE DEF b, C, M, L
  <2>. QED BY <1>0, <2>1, <2>2
<1>4. ASSUME NEW k \in 1 .. L PROVE s[k] = M[k]
  <2>1. s[k] \in Message /\ M[k] \in Message
    BY <1>1, <1>2
  <2>2. s[k].metadata = M[k].metadata
    BY <1>1, <1>2, <2>1 DEF Message
  <2>3. s[k].bytes = M[k].bytes
    BY <1>0, <1>1, <1>2, <1>3
  <2>. QED BY <2>1, <2>2, <2>3, MessageEqual
<1>. HIDE DEF M
<1>5. s = M
  BY <1>1, <1>2, <1>4
<1>. QED BY <1>5 DEF M

(* The invariant.  A buffer is sent as it will be sent as a whole; of a    *)
(* source, every byte read is sent or buffered, a full message is buffered *)
(* exactly when it is about to be sent, and what has been sent is counted  *)
(* in full messages until the last.                                        *)
Whole == ChunkUploadRequests(size_bytes)
Accounting ==
  /\ pc = "called" => buffer = 0 /\ consumed = 0 /\ total_written = 0
  /\ pc \in {"reading", "full"} => consumed = total_written + buffer
  /\ pc \in {"sending", "flushed", "complete"} => consumed = total_written
  /\ pc = "complete" => total_written = size_bytes
  /\ pc = "overflow" => consumed > size_bytes
  /\ pc = "short" => consumed < size_bytes /\ total_written = consumed
  /\ pc = "reading" => buffer < UPLOAD_CHUNK_BYTES
  /\ pc = "full" => buffer >= UPLOAD_CHUNK_BYTES
SendsWhole ==
  pc = "sending" =>
    /\ Len(sent) <= Len(Whole)
    /\ \A k \in 1 .. Len(sent) : sent[k] = Whole[k]
    /\ total_written = IF Len(sent) < Len(Whole)
                       THEN Len(sent) * UPLOAD_CHUNK_BYTES ELSE size_bytes
OnlyFullSoFar ==
  pc \in {"called", "reading", "full"} =>
    /\ \A k \in 1 .. Len(sent) : sent[k].bytes = UPLOAD_CHUNK_BYTES
    /\ total_written = Len(sent) * UPLOAD_CHUNK_BYTES
    /\ wrote_any <=> sent # <<>>
LastIsRest ==
  pc = "flushed" =>
    /\ Len(sent) >= 1
    /\ total_written = (Len(sent) - 1) * UPLOAD_CHUNK_BYTES + sent[Len(sent)].bytes
    /\ sent[Len(sent)].bytes > 0 \/ Len(sent) = 1
UploadInv == /\ Accounting /\ SendsWhole /\ OnlyFullSoFar /\ LastIsRest
             /\ WireContract /\ SameAsInMemory
             /\ first <=> sent = <<>>

(* The generator and the stream stay well-typed: no subtraction goes below *)
(* zero, as a full message is only taken from a buffer that holds one.     *)
LEMMA UploadTypeInductive == TypeOK /\ UploadInv /\ [Next]_vars => TypeOK'
<1>. SUFFICES ASSUME TypeOK, UploadInv, [Next]_vars PROVE TypeOK'
  OBVIOUS
<1>. USE UploadAssumption DEF TypeOK, Suspended, UploadEnded
<1>1. CASE BeginUpload BY <1>1 DEF BeginUpload, streamVars
<1>2. ASSUME NEW n \in PieceSizes, NextPiece(n) PROVE TypeOK' BY <1>2 DEF NextPiece
<1>3. CASE SendFull
  <2>1. buffer - UPLOAD_CHUNK_BYTES \in Nat
    BY <1>3 DEF SendFull, Accounting, UploadInv
  <2>2. sent' \in Seq([metadata : BOOLEAN, bytes : Nat])
    BY <1>3 DEF SendFull, BuildRequest
  <2>3. /\ buffer' = buffer - UPLOAD_CHUNK_BYTES /\ total_written' \in Nat
        /\ pc' \in {"full", "reading"}
    BY <1>3 DEF SendFull
  <2>4. first' \in BOOLEAN /\ wrote_any' \in BOOLEAN
    BY <1>3, Zenon DEF SendFull, BuildRequest
  <2>5. UNCHANGED <<method, size_bytes, checksum_len, consumed>>
    BY <1>3 DEF SendFull
  <2>. QED BY <2>1, <2>2, <2>3, <2>4, <2>5, Zenon
<1>4. CASE SendFullOverflows BY <1>4 DEF SendFullOverflows, streamVars
<1>5. CASE SendRest
  <2>1. sent' \in Seq([metadata : BOOLEAN, bytes : Nat])
    BY <1>5 DEF SendRest, BuildRequest
  <2>2. total_written' \in Nat /\ pc' = "flushed" /\ buffer' \in Nat
    BY <1>5 DEF SendRest
  <2>3. first' \in BOOLEAN /\ wrote_any' \in BOOLEAN
    BY <1>5, Zenon DEF SendRest, BuildRequest
  <2>4. UNCHANGED <<method, size_bytes, checksum_len, consumed>>
    BY <1>5 DEF SendRest
  <2>. QED BY <2>1, <2>2, <2>3, <2>4, Zenon
<1>6. CASE SendRestOverflows BY <1>6 DEF SendRestOverflows, streamVars
<1>7. CASE Finish BY <1>7 DEF Finish, streamVars
<1>8. CASE Abort BY <1>8 DEF Abort, streamVars
<1>9. CASE SendChunk
  <2>1. size_bytes \in Nat
    OBVIOUS
  <2>2. Whole[Len(sent) + 1] \in Message
    <3>1. Whole \in Seq(Message) /\ Len(sent) + 1 \in 1 .. Len(Whole)
      BY <1>9, <2>1, ChunkFacts DEF SendChunk, Whole
    <3>. QED BY <3>1
  <2>3. sent' \in Seq([metadata : BOOLEAN, bytes : Nat])
    BY <1>9, <2>2 DEF SendChunk, Message, Whole
  <2>4. total_written' \in Nat /\ consumed' \in Nat /\ first' \in BOOLEAN
    <3>1. Whole[Len(sent) + 1].bytes \in Nat
      BY <2>2 DEF Message
    <3>2. /\ total_written' = total_written + Whole[Len(sent) + 1].bytes
          /\ consumed' = consumed + Whole[Len(sent) + 1].bytes
          /\ first' = FALSE
      BY <1>9 DEF SendChunk, Whole
    <3>3. total_written \in Nat /\ consumed \in Nat
      OBVIOUS
    <3>. DEFINE b == Whole[Len(sent) + 1].bytes
    <3>4. total_written + b \in Nat /\ consumed + b \in Nat
      <4>1. b \in Nat
        BY <3>1
      <4>. HIDE DEF b, TypeOK
      <4>. QED BY <3>3, <4>1
    <3>. QED BY <3>2, <3>4, Zenon
  <2>5. UNCHANGED <<method, size_bytes, checksum_len, buffer, wrote_any, pc>>
    BY <1>9 DEF SendChunk
  <2>. QED BY <2>3, <2>4, <2>5
<1>10. CASE BufferSent BY <1>10 DEF BufferSent, streamVars
<1>11. CASE UNCHANGED vars BY <1>11 DEF vars, streamVars
<1>. QED BY <1>1, <1>2, <1>3, <1>4, <1>5, <1>6, <1>7, <1>8, <1>9, <1>10, <1>11 DEF Next

(* A message appended to full ones keeps the contract.                     *)
LEMMA AppendKeepsContract ==
  ASSUME TypeOK, UploadInv, pc \in {"reading", "full"}, NEW n \in Nat,
         n <= UPLOAD_CHUNK_BYTES, BuildRequest(n)
  PROVE  /\ first' <=> sent' = <<>>
         /\ sent' # <<>> /\ Len(sent') = Len(sent) + 1 /\ sent'[Len(sent')].bytes = n
         /\ \A k \in 1 .. Len(sent') :
              /\ sent'[k].metadata <=> k = 1
              /\ sent'[k].bytes <= UPLOAD_CHUNK_BYTES
              /\ k < Len(sent') => sent'[k].bytes = UPLOAD_CHUNK_BYTES
              /\ n = UPLOAD_CHUNK_BYTES => sent'[k].bytes = UPLOAD_CHUNK_BYTES
<1>. DEFINE m == [metadata |-> first, bytes |-> n]
<1>1. sent' = Append(sent, m) /\ first' = FALSE
  BY DEF BuildRequest
<1>2. sent \in Seq([metadata : BOOLEAN, bytes : Nat]) /\ m \in [metadata : BOOLEAN, bytes : Nat]
  BY DEF TypeOK
<1>3. /\ Len(sent') = Len(sent) + 1 /\ Len(sent) \in Nat
      /\ \A k \in 1 .. Len(sent) : sent'[k] = sent[k]
      /\ sent'[Len(sent) + 1] = m
  BY <1>1, <1>2
<1>4. m.metadata = first /\ m.bytes = n
  OBVIOUS
<1>5. first <=> Len(sent) = 0
  BY <1>2 DEF UploadInv
<1>. HIDE DEF m
<1>6. sent' # <<>>
  BY <1>1, <1>2
<1>7. ASSUME NEW k \in 1 .. Len(sent')
      PROVE  /\ sent'[k].metadata <=> k = 1
             /\ sent'[k].bytes <= UPLOAD_CHUNK_BYTES
             /\ k < Len(sent') => sent'[k].bytes = UPLOAD_CHUNK_BYTES
             /\ n = UPLOAD_CHUNK_BYTES => sent'[k].bytes = UPLOAD_CHUNK_BYTES
  <2>1. CASE k \in 1 .. Len(sent)
    <3>1. sent'[k].bytes = UPLOAD_CHUNK_BYTES /\ (sent'[k].metadata <=> k = 1)
      BY <1>3, <2>1 DEF UploadInv, OnlyFullSoFar, WireContract
    <3>. QED BY <3>1, UploadAssumption
  <2>2. CASE k = Len(sent) + 1
    <3>1. sent'[k].bytes = n /\ sent'[k].metadata = first /\ ~(k < Len(sent'))
      BY <1>3, <1>4, <2>2
    <3>2. first <=> k = 1
      BY <1>3, <1>5, <2>2
    <3>. QED BY <3>1, <3>2
  <2>. QED BY <1>3, <2>1, <2>2
<1>. QED BY <1>1, <1>3, <1>4, <1>6, <1>7

(* The next message of a buffer.                                           *)
LEMMA SendChunkInv == ASSUME TypeOK, UploadInv, SendChunk PROVE UploadInv'
<1>. DEFINE C == UPLOAD_CHUNK_BYTES
            L == Len(Whole)
            k == Len(sent) + 1
<1>0. /\ size_bytes \in Nat /\ total_written \in Nat /\ C \in Nat \ {0}
      /\ sent \in Seq(Message) /\ Len(sent) \in Nat
  BY UploadAssumption DEF TypeOK, Message
<1>1. /\ Whole \in Seq(Message) /\ L \in Nat
      /\ \A j \in 1 .. L : Whole[j].metadata <=> j = 1
      /\ \A j \in 1 .. L - 1 : Whole[j].bytes = C
      /\ Whole[L].bytes <= C
      /\ (L - 1) * C + Whole[L].bytes = size_bytes
  BY <1>0, ChunkFacts DEF Whole
<1>2. /\ pc = "sending" /\ k <= L /\ sent' = Append(sent, Whole[k])
      /\ total_written' = total_written + Whole[k].bytes
      /\ consumed' = consumed + Whole[k].bytes
      /\ first' = FALSE
      /\ UNCHANGED <<size_bytes, buffer, wrote_any, pc>>
  BY <1>0, <1>1 DEF SendChunk, Whole
<1>3. Whole[k] \in Message /\ k \in 1 .. L /\ Whole' = Whole
  BY <1>0, <1>1, <1>2 DEF Whole
<1>4. /\ Len(sent') = k /\ sent' # <<>> /\ sent'[k] = Whole[k]
      /\ \A j \in 1 .. Len(sent) : sent'[j] = sent[j]
  BY <1>0, <1>2, <1>3
<1>5. \A j \in 1 .. k : sent'[j] = Whole[j]
  BY <1>0, <1>2, <1>4 DEF UploadInv, SendsWhole
<1>6. total_written = (k - 1) * C
  BY <1>0, <1>2, <1>1 DEF UploadInv, SendsWhole
<1>7. total_written' = IF k < L THEN k * C ELSE size_bytes
  <2>0. k \in Nat /\ k >= 1
    BY <1>0
  <2>. HIDE DEF k, L, C
  <2>1. CASE k < L
    <3>0. k \in 1 .. L - 1
      BY <1>1, <2>0, <2>1
    <3>1. Whole[k].bytes = C
      BY <1>1, <3>0
    <3>2. k * C = (k - 1) * C + C
      BY <1>0, <2>0
    <3>. QED BY <1>2, <1>6, <2>1, <3>1, <3>2
  <2>2. CASE k = L
    <3>1. total_written' = (L - 1) * C + Whole[L].bytes
      BY <1>2, <1>6, <2>2
    <3>. QED BY <1>1, <2>2, <3>1
  <2>. QED BY <1>1, <1>2, <2>0, <2>1, <2>2
<1>8. total_written' <= size_bytes
  <2>0. k \in Nat /\ k >= 1
    BY <1>0
  <2>. HIDE DEF k, L, C
  <2>1. CASE k < L
    <3>1. k * C <= (L - 1) * C
      BY <1>0, <1>1, <2>0, <2>1
    <3>2. Whole[L] \in Message
      <4>1. L \in 1 .. L
        BY <1>1, <2>0, <2>1
      <4>. QED BY <1>1, <4>1 DEF L
    <3>3. (L - 1) * C <= size_bytes
      <4>1. (L - 1) * C \in Int
        BY <1>0, <1>1
      <4>. QED BY <1>0, <1>1, <3>2, <4>1 DEF Message
    <3>4. k * C \in Int /\ (L - 1) * C \in Int
      BY <1>0, <1>1, <2>0
    <3>. QED BY <1>0, <1>7, <2>1, <3>1, <3>3, <3>4
  <2>2. CASE k = L
    <3>1. total_written' = size_bytes
      BY <1>1, <1>7, <2>0, <2>2
    <3>. QED BY <1>0, <3>1
  <2>3. k < L \/ k = L
    BY <1>1, <1>2, <2>0
  <2>. QED BY <2>1, <2>2, <2>3
<1>. HIDE DEF k, L
<1>9. Accounting'
  BY <1>2 DEF UploadInv, Accounting
<1>10. SendsWhole'
  BY <1>2, <1>3, <1>4, <1>5, <1>7 DEF SendsWhole, L
<1>11. WireContract'
  <2>1. ASSUME NEW j \in 1 .. k
        PROVE  /\ Whole[j].metadata <=> j = 1
               /\ Whole[j].bytes <= C
               /\ j < k => Whole[j].bytes = C
    <3>0. j \in 1 .. L /\ k <= L /\ k \in Int /\ C \in Int
      BY <1>0, <1>1, <1>3
    <3>. HIDE DEF C
    <3>1. Whole[j].metadata <=> j = 1
      BY <1>1, <3>0
    <3>2. CASE j = L
      <4>1. ~(j < k)
        BY <1>1, <3>0, <3>2
      <4>. QED BY <1>1, <3>1, <3>2, <4>1
    <3>3. CASE j < L
      <4>1. Whole[j].bytes = C
        BY <1>1, <3>0, <3>3
      <4>. QED BY <3>0, <3>1, <4>1
    <3>. QED BY <1>1, <3>0, <3>2, <3>3
  <2>. QED BY <1>2, <1>4, <1>5, <1>8, <2>1 DEF WireContract
<1>. QED BY <1>2, <1>4, <1>9, <1>10, <1>11 DEF UploadInv, OnlyFullSoFar, LastIsRest, SameAsInMemory

(* The end of a buffer.                                                    *)
LEMMA BufferSentInv == ASSUME TypeOK, UploadInv, BufferSent PROVE UploadInv'
<1>1. size_bytes \in Nat /\ sent \in Seq(Message)
  BY UploadAssumption DEF TypeOK, Message
<1>2. Whole \in Seq(Message)
  BY <1>1, ChunkFacts DEF Whole
<1>3. sent = Whole /\ total_written = size_bytes
  BY <1>1, <1>2 DEF BufferSent, UploadInv, SendsWhole, Whole
<1>4. pc = "sending" /\ pc' = "complete" /\ UNCHANGED streamVars
  BY DEF BufferSent
<1>5. Accounting'
  BY <1>3, <1>4 DEF UploadInv, Accounting, streamVars
<1>6. SameAsInMemory'
  BY <1>3, <1>4 DEF SameAsInMemory, Whole, streamVars
<1>7. WireContract' /\ (first' <=> sent' = <<>>)
  BY <1>4 DEF UploadInv, WireContract, streamVars
<1>. QED BY <1>4, <1>5, <1>6, <1>7 DEF UploadInv, SendsWhole, OnlyFullSoFar, LastIsRest

(* A source that ended: what was sent is what the buffer of the same size  *)
(* is sent as, with or without a flush.                                    *)
LEMMA FinishInv == ASSUME TypeOK, UploadInv, Finish PROVE UploadInv'
<1>. DEFINE C == UPLOAD_CHUNK_BYTES
<1>0. /\ size_bytes \in Nat /\ total_written \in Nat /\ buffer \in Nat /\ consumed \in Nat
      /\ C \in Nat \ {0} /\ sent \in Seq(Message) /\ Len(sent) \in Nat
  BY UploadAssumption DEF TypeOK, Message
<1>1. /\ pc = "flushed" \/ (pc = "reading" /\ ~NeedsFlush)
      /\ pc' = IF total_written # size_bytes THEN "short" ELSE "complete"
      /\ UNCHANGED streamVars
  BY DEF Finish
<1>2. Accounting'
  BY <1>0, <1>1 DEF NeedsFlush, UploadInv, Accounting, WireContract, streamVars
<1>3. WireContract' /\ (first' <=> sent' = <<>>)
  BY <1>1 DEF UploadInv, WireContract, streamVars
<1>4. ASSUME total_written = size_bytes PROVE sent = ChunkUploadRequests(size_bytes)
  <2>1. /\ Len(sent) >= 1
        /\ total_written = (Len(sent) - 1) * C + sent[Len(sent)].bytes
        /\ sent[Len(sent)].bytes > 0 \/ Len(sent) = 1
    <3>1. CASE pc = "flushed"
      BY <3>1 DEF UploadInv, LastIsRest
    <3>2. CASE pc = "reading" /\ ~NeedsFlush
      <4>1. sent # <<>> /\ total_written = Len(sent) * C
        BY <3>2 DEF NeedsFlush, UploadInv, OnlyFullSoFar
      <4>2. Len(sent) >= 1
        BY <1>0, <4>1
      <4>3. sent[Len(sent)].bytes = C
        BY <1>0, <3>2, <4>2 DEF UploadInv, OnlyFullSoFar
      <4>4. Len(sent) * C = (Len(sent) - 1) * C + C
        BY <1>0
      <4>. QED BY <1>0, <4>1, <4>2, <4>3, <4>4
    <3>. QED BY <1>1, <3>1, <3>2
  <2>2. /\ \A k \in 1 .. Len(sent) : sent[k].metadata <=> k = 1
        /\ \A k \in 1 .. Len(sent) - 1 : sent[k].bytes = C
        /\ sent[Len(sent)].bytes <= C
    BY <1>0, <2>1 DEF UploadInv, WireContract
  <2>. HIDE DEF C
  <2>. QED BY <1>0, <1>4, <2>1, <2>2, ChunksUnique DEF C
<1>5. SameAsInMemory'
  BY <1>1, <1>4 DEF SameAsInMemory, streamVars
<1>. QED BY <1>1, <1>2, <1>3, <1>5 DEF UploadInv, SendsWhole, OnlyFullSoFar, LastIsRest

(* The invariant is kept by every step.                                    *)
LEMMA UploadInvInductive == TypeOK /\ UploadInv /\ [Next]_vars => UploadInv'
<1>. SUFFICES ASSUME TypeOK, UploadInv, [Next]_vars PROVE UploadInv'
  OBVIOUS
<1>0. /\ buffer \in Nat /\ total_written \in Nat /\ consumed \in Nat /\ size_bytes \in Nat
      /\ UPLOAD_CHUNK_BYTES \in Nat \ {0} /\ PieceSizes \subseteq Nat
      /\ sent \in Seq(Message) /\ Len(sent) \in Nat
  BY UploadAssumption DEF TypeOK, Message
<1>. USE <1>0
<1>a. ASSUME UNCHANGED <<size_bytes, wrote_any, first, sent, total_written>>, Accounting',
             pc' \in {"called", "reading", "full"} => pc \in {"called", "reading", "full"},
             pc' \notin {"sending", "flushed", "complete"}
      PROVE  UploadInv'
  BY <1>a DEF UploadInv, OnlyFullSoFar, WireContract, SendsWhole, LastIsRest, SameAsInMemory
<1>1. CASE BeginUpload
  <2>1. Accounting'
    <3>1. pc = "called" /\ UNCHANGED streamVars /\ pc' \in {"rejected", "sending", "reading"}
      BY <1>1 DEF BeginUpload
    <3>. QED BY <3>1 DEF UploadInv, Accounting, streamVars
  <2>2. CASE pc' # "sending"
    BY <1>1, <1>a, <2>1, <2>2 DEF BeginUpload, streamVars
  <2>3. CASE pc' = "sending"
    <3>1. pc = "called" /\ UNCHANGED streamVars
      BY <1>1 DEF BeginUpload
    <3>2. total_written = 0 /\ 0 * UPLOAD_CHUNK_BYTES = 0
      BY <3>1 DEF UploadInv, Accounting
    <3>3. Len(sent) = 0
      <4>1. Len(sent) * UPLOAD_CHUNK_BYTES = 0
        BY <3>1, <3>2 DEF UploadInv, OnlyFullSoFar
      <4>. QED BY <4>1
    <3>4. Len(Whole) >= 1 /\ Len(Whole) \in Nat /\ Whole' = Whole
      BY <3>1, ChunkFacts DEF Whole, streamVars
    <3>5. SendsWhole'
      BY <3>1, <3>2, <3>3, <3>4 DEF SendsWhole, streamVars
    <3>6. WireContract' /\ (first' <=> sent' = <<>>)
      BY <3>1 DEF UploadInv, WireContract, streamVars
    <3>. QED BY <2>1, <2>3, <3>5, <3>6 DEF UploadInv, OnlyFullSoFar, LastIsRest, SameAsInMemory
  <2>. QED BY <2>2, <2>3
<1>2. ASSUME NEW n \in PieceSizes, NextPiece(n) PROVE UploadInv'
  <2>1. Accounting'
    BY <1>2 DEF NextPiece, UploadInv, Accounting
  <2>. QED BY <1>2, <1>a, <2>1 DEF NextPiece
<1>3. CASE SendFull
  <2>1. Accounting' /\ total_written' <= size_bytes' /\ wrote_any' = TRUE
    BY <1>3 DEF SendFull, Overflows, UploadInv, Accounting
  <2>2. /\ BuildRequest(UPLOAD_CHUNK_BYTES) /\ pc \in {"reading", "full"}
        /\ pc' \in {"reading", "full"}
        /\ total_written' = total_written + UPLOAD_CHUNK_BYTES
    BY <1>3 DEF SendFull
  <2>3. total_written' = Len(sent') * UPLOAD_CHUNK_BYTES
    <3>1. total_written = Len(sent) * UPLOAD_CHUNK_BYTES
      BY <2>2 DEF UploadInv, OnlyFullSoFar
    <3>2. Len(sent') = Len(sent) + 1
      BY <2>2, AppendKeepsContract
    <3>3. (Len(sent) + 1) * UPLOAD_CHUNK_BYTES = Len(sent) * UPLOAD_CHUNK_BYTES + UPLOAD_CHUNK_BYTES
      OBVIOUS
    <3>. QED BY <2>2, <3>1, <3>2, <3>3
  <2>4. WireContract' /\ OnlyFullSoFar' /\ (first' <=> sent' = <<>>)
    BY <2>1, <2>2, <2>3, AppendKeepsContract DEF OnlyFullSoFar, WireContract
  <2>. QED BY <2>1, <2>2, <2>4 DEF UploadInv, SendsWhole, LastIsRest, SameAsInMemory
<1>4. CASE SendFullOverflows
  <2>1. Accounting'
    BY <1>4 DEF SendFullOverflows, Overflows, UploadInv, Accounting, streamVars
  <2>. QED BY <1>4, <1>a, <2>1 DEF SendFullOverflows, streamVars
<1>5. CASE SendRest
  <2>1. Accounting' /\ total_written' <= size_bytes' /\ pc' = "flushed"
    BY <1>5 DEF SendRest, Overflows, UploadInv, Accounting
  <2>2. /\ BuildRequest(buffer) /\ pc = "reading" /\ buffer <= UPLOAD_CHUNK_BYTES
        /\ NeedsFlush /\ total_written' = total_written + buffer
    BY <1>5 DEF SendRest, UploadInv, Accounting
  <2>3. LastIsRest'
    <3>1. Len(sent') = Len(sent) + 1 /\ sent'[Len(sent')].bytes = buffer
      BY <2>2, AppendKeepsContract
    <3>2. total_written = Len(sent) * UPLOAD_CHUNK_BYTES
      BY <2>2 DEF UploadInv, OnlyFullSoFar
    <3>3. buffer > 0 \/ Len(sent) = 0
      BY <2>2 DEF NeedsFlush, UploadInv, OnlyFullSoFar
    <3>. QED BY <2>2, <3>1, <3>2, <3>3 DEF LastIsRest
  <2>4. WireContract' /\ (first' <=> sent' = <<>>)
    BY <2>1, <2>2, AppendKeepsContract DEF WireContract
  <2>. QED BY <2>1, <2>3, <2>4 DEF UploadInv, SendsWhole, OnlyFullSoFar, SameAsInMemory
<1>6. CASE SendRestOverflows
  <2>1. Accounting'
    BY <1>6 DEF SendRestOverflows, Overflows, UploadInv, Accounting, streamVars
  <2>. QED BY <1>6, <1>a, <2>1 DEF SendRestOverflows, streamVars
<1>7. CASE Finish BY <1>7, FinishInv
<1>8. CASE Abort
  <2>1. Accounting'
    BY <1>8 DEF Abort, UploadInv, Accounting, streamVars
  <2>. QED BY <1>8, <1>a, <2>1 DEF Abort, streamVars
<1>9. CASE SendChunk BY <1>9, SendChunkInv
<1>10. CASE BufferSent BY <1>10, BufferSentInv
<1>11. CASE UNCHANGED vars
  BY <1>11 DEF vars, streamVars, UploadInv, Accounting, SendsWhole, Whole, OnlyFullSoFar, LastIsRest,
               WireContract, SameAsInMemory
<1>. QED BY <1>1, <1>2, <1>3, <1>4, <1>5, <1>6, <1>7, <1>8, <1>9, <1>10, <1>11 DEF Next

(* The two invariants hold together.                                       *)
LEMMA UploadSafe == Spec => [](TypeOK /\ UploadInv)
<1>1. Init => TypeOK /\ UploadInv
  <2>. SUFFICES ASSUME Init PROVE TypeOK /\ UploadInv
    OBVIOUS
  <2>1. sent \in Seq([metadata : BOOLEAN, bytes : Nat]) /\ Len(sent) = 0
    BY DEF Init
  <2>2. TypeOK
    BY <2>1 DEF Init, TypeOK
  <2>3. Accounting
    BY UploadAssumption DEF Init, Accounting
  <2>4. total_written = Len(sent) * UPLOAD_CHUNK_BYTES
    BY <2>1, UploadAssumption DEF Init
  <2>5. OnlyFullSoFar /\ WireContract
    BY <2>1, <2>4, UploadAssumption DEF Init, OnlyFullSoFar, WireContract
  <2>. QED BY <2>2, <2>3, <2>5 DEF Init, UploadInv, SendsWhole, LastIsRest, SameAsInMemory
<1>2. TypeOK /\ UploadInv /\ [Next]_vars => (TypeOK /\ UploadInv)'
  BY UploadTypeInductive, UploadInvInductive
<1>. QED BY <1>1, <1>2, PTL DEF Spec

(* The verdict of an upload fits its source: complete is exactly what was  *)
(* declared, an overflow had more, a short one less.                       *)
THEOREM VerdictFitsSourceHolds == Spec => []VerdictFitsSource
<1>1. TypeOK /\ UploadInv => VerdictFitsSource
  BY DEF UploadInv, Accounting, VerdictFitsSource
<1>. QED BY <1>1, UploadSafe, PTL

(* The server is never sent more than was declared, gets the metadata on   *)
(* the first message only, and full messages up to the last.               *)
THEOREM WireContractHolds == Spec => []WireContract
<1>1. UploadInv => WireContract
  BY DEF UploadInv
<1>. QED BY <1>1, UploadSafe, PTL

(* Wherever a source was cut, upload_file_chunked() sends the messages     *)
(* that upload_file() sends for the same bytes.                            *)
THEOREM SameAsInMemoryHolds == Spec => []SameAsInMemory
<1>1. UploadInv => SameAsInMemory
  BY DEF UploadInv
<1>. QED BY <1>1, UploadSafe, PTL
=============================================================================
