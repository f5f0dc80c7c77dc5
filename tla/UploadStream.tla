---------------------------- MODULE UploadStream ----------------------------
(***************************************************************************)
(* upload_file() and upload_file_chunked() of src/rociadb_sdk/file.py with *)
(* their generators, as gRPC pulls UploadRequest messages out of them:     *)
(* _chunk_upload_requests, which cuts a buffer held in memory and is the   *)
(* reference for what must be sent, and _rechunk_upload_requests, which    *)
(* cuts a source of arbitrary pieces.                                      *)
(*                                                                         *)
(* Bytes are counted and not stored: the buffer is a queue, so the bytes   *)
(* that were sent are always the first ones that were read.                *)
(***************************************************************************)
EXTENDS Integers, Sequences

CONSTANTS
  UPLOAD_CHUNK_BYTES,  \* size of every message but the last
  MAX_FILE_BYTES,      \* largest size_bytes that is not rejected
  CHECKSUM_LEN,        \* length a checksum must have
  Declared,            \* values of size_bytes
  ChecksumLens,        \* lengths of the checksums passed
  PieceSizes,          \* sizes of the pieces the source may yield
  MaxRead              \* bound on the bytes the source yields

ASSUME UploadAssumption ==
  /\ UPLOAD_CHUNK_BYTES \in Nat \ {0}
  /\ MAX_FILE_BYTES \in Nat
  /\ CHECKSUM_LEN \in Nat
  /\ Declared \subseteq Nat
  /\ ChecksumLens \subseteq Nat
  /\ PieceSizes \subseteq Nat
  /\ MaxRead \in Nat

VARIABLES
  method,         \* which of the two is called
  size_bytes,     \* the declared total, or the size of the buffer
  checksum_len,   \* length of the checksum passed, or none
  buffer,         \* bytes read and not sent yet
  total_written,  \* bytes sent
  wrote_any,      \* was a full message sent?
  first,          \* is the next message the first?
  sent,           \* the messages: does it carry the metadata, and how many bytes
  consumed,       \* bytes read from the source or taken from the buffer
  pc              \* where the generator is suspended, or how the upload ended

streamVars == <<method, size_bytes, checksum_len, buffer, total_written, wrote_any,
                first, sent, consumed>>
vars == <<streamVars, pc>>

NoChecksum == -1
Suspended == {"sending", "reading", "full", "flushed"}
UploadEnded == {"rejected", "overflow", "short", "source_failed", "aborted", "complete"}

TypeOK ==
  /\ method \in {"upload_file", "upload_file_chunked"}
  /\ size_bytes \in Declared
  /\ checksum_len \in ChecksumLens \cup {NoChecksum}
  /\ buffer \in Nat
  /\ total_written \in Nat
  /\ wrote_any \in BOOLEAN
  /\ first \in BOOLEAN
  /\ sent \in Seq([metadata : BOOLEAN, bytes : Nat])
  /\ consumed \in Nat
  /\ pc \in {"called"} \cup Suspended \cup UploadEnded

Init ==
  /\ method \in {"upload_file", "upload_file_chunked"}
  /\ size_bytes \in Declared
  /\ checksum_len \in ChecksumLens \cup (IF method = "upload_file" THEN {NoChecksum} ELSE {})
  /\ buffer = 0
  /\ total_written = 0
  /\ wrote_any = FALSE
  /\ first = TRUE
  /\ sent = <<>>
  /\ consumed = 0
  /\ pc = "called"

-----------------------------------------------------------------------------
(* Altered form: the last message is forgotten when it is short.           *)
ChunkUploadRequestsWithoutRest(n) ==
  IF n = 0
  THEN <<[metadata |-> TRUE, bytes |-> 0]>>
  ELSE [k \in 1 .. n \div UPLOAD_CHUNK_BYTES |->
          [metadata |-> k = 1, bytes |-> UPLOAD_CHUNK_BYTES]]

(* The messages for a buffer of n bytes held in memory: metadata on the    *)
(* first only, and one empty message for no bytes at all.                  *)
ChunkUploadRequests(n) ==
  IF n = 0
  THEN <<[metadata |-> TRUE, bytes |-> 0]>>
  ELSE [k \in 1 .. (n + UPLOAD_CHUNK_BYTES - 1) \div UPLOAD_CHUNK_BYTES |->
          LET start == (k - 1) * UPLOAD_CHUNK_BYTES
              left  == n - start
          IN  [metadata |-> k = 1,
               bytes |-> IF left < UPLOAD_CHUNK_BYTES THEN left ELSE UPLOAD_CHUNK_BYTES]]

(* _resolve_checksum computes the one that upload_file() was not given.    *)
ResolveChecksum == IF checksum_len = NoChecksum THEN CHECKSUM_LEN ELSE checksum_len

(* _validate_file_size and _require_checksum_len, before any RPC.          *)
Valid == size_bytes <= MAX_FILE_BYTES /\ ResolveChecksum = CHECKSUM_LEN

BeginUpload ==
  /\ pc = "called"
  /\ pc' = IF ~Valid THEN "rejected"
           ELSE IF method = "upload_file" THEN "sending" ELSE "reading"
  /\ UNCHANGED streamVars

(* upload_file(): the next message of the buffer, then the end.            *)
SendChunk ==
  /\ pc = "sending"
  /\ Len(sent) < Len(ChunkUploadRequests(size_bytes))
  /\ LET message == ChunkUploadRequests(size_bytes)[Len(sent) + 1]
     IN  /\ sent' = Append(sent, message)
         /\ total_written' = total_written + message.bytes
         /\ consumed' = consumed + message.bytes
  /\ first' = FALSE
  /\ UNCHANGED <<method, size_bytes, checksum_len, buffer, wrote_any, pc>>

BufferSent ==
  /\ pc = "sending"
  /\ Len(sent) = Len(ChunkUploadRequests(size_bytes))
  /\ pc' = "complete"
  /\ UNCHANGED streamVars

(* Altered forms of the check and of the final flush.                      *)
OverflowsLate(n) == total_written > size_bytes
NeedsFlushOfBufferOnly == buffer > 0

(* check_total and build_request.                                          *)
Overflows(n) == total_written + n > size_bytes
BuildRequest(n) ==
  /\ sent' = Append(sent, [metadata |-> first, bytes |-> n])
  /\ first' = FALSE

(* The source yields a piece; the generator goes on reading until it has a *)
(* full message.                                                           *)
NextPiece(n) ==
  /\ pc = "reading"
  /\ consumed + n <= MaxRead
  /\ consumed' = consumed + n
  /\ buffer' = buffer + n
  /\ pc' = IF buffer' >= UPLOAD_CHUNK_BYTES THEN "full" ELSE "reading"
  /\ UNCHANGED <<method, size_bytes, checksum_len, total_written, wrote_any, first, sent>>

(* One turn of the inner loop: pc is "full" while a full message is in     *)
(* the buffer.                                                             *)
SendFull ==
  /\ pc = "full"
  /\ ~Overflows(UPLOAD_CHUNK_BYTES)
  /\ BuildRequest(UPLOAD_CHUNK_BYTES)
  /\ buffer' = buffer - UPLOAD_CHUNK_BYTES
  /\ total_written' = total_written + UPLOAD_CHUNK_BYTES
  /\ wrote_any' = TRUE
  /\ pc' = IF buffer' >= UPLOAD_CHUNK_BYTES THEN "full" ELSE "reading"
  /\ UNCHANGED <<method, size_bytes, checksum_len, consumed>>

SendFullOverflows ==
  /\ pc = "full"
  /\ Overflows(UPLOAD_CHUNK_BYTES)
  /\ pc' = "overflow"
  /\ UNCHANGED streamVars

(* The source is exhausted: what is left, or an empty message if nothing   *)
(* was sent, goes out; then the total is compared.                         *)
NeedsFlush == buffer > 0 \/ ~wrote_any

SendRest ==
  /\ pc = "reading" /\ NeedsFlush
  /\ ~Overflows(buffer)
  /\ BuildRequest(buffer)
  /\ total_written' = total_written + buffer
  /\ pc' = "flushed"
  /\ UNCHANGED <<method, size_bytes, checksum_len, buffer, wrote_any, consumed>>

SendRestOverflows ==
  /\ pc = "reading" /\ NeedsFlush
  /\ Overflows(buffer)
  /\ pc' = "overflow"
  /\ UNCHANGED streamVars

(* Altered form: the generator ends without comparing the total.           *)
FinishUnchecked ==
  /\ pc = "flushed" \/ (pc = "reading" /\ ~NeedsFlush)
  /\ pc' = "complete"
  /\ UNCHANGED streamVars

(* The end of the generator: gRPC half-closes the stream and the server    *)
(* may accept the file, unless the total falls short.                      *)
Finish ==
  /\ pc = "flushed" \/ (pc = "reading" /\ ~NeedsFlush)
  /\ pc' = IF total_written # size_bytes THEN "short" ELSE "complete"
  /\ UNCHANGED streamVars

(* The source raises, or the call fails or is cancelled: the generator is  *)
(* not resumed and the stream is not half-closed.                          *)
Abort ==
  /\ pc \in Suspended
  /\ pc' \in {"aborted"} \cup (IF pc = "reading" THEN {"source_failed"} ELSE {})
  /\ UNCHANGED streamVars

Next == \/ BeginUpload \/ SendChunk \/ BufferSent
        \/ \E n \in PieceSizes : NextPiece(n)
        \/ SendFull \/ SendFullOverflows \/ SendRest \/ SendRestOverflows
        \/ Finish \/ Abort

Spec == Init /\ [][Next]_vars

-----------------------------------------------------------------------------
(* The verdict fits the source, although it is given while messages are    *)
(* under way: a stream that is half-closed holds exactly the file that was *)
(* declared, and the source had no more; a source of which a byte too many *)
(* was read is an overflow, and one that fell short was read to its end.   *)
VerdictFitsSource ==
  /\ pc = "complete" => total_written = size_bytes /\ consumed = size_bytes
  /\ pc = "overflow" => consumed > size_bytes
  /\ pc = "short" => consumed < size_bytes /\ total_written = consumed

(* Wherever the pieces were cut, the server is sent the messages that      *)
(* upload_file() sends for the same bytes.                                 *)
SameAsInMemory == pc = "complete" => sent = ChunkUploadRequests(size_bytes)

(* Whatever happens to the stream, the server never holds more than was    *)
(* declared, reads the metadata off the first message and nowhere else,    *)
(* and gets full messages up to the last.                                  *)
WireContract ==
  /\ total_written <= size_bytes
  /\ \A k \in 1 .. Len(sent) :
       /\ sent[k].metadata <=> k = 1
       /\ sent[k].bytes <= UPLOAD_CHUNK_BYTES
       /\ k < Len(sent) => sent[k].bytes = UPLOAD_CHUNK_BYTES
=============================================================================
