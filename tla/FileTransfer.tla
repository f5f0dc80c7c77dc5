---------------------------- MODULE FileTransfer ----------------------------
(***************************************************************************)
(* download_file_stream() and download_file() of src/rociadb_sdk/file.py,  *)
(* beside an upload of the same file.  The generator of                    *)
(* download_file_stream() opens the Download call when it is first asked   *)
(* for a chunk and cancels it in its `finally`, which runs when the call   *)
(* ends, when the consumer's task is cancelled inside the generator, when  *)
(* the consumer closes it, or, after a `break`, when the event loop        *)
(* finalizes the generator that nobody holds any more.                     *)
(*                                                                         *)
(* The server is outside src/: it stores the chunks of a stream that was   *)
(* half-closed and adds up to size_bytes, and a download reads the chunks  *)
(* of the file that was stored as it began, unless it fails on the way.    *)
(***************************************************************************)
EXTENDS UploadStream

CONSTANTS
  OlderFile,  \* the chunks of the file that the upload replaces
  MaxDeletes  \* bound on the times others delete the file

ASSUME TransferAssumption ==
  /\ OlderFile \in Seq(Nat)
  /\ MaxDeletes \in Nat

VARIABLES
  stored,     \* the chunks of the file the server has; NoFile is none
  deletes,    \* deletions so far
  form,       \* what is called to download
  offered,    \* what the server will send
  pieces,     \* what the generator has yielded
  dl_call,    \* the Download call
  generator,  \* the generator of download_file_stream()
  consumer    \* who iterates over it, or how that ended

downloadVars == <<form, offered, pieces, dl_call, generator, consumer>>
transferVars == <<vars, stored, deletes, downloadVars>>

NoFile == <<-1>>
Chunks(messages) == [k \in 1 .. Len(messages) |-> messages[k].bytes]
Total(chunks) ==
  LET sum[k \in 0 .. Len(chunks)] == IF k = 0 THEN 0 ELSE sum[k - 1] + chunks[k]
  IN  sum[Len(chunks)]

TransferTypeOK ==
  /\ TypeOK
  /\ stored \in Seq(Nat) \cup {NoFile}
  /\ deletes \in 0 .. MaxDeletes
  /\ form \in {"download_file_stream", "download_file"}
  /\ offered \in Seq(Nat) \cup {NoFile}
  /\ pieces \in Seq(Nat)
  /\ dl_call \in {"none", "open", "over", "cancelled"}
  /\ generator \in {"created", "awaiting", "yielded", "dropped", "over"}
  /\ consumer \in {"iterating", "stopped", "returned", "raised", "cancelled"}

TransferInit ==
  /\ Init
  /\ stored \in {NoFile, OlderFile}
  /\ deletes = 0
  /\ form \in {"download_file_stream", "download_file"}
  /\ offered = NoFile
  /\ pieces = <<>>
  /\ dl_call = "none"
  /\ generator = "created"
  /\ consumer = "iterating"

-----------------------------------------------------------------------------
(* The server's part of an upload: the file appears when its stream was    *)
(* half-closed and is whole, unless the server fails, and not before.      *)
Accepted(messages) ==
  /\ messages # <<>> /\ messages[1].metadata
  /\ ResolveChecksum = CHECKSUM_LEN
  /\ Total(Chunks(messages)) = size_bytes
  /\ \A k \in 1 .. Len(messages) : messages[k].bytes <= UPLOAD_CHUNK_BYTES

UploadStep ==
  /\ Next
  /\ stored' \in {stored} \cup (IF pc # "complete" /\ pc' = "complete" /\ Accepted(sent)
                              THEN {Chunks(sent)} ELSE {})
  /\ UNCHANGED <<deletes, downloadVars>>

(* delete_file(), by anybody.                                              *)
FileDeleted ==
  /\ deletes < MaxDeletes
  /\ deletes' = deletes + 1
  /\ stored' = NoFile
  /\ UNCHANGED <<vars, downloadVars>>

-----------------------------------------------------------------------------
(* Altered form: no `finally`.                                             *)
LeaveGeneratorOnly == generator' = "over" /\ UNCHANGED dl_call

(* The `finally` of the generator: call.cancel(), which does nothing to a  *)
(* call that is over.                                                      *)
LeaveGenerator ==
  /\ generator' = "over"
  /\ dl_call' = IF dl_call = "open" THEN "cancelled" ELSE dl_call

(* The first chunk is asked for: only now the call is made.                *)
BeginDownload ==
  /\ generator = "created" /\ consumer = "iterating"
  /\ dl_call' = "open"
  /\ offered' = stored
  /\ generator' = "awaiting"
  /\ UNCHANGED <<vars, stored, deletes, form, pieces, consumer>>

(* A message arrives; its chunk is yielded.                                *)
YieldChunk ==
  /\ generator = "awaiting" /\ dl_call = "open"
  /\ offered # NoFile /\ Len(pieces) < Len(offered)
  /\ pieces' = Append(pieces, offered[Len(pieces) + 1])
  /\ generator' = "yielded"
  /\ UNCHANGED <<vars, stored, deletes, form, offered, dl_call, consumer>>

NextChunk ==
  /\ generator = "yielded" /\ consumer = "iterating"
  /\ generator' = "awaiting"
  /\ UNCHANGED <<vars, stored, deletes, form, offered, pieces, dl_call, consumer>>

(* The stream ends with OK: so does the loop over it, and download_file()  *)
(* joins the pieces.                                                       *)
DownloadEnds ==
  /\ generator = "awaiting"
  /\ offered # NoFile /\ Len(pieces) = Len(offered)
  /\ generator' = "over" /\ dl_call' = "over"
  /\ consumer' = "returned"
  /\ UNCHANGED <<vars, stored, deletes, form, offered, pieces>>

(* Altered form: a call that fails is made again, and the loop goes on.    *)
DownloadFailsRetrying ==
  /\ generator = "awaiting"
  /\ offered' = stored
  /\ UNCHANGED <<vars, stored, deletes, form, pieces, dl_call, generator, consumer>>

(* A status, NOT_FOUND or one in the middle of the stream, is raised as a  *)
(* RociaDbStatusError.                                                     *)
DownloadFails ==
  /\ generator = "awaiting"
  /\ generator' = "over" /\ dl_call' = "over"
  /\ consumer' = "raised"
  /\ UNCHANGED <<vars, stored, deletes, form, offered, pieces>>

(* The consumer's task is cancelled as it waits for a chunk: the exception *)
(* passes through the generator.                                           *)
CancelledAwaiting ==
  /\ generator = "awaiting"
  /\ LeaveGenerator
  /\ consumer' = "cancelled"
  /\ UNCHANGED <<vars, stored, deletes, form, offered, pieces>>

(* The consumer closes the generator, which may not have been started.     *)
AcloseGenerator ==
  /\ form = "download_file_stream" /\ consumer = "iterating"
  /\ generator \in {"created", "yielded"}
  /\ LeaveGenerator
  /\ consumer' = "returned"
  /\ UNCHANGED <<vars, stored, deletes, form, offered, pieces>>

(* The body of the loop breaks, raises, or is cancelled at an await of its *)
(* own: nobody holds the generator any more.                               *)
StopIterating ==
  /\ form = "download_file_stream" /\ consumer = "iterating"
  /\ generator = "yielded"
  /\ generator' = "dropped"
  /\ consumer' = "stopped"
  /\ UNCHANGED <<vars, stored, deletes, form, offered, pieces, dl_call>>

(* The finalizer hook of the event loop closes it, in a task of its own.   *)
FinalizeGenerator ==
  /\ generator = "dropped"
  /\ LeaveGenerator
  /\ UNCHANGED <<vars, stored, deletes, form, offered, pieces, consumer>>

DownloadStep == \/ BeginDownload \/ YieldChunk \/ NextChunk \/ DownloadEnds \/ DownloadFails
                \/ CancelledAwaiting \/ AcloseGenerator \/ StopIterating \/ FinalizeGenerator

TransferNext == UploadStep \/ FileDeleted \/ DownloadStep

(* Of all this only the event loop's finalizer is sure to run: a server    *)
(* that stops sending leaves a consumer waiting, as no deadline is set.    *)
TransferSpec == /\ TransferInit /\ [][TransferNext]_transferVars
                /\ WF_transferVars(FinalizeGenerator)

-----------------------------------------------------------------------------
(* The server never has a reason to reject an upload at its end: the bytes *)
(* in the messages, and not only the generator's count of them, are as     *)
(* many as the first message declared, whichever method cut them.          *)
CompleteIsAccepted == pc = "complete" => Accepted(sent)

ReadWhole == consumer = "returned" /\ dl_call = "over"

(* A download that ends without an exception, unless its consumer stopped  *)
(* it, has read one whole file: the one before or the one uploaded, never  *)
(* a part of either, whatever fails, is cancelled, replaced or deleted     *)
(* meanwhile.                                                              *)
DownloadIsWhole ==
  ReadWhole =>
    \/ pieces = OlderFile
    \/ pc = "complete" /\ Total(pieces) = size_bytes

(* An upload and a download as one step each; InMemory is the file that    *)
(* upload_file() would send.                                               *)
InMemory == Chunks(ChunkUploadRequests(size_bytes))
UploadStage == IF pc = "complete" THEN "sent" ELSE IF pc \in UploadEnded THEN "given_up" ELSE "open"
DownloadStage == IF ReadWhole THEN "whole" ELSE IF consumer # "iterating" THEN "given_up"
                 ELSE IF generator = "created" THEN "idle" ELSE "reading"
Result == IF ReadWhole THEN pieces ELSE <<>>
Store == INSTANCE FileStore WITH
  file <- stored, new <- InMemory, upload <- UploadStage,
  snapshot <- offered, download <- DownloadStage, result <- Result

(* Streams, buffers and generators do not show: together, uploads and      *)
(* downloads are a FileStore.  The file is replaced at one moment and by   *)
(* what upload_file() would have sent, whichever method sent it in which   *)
(* pieces; an upload that overflows, falls short, fails or is cancelled    *)
(* replaces nothing; and a download returns the file as it was when the    *)
(* call began, whatever happens to it meanwhile.                           *)
KeepsStore == Store!StoreSpec

(* When the consumer is back from the generator, however that ended, the   *)
(* call is over.                                                           *)
CallReleased == consumer \in {"returned", "raised", "cancelled"} => dl_call # "open"

(* When the consumer broke out of its loop, the call is open only as long  *)
(* as the finalizer has still to run, which waits for nobody.              *)
StoppedIsHeard == consumer = "stopped" => \/ dl_call = "cancelled"
                                          \/ dl_call = "open" /\ generator = "dropped"

(* A consumer that breaks out of its loop leaves a call that is cancelled  *)
(* a moment later.                                                         *)
StoppedIsCancelled == consumer = "stopped" ~> dl_call = "cancelled"
=============================================================================
