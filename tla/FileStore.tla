------------------------------ MODULE FileStore ------------------------------
(***************************************************************************)
(* What the uploads and downloads of src/rociadb_sdk/file.py promise of    *)
(* one file, without messages, buffers or generators: an upload replaces   *)
(* the file at one moment or not at all, and a download that succeeds has  *)
(* what the file was at one moment after it began.                         *)
(***************************************************************************)
EXTENDS Integers, Sequences

VARIABLES
  file,      \* the chunks of the file, or NoFile
  new,       \* the chunks that upload_file() would send for the bytes to be uploaded
  upload,    \* "open", "sent" to its end, or "given_up"
  snapshot,  \* the file as a download found it
  download,  \* "idle", "reading", "whole", or "given_up"
  result     \* what a download has that succeeded

storeVars == <<file, new, upload, snapshot, download, result>>

NoFile == <<-1>>
Files  == Seq(Nat) \cup {NoFile}

StoreInit ==
  /\ file \in Files
  /\ new \in Seq(Nat)
  /\ upload = "open"
  /\ snapshot = NoFile
  /\ download = "idle"
  /\ result = <<>>

-----------------------------------------------------------------------------
(* The last message was sent: the server stores the file, or fails.        *)
Put ==
  /\ upload = "open"
  /\ upload' = "sent"
  /\ file' \in {file, new}
  /\ UNCHANGED <<new, snapshot, download, result>>

GiveUpUpload ==
  /\ upload = "open"
  /\ upload' = "given_up"
  /\ UNCHANGED <<file, new, snapshot, download, result>>

Delete ==
  /\ file' = NoFile
  /\ UNCHANGED <<new, upload, snapshot, download, result>>

BeginRead ==
  /\ download = "idle"
  /\ download' = "reading"
  /\ snapshot' = file
  /\ UNCHANGED <<file, new, upload, result>>

EndRead ==
  /\ download = "reading" /\ snapshot # NoFile
  /\ download' = "whole"
  /\ result' = snapshot
  /\ UNCHANGED <<file, new, upload, snapshot>>

(* An error, a cancellation, or a consumer that stops.                     *)
GiveUpRead ==
  /\ download \in {"idle", "reading"}
  /\ download' = "given_up"
  /\ UNCHANGED <<file, new, upload, snapshot, result>>

StoreNext == Put \/ GiveUpUpload \/ Delete \/ BeginRead \/ EndRead \/ GiveUpRead

StoreSpec == StoreInit /\ [][StoreNext]_storeVars
=============================================================================
