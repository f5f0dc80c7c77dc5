--------------------------- MODULE MCFileTransfer ---------------------------
(***************************************************************************)
(* Instances of FileTransfer for TLC: chunks of three bytes, files of up   *)
(* to three chunks and one more byte than may be declared, over a file     *)
(* whose chunks were cut otherwise.                                        *)
(***************************************************************************)
EXTENDS FileTransfer

MCDeclared == 0 .. 10
MCPieces   == 0 .. 7
MCOlder    == <<2, 3>>
=============================================================================
