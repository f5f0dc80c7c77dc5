SPECIFICATION TransferSpec
CONSTANTS
  UPLOAD_CHUNK_BYTES = 3
  MAX_FILE_BYTES = 9
  CHECKSUM_LEN = 32
  Declared <- MCDeclared
  ChecksumLens = {31, 32}
  PieceSizes <- MCPieces
  MaxRead = 11
  OlderFile <- MCOlder
  MaxDeletes = 1
CHECK_DEADLOCK FALSE
INVARIANTS
  VerdictFitsSource
  SameAsInMemory
  WireContract
  CompleteIsAccepted
  CallReleased
PROPERTIES
  StoppedIsCancelled
  KeepsStore
