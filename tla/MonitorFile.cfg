\* A log that is rotated and written in parts.
SPECIFICATION Spec
CONSTANTS
  NoIno = NoIno
  MaxInodes = 2
  MaxPieces = 3
INVARIANTS NoStaleMatch
PROPERTIES CallEnds SentinelFound
\* The call is over.
CHECK_DEADLOCK FALSE
