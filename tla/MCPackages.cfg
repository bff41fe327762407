CONSTANTS
  Pkg <- MCPkg
  Provider <- MCProvider
  Wanted <- MCWanted
  Timeout = 1
  MaxFaults = 1
SPECIFICATION Spec
INVARIANTS TypeOK BackToEarliest UndoFits OnlyOurs Reported
PROPERTIES RunEnds
