CONSTANTS
  Pkg <- MCPkg
  Provider <- MCProvider
  Wanted <- MCWanted
  Timeout = 1
  MaxFaults = 0
SPECIFICATION Spec
INVARIANTS OrphanWasFound
