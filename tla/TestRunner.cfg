\* Two tests and two of special_cleanup; every result of every stage.
SPECIFICATION Spec
CONSTANTS
  NTests = 4
  CleanupFrom = 3
INVARIANTS TypeOK ExitCodeTrue CleanupRuns
PROPERTIES StopOnFailure RunEnds
\* The run is over.
CHECK_DEADLOCK FALSE
