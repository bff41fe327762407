\* One command, every end of it, with and without a time limit.
SPECIFICATION Spec
CONSTANTS
  ExitCodes = {0, 1}
  Unknown = Unknown
INVARIANTS TypeOK StatusTrue WatcherGone CloneOnlyWhen
PROPERTIES CallEnds CommandIsStopped
\* The call is over and every process has ended.
CHECK_DEADLOCK FALSE
