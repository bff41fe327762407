\* Four pairs of tests; every subset of services that run before.
SPECIFICATION Spec
CONSTANTS
  Service = {"mariadb", "munge", "xrootd", "voms"}
  Timeout = 2
  NoCall = NoCall
  MaxFaults = 2
INVARIANTS TypeOK FilesAsFound ServicesAsFound VoRemoved DataKept
PROPERTIES KeyBackWhenDown
\* The run is over.
CHECK_DEADLOCK FALSE
