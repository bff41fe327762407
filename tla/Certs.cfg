\* A certificate and its key, installed and removed once, every failure.
SPECIFICATION Spec
CONSTANTS
  cert = cert
  key = key
  Key = {cert, key}
  Order <- CertThenKey
  Absent = Absent
  Original = Original
  Ours = Ours
  Partial = Partial
  Others = TRUE
  NoCall = NoCall
  Faults = {"io", "interrupt"}
INVARIANTS TypeOK OriginalKept Undone
\* The run is over.
CHECK_DEADLOCK FALSE
