\* What the documentation of install_cert says of a failed installation.
SPECIFICATION Spec
CONSTANTS
  cert = cert
  key = key
  Key = {cert, key}
  Order <- CertThenKey
  Absent = Absent
  Original = Original
  Ours = Ours
  Partial = Partial
  Others = TRUE
  NoCall = NoCall
  Faults = {"io"}
INVARIANT FailedInstallUndone
\* The run is over.
CHECK_DEADLOCK FALSE
