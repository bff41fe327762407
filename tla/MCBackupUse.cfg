\* Crashes, reruns, interrupts and I/O errors over one file with two owners.
SPECIFICATION UseSpec
CONSTANTS
  p1 = p1
  p2 = p2
  l1 = l1
  root = root
  user = user
  Path = {p1}
  Owner = {o1, o2}
  Basename <- DistinctNames
  Line = {l1, l2}
  Uid = {root, user}
  Mode = {"0644"}
  Root = root
  CopyMode = "0644"
  WriteMode = "0644"
  Original <- MCOriginal
  NewAttr <- OneModeAttr
  NoFile = NoFile
  Unregistered = Unregistered
  Nothing = Nothing
  NoCall = NoCall
  Faults = {"crash", "interrupt", "late interrupt", "io"}

INVARIANTS PristineUnlessDisturbed OriginalNeverLost
