\* Two components that modify the same file, every call and fault.
SPECIFICATION Spec
CONSTANTS
  p1 = p1
  l1 = l1
  root = root
  user = user
  Path = {p1}
  Owner = {o1, o2}
  Basename <- OneName
  Line = {l1, l2}
  Uid = {root, user}
  Mode = {"0600", "0644"}
  Root = root
  CopyMode = "0644"
  WriteMode = "0600"
  Original <- MCOriginal
  NewAttr <- MCNewAttr
  NoFile = NoFile
  Unregistered = Unregistered
  Nothing = Nothing
  NoCall = NoCall
  Faults = {"crash", "interrupt", "io"}
INVARIANTS TypeOK RegistryMatchesDirectory
PROPERTIES BackupNeverOverwritten StoreSpec
