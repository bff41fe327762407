\* Two files of one name that one component preserves and removes.
SPECIFICATION UseSpec
CONSTANTS
  p1 = p1
  p2 = p2
  l1 = l1
  root = root
  user = user
  Path = {p1, p2}
  Owner = {o1}
  Basename <- SameName
  Line = {l1, l2}
  Uid = {root, user}
  Mode = {"0600", "0644"}
  Root = root
  CopyMode = "0644"
  WriteMode = "0600"
  Original <- MCOriginal
  NewAttr <- MCNewAttr
  NoFile = NoFile
  Unregistered = Unregistered
  Nothing = Nothing
  NoCall = NoCall
  Faults = {}
INVARIANT PristineWhenReleased

