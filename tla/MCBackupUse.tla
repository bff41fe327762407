------------------------------ MODULE MCBackupUse ------------------------------
(* Small instances of BackupUse. *)
EXTENDS BackupUse, TLC

CONSTANTS p1, p2, l1, root, user

MCOriginal == {[text |-> {l1}, mode |-> "0644", own |-> user]}
MCNewAttr == {<<root, "0600">>, <<root, "0644">>}
OneModeAttr == {<<root, "0644">>}

DistinctNames == p1 :> "name1" @@ p2 :> "name2"
SameName == p1 :> "name" @@ p2 :> "name"

================================================================================
