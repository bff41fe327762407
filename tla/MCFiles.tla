-------------------------------- MODULE MCFiles --------------------------------
(* A small instance of Files: two components and one file.                 *)
EXTENDS Files, TLC

CONSTANTS p1, l1, root, user

MCOriginal == {[text |-> {l1}, mode |-> "0644", own |-> user]}
MCNewAttr == {<<root, "0600">>, <<root, "0644">>}
OneName == p1 :> "name1"

================================================================================
