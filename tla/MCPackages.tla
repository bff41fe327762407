------------------------------- MODULE MCPackages ------------------------------
(* A virtual package and a package with a dependency. *)
EXTENDS Packages

MCPkg == {"a", "b"}
MCProvider == [v \in {"virtual"} |-> "b"]
MCWanted == <<"virtual", "a">>
================================================================================
