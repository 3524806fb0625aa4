---------------------------- MODULE MCWorkspace ----------------------------
(* Two processes of every kind on one clone, with both defaults and one directory of the
   user's that has two names. *)
EXTENDS Workspace

CONSTANTS p1, p2

MCProcs == {p1, p2}
MCCaches == {"old", "private", "own"}
MCPaths == MCCaches \cup {"alias"}
MCTarget == [x \in MCPaths |-> IF x = "alias" THEN "own" ELSE x]
=============================================================================
