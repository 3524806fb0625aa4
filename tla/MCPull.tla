--------------------------------- MODULE MCPull ---------------------------------
(***************************************************************************)
(* Instances of Pull for TLC: two objects, one worker or two.              *)
(***************************************************************************)
EXTENDS Pull

CONSTANTS o1, o2

Both == {o1, o2}
=============================================================================
