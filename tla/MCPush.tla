--------------------------------- MODULE MCPush ---------------------------------
(***************************************************************************)
(* Instances of Push for TLC: two machines under two user names that push  *)
(* to one remote.                                                          *)
(***************************************************************************)
EXTENDS Push, TLC

CONSTANTS laptop, server, o1, o2, alice, bob

TwoUsers == (laptop :> alice) @@ (server :> bob)

\* The server sends one object only, which the laptop sends too.
Overlapping == (laptop :> {o1, o2}) @@ (server :> {o1})
=============================================================================
