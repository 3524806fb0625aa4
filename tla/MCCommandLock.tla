---------------------------- MODULE MCCommandLock ----------------------------
(***************************************************************************)
(* Instances of CommandLock for TLC: three processes are enough for one    *)
(* that holds and dies, one that reads its owner file and one that takes   *)
(* the lock in between.                                                    *)
(***************************************************************************)
EXTENDS CommandLock

CONSTANTS p1, p2, p3

TwoProcesses == {p1, p2}
ThreeProcesses == {p1, p2, p3}
=============================================================================
