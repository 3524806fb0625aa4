---------------------------- MODULE MCRcloneRun ----------------------------
(* RcloneRun with two runs at most and streams shorter than their output. *)
EXTENDS RcloneRun
=============================================================================
