----------------------------- MODULE MCReports -----------------------------
(* One object that other commands touch, and one that only the report reads. *)
EXTENDS Reports

MCObjects == {"o1", "o2"}
MCShared == {"o1"}
=============================================================================
