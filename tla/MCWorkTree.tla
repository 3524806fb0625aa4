------------------------------ MODULE MCWorkTree ------------------------------
(***************************************************************************)
(* An instance of WorkTree for TLC.                                        *)
(***************************************************************************)
EXTENDS WorkTree, TLC

CONSTANTS adder, importer, mover, pruner, remover,
  data, archive,   \* folders at different depths
  gitsfs,          \* .git-sfs
  n1, d1, d2,
  s1, l1, l2       \* a file and two symlinks outside

Depths == (data :> 1) @@ (archive :> 2)

\* A link to the file beside it, and one of another clone, to an object of the
\* cache that the two share.
Links == (l1 :> s1) @@ (l2 :> d1)

Goes(s, f) == [src |-> s, dst |-> [dir |-> f, name |-> n1]]

\* A file and a link to it; a link to an object; what is never accepted.
Arguments == importer :> {{Goes(s1, archive), Goes(l1, data)}, {Goes(l2, archive)},
                          {Goes(s1, data), Goes(l1, data)}, {Goes(s1, gitsfs)}}

\* Of the two evictions only one runs.
OneEviction == pc[pruner] = "idle" \/ pc[remover] = "idle"
=============================================================================
