----------------------------- MODULE ContentStore -----------------------------
(***************************************************************************)
(* What the cache promises of the path of one object, whoever works on it: *)
(* the path holds nothing, a file somebody else put there that is still    *)
(* to be checked, or a complete file, and it goes from one to another in   *)
(* one step (trait Store and trait PullStore, ports/store.rs).             *)
(***************************************************************************)
VARIABLE slot

\* "absent"    no file at the object's path
\* "unchecked" a writable file: not trusted, not yet hashed
\* "intact"    a read-only file with the bytes the path is named for
\* "trusted"   a read-only file whose bytes nobody hashed
Contents == {"absent", "unchecked", "intact", "trusted"}

Init == slot \in {"absent", "unchecked", "intact"}

\* A verified copy appears, complete, at the path.
Publish == slot' = "intact"

\* pull takes a download from the remote at its word.
Accept == slot' \in {"intact", "trusted"}

\* An unchecked file turns out to be right and is protected.
Protect == slot = "unchecked" /\ slot' = "intact"

Evict == slot' = "absent"

Next == Publish \/ Accept \/ Protect \/ Evict

Spec == Init /\ [][Next]_slot
=============================================================================
