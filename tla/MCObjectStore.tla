----------------------------- MODULE MCObjectStore -----------------------------
(***************************************************************************)
(* Instances of ObjectStore for TLC.                                       *)
(***************************************************************************)
EXTENDS ObjectStore, TLC

CONSTANTS
  adder,     \* add: copies a file the user may be editing
  mover,     \* import --move within the cache's filesystem
  carrier,   \* import --move from another filesystem
  puller,    \* pull
  checker    \* pull --verify

\* Commands with three locks; the two moves share the import lock.
ThreeLocks == (adder :> "add") @@ (mover :> "import") @@ (carrier :> "import")
                @@ (puller :> "pull")

\* A move and a verifying pull: two adopts under different locks.
TwoAdoptLocks == (carrier :> "import") @@ (checker :> "pull")

MoveLock == (mover :> "import")
=============================================================================
