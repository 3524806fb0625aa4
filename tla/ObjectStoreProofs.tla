--------------------------- MODULE ObjectStoreProofs ---------------------------
(***************************************************************************)
(* Theorems about ObjectStore for any number of operations.                *)
(*                                                                         *)
(* The argument: adopts that share one lock are never in the middle of     *)
(* their work together, so the file an adopt has staged is the one it      *)
(* verified, and a copy still being written is never renamed to the        *)
(* object's path.  Every rename to that path is then of a verified file or *)
(* of a download pull was told to trust.                                   *)
(***************************************************************************)
EXTENDS ObjectStore, TLAPS

\* What the comment in adopt says of its callers, and that nobody writes to a
\* file while it is being moved.
AdoptsUndisturbed ==
  /\ \A p, q \in Adopts : LockOf[p] = LockOf[q]
  /\ Editable \cap Adopts = {}

\* Every stage belongs to one kind of operation.
KindsOK ==
  \A p \in Op :
    /\ pc[p] \in {"copy", "check"} => p \in Stores
    /\ pc[p] \in {"hash", "stage", "write", "recheck", "drop", "seal"} => p \in Adopts
    /\ pc[p] \in {"compare", "consume"} => p \notin Stores
    /\ pc[p] = "download" => p \in Trusts

\* An operation has its source until it consumes it, and a store its copy from
\* the time it is made.
SourcesOK ==
  \A p \in Op :
    /\ pc[p] \notin Ended \cup {"seal", "publish"} => source[p] # NoFile
    /\ source[p] # NoFile => source[p].by = p
    /\ pc[p] = "check" => copy[p] # NoFile

\* A descriptor is open only while it is written to, on a file that is there.
DescriptorsOK ==
  \A p \in Op :
    /\ fd[p] # "closed" => pc[p] = "write"
    /\ fd[p] = "staged" => staged # NoFile
    /\ fd[p] = "object" => object # NoFile

\* The variables keep their types, with the facts the types rest on.
TypeInv == TypeOK /\ KindsOK /\ SourcesOK /\ DescriptorsOK

LEMMA TypeInvInit == Init => TypeInv
<1> SUFFICES ASSUME Init PROVE TypeInv
  OBVIOUS
<1>1. TypeOK
  BY DEF Init, TypeOK, Stages
<1>2. KindsOK /\ DescriptorsOK
  BY DEF Init, KindsOK, DescriptorsOK
<1>3. SourcesOK
  BY NoFileAssumption DEF Init, SourcesOK
<1>4. QED
  BY <1>1, <1>2, <1>3 DEF TypeInv

LEMMA TypeInvStep == TypeInv /\ [Next]_vars => TypeInv'
<1> SUFFICES ASSUME TypeInv, [Next]_vars PROVE TypeInv'
  OBVIOUS
<1> USE OpAssumption, NoFileAssumption
    DEF TypeInv, TypeOK, KindsOK, SourcesOK, DescriptorsOK, Stages, Ended, Op, Goto
<1>1. ASSUME NEW p \in Op, Start(p) \/ Stat(p) \/ Rehash(p) \/ Compare(p)
      PROVE  TypeInv'
  BY <1>1 DEF Start, Stat, Rehash, Compare, OnHit, OnMiss
<1>2. ASSUME NEW p \in Op, Protect(p)
      PROVE  TypeInv'
  BY <1>2 DEF Protect, OnHit, File
<1>3. ASSUME NEW p \in Op, Consume(p) \/ HashSource(p) \/ DropSource(p)
      PROVE  TypeInv'
  BY <1>3 DEF Consume, HashSource, DropSource
<1>4. ASSUME NEW p \in Op, CopySource(p)
      PROVE  TypeInv'
  BY <1>4 DEF CopySource, Fresh, File
<1>5. ASSUME NEW p \in Op, CheckCopy(p)
      PROVE  TypeInv'
  BY <1>5 DEF CheckCopy, File, Good
<1>6. ASSUME NEW p \in Op, PublishCopy(p)
      PROVE  TypeInv'
  BY <1>6 DEF PublishCopy, Relink
<1>7. ASSUME NEW p \in Op, StageByRename(p)
      PROVE  TypeInv'
  BY <1>7 DEF StageByRename, Relink
<1>8. ASSUME NEW p \in Op, StageByCopy(p)
      PROVE  TypeInv'
  BY <1>8 DEF StageByCopy, Fresh, File
<1>9. ASSUME NEW p \in Op, WriteStaged(p)
      PROVE  TypeInv'
  BY <1>9 DEF WriteStaged, WriteThrough, File
<1>10. ASSUME NEW p \in Op, Recheck(p)
       PROVE  TypeInv'
  BY <1>10 DEF Recheck, Relink
<1>11. ASSUME NEW p \in Op, Seal(p)
       PROVE  TypeInv'
  BY <1>11 DEF Seal, File
<1>12. ASSUME NEW p \in Op, PublishStaged(p)
       PROVE  TypeInv'
  BY <1>12 DEF PublishStaged, Relink
<1>13. ASSUME NEW p \in Op, PublishDownload(p)
       PROVE  TypeInv'
  BY <1>13 DEF PublishDownload, Relink, File
<1>14. ASSUME NEW p \in Op, Fail(p) \/ Kill(p)
       PROVE  TypeInv'
  BY <1>14 DEF Fail, Kill
<1>15. ASSUME NEW p \in Op, Edit(p)
       PROVE  TypeInv'
  BY <1>15 DEF Edit, File, Good
<1>16. CASE Evict
  BY <1>16 DEF Evict, Relink
<1>17. CASE StagedAges
  BY <1>17 DEF StagedAges, File
<1>18. CASE Purge
  BY <1>18 DEF Purge, Relink
<1>19. CASE UNCHANGED vars
  BY <1>19 DEF vars
<1>20. QED
  BY <1>1, <1>2, <1>3, <1>4, <1>5, <1>6, <1>7, <1>8, <1>9, <1>10, <1>11, <1>12,
     <1>13, <1>14, <1>15, <1>16, <1>17, <1>18, <1>19 DEF Next, Step

\* The variables of ObjectStore keep their types, whatever the operations do.
THEOREM TypeCorrect == Spec => []TypeOK
<1>1. TypeInv => TypeOK
  BY DEF TypeInv
<1>2. QED
  BY <1>1, TypeInvInit, TypeInvStep, PTL DEF Spec

-----------------------------------------------------------------------------

\* Operations under one lock do not run together.
LocksOK ==
  \A p, q \in Op : Running(p) /\ Running(q) /\ LockOf[p] = LockOf[q] => p = q

\* No descriptor follows a file to the object's path, and the file an adopt
\* has staged is the one it verified.
StagingOK ==
  /\ \A p \in Op : fd[p] # "object"
  /\ \A p \in Adopts :
       /\ pc[p] = "stage" => Good(source[p])
       /\ pc[p] \in {"drop", "seal", "publish"} /\ staged # NoFile => Good(staged)
       /\ pc[p] = "publish" /\ staged # NoFile => ReadOnly(staged)

\* A copy about to be published is verified and protected.
CopiesOK ==
  \A p \in Stores : pc[p] = "publish" => Good(copy[p]) /\ ReadOnly(copy[p])

\* An object about to be protected is either protected already or verified.
ProtectsOK ==
  (\E p \in Op : pc[p] = "protect") /\ object # NoFile =>
    Good(object) \/ ReadOnly(object)

\* The inductive invariant behind SealedIsIntact.
StoreInv ==
  TypeInv /\ LocksOK /\ StagingOK /\ CopiesOK /\ ProtectsOK /\ SealedIsIntact

LEMMA LocksStep == TypeInv /\ LocksOK /\ [Next]_vars => LocksOK'
<1> SUFFICES ASSUME TypeInv, LocksOK, [Next]_vars PROVE LocksOK'
  OBVIOUS
<1> USE DEF TypeInv, TypeOK, LocksOK, Running, Ended, Goto
<1>1. ASSUME NEW p \in Op, Start(p)
      PROVE  LocksOK'
  BY <1>1 DEF Start
<1>2. ASSUME NEW p \in Op, pc[p] \notin Ended \cup {"idle"},
             \E stage : pc' = [pc EXCEPT ![p] = stage]
      PROVE  LocksOK'
  BY <1>2
<1>3. ASSUME NEW p \in Op, Step(p) \/ Fail(p) \/ Kill(p), ~Start(p)
      PROVE  pc[p] \notin Ended \cup {"idle"} /\ \E stage : pc' = [pc EXCEPT ![p] = stage]
  BY <1>3 DEF Step, Stat, Rehash, Protect, Compare, Consume, CopySource, CheckCopy,
     PublishCopy, HashSource, StageByRename, StageByCopy, WriteStaged, Recheck,
     DropSource, Seal, PublishStaged, PublishDownload, Fail, Kill
<1>4. CASE \/ \E p \in Op : Edit(p)
           \/ Evict \/ StagedAges \/ Purge \/ UNCHANGED vars
  BY <1>4 DEF Edit, Evict, StagedAges, Purge, vars
<1>5. QED
  BY <1>1, <1>2, <1>3, <1>4 DEF Next

\* Two adopts are never in the middle of their work together.
LEMMA OneAdoptRuns ==
  ASSUME AdoptsUndisturbed, LocksOK, NEW p \in Adopts, NEW q \in Adopts,
         Running(p), Running(q)
  PROVE  p = q
BY DEF AdoptsUndisturbed, LocksOK, Op

LEMMA StagingStep ==
  ASSUME AdoptsUndisturbed, TypeInv, LocksOK, StagingOK, [Next]_vars
  PROVE  StagingOK'
<1> USE OpAssumption, NoFileAssumption
    DEF TypeInv, TypeOK, KindsOK, SourcesOK, DescriptorsOK, StagingOK, Op, Goto,
        Good, ReadOnly
\* Steps that leave the staging path and the descriptors alone.
<1>1. ASSUME NEW p \in Op,
             Start(p) \/ Stat(p) \/ Rehash(p) \/ Protect(p) \/ Compare(p) \/ Consume(p)
               \/ CopySource(p) \/ CheckCopy(p) \/ HashSource(p) \/ DropSource(p)
               \/ Fail(p) \/ Kill(p)
      PROVE  StagingOK'
  BY <1>1 DEF Start, Stat, Rehash, Protect, Compare, Consume, CopySource, CheckCopy,
     HashSource, DropSource, Fail, Kill, OnHit, OnMiss
<1>2. ASSUME NEW p \in Op, PublishCopy(p) \/ PublishDownload(p)
      PROVE  StagingOK'
  BY <1>2 DEF PublishCopy, PublishDownload, Relink
\* Steps on the staging path: no other adopt is in the middle of its work.
<1>3. ASSUME NEW p \in Op,
             StageByRename(p) \/ StageByCopy(p) \/ WriteStaged(p) \/ Recheck(p)
               \/ Seal(p) \/ PublishStaged(p),
             NEW q \in Adopts, q # p
      PROVE  ~Running(q)
  <2>1. p \in Adopts /\ Running(p)
    BY <1>3 DEF StageByRename, StageByCopy, WriteStaged, Recheck, Seal, PublishStaged,
       Running, Ended
  <2>2. QED
    BY <1>3, <2>1, OneAdoptRuns
<1>4. ASSUME NEW p \in Op, StageByRename(p)
      PROVE  StagingOK'
  BY <1>3, <1>4 DEF StageByRename, Relink, Running, Ended
<1>5. ASSUME NEW p \in Op, StageByCopy(p)
      PROVE  StagingOK'
  <2>1. \A q \in Op : fd'[q] # "object"
    BY <1>5 DEF StageByCopy
  <2>2. \A q \in Adopts : pc'[q] \notin {"stage", "drop", "seal", "publish"}
    <3>1. pc'[p] \in {"failed", "write"}
      BY <1>5 DEF StageByCopy
    <3>2. \A q \in Adopts : q # p => pc'[q] = pc[q] /\ pc[q] \in Ended \cup {"idle"}
      <4>1. \A q \in Adopts : q # p => pc[q] \in Ended \cup {"idle"}
        BY <1>3, <1>5 DEF Running
      <4>2. \A q \in Op : q # p => pc'[q] = pc[q]
        BY <1>5 DEF StageByCopy
      <4>3. QED
        BY <4>1, <4>2
    <3>3. QED
      BY <3>1, <3>2 DEF Ended
  <2>3. QED
    BY <2>1, <2>2
<1>6. ASSUME NEW p \in Op, WriteStaged(p)
      PROVE  StagingOK'
  <2>1. \A q \in Op : fd'[q] # "object"
    BY <1>6 DEF WriteStaged, WriteThrough
  <2>2. \A q \in Adopts : pc'[q] \notin {"stage", "drop", "seal", "publish"}
    BY <1>3, <1>6 DEF WriteStaged, Running, Ended
  <2>3. QED
    BY <2>1, <2>2
<1>7. ASSUME NEW p \in Op, Recheck(p)
      PROVE  StagingOK'
  BY <1>3, <1>7 DEF Recheck, Relink, Running, Ended
<1>8. ASSUME NEW p \in Op, Seal(p)
      PROVE  StagingOK'
  BY <1>3, <1>8 DEF Seal, File, Running, Ended
<1>9. ASSUME NEW p \in Op, PublishStaged(p)
      PROVE  StagingOK'
  <2>1. p \in Adopts /\ fd[p] = "closed" /\ \A q \in Op : fd[q] = "closed"
    <3>1. p \in Adopts /\ pc[p] = "publish"
      BY <1>9 DEF PublishStaged
    <3>2. ASSUME NEW q \in Op, fd[q] # "closed" PROVE FALSE
      BY <1>3, <1>9, <3>1, <3>2 DEF Running, Ended
    <3>3. QED
      BY <3>1, <3>2
  <2>2. QED
    BY <1>3, <1>9, <2>1 DEF PublishStaged, Relink, Running, Ended
<1>10. ASSUME NEW p \in Op, Edit(p)
       PROVE  StagingOK'
  BY <1>10 DEF Edit, AdoptsUndisturbed
<1>11. CASE Evict \/ Purge
  BY <1>11 DEF Evict, Purge, Relink
<1>12. CASE StagedAges
  BY <1>12 DEF StagedAges, File
<1>13. CASE UNCHANGED vars
  BY <1>13 DEF vars
<1>14. QED
  BY <1>1, <1>2, <1>4, <1>5, <1>6, <1>7, <1>8, <1>9, <1>10, <1>11, <1>12, <1>13
     DEF Next, Step

LEMMA CopiesStep ==
  TypeInv /\ CopiesOK /\ [Next]_vars => CopiesOK'
<1> SUFFICES ASSUME TypeInv, CopiesOK, [Next]_vars PROVE CopiesOK'
  OBVIOUS
<1> USE OpAssumption, NoFileAssumption
    DEF TypeInv, TypeOK, KindsOK, CopiesOK, Op, Goto, Good, ReadOnly
<1>1. ASSUME NEW p \in Op, CheckCopy(p)
      PROVE  CopiesOK'
  BY <1>1 DEF CheckCopy, File
<1>2. ASSUME NEW p \in Op, CopySource(p) \/ PublishCopy(p) \/ Fail(p) \/ Kill(p)
      PROVE  CopiesOK'
  BY <1>2 DEF CopySource, PublishCopy, Fail, Kill
<1>3. ASSUME NEW p \in Op,
             Start(p) \/ Stat(p) \/ Rehash(p) \/ Protect(p) \/ Compare(p) \/ Consume(p)
               \/ HashSource(p) \/ StageByRename(p) \/ StageByCopy(p) \/ WriteStaged(p)
               \/ Recheck(p) \/ DropSource(p) \/ PublishDownload(p) \/ Edit(p)
      PROVE  CopiesOK'
  BY <1>3 DEF Start, Stat, Rehash, Protect, Compare, Consume, HashSource, StageByRename,
     StageByCopy, WriteStaged, Recheck, DropSource, PublishDownload, Edit, OnHit, OnMiss
<1>4. ASSUME NEW p \in Adopts, Seal(p) \/ PublishStaged(p)
      PROVE  CopiesOK'
  BY <1>4 DEF Seal, PublishStaged
<1>5. CASE Evict \/ StagedAges \/ Purge \/ UNCHANGED vars
  BY <1>5 DEF Evict, StagedAges, Purge, vars
<1>6. ASSUME NEW p \in Op, Seal(p) \/ PublishStaged(p)
      PROVE  p \in Adopts
  BY <1>6 DEF Seal, PublishStaged
<1>7. QED
  BY <1>1, <1>2, <1>3, <1>4, <1>5, <1>6 DEF Next, Step

\* The two facts about the object itself: what is about to be protected is
\* verified, and what is protected is intact or trusted.
LEMMA ObjectStep ==
  ASSUME AdoptsUndisturbed, StoreInv, [Next]_vars
  PROVE  ProtectsOK' /\ SealedIsIntact'
<1> USE OpAssumption, NoFileAssumption
    DEF StoreInv, TypeInv, TypeOK, KindsOK, SourcesOK, ProtectsOK, SealedIsIntact,
        Op, Goto, Good, ReadOnly
<1>1. ASSUME NEW p \in Op, Rehash(p) \/ Protect(p)
      PROVE  ProtectsOK' /\ SealedIsIntact'
  BY <1>1 DEF Rehash, Protect, File, OnHit
<1>2. ASSUME NEW p \in Op, PublishCopy(p)
      PROVE  ProtectsOK' /\ SealedIsIntact'
  BY <1>2 DEF PublishCopy, CopiesOK
<1>3. ASSUME NEW p \in Op, PublishStaged(p)
      PROVE  ProtectsOK' /\ SealedIsIntact'
  BY <1>3 DEF PublishStaged, StagingOK
<1>4. ASSUME NEW p \in Op, PublishDownload(p)
      PROVE  ProtectsOK' /\ SealedIsIntact'
  <2>1. source[p] \in File /\ source[p].by = p /\ p \in Trusts
    BY <1>4 DEF PublishDownload, Ended
  <2>2. QED
    BY <1>4, <2>1 DEF PublishDownload, File
<1>5. ASSUME NEW p \in Op, WriteStaged(p)
      PROVE  ProtectsOK' /\ SealedIsIntact'
  BY <1>5 DEF WriteStaged, WriteThrough, StagingOK
<1>6. CASE Evict
  BY <1>6 DEF Evict
<1>7. ASSUME NEW p \in Op,
             Start(p) \/ Stat(p) \/ Compare(p) \/ Consume(p) \/ CopySource(p)
               \/ CheckCopy(p) \/ HashSource(p) \/ StageByRename(p) \/ StageByCopy(p)
               \/ Recheck(p) \/ DropSource(p) \/ Seal(p)
               \/ Fail(p) \/ Kill(p) \/ Edit(p)
      PROVE  ProtectsOK' /\ SealedIsIntact'
  BY <1>7 DEF Start, Stat, Compare, Consume, CopySource, CheckCopy, HashSource,
     StageByRename, StageByCopy, Recheck, DropSource, Seal, Fail, Kill, Edit, OnHit, OnMiss
<1>8. CASE StagedAges \/ Purge \/ UNCHANGED vars
  BY <1>8 DEF StagedAges, Purge, vars
<1>9. QED
  BY <1>1, <1>2, <1>3, <1>4, <1>5, <1>6, <1>7, <1>8 DEF Next, Step

LEMMA StoreInvInit == Init => StoreInv
<1> SUFFICES ASSUME Init PROVE StoreInv
  OBVIOUS
<1>1. TypeInv
  BY TypeInvInit
<1>2. LocksOK /\ StagingOK /\ CopiesOK
  BY DEF Init, LocksOK, StagingOK, CopiesOK, Running, Op
<1>3. ProtectsOK /\ SealedIsIntact
  BY DEF Init, ProtectsOK, SealedIsIntact, ReadOnly, Good
<1>4. QED
  BY <1>1, <1>2, <1>3 DEF StoreInv

LEMMA StoreInvStep ==
  ASSUME AdoptsUndisturbed
  PROVE  StoreInv /\ [Next]_vars => StoreInv'
BY TypeInvStep, LocksStep, StagingStep, CopiesStep, ObjectStep DEF StoreInv

\* No file that is partial or wrong is ever at an object's path, read-only,
\* but a download pull was told to trust: for any set of concurrent commands
\* in which no two run adopt at once.
THEOREM PublishedIsIntact ==
  ASSUME AdoptsUndisturbed
  PROVE  Spec => []SealedIsIntact
<1>1. StoreInv => SealedIsIntact
  BY DEF StoreInv
<1>2. QED
  BY <1>1, StoreInvInit, StoreInvStep, PTL DEF Spec

-----------------------------------------------------------------------------

\* A step that changes the object removes it or puts a protected one there.
LEMMA ObjectChanges ==
  ASSUME StoreInv, [Next]_vars
  PROVE  object' = object \/ object' = NoFile \/ ReadOnly(object')
<1> USE NoFileAssumption
    DEF StoreInv, TypeInv, TypeOK, KindsOK, SourcesOK, Op, ReadOnly
<1>1. ASSUME NEW p \in Op,
             Start(p) \/ Stat(p) \/ Rehash(p) \/ Compare(p) \/ Consume(p) \/ CopySource(p)
               \/ CheckCopy(p) \/ HashSource(p) \/ StageByRename(p) \/ StageByCopy(p)
               \/ Recheck(p) \/ DropSource(p) \/ Seal(p)
               \/ Fail(p) \/ Kill(p) \/ Edit(p)
      PROVE  object' = object
  BY <1>1 DEF Start, Stat, Rehash, Compare, Consume, CopySource, CheckCopy, HashSource,
     StageByRename, StageByCopy, Recheck, DropSource, Seal, Fail, Kill, Edit
<1>2. ASSUME NEW p \in Op, Protect(p)
      PROVE  object' = object \/ ReadOnly(object')
  BY <1>2 DEF Protect, File
<1>3. ASSUME NEW p \in Op, PublishCopy(p)
      PROVE  ReadOnly(object')
  BY <1>3 DEF PublishCopy, CopiesOK
<1>4. ASSUME NEW p \in Op, PublishStaged(p)
      PROVE  object' = object \/ ReadOnly(object')
  BY <1>4 DEF PublishStaged, StagingOK
<1>5. ASSUME NEW p \in Op, PublishDownload(p)
      PROVE  ReadOnly(object')
  <2>1. source[p] \in File
    BY <1>5 DEF PublishDownload, Ended
  <2>2. QED
    BY <1>5, <2>1 DEF PublishDownload, File
<1>6. ASSUME NEW p \in Op, WriteStaged(p)
      PROVE  object' = object
  BY <1>6 DEF WriteStaged, WriteThrough, StagingOK
<1>7. CASE Evict
  BY <1>7 DEF Evict
<1>8. CASE StagedAges \/ Purge \/ UNCHANGED vars
  BY <1>8 DEF StagedAges, Purge, vars
<1>9. QED
  BY <1>1, <1>2, <1>3, <1>4, <1>5, <1>6, <1>7, <1>8 DEF Next, Step

\* Concurrent operations that do not share a staging path implement the
\* abstract store: a protected object is only ever replaced, whole, by another.
THEOREM StoreImplementsContentStore ==
  ASSUME AdoptsUndisturbed
  PROVE  Spec => ImplementsContentStore
<1>1. Init => Promised!Init
  BY DEF Init, Promised!Init, Slot, ReadOnly, Good
<1>2. ASSUME StoreInv, StoreInv', [Next]_vars
      PROVE  [Promised!Next]_Slot
  <2>1. CASE object' = object
    BY <2>1 DEF Slot, Good, ReadOnly, Promised!Next
  <2>2. CASE object' = NoFile
    BY <2>2 DEF Slot, Good, ReadOnly, Promised!Next, Promised!Evict
  <2>3. CASE ReadOnly(object')
    BY <1>2, <2>3 DEF Slot, StoreInv, SealedIsIntact, ReadOnly, Good,
       Promised!Next, Promised!Accept
  <2>4. QED
    BY <1>2, <2>1, <2>2, <2>3, ObjectChanges
<1>3. QED
  BY <1>1, <1>2, StoreInvInit, StoreInvStep, PTL
     DEF Spec, ImplementsContentStore, Promised!Spec

-----------------------------------------------------------------------------

\* As long as nobody has evicted, an operation that relies on the object still
\* finds it protected.
PresentOK ==
  ~discarded => \A p \in Op : pc[p] \in {"compare", "consume", "accepted"} => ReadOnly(object)

\* Until an adopt drops its source the source is good; from then on, unless
\* somebody has purged it, its staged copy is there.
MovesOK ==
  \A p \in Adopts :
    /\ pc[p] \in {"stage", "write", "recheck", "drop"} => Good(source[p])
    /\ ~discarded /\ pc[p] \in {"drop", "seal", "publish"} => staged # NoFile

\* The inductive invariant behind BytesKept and AcceptedIsPresent.
KeptInv == StoreInv /\ PresentOK /\ MovesOK /\ BytesKept

\* Only an eviction takes the object away.
LEMMA ObjectStays ==
  ASSUME StoreInv, [Next]_vars, ReadOnly(object), ~discarded'
  PROVE  ~discarded /\ ReadOnly(object')
<1>1. CASE object' = object
  BY <1>1 DEF Next, Step, Start, Stat, Rehash, Protect, Compare, Consume, CopySource, CheckCopy, PublishCopy,
     HashSource, StageByRename, StageByCopy, WriteStaged, Recheck, DropSource, Seal, PublishStaged,
     PublishDownload, Fail, Kill, Edit, Evict, StagedAges, Purge, vars
<1>2. object' # NoFile /\ ~discarded
  <2> USE NoFileAssumption DEF ReadOnly
  <2>1. ASSUME NEW p \in Op, Step(p) \/ Fail(p) \/ Kill(p) \/ Edit(p)
        PROVE  object' # NoFile /\ ~discarded
    <3>1. discarded' = discarded
      BY <2>1 DEF Step, Start, Stat, Rehash, Protect, Compare, Consume, CopySource, CheckCopy, PublishCopy,
         HashSource, StageByRename, StageByCopy, WriteStaged, Recheck, DropSource, Seal, PublishStaged,
         PublishDownload, Fail, Kill, Edit
    <3>2. CASE PublishCopy(p)
      BY <3>1, <3>2 DEF PublishCopy, StoreInv, CopiesOK, Good
    <3>3. CASE PublishStaged(p)
      BY <3>1, <3>3 DEF PublishStaged
    <3>4. CASE PublishDownload(p)
      <4>1. source[p] \in File /\ object' = [source[p] EXCEPT !.mode = "ro"]
        BY <3>4 DEF PublishDownload, StoreInv, TypeInv, TypeOK, SourcesOK, Ended
      <4>2. object' \in File
        BY <4>1 DEF File
      <4> QED BY <3>1, <4>2
    <3>5. CASE Protect(p)
      <4>1. object \in File
        BY DEF StoreInv, TypeInv, TypeOK
      <4>2. object' \in File
        BY <3>5, <4>1 DEF Protect, File
      <4> QED BY <3>1, <4>2
    <3>6. CASE WriteStaged(p)
      BY <3>1, <3>6 DEF WriteStaged, WriteThrough, StoreInv, StagingOK
    <3>7. CASE ~(PublishCopy(p) \/ PublishStaged(p) \/ PublishDownload(p) \/ Protect(p) \/ WriteStaged(p))
      BY <2>1, <3>1, <3>7 DEF Step, Start, Stat, Rehash, Compare, Consume, CopySource, CheckCopy, HashSource,
         StageByRename, StageByCopy, Recheck, DropSource, Seal, Fail, Kill, Edit
    <3> QED BY <3>2, <3>3, <3>4, <3>5, <3>6, <3>7
  <2>2. CASE Evict \/ Purge
    BY <2>2 DEF Evict, Purge
  <2>3. CASE StagedAges \/ UNCHANGED vars
    BY <2>3 DEF StagedAges, vars
  <2> QED BY <2>1, <2>2, <2>3 DEF Next
<1> QED BY <1>1, <1>2, ObjectChanges

LEMMA PresentStep ==
  ASSUME StoreInv, PresentOK, [Next]_vars
  PROVE  PresentOK'
<1> SUFFICES ASSUME ~discarded', NEW p \in Op, pc'[p] \in {"compare", "consume", "accepted"}
             PROVE  ReadOnly(object')
  BY DEF PresentOK
<1>1. CASE ReadOnly(object)
  BY <1>1, ObjectStays
<1>2. CASE ~ReadOnly(object) /\ pc'[p] # pc[p]
  <2> USE <1>2, OpAssumption, NoFileAssumption
      DEF StoreInv, TypeInv, TypeOK, KindsOK, Goto, Op, OnHit, OnMiss, ReadOnly
  <2>1. ~(UNCHANGED vars \/ Evict \/ StagedAges \/ Purge \/ \E q \in Op : Edit(q))
    BY DEF vars, Evict, StagedAges, Purge, Edit
  <2>2. PICK q \in Op : Step(q) \/ Fail(q) \/ Kill(q)
    BY <2>1 DEF Next
  <2>3. pc'[p] # "accepted" \/ PublishCopy(q) \/ PublishStaged(q) \/ PublishDownload(q) \/ Protect(q) \/ Consume(q) \/ Stat(q)
    BY <2>2 DEF Step, Start, Rehash, Compare, CopySource, CheckCopy, HashSource, StageByRename, StageByCopy,
       WriteStaged, Recheck, DropSource, Seal, Fail, Kill
  <2>4. CASE PublishCopy(q)
    BY <2>4 DEF PublishCopy, CopiesOK
  <2>5. CASE PublishStaged(q)
    BY <2>5 DEF PublishStaged, StagingOK
  <2>6. CASE PublishDownload(q)
    <3>1. source[q] \in File /\ object' = [source[q] EXCEPT !.mode = "ro"]
      BY <2>6 DEF PublishDownload, SourcesOK, Ended
    <3> QED BY <3>1 DEF File
  <2>7. CASE Protect(q)
    <3>1. object # NoFile => ReadOnly(object')
      BY <2>7 DEF Protect, File
    <3>2. object = NoFile => pc'[p] \in {pc[p], "failed"}
      BY <2>7 DEF Protect
    <3> QED BY <3>1, <3>2
  <2>8. CASE Compare(q) \/ Consume(q)
    <3>1. pc[q] \in {"compare", "consume"} /\ ~discarded
      BY <2>8 DEF Compare, Consume
    <3> QED BY <3>1 DEF PresentOK
  <2>9. CASE Stat(q)
    BY <2>9 DEF Stat
  <2>10. CASE ~(PublishCopy(q) \/ PublishStaged(q) \/ PublishDownload(q) \/ Protect(q) \/ Compare(q) \/ Consume(q) \/ Stat(q))
    BY <2>2, <2>10 DEF Step, Start, Rehash, CopySource, CheckCopy, HashSource, StageByRename, StageByCopy,
       WriteStaged, Recheck, DropSource, Seal, Fail, Kill
  <2> QED BY <2>4, <2>5, <2>6, <2>7, <2>8, <2>9, <2>10
<1>3. CASE ~ReadOnly(object) /\ pc'[p] = pc[p]
  <2>1. discarded
    BY <1>3 DEF PresentOK
  <2>2. discarded'
    BY <2>1 DEF Next, Step, Start, Stat, Rehash, Protect, Compare, Consume, CopySource, CheckCopy, PublishCopy,
       HashSource, StageByRename, StageByCopy, WriteStaged, Recheck, DropSource, Seal, PublishStaged,
       PublishDownload, Fail, Kill, Edit, Evict, StagedAges, Purge, vars
  <2> QED BY <2>2
<1> QED BY <1>1, <1>2, <1>3

\* Another adopt than the one that is at work on the staging path is not running.
LEMMA OthersIdle ==
  ASSUME AdoptsUndisturbed, TypeInv, LocksOK, NEW p \in Op,
         StageByRename(p) \/ StageByCopy(p) \/ WriteStaged(p) \/ Recheck(p) \/ DropSource(p)
           \/ Seal(p) \/ PublishStaged(p)
  PROVE  p \in Adopts /\ \A q \in Adopts : q # p => pc[q] \in Ended \cup {"idle"}
<1>1. p \in Adopts /\ Running(p)
  BY DEF StageByRename, StageByCopy, WriteStaged, Recheck, DropSource, Seal, PublishStaged, Running, Ended,
     TypeInv, KindsOK
<1>2. ASSUME NEW q \in Adopts, q # p PROVE ~Running(q)
  BY <1>1, <1>2, OneAdoptRuns
<1> QED BY <1>1, <1>2 DEF Running

LEMMA MovesStep ==
  ASSUME AdoptsUndisturbed, StoreInv, MovesOK, [Next]_vars
  PROVE  MovesOK'
<1> USE OpAssumption, NoFileAssumption
    DEF StoreInv, TypeInv, TypeOK, KindsOK, MovesOK, Op, Goto, Good
<1>1. ASSUME NEW p \in Op,
             Start(p) \/ Stat(p) \/ Rehash(p) \/ Protect(p) \/ Compare(p) \/ Consume(p)
               \/ CopySource(p) \/ CheckCopy(p) \/ PublishCopy(p) \/ PublishDownload(p) \/ HashSource(p)
               \/ Fail(p) \/ Kill(p)
      PROVE  MovesOK'
  BY <1>1 DEF Start, Stat, Rehash, Protect, Compare, Consume, CopySource, CheckCopy, PublishCopy,
     PublishDownload, HashSource, Fail, Kill, OnHit, OnMiss
<1>2. ASSUME NEW p \in Op,
             StageByRename(p) \/ StageByCopy(p) \/ WriteStaged(p) \/ Recheck(p) \/ DropSource(p)
               \/ Seal(p) \/ PublishStaged(p)
      PROVE  MovesOK'
  <2>1. p \in Adopts /\ \A q \in Adopts : q # p => pc[q] \in Ended \cup {"idle"}
    BY <1>2, OthersIdle
  <2>2. \A q \in Adopts : q # p => pc'[q] = pc[q]
    BY <1>2 DEF StageByRename, StageByCopy, WriteStaged, Recheck, DropSource, Seal, PublishStaged
  <2> SUFFICES /\ pc'[p] \in {"stage", "write", "recheck", "drop"} => Good(source'[p])
               /\ ~discarded' /\ pc'[p] \in {"drop", "seal", "publish"} => staged' # NoFile
    BY <2>1, <2>2 DEF Ended
  <2>3. CASE StageByRename(p)
    BY <2>3 DEF StageByRename
  <2>4. CASE StageByCopy(p)
    BY <2>4 DEF StageByCopy
  <2>5. CASE WriteStaged(p)
    BY <2>5 DEF WriteStaged
  <2>6. CASE Recheck(p)
    BY <2>6 DEF Recheck
  <2>7. CASE DropSource(p)
    BY <2>7 DEF DropSource
  <2>8. CASE Seal(p)
    BY <2>8 DEF Seal, File
  <2>9. CASE PublishStaged(p)
    BY <2>1, <2>9 DEF PublishStaged
  <2> QED BY <1>2, <2>3, <2>4, <2>5, <2>6, <2>7, <2>8, <2>9
<1>3. ASSUME NEW p \in Op, Edit(p)
      PROVE  MovesOK'
  BY <1>3 DEF Edit, AdoptsUndisturbed
<1>4. CASE Evict \/ Purge
  BY <1>4 DEF Evict, Purge
<1>5. CASE StagedAges
  BY <1>5 DEF StagedAges, File
<1>6. CASE UNCHANGED vars
  BY <1>6 DEF vars
<1> QED BY <1>1, <1>2, <1>3, <1>4, <1>5, <1>6 DEF Next, Step

\* Whether the object is what its name says, or a download that nobody has read.
Whole == object # NoFile /\ (Good(object) \/ object.by \in Trusts)

LEMMA WholeStays ==
  ASSUME AdoptsUndisturbed, StoreInv, StoreInv', [Next]_vars, Whole, ~discarded'
  PROVE  Whole'
<1>1. CASE ReadOnly(object)
  <2>1. ReadOnly(object')
    BY <1>1, ObjectStays
  <2> QED BY <2>1 DEF StoreInv, SealedIsIntact, Whole, ReadOnly
<1>2. CASE ReadOnly(object')
  BY <1>2 DEF StoreInv, SealedIsIntact, Whole, ReadOnly
<1>3. CASE ~ReadOnly(object) /\ ~ReadOnly(object')
  <2>1. object' = object \/ object' = NoFile
    BY <1>3, ObjectChanges
  <2>2. CASE object' = object
    BY <2>2 DEF Whole, Good
  <2>3. object' # NoFile
    <3> SUFFICES ASSUME object' = NoFile PROVE FALSE
      OBVIOUS
    <3> USE NoFileAssumption DEF StoreInv, TypeInv, TypeOK, KindsOK, SourcesOK, Whole, Op
    <3>1. ASSUME NEW p \in Op, Step(p) \/ Fail(p) \/ Kill(p) \/ Edit(p)
          PROVE  FALSE
      <4>1. PublishCopy(p) \/ PublishStaged(p) \/ PublishDownload(p) \/ Protect(p) \/ WriteStaged(p)
        BY <3>1 DEF Step, Start, Stat, Rehash, Compare, Consume, CopySource, CheckCopy, HashSource,
           StageByRename, StageByCopy, Recheck, DropSource, Seal, Fail, Kill, Edit
      <4>2. CASE PublishCopy(p)
        BY <4>2 DEF PublishCopy, CopiesOK, Good
      <4>3. CASE PublishStaged(p)
        BY <4>3 DEF PublishStaged
      <4>4. CASE PublishDownload(p)
        <5>1. source[p] \in File /\ object' = [source[p] EXCEPT !.mode = "ro"]
          BY <4>4 DEF PublishDownload, Ended
        <5> QED BY <5>1 DEF File
      <4>5. CASE Protect(p)
        BY <4>5 DEF Protect, File
      <4>6. CASE WriteStaged(p)
        BY <4>6 DEF WriteStaged, WriteThrough, StagingOK
      <4> QED BY <4>1, <4>2, <4>3, <4>4, <4>5, <4>6
    <3>2. CASE Evict
      BY <3>2 DEF Evict
    <3>3. CASE StagedAges \/ Purge \/ UNCHANGED vars
      BY <3>3 DEF StagedAges, Purge, vars
    <3> QED BY <3>1, <3>2, <3>3 DEF Next
  <2> QED BY <2>1, <2>2, <2>3
<1> QED BY <1>1, <1>2, <1>3

LEMMA KeptStep ==
  ASSUME AdoptsUndisturbed, KeptInv, StoreInv', [Next]_vars
  PROVE  BytesKept'
<1> SUFFICES ASSUME ~discarded', \E p \in Adopts : source'[p] = NoFile
             PROVE  Whole' \/ Good(staged)' \/ \E p \in Adopts : Good(source[p])'
  BY DEF BytesKept, Held, WrongDownload, Whole, Good
<1> USE OpAssumption, NoFileAssumption
    DEF KeptInv, StoreInv, TypeInv, TypeOK, KindsOK, SourcesOK, MovesOK, Op, Goto, Good
<1>0. Whole => Whole'
  BY WholeStays
\* Steps that leave both the staged file and the sources of adopts alone.
<1>1. CASE staged' = staged /\ \A p \in Adopts : source'[p] = source[p]
  <2>1. ~discarded
    BY DEF Next, Step, Start, Stat, Rehash, Protect, Compare, Consume, CopySource, CheckCopy, PublishCopy,
       HashSource, StageByRename, StageByCopy, WriteStaged, Recheck, DropSource, Seal, PublishStaged,
       PublishDownload, Fail, Kill, Edit, Evict, StagedAges, Purge, vars
  <2>2. Whole \/ Good(staged) \/ \E p \in Adopts : Good(source[p])
    BY <1>1, <2>1 DEF BytesKept, Held, WrongDownload, Whole
  <2> QED BY <1>0, <1>1, <2>2
<1>2. ASSUME NEW p \in Op, StageByRename(p) \/ DropSource(p)
      PROVE  Good(staged)'
  <2>1. p \in Adopts /\ ~discarded
    BY <1>2, OthersIdle DEF StageByRename, DropSource
  <2> QED BY <1>2, <2>1 DEF StageByRename, DropSource, StagingOK
<1>3. ASSUME NEW p \in Op, StageByCopy(p) \/ WriteStaged(p) \/ Recheck(p)
      PROVE  \E q \in Adopts : Good(source[q])'
  <2>1. p \in Adopts
    BY <1>3, OthersIdle
  <2>2. Good(source[p]) /\ source' = source
    BY <1>3, <2>1 DEF StageByCopy, WriteStaged, Recheck
  <2> QED BY <2>1, <2>2
<1>4. ASSUME NEW p \in Op, PublishStaged(p)
      PROVE  Whole' \/ \E q \in Adopts : Good(source[q])'
  <2>1. p \in Adopts /\ pc[p] = "publish" /\ ~discarded
    BY <1>4 DEF PublishStaged
  <2>2. object' = staged /\ Good(staged)
    BY <1>4, <2>1 DEF PublishStaged, StagingOK
  <2> QED BY <2>2 DEF Whole
<1>5. ASSUME NEW p \in Op, Seal(p)
      PROVE  Good(staged)'
  <2>1. p \in Adopts /\ ~discarded
    BY <1>5 DEF Seal
  <2> QED BY <1>5, <2>1 DEF Seal, StagingOK, File
<1>6. ASSUME NEW p \in Op, Consume(p)
      PROVE  Whole'
  <2>1. pc[p] = "consume" /\ ~discarded
    BY <1>6 DEF Consume
  <2>2. ReadOnly(object)
    BY <2>1 DEF PresentOK
  <2> QED BY <1>0, <2>2 DEF SealedIsIntact, Whole, ReadOnly
<1>7. CASE StagedAges
  <2>1. /\ ~discarded /\ source' = source /\ object' = object
        /\ Good(staged) => Good(staged)'
    BY <1>7 DEF StagedAges, File
  <2>2. Whole \/ Good(staged) \/ \E p \in Adopts : Good(source[p])
    BY <2>1 DEF BytesKept, Held, WrongDownload, Whole
  <2> QED BY <1>0, <2>1, <2>2
<1>8. ASSUME NEW p \in Op,
             Start(p) \/ Stat(p) \/ Rehash(p) \/ Protect(p) \/ Compare(p)
               \/ CopySource(p) \/ CheckCopy(p) \/ PublishCopy(p) \/ PublishDownload(p) \/ HashSource(p)
               \/ Fail(p) \/ Kill(p) \/ Edit(p)
      PROVE  staged' = staged /\ \A q \in Adopts : source'[q] = source[q]
  BY <1>8 DEF Start, Stat, Rehash, Protect, Compare, CopySource, CheckCopy, PublishCopy,
     PublishDownload, HashSource, Fail, Kill, Edit, AdoptsUndisturbed
<1>9. CASE Purge
  BY <1>9 DEF Purge
<1>10. CASE Evict
  BY <1>10 DEF Evict
<1>11. CASE UNCHANGED vars
  BY <1>1, <1>11 DEF vars
<1> QED BY <1>1, <1>2, <1>3, <1>4, <1>5, <1>6, <1>7, <1>8, <1>9, <1>10, <1>11 DEF Next, Step

LEMMA KeptInvHolds ==
  ASSUME AdoptsUndisturbed
  PROVE  Spec => []KeptInv
<1>1. Init => KeptInv
  <2> SUFFICES ASSUME Init PROVE KeptInv
    OBVIOUS
  <2>1. PresentOK /\ MovesOK /\ BytesKept
    BY NoFileAssumption DEF Init, PresentOK, MovesOK, BytesKept, Op
  <2> QED BY <2>1, StoreInvInit DEF KeptInv
<1>2. KeptInv /\ [Next]_vars => KeptInv'
  <2> SUFFICES ASSUME KeptInv, [Next]_vars PROVE KeptInv'
    OBVIOUS
  <2>1. StoreInv'
    BY StoreInvStep DEF KeptInv
  <2> QED BY <2>1, PresentStep, MovesStep, KeptStep DEF KeptInv
<1> QED BY <1>1, <1>2, PTL DEF Spec

\* With no eviction and no purge, the bytes of a source that adopt has consumed are at
\* the object's path, or staged, or still with another adopt, unless a download with
\* the wrong bytes has taken the object's place.
THEOREM OnlyWrongDownloadsLose ==
  ASSUME AdoptsUndisturbed
  PROVE  Spec => []BytesKept
<1>1. KeptInv => BytesKept
  BY DEF KeptInv
<1> QED BY <1>1, KeptInvHolds, PTL

\* What every trusted download has as long as the remote is right.
DownloadsOK ==
  /\ \A p \in Trusts : source[p] # NoFile => Good(source[p])
  /\ ~WrongDownload

LEMMA DownloadsStep ==
  ASSUME AdoptsUndisturbed, Editable \cap Trusts = {}, StoreInv, StoreInv', DownloadsOK, [Next]_vars
  PROVE  DownloadsOK'
<1> USE OpAssumption, NoFileAssumption
<1>1. \A p \in Trusts : source'[p] # NoFile => Good(source'[p])
  <2> USE DEF StoreInv, TypeInv, TypeOK, DownloadsOK, Good, Op
  <2>1. ASSUME NEW p \in Op, Edit(p) PROVE \A q \in Trusts : source'[q] = source[q]
    BY <2>1 DEF Edit
  <2>2. ASSUME NEW p \in Op, Step(p) \/ Fail(p) \/ Kill(p)
        PROVE  source' = source \/ source' = [source EXCEPT ![p] = NoFile]
    BY <2>2 DEF Step, Start, Stat, Rehash, Protect, Compare, Consume, CopySource, CheckCopy, PublishCopy,
       HashSource, StageByRename, StageByCopy, WriteStaged, Recheck, DropSource, Seal, PublishStaged,
       PublishDownload, Fail, Kill
  <2>3. CASE Evict \/ StagedAges \/ Purge \/ UNCHANGED vars
    BY <2>3 DEF Evict, StagedAges, Purge, vars
  <2> QED BY <2>1, <2>2, <2>3 DEF Next
<1>2. ~WrongDownload'
  <2> SUFFICES ASSUME WrongDownload' PROVE FALSE
    OBVIOUS
  <2>1. ~WrongDownload /\ \A p \in Trusts : source[p] # NoFile => Good(source[p])
    BY DEF DownloadsOK
  <2>2. CASE object' = object
    BY <2>1, <2>2 DEF WrongDownload, Good
  <2>3. CASE object' # object
    <3> USE DEF StoreInv, TypeInv, TypeOK, KindsOK, SourcesOK, Op, WrongDownload, Good
    <3>1. PICK p \in Op : PublishCopy(p) \/ PublishStaged(p) \/ PublishDownload(p) \/ Protect(p) \/ WriteStaged(p)
      BY <2>3 DEF Next, Step, Start, Stat, Rehash, Compare, Consume, CopySource, CheckCopy, HashSource,
         StageByRename, StageByCopy, Recheck, DropSource, Seal, Fail, Kill, Edit, Evict, StagedAges, Purge, vars
    <3>2. CASE PublishCopy(p)
      BY <3>2 DEF PublishCopy, CopiesOK
    <3>3. CASE PublishStaged(p)
      BY <2>3, <3>3 DEF PublishStaged, StagingOK
    <3>4. CASE PublishDownload(p)
      <4>1. p \in Trusts /\ source[p] \in File /\ object' = [source[p] EXCEPT !.mode = "ro"]
        BY <3>4 DEF PublishDownload, Ended
      <4> QED BY <2>1, <4>1 DEF File
    <3>5. CASE Protect(p)
      BY <2>1, <3>5 DEF Protect, File
    <3>6. CASE WriteStaged(p)
      BY <2>3, <3>6 DEF WriteStaged, WriteThrough, StagingOK
    <3> QED BY <3>1, <3>2, <3>3, <3>4, <3>5, <3>6
  <2> QED BY <2>2, <2>3
<1> QED BY <1>1, <1>2 DEF DownloadsOK

\* Where every download has the right bytes and nobody writes to one, adopt loses
\* nothing at all: with no eviction and no purge, a file with the bytes of each
\* consumed source is there.
THEOREM RightDownloadsLoseNothing ==
  ASSUME AdoptsUndisturbed, Editable \cap Trusts = {}
  PROVE  Spec /\ (\A p \in Trusts : Good(source[p]))
           => [](~discarded /\ (\E p \in Adopts : source[p] = NoFile) => Held)
<1>1. Init /\ (\A p \in Trusts : Good(source[p])) => DownloadsOK
  BY OpAssumption DEF Init, DownloadsOK, WrongDownload, Op
<1>2. KeptInv /\ KeptInv' /\ DownloadsOK /\ [Next]_vars => DownloadsOK'
  BY DownloadsStep DEF KeptInv
<1>3. KeptInv /\ DownloadsOK => (~discarded /\ (\E p \in Adopts : source[p] = NoFile) => Held)
  BY DEF KeptInv, BytesKept, DownloadsOK
<1> QED BY <1>1, <1>2, <1>3, KeptInvHolds, PTL DEF Spec

\* An operation of the store that has succeeded leaves a protected object, for
\* as long as nobody evicts it.
THEOREM SuccessIsPresent ==
  ASSUME AdoptsUndisturbed
  PROVE  Spec => []AcceptedIsPresent
<1>1. KeptInv => AcceptedIsPresent
  BY DEF KeptInv, PresentOK, AcceptedIsPresent
<1> QED BY <1>1, KeptInvHolds, PTL
=============================================================================
