------------------------------ MODULE ObjectStore ------------------------------
(***************************************************************************)
(* The path of one cache object, and the operations of ports/store.rs on   *)
(* it, step by step: Store::store, Store::adopt, accept_trusted_download,  *)
(* remove_object and the purge of stale staging files.  Each operation is  *)
(* run by a command of its own; commands with different locks interleave.  *)
(*                                                                         *)
(* A file is what the code can tell of it: whether its bytes hash to the   *)
(* object's name, whether it is read-only, whether its mtime is more than  *)
(* a day old, and which operation its bytes came from.  adopt stages every *)
(* source of this object at one path, tmp/.<hash>.adopt; a copy to it goes *)
(* on through an open descriptor wherever that file is renamed meanwhile.  *)
(***************************************************************************)
CONSTANTS
  Stores,       \* operations that copy their source: add, import
  Adopts,       \* operations that consume it: import --move, pull --verify
  Trusts,       \* operations that take a download unread: pull
  CrossDevice,  \* adopts whose source is on another filesystem than the cache
  Editable,     \* operations whose source its user may still write to
  Failing,      \* operations that may meet an I/O error or a cancellation
  LockOf,       \* the command lock each operation runs under
  Earlier,      \* the origin of an object that was there before
  NoFile

Op == Stores \cup Adopts \cup Trusts

ASSUME OpAssumption ==
  /\ Stores \cap Adopts = {} /\ Stores \cap Trusts = {} /\ Adopts \cap Trusts = {}
  /\ CrossDevice \subseteq Adopts
  /\ Editable \subseteq Op /\ Failing \subseteq Op
  /\ LockOf \in [Op -> {"add", "import", "pull"}]
  /\ Earlier \notin Op

File == [bytes : {"good", "bad"}, mode : {"ro", "rw"}, age : {"fresh", "stale"},
         by : Op \cup {Earlier}]

ASSUME NoFileAssumption == NoFile \notin File

Good(f) == f # NoFile /\ f.bytes = "good"
ReadOnly(f) == f # NoFile /\ f.mode = "ro"

\* A file that p has just made.
Fresh(p, bytes) == [bytes |-> bytes, mode |-> "rw", age |-> "fresh", by |-> p]

VARIABLES
  pc,        \* where each operation is
  object,    \* the file at the object's path
  staged,    \* the file at tmp/.<hash>.adopt
  source,    \* each operation's source file
  copy,      \* the private temporary file of a store
  fd,        \* where the file that a cross-device adopt has open is linked
  discarded  \* an eviction or a purge has taken bytes away

vars == << pc, object, staged, source, copy, fd, discarded >>

Ended == {"accepted", "failed", "killed"}
Stages == Ended \cup
  {"idle", "stat", "rehash", "protect", "compare", "consume", "copy", "check",
   "hash", "stage", "write", "recheck", "drop", "seal", "publish", "download"}

Running(p) == pc[p] \notin Ended \cup {"idle"}

TypeOK ==
  /\ pc \in [Op -> Stages]
  /\ object \in File \cup {NoFile}
  /\ staged \in File \cup {NoFile}
  /\ source \in [Op -> File \cup {NoFile}]
  /\ copy \in [Op -> File \cup {NoFile}]
  /\ fd \in [Op -> {"closed", "staged", "object", "unlinked"}]
  /\ discarded \in BOOLEAN

\* An object that was there before is protected only if it was verified.  Age
\* and mode of a source matter where the file itself is renamed.
Init ==
  /\ pc = [p \in Op |-> "idle"]
  /\ object \in {NoFile} \cup
       {f \in File : f.by = Earlier /\ f.age = "fresh" /\ (ReadOnly(f) => Good(f))}
  /\ staged = NoFile
  /\ source \in [Op -> File]
  /\ \A p \in Op : source[p].by = p /\ (p \in Editable => Good(source[p]))
  /\ \A p \in Op : source[p].age = "stale" \/ ReadOnly(source[p]) => p \in Adopts \ CrossDevice
  /\ copy = [p \in Op |-> NoFile]
  /\ fd = [p \in Op |-> "closed"]
  /\ discarded = FALSE

Goto(p, stage) == pc' = [pc EXCEPT ![p] = stage]

\* A file renamed or unlinked takes the descriptors open on it along.
Relink(from, to) ==
  fd' = [p \in Op |->
           CASE fd[p] = from -> to
             [] fd[p] = to   -> "unlinked"
             [] OTHER        -> fd[p]]

(***************************************************************************)
(* verified: is the object there, and may it be used?                      *)
(***************************************************************************)

\* A command takes its lock and calls the store.
Start(p) ==
  /\ pc[p] = "idle"
  /\ \A q \in Op : Running(q) => LockOf[q] # LockOf[p]
  /\ Goto(p, "stat")
  /\ UNCHANGED << object, staged, source, copy, fd, discarded >>

\* Where an operation goes when the object is there, and when it is not.
OnHit(p) == IF p \in Stores THEN "accepted" ELSE "compare"
OnMiss(p) ==
  CASE p \in Stores -> "copy" [] p \in Adopts -> "hash" [] OTHER -> "download"

\* Bug: a writable object is taken for a verified one.
StatTrustsAnyMode(p) ==
  /\ pc[p] = "stat"
  /\ Goto(p, IF object = NoFile THEN OnMiss(p) ELSE OnHit(p))
  /\ UNCHANGED << object, staged, source, copy, fd, discarded >>

\* Absent, read-only and trusted, or writable and still to be hashed.
Stat(p) ==
  /\ pc[p] = "stat"
  /\ Goto(p, CASE object = NoFile -> OnMiss(p)
               [] ReadOnly(object) -> OnHit(p)
               [] OTHER -> "rehash")
  /\ UNCHANGED << object, staged, source, copy, fd, discarded >>

\* A writable object is hashed; corrupt, or gone by now, it is an error.
Rehash(p) ==
  /\ pc[p] = "rehash"
  /\ Goto(p, IF Good(object) THEN "protect" ELSE "failed")
  /\ UNCHANGED << object, staged, source, copy, fd, discarded >>

\* chmod of whatever is at the path now.
Protect(p) ==
  /\ pc[p] = "protect"
  /\ IF object = NoFile
       THEN Goto(p, "failed") /\ UNCHANGED object
       ELSE Goto(p, OnHit(p)) /\ object' = [object EXCEPT !.mode = "ro"]
  /\ UNCHANGED << staged, source, copy, fd, discarded >>

\* same_file: both must be there; the source is never the object itself here.
Compare(p) ==
  /\ pc[p] = "compare"
  /\ Goto(p, IF object = NoFile THEN "failed" ELSE "consume")
  /\ UNCHANGED << object, staged, source, copy, fd, discarded >>

\* The source is a duplicate of the object and is removed.
Consume(p) ==
  /\ pc[p] = "consume"
  /\ source' = [source EXCEPT ![p] = NoFile]
  /\ Goto(p, "accepted")
  /\ UNCHANGED << object, staged, copy, fd, discarded >>

(***************************************************************************)
(* store: copy, verify the copy, rename it into place                      *)
(***************************************************************************)

\* The copy is of what the source holds now, torn if its user is writing.
CopySource(p) ==
  /\ pc[p] = "copy"
  /\ \E bytes \in {source[p].bytes} \cup (IF p \in Editable THEN {"bad"} ELSE {}) :
       copy' = [copy EXCEPT ![p] = Fresh(p, bytes)]
  /\ Goto(p, "check")
  /\ UNCHANGED << object, staged, source, fd, discarded >>

\* Bug: the copy is published unread.
CheckTrustsCopy(p) ==
  /\ pc[p] = "check"
  /\ copy' = [copy EXCEPT ![p].mode = "ro"]
  /\ Goto(p, "publish")
  /\ UNCHANGED << object, staged, source, fd, discarded >>

\* prepare_store_temp: final mode, fsync, hash; a mismatch drops the copy.
CheckCopy(p) ==
  /\ pc[p] = "check"
  /\ IF Good(copy[p])
       THEN copy' = [copy EXCEPT ![p].mode = "ro"] /\ Goto(p, "publish")
       ELSE copy' = [copy EXCEPT ![p] = NoFile] /\ Goto(p, "failed")
  /\ UNCHANGED << object, staged, source, fd, discarded >>

\* Bug: the final mode is set after publishing, not before.
PublishUnsealedCopy(p) ==
  /\ pc[p] = "publish" /\ p \in Stores
  /\ object' = [copy[p] EXCEPT !.mode = "rw"]
  /\ copy' = [copy EXCEPT ![p] = NoFile]
  /\ Relink("object", "unlinked")
  /\ Goto(p, "accepted")
  /\ UNCHANGED << staged, source, discarded >>

\* persist_store_temp: rename over the object's path.  The fsync of the
\* directory after it may fail, which fails the operation, not the object.
PublishCopy(p) ==
  /\ pc[p] = "publish" /\ p \in Stores
  /\ object' = copy[p]
  /\ copy' = [copy EXCEPT ![p] = NoFile]
  /\ Relink("object", "unlinked")
  /\ \E end \in {"accepted"} \cup (IF p \in Failing THEN {"failed"} ELSE {}) :
       Goto(p, end)
  /\ UNCHANGED << staged, source, discarded >>

(***************************************************************************)
(* adopt: verify the source, move it to the staging path, then into place  *)
(***************************************************************************)

HashSource(p) ==
  /\ pc[p] = "hash"
  /\ Goto(p, IF Good(source[p]) THEN "stage" ELSE "failed")
  /\ UNCHANGED << object, staged, source, copy, fd, discarded >>

\* One filesystem: rename, over anything that was staged there.
StageByRename(p) ==
  /\ pc[p] = "stage" /\ p \notin CrossDevice
  /\ staged' = source[p]
  /\ source' = [source EXCEPT ![p] = NoFile]
  /\ Relink("staged", "unlinked")
  /\ Goto(p, "seal")
  /\ UNCHANGED << object, copy, discarded >>

\* Another filesystem: File::create truncates the file that is staged there.
\* A read-only one cannot be opened for writing.
StageByCopy(p) ==
  /\ pc[p] = "stage" /\ p \in CrossDevice
  /\ IF ReadOnly(staged)
       THEN Goto(p, "failed") /\ UNCHANGED << staged, fd >>
       ELSE /\ staged' = Fresh(p, "bad")
            /\ fd' = [fd EXCEPT ![p] = "staged"]
            /\ Goto(p, "write")
  /\ UNCHANGED << object, source, copy, discarded >>

\* The bytes go to the open file, wherever it is now; they may arrive changed.
WriteThrough(p, bytes) ==
  /\ staged' = IF fd[p] = "staged" THEN [staged EXCEPT !.bytes = bytes] ELSE staged
  /\ object' = IF fd[p] = "object" THEN [object EXCEPT !.bytes = bytes] ELSE object
  /\ fd' = [fd EXCEPT ![p] = "closed"]

\* Bug: the source is removed without reading the copy back.
WriteStagedUnverified(p) ==
  /\ pc[p] = "write"
  /\ \E bytes \in {source[p].bytes, "bad"} : WriteThrough(p, bytes)
  /\ Goto(p, "drop")
  /\ UNCHANGED << source, copy, discarded >>

WriteStaged(p) ==
  /\ pc[p] = "write"
  /\ \E bytes \in {source[p].bytes, "bad"} : WriteThrough(p, bytes)
  /\ Goto(p, "recheck")
  /\ UNCHANGED << source, copy, discarded >>

\* The staged copy is hashed by path; a corrupt one is removed.
Recheck(p) ==
  /\ pc[p] = "recheck"
  /\ IF Good(staged)
       THEN Goto(p, "drop") /\ UNCHANGED << staged, fd >>
       ELSE /\ Goto(p, "failed")
            /\ staged' = NoFile
            /\ Relink("staged", "unlinked")
  /\ UNCHANGED << object, source, copy, discarded >>

\* The copy is good: the source goes.
DropSource(p) ==
  /\ pc[p] = "drop"
  /\ source' = [source EXCEPT ![p] = NoFile]
  /\ Goto(p, "seal")
  /\ UNCHANGED << object, staged, copy, fd, discarded >>

\* chmod and fsync of whatever is staged now; nothing there is an error.
Seal(p) ==
  /\ pc[p] = "seal"
  /\ IF staged = NoFile
       THEN Goto(p, "failed") /\ UNCHANGED staged
       ELSE Goto(p, "publish") /\ staged' = [staged EXCEPT !.mode = "ro"]
  /\ UNCHANGED << object, source, copy, fd, discarded >>

\* Rename from the staging path to the object's path, and fsync.
PublishStaged(p) ==
  /\ pc[p] = "publish" /\ p \in Adopts
  /\ IF staged = NoFile
       THEN Goto(p, "failed") /\ UNCHANGED << object, staged, fd >>
       ELSE /\ object' = staged
            /\ staged' = NoFile
            /\ Relink("staged", "object")
            /\ \E end \in {"accepted"} \cup (IF p \in Failing THEN {"failed"} ELSE {}) :
                 Goto(p, end)
  /\ UNCHANGED << source, copy, discarded >>

(***************************************************************************)
(* accept_trusted_download, eviction and the purge                         *)
(***************************************************************************)

\* The download is made read-only and renamed into place, its bytes unread.
PublishDownload(p) ==
  /\ pc[p] = "download"
  /\ object' = [source[p] EXCEPT !.mode = "ro"]
  /\ source' = [source EXCEPT ![p] = NoFile]
  /\ Relink("object", "unlinked")
  /\ Goto(p, "accepted")
  /\ UNCHANGED << staged, copy, discarded >>

\* remove_object, for cache rm, cache prune and pull: no lock excludes it.
Evict ==
  /\ object # NoFile
  /\ object' = NoFile
  /\ Relink("object", "unlinked")
  /\ discarded' = TRUE
  /\ UNCHANGED << pc, staged, source, copy >>

\* A staged file that nobody is working on grows old.
StagedAges ==
  /\ staged # NoFile /\ staged.age = "fresh"
  /\ \A p \in Adopts : ~Running(p)
  /\ staged' = [staged EXCEPT !.age = "stale"]
  /\ UNCHANGED << pc, object, source, copy, fd, discarded >>

\* Bug: a stale staging file is emptied where it is.
PurgeTruncates ==
  /\ staged # NoFile /\ staged.age = "stale"
  /\ staged' = [staged EXCEPT !.bytes = "none"]
  /\ discarded' = TRUE
  /\ UNCHANGED << pc, object, source, copy, fd >>

\* A pull that starts removes staging files whose mtime is a day old.  A
\* renamed source keeps its mtime.
Purge ==
  /\ staged # NoFile /\ staged.age = "stale"
  /\ staged' = NoFile
  /\ Relink("staged", "unlinked")
  /\ discarded' = TRUE
  /\ UNCHANGED << pc, object, source, copy >>

(***************************************************************************)
(* What the environment does                                               *)
(***************************************************************************)

\* An I/O error or a cancellation: the private copy is dropped, the rest stays.
Fail(p) ==
  /\ Running(p) /\ p \in Failing
  /\ Goto(p, "failed")
  /\ copy' = [copy EXCEPT ![p] = NoFile]
  /\ fd' = [fd EXCEPT ![p] = "closed"]
  /\ UNCHANGED << object, staged, source, discarded >>

\* The process is killed: nobody will look at its private copy again.
Kill(p) ==
  /\ Running(p)
  /\ Goto(p, "killed")
  /\ copy' = [copy EXCEPT ![p] = NoFile]
  /\ fd' = [fd EXCEPT ![p] = "closed"]
  /\ UNCHANGED << object, staged, source, discarded >>

\* The user changes a source after its hash was taken.
Edit(p) ==
  /\ p \in Editable
  /\ Good(source[p])
  /\ source' = [source EXCEPT ![p].bytes = "bad"]
  /\ UNCHANGED << pc, object, staged, copy, fd, discarded >>

Step(p) ==
  \/ Start(p)
  \/ Stat(p) \/ Rehash(p) \/ Protect(p) \/ Compare(p) \/ Consume(p)
  \/ CopySource(p) \/ CheckCopy(p) \/ PublishCopy(p)
  \/ HashSource(p) \/ StageByRename(p) \/ StageByCopy(p)
  \/ WriteStaged(p) \/ Recheck(p) \/ DropSource(p)
  \/ Seal(p) \/ PublishStaged(p)
  \/ PublishDownload(p)

Next ==
  \/ \E p \in Op : Step(p) \/ Fail(p) \/ Kill(p) \/ Edit(p)
  \/ Evict \/ StagedAges \/ Purge

Spec == Init /\ [][Next]_vars

-----------------------------------------------------------------------------

\* A read-only object is complete and has the bytes its path is named for,
\* unless it is a download that pull was told to trust: no interleaving, error
\* or kill shows a partial or a wrong file at an object's path.
SealedIsIntact ==
  ReadOnly(object) /\ ~Good(object) => object.by \in Trusts

\* A file with the right bytes is at the object's path or the staging path, or
\* another adopt still has one.
Held == Good(object) \/ Good(staged) \/ \E p \in Adopts : Good(source[p])

\* The object is a download with other bytes than its name says, which pull was
\* told not to read.
WrongDownload == object # NoFile /\ ~Good(object) /\ object.by \in Trusts

\* An adopt loses bytes to one thing only, unless somebody evicts or purges: when
\* the bytes of a consumed source are nowhere, a wrong download is at the object's
\* path.  Then they are lost for good: the pull had found no object, and renamed
\* its download over the one that was moved there meanwhile; or the download was
\* there first, and the source was removed as its duplicate.
BytesKept ==
  ~discarded /\ (\E p \in Adopts : source[p] = NoFile) => Held \/ WrongDownload

\* An operation that reports success leaves a protected object behind: the
\* commands publish links to it without another look.
AcceptedIsPresent ==
  ~discarded /\ (\E p \in Op : pc[p] = "accepted") =>
    ReadOnly(object)

\* What trait Store promises of adopt: in every error case source is left
\* intact.
FailedAdoptKeepsSource ==
  \A p \in Adopts : pc[p] = "failed" => source[p] # NoFile

\* The object's path as ContentStore sees it; a read-only file that is neither
\* intact nor a trusted download is nothing ContentStore knows.
Slot ==
  CASE object = NoFile -> "absent"
    [] object # NoFile /\ ~ReadOnly(object) -> "unchecked"
    [] ReadOnly(object) /\ Good(object) -> "intact"
    [] ReadOnly(object) /\ ~Good(object) /\ object.by \in Trusts -> "trusted"
    [] OTHER -> "corrupt"

Promised == INSTANCE ContentStore WITH slot <- Slot

\* The operations, interleaved step by step, publish whole objects in one step
\* and never turn a protected object into anything but another complete one.
ImplementsContentStore == Promised!Spec
=============================================================================
