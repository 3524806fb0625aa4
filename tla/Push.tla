---------------------------------- MODULE Push ----------------------------------
(***************************************************************************)
(* git-sfs push to one remote, from several machines at once: the plan     *)
(* over the local cache (exec/push.rs, plan/push.rs), and the five runs of *)
(* rclone in copy_to_remote (ports/remote.rs), each with its retries.      *)
(*                                                                         *)
(* An object's file on the remote is what a size and a checksum tell of    *)
(* it.  rclone is external: it works through a batch object by object, in  *)
(* any order, may leave an upload cut short, and passes over a file that   *)
(* is missing at the source.  It looks for an object at its final place    *)
(* first and moves it there later, in one step that replaces what has come *)
(* there in between.                                                       *)
(***************************************************************************)
EXTENDS Naturals, Failures

CONSTANTS
  Pusher,       \* the push commands, one per machine
  Object,
  Scope,        \* the objects that the links of each push's scope name
  SkipMissing,  \* pushes with --skip-missing
  User,         \* names the staging directory: tmp/<user>/files
  Disturbed,    \* pushes that may be interrupted or killed, and evicted under
  RetryMax      \* attempts at one run of rclone, [settings]

ASSUME PushAssumption ==
  /\ Scope \in [Pusher -> SUBSET Object]
  /\ SkipMissing \subseteq Pusher /\ Disturbed \subseteq Pusher
  /\ RetryMax \in Nat

VARIABLES
  pc,           \* where each push is
  upload,       \* the objects it means to send
  skipped,      \* those it has left out because the cache has no copy
  handled,      \* those its present run of rclone is through with
  free,         \* those that run has found absent at their final place, and will move
  attempt,      \* the number of that run
  cached,       \* each machine's cache
  staged,       \* each staging directory of the remote
  final,        \* the remote's objects
  interrupted,  \* pushes that have been told to stop
  raced         \* history: the objects that two pushes had found absent at once

vars == << pc, upload, skipped, handled, free, attempt, cached, staged, final, interrupted, raced >>

Ended == {"done", "killed"} \cup Classes
Runs == {"sizes", "copy", "checkStaged", "move", "checkFinal"}
Stages == Ended \cup {"plan", "stat"} \cup Runs

\* A file of the right size: "good", or "bad" when its bytes are wrong.
\* "cut" is an upload that stopped half way.
Remote == {"absent", "cut", "good", "bad"}

\* A read-only object is trusted, right or not; "corrupt" is one that is
\* writable and will not pass its hash.
Cached == {"absent", "good", "bad", "corrupt"}

TypeOK ==
  /\ pc \in [Pusher -> Stages]
  /\ upload \in [Pusher -> SUBSET Object]
  /\ skipped \in [Pusher -> SUBSET Object]
  /\ handled \in [Pusher -> SUBSET Object]
  /\ free \in [Pusher -> SUBSET Object]
  /\ attempt \in [Pusher -> Nat \ {0}]
  /\ \A p \in Pusher : attempt[p] <= RetryMax \/ attempt[p] = 1
  /\ cached \in [Pusher -> [Object -> Cached]]
  /\ staged \in [{User[p] : p \in Pusher} -> [Object -> Remote]]
  /\ final \in [Object -> Remote]
  /\ interrupted \subseteq Pusher
  /\ raced \subseteq Object

\* An earlier push that was disturbed too may have left cut files behind.
Init ==
  /\ pc = [p \in Pusher |-> "plan"]
  /\ upload = [p \in Pusher |-> {}]
  /\ skipped = [p \in Pusher |-> {}]
  /\ handled = [p \in Pusher |-> {}]
  /\ free = [p \in Pusher |-> {}]
  /\ attempt = [p \in Pusher |-> 1]
  /\ cached \in [Pusher -> [Object -> Cached]]
  /\ \A p \in Pusher, o \in Object : o \notin Scope[p] => cached[p][o] = "absent"
  /\ staged \in [{User[p] : p \in Pusher} -> [Object -> {"absent", "cut"}]]
  /\ \A u \in {User[p] : p \in Pusher}, o \in Object :
       staged[u][o] = "cut" => \E p \in Disturbed : User[p] = u
  /\ final \in [Object -> Remote \ {"bad"}]
  /\ interrupted = {}
  /\ raced = {}

Whole(content) == content \in {"good", "bad"}

Goto(p, stage) ==
  /\ pc' = [pc EXCEPT ![p] = stage]
  /\ handled' = [handled EXCEPT ![p] = {}]
  /\ free' = [free EXCEPT ![p] = {}]
  /\ attempt' = [attempt EXCEPT ![p] = 1]

\* An interrupt outranks whatever else the push came to.
Exit(p, class) == Goto(p, IF p \in interrupted THEN "canceled" ELSE class)

(***************************************************************************)
(* Planning                                                                *)
(***************************************************************************)

\* Bug: a missing object is skipped whether or not the user asked for it.
PlanSkipsMissing(p) ==
  /\ pc[p] = "plan"
  /\ Goto(p, "stat")
  /\ upload' = [upload EXCEPT ![p] = {o \in Scope[p] : cached[p][o] # "absent"}]
  /\ UNCHANGED << skipped, cached, staged, final, interrupted, raced >>

\* The links' objects are verified; a corrupt one stops the push, and so does
\* a missing one without --skip-missing.
Plan(p) ==
  /\ pc[p] = "plan"
  /\ LET missing == {o \in Scope[p] : cached[p][o] = "absent"} IN
     IF p \in interrupted
       THEN Exit(p, PushClass(<<"Repo", "Canceled">>)) /\ UNCHANGED << upload, skipped >>
     ELSE IF \E o \in Scope[p] : cached[p][o] = "corrupt"
       THEN Exit(p, PushClass(<<"Store", "HashMismatch">>)) /\ UNCHANGED << upload, skipped >>
     ELSE IF missing # {} /\ p \notin SkipMissing
       THEN Exit(p, PushClass(<<"Plan", "MissingCachedFile">>)) /\ UNCHANGED << upload, skipped >>
       ELSE /\ Goto(p, "stat")
            /\ upload' = [upload EXCEPT ![p] = Scope[p] \ missing]
            /\ skipped' = [skipped EXCEPT ![p] = missing]
  /\ UNCHANGED << cached, staged, final, interrupted, raced >>

\* plan_upload: the sizes to expect; an object evicted since is an error.
Stat(p) ==
  /\ pc[p] = "stat"
  /\ IF upload[p] = {} THEN Exit(p, "done")
     ELSE IF \E o \in upload[p] : cached[p][o] = "absent" THEN Exit(p, PushClass(<<"Remote", "Io">>))
     ELSE Goto(p, "sizes")
  /\ UNCHANGED << upload, skipped, cached, staged, final, interrupted, raced >>

(***************************************************************************)
(* The runs of rclone that only look                                       *)
(***************************************************************************)

Mismatch(p) == Exit(p, PushClass(<<"Remote", "SizeMismatch">>))

\* An object of the right size is there already; one of another size is an
\* error; the rest is to be sent.
QuerySizes(p) ==
  /\ pc[p] = "sizes"
  /\ LET there == {o \in upload[p] : Whole(final[o])} IN
     IF \E o \in upload[p] : final[o] = "cut"
       THEN Mismatch(p) /\ UNCHANGED upload
       ELSE /\ upload' = [upload EXCEPT ![p] = @ \ there]
            /\ IF upload[p] = there THEN Exit(p, "done") ELSE Goto(p, "copy")
  /\ UNCHANGED << skipped, cached, staged, final, interrupted, raced >>

\* Bug: rclone's exit code is taken for the verification of the batch.
CheckStagedTrustsRclone(p) ==
  /\ pc[p] = "checkStaged"
  /\ Goto(p, "move")
  /\ UNCHANGED << upload, skipped, cached, staged, final, interrupted, raced >>

\* assert_remote_sizes of the staged batch.
CheckStaged(p) ==
  /\ pc[p] = "checkStaged"
  /\ IF \A o \in upload[p] : Whole(staged[User[p]][o]) THEN Goto(p, "move") ELSE Mismatch(p)
  /\ UNCHANGED << upload, skipped, cached, staged, final, interrupted, raced >>

\* assert_remote_sizes of the published batch.
CheckFinal(p) ==
  /\ pc[p] = "checkFinal"
  /\ IF \A o \in upload[p] : Whole(final[o]) THEN Exit(p, "done") ELSE Mismatch(p)
  /\ UNCHANGED << upload, skipped, cached, staged, final, interrupted, raced >>

(***************************************************************************)
(* The runs that transfer                                                  *)
(***************************************************************************)

\* Bug: a staged file that is there already is not compared.
UploadIgnoresExisting(p, o) ==
  /\ pc[p] = "copy" /\ o \in upload[p] \ handled[p]
  /\ handled' = [handled EXCEPT ![p] = @ \cup {o}]
  /\ IF staged[User[p]][o] = "absent" /\ cached[p][o] # "absent"
       THEN staged' = [staged EXCEPT ![User[p]][o] = cached[p][o]]
       ELSE UNCHANGED staged
  /\ UNCHANGED << pc, upload, skipped, free, attempt, cached, final, interrupted, raced >>

\* rclone copy --checksum of one object to the staging directory.
Upload(p, o) ==
  /\ pc[p] = "copy" /\ o \in upload[p] \ handled[p]
  /\ \/ /\ cached[p][o] \in {"absent", staged[User[p]][o]}
        /\ handled' = [handled EXCEPT ![p] = @ \cup {o}]
        /\ UNCHANGED staged
     \/ /\ cached[p][o] \notin {"absent", staged[User[p]][o]}
        /\ staged[User[p]][o] # "cut"
        /\ staged' = [staged EXCEPT ![User[p]][o] = "cut"]
        /\ UNCHANGED handled
     \/ /\ cached[p][o] \notin {"absent", staged[User[p]][o]}
        /\ staged' = [staged EXCEPT ![User[p]][o] = cached[p][o]]
        /\ handled' = [handled EXCEPT ![p] = @ \cup {o}]
  /\ UNCHANGED << pc, upload, skipped, free, attempt, cached, final, interrupted, raced >>

\* Bug: rclone move without --ignore-existing.
LookIgnoresExisting(p, o) ==
  /\ pc[p] = "move" /\ o \in upload[p] \ (handled[p] \cup free[p])
  /\ free' = [free EXCEPT ![p] = @ \cup {o}]
  /\ raced' = IF \E q \in Pusher : o \in free[q] THEN raced \cup {o} ELSE raced
  /\ UNCHANGED << pc, upload, skipped, handled, attempt, cached, staged, final, interrupted >>

\* rclone move --ignore-existing looks for one object at its final place: one that is
\* there is left alone.
Look(p, o) ==
  /\ pc[p] = "move" /\ o \in upload[p] \ (handled[p] \cup free[p])
  /\ IF final[o] = "absent"
       THEN /\ free' = [free EXCEPT ![p] = @ \cup {o}]
            /\ raced' = IF \E q \in Pusher : o \in free[q] THEN raced \cup {o} ELSE raced
            /\ UNCHANGED handled
       ELSE /\ handled' = [handled EXCEPT ![p] = @ \cup {o}]
            /\ UNCHANGED << free, raced >>
  /\ UNCHANGED << pc, upload, skipped, attempt, cached, staged, final, interrupted >>

\* It moves one that was not, over whatever is there by now.
Move(p, o) ==
  /\ pc[p] = "move" /\ o \in free[p]
  /\ handled' = [handled EXCEPT ![p] = @ \cup {o}]
  /\ free' = [free EXCEPT ![p] = @ \ {o}]
  /\ IF staged[User[p]][o] = "absent"
       THEN UNCHANGED << staged, final >>
       ELSE /\ final' = [final EXCEPT ![o] = staged[User[p]][o]]
            /\ staged' = [staged EXCEPT ![User[p]][o] = "absent"]
  /\ UNCHANGED << pc, upload, skipped, attempt, cached, interrupted, raced >>

\* rclone is through with the batch and exits with 0.
TransferEnds(p) ==
  /\ pc[p] \in {"copy", "move"} /\ handled[p] = upload[p]
  /\ Goto(p, IF pc[p] = "copy" THEN "checkStaged" ELSE "checkFinal")
  /\ UNCHANGED << upload, skipped, cached, staged, final, interrupted, raced >>

(***************************************************************************)
(* run_with_output: what a run that does not succeed leads to              *)
(***************************************************************************)

\* Bug: the attempts are not counted.
RetryForever(p) ==
  /\ pc[p] \in Runs
  /\ handled' = [handled EXCEPT ![p] = {}]
  /\ free' = [free EXCEPT ![p] = {}]
  /\ UNCHANGED << pc, upload, skipped, attempt, cached, staged, final, interrupted, raced >>

\* Exit code 5: the whole batch is tried again, RetryMax times in all.
Retry(p) ==
  /\ pc[p] \in Runs /\ p \notin interrupted
  /\ attempt[p] < RetryMax
  /\ attempt' = [attempt EXCEPT ![p] = @ + 1]
  /\ handled' = [handled EXCEPT ![p] = {}]
  /\ free' = [free EXCEPT ![p] = {}]
  /\ UNCHANGED << pc, upload, skipped, cached, staged, final, interrupted, raced >>

\* Exit code 5 once more, any other failure, or an rclone that cannot start.
GiveUp(p) ==
  /\ pc[p] \in Runs
  /\ Exit(p, PushClass(<<"Remote", "Failed">>))
  /\ UNCHANGED << upload, skipped, cached, staged, final, interrupted, raced >>

\* The interrupt is polled before and while rclone runs, which is killed.
Cancel(p) ==
  /\ pc[p] \in Runs /\ p \in interrupted
  /\ Exit(p, PushClass(<<"Remote", "Canceled">>))
  /\ UNCHANGED << upload, skipped, cached, staged, final, interrupted, raced >>

(***************************************************************************)
(* What the environment does                                               *)
(***************************************************************************)
Interrupt(p) ==
  /\ pc[p] \notin Ended /\ p \notin interrupted
  /\ interrupted' = interrupted \cup {p}
  /\ UNCHANGED << pc, upload, skipped, handled, free, attempt, cached, staged, final, raced >>

Kill(p) ==
  /\ pc[p] \notin Ended
  /\ Goto(p, "killed")
  /\ UNCHANGED << upload, skipped, cached, staged, final, interrupted, raced >>

\* cache rm and cache prune take no notice of a push.
Evict(p, o) ==
  /\ pc[p] \notin Ended /\ cached[p][o] # "absent"
  /\ cached' = [cached EXCEPT ![p][o] = "absent"]
  /\ UNCHANGED << pc, upload, skipped, handled, free, attempt, staged, final, interrupted, raced >>

Step(p) ==
  \/ Plan(p) \/ Stat(p)
  \/ QuerySizes(p) \/ CheckStaged(p) \/ CheckFinal(p)
  \/ \E o \in Object : Upload(p, o) \/ Look(p, o) \/ Move(p, o)
  \/ TransferEnds(p)
  \/ Retry(p) \/ GiveUp(p) \/ Cancel(p)

Next ==
  \/ \E p \in Pusher : Step(p)
  \/ \E p \in Disturbed : Interrupt(p) \/ Kill(p)
  \/ \E p \in Disturbed, o \in Object : Evict(p, o)

Spec == Init /\ [][Next]_vars

\* A push goes on while it is able to, and every run of rclone comes to an end.
FairSpec == Spec /\ \A p \in Pusher : WF_vars(Step(p))

-----------------------------------------------------------------------------

\* No push leaves a file at an object's final place that is cut short, nor puts one in
\* place of a whole one, whatever is killed, retried, evicted or raced on the way.
FinalsWhole ==
  [][\A o \in Object : final'[o] = "cut" => final[o] = "cut"]_vars

\* An object that is there is replaced only in a race: the push that replaces it, and
\* another, had both found its final place empty before either moved its own copy there.
\* A push that looks once it is there never touches it, in any attempt.  In a race a right
\* object may give way to a wrong copy of its size.
OnlyRaceReplaces ==
  [][\A o \in Object : final[o] # "absent" /\ final'[o] # final[o] => o \in raced]_vars

\* A push that succeeds has every object of its scope on the remote, in its
\* full size, but for those it was told it may skip and does report.
DoneIsBackedUp ==
  \A p \in Pusher : pc[p] = "done" =>
    \A o \in Scope[p] : Whole(final[o]) \/ o \in skipped[p]

\* "Integrity" means that retrying cannot help: some object of the scope is
\* damaged, in the cache or on the remote.  One evicted while it was to be sent
\* is taken for damage too.
IntegrityNeedsDamage ==
  \A p \in Pusher : pc[p] = "integrity" =>
    \/ \E o \in Scope[p] : cached[p][o] = "corrupt" \/ final[o] = "cut"
    \/ \E o \in upload[p] : cached[p][o] = "absent"

\* "Missing" asks for a pull: an object of the scope was in no cache of this
\* machine when the push looked, and it has sent nothing.
MissingSendsNothing ==
  \A p \in Pusher : pc[p] = "missing" =>
    upload[p] = {} /\ \E o \in Scope[p] : cached[p][o] = "absent"

\* What a push ends with is true of the remote and of the cache.
ExitIsTrue == DoneIsBackedUp /\ IntegrityNeedsDamage /\ MissingSendsNothing

\* What a push is about to check in its staging directory is what it sent:
\* nobody else works on it.
StagedIsOwn ==
  \A p \in Pusher, o \in Object :
    pc[p] = "checkStaged" /\ o \in upload[p] /\ cached[p][o] # "absent" =>
      staged[User[p]][o] = cached[p][o]

\* Every push comes to an end, however often rclone fails for a while.
EveryPushEnds == \A p \in Pusher : <>(pc[p] \in Ended)
=============================================================================
