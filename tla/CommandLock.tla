----------------------------- MODULE CommandLock -----------------------------
(***************************************************************************)
(* One command lock of a cache: the directory <cache>/locks/<name>.lock    *)
(* that `add', `import', `push', `pull' or `setup' creates before it works *)
(* and removes when it ends (crates/git-sfs-core/src/ports/lock.rs).       *)
(*                                                                         *)
(* The directory has one incarnation per process that created it: a        *)
(* command process acquires a lock at most once, so the creator names the  *)
(* incarnation.  Removal is std::fs::remove_dir_all, which opens the path, *)
(* unlinks what that directory holds and then removes the path: three      *)
(* steps other processes interleave with.  A process may be killed at any  *)
(* step and its PID may be given to an unrelated process afterwards.       *)
(***************************************************************************)
EXTENDS Naturals

CONSTANTS
  Process,  \* command processes that may want this lock; each has its own PID
  NoOne      \* no directory, no readable owner

ASSUME NoOneAssumption == NoOne \notin Process

VARIABLES
  stage,     \* where each process is in Lock::acquire or Drop for Lock
  dir,       \* the lock directory: NoOne, or the process that created it
  owner,     \* PID in its `owner' file: NoOne if missing, empty or malformed
  live,      \* PIDs for which kill(pid, 0) does not answer ESRCH
  canceled,  \* processes that received SIGINT or SIGTERM
  breaking,  \* processes removing a dead owner's lock rather than their own
  ownerRead, \* the PID a process last read from an owner file
  examined,  \* the incarnation that owner file was in
  opened,    \* the incarnation a removal has open
  stray      \* processes that touched an incarnation that was not theirs to touch

lockVars == << stage, dir, owner, live, canceled, breaking, ownerRead, examined,
               opened, stray >>

Waiting == {"poll", "create", "inspect", "probe"}
Removing == {"open", "unlink", "rmdir"}
Stages == {"idle", "record", "held", "exiting", "dead"} \cup Waiting \cup Removing

LockTypeOK ==
  /\ stage \in [Process -> Stages]
  /\ dir \in Process \cup {NoOne}
  /\ owner \in Process \cup {NoOne}
  /\ dir = NoOne => owner = NoOne
  /\ live \subseteq Process
  /\ canceled \subseteq Process
  /\ breaking \subseteq Process
  /\ ownerRead \in [Process -> Process \cup {NoOne}]
  /\ examined \in [Process -> Process \cup {NoOne}]
  /\ opened \in [Process -> Process \cup {NoOne}]
  /\ stray \subseteq Process

LockInit ==
  /\ stage = [p \in Process |-> "idle"]
  /\ dir = NoOne
  /\ owner = NoOne
  /\ live = {}
  /\ canceled = {}
  /\ breaking = {}
  /\ ownerRead = [p \in Process |-> NoOne]
  /\ examined = [p \in Process |-> NoOne]
  /\ opened = [p \in Process |-> NoOne]
  /\ stray = {}

LockGoto(p, s) == stage' = [stage EXCEPT ![p] = s]

\* What a process had read or opened goes with the loop turn that read it.
Forget(p) ==
  /\ ownerRead' = [ownerRead EXCEPT ![p] = NoOne]
  /\ examined' = [examined EXCEPT ![p] = NoOne]
  /\ opened' = [opened EXCEPT ![p] = NoOne]

\* The incarnation a removal by p is meant for: the one whose owner it found
\* dead, or the one p created.
MeantFor(p) == IF p \in breaking THEN examined[p] ELSE p

\* p acts on the directory that is there, meaning incarnation d.
Touch(p, d) == stray' = IF dir = d THEN stray ELSE stray \cup {p}

(***************************************************************************)
(* Waiting for the lock                                                    *)
(***************************************************************************)

\* A command process starts and calls Lock::acquire.
Start(p) ==
  /\ stage[p] = "idle"
  /\ LockGoto(p, "poll")
  /\ live' = live \cup {p}
  /\ UNCHANGED << dir, owner, canceled, breaking, ownerRead, examined, opened, stray >>

\* Ctrl-C: the handler only raises the flag.
Interrupt(p) ==
  /\ stage[p] \in Waiting \cup Removing \cup {"record", "held"}
  /\ p \notin canceled
  /\ canceled' = canceled \cup {p}
  /\ UNCHANGED << stage, dir, owner, live, breaking, ownerRead, examined, opened, stray >>

\* Bug: the flag is read once, before the loop, and never again.
PollNeverChecks(p) ==
  /\ stage[p] = "poll"
  /\ LockGoto(p, "create")
  /\ UNCHANGED << dir, owner, live, canceled, breaking, ownerRead, examined, opened, stray >>

\* Top of the loop: give up if canceled, else try to create the directory.
Poll(p) ==
  /\ stage[p] = "poll"
  /\ LockGoto(p, IF p \in canceled THEN "exiting" ELSE "create")
  /\ UNCHANGED << dir, owner, live, canceled, breaking, ownerRead, examined, opened, stray >>

\* mkdir: atomic, fails if the directory exists.
Create(p) ==
  /\ stage[p] = "create"
  /\ IF dir = NoOne
       THEN dir' = p /\ LockGoto(p, "record")
       ELSE dir' = dir /\ LockGoto(p, "inspect")
  /\ UNCHANGED << owner, live, canceled, breaking, ownerRead, examined, opened, stray >>

\* mkdir fails for another reason than AlreadyExists.
CreateFails(p) ==
  /\ stage[p] = "create"
  /\ LockGoto(p, "exiting")
  /\ UNCHANGED << dir, owner, live, canceled, breaking, ownerRead, examined, opened, stray >>

\* Bug: a directory without an owner record is taken for an abandoned one.
InspectTakesOwnerless(p) ==
  /\ stage[p] = "inspect"
  /\ IF owner = NoOne
       THEN LockGoto(p, "held") /\ UNCHANGED << ownerRead, examined >>
       ELSE /\ LockGoto(p, "probe")
            /\ ownerRead' = [ownerRead EXCEPT ![p] = owner]
            /\ examined' = [examined EXCEPT ![p] = dir]
  /\ UNCHANGED << dir, owner, live, canceled, breaking, opened, stray >>

\* read_owner_pid: no readable owner means possibly alive, so sleep and poll.
Inspect(p) ==
  /\ stage[p] = "inspect"
  /\ IF owner = NoOne
       THEN LockGoto(p, "poll") /\ UNCHANGED << ownerRead, examined >>
       ELSE /\ LockGoto(p, "probe")
            /\ ownerRead' = [ownerRead EXCEPT ![p] = owner]
            /\ examined' = [examined EXCEPT ![p] = dir]
  /\ UNCHANGED << dir, owner, live, canceled, breaking, opened, stray >>

\* Bug: every answer of kill is taken for a dead owner, EPERM included.
ProbeTakesAnyForDead(p) ==
  /\ stage[p] = "probe"
  /\ LockGoto(p, "open")
  /\ breaking' = breaking \cup {p}
  /\ UNCHANGED << dir, owner, live, canceled, ownerRead, examined, opened, stray >>

\* Bug: a dead owner is noticed but its lock is never broken.
ProbeNeverBreaks(p) ==
  /\ stage[p] = "probe"
  /\ LockGoto(p, "poll")
  /\ Forget(p)
  /\ UNCHANGED << dir, owner, live, canceled, breaking, stray >>

\* is_alive, of the PID read a moment ago: break the lock only on ESRCH.
Probe(p) ==
  /\ stage[p] = "probe"
  /\ IF ownerRead[p] \in live
       THEN LockGoto(p, "poll") /\ Forget(p) /\ UNCHANGED breaking
       ELSE /\ LockGoto(p, "open")
            /\ breaking' = breaking \cup {p}
            /\ UNCHANGED << ownerRead, examined, opened >>
  /\ UNCHANGED << dir, owner, live, canceled, stray >>

(***************************************************************************)
(* Holding the lock                                                        *)
(***************************************************************************)

\* write_owner writes by path: into whatever directory is there now.  With
\* none there it fails, and the process cleans up and gives up.
Record(p) ==
  /\ stage[p] = "record"
  /\ IF dir = NoOne
       THEN LockGoto(p, "open") /\ UNCHANGED << owner, stray >>
       ELSE /\ LockGoto(p, "held")
            /\ owner' = p
            /\ Touch(p, p)
  /\ UNCHANGED << dir, live, canceled, breaking, ownerRead, examined, opened >>

\* write_owner fails (a full disk, say).
RecordFails(p) ==
  /\ stage[p] = "record"
  /\ LockGoto(p, "open")
  /\ UNCHANGED << dir, owner, live, canceled, breaking, ownerRead, examined, opened, stray >>

\* The command ends, with any result: the guard is dropped.
Finish(p) ==
  /\ stage[p] = "held"
  /\ LockGoto(p, "open")
  /\ UNCHANGED << dir, owner, live, canceled, breaking, ownerRead, examined, opened, stray >>

(***************************************************************************)
(* release: remove_dir_all, its errors ignored                             *)
(***************************************************************************)

\* After a removal a breaker polls again and any other process is done.
AfterRemoval(p) ==
  /\ LockGoto(p, IF p \in breaking THEN "poll" ELSE "exiting")
  /\ breaking' = breaking \ {p}
  /\ Forget(p)

\* remove_dir_all opens the directory; there may be none any more.
OpenDir(p) ==
  /\ stage[p] = "open"
  /\ IF dir = NoOne
       THEN AfterRemoval(p)
       ELSE /\ LockGoto(p, "unlink")
            /\ opened' = [opened EXCEPT ![p] = dir]
            /\ UNCHANGED << breaking, ownerRead, examined >>
  /\ UNCHANGED << dir, owner, live, canceled, stray >>

\* It unlinks the owner file of the directory it has open.
UnlinkOwner(p) ==
  /\ stage[p] = "unlink"
  /\ LockGoto(p, "rmdir")
  /\ IF dir = opened[p] /\ owner # NoOne
       THEN owner' = NoOne /\ Touch(p, MeantFor(p))
       ELSE UNCHANGED << owner, stray >>
  /\ UNCHANGED << dir, live, canceled, breaking, ownerRead, examined, opened >>

\* Bug: the directory is moved away with its owner file still in it.
RemoveNonEmptyDir(p) ==
  /\ stage[p] = "rmdir"
  /\ dir' = NoOne
  /\ AfterRemoval(p)
  /\ UNCHANGED << owner, live, canceled, stray >>

\* It removes the path, whatever empty directory is there now; a directory
\* with an owner file in it stays.
RemoveDir(p) ==
  /\ stage[p] = "rmdir"
  /\ IF dir # NoOne /\ owner = NoOne
       THEN dir' = NoOne /\ Touch(p, MeantFor(p))
       ELSE UNCHANGED << dir, stray >>
  /\ AfterRemoval(p)
  /\ UNCHANGED << owner, live, canceled >>

(***************************************************************************)
(* The end of a process                                                    *)
(***************************************************************************)

Exit(p) ==
  /\ stage[p] = "exiting"
  /\ LockGoto(p, "dead")
  /\ live' = live \ {p}
  /\ UNCHANGED << dir, owner, canceled, breaking, ownerRead, examined, opened, stray >>

\* SIGKILL, at any step: nothing is released.
Crash(p) ==
  /\ stage[p] \notin {"idle", "exiting", "dead"}
  /\ LockGoto(p, "dead")
  /\ live' = live \ {p}
  /\ breaking' = breaking \ {p}
  /\ Forget(p)
  /\ UNCHANGED << dir, owner, canceled, stray >>

\* The system gives the PID of a process that ended to an unrelated one.
ReusePid(p) ==
  /\ stage[p] = "dead"
  /\ live' = live \cup {p}
  /\ live' # live
  /\ UNCHANGED << stage, dir, owner, canceled, breaking, ownerRead, examined, opened, stray >>

\* The steps a running process takes without outside help.
LockStep(p) ==
  \/ Poll(p) \/ Create(p) \/ Inspect(p) \/ Probe(p)
  \/ Record(p) \/ Finish(p)
  \/ OpenDir(p) \/ UnlinkOwner(p) \/ RemoveDir(p)
  \/ Exit(p)

LockNext ==
  \E p \in Process :
    \/ Start(p) \/ Interrupt(p) \/ LockStep(p)
    \/ CreateFails(p) \/ RecordFails(p)
    \/ Crash(p) \/ ReusePid(p)

\* A process that runs is scheduled; a command that holds the lock ends.
Fairness == \A p \in Process : WF_lockVars(LockStep(p))

LockSpec == LockInit /\ [][LockNext]_lockVars
FairLockSpec == LockSpec /\ Fairness

-----------------------------------------------------------------------------

Holds(p) == stage[p] = "held"

\* Two commands never hold the lock together unless a removal or an owner
\* record went to an incarnation that was not its own: the only way round the
\* lock is the time between reading a dead owner's PID and removing by path.
ExclusionUnlessStray ==
  stray = {} => \A p, q \in Process : Holds(p) /\ Holds(q) => p = q

\* As long as no process that took part has ended, no step can go astray: a
\* lock is never taken from a process on a false report of its death.
StrayNeedsDeath == stray # {} => \E p \in Process : stage[p] = "dead"

\* What the source promises of breaking a dead owner's lock: it can only make
\* a stale lock wait longer, never break a live one.
HolderKeepsLock == \A p \in Process : Holds(p) => dir = p /\ owner = p

\* Nobody is left who would remove the directory, and no waiter may: it has no
\* readable owner, or its dead owner's PID names another process now.
Orphaned ==
  /\ dir # NoOne
  /\ \/ owner = NoOne
     \/ stage[owner] = "dead" /\ owner \in live

\* A canceled waiter stops waiting, however long the lock is held.
CancelStops ==
  \A p \in Process :
    (p \in canceled /\ stage[p] \in Waiting) ~> (stage[p] \notin Waiting \cup Removing)

\* A waiter is served in the end, dead owners in front of it notwithstanding,
\* unless the lock is orphaned for good.
WaiterServed ==
  \A p \in Process :
    (stage[p] \in Waiting) ~> (stage[p] \notin Waiting \cup Removing \/ []Orphaned)
=============================================================================
