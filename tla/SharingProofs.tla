----------------------------- MODULE SharingProofs -----------------------------
(***************************************************************************)
(* Theorems about what processes that share a clone and a cache do for one *)
(* another: Workspace, the binding of the clone to its cache, for any      *)
(* number of processes and caches; and CommandLock, the lock of a command, *)
(* for any number of processes.                                            *)
(*                                                                         *)
(* The argument for Workspace: directories are only ever added to a cache, *)
(* and the link is only ever made where there is none.  So what a process  *)
(* has seen of its cache stays true, and by the time it makes the link, or *)
(* accepts one that is there, its cache is laid out.                       *)
(*                                                                         *)
(* The argument for CommandLock: while no step has gone astray the         *)
(* directory belongs to the process that is recording itself in it or      *)
(* holds it, and a breaker only removes the incarnation of a process that  *)
(* is dead for good.  As long as nobody has died there are no breakers, so *)
(* nothing goes astray.                                                    *)
(***************************************************************************)
EXTENDS Workspace, CommandLock, TLAPS

\* The stages in which a process has chosen a cache and has not bound it yet.
Binding == Subdirs \cup {"acquire", "bind", "symlink"}
\* Those in which it has found the clone bound to it.
BoundStages == {"config", "ignore", "write", "work"}

\* A process that goes on has laid out its cache up to where it is.
LaidOutSoFar(p) ==
    /\ pc[p] = "acquire" => kind[p] = "setup"
    /\ pc[p] \in Binding => root[p] \in Paths
    /\ pc[p] \in Binding \ {"files"} => "files" \in dirs[Target[root[p]]]
    /\ pc[p] \in Binding \ {"files", "tmp"} => "tmp" \in dirs[Target[root[p]]]
    /\ pc[p] \in Binding \ Subdirs => "locks" \in dirs[Target[root[p]]]

\* A process that has found the clone bound to its cache, or has ended well.
BoundTo(p) ==
    /\ pc[p] # "done" => outcome[p] = None
    /\ outcome[p] = "ok" \/ pc[p] \in BoundStages => root[p] \in Paths /\ link = Target[root[p]]

\* The inductive invariant.
WorkspaceInv ==
    /\ TypeOK
    /\ \A p \in Procs : LaidOutSoFar(p) /\ BoundTo(p)
    /\ BoundIsLaidOut

\* A step of p leaves the other processes where they are, takes no directory away and does
\* not change a link.
Framed(p) ==
    /\ \A q \in Procs \ {p} : pc'[q] = pc[q] /\ root'[q] = root[q] /\ outcome'[q] = outcome[q]
    /\ \A c \in Caches : dirs[c] \subseteq dirs'[c]
    /\ link # None => link' = link

-----------------------------------------------------------------------------

LEMMA InitEstablishes == Init => WorkspaceInv
  BY WorkspaceAssumption DEF Init, WorkspaceInv, TypeOK, LaidOutSoFar, BoundTo, BoundIsLaidOut,
     Binding, BoundStages, Binders, FirstStage, Kinds, Configs, Subdirs, None

LEMMA StepKeepsTypes ==
  ASSUME WorkspaceInv, NEW p \in Procs, Step(p)
  PROVE  TypeOK'
<1> USE WorkspaceAssumption DEF WorkspaceInv, TypeOK, Subdirs, None, options, Goto, Go, End,
       LaidOutSoFar, Binding
<1>1. CASE LookForConfig(p) BY <1>1 DEF LookForConfig
<1>2. CASE LoadConfig(p) BY <1>2 DEF LoadConfig
<1>3. CASE Choose(p) BY <1>3 DEF Choose
<1>4. CASE ChooseDefault(p) BY <1>4 DEF ChooseDefault
<1>5. CASE MakeDir(p)
  <2>1. AfterDir(p) \in {"tmp", "locks", "acquire", "bind"}
    BY DEF AfterDir
  <2>2. dirs' \in [Caches -> SUBSET Subdirs]
    BY <1>5 DEF MakeDir
  <2>3. pc' = [pc EXCEPT ![p] = AfterDir(p)] /\ UNCHANGED <<holder, kind, root>>
    BY <1>5 DEF MakeDir
  <2>4. \A c \in Caches : holder[c] # p \/ holder[c] = None
    BY <1>5 DEF MakeDir
  <2> QED BY <1>5, <2>1, <2>2, <2>3, <2>4 DEF MakeDir
<1>6. CASE Acquire(p) BY <1>6 DEF Acquire
<1>7. CASE CheckLink(p) BY <1>7 DEF CheckLink, AfterBind
<1>8. CASE MakeLink(p) BY <1>8 DEF MakeLink, AfterBind
<1>9. CASE WriteConfig(p) BY <1>9 DEF WriteConfig, Configs
<1>10. CASE ReadIgnore(p) BY <1>10 DEF ReadIgnore
<1>11. CASE WriteIgnore(p) BY <1>11 DEF WriteIgnore
<1>12. CASE Work(p) BY <1>12 DEF Work
<1> QED BY <1>1, <1>2, <1>3, <1>4, <1>5, <1>6, <1>7, <1>8, <1>9, <1>10, <1>11, <1>12 DEF Step

LEMMA StepIsFramed ==
  ASSUME WorkspaceInv, NEW p \in Procs, Step(p) \/ Stop(p)
  PROVE  Framed(p)
<1> USE WorkspaceAssumption DEF WorkspaceInv, TypeOK, Framed, Goto, Go, End
<1>1. CASE MakeDir(p) BY <1>1 DEF MakeDir
<1>2. CASE CheckLink(p) BY <1>2 DEF CheckLink, AfterBind
<1>3. CASE MakeLink(p) BY <1>3 DEF MakeLink, AfterBind
<1>4. CASE LookForConfig(p) \/ LoadConfig(p) \/ WriteConfig(p) \/ ReadIgnore(p) \/ WriteIgnore(p)
  BY <1>4 DEF LookForConfig, LoadConfig, WriteConfig, ReadIgnore, WriteIgnore
<1>5. CASE Choose(p) \/ ChooseDefault(p) \/ Acquire(p) \/ Work(p) \/ Stop(p)
  BY <1>5 DEF Choose, ChooseDefault, Acquire, Work, Stop
<1> QED BY <1>1, <1>2, <1>3, <1>4, <1>5 DEF Step

\* What p has laid out of its cache by the stage it gets to.
LEMMA StepLaysOut ==
  ASSUME WorkspaceInv, NEW p \in Procs, Step(p) \/ Stop(p)
  PROVE  LaidOutSoFar(p)'
<1> USE WorkspaceAssumption DEF WorkspaceInv, TypeOK, LaidOutSoFar, Binding, Subdirs, Goto, Go, End, options
<1>1. CASE MakeDir(p)
  <2>1. CASE pc[p] = "files"
    BY <1>1, <2>1 DEF MakeDir, AfterDir
  <2>2. CASE pc[p] = "tmp"
    BY <1>1, <2>2 DEF MakeDir, AfterDir
  <2>3. CASE pc[p] = "locks"
    BY <1>1, <2>3 DEF MakeDir, AfterDir
  <2> QED BY <1>1, <2>1, <2>2, <2>3 DEF MakeDir
<1>2. CASE CheckLink(p) BY <1>2 DEF CheckLink, AfterBind
<1>3. CASE MakeLink(p) BY <1>3 DEF MakeLink, AfterBind
<1>4. CASE LookForConfig(p) \/ LoadConfig(p) \/ WriteConfig(p) \/ ReadIgnore(p) \/ WriteIgnore(p)
  BY <1>4 DEF LookForConfig, LoadConfig, WriteConfig, ReadIgnore, WriteIgnore
<1>5. CASE Choose(p) \/ ChooseDefault(p) \/ Acquire(p) \/ Work(p) \/ Stop(p)
  BY <1>5 DEF Choose, ChooseDefault, Acquire, Work, Stop, Binders
<1> QED BY <1>1, <1>2, <1>3, <1>4, <1>5 DEF Step

\* A process goes on from its binding only with the link that names its cache.
LEMMA StepBinds ==
  ASSUME WorkspaceInv, NEW p \in Procs, Step(p) \/ Stop(p)
  PROVE  BoundTo(p)'
<1> USE WorkspaceAssumption DEF WorkspaceInv, TypeOK, LaidOutSoFar, BoundTo, Binding, BoundStages, Subdirs, Goto, Go, End, None
<1>1. CASE MakeDir(p)
  <2>1. AfterDir(p) \notin BoundStages
    BY DEF AfterDir
  <2>2. outcome[p] # "ok"
    BY <1>1 DEF MakeDir
  <2> QED BY <1>1, <2>1, <2>2 DEF MakeDir
<1>2. CASE CheckLink(p) BY <1>2 DEF CheckLink, AfterBind
<1>3. CASE MakeLink(p) BY <1>3 DEF MakeLink, AfterBind
<1>4. CASE LookForConfig(p) \/ LoadConfig(p) \/ WriteConfig(p) \/ ReadIgnore(p) \/ WriteIgnore(p)
  BY <1>4 DEF LookForConfig, LoadConfig, WriteConfig, ReadIgnore, WriteIgnore
<1>5. CASE Choose(p) \/ ChooseDefault(p) \/ Acquire(p) \/ Work(p) \/ Stop(p)
  BY <1>5 DEF Choose, ChooseDefault, Acquire, Work, Stop, Binders
<1> QED BY <1>1, <1>2, <1>3, <1>4, <1>5 DEF Step

LEMMA SameSet ==
  ASSUME NEW S, NEW T, S \subseteq T, T \subseteq S
  PROVE  S = T
  OBVIOUS

\* The link is made by MakeLink alone, when the cache has all its directories.
LEMMA StepKeepsLayout ==
  ASSUME WorkspaceInv, NEW p \in Procs, Step(p) \/ Stop(p), TypeOK'
  PROVE  BoundIsLaidOut'
<1> USE WorkspaceAssumption DEF WorkspaceInv, TypeOK, BoundIsLaidOut
<1>1. Framed(p)
  BY StepIsFramed
<1>2. CASE link' = link
  <2> SUFFICES ASSUME link # None PROVE dirs'[link] = Subdirs
    BY <1>2
  <2>1. link \in Caches /\ dirs[link] = Subdirs
    OBVIOUS
  <2>2. dirs[link] \subseteq dirs'[link]
    BY <1>1, <2>1 DEF Framed
  <2>3. dirs'[link] \subseteq Subdirs
    BY <2>1
  <2>4. Subdirs = dirs'[link]
    BY ONLY <2>1, <2>2, <2>3, SameSet
  <2> QED BY <2>4
<1>3. CASE link' # link
  <2>1. MakeLink(p) /\ link' = Target[root[p]] /\ dirs' = dirs
    BY <1>3 DEF Step, LookForConfig, LoadConfig, Choose, ChooseDefault, MakeDir, Acquire, CheckLink,
       MakeLink, WriteConfig, ReadIgnore, WriteIgnore, Work, Stop
  <2>2. Subdirs \subseteq dirs[Target[root[p]]]
    BY <2>1 DEF MakeLink, LaidOutSoFar, Binding, Subdirs
  <2>3. Target[root[p]] \in Caches
    BY <2>1 DEF MakeLink, LaidOutSoFar, Binding
  <2>4. dirs[Target[root[p]]] \subseteq Subdirs
    BY <2>3
  <2>5. Subdirs = dirs[Target[root[p]]]
    BY ONLY <2>2, <2>4, SameSet
  <2> QED BY <2>1, <2>5
<1> QED BY <1>2, <1>3

LEMMA InvariantIsKept == WorkspaceInv /\ [Next]_vars => WorkspaceInv'
<1> SUFFICES ASSUME WorkspaceInv, [Next]_vars PROVE WorkspaceInv'
  OBVIOUS
<1>1. ASSUME NEW p \in Procs, Step(p) \/ Stop(p) PROVE WorkspaceInv'
  <2>1. TypeOK'
    <3>1. CASE Step(p) BY <3>1, StepKeepsTypes
    <3>2. CASE Stop(p)
      BY <3>2, WorkspaceAssumption DEF Stop, End, options, WorkspaceInv, TypeOK, None
    <3> QED BY <1>1, <3>1, <3>2
  <2>2. Framed(p)
    BY <1>1, StepIsFramed
  <2>3. \A q \in Procs : (LaidOutSoFar(q) /\ BoundTo(q))'
    <3> SUFFICES ASSUME NEW q \in Procs PROVE LaidOutSoFar(q)' /\ BoundTo(q)'
      OBVIOUS
    <3>1. CASE q = p
      BY <1>1, <3>1, StepLaysOut, StepBinds
    <3>2. CASE q # p
      <4>1. pc'[q] = pc[q] /\ root'[q] = root[q] /\ outcome'[q] = outcome[q]
        BY <2>2, <3>2 DEF Framed
      <4>2. kind' = kind
        BY <1>1 DEF Step, LookForConfig, LoadConfig, Choose, ChooseDefault, MakeDir, Acquire, CheckLink,
           MakeLink, WriteConfig, ReadIgnore, WriteIgnore, Work, Stop, options
      <4>3. LaidOutSoFar(q)'
        BY <2>2, <4>1, <4>2, WorkspaceAssumption DEF WorkspaceInv, LaidOutSoFar, Framed, Binding, Subdirs
      <4>4. BoundTo(q)'
        BY <2>2, <4>1, WorkspaceAssumption DEF WorkspaceInv, BoundTo, Framed, None
      <4> QED BY <4>3, <4>4
    <3> QED BY <3>1, <3>2
  <2>4. BoundIsLaidOut'
    BY <1>1, <2>1, StepKeepsLayout
  <2> QED BY <2>1, <2>3, <2>4 DEF WorkspaceInv
<1>2. CASE UNCHANGED vars
  BY <1>2 DEF vars, WorkspaceInv, TypeOK, LaidOutSoFar, BoundTo, BoundIsLaidOut
<1> QED BY <1>1, <1>2 DEF Next, Done

-----------------------------------------------------------------------------

\* The variables keep their types, and only a setup that is binding holds a lock, that of the
\* cache it has chosen.
THEOREM TypeCorrect == Spec => []TypeOK
<1>1. WorkspaceInv => TypeOK
  BY DEF WorkspaceInv
<1> QED BY InitEstablishes, InvariantIsKept, <1>1, PTL DEF Spec

\* No command meets a cache that is bound but not laid out, however many inits and setups
\* race and are killed.
THEOREM BoundCacheIsLaidOut == Spec => []BoundIsLaidOut
<1>1. WorkspaceInv => BoundIsLaidOut
  BY DEF WorkspaceInv
<1> QED BY InitEstablishes, InvariantIsKept, <1>1, PTL DEF Spec

\* An init or setup that succeeds, and a command that works, is in the cache that the clone is
\* bound to.
THEOREM SuccessIsBound == Spec => []SuccessMeansBound
<1>1. WorkspaceInv => SuccessMeansBound
  BY DEF WorkspaceInv, SuccessMeansBound, BoundTo, BoundStages
<1> QED BY InitEstablishes, InvariantIsKept, <1>1, PTL DEF Spec

\* A clone that is bound is never bound to another cache.
THEOREM NeverRebound == Spec => BindingIsFinal
<1>1. WorkspaceInv /\ [Next]_vars => [link # None => link' = link]_link
  <2> SUFFICES ASSUME WorkspaceInv, [Next]_vars PROVE link # None => link' = link
    OBVIOUS
  <2>1. ASSUME NEW p \in Procs, Step(p) \/ Stop(p) PROVE link # None => link' = link
    BY <2>1, StepIsFramed DEF Framed
  <2> QED BY <2>1 DEF Next, Done, vars
<1> QED BY InitEstablishes, InvariantIsKept, <1>1, PTL DEF Spec, BindingIsFinal

-----------------------------------------------------------------------------
(* The command lock *)

\* A process that runs answers kill(pid, 0).
RunningIsLive == \A p \in Process : stage[p] \in {"idle", "dead"} \/ p \in live

\* Only a process in the middle of a removal is a breaker.
BreakersRemove == \A p \in breaking : stage[p] \in Removing

\* A PID in an owner file was written by a process that has started.
OwnerStarted == owner # NoOne => stage[owner] # "idle"

\* A process that is recording itself in the lock, or holds it, made the
\* directory that is there, and the owner file names the directory's maker.
DirIsHolders ==
  /\ owner # NoOne => owner = dir
  /\ \A p \in Process : stage[p] \in {"record", "held"} => dir = p

\* What a waiter examines is the incarnation of the PID it read.
ProbesMatch ==
  \A p \in Process :
    stage[p] = "probe" => /\ ownerRead[p] \in Process
                       /\ examined[p] = ownerRead[p]
                       /\ stage[ownerRead[p]] # "idle"

\* A breaker's target is the incarnation of a dead process.
TargetsAreDead ==
  \A p \in breaking : examined[p] \in Process /\ stage[examined[p]] = "dead"

NobodyDied == \A p \in Process : stage[p] # "dead"

\* While nobody has died a process that removes its own lock still finds it.
OwnRemovals ==
  /\ stray = {}
  /\ \A p \in Process : stage[p] \in Removing /\ p \notin breaking => dir = p

\* The inductive invariant.
LockInv ==
  /\ LockTypeOK
  /\ RunningIsLive
  /\ BreakersRemove
  /\ OwnerStarted
  /\ stray = {} => DirIsHolders /\ ProbesMatch /\ TargetsAreDead
  /\ NobodyDied => OwnRemovals

-----------------------------------------------------------------------------

\* The variables of CommandLock keep their types in every step of the lock
\* protocol.
THEOREM LockTypeCorrect == LockSpec => []LockTypeOK
<1> USE NoOneAssumption DEF LockTypeOK, Stages, Waiting, Removing
<1>1. LockInit => LockTypeOK
  BY DEF LockInit
<1>2. LockTypeOK /\ [LockNext]_lockVars => LockTypeOK'
  <2> SUFFICES ASSUME LockTypeOK, [LockNext]_lockVars PROVE LockTypeOK'
    OBVIOUS
  <2>1. ASSUME NEW p \in Process,
               Start(p) \/ Interrupt(p) \/ CreateFails(p) \/ RecordFails(p)
                 \/ Crash(p) \/ ReusePid(p)
        PROVE  LockTypeOK'
    BY <2>1 DEF Start, Interrupt, CreateFails, RecordFails, Crash, ReusePid,
                LockGoto, Forget
  <2>2. ASSUME NEW p \in Process,
               Poll(p) \/ Create(p) \/ Inspect(p) \/ Probe(p)
        PROVE  LockTypeOK'
    BY <2>2 DEF Poll, Create, Inspect, Probe, LockGoto, Forget
  <2>3. ASSUME NEW p \in Process,
               Record(p) \/ Finish(p) \/ OpenDir(p) \/ UnlinkOwner(p) \/ Exit(p)
        PROVE  LockTypeOK'
    BY <2>3 DEF Record, Finish, OpenDir, UnlinkOwner, Exit, LockGoto, Forget,
                AfterRemoval, Touch, MeantFor
  <2>4. ASSUME NEW p \in Process, RemoveDir(p)
        PROVE  LockTypeOK'
    BY <2>4 DEF RemoveDir, LockGoto, Forget, AfterRemoval, Touch, MeantFor
  <2>5. CASE UNCHANGED lockVars
    BY <2>5 DEF lockVars
  <2>6. QED
    BY <2>1, <2>2, <2>3, <2>4, <2>5 DEF LockNext, LockStep
<1>3. QED
  BY <1>1, <1>2, PTL DEF LockSpec

-----------------------------------------------------------------------------

\* The parts of LockInv that hold whatever has gone astray survive each step.
LEMMA LivenessBookkeeping ==
  ASSUME LockTypeOK, LockTypeOK', RunningIsLive, BreakersRemove, OwnerStarted,
         [LockNext]_lockVars
  PROVE  RunningIsLive' /\ BreakersRemove' /\ OwnerStarted'
<1> USE NoOneAssumption DEF LockTypeOK, Stages, Waiting, Removing, RunningIsLive,
        BreakersRemove, OwnerStarted, LockGoto
<1>1. ASSUME NEW p \in Process,
             Start(p) \/ Interrupt(p) \/ CreateFails(p) \/ RecordFails(p)
               \/ Crash(p) \/ ReusePid(p) \/ Exit(p)
      PROVE  RunningIsLive' /\ BreakersRemove' /\ OwnerStarted'
  BY <1>1 DEF Start, Interrupt, CreateFails, RecordFails, Crash, ReusePid, Exit
<1>2. ASSUME NEW p \in Process,
             Poll(p) \/ Create(p) \/ Inspect(p) \/ Probe(p)
      PROVE  RunningIsLive' /\ BreakersRemove' /\ OwnerStarted'
  BY <1>2 DEF Poll, Create, Inspect, Probe
<1>3. ASSUME NEW p \in Process,
             Record(p) \/ Finish(p) \/ OpenDir(p) \/ UnlinkOwner(p) \/ RemoveDir(p)
      PROVE  RunningIsLive' /\ BreakersRemove' /\ OwnerStarted'
  BY <1>3 DEF Record, Finish, OpenDir, UnlinkOwner, RemoveDir, AfterRemoval
<1>4. CASE UNCHANGED lockVars
  BY <1>4 DEF lockVars
<1>5. QED
  BY <1>1, <1>2, <1>3, <1>4 DEF LockNext, LockStep

Orderly == DirIsHolders /\ ProbesMatch /\ TargetsAreDead

\* As long as nothing has gone astray, directory, owner file and the findings
\* of the waiters stay consistent.
LEMMA OrderlySteps ==
  ASSUME LockTypeOK, LockTypeOK', RunningIsLive, BreakersRemove, OwnerStarted,
         stray = {} => Orderly, [LockNext]_lockVars, stray' = {}
  PROVE  Orderly'
<1> USE NoOneAssumption DEF LockTypeOK, Stages, Waiting, Removing, Orderly,
        DirIsHolders, ProbesMatch, TargetsAreDead, LockGoto
<1>1. stray = {} /\ Orderly
  <2>1. ASSUME NEW p \in Process, Record(p) \/ UnlinkOwner(p) \/ RemoveDir(p)
        PROVE  stray = {}
    BY <2>1 DEF Record, UnlinkOwner, RemoveDir, Touch
  <2>2. ASSUME NEW p \in Process,
               Start(p) \/ Interrupt(p) \/ CreateFails(p) \/ RecordFails(p)
                 \/ Crash(p) \/ ReusePid(p) \/ Exit(p) \/ Poll(p) \/ Create(p)
                 \/ Inspect(p) \/ Probe(p) \/ Finish(p) \/ OpenDir(p)
        PROVE  stray = {}
    BY <2>2 DEF Start, Interrupt, CreateFails, RecordFails, Crash, ReusePid, Exit,
                Poll, Create, Inspect, Probe, Finish, OpenDir
  <2>3. CASE UNCHANGED lockVars
    BY <2>3 DEF lockVars
  <2>4. QED
    BY <2>1, <2>2, <2>3 DEF LockNext, LockStep
<1>2. ASSUME NEW p \in Process,
             Start(p) \/ Interrupt(p) \/ CreateFails(p) \/ RecordFails(p)
               \/ ReusePid(p) \/ Exit(p) \/ Poll(p) \/ Finish(p)
      PROVE  Orderly'
  BY <1>1, <1>2 DEF BreakersRemove, Start, Interrupt, CreateFails, RecordFails,
                    ReusePid, Exit, Poll, Finish
<1>3. ASSUME NEW p \in Process, Crash(p)
      PROVE  Orderly'
  BY <1>1, <1>3 DEF BreakersRemove, Crash, Forget
<1>4. ASSUME NEW p \in Process, Create(p)
      PROVE  Orderly'
  BY <1>1, <1>4 DEF BreakersRemove, Create
<1>5. ASSUME NEW p \in Process, Inspect(p)
      PROVE  Orderly'
  BY <1>1, <1>5 DEF BreakersRemove, OwnerStarted, Inspect
<1>6. ASSUME NEW p \in Process, Probe(p)
      PROVE  Orderly'
  BY <1>1, <1>6 DEF BreakersRemove, RunningIsLive, Probe, Forget
<1>7. ASSUME NEW p \in Process, Record(p)
      PROVE  Orderly'
  BY <1>1, <1>7 DEF BreakersRemove, Record, Touch
<1>8. ASSUME NEW p \in Process, OpenDir(p)
      PROVE  Orderly'
  BY <1>1, <1>8 DEF BreakersRemove, OpenDir, AfterRemoval, Forget
<1>9. ASSUME NEW p \in Process, UnlinkOwner(p)
      PROVE  Orderly'
  BY <1>1, <1>9 DEF BreakersRemove, UnlinkOwner, Touch, MeantFor
<1>10. ASSUME NEW p \in Process, RemoveDir(p)
       PROVE  Orderly'
  BY <1>1, <1>10 DEF BreakersRemove, RemoveDir, AfterRemoval, Forget, Touch, MeantFor
<1>11. CASE UNCHANGED lockVars
  BY <1>1, <1>11 DEF lockVars
<1>12. QED
  BY <1>2, <1>3, <1>4, <1>5, <1>6, <1>7, <1>8, <1>9, <1>10, <1>11 DEF LockNext, LockStep

\* As long as nobody has died, whoever removes a lock finds its own.
LEMMA OwnRemovalSteps ==
  ASSUME LockTypeOK, LockTypeOK', BreakersRemove, stray = {} => Orderly,
         NobodyDied => OwnRemovals, [LockNext]_lockVars, NobodyDied'
  PROVE  OwnRemovals'
<1> USE NoOneAssumption DEF LockTypeOK, Stages, Waiting, Removing, OwnRemovals,
        NobodyDied, LockGoto
<1>1. NobodyDied
  <2>1. ASSUME NEW p \in Process,
               Start(p) \/ Interrupt(p) \/ CreateFails(p) \/ RecordFails(p)
                 \/ Crash(p) \/ ReusePid(p) \/ Exit(p) \/ Poll(p) \/ Create(p)
                 \/ Inspect(p) \/ Probe(p) \/ Record(p) \/ Finish(p)
        PROVE  NobodyDied
    BY <2>1 DEF Start, Interrupt, CreateFails, RecordFails, Crash, ReusePid, Exit,
                Poll, Create, Inspect, Probe, Record, Finish
  <2>2. ASSUME NEW p \in Process, OpenDir(p) \/ UnlinkOwner(p) \/ RemoveDir(p)
        PROVE  NobodyDied
    BY <2>2 DEF OpenDir, UnlinkOwner, RemoveDir, AfterRemoval
  <2>3. CASE UNCHANGED lockVars
    BY <2>3 DEF lockVars
  <2>4. QED
    BY <2>1, <2>2, <2>3 DEF LockNext, LockStep
<1>2. OwnRemovals /\ DirIsHolders /\ breaking = {}
  BY <1>1 DEF Orderly, TargetsAreDead
<1> USE <1>2 DEF DirIsHolders
<1>3. ASSUME NEW p \in Process,
             Start(p) \/ Interrupt(p) \/ CreateFails(p) \/ RecordFails(p)
               \/ Crash(p) \/ ReusePid(p) \/ Exit(p) \/ Poll(p) \/ Create(p)
               \/ Inspect(p) \/ Probe(p) \/ Finish(p)
      PROVE  OwnRemovals'
  BY <1>3 DEF Start, Interrupt, CreateFails, RecordFails, Crash, ReusePid, Exit,
              Poll, Create, Inspect, Probe, Finish
<1>4. ASSUME NEW p \in Process, Record(p)
      PROVE  OwnRemovals'
  BY <1>4 DEF Record, Touch
<1>5. ASSUME NEW p \in Process, OpenDir(p) \/ UnlinkOwner(p) \/ RemoveDir(p)
      PROVE  OwnRemovals'
  BY <1>5 DEF OpenDir, UnlinkOwner, RemoveDir, AfterRemoval, Touch, MeantFor
<1>6. CASE UNCHANGED lockVars
  BY <1>6 DEF lockVars
<1>7. QED
  BY <1>3, <1>4, <1>5, <1>6 DEF LockNext, LockStep

\* LockInv is an invariant of every behaviour of the lock protocol.
THEOREM LockInvariant == LockSpec => []LockInv
<1>1. LockInit => LockInv
  BY DEF LockInit, LockInv, LockTypeOK, Stages, RunningIsLive, BreakersRemove,
     OwnerStarted, DirIsHolders, ProbesMatch, TargetsAreDead, NobodyDied, OwnRemovals,
     Removing
<1>2. LockTypeOK' /\ LockInv /\ [LockNext]_lockVars => LockInv'
  BY LivenessBookkeeping, OrderlySteps, OwnRemovalSteps DEF LockInv, Orderly
<1>3. QED
  BY <1>1, <1>2, LockTypeCorrect, PTL DEF LockSpec

\* Two commands never hold the lock together unless a step went astray.
THEOREM Exclusion == LockSpec => []ExclusionUnlessStray
<1>1. LockInv => ExclusionUnlessStray
  BY DEF LockInv, DirIsHolders, ExclusionUnlessStray, Holds
<1>2. QED
  BY <1>1, LockInvariant, PTL

\* A step can go astray only after some process of the protocol has ended.
THEOREM DeathIsNeeded == LockSpec => []StrayNeedsDeath
<1>1. LockInv => StrayNeedsDeath
  BY DEF LockInv, NobodyDied, OwnRemovals, StrayNeedsDeath
<1>2. QED
  BY <1>1, LockInvariant, PTL
=============================================================================
