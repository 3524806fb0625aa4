------------------------------ MODULE GateProofs ------------------------------
(***************************************************************************)
(* Theorems about Gate: self update for any number of updates that overlap *)
(* and any releases, doctor and the commands after it, configurations.     *)
(*                                                                         *)
(* The argument for self update: nothing but a temporary file that is      *)
(* whole, executable and on disk is ever renamed to a program's path, so   *)
(* that neither path nor disk ever hold anything else; and what an update  *)
(* installs it has compared with the version it runs.                      *)
(*                                                                         *)
(* The argument for doctor: a run without a failed check has found, stage  *)
(* by stage, what a command needs (Found). The configuration and the rest  *)
(* of the machine stay; of what self update changes, rclone is only ever   *)
(* replaced by a release, and git-sfs is what the promise makes exceptions *)
(* for.                                                                    *)
(***************************************************************************)
EXTENDS Gate, TLAPS

\* A program's file is on disk with all its bytes; rclone may be missing.
FilesStand ==
  \A q \in Programs :
    /\ binary[q].state = "durable" \/ (q = "rclone" /\ binary[q] = NoFile)
    /\ disk[q].state = "durable" \/ (q = "rclone" /\ disk[q] = NoFile)

\* Past the verification the archive is good, and what is about to be renamed is the
\* latest release, complete and on disk, and newer than the git-sfs that installs it.
UpdaterStands(u) ==
  /\ pc[u] \in {"create", "prepare", "persist"} => archive[u] = "good"
  /\ pc[u] = "prepare" => tmp[u].state \in {"cut", "written", "executable"}
  /\ pc[u] = "persist" => tmp[u].state = "durable" /\ tmp[u].version = latest[u]
  /\ pc[u] \in {"download", "verify", "create", "prepare", "persist"} /\ what[u] = "git-sfs" =>
       own[u] = Dev \/ own[u] < latest[u]

\* The inductive invariant.
UpdateInv == UpdateTypeOK /\ FilesStand /\ \A u \in Updaters : UpdaterStands(u)

UpdateNext == Update \/ PowerLoss

-----------------------------------------------------------------------------

LEMMA InitEstablishes == UpdateInit => UpdateInv
<1> SUFFICES ASSUME UpdateInit PROVE UpdateInv
  OBVIOUS
<1>1. NoFile \in Files /\ \A v \in Nat : [version |-> v, state |-> "durable"] \in Files
  BY DEF NoFile, Files, States
<1>2. Newest["git-sfs"] \in Nat /\ Newest["rclone"] \in Nat
  BY UpdateAssumption DEF Programs
<1>3. /\ published \in [Programs -> Nat] /\ \A q \in Programs : published[q] <= Newest[q]
      /\ binary \in [Programs -> Files]
      /\ \A q \in Programs : binary[q].state = "durable" \/ (q = "rclone" /\ binary[q] = NoFile)
  <2>1. PICK g \in 0..Newest["git-sfs"], r \in 0..Newest["rclone"] :
          /\ published = [q \in Programs |-> IF q = "rclone" THEN r ELSE g]
          /\ \E v \in 0..g, w \in 0..r :
                binary = [q \in Programs |->
                            IF q = "rclone" /\ w = 0 THEN NoFile
                            ELSE [version |-> IF q = "rclone" THEN w ELSE v, state |-> "durable"]]
    BY DEF UpdateInit
  <2>2. PICK v \in 0..g, w \in 0..r :
                binary = [q \in Programs |->
                            IF q = "rclone" /\ w = 0 THEN NoFile
                            ELSE [version |-> IF q = "rclone" THEN w ELSE v, state |-> "durable"]]
    BY <2>1
  <2>3. v \in Nat /\ w \in Nat
    BY <1>2
  <2>4. \A q \in Programs : q = "git-sfs" \/ q = "rclone"
    BY DEF Programs
  <2>5. published \in [Programs -> Nat] /\ \A q \in Programs : published[q] <= Newest[q]
    BY <1>2, <2>1, <2>4
  <2>6. \A q \in Programs : binary[q] = IF q = "rclone" /\ w = 0 THEN NoFile
                            ELSE [version |-> IF q = "rclone" THEN w ELSE v, state |-> "durable"]
    BY <2>2
  <2>7. \A q \in Programs :
          /\ binary[q] \in Files
          /\ binary[q].state = "durable" \/ (q = "rclone" /\ binary[q] = NoFile)
    <3> SUFFICES ASSUME NEW q \in Programs
                 PROVE  /\ binary[q] \in Files
                        /\ binary[q].state = "durable" \/ (q = "rclone" /\ binary[q] = NoFile)
      OBVIOUS
    <3>1. CASE q = "git-sfs"
      <4>1. binary[q] = [version |-> v, state |-> "durable"]
        BY <2>6, <3>1
      <4> QED BY <1>1, <2>3, <4>1
    <3>2. CASE q = "rclone" /\ w = 0
      <4>1. binary[q] = NoFile
        BY <2>6, <3>2
      <4> QED BY <1>1, <3>2, <4>1
    <3>3. CASE q = "rclone" /\ w # 0
      <4>1. binary[q] = [version |-> w, state |-> "durable"]
        BY <2>6, <3>3
      <4> QED BY <1>1, <2>3, <4>1
    <3> QED BY <2>4, <3>1, <3>2, <3>3
  <2> QED BY <2>2, <2>5, <2>7
<1> QED BY <1>1, <1>3 DEF UpdateInit, UpdateInv, UpdateTypeOK, FilesStand, UpdaterStands, Programs, Dev

\* What one process does touches no other.
LEMMA EndingStands ==
  ASSUME UpdateInv, NEW u \in Updaters, UpdateEnds(u), UNCHANGED machine,
         tmp' = tmp \/ tmp' = [tmp EXCEPT ![u] = NoFile]
  PROVE  UpdateInv'
<1>1. NoFile \in Files
  BY DEF NoFile, Files
<1>2. UpdateTypeOK'
  BY <1>1 DEF UpdateInv, UpdateTypeOK, UpdateEnds, UGoto, Forget, machine, Programs, Dev
<1>3. FilesStand'
  BY DEF UpdateInv, FilesStand, machine
<1>4. \A v \in Updaters : UpdaterStands(v)'
  BY DEF UpdateInv, UpdateTypeOK, UpdaterStands, UpdateEnds, UGoto, Forget
<1> QED BY <1>2, <1>3, <1>4 DEF UpdateInv

LEMMA ContinuingStands ==
  ASSUME UpdateInv, NEW u \in Updaters, Continue(u), UNCHANGED published,
         binary' \in [Programs -> Files], disk' \in [Programs -> Files], FilesStand', tmp' = tmp
  PROVE  UpdateInv'
<1>1. UpdateTypeOK'
  <2>1. CASE what[u] = "git-sfs"
    <3>1. "rclone" \in Programs /\ 0 \in Nat /\ UpdateTypeOK /\ UNCHANGED <<own, pre>>
      BY <2>1 DEF UpdateInv, Programs, Continue, options
    <3>2. what' \in [Updaters -> Programs]
      BY <2>1, <3>1 DEF Continue, UpdateTypeOK
    <3>3. latest' \in [Updaters -> Nat] /\ archive' \in [Updaters -> {"none", "good", "damaged"}]
      BY <2>1, <3>1 DEF Continue, Forget, UpdateTypeOK
    <3>4. pc' \in [Updaters -> {"idle", "look", "compare", "download", "verify", "create",
                                "prepare", "persist", "sync"}]
      BY <2>1, <3>1 DEF Continue, UGoto, UpdateTypeOK
    <3> QED BY <3>1, <3>2, <3>3, <3>4 DEF UpdateTypeOK
  <2>2. CASE what[u] # "git-sfs"
    <3>1. UpdateEnds(u) /\ UpdateTypeOK /\ "git-sfs" \in Programs /\ Dev \in Nat
      BY <2>2 DEF UpdateInv, Programs, Continue, Dev
    <3> QED BY <3>1 DEF UpdateTypeOK, UpdateEnds, UGoto, Forget
  <2> QED BY <2>1, <2>2
<1>2. \A v \in Updaters : UpdaterStands(v)'
  <2> SUFFICES ASSUME NEW v \in Updaters PROVE UpdaterStands(v)'
    OBVIOUS
  <2>1. CASE v = u
    <3>1. pc'[u] \in {"look", "idle"}
      BY DEF UpdateInv, UpdateTypeOK, Continue, UpdateEnds, UGoto
    <3> QED BY <2>1, <3>1 DEF UpdaterStands
  <2>2. CASE v # u
    BY <2>2 DEF UpdateInv, UpdateTypeOK, UpdaterStands, Continue, UpdateEnds, UGoto, Forget, options
  <2> QED BY <2>1, <2>2
<1> QED BY <1>1, <1>2 DEF UpdateInv

LEMMA StepStands ==
  ASSUME UpdateInv, NEW u \in Updaters, UpdateStep(u)
  PROVE  UpdateInv'
<1>1. UpdateTypeOK /\ FilesStand /\ \A v \in Updaters : UpdaterStands(v)
  BY DEF UpdateInv
<1>m. UNCHANGED machine => FilesStand'
  BY <1>1 DEF FilesStand, machine
<1>n. NoFile \in Files
  BY DEF NoFile, Files
<1>2. CASE UpdateStarts(u)
  <2>1. UpdateTypeOK'
    BY <1>1, <1>2 DEF UpdateStarts, UpdateTypeOK, UGoto, machine, Files, Programs
  <2>2. \A v \in Updaters : UpdaterStands(v)'
    BY <1>1, <1>2 DEF UpdateStarts, UpdateTypeOK, UGoto, UpdaterStands
  <2> QED BY <1>2, <1>m, <2>1, <2>2 DEF UpdateStarts, UpdateInv
<1>3. CASE Look(u)
  <2>1. Eligible(u) \in Nat
    BY <1>1, <1>3 DEF Look, Eligible, UpdateTypeOK, Programs
  <2>2. UpdateTypeOK'
    BY <1>1, <1>3, <2>1 DEF Look, UpdateTypeOK, UGoto, machine, options
  <2>3. \A v \in Updaters : UpdaterStands(v)'
    BY <1>1, <1>3 DEF Look, UpdateTypeOK, UGoto, UpdaterStands, options
  <2> QED BY <1>3, <1>m, <2>2, <2>3 DEF Look, UpdateInv
<1>4. CASE Compare(u)
  <2>1. CASE IsWanted(u)
    <3>1. UpdateTypeOK'
      BY <1>1, <1>4, <2>1 DEF Compare, UpdateTypeOK, UGoto, machine, options
    <3>2. \A v \in Updaters : UpdaterStands(v)'
      BY <1>1, <1>4, <2>1 DEF Compare, UpdateTypeOK, UGoto, UpdaterStands, IsWanted, options
    <3> QED BY <1>4, <1>m, <3>1, <3>2 DEF Compare, UpdateInv
  <2>2. CASE ~IsWanted(u)
    <3>1. Continue(u) /\ UNCHANGED machine /\ tmp' = tmp
      BY <1>4, <2>2 DEF Compare
    <3>2. binary' \in [Programs -> Files] /\ disk' \in [Programs -> Files] /\ FilesStand'
      BY <1>1, <1>m, <3>1 DEF UpdateTypeOK, machine
    <3> QED BY <3>1, <3>2, ContinuingStands DEF machine
  <2> QED BY <2>1, <2>2
<1>5. CASE Download(u) \/ Verify(u)
  <2>1. UpdateTypeOK'
    BY <1>1, <1>5 DEF Download, Verify, UpdateTypeOK, UGoto, machine, options
  <2>2. \A v \in Updaters : UpdaterStands(v)'
    BY <1>1, <1>5 DEF Download, Verify, UpdateTypeOK, UGoto, UpdaterStands, options
  <2> QED BY <1>5, <1>m, <2>1, <2>2 DEF Download, Verify, UpdateInv
<1>6. CASE Prepare(u)
  <2> DEFINE next == [version |-> latest[u], state |-> IF pc[u] = "create" THEN "cut" ELSE NextState(u)]
  <2>1. archive[u] = "good" /\ next.state \in {"cut", "written", "executable", "durable"}
    <3>1. archive[u] = "good" /\ pc[u] \in {"create", "prepare"}
      BY <1>1, <1>6 DEF Prepare, UpdaterStands
    <3>2. CASE pc[u] = "create"
      BY <3>1, <3>2
    <3>3. CASE pc[u] = "prepare"
      <4>1. tmp[u].state \in {"cut", "written", "executable"}
        BY <1>1, <3>3 DEF UpdaterStands
      <4> QED BY <3>1, <3>3, <4>1 DEF NextState
    <3> QED BY <3>1, <3>2, <3>3
  <2>2. next \in Files /\ next.version = latest[u]
    BY <1>1, <2>1 DEF UpdateTypeOK, Files, States
  <2>3. tmp' = [tmp EXCEPT ![u] = next] /\ tmp'[u] = next
    BY <1>1, <1>6 DEF Prepare, UpdateTypeOK
  <2>4. pc' = [pc EXCEPT ![u] = IF next.state \in {"durable", "bad"} THEN "persist" ELSE "prepare"]
    BY <1>6, <2>3 DEF Prepare, UGoto
  <2>5. UNCHANGED <<machine, options, what, latest, archive>>
    BY <1>6 DEF Prepare
  <2>6. UpdateTypeOK'
    BY <1>1, <2>2, <2>3, <2>4, <2>5 DEF UpdateTypeOK, machine, options
  <2>7. ASSUME NEW v \in Updaters PROVE UpdaterStands(v)'
    <3>1. CASE v # u
      BY <1>1, <2>3, <2>4, <2>5, <3>1 DEF UpdateTypeOK, UpdaterStands, options
    <3>2. CASE v = u
      <4>1. pc'[u] = IF next.state = "durable" THEN "persist" ELSE "prepare"
        BY <1>1, <2>1, <2>4 DEF UpdateTypeOK
      <4>2. what[u] = "git-sfs" => own[u] = Dev \/ own[u] < latest[u]
        BY <1>1, <1>6 DEF Prepare, UpdaterStands
      <4> QED BY <2>1, <2>2, <2>3, <2>5, <3>2, <4>1, <4>2 DEF UpdaterStands, options
    <3> QED BY <3>1, <3>2
  <2> QED BY <1>m, <2>5, <2>6, <2>7 DEF UpdateInv
<1>7. CASE Persist(u)
  <2>1. tmp[u].state = "durable" /\ tmp[u] \in Files
    BY <1>1, <1>7 DEF Persist, UpdaterStands, UpdateTypeOK
  <2>2. UpdateTypeOK'
    BY <1>1, <1>7, <1>n DEF Persist, UpdateTypeOK, UGoto, options
  <2>3. FilesStand'
    BY <1>1, <1>7, <2>1 DEF Persist, UpdateTypeOK, FilesStand
  <2>4. \A v \in Updaters : UpdaterStands(v)'
    BY <1>1, <1>7 DEF Persist, UpdateTypeOK, UGoto, UpdaterStands, options
  <2> QED BY <2>2, <2>3, <2>4 DEF UpdateInv
<1>8. CASE SyncParent(u)
  <2>1. binary' = binary /\ disk' = binary /\ Continue(u) /\ tmp' = tmp /\ UNCHANGED published
    BY <1>8 DEF SyncParent
  <2>2. FilesStand'
    BY <1>1, <2>1 DEF FilesStand
  <2> QED BY <1>1, <2>1, <2>2, ContinuingStands DEF UpdateTypeOK
<1>9. CASE UpdateFails(u)
  BY <1>9, EndingStands DEF UpdateFails
<1> QED BY <1>2, <1>3, <1>4, <1>5, <1>6, <1>7, <1>8, <1>9 DEF UpdateStep

\* A power loss may undo a rename, and finds whole files wherever it leads to.
LEMMA PowerLossStands ==
  ASSUME UpdateInv, PowerLoss
  PROVE  UpdateInv'
<1>1. PICK lost \in SUBSET Programs :
        binary' = [q \in Programs |-> AfterPowerLoss(IF q \in lost THEN disk[q] ELSE binary[q])]
  BY DEF PowerLoss
<1>2. NoFile \in Files
  BY DEF NoFile, Files
<1>3. ASSUME NEW q \in Programs
      PROVE  /\ binary'[q] \in Files
             /\ binary'[q].state = "durable" \/ (q = "rclone" /\ binary'[q] = NoFile)
  <2> DEFINE kept == IF q \in lost THEN disk[q] ELSE binary[q]
  <2>1. kept \in Files /\ (kept.state = "durable" \/ (q = "rclone" /\ kept = NoFile))
    BY DEF UpdateInv, UpdateTypeOK, FilesStand
  <2>2. AfterPowerLoss(kept) = kept
    BY <2>1 DEF AfterPowerLoss
  <2> QED BY <1>1, <2>1, <2>2
<1>4. disk' = binary' /\ binary' \in [Programs -> Files] /\ FilesStand'
  BY <1>1, <1>3 DEF PowerLoss, FilesStand
<1>5. UpdateTypeOK'
  BY <1>2, <1>4 DEF UpdateInv, UpdateTypeOK, PowerLoss, Programs, Dev
<1>6. \A u \in Updaters : UpdaterStands(u)'
  BY DEF PowerLoss, UpdaterStands
<1> QED BY <1>4, <1>5, <1>6 DEF UpdateInv

LEMMA InvariantIsKept ==
  ASSUME UpdateInv, [UpdateNext]_updateVars
  PROVE  UpdateInv'
<1>1. CASE UNCHANGED updateVars
  BY <1>1 DEF updateVars, UpdateInv, UpdateTypeOK, FilesStand, UpdaterStands
<1>2. ASSUME NEW q \in Programs, Publish(q) PROVE UpdateInv'
  <2>1. Newest[q] \in Nat /\ UpdateTypeOK
    BY UpdateAssumption DEF UpdateInv
  <2>2. UpdateTypeOK'
    BY <1>2, <2>1 DEF Publish, UpdateTypeOK, options
  <2> QED BY <1>2, <2>2 DEF Publish, UpdateInv, FilesStand, UpdaterStands, options
<1> QED BY <1>1, <1>2, StepStands, PowerLossStands DEF UpdateNext, Update

\* Commands and doctor leave the programs alone.
LEMMA GateStepsUpdate == [Next]_vars => [UpdateNext]_updateVars
  BY DEF Next, vars, UpdateNext, Command, Doctor, Then, SkipRest, DoctorStarts, CheckRepository,
     CheckConfig, CheckVersion, CheckSymlinks, CheckCache, CheckDirectory, CheckPermissions,
     CheckBinary, CheckRclone, CheckRemote, RemotesDone, Finish, DoctorDies

LEMMA InvariantHolds == Spec => []UpdateInv
<1>1. Init => UpdateInv
  BY InitEstablishes DEF Init
<1>2. UpdateInv /\ [Next]_vars => UpdateInv'
  BY GateStepsUpdate, InvariantIsKept
<1> QED BY <1>1, <1>2, PTL DEF Spec

\* Whatever is killed, damaged or cut off at whatever point, git-sfs and rclone are whole
\* released programs that can be run, however many updates overlap.
THEOREM ProgramsAreWhole == Spec => []BinariesAreWhole
<1>1. UpdateInv => BinariesAreWhole
  BY DEF UpdateInv, FilesStand, BinariesAreWhole, Runs
<1> QED BY <1>1, InvariantHolds, PTL

\* Only the update that renames is at "persist" before and at "sync" after a step.
LEMMA RenamesAreOwn ==
  ASSUME UpdateInv, [UpdateNext]_updateVars, NEW u \in Updaters, pc[u] = "persist", pc'[u] = "sync"
  PROVE  Persist(u)
<1>1. ASSUME NEW v \in Updaters, UpdateStep(v) PROVE Persist(u)
  BY <1>1 DEF UpdateInv, UpdateTypeOK, UpdateStep, UpdateStarts, Look, Compare, Download, Verify, Prepare,
     Persist, SyncParent, UpdateFails, UGoto, Continue, UpdateEnds
<1>2. ~(UNCHANGED updateVars) /\ ~PowerLoss /\ \A q \in Programs : ~Publish(q)
  BY DEF updateVars, PowerLoss, Publish
<1> QED BY <1>1, <1>2 DEF UpdateNext, Update

\* An update that nothing overlaps never replaces git-sfs by an older version.
THEOREM OnlyOverlapDowngrades == Spec => OlderOnlyByOverlap
<1> DEFINE Downgrade ==
      LET new == binary'["git-sfs"].version IN
      (new < binary["git-sfs"].version /\ \E u \in Updaters : pc[u] = "persist" /\ pc'[u] = "sync")
        => \E u \in Updaters : pc[u] = "persist" /\ own[u] # binary["git-sfs"].version
<1>1. UpdateInv /\ [UpdateNext]_updateVars => Downgrade
  <2> SUFFICES ASSUME UpdateInv, [UpdateNext]_updateVars, NEW u \in Updaters,
                      pc[u] = "persist", pc'[u] = "sync",
                      binary'["git-sfs"].version < binary["git-sfs"].version
               PROVE  own[u] # binary["git-sfs"].version
    OBVIOUS
  <2>1. Persist(u) /\ UpdateTypeOK /\ UpdaterStands(u)
    BY RenamesAreOwn DEF UpdateInv
  <2>2. /\ binary["git-sfs"] \in Files /\ binary["git-sfs"].version \in Nat
        /\ own[u] \in Nat /\ latest[u] \in Nat
    BY <2>1 DEF UpdateTypeOK, Files, Programs
  <2>3. what[u] = "git-sfs"
    <3>1. ASSUME what[u] # "git-sfs" PROVE binary'["git-sfs"] = binary["git-sfs"]
      BY <2>1, <3>1 DEF Persist, UpdateTypeOK, Programs
    <3> QED BY <2>2, <3>1
  <2>4. binary'["git-sfs"].version = latest[u]
    BY <2>1, <2>3 DEF Persist, UpdateTypeOK, UpdaterStands, Programs
  <2>5. own[u] = Dev \/ own[u] < latest[u]
    BY <2>1, <2>3 DEF UpdaterStands
  <2> QED BY <2>2, <2>4, <2>5 DEF Dev
<1>2. UpdateInv /\ [Next]_vars => [Downgrade]_binary
  BY <1>1, GateStepsUpdate
<1> QED BY <1>2, InvariantHolds, PTL DEF Spec, OlderOnlyByOverlap
\* The two readings of a configuration that is taken: the scanner takes it too, and what both
\* find in it does not differ.
LEMMA ReadingsAgree ==
  ASSUME NEW f, ParseAndValidate(f).status = "ok"
  PROVE  LET c == ParseAndValidate(f)
             older == RemotesOf(f, "compat")
         IN /\ Scan(f) = "ok"
            /\ Agree(c.sfs, f.min_git_sfs_version.compat)
            /\ Agree(c.rclone, f.min_rclone_version.compat)
            /\ \A n \in DOMAIN c.remotes \cap DOMAIN older, x \in RemoteFields :
                  Agree(c.remotes[n][x], older[n][x])
<1> DEFINE c == ParseAndValidate(f)
           older == RemotesOf(f, "compat")
<1>1. CASE Scan(f) = "ok" /\ Strict(f) = "ok"
  <2>1. ~FindDivergence(f) /\ c = Accepted(f, "strict")
    BY <1>1 DEF ParseAndValidate, Refused
  <2>2. /\ c.sfs = f.min_git_sfs_version.strict /\ c.rclone = f.min_rclone_version.strict
        /\ c.remotes = RemotesOf(f, "strict")
    BY <2>1 DEF Accepted
  <2>3. Agree(c.sfs, f.min_git_sfs_version.compat) /\ Agree(c.rclone, f.min_rclone_version.compat)
    BY <2>1, <2>2 DEF FindDivergence, SettingsDiffer, Differ, Agree, Strings
  <2>4. ASSUME NEW n \in DOMAIN c.remotes \cap DOMAIN older, NEW x \in RemoteFields
        PROVE  Agree(c.remotes[n][x], older[n][x])
    BY <2>1, <2>2 DEF FindDivergence, RemotesDiffer, Differ, Agree
  <2> QED BY <1>1, <2>3, <2>4
<1>2. CASE Scan(f) = "ok" /\ Strict(f) = "toml"
  <2>1. c = Accepted(f, "compat")
    BY <1>2 DEF ParseAndValidate, FromScan, Refused
  <2> QED BY <1>2, <2>1 DEF Accepted, Agree
<1>3. CASE ~(Scan(f) = "ok" /\ Strict(f) \in {"ok", "toml"})
  BY <1>3 DEF ParseAndValidate, Refused
<1> QED BY <1>1, <1>2, <1>3

\* Whatever is written in a configuration that is taken, versions that read it with the
\* scanner take it too, keep the same floors, and find the objects of every remote that they
\* know by the same name where this one puts them.
THEOREM OneMeaning == Spec => []AcceptedMeansAgreed
<1>1. AcceptedMeansAgreed
  BY ReadingsAgree DEF AcceptedMeansAgreed, Load, Refused
<1> QED BY <1>1, PTL

-----------------------------------------------------------------------------
(* What doctor has found stays true *)

\* What is about to be installed is a release.
ReleaseInHand == \A u \in Updaters :
  pc[u] \in {"compare", "download", "verify", "create", "prepare", "persist"} => latest[u] > 0

\* The fields of a run of doctor.
Fields == {"stage", "own", "asked", "config", "report", "failed", "left", "code"}
IsRun(d) == DOMAIN d = Fields /\ d.own \in Nat /\ d.failed \in Nat

Last == {"remotes", "finish"}
AfterBinary == {"rclone"} \cup Last
AfterDirectory == {"permissions", "binary"} \cup AfterBinary
AfterCache == {"directory"} \cup AfterDirectory
AfterVersion == {"symlinks", "cache"} \cup AfterCache
AfterConfig == {"version"} \cup AfterVersion
AfterRepository == {"config"} \cup AfterConfig

\* No check has failed, and those before these stages are done.
Passed(stages) == doctor.failed = 0 /\ (doctor.stage \in stages \/ doctor.code = 0)

RemotesAsked == IF doctor.asked = Absent THEN DOMAIN doctor.config.remotes ELSE {doctor.asked}

\* What a run without a failed check has found holds of the world now.
Found ==
  /\ Passed(AfterRepository) => place.repository
  /\ Passed(AfterConfig) => doctor.config = Load /\ doctor.config.status = "ok"
  /\ Passed(AfterVersion) => MeetsFloor(doctor.own, doctor.config.sfs)
  /\ Passed(AfterCache) => place.cache # "unbound"
  /\ Passed(AfterDirectory) => place.cache # "read-only"
  /\ Passed(AfterBinary) => Rclone \in Nat /\ Rclone > 0
  /\ Passed(Last) => \A n \in RemotesAsked \ doctor.left : RemoteIsFine(n)
  /\ Passed({"finish"}) => doctor.left = {}

\* The inductive invariant, over UpdateInv: only a run that ends without a failed check exits with 0, and
\* a command is late only after such a run, and then ready.
DoctorInv ==
  /\ ReleaseInHand
  /\ place \in Places
  /\ IsRun(doctor)
  /\ doctor.code = 0 => doctor.stage = "done" /\ doctor.failed = 0
  /\ Found
  /\ command.late => doctor.code = 0
  /\ ReadyAfterDoctor

\* The fields of what a check that passes or fails leaves.
LEMMA ChecksRecord ==
  ASSUME IsRun(doctor), NEW l, NEW good \in BOOLEAN, NEW s, Then(Record(l, good), s)
  PROVE  /\ IsRun(doctor')
         /\ doctor'.stage = s /\ doctor'.own = doctor.own /\ doctor'.asked = doctor.asked
         /\ doctor'.config = doctor.config /\ doctor'.left = doctor.left /\ doctor'.code = doctor.code
         /\ good => doctor'.failed = doctor.failed
         /\ ~good => doctor'.failed # 0
<1>1. doctor' = [Record(l, good) EXCEPT !.stage = s]
  BY DEF Then
<1> QED BY <1>1 DEF Record, IsRun, Fields

LEMMA ChecksSkip ==
  ASSUME IsRun(doctor), NEW l, SkipRest(Record(l, FALSE))
  PROVE  /\ IsRun(doctor')
         /\ doctor'.stage = "finish" /\ doctor'.code = doctor.code /\ doctor'.failed # 0
<1> DEFINE d == Record(l, FALSE)
           r == [x \in Labels |-> IF d.report[x] = "none" THEN "skip" ELSE d.report[x]]
<1>1. /\ DOMAIN d = Fields
      /\ d.own = doctor.own /\ d.code = doctor.code /\ d.failed = doctor.failed + 1
  BY DEF Record, IsRun, Fields
<1>2. doctor' = [[d EXCEPT !.report = r] EXCEPT !.stage = "finish"]
  BY DEF SkipRest, Then
<1> HIDE DEF d, r
<1> QED BY <1>1, <1>2 DEF IsRun, Fields

LEMMA DoctorInvHoldsAtStart == Init => DoctorInv
<1> SUFFICES ASSUME Init PROVE DoctorInv
  OBVIOUS
<1>1. doctor = Idle /\ command = Nothing /\ place \in Places /\ \A u \in Updaters : pc[u] = "idle"
  BY DEF Init, GateInit, UpdateInit
<1>2. /\ IsRun(doctor) /\ doctor.code = -1 /\ doctor.stage = "idle"
  BY <1>1 DEF Idle, IsRun, Fields
<1>3. ReleaseInHand
  BY <1>1 DEF ReleaseInHand
<1>4. Found
  BY <1>2 DEF Found, Passed, AfterRepository, AfterConfig, AfterVersion, AfterCache, AfterDirectory, AfterBinary, Last
<1>5. ~command.late
  BY <1>1 DEF Nothing
<1> QED BY <1>1, <1>2, <1>3, <1>4, <1>5 DEF DoctorInv, ReadyAfterDoctor

\* Doctor's own steps.
LEMMA DoctorStepFinds ==
  ASSUME UpdateInv, DoctorInv, Doctor
  PROVE  DoctorInv'
<1>1. UNCHANGED <<updateVars, file, place, command>>
  BY DEF Doctor, Then, SkipRest, DoctorStarts, CheckRepository,
     CheckConfig, CheckVersion, CheckSymlinks, CheckCache, CheckDirectory, CheckPermissions,
     CheckBinary, CheckRclone, CheckRemote, RemotesDone, Finish, DoctorDies
<1>2. ReleaseInHand' /\ (place \in Places)'
  BY <1>1 DEF DoctorInv, ReleaseInHand, updateVars
<1>3. Load' = Load /\ Rclone' = Rclone
  BY <1>1 DEF Load, Rclone, updateVars
<1>4. doctor.stage # "done"
  BY DEF Doctor, DoctorStarts, CheckRepository, At,
     CheckConfig, CheckVersion, CheckSymlinks, CheckCache, CheckDirectory, CheckPermissions,
     CheckBinary, CheckRclone, CheckRemote, RemotesDone, Finish, DoctorDies
<1>5. doctor.code # 0 /\ ~command'.late /\ IsRun(doctor)
  BY <1>1, <1>4 DEF DoctorInv
<1>6. ReadyAfterDoctor'
  BY <1>5 DEF ReadyAfterDoctor
<1> DEFINE Outcome == IsRun(doctor') /\ (doctor'.code = 0 => doctor'.stage = "done" /\ doctor'.failed = 0)
<1>7. Outcome /\ Found' => DoctorInv'
  BY <1>2, <1>5, <1>6 DEF DoctorInv
<1> DEFINE Same == doctor'.own = doctor.own /\ doctor'.asked = doctor.asked
                   /\ doctor'.config = doctor.config /\ doctor'.left = doctor.left /\ doctor'.code = doctor.code
<1>8. ASSUME NEW n, doctor'.config = doctor.config PROVE RemoteIsFine(n)' = RemoteIsFine(n)
  BY <1>1, <1>3, <1>8 DEF RemoteIsFine, HasRemote, ConfIsThere
<1>9. \A n \in RemotesAsked \ doctor.left : Same /\ Passed(Last) => RemoteIsFine(n)'
  BY <1>8 DEF DoctorInv, Found
<1>a. CASE DoctorStarts
  <2>1. IsRun(doctor') /\ doctor'.stage = "repository" /\ doctor'.code = -1
    <3>1. PICK n \in Names \cup {Absent} :
             Then([Idle EXCEPT !.own = binary["git-sfs"].version, !.asked = n], "repository")
      BY <1>a DEF DoctorStarts
    <3>2. binary["git-sfs"].version \in Nat
      BY DEF UpdateInv, UpdateTypeOK, Files, Programs
    <3> QED BY <3>1, <3>2 DEF Then, Idle, IsRun, Fields
  <2> QED BY <1>7, <2>1
          DEF Found, Passed, AfterRepository, AfterConfig, AfterVersion, AfterCache, AfterDirectory, AfterBinary, Last
<1>b. CASE CheckRepository
  <2>1. CASE place.repository
    <3>1. /\ At("repository") /\ Then(Record("git repository", TRUE), "config")
      BY <1>b, <2>1 DEF CheckRepository
    <3>2. IsRun(doctor') /\ doctor'.stage = "config" /\ Same
      BY <1>5, <3>1, ChecksRecord
    <3> QED BY <1>1, <1>5, <1>7, <2>1, <3>2
            DEF Found, Passed, AfterRepository, AfterConfig, AfterVersion, AfterCache, AfterDirectory, AfterBinary, Last
  <2>2. CASE ~place.repository
    <3>1. SkipRest(Record("git repository", FALSE))
      BY <1>b, <2>2 DEF CheckRepository, Record
    <3> QED BY <1>5, <1>7, <3>1, ChecksSkip DEF Found, Passed
  <2> QED BY <2>1, <2>2
<1>c. CASE CheckConfig
  <2> DEFINE ok == Load.status = "ok"
             d == [Record("git-sfs config", ok) EXCEPT !.config = Load]
  <2>1. IsRun(d) /\ d.code = doctor.code /\ d.config = Load /\ d.failed = (IF ok THEN doctor.failed ELSE doctor.failed + 1)
    BY <1>5 DEF Record, IsRun, Fields
  <2>2. At("config") /\ (ok => Then(d, "version")) /\ (~ok => SkipRest(d))
    BY <1>c DEF CheckConfig
  <2>3. CASE ok
    <3>1. /\ IsRun(doctor') /\ doctor'.stage = "version" /\ doctor'.code = doctor.code
          /\ doctor'.config = Load /\ doctor'.failed = doctor.failed
      <4>1. doctor' = [d EXCEPT !.stage = "version"]
        BY <2>2, <2>3 DEF Then
      <4> HIDE DEF d
      <4> QED BY <2>1, <2>3, <4>1 DEF IsRun, Fields
    <3>2. Passed(AfterRepository)' => place'.repository
      <4>1. Passed(AfterRepository)' => Passed(AfterRepository)
        BY <2>2, <3>1 DEF At, Passed, AfterRepository
      <4> QED BY <1>1, <4>1 DEF DoctorInv, Found
    <3> QED BY <1>3, <1>5, <1>7, <2>3, <3>1, <3>2
            DEF Found, Passed, AfterConfig, AfterVersion, AfterCache, AfterDirectory, AfterBinary, Last
  <2>4. CASE ~ok
    <3>1. IsRun(doctor') /\ doctor'.stage = "finish" /\ doctor'.code = doctor.code /\ doctor'.failed # 0
      <4> DEFINE r == [l \in Labels |-> IF d.report[l] = "none" THEN "skip" ELSE d.report[l]]
      <4>1. doctor' = [[d EXCEPT !.report = r] EXCEPT !.stage = "finish"]
        BY <2>2, <2>4 DEF SkipRest, Then
      <4>2. doctor.failed \in Nat
        BY <1>5 DEF IsRun
      <4> HIDE DEF d, r
      <4> QED BY <2>1, <2>4, <4>1, <4>2 DEF IsRun, Fields
    <3> QED BY <1>5, <1>7, <3>1 DEF Found, Passed
  <2> QED BY <2>3, <2>4
<1>d. CASE CheckVersion
  <2> DEFINE good == MeetsFloor(doctor.own, doctor.config.sfs)
  <2>1. At("version") /\ Then(Record("git-sfs version", good), "symlinks")
    BY <1>d DEF CheckVersion
  <2>2. good \in BOOLEAN
    BY DEF MeetsFloor
  <2>3. /\ IsRun(doctor') /\ doctor'.stage = "symlinks" /\ Same
        /\ good => doctor'.failed = doctor.failed
        /\ ~good => doctor'.failed # 0
    <3> HIDE DEF good
    <3> QED BY <1>5, <2>1, <2>2, ChecksRecord
  <2>4. Passed({"symlinks"})' => Passed(AfterConfig) /\ Passed(AfterRepository) /\ good
    BY <1>5, <2>1, <2>3 DEF Passed, At, AfterRepository, AfterConfig
  <2> HIDE DEF good
  <2>5. Found'
    <3>1. doctor'.stage = "symlinks" /\ doctor'.code # 0
      BY <1>5, <2>3
    <3>2. Passed({"symlinks"})' => good /\ place'.repository /\ doctor'.config = Load' /\ doctor'.config.status = "ok"
      BY <1>1, <1>3, <2>3, <2>4 DEF DoctorInv, Found
    <3>3. good => MeetsFloor(doctor'.own, doctor'.config.sfs)
      BY <2>3 DEF good
    <3> QED BY <3>1, <3>2, <3>3
            DEF Found, Passed, AfterRepository, AfterConfig, AfterVersion, AfterCache, AfterDirectory, AfterBinary, Last, MeetsFloor
  <2> QED BY <1>5, <1>7, <2>3, <2>5
\* A check that the promise does not rest on.
<1>e. ASSUME NEW l, NEW good \in BOOLEAN, NEW s, Then(Record(l, good), s),
             \/ At("symlinks") /\ s = "cache"
             \/ At("permissions") /\ s = "binary"
      PROVE  DoctorInv'
  <2>1. /\ IsRun(doctor') /\ doctor'.stage = s /\ Same
        /\ doctor'.failed = 0 => doctor.failed = 0
    BY <1>5, <1>e, ChecksRecord
  <2>2. /\ Passed(AfterRepository)' => Passed(AfterRepository)
        /\ Passed(AfterConfig)' => Passed(AfterConfig)
        /\ Passed(AfterVersion)' => Passed(AfterVersion)
        /\ Passed(AfterCache)' => Passed(AfterCache)
        /\ Passed(AfterDirectory)' => Passed(AfterDirectory)
        /\ ~Passed(AfterBinary)' /\ ~Passed(Last)' /\ ~Passed({"finish"})'
    BY <1>5, <1>e, <2>1 DEF At, Passed, AfterRepository, AfterConfig, AfterVersion, AfterCache, AfterDirectory, AfterBinary, Last
  <2>3. Found'
    BY <1>1, <1>3, <2>1, <2>2 DEF DoctorInv, Found, MeetsFloor
  <2> QED BY <1>5, <1>7, <2>1, <2>3
<1>f. CASE CheckSymlinks
  <2>1. place.symlinks \in BOOLEAN
    BY GateAssumption DEF DoctorInv
  <2> QED BY <1>f, <1>e, <2>1 DEF CheckSymlinks
<1>g. CASE CheckPermissions
  BY <1>g, <1>e DEF CheckPermissions
<1>q. CASE CheckDirectory
  <2> DEFINE good == place.cache \notin {"gone", "read-only"}
  <2>1. At("directory") /\ Then(Record("cache directory", good), "permissions")
    BY <1>q DEF CheckDirectory
  <2>2. /\ IsRun(doctor') /\ doctor'.stage = "permissions" /\ Same
        /\ good => doctor'.failed = doctor.failed
        /\ ~good => doctor'.failed # 0
    <3>1. good \in BOOLEAN
      OBVIOUS
    <3> HIDE DEF good
    <3> QED BY <1>5, <2>1, <3>1, ChecksRecord
  <2>3. /\ Passed(AfterRepository)' => Passed(AfterRepository)
        /\ Passed(AfterConfig)' => Passed(AfterConfig)
        /\ Passed(AfterVersion)' => Passed(AfterVersion)
        /\ Passed(AfterCache)' => Passed(AfterCache)
        /\ Passed(AfterDirectory)' => place'.cache # "read-only"
        /\ ~Passed(AfterBinary)' /\ ~Passed(Last)' /\ ~Passed({"finish"})'
    BY <1>1, <1>5, <2>1, <2>2 DEF At, Passed, AfterRepository, AfterConfig, AfterVersion, AfterCache, AfterDirectory, AfterBinary, Last
  <2>4. Found'
    BY <1>1, <1>3, <2>2, <2>3 DEF DoctorInv, Found, MeetsFloor
  <2> QED BY <1>5, <1>7, <2>2, <2>4
<1>h. CASE CheckCache
  <2>1. CASE place.cache # "unbound"
    <3>1. At("cache") /\ Then(Record("cache config", TRUE), "directory")
      BY <1>h, <2>1 DEF CheckCache
    <3>2. IsRun(doctor') /\ doctor'.stage = "directory" /\ Same /\ doctor'.failed = doctor.failed
      BY <1>5, <3>1, ChecksRecord
    <3>3. /\ Passed(AfterRepository)' => Passed(AfterRepository)
          /\ Passed(AfterConfig)' => Passed(AfterConfig)
          /\ Passed(AfterVersion)' => Passed(AfterVersion)
          /\ ~Passed(AfterDirectory)' /\ ~Passed(AfterBinary)' /\ ~Passed(Last)' /\ ~Passed({"finish"})'
      BY <1>5, <3>1, <3>2 DEF At, Passed, AfterRepository, AfterConfig, AfterVersion, AfterCache, AfterDirectory, AfterBinary, Last
    <3>4. Found'
      BY <1>1, <1>3, <2>1, <3>2, <3>3 DEF DoctorInv, Found, MeetsFloor
    <3> QED BY <1>5, <1>7, <3>2, <3>4
  <2>2. CASE place.cache = "unbound"
    <3>1. SkipRest(Record("cache config", FALSE))
      BY <1>h, <2>2 DEF CheckCache, Record
    <3> QED BY <1>5, <1>7, <3>1, ChecksSkip DEF Found, Passed
  <2> QED BY <2>1, <2>2
<1>r. Rclone \in Nat
  <2>1. place.elsewhere \in 0..Newest["rclone"] /\ Newest["rclone"] \in Nat
    BY GateAssumption, UpdateAssumption DEF DoctorInv, Programs
  <2>2. binary["rclone"].version \in Nat
    BY DEF UpdateInv, UpdateTypeOK, Files, Programs
  <2> QED BY <2>1, <2>2 DEF Rclone
<1>i. CASE CheckBinary
  <2>1. CASE Rclone > 0
    <3>1. At("binary") /\ Then(Record("rclone binary", TRUE), "rclone")
      BY <1>i, <2>1 DEF CheckBinary, Record
    <3>2. IsRun(doctor') /\ doctor'.stage = "rclone" /\ Same /\ doctor'.failed = doctor.failed
      BY <1>5, <3>1, ChecksRecord
    <3>3. /\ Passed(AfterRepository)' => Passed(AfterRepository)
          /\ Passed(AfterConfig)' => Passed(AfterConfig)
          /\ Passed(AfterVersion)' => Passed(AfterVersion)
          /\ Passed(AfterCache)' => Passed(AfterCache)
          /\ Passed(AfterDirectory)' => Passed(AfterDirectory)
          /\ ~Passed(Last)' /\ ~Passed({"finish"})'
      BY <1>5, <3>1, <3>2 DEF At, Passed, AfterRepository, AfterConfig, AfterVersion, AfterCache, AfterDirectory, AfterBinary, Last
    <3>4. Found'
      BY <1>1, <1>3, <1>r, <2>1, <3>2, <3>3 DEF DoctorInv, Found, MeetsFloor
    <3> QED BY <1>5, <1>7, <3>2, <3>4
  <2>2. CASE ~(Rclone > 0)
    <3>1. SkipRest(Record("rclone binary", FALSE))
      BY <1>i, <2>2 DEF CheckBinary, Record
    <3> QED BY <1>5, <1>7, <3>1, ChecksSkip DEF Found, Passed
  <2> QED BY <2>1, <2>2
\* From here on all that a run rests on is known.
<1> DEFINE Known == /\ place'.repository /\ doctor'.config = Load' /\ doctor'.config.status = "ok"
                    /\ MeetsFloor(doctor'.own, doctor'.config.sfs)
                    /\ place'.cache \notin {"unbound", "read-only"} /\ Rclone' \in Nat /\ Rclone' > 0
<1>k. ASSUME doctor.stage \in AfterBinary, doctor.failed = 0, doctor'.own = doctor.own,
             doctor'.config = doctor.config
      PROVE  Known
  <2>1. /\ Passed(AfterRepository) /\ Passed(AfterConfig) /\ Passed(AfterVersion)
        /\ Passed(AfterCache) /\ Passed(AfterDirectory) /\ Passed(AfterBinary)
    BY <1>k DEF Passed, AfterRepository, AfterConfig, AfterVersion, AfterCache, AfterDirectory, AfterBinary
  <2> QED BY <1>1, <1>3, <1>k, <2>1 DEF DoctorInv, Found, MeetsFloor
<1>l. ASSUME doctor'.failed = 0 => Known,
             Passed(Last)' => \A n \in (RemotesAsked \ doctor.left)' : RemoteIsFine(n)',
             Passed({"finish"})' => doctor'.left = {}
      PROVE  Found'
  BY <1>l DEF Found, Passed
<1>j. CASE CheckRclone
  <2> DEFINE good == Rclone > 0 /\ RcloneMeetsFloor(Rclone, doctor.config.rclone)
             d == [Record("rclone version", good)
                     EXCEPT !.left = IF doctor.asked = Absent THEN DOMAIN doctor.config.remotes
                                     ELSE {doctor.asked}]
  <2>1. At("rclone") /\ Then(d, "remotes")
    BY <1>j DEF CheckRclone
  <2>2. /\ IsRun(d) /\ d.own = doctor.own /\ d.asked = doctor.asked /\ d.config = doctor.config
        /\ d.left = RemotesAsked /\ d.code = doctor.code
        /\ d.failed = 0 => doctor.failed = 0
    BY <1>5 DEF Record, IsRun, Fields, RemotesAsked
  <2>3. /\ IsRun(doctor') /\ doctor'.stage = "remotes" /\ doctor'.own = doctor.own /\ doctor'.asked = doctor.asked
        /\ doctor'.config = doctor.config /\ doctor'.left = RemotesAsked /\ doctor'.code = doctor.code
        /\ doctor'.failed = 0 => doctor.failed = 0
    <3>1. doctor' = [d EXCEPT !.stage = "remotes"]
      BY <2>1 DEF Then
    <3> HIDE DEF d
    <3> QED BY <2>2, <3>1 DEF IsRun, Fields
  <2>4. RemotesAsked' = doctor'.left
    BY <2>3 DEF RemotesAsked
  <2>5. ~Passed({"finish"})' /\ doctor.stage \in AfterBinary
    BY <1>5, <2>1, <2>3 DEF Passed, At, AfterBinary
  <2> QED BY <1>5, <1>7, <1>k, <1>l, <2>3, <2>4, <2>5
<1>m. CASE CheckRemote
  <2>1. PICK n \in doctor.left :
          Then([doctor EXCEPT !.left = @ \ {n},
                              !.failed = IF RemoteIsFine(n) THEN @ ELSE @ + 1], "remotes")
    BY <1>m DEF CheckRemote
  <2>2. /\ IsRun(doctor') /\ doctor'.stage = "remotes" /\ doctor'.own = doctor.own /\ doctor'.asked = doctor.asked
        /\ doctor'.config = doctor.config /\ doctor'.left = doctor.left \ {n} /\ doctor'.code = doctor.code
        /\ doctor'.failed = 0 => doctor.failed = 0 /\ RemoteIsFine(n)
    BY <1>5, <2>1 DEF Then, IsRun, Fields
  <2>3. doctor.stage = "remotes" /\ doctor.stage \in AfterBinary /\ ~Passed({"finish"})'
    BY <1>5, <1>m, <2>2 DEF CheckRemote, At, AfterBinary, Last, Passed
  <2>4. ASSUME Passed(Last)', NEW m \in (RemotesAsked \ doctor.left)' PROVE RemoteIsFine(m)'
    <3>1. Passed(Last) /\ RemoteIsFine(n)
      BY <2>2, <2>3, <2>4 DEF Passed, Last
    <3>2. m = n \/ m \in RemotesAsked \ doctor.left
      BY <2>2 DEF RemotesAsked
    <3> QED BY <1>8, <2>2, <3>1, <3>2 DEF DoctorInv, Found
  <2> QED BY <1>5, <1>7, <1>k, <1>l, <2>2, <2>3, <2>4
<1>n. CASE RemotesDone
  <2>1. /\ IsRun(doctor') /\ doctor'.stage = "finish" /\ Same /\ doctor'.failed = doctor.failed
        /\ doctor.left = {} /\ doctor.stage = "remotes" /\ doctor.stage \in AfterBinary
    BY <1>5, <1>n DEF RemotesDone, At, Then, IsRun, Fields, AfterBinary, Last
  <2>2. ASSUME Passed(Last)', NEW m \in (RemotesAsked \ doctor.left)' PROVE RemoteIsFine(m)'
    <3>1. Passed(Last) /\ m \in RemotesAsked \ doctor.left
      BY <2>1, <2>2 DEF Passed, Last, RemotesAsked
    <3> QED BY <1>8, <2>1, <3>1 DEF DoctorInv, Found
  <2> QED BY <1>5, <1>7, <1>k, <1>l, <2>1, <2>2
<1>o. CASE Finish
  <2>1. /\ IsRun(doctor') /\ doctor'.stage = "done" /\ doctor'.failed = doctor.failed
        /\ doctor'.own = doctor.own /\ doctor'.asked = doctor.asked
        /\ doctor'.config = doctor.config /\ doctor'.left = doctor.left
        /\ doctor'.code = ExitCode(IF doctor.failed = 0 THEN "ok" ELSE "unavailable")
        /\ doctor.stage = "finish"
    BY <1>5, <1>o DEF Finish, At, Then, IsRun, Fields
  <2>2. doctor'.code = 0 => doctor.failed = 0
    BY <2>1 DEF ExitCode
  <2>3. doctor.stage \in AfterBinary
    BY <2>1 DEF AfterBinary, Last
  <2>4. doctor.failed = 0 => Passed(Last) /\ Passed({"finish"})
    BY <2>1 DEF Passed, Last
  <2>5. ASSUME Passed(Last)', NEW m \in (RemotesAsked \ doctor.left)' PROVE RemoteIsFine(m)'
    <3>1. Passed(Last) /\ m \in RemotesAsked \ doctor.left
      BY <2>1, <2>4, <2>5 DEF Passed, RemotesAsked
    <3> QED BY <1>8, <2>1, <3>1 DEF DoctorInv, Found
  <2>6. Passed({"finish"})' => doctor'.left = {}
    BY <2>1, <2>4 DEF Passed, DoctorInv, Found
  <2> QED BY <1>7, <1>k, <1>l, <2>1, <2>2, <2>3, <2>5, <2>6
<1>p. CASE DoctorDies
  <2>1. PICK class \in {"canceled", "panic"} : Then([doctor EXCEPT !.code = ExitCode(class)], "done")
    BY <1>p DEF DoctorDies
  <2>2. ExitCode(class) # 0
    BY DEF ExitCode
  <2>3. IsRun(doctor') /\ doctor'.stage = "done" /\ doctor'.code # 0
    BY <1>5, <2>1, <2>2 DEF Then, IsRun, Fields
  <2> QED BY <1>7, <2>3
          DEF Found, Passed, AfterRepository, AfterConfig, AfterVersion, AfterCache, AfterDirectory, AfterBinary, Last
<1> QED BY <1>a, <1>b, <1>c, <1>d, <1>f, <1>g, <1>q, <1>h, <1>i, <1>j, <1>m, <1>n, <1>o, <1>p DEF Doctor

\* What self update does on the way never takes rclone away, or makes it anything else than
\* a released program.
LEMMA RcloneStays ==
  ASSUME UpdateInv, DoctorInv, Update, UNCHANGED gateVars
  PROVE  ReleaseInHand' /\ (Rclone \in Nat /\ Rclone > 0 => (Rclone \in Nat /\ Rclone > 0)')
<1>1. UpdateTypeOK /\ ReleaseInHand /\ UNCHANGED place
  BY DEF UpdateInv, DoctorInv, gateVars
<1> DEFINE Ready == Runs(binary["rclone"]) /\ binary["rclone"].version \in Nat /\ binary["rclone"].version > 0
<1>2. UNCHANGED binary => Rclone' = Rclone
  BY <1>1 DEF Rclone
<1>3. Ready' => (Rclone \in Nat /\ Rclone > 0 => (Rclone \in Nat /\ Rclone > 0)')
  BY <1>1 DEF Rclone
<1>4. ASSUME NEW q \in Programs, Publish(q)
      PROVE  ReleaseInHand' /\ UNCHANGED binary
  BY <1>1, <1>4 DEF Publish, ReleaseInHand
<1>5. ASSUME NEW u \in Updaters, UpdateStep(u)
      PROVE  ReleaseInHand'
  <2> SUFFICES ASSUME NEW v \in Updaters,
                      pc'[v] \in {"compare", "download", "verify", "create", "prepare", "persist"}
               PROVE  latest'[v] > 0
    BY DEF ReleaseInHand
  <2>1. CASE Look(u)
    BY <1>1, <2>1 DEF Look, UGoto, UpdateTypeOK, ReleaseInHand
  <2>2. CASE UpdateStarts(u) \/ Download(u) \/ Verify(u) \/ Persist(u)
    BY <1>1, <2>2 DEF UpdateStarts, Download, Verify, Persist, UGoto, UpdateTypeOK, ReleaseInHand
  <2>3. CASE Prepare(u)
    <3>1. latest' = latest /\ \E s : UGoto(u, s) /\ pc[u] \in {"create", "prepare"}
      BY <2>3 DEF Prepare
    <3> QED BY <1>1, <3>1 DEF UGoto, UpdateTypeOK, ReleaseInHand
  <2>4. CASE Compare(u) /\ IsWanted(u)
    BY <1>1, <2>4 DEF Compare, UGoto, UpdateTypeOK, ReleaseInHand
  <2>5. CASE Continue(u) \/ UpdateEnds(u)
    <3>1. /\ pc' = [pc EXCEPT ![u] = "look"] \/ pc' = [pc EXCEPT ![u] = "idle"]
          /\ latest' = [latest EXCEPT ![u] = 0]
      BY <2>5 DEF Continue, UpdateEnds, UGoto, Forget
    <3> QED BY <1>1, <3>1 DEF UpdateTypeOK, ReleaseInHand
  <2> QED BY <1>5, <2>1, <2>2, <2>3, <2>4, <2>5 DEF UpdateStep, Compare, SyncParent, UpdateFails
<1>6. ASSUME NEW u \in Updaters, UpdateStep(u)
      PROVE  binary' = binary \/ binary'["rclone"] = binary["rclone"] \/ Ready'
  <2>1. CASE Persist(u)
    <3>1. tmp[u].state = "durable" /\ tmp[u].version = latest[u] /\ latest[u] > 0 /\ latest[u] \in Nat
      BY <1>1, <2>1 DEF Persist, UpdateInv, UpdateTypeOK, UpdaterStands, ReleaseInHand
    <3>2. "rclone" \in Programs /\ "git-sfs" \in Programs
      BY DEF Programs
    <3>3. binary'["rclone"] = IF what[u] = "rclone" THEN tmp[u] ELSE binary["rclone"]
      BY <1>1, <2>1, <3>2 DEF Persist, UpdateTypeOK
    <3> QED BY <3>1, <3>3 DEF Runs
  <2>2. CASE ~Persist(u)
    BY <1>6, <2>2 DEF UpdateStep, UpdateStarts, Look, Compare, Download, Verify, Prepare, SyncParent,
       UpdateFails, machine
  <2> QED BY <2>1, <2>2
<1>7. binary'["rclone"] = binary["rclone"] => Rclone' = Rclone
  BY <1>1 DEF Rclone
<1> QED BY <1>2, <1>3, <1>4, <1>5, <1>6, <1>7 DEF Update

\* So does what doctor has found.
LEMMA UpdateKeepsFound ==
  ASSUME UpdateInv, DoctorInv, Update, UNCHANGED gateVars
  PROVE  DoctorInv'
<1>1. UNCHANGED <<file, place, doctor, command>>
  BY DEF gateVars
<1>2. ReleaseInHand' /\ (Rclone \in Nat /\ Rclone > 0 => (Rclone \in Nat /\ Rclone > 0)')
  BY RcloneStays
<1>3. Passed(Last) => Passed(AfterBinary)
  BY DEF Passed, AfterBinary
<1>4. ASSUME Passed(Last), NEW n \in RemotesAsked \ doctor.left PROVE RemoteIsFine(n)'
  <2>1. RemoteIsFine(n) /\ (Rclone > 0)'
    BY <1>2, <1>3, <1>4 DEF DoctorInv, Found
  <2> QED BY <1>1, <2>1 DEF RemoteIsFine, HasRemote, ConfIsThere
<1>5. Found'
  <2>1. Load' = Load
    BY <1>1 DEF Load
  <2>2. /\ \A S : Passed(S)' <=> Passed(S)
        /\ RemotesAsked' = RemotesAsked
    BY <1>1 DEF Passed, RemotesAsked
  <2>3. Passed(Last)' => \A n \in RemotesAsked' \ doctor'.left : RemoteIsFine(n)'
    BY <1>1, <1>4, <2>2
  <2> QED BY <1>1, <1>2, <2>1, <2>2, <2>3 DEF DoctorInv, Found, MeetsFloor
<1>6. ReadyAfterDoctor' = ReadyAfterDoctor
  BY <1>1 DEF ReadyAfterDoctor, Unseen, Acquired, Planned
<1> QED BY <1>1, <1>2, <1>5, <1>6 DEF DoctorInv

\* A command after doctor has exited with 0.
LEMMA CommandIsReady ==
  ASSUME UpdateInv, DoctorInv, Command
  PROVE  DoctorInv'
<1>1. UNCHANGED <<updateVars, file, place, doctor>>
  BY DEF Command
<1>2. PICK kind \in Kinds, skip \in BOOLEAN, n \in Names \cup {Absent} :
        command' = [kind |-> kind, skip |-> skip,
                    class |-> Class(Load, kind, skip, binary["git-sfs"].version, IF n = Absent THEN Default ELSE n),
                    own |-> binary["git-sfs"].version, remote |-> IF n = Absent THEN Default ELSE n,
                    late |-> doctor.code = 0]
  BY DEF Command
<1> DEFINE r == IF n = Absent THEN Default ELSE n
           v == binary["git-sfs"].version
<1>3. /\ command'.kind = kind /\ command'.skip = skip
      /\ command'.class = Class(Load, kind, skip, v, r) /\ command'.own = v /\ command'.remote = r
      /\ command'.late <=> doctor.code = 0
  BY <1>2
<1>4. v \in Nat
  BY DEF UpdateInv, UpdateTypeOK, Files, Programs
<1> HIDE DEF r, v
<1>5. ASSUME command'.late, command'.class # "ok",
             ~(doctor.own = Dev /\ v # Dev), ~(v # Dev /\ v < doctor.own), r \in RemotesAsked,
             ~Unseen(command')
      PROVE  FALSE
  <2>1. doctor.code = 0 /\ doctor.failed = 0
    BY <1>3, <1>5 DEF DoctorInv
  <2>2. \A S : Passed(S)
    BY <2>1 DEF Passed
  <2>3. /\ place.repository /\ doctor.config = Load /\ doctor.config.status = "ok"
        /\ MeetsFloor(doctor.own, doctor.config.sfs) /\ place.cache \notin {"unbound", "read-only"}
        /\ Rclone \in Nat /\ Rclone > 0
    BY <2>2 DEF DoctorInv, Found
  <2>4. RemoteIsFine(r)
    BY <1>5, <2>2 DEF DoctorInv, Found
  <2>5. MeetsFloor(v, doctor.config.sfs)
    <3>1. doctor.own \in Nat
      BY DEF DoctorInv, IsRun
    <3> QED BY <1>4, <1>5, <2>3, <3>1 DEF MeetsFloor, Dev
  <2>6. Prepared(Load, v) = "ok"
    BY <2>3, <2>5 DEF Prepared
  <2>7. HasRemote(Load, r) /\ RemoteAnswers(Load, r)
    BY <2>3, <2>4 DEF RemoteIsFine, RemoteAnswers
  \* What is left before the remote is what doctor does not look at.
  <2>8. ~(kind = "pull" /\ ~place.purges) /\ Acquired(kind) = "ok" /\ Planned(kind, skip) = "ok"
    BY <1>3, <1>5, <2>6, <2>7 DEF Class, Unseen
  <2>9. Class(Load, kind, skip, v, r) = "ok"
    BY <2>6, <2>7, <2>8 DEF Class
  <2> QED BY <1>3, <1>5, <2>9
<1>6. ReadyAfterDoctor'
  <2>1. Unseen(command)' <=> Unseen(command')
    BY <1>1 DEF Unseen, Acquired, Planned
  <2> QED BY <1>1, <1>3, <1>5, <2>1 DEF ReadyAfterDoctor, RemotesAsked
<1>7. Rclone' = Rclone /\ Load' = Load /\ ReleaseInHand'
  BY <1>1 DEF Rclone, Load, DoctorInv, ReleaseInHand, updateVars
<1>8. Found'
  <2>1. \A m : RemoteIsFine(m)' <=> RemoteIsFine(m)
    BY <1>1, <1>7 DEF RemoteIsFine, HasRemote, ConfIsThere
  <2>2. (\A S : Passed(S)' <=> Passed(S)) /\ RemotesAsked' = RemotesAsked
    BY <1>1 DEF Passed, RemotesAsked
  <2> QED BY <1>1, <1>7, <2>1, <2>2 DEF DoctorInv, Found, MeetsFloor
<1> QED BY <1>1, <1>3, <1>6, <1>7, <1>8 DEF DoctorInv

LEMMA DoctorInvIsKept ==
  ASSUME UpdateInv, DoctorInv, [Next]_vars
  PROVE  DoctorInv'
<1>1. CASE UNCHANGED vars
  <2>1. Rclone' = Rclone /\ Load' = Load /\ ReleaseInHand' /\ UNCHANGED <<place, doctor, command>>
    BY <1>1 DEF Rclone, Load, DoctorInv, ReleaseInHand, vars, updateVars, gateVars
  <2>2. \A m : RemoteIsFine(m)' <=> RemoteIsFine(m)
    BY <2>1 DEF RemoteIsFine, HasRemote, ConfIsThere
  <2>3. (\A S : Passed(S)' <=> Passed(S)) /\ RemotesAsked' = RemotesAsked
    BY <2>1 DEF Passed, RemotesAsked
  <2>4. Found'
    BY <2>1, <2>2, <2>3 DEF DoctorInv, Found, MeetsFloor
  <2>5. ReadyAfterDoctor'
    BY <2>1 DEF DoctorInv, ReadyAfterDoctor, Unseen, Acquired, Planned
  <2> QED BY <2>1, <2>4, <2>5 DEF DoctorInv
<1>2. CASE PowerLoss /\ doctor' = Idle /\ command' = Nothing /\ UNCHANGED <<file, place>>
  <2>1. IsRun(doctor') /\ doctor'.code = -1 /\ doctor'.stage = "idle" /\ ~command'.late
    BY <1>2 DEF Idle, Nothing, IsRun, Fields
  <2>2. ReleaseInHand'
    BY <1>2 DEF PowerLoss, ReleaseInHand
  <2>3. Found'
    BY <2>1 DEF Found, Passed, AfterRepository, AfterConfig, AfterVersion, AfterCache, AfterDirectory, AfterBinary, Last
  <2> QED BY <1>2, <2>1, <2>2, <2>3 DEF DoctorInv, ReadyAfterDoctor
<1> QED BY <1>1, <1>2, DoctorStepFinds, UpdateKeepsFound, CommandIsReady DEF Next

\* Whatever the configuration, the machine and the remotes are like, and whatever updates run
\* after doctor: where it has exited with 0, a git-sfs that is not older than the one that ran
\* it stops on none of the remotes it was asked about before rclone has succeeded once, unless
\* for old downloads, a lock, the files of the repository or the objects.
THEOREM DoctorKeepsItsPromise == Spec => []ReadyAfterDoctor
<1>1. Init => DoctorInv
  BY DoctorInvHoldsAtStart
<1>2. UpdateInv /\ UpdateInv' /\ DoctorInv /\ [Next]_vars => DoctorInv'
  BY DoctorInvIsKept
<1>3. DoctorInv => ReadyAfterDoctor
  BY DEF DoctorInv
<1> QED BY <1>1, <1>2, <1>3, InvariantHolds, PTL DEF Spec
=============================================================================
