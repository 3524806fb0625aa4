----------------------------- MODULE SelfUpdate -----------------------------
(***************************************************************************)
(* git-sfs self update (self_update.rs): look for the newest release,      *)
(* fetch its checksum and its archive, verify, and replace the binary by   *)
(* a rename; git-sfs first, then the rclone beside it.  Updates may        *)
(* overlap, be killed, lose the power, and receive damaged archives.       *)
(*                                                                         *)
(* A version is a number: 0 is a development build, 2k the release k and   *)
(* 2k-1 its pre-release.                                                   *)
(***************************************************************************)
EXTENDS Integers, FiniteSets

CONSTANTS Updaters,   \* the processes that run self update
          Newest      \* bound on the releases of each program

Programs == {"git-sfs", "rclone"}
ASSUME UpdateAssumption == Newest \in [Programs -> Nat]

VARIABLES published,  \* the newest version of each program that can be downloaded
          binary,     \* the file at each program's path
          disk,       \* what a power loss would leave there
          pc,         \* where each updater is
          what,       \* the program it is at
          own,        \* the version of the git-sfs it runs
          pre,        \* --pre
          latest,     \* the version it is about to install
          archive,    \* whether what it has downloaded is what was released
          tmp         \* its temporary file

updateVars == <<published, binary, disk, pc, what, own, pre, latest, archive, tmp>>
machine == <<published, binary, disk>>
options == <<own, pre>>

Dev == 0
NoFile == [version |-> 0, state |-> "none"]
\* What a file holds: not all of the bytes, all of them, also the mode 755, also on disk;
\* "bad" is a whole file that is not the released program.
States == {"cut", "written", "executable", "durable", "bad"}
Files == [version : Nat, state : States \cup {"none"}]
Runs(file) == file.state \in {"executable", "durable"}

UpdateInit ==
    /\ \E g \in 0..Newest["git-sfs"], r \in 0..Newest["rclone"] :
          /\ published = [q \in Programs |-> IF q = "rclone" THEN r ELSE g]
          /\ \E v \in 0..g, w \in 0..r :
                binary = [q \in Programs |->
                            IF q = "rclone" /\ w = 0 THEN NoFile
                            ELSE [version |-> IF q = "rclone" THEN w ELSE v, state |-> "durable"]]
    /\ disk = binary
    /\ pc = [u \in Updaters |-> "idle"]
    /\ what = [u \in Updaters |-> "git-sfs"]
    /\ own = [u \in Updaters |-> Dev]
    /\ pre = [u \in Updaters |-> FALSE]
    /\ latest = [u \in Updaters |-> 0]
    /\ archive = [u \in Updaters |-> "none"]
    /\ tmp = [u \in Updaters |-> NoFile]

-----------------------------------------------------------------------------
UGoto(u, s) == pc' = [pc EXCEPT ![u] = s]
Forget(u) == /\ latest' = [latest EXCEPT ![u] = 0]
             /\ archive' = [archive EXCEPT ![u] = "none"]
\* The process is gone; its temporary file may stay, but nobody looks at it again.
UpdateEnds(u) == /\ UGoto(u, "idle")
                 /\ what' = [what EXCEPT ![u] = "git-sfs"]
                 /\ own' = [own EXCEPT ![u] = Dev]
                 /\ pre' = [pre EXCEPT ![u] = FALSE]
                 /\ Forget(u)

\* run_for_channel: the process knows its own version, not the one at its path by now.
UpdateStarts(u) ==
    /\ pc[u] = "idle" /\ Runs(binary["git-sfs"])
    /\ UGoto(u, "look")
    /\ own' = [own EXCEPT ![u] = binary["git-sfs"].version]
    /\ \E b \in BOOLEAN : pre' = [pre EXCEPT ![u] = b]
    /\ UNCHANGED <<machine, what, latest, archive, tmp>>

\* latest_git_sfs_version or latest_rclone_version.
Eligible(u) == LET v == published[what[u]] IN
               IF what[u] = "git-sfs" /\ ~pre[u] THEN v - (v % 2) ELSE v
Look(u) ==
    /\ pc[u] = "look"
    /\ Eligible(u) > 0
    /\ latest' = [latest EXCEPT ![u] = Eligible(u)]
    /\ UGoto(u, "compare")
    /\ UNCHANGED <<machine, options, what, archive, tmp>>

\* After git-sfs comes rclone, after rclone the run ends.
Continue(u) == IF what[u] = "git-sfs"
               THEN /\ UGoto(u, "look") /\ what' = [what EXCEPT ![u] = "rclone"]
                    /\ Forget(u) /\ UNCHANGED options
               ELSE UpdateEnds(u)

\* Bug: any other version than its own is installed.
IsWantedIfOther(u) == IF what[u] = "git-sfs" THEN own[u] # latest[u]
                      ELSE ~(Runs(binary["rclone"]) /\ binary["rclone"].version = latest[u])

\* compare_installed_version, a development build being older than any release; rclone is
\* asked for its version and replaced unless that is the latest one.
IsWanted(u) == IF what[u] = "git-sfs" THEN own[u] = Dev \/ own[u] < latest[u]
               ELSE ~(Runs(binary["rclone"]) /\ binary["rclone"].version = latest[u])

Compare(u) ==
    /\ pc[u] = "compare"
    /\ IF IsWanted(u) THEN UGoto(u, "download") /\ UNCHANGED <<options, what, latest, archive>>
                      ELSE Continue(u)
    /\ UNCHANGED <<machine, tmp>>

\* The checksum, then the archive, which may arrive damaged.
Download(u) ==
    /\ pc[u] = "download"
    /\ \E a \in {"good", "damaged"} : archive' = [archive EXCEPT ![u] = a]
    /\ UGoto(u, "verify")
    /\ UNCHANGED <<machine, options, what, latest, tmp>>

\* Bug: the archive is trusted.
VerifyNothing(u) ==
    /\ pc[u] = "verify"
    /\ UGoto(u, "create")
    /\ UNCHANGED <<machine, options, what, latest, archive, tmp>>

\* verify_sha256 before anything is extracted.
Verify(u) ==
    /\ pc[u] = "verify" /\ archive[u] = "good"
    /\ UGoto(u, "create")
    /\ UNCHANGED <<machine, options, what, latest, archive, tmp>>

\* atomic_replace: a temporary file in the directory of the binary, write_all, chmod, fsync.
NextState(u) == CASE tmp[u].state = "cut" -> IF archive[u] = "good" THEN "written" ELSE "bad"
                  [] tmp[u].state = "written" -> "executable"
                  [] tmp[u].state = "executable" -> "durable"
                  [] OTHER -> tmp[u].state
Prepare(u) ==
    /\ pc[u] \in {"create", "prepare"}
    /\ tmp' = [tmp EXCEPT ![u] = [version |-> latest[u],
                                  state |-> IF pc[u] = "create" THEN "cut" ELSE NextState(u)]]
    /\ UGoto(u, IF tmp'[u].state \in {"durable", "bad"} THEN "persist" ELSE "prepare")
    /\ UNCHANGED <<machine, options, what, latest, archive>>

\* The rename; the directory entry is on disk only after sync_parent.
Persist(u) ==
    /\ pc[u] = "persist"
    /\ binary' = [binary EXCEPT ![what[u]] = tmp[u]]
    /\ tmp' = [tmp EXCEPT ![u] = NoFile]
    /\ UGoto(u, "sync")
    /\ UNCHANGED <<published, disk, options, what, latest, archive>>

SyncParent(u) ==
    /\ pc[u] = "sync"
    /\ disk' = binary
    /\ Continue(u)
    /\ UNCHANGED <<published, binary, tmp>>

\* The network, an archive without the program, a full disk, a kill.
UpdateFails(u) == /\ pc[u] # "idle" /\ UpdateEnds(u)
                  /\ tmp' = [tmp EXCEPT ![u] = NoFile]
                  /\ UNCHANGED machine

\* External: a release is published.
Publish(q) ==
    /\ published[q] < Newest[q]
    /\ published' = [published EXCEPT ![q] = @ + 1]
    /\ UNCHANGED <<binary, disk, pc, what, options, latest, archive, tmp>>

\* External: every process stops; what was renamed but not synced may be lost, and bytes
\* that were not synced are cut off.
AfterPowerLoss(file) == IF file.state \in {"durable", "bad"} \/ file = NoFile THEN file
                        ELSE [file EXCEPT !.state = "cut"]
PowerLoss ==
    /\ \E lost \in SUBSET Programs :
          binary' = [q \in Programs |-> AfterPowerLoss(IF q \in lost THEN disk[q] ELSE binary[q])]
    /\ disk' = binary'
    /\ pc' = [u \in Updaters |-> "idle"]
    /\ what' = [u \in Updaters |-> "git-sfs"]
    /\ own' = [u \in Updaters |-> Dev]
    /\ pre' = [u \in Updaters |-> FALSE]
    /\ latest' = [u \in Updaters |-> 0]
    /\ archive' = [u \in Updaters |-> "none"]
    /\ tmp' = [u \in Updaters |-> NoFile]
    /\ UNCHANGED published

UpdateStep(u) == \/ UpdateStarts(u) \/ Look(u) \/ Compare(u) \/ Download(u) \/ Verify(u)
                 \/ Prepare(u) \/ Persist(u) \/ SyncParent(u) \/ UpdateFails(u)

Update == (\E u \in Updaters : UpdateStep(u)) \/ (\E q \in Programs : Publish(q))

-----------------------------------------------------------------------------
(* Properties *)

\* Every file is one that a program's path or a temporary file can hold, and every process
\* is at a program and at a stage of its update.
UpdateTypeOK ==
    /\ published \in [Programs -> Nat] /\ \A q \in Programs : published[q] <= Newest[q]
    /\ binary \in [Programs -> Files] /\ disk \in [Programs -> Files]
    /\ pc \in [Updaters -> {"idle", "look", "compare", "download", "verify", "create",
                            "prepare", "persist", "sync"}]
    /\ what \in [Updaters -> Programs]
    /\ own \in [Updaters -> Nat] /\ pre \in [Updaters -> BOOLEAN]
    /\ latest \in [Updaters -> Nat] /\ tmp \in [Updaters -> Files]
    /\ archive \in [Updaters -> {"none", "good", "damaged"}]

\* Whatever is killed, damaged or cut off, git-sfs and rclone are whole released programs
\* that can be run, rclone if it is there at all: the next run can always repair the rest.
BinariesAreWhole == \A q \in Programs : Runs(binary[q]) \/ (q = "rclone" /\ binary[q] = NoFile)

\* git-sfs is replaced by an older version only by an update that overlapped another one:
\* the version at the path was no longer the one that was running.
OlderOnlyByOverlap ==
    [][LET new == binary'["git-sfs"].version IN
       (new < binary["git-sfs"].version /\ \E u \in Updaters : pc[u] = "persist" /\ pc'[u] = "sync")
          => \E u \in Updaters : pc[u] = "persist" /\ own[u] # binary["git-sfs"].version]_binary
=============================================================================
