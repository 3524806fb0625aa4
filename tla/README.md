# git-sfs in TLA+

git-sfs keeps large files out of a Git repository: the working tree holds
relative symlinks, a cache outside Git holds one read-only file per SHA-256, and
an rclone remote holds a copy of the cache. The modules here model the parts of
`src/crates/git-sfs-core` and of `src/crates/git-sfs` that change that state or
report on it, and say what a crash, an error, an interrupt, a retry or another
command at the same moment can do to it.

Paths below are relative to `src/crates/git-sfs-core/src` unless they start with
`docs/` or `git-sfs/` (`src/crates/git-sfs/src`).

## The system

| part | state it keeps | operations | shares state with |
|------|----------------|------------|-------------------|
| command lock (`ports/lock.rs`) | directory `locks/<name>.lock`, its `owner` file | acquire, poll, break a dead owner's, release | every process that wants the same lock |
| object store (`ports/store.rs`) | `files/sha256/..`, `tmp/` | verified, store, adopt, accept_download, remove_object, purge of stale staging files | commands under different locks, evictions under none |
| add, import (`exec/add.rs`, `exec/import.rs`) | working tree, sources outside it | hash, store or adopt, publish the link | store, scan, mv |
| mv (`exec/mv.rs`) | links and directories of the tree | move a link; rename a directory and rewrite its links | add, import; holds no lock |
| cache rm, prune (`exec/cache.rs`) | the cache | select by links, then unlink one by one | everything; holds no lock |
| link codec (`domain/symlink.rs`) | none | construct, validate | all of the above |
| push (`exec/push.rs`, `plan/push.rs`, `ports/remote.rs`) | remote `files/`, remote `tmp/<user>/files` | plan, query sizes, copy, check, move, check; retry | other machines on the remote, evictions |
| pull (`exec/pull.rs`, `plan/pull.rs`, `plan/disk_space.rs`) | cache, `tmp/git-sfs-pull-*` | inspect, query sizes, drop untrusted, copy, accept in parallel | store, remote |
| rclone runner (`ports/remote.rs`) | a child process, its two streams, two threads, a list file | spawn, poll, kill, drain, judge, back off, run again | the interrupt flag, the terminal |
| verify, status (`exec/verify.rs`, `exec/status.rs`) | none | read tree, cache, remote; report | everything, read-only but for the protection of good objects |
| setup, init (`exec/setup.rs`, `exec/init.rs`, `ports/local_state.rs`) | `.git-sfs/`, `.gitignore`, a cache's directories | choose a cache, lay it out, bind it, write the configuration | each other, and every command that reads the binding |
| config, version floor (`domain/config`, `domain/version_floor.rs`) | `config.toml` | strict reading, scan by earlier versions' rules, comparison, floors | every command |
| doctor (`exec/doctor.rs`, `git-sfs/dispatch.rs`) | none | one check after the other | self-update, which replaces what it checks |
| self-update (`git-sfs/self_update.rs`) | the git-sfs and rclone binaries | look up, compare, download, verify, replace by rename | other updates, every start of a program |
| errors and exit codes (`error.rs`, `git-sfs/exit.rs`) | none | classify | every command |
| cancellation (`cancel.rs`, `git-sfs/main.rs`) | one flag | raise, poll | every long loop |

What is hard here: commands under *different* locks (add, import, push, pull,
setup) work on one cache at once; mv, init and the evictions hold no lock; every
command is a list of system calls that a kill, an error or Ctrl-C can cut at
any point; several machines push to one remote; rclone retries whole batches and
is itself a process with pipes that can fill up; and reports are put together
from many reads while the world goes on. `PROJECT.json` lists each of these
hazards at its line, with the properties that would catch it going wrong.

What makes each part correct:

- *lock*: no two holders; a dead holder does not block for ever; Ctrl-C ends a wait.
- *store*: a read-only object is complete and right; no operation loses the only
  copy of some bytes; success means the object is there.
- *tree*: bytes are somewhere; a link's object is in the cache; mv never loses a
  link; what is rejected has changed nothing.
- *push*: what is at a final path is whole, and stays unless two pushes race for it;
  the exit code is true; it ends.
- *pull*: nothing is removed that the remote has not got; success means present.
- *rclone runner*: a run is judged by all of its output that could be read; nothing outlives the
  call; only a temporary failure is worth another run; Ctrl-C ends it.
- *verify, status*: no report of an absence or a corruption that never was; no
  clean report of what was wrong all the while.
- *setup, init*: one clone, one cache, complete; no rebinding.
- *config, doctor, self-update*: what both readings of an accepted file name means
  one thing; what doctor passes can be used; the programs are whole at every moment.

## Modules

| module | models | how its state and actions correspond |
|--------|--------|--------------------------------------|
| `CommandLock` | `Lock::acquire` and `Drop` | `dir` is the directory, named by the process that made it; `owner` its owner file; `stage` the place in the loop. `Poll` the cancellation check, `Create` mkdir, `Inspect` read_owner_pid, `Probe` kill(pid, 0), `Record` write_owner; `OpenDir`, `UnlinkOwner`, `RemoveDir` the steps of remove_dir_all, for breaking and for release. `live` is what kill answers, `ReusePid` makes it wrong. `stray` is a history variable |
| `ContentStore` | the promise of `trait Store` and `trait PullStore` | one object's path and its atomic changes |
| `ObjectStore` | `FsStore` on one object | `object` and `staged` are the files at the object's path and at `tmp/.<hash>.adopt`, `copy` the private temporary file of `store`, `fd` the descriptor of a cross-device copy, which follows its file through a rename. Each action is a system call or a pass over a file |
| `Failures` | the errors of ports and commands and their classes | operators only; `Push`, `WorkTree` and `Reports` end with what these give |
| `WorkTree` | `add`, `import`, `mv`, `cache rm`, `cache prune` | `tree` maps paths to a file or a link; a link remembers the depth its text was made for, so a link that a directory rename carried elsewhere no longer resolves; `todo`, `cur`, `held`, `hashes`, `followed` are the locals of the loops; `ImportPlan` makes a batch of what the arguments come to, with its checks in their order, `ImportTidy` is the clean-up of followed links; `wrote` remembers who has changed anything |
| `Push` | `push::push`, `copy_to_remote`, `run_with_output` | `staged` and `final` are the two trees of the remote, `handled` how far the present run of rclone has come, `free` the objects whose final place it has found empty and not yet moved to (`Look`, then `Move`), `attempt` its number; `raced` remembers the objects that two pushes had found free at once; a push that ends holds the class of its failure |
| `Pull` | `pull::pull`, `plan_pull`, `copy_from_remote`, the pool that accepts downloads | `cached` is the cache, `remote` the remote; `present`, `untrusted` and `download` are the locals of `pull`, `todo` what the present loop has still to come to, `scratch` the staging directory, `work` how far the acceptance of each download is. `Look` is the repeated `verified` of a worker, `Accept` the rename that follows it in a later step. `added` remembers what add or import relied on |
| `RcloneCall` | what one call of `RcloneRemote::run` promises | runs, their exits, another run only after a temporary failure, and the result, with processes and pipes left out |
| `RcloneRun` | `run_with_output`, `spawn_and_wait`, `kill_and_drain`, `read_pipe`, `sleep_cancelable` | `child` is the process, `stream` what has been written to and read from each of its outputs and who holds the write end, `reader` the threads, `cap` their captures (an interval of what was written), `viewer` the terminal; a helper that rclone started may keep a stream open, a read may fail and end its thread (`ReadFails`), SIGCHLD may be ignored |
| `Reports` | `verify`, `status` | `local`, `lookup`, `listing`, `scratch`, `issues` are what the command has found so far; `cache` and `remote` change under it by `Evict`, `Publish` and `PushOther`; `was` remembers what has been true of each object since it began |
| `Workspace` | `init`, `setup`, and the commands that resolve the cache | `link` is `.git-sfs/cache`, `dirs` the directories of each cache, `holder` the setup lock in each; a path may be another name of a cache (`Target`) |
| `Config` | both readings of `config.toml` and their comparison | operators only: a field is the pair of what the two readers make of it, the remotes are read twice, under the names each reader gives them, and `ParseAndValidate` is the decision tree over both |
| `SelfUpdate` | `self_update.rs` | `binary` is what is at each program's path, `disk` what a power loss would leave there, `tmp` the file beside it |
| `Gate` | `run_doctor`, and what stands before a command's work | extends `Config` and `SelfUpdate`; each check of doctor is an action, `Command` is all that a push, pull, verify or status goes through until rclone first succeeds, in the order of `Class`: `Prepared`, the purge, the remote's entry, `Acquired` (the lock), `Planned` (scan, objects, plan), `RemoteAnswers` |

`ObjectStore` refines `ContentStore` (`Promised == INSTANCE ContentStore WITH
slot <- Slot`), `RcloneRun` refines `RcloneCall` (`Call == INSTANCE RcloneCall
WITH ...`). `WorkTree` uses of the store only what `ContentStore` promises: an
object appears, whole, in one step; `Push` uses of the runner what `RcloneCall`
promises. `Pull` takes one more liberty of the store into account: a download
replaces what is at its object's path. The modules hold next to some action a
wrong version of it, marked `Bug:`; these are used only to see that a property
would notice.

The `MC...` modules give the constants for TLC, the `...Proofs` modules hold the
theorems.

## Runs

| run | what it shows | instance |
|-----|---------------|----------|
| `command_lock` | exclusion fails only through a removal or a record that went to another process's directory, and that needs a death; a canceled waiter stops; a waiter is served unless the lock is orphaned | three processes: one to die, one to read its PID, one to take the lock in between |
| `command_lock_break` | *violated*: a removal meant for a dead owner's lock takes a live one's | the same |
| `object_store` | no partial or wrong object is visible, bytes are lost only to a wrong download that was trusted, success means present, and the whole refines `ContentStore` | add, two imports with `--move` (rename and cross-device) and pull, three locks, evictions, purges, errors, kills, edits of add's source |
| `object_store_shared` | *violated*: `import --move` and `pull --verify` share one staging path under two locks | one of each, no errors or kills needed |
| `object_store_purge` | *violated*: adopt fails with its source gone | one move, one purge |
| `work_tree` | no bytes lost, no dangling link, mv keeps links, a rejected command has changed nothing | add, import `-L --move` (four batches: a file and a link to it at two places and at one, a link to an object, a forbidden place), mv, rm and prune; two folders of different depth, two contents |
| `pull` | success means present, and right where `--verify` looked; what add made outlives any pull; an object is removed only if its bytes are wrong and the remote can replace it; every pull ends | two objects, all in scope; any number of pulls, each trusting or verifying with one worker or two, interrupted, killed or failing; add at any moment, evictions between pulls, pushes of others |
| `push` | finals are whole and replaced only where two pushes had found the place empty at once, the exit is true of remote and cache, a push checks its own uploads, every push ends | two machines, two objects, one shared, two user names, one machine disturbed, two attempts |
| `rclone_run` | a run is judged by all of its output, or by what came before a failed read, and sizes are all read or none, no process or thread outlives the call, the call is a `RcloneCall`; an interrupt ends it, and so does the end of every run | two runs, streams of one chunk, captures of one chunk, two chunks written |
| `reports` | every issue has a cause, a clean report was true, wrong bytes are never passed over, a loss was one or has been pushed since | two objects, one of which others evict, publish and push |
| `workspace` | the binding is final, success means bound, a bound cache is complete | two processes of every kind, both default caches and one of the user's that has two names |
| `gate` | the programs are whole whatever update, kill or power loss comes; a downgrade needs an overlap; what doctor has looked at can be used; an accepted file has the same floors, and the same places of the remotes that both readings name, for both | two updates, three releases of git-sfs, one of rclone; every single thing that may be out of order in the configuration, the clone, the machine and the scope of a command; sections with a quoted and with an empty name |

Bounds. A process takes a lock at most once, an operation handles one object
once, a command runs once: the interesting races are between *different*
actors, and each actor that can meet another is there. `RetryMax` is 2, the
least with a retry. `work_tree` has one name in each of two folders, the least
where mv changes a link's depth and where add, import and mv compete for one
path, and one mv ("Proofs" says what two can do); the constraint `OneEviction`
lets prune or rm run, not one after the other. In `push` only one machine is disturbed: the other must succeed or fail
on what the first left behind. `pull` needs a second object for a worker to fail
beside one that is about to publish, and for `-j1` to make a download wait; its
behaviours have no bound on the number of pulls, since nothing but the cache and
the remote lasts from one to the next. In `rclone_run` a stream holds less than
rclone writes, so that it blocks, and a capture less than a stream brings, so
that it is cut; `MaxWrite` bounds what a run writes. In `reports` the second
object is one that nobody touches: it shows what a change of the first does to
the rest of the report. `gate` would be a product of parts that do not depend on
each other; `MCInit` therefore takes the odd configurations and machines where
all releases are installed, and the updates where everything else is in order,
and `Bound` lets an update run beside doctor only where all releases are out,
and two updates overlap only while they are at git-sfs and no doctor has run, and
stops after a command, which changes nothing. Its updates are interchangeable
(`SYMMETRY`), which no liveness property forbids: it checks none. No other run has a symmetry, nor, but for `work_tree`, a constraint.

`CHECK_DEADLOCK FALSE` is in the runs whose modules have no action for "all is
done" (`CommandLock`, `ObjectStore`, `WorkTree`, `Push`, `Pull`): their commands
end, and then nothing is left to do. The others check for deadlock.

Fairness. `CommandLock!FairLockSpec`: a running process goes on (`WF` on its own
steps) and a holder finishes; kills, interrupts, PID reuse and errors are never
forced. `WaiterServed` has an exception, `Orphaned`: a lock without a readable
owner, or whose dead owner's PID names another process, may never be taken, as
`lock.rs` documents. `Push!FairSpec`: a push goes on and every run of rclone
ends, with whichever result. There is no fairness about the *result*, so
`EveryPushEnds` does not suppose that rclone ever succeeds. `Pull!FairSpec` is of
the same kind, for one pull: something it can do is done, whether that succeeds
or fails. `RcloneRun!Fairness` is about git-sfs's own threads only; that rclone
exits, that its helpers close the streams and that the terminal takes output
again are premises of the properties, where they are needed.

Assumptions about the outside. rename, mkdir, unlink and symlink are atomic; an
open descriptor follows its file. rclone works through a batch object by
object in any order, may leave an upload cut short under its staging name, does
not see a file that is missing at its source, honours `--checksum` and
`--ignore-existing`. A move looks whether the final place is empty and later
renames, over whatever is there by then. A kill of git-sfs takes rclone along. A
read of a local pipe does not fail, except in `RcloneRun`, which says what
happens then; `Push`, `Reports` and `Pull` take an answer of rclone's as complete
or as a failure. A download that fails
leaves no partial file under its object's name (rclone writes to a partial name
and renames), but a run that succeeds may lack objects. A power loss keeps what
was synced, may undo a rename that was not, and may cut off bytes that were not.
Evictions run alone in `WorkTree`, and between pulls in `Pull`, as
`docs/contract-spec.md:168-169` demands of callers; in `ObjectStore`, `Push` and
`Reports` they do not.

## What the violated runs say

Each checks a sentence of the repository's own docs or comments, quoted in
`PROJECT.json`. They concern corner cases: a third process in the window
between a liveness probe and a removal (`lock.rs:97-98`), the `.adopt` staging
path shared by two locks (`store.rs:671-673`), and adopt's failure after its
rename (`store.rs:299-300`).

Other places where code and text differ, met while modelling; the models follow
the code:

- add cannot be resumed when the symlink fails after the file was removed: the
  bytes are in the cache and nothing names them (`add.rs:247`; `add.rs:10-11`).
- `import -L --move` of two links to one file consumes the file at the first
  (`import.rs:364`; `docs/commands.md:186-187`).
- a pull that trusts replaces an object that add published after the pull had
  looked (`store.rs:397`; `docs/contract-spec.md:47`); `Pull!AddedIsKept` says
  what is left of the promise.
- an object that two pushes have found missing at once is moved to its final
  place twice, the second time over the first (`remote.rs:983`;
  `remote.rs:193-196`: "Existing remote objects are never overwritten");
  `Push!OnlyRaceReplaces` says that nothing else replaces one.
- adopt removes its source as a duplicate although the object that is there may
  be a download that was trusted unread, and a trusted download is renamed over
  what was adopted since the pull looked (`store.rs:622-631`, `store.rs:397`; of
  its copy `store.rs:292-293` says that the source "only disappears once the bytes
  that will replace it are confirmed good"): if the download is wrong, the bytes
  are gone. `ObjectStore!BytesKept` says that nothing else loses any.
- a read error ends a reader thread like the end of the stream, and the run is
  judged by its exit code (`remote.rs:432`): an empty listing is then taken for
  an empty remote (`remote.rs:181-187`). `RcloneRun!OutputIsComplete` says that
  no listing cut in its middle is believed.
- two pushes of one user share a staging directory (`remote.rs:557`;
  `docs/contract-spec.md:62-63` makes it the callers' duty).
- the rclone floor is checked by doctor alone (`git-sfs/dispatch.rs:568-579`;
  `docs/configuration.md:36`).
- the scanner keeps the quotes of a section name: `[remotes."x"]` is `x` to one
  reading and `"x"` to the other, and is then compared with nothing, so that a
  file whose path the two read differently is accepted
  (`domain/config/mod.rs:377-380`, `compat_scanner.rs:104-116`;
  `domain/config/mod.rs:4-8` promises a refusal). An older version finds no
  remote of that name; `Gate!AcceptedMeansAgreed` is about the names that both
  readings have.
- doctor exits with 0 where `locks/` cannot be written, old downloads cannot be
  purged or an object cannot be read: it probes `tmp/` only
  (`git-sfs/dispatch.rs:515-566`); `Gate!Unseen` lists what it does not look at.
- init replaces a `.gitignore` by the lines that were missing from it
  (`init.rs:102-126`; `docs/commands.md:91`).
- on the scanner's reading an `n_jobs` above `u32::MAX` panics, and an empty
  backend is accepted (`domain/config/mod.rs:309`).
- verify calls a remote file corrupt if the object is evicted between
  `verified` and `object_size` (`verify.rs:341`); `IssuesHaveCause` allows this
  and no other false report.
- add reports a hash mismatch of the store as "unavailable", which says "retry"
  (`add.rs:109-127`; `error.rs:60-65`), and push reports an object that was
  evicted while it was sent as an integrity failure, which says "never retry"
  (`remote.rs:1106-1133`).

## Proofs

Each proof module is about one component, except `SharingProofs`, which has the
two by which processes share a clone and its cache: `Workspace` and
`CommandLock`. It extends both, which is why the definitions of `CommandLock` that
every module has are called `LockInit`, `LockNext`, `LockSpec` and so on.

`SharingProofs`, on the lock, for every set of processes: `LockTypeCorrect`
(`LockTypeOK`); `Exclusion` (`ExclusionUnlessStray`); `DeathIsNeeded`
(`StrayNeedsDeath`). The exclusion itself is not inductive: that two holders are
one follows from "a holder's directory is the one that is there", and that is
kept only by removals that hit their target. The invariant (`LockInv`) therefore
says, while nothing has gone astray, whose directory is there at each stage of
each process, and what an opened or examined incarnation can be.

`ObjectStoreProofs`, for every set of operations and every assignment of locks
that satisfies `AdoptsUndisturbed` (adopts share a lock, and nobody edits what
they move; `TypeCorrect` needs no such assumption): `PublishedIsIntact`,
`StoreImplementsContentStore`, `OnlyWrongDownloadsLose` (`BytesKept`) and
`SuccessIsPresent` (`AcceptedIsPresent`). `BytesKept` has an exception, a wrong
download at the object's path, and there the bytes are lost;
`RightDownloadsLoseNothing` says that without wrong downloads none are. `StoreInv` says what each running adopt
knows of the staged file at each of its stages, that at most one adopt runs, and
where an open descriptor may be. `KeptInv` adds what nobody has evicted or
purged: a source is good until it is dropped, its staged copy is there from then
on, and an operation that relies on the object still finds it.
`object_store_shared` shows that `AdoptsUndisturbed` is needed.

`WorkTreeProofs`, for any commands, folders, names, objects and sources:

- `TypeCorrect`, `NoDanglingLink` (`LinksResolve`) and `RejectionIsEarly`
  (`RejectedChangesNothing`) without any hypothesis. `LinksResolve` is not
  inductive: it takes what each command has in hand between two of its system
  calls (`Placed`), that every object it is about to link is in the cache, has
  been given up or was missing from the start (`HoldsKnown`), that evictions run
  alone, and that no link names what prune has on its list (`PruneSpares`). The
  invariant is `TreeInv`. That evictions run alone is the callers' duty
  (`MayStart`), not a hypothesis of the theorem.
- `OneMoverLosesNoBytes` (`BytesKept`) and `OneMoverLosesNoLink`
  (`MovesKeepLinks`), for any adds, imports, evictions, interrupts, failures and
  kills beside at most one mv (`OneMover`). They follow from two more general
  theorems, for any number of mv's: `NoBytesLost`, unless a step brings a file
  to a path that another command has looked at and is about to change
  (`NoFileIntrudes`), and `NoLinkIsLost`, unless one changes such a path of an
  mv (`MoversUndisturbed`); and from `LoneMoverIsApart`, that with one mv there
  are no such steps. `BytesInv` says that what add is about to remove is what it
  has stored, and what import consumes is what it has hashed; `MoversInv` that
  mv still finds the links it has found or made; `LoneInv` that mv, as long as a
  file could get in an add's way, has brought none anywhere, and shares no path
  with an add.

`OneMover` is needed. mv takes no lock, and with two of them the model has these
behaviours: add has stored `data/n1`; one mv renames `data` to another place, the
other renames a directory with an untracked file of the same name to `data`; add
removes that file, whose bytes nobody has stored. And: one mv has made
`archive/n1` from `data/n1`; the other renames `archive`, removes the link to
rewrite it, and the first removes `data/n1`: for that moment, and for good if the
second is killed then, nothing names the object. `LinksResolve` holds there too.

`PullProofs`, for every set of objects, every scope and every `-j`:
`TypeCorrect`, which says that never more workers accept than `-j` allows (it
rests on the cardinality of the set of busy workers, `PoolStep`), and
`SuccessMeansPresent`, `AddedOutlivesPull`, `RemovalIsSafe`. None of these is
inductive: each depends on what the inspection found much earlier. The invariant
says what may still be relied on at each stage: what was found present is
protected, what was found untrusted is still rotten and, once the sizes are
known, is on the remote; the plan is all the rest; and a protected object with
wrong bytes can only come from the remote.

`PushProofs`, for any machines, scopes and objects: `OnlyRacesReplace`, that an
object at its final place is replaced only after two pushes had found it empty at
once (`RaceInv`: whoever has found a place free, and not in a race, has it free
still). If moreover no two machines push under one user name (`OneUserEach`):
`ExitsAreTrue`, `StagedBatchIsOwn`, `NoFinalIsCut`. A staging directory then has
one push that works in it, so that what it has checked stays; only whole files are
moved to their final places, in a race too, so that what a push saw there is whole
or cut as it was when it ends. Without that assumption `StagedIsOwn` fails.

`RcloneRunProofs`, for any number of runs and any lengths of output, pipes and
captures: `OutputIsWhole`, `NothingIsLeft` and the refinement `RunImplementsCall`.
A thread ends only when no one can write any more and everything has been read, or
when a read fails; the captures are at every moment what the limit makes of what
was read, and a listing that ends in the middle cannot be parsed.

`ReportsProofs`, for any objects, any of which others touch: `IssuesAreCaused`,
`CleanIsHeld`, `WrongIsFound`, `LossIsReal`. What a step reads is true when it is
read and therefore in `was`; what has been found of an object is what a sound one
gives, or an issue; nothing on the remote is replaced, so a listing stays true.

`SharingProofs`, on the clone, for any processes and caches: `TypeCorrect`,
`BoundCacheIsLaidOut`, `SuccessIsBound`, `NeverRebound`. Directories are only
added and a link is only made where there is none, so each process's chosen cache
is laid out as far as the process has come.

`GateProofs`, for any releases, any number of updates and any configurations:
`ProgramsAreWhole`, `OnlyOverlapDowngrades`, `OneMeaning`. Only a temporary file
that is whole, executable and on disk is renamed to a program's path, and what an
update installs it has compared with the version it runs.
`DoctorKeepsItsPromise` (`ReadyAfterDoctor`), also for any clones, machines and
remotes. The invariant (`DoctorInv`) says for each stage of doctor what a run
without a failed check has found by then, and that this still holds (`Found`):
the configuration and the machine stay, and rclone, once there, is replaced only
by a release (`ReleaseInHand`). What self update does to git-sfs is what the
exceptions in the property are for; the other one (`Unseen`) is what a command
meets and doctor does not look at. `OneMeaning` rests on the decision tree alone:
what both readings have has been compared, or the file was read by the scanner
only. The invariant was checked with TLC on the
`gate` instance before it was proved, as `TreeInv`, `BytesInv` and `MoversInv`
were on that of `work_tree`, and `LoneInv` with a second add in place of the
evictions.

Only model-checked: the liveness properties `CancelStops`, `WaiterServed`,
`EveryPullEnds`, `EveryPushEnds`, `InterruptEndsCall`, `CallEnds`, which are out
of the prover's reach. Every other property of a passing run is stated by a
theorem, under the hypotheses named above.

## Not modelled

- A user's edit between an object's publication and the removal of the file
  (`add.rs:247` loses it; nothing in the code promises otherwise), and an edit of
  a `--move` source after its hash.
- The removal of empty directories; `Lock::force_break`, which no command calls;
  `--dry-run`; links that appear or go while a pull or a report runs.
- The bytes that the disk-space check counts, and the arithmetic of its margin
  (it may fail at will).
- The text of links, of hashes and of configuration; the walk and `git ls-files`;
  archives, checksum files and HTTP of self-update: they are what they come to.
- In `Gate`, an interrupt of a command but for its wait for a lock; objects that
  change during it; verify without `--check-remote` and status without `-r`,
  which ask no remote.
- Rendering, progress, argument parsing, the remotes listing: no state that a
  property could be about.

## Plan

Done: lock, store, tree, push, pull, runner, reports, workspace, gate, and the
theorems above. What would come next, in this order:

1. The disk-space margin at its width, and the version order as functions over
   digits.
2. What the liveness properties rest on as invariants: that a running command
   always has a step of its own.
3. `Pull` on top of `RcloneCall` as `Push` is, with the class of each failure
   from `Failures`.
