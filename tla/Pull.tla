---------------------------------- MODULE Pull ----------------------------------
(***************************************************************************)
(* git-sfs pull (exec/pull.rs, plan/pull.rs): inspect the objects that the *)
(* scope's links name, plan what is not there, ask the remote for sizes,   *)
(* remove what cannot be trusted, download the batch with rclone and let a *)
(* pool of workers accept it, with or without another look at the bytes.   *)
(*                                                                         *)
(* One cache, one pull at a time (the pull lock); add and import publish   *)
(* objects whenever they like, other machines push to the remote, and      *)
(* evictions keep to the time between pulls.  rclone is external: it works *)
(* object by object, may report success without an object, and leaves no   *)
(* partial file under an object's name.                                    *)
(***************************************************************************)
EXTENDS FiniteSets, Naturals

CONSTANTS
  Object,
  Scope,      \* the objects that the links in the scope name
  Jobs,       \* the values of -j: workers that accept downloads
  RetryMax    \* attempts at one run of rclone, [settings]

ASSUME PullAssumption ==
  /\ Scope \subseteq Object /\ IsFiniteSet(Object)
  /\ Jobs \subseteq Nat \ {0} /\ RetryMax \in Nat

VARIABLES
  pc,          \* where pull is
  mode,        \* "verify" with --verify, else "trust"
  jobs,        \* -j of the present pull
  todo,        \* objects the present loop has still to look at
  present,     \* objects found in the cache
  untrusted,   \* objects found with the wrong bytes
  download,    \* the plan
  attempt,     \* the number of the present run of rclone
  scratch,     \* the staging directory of this pull
  work,        \* how far each download's acceptance is
  interrupted,
  cached,      \* the cache
  remote,      \* the remote's objects
  added        \* objects that add or import made, or relies on, since

vars == << pc, mode, jobs, todo, present, untrusted, download, attempt, scratch,
           work, interrupted, cached, remote, added >>

\* What is there whether a pull runs or not, and what a pull works from.
outside == << cached, remote, added >>
plan == << mode, jobs, present, untrusted, download >>

Ended == {"done", "failed", "canceled", "killed"}
Transfers == {"sizes", "download"}
Stages == Ended \cup {"idle", "scan", "inspect", "drop", "staged", "accept"} \cup Transfers
Running == pc \notin Ended \cup {"idle"}

\* Read-only and trusted: "good", or "bad" if nobody looked.  Writable and to
\* be hashed: "open" if it will pass, "rotten" if not.
Cached == {"absent", "good", "bad", "open", "rotten"}
Protected(content) == content \in {"good", "bad"}

Remote == {"absent", "good", "bad"}

\* A worker that has found no object is about to publish its download.
Progress == {"waiting", "missed", "accepted", "erred"}
Busy == {o \in download : work[o] = "missed"}

PoolBounded == Cardinality(Busy) <= jobs

TypeOK ==
  /\ pc \in Stages
  /\ mode \in {"trust", "verify"}
  /\ jobs \in Nat
  /\ todo \subseteq Scope
  /\ present \subseteq Scope
  /\ untrusted \subseteq Scope
  /\ download \subseteq Scope
  /\ attempt \in Nat \ {0}
  /\ scratch \in [Object -> Remote]
  /\ work \in [Object -> Progress]
  /\ interrupted \in BOOLEAN
  /\ cached \in [Object -> Cached]
  /\ remote \in [Object -> Remote]
  /\ added \subseteq Object
  /\ PoolBounded

Init ==
  /\ pc = "idle"
  /\ mode = "trust"
  /\ jobs = 0
  /\ todo = {}
  /\ present = {}
  /\ untrusted = {}
  /\ download = {}
  /\ attempt = 1
  /\ scratch = [o \in Object |-> "absent"]
  /\ work = [o \in Object |-> "waiting"]
  /\ interrupted = FALSE
  /\ cached \in [Object -> Cached \ {"bad"}]
  /\ remote \in [Object -> Remote]
  /\ added = {}

\* The user runs pull once more; what the last one knew is gone.
Start ==
  /\ pc \in Ended \cup {"idle"}
  /\ pc' = "scan"
  /\ mode' \in {"trust", "verify"}
  /\ jobs' \in Jobs
  /\ todo' = {} /\ present' = {} /\ untrusted' = {} /\ download' = {}
  /\ attempt' = 1
  /\ scratch' = [o \in Object |-> "absent"]
  /\ work' = [o \in Object |-> "waiting"]
  /\ interrupted' = FALSE
  /\ UNCHANGED outside

(***************************************************************************)
(* Inspection and plan                                                     *)
(***************************************************************************)
Scan ==
  /\ pc = "scan"
  /\ IF interrupted THEN pc' = "canceled" /\ UNCHANGED todo
                    ELSE pc' = "inspect" /\ todo' = Scope
  /\ UNCHANGED << plan, attempt, scratch, work, interrupted, outside >>

\* verified: a writable object is hashed, and protected if it is right.
Inspect(o) ==
  /\ pc = "inspect" /\ o \in todo
  /\ \/ /\ Protected(cached[o])
        /\ present' = present \cup {o}
        /\ UNCHANGED << untrusted, cached >>
     \/ /\ cached[o] = "open" /\ ~interrupted
        /\ present' = present \cup {o}
        /\ cached' = [cached EXCEPT ![o] = "good"]
        /\ UNCHANGED untrusted
     \/ /\ cached[o] = "rotten" /\ ~interrupted
        /\ untrusted' = untrusted \cup {o}
        /\ UNCHANGED << present, cached >>
     \/ /\ cached[o] = "absent"
        /\ UNCHANGED << present, untrusted, cached >>
  /\ todo' = todo \ {o}
  /\ UNCHANGED << pc, mode, jobs, download, attempt, scratch, work, interrupted, remote, added >>

\* Hashing stops on an interrupt.
InspectCanceled ==
  /\ pc = "inspect" /\ interrupted
  /\ \E o \in todo : cached[o] \in {"open", "rotten"}
  /\ pc' = "canceled"
  /\ UNCHANGED << todo, plan, attempt, scratch, work, interrupted, outside >>

\* plan_pull; nothing to download is success.
MakePlan ==
  /\ pc = "inspect" /\ todo = {}
  /\ download' = Scope \ present
  /\ pc' = IF download' = {} THEN "done" ELSE "sizes"
  /\ attempt' = 1
  /\ UNCHANGED << mode, jobs, todo, present, untrusted, scratch, work, interrupted, outside >>

(***************************************************************************)
(* The remote                                                              *)
(***************************************************************************)

\* Bug: an object the remote has not got is left out of the plan.
QuerySizesSkipsMissing ==
  /\ pc = "sizes"
  /\ pc' = "drop"
  /\ todo' = untrusted
  /\ UNCHANGED << plan, attempt, scratch, work, interrupted, outside >>

\* Every planned object must be on the remote before anything is touched; the
\* disk may be too small for them.
QuerySizes ==
  /\ pc = "sizes"
  /\ \/ /\ \A o \in download : remote[o] # "absent"
        /\ pc' = "drop"
        /\ todo' = untrusted \cap download
     \/ pc' = "failed" /\ UNCHANGED todo
  /\ UNCHANGED << plan, attempt, scratch, work, interrupted, outside >>

\* Bug: the place of every download is cleared, not of the untrusted ones only.
DropEveryDownload(o) ==
  /\ pc = "drop" /\ o \in todo \cup download
  /\ todo' = todo \ {o}
  /\ cached' = [cached EXCEPT ![o] = "absent"]
  /\ UNCHANGED << pc, plan, attempt, scratch, work, interrupted, remote, added >>

\* remove_object of what did not pass its hash during the inspection.
Drop(o) ==
  /\ pc = "drop" /\ o \in todo
  /\ todo' = todo \ {o}
  /\ cached' = [cached EXCEPT ![o] = "absent"]
  /\ UNCHANGED << pc, plan, attempt, scratch, work, interrupted, remote, added >>

DropEnds ==
  /\ pc = "drop" /\ todo = {}
  /\ pc' = "download"
  /\ todo' = download
  /\ attempt' = 1
  /\ UNCHANGED << plan, scratch, work, interrupted, outside >>

\* rclone copy --ignore-existing of one object to the staging directory.
Download(o) ==
  /\ pc = "download" /\ o \in todo
  /\ todo' = todo \ {o}
  /\ \/ scratch[o] = "absent" /\ scratch' = [scratch EXCEPT ![o] = remote[o]]
     \/ UNCHANGED scratch
  /\ UNCHANGED << pc, plan, attempt, work, interrupted, outside >>

\* rclone exits with 0.
DownloadEnds ==
  /\ pc = "download" /\ todo = {}
  /\ pc' = "staged"
  /\ UNCHANGED << todo, plan, attempt, scratch, work, interrupted, outside >>

\* Exit code 5: the run is repeated, RetryMax times in all.
Retry ==
  /\ pc \in Transfers /\ ~interrupted
  /\ attempt < RetryMax
  /\ attempt' = attempt + 1
  /\ todo' = IF pc = "download" THEN download ELSE todo
  /\ UNCHANGED << pc, plan, scratch, work, interrupted, outside >>

\* A failing system call, or of rclone exit code 5 once more or any other code.
GiveUp ==
  /\ pc \in Transfers \cup {"scan", "inspect", "drop", "staged"}
  /\ pc' = "failed"
  /\ UNCHANGED << todo, plan, attempt, scratch, work, interrupted, outside >>

\* rclone is killed when the interrupt is seen.
Cancel ==
  /\ pc \in Transfers /\ interrupted
  /\ pc' = "canceled"
  /\ UNCHANGED << todo, plan, attempt, scratch, work, interrupted, outside >>

(***************************************************************************)
(* Acceptance                                                              *)
(***************************************************************************)

\* Bug: rclone's success is taken for the presence of every object.
StagedTrustsRclone ==
  /\ pc = "staged"
  /\ pc' = "accept"
  /\ work' = [o \in Object |-> IF scratch[o] = "absent" THEN "accepted" ELSE work[o]]
  /\ UNCHANGED << todo, plan, attempt, scratch, interrupted, outside >>

\* staged_objects: every object of the plan must have arrived.
Staged ==
  /\ pc = "staged"
  /\ pc' = IF \A o \in download : scratch[o] # "absent" THEN "accept" ELSE "failed"
  /\ UNCHANGED << todo, plan, attempt, scratch, work, interrupted, outside >>

\* Bug: the pool takes as many as there are.
LookUnbounded(o) ==
  /\ pc = "accept" /\ o \in download /\ work[o] = "waiting"
  /\ cached[o] = "absent"
  /\ work' = [work EXCEPT ![o] = "missed"]
  /\ UNCHANGED << pc, todo, plan, attempt, scratch, interrupted, outside >>

\* A free worker asks once more whether the object is there.
Look(o) ==
  /\ pc = "accept" /\ o \in download /\ work[o] = "waiting"
  /\ Cardinality(Busy) < jobs
  /\ \/ /\ Protected(cached[o])
        /\ work' = [work EXCEPT ![o] = "accepted"]
        /\ UNCHANGED cached
     \/ /\ cached[o] = "open" /\ ~interrupted
        /\ work' = [work EXCEPT ![o] = "accepted"]
        /\ cached' = [cached EXCEPT ![o] = "good"]
     \/ /\ cached[o] = "rotten" \/ (cached[o] = "open" /\ interrupted)
        /\ work' = [work EXCEPT ![o] = "erred"]
        /\ UNCHANGED cached
     \/ /\ cached[o] = "absent"
        /\ work' = [work EXCEPT ![o] = "missed"]
        /\ UNCHANGED cached
  /\ UNCHANGED << pc, todo, plan, attempt, scratch, interrupted, remote, added >>

\* The download replaces whatever is at the object's path by now; --verify
\* hashes it first.
Accept(o) ==
  /\ pc = "accept" /\ o \in Busy
  /\ IF mode = "verify" /\ scratch[o] # "good"
       THEN work' = [work EXCEPT ![o] = "erred"] /\ UNCHANGED cached
       ELSE /\ work' = [work EXCEPT ![o] = "accepted"]
            /\ cached' = [cached EXCEPT ![o] = scratch[o]]
  /\ UNCHANGED << pc, todo, plan, attempt, scratch, interrupted, remote, added >>

\* An I/O error, or an interrupt that this worker has seen.
AcceptFails(o) ==
  /\ pc = "accept" /\ o \in Busy
  /\ work' = [work EXCEPT ![o] = "erred"]
  /\ UNCHANGED << pc, todo, plan, attempt, scratch, interrupted, outside >>

\* Bug: the pool waits for downloads nobody will take after an error.
JoinWaitsForAll ==
  /\ pc = "accept" /\ \A o \in download : work[o] = "accepted"
  /\ pc' = "done"
  /\ UNCHANGED << todo, plan, attempt, scratch, work, interrupted, outside >>

\* try_for_each: after an error no download need be started any more, and the
\* workers at it finish theirs.
Join ==
  /\ pc = "accept" /\ Busy = {}
  /\ \/ (\A o \in download : work[o] = "accepted") /\ pc' = "done"
     \/ (\E o \in download : work[o] = "erred")
          /\ pc' \in {"failed"} \cup (IF interrupted THEN {"canceled"} ELSE {})
  /\ UNCHANGED << todo, plan, attempt, scratch, work, interrupted, outside >>

(***************************************************************************)
(* What the environment does                                               *)
(***************************************************************************)
Interrupt ==
  /\ Running /\ ~interrupted
  /\ interrupted' = TRUE
  /\ UNCHANGED << pc, todo, plan, attempt, scratch, work, outside >>

Kill ==
  /\ Running
  /\ pc' = "killed"
  /\ UNCHANGED << todo, plan, attempt, scratch, work, interrupted, outside >>

\* add or import comes to this object: one that is protected is relied on, one
\* that is rotten is an error, and then the user's own file is given up.
AddElsewhere(o) ==
  /\ cached[o] # "rotten" /\ o \notin added
  /\ cached' = [cached EXCEPT ![o] = IF cached[o] = "bad" THEN "bad" ELSE "good"]
  /\ added' = added \cup {o}
  /\ UNCHANGED << pc, todo, plan, attempt, scratch, work, interrupted, remote >>

\* cache rm, while no pull runs; what the last one reported is history.
Evict(o) ==
  /\ ~Running /\ cached[o] # "absent"
  /\ pc' = "idle"
  /\ cached' = [cached EXCEPT ![o] = "absent"]
  /\ added' = added \ {o}
  /\ UNCHANGED << todo, plan, attempt, scratch, work, interrupted, remote >>

\* Another machine pushes the object.
PushElsewhere(o) ==
  /\ remote[o] = "absent"
  /\ remote' = [remote EXCEPT ![o] = "good"]
  /\ UNCHANGED << pc, todo, plan, attempt, scratch, work, interrupted, cached, added >>

Step ==
  \/ Scan \/ InspectCanceled \/ MakePlan
  \/ QuerySizes \/ DropEnds \/ DownloadEnds \/ Staged \/ Join
  \/ Retry \/ GiveUp \/ Cancel
  \/ \E o \in Object :
       Inspect(o) \/ Drop(o) \/ Download(o) \/ Look(o) \/ Accept(o) \/ AcceptFails(o)

Next ==
  \/ Start \/ Step \/ Interrupt \/ Kill
  \/ \E o \in Object : AddElsewhere(o) \/ Evict(o) \/ PushElsewhere(o)

Spec == Init /\ [][Next]_vars

\* A pull goes on while it is able to, and every run of rclone comes to an end.
FairSpec == Spec /\ WF_vars(Step)

-----------------------------------------------------------------------------

\* A pull that succeeds has every object of its scope in the cache, protected,
\* and with --verify what it downloaded has the right bytes.
DoneIsPresent ==
  pc = "done" =>
    \A o \in Scope :
      /\ Protected(cached[o])
      /\ mode = "verify" /\ o \in download => cached[o] = "good"

\* What add or import has put into the cache, having given up the user's file,
\* stays there with the right bytes through any pull, unless the remote holds
\* other bytes under its name and a pull takes them at their word.
AddedIsKept ==
  \A o \in added : cached[o] = "good" \/ remote[o] = "bad"

\* A pull removes an object only if its bytes are wrong and the remote has a
\* file to replace it: no plan that fails costs a byte.
DropsReplaceable ==
  [][\A o \in Object :
       Running /\ cached[o] # "absent" /\ cached'[o] = "absent" =>
         cached[o] = "rotten" /\ remote[o] # "absent"]_vars

\* Every pull comes to an end, workers that meet an error included.
EveryPullEnds == Running ~> ~Running
=============================================================================
