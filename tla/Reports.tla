------------------------------ MODULE Reports ------------------------------
(***************************************************************************)
(* verify and status (exec/verify.rs, exec/status.rs): reports put together*)
(* from many reads, under no lock, while other commands evict, publish and *)
(* push the objects they are about.                                        *)
(*                                                                         *)
(* Contents are told apart as a size and a SHA-256 tell them apart: "good",*)
(* "rot" (wrong bytes, right size) and "cut" (wrong size).  A cached file  *)
(* is read-only, the mark of an accepted object, or writable.              *)
(***************************************************************************)
EXTENDS Naturals, FiniteSets, Failures

CONSTANTS Objects,   \* the objects that valid links of the scope name
          Shared     \* those that other commands touch while the report is made

ASSUME ReportsAssumption == Shared \subseteq Objects

VARIABLES cmd,       \* "status", "verify" or "integrity" (verify --with-integrity or --rehash)
          asked,     \* a remote is to be checked
          broken,    \* the scope holds a candidate link that does not validate
          cancel,    \* the interrupt flag
          pc,        \* where the command is
          todo,      \* objects not inspected yet
          cur,       \* the object being inspected
          writable,  \* what stat said of its mode
          local,     \* what the inspection found
          lookup,    \* "none", "known" or "failed": the size query to the remote
          listing,   \* the sizes it returned; 0 for an object that is not listed
          scratch,   \* objects downloaded for hashing
          issues,    \* issues found so far, each a kind and an object
          outcome,   \* how the command ended
          cache, remote,   \* the file each object has in the cache and on the remote
          was        \* ghost: what has been true of each object since the command began

vars == <<cmd, asked, broken, cancel, pc, todo, cur, writable, local, lookup, listing,
          scratch, issues, outcome, cache, remote, was>>
options == <<cmd, asked, broken>>
world == <<cache, remote, was>>

Contents == {"good", "rot", "cut"}
Absent == "absent"
File(c, w) == [bytes |-> c, writable |-> w]
Files == [bytes : Contents, writable : BOOLEAN]
NoFile == File(Absent, FALSE)
Size(c) == CASE c = Absent -> 0 [] c = "cut" -> 1 [] OTHER -> 2

NoObject == "-"
Unseen == [state |-> "unseen", size |-> 0]

\* What can be said of an object at one moment.
Facts(f, r) ==
    {x \in {"absent", "wrong", "good", "held", "remoteAbsent", "nowhere"} :
        \/ x = "absent" /\ f = NoFile
        \/ x = "wrong" /\ f.bytes \in {"rot", "cut"}
        \/ x = "good" /\ f.bytes = "good"
        \/ x = "held" /\ f # NoFile /\ (~f.writable \/ f.bytes = "good")
        \/ x = "remoteAbsent" /\ r = Absent
        \/ x = "nowhere" /\ f = NoFile /\ r = Absent}

Init == /\ cmd \in {"status", "verify", "integrity"}
        /\ asked \in BOOLEAN
        /\ broken \in BOOLEAN
        /\ cancel = FALSE
        /\ pc = "scan"
        /\ todo = {} /\ cur = NoObject /\ writable = FALSE
        /\ local = [h \in Objects |-> Unseen]
        /\ lookup = "none" /\ listing = [h \in Objects |-> 0]
        /\ scratch = [h \in Objects |-> NoObject]
        /\ issues = {} /\ outcome = "none"
        /\ cache \in [Objects -> Files \cup {NoFile}]
        /\ remote \in [Objects -> Contents \cup {Absent}]
        /\ was = [h \in Objects |-> Facts(cache[h], remote[h])]

-----------------------------------------------------------------------------
(* Steps the two commands share *)

End(o) == pc' = "done" /\ outcome' = o

\* An interrupt outranks what it made the command fail with.
Fail(e) == End(IF cancel THEN "canceled" ELSE IF cmd = "status" THEN StatusClass(e) ELSE VerifyClass(e))

\* repo.scan and classify_scan: links that do not validate are issues of verify, and
\* nothing to status.  status asks the remote first, verify the cache.
Scan ==
    /\ pc = "scan"
    /\ \/ cancel /\ Fail(<<"Repo", "Canceled">>) /\ UNCHANGED <<todo, issues>>
       \/ Fail(<<"Repo", "Walk">>) /\ UNCHANGED <<todo, issues>>
       \/ /\ ~cancel
          /\ todo' = Objects
          /\ issues' = IF broken /\ cmd # "status" THEN {<<"BrokenGitSymlink", NoObject>>} ELSE {}
          /\ pc' = IF cmd = "status" /\ asked THEN "list" ELSE "pick"
          /\ UNCHANGED outcome
    /\ UNCHANGED <<options, cancel, cur, writable, local, lookup, listing, scratch, world>>

\* The next object of the loop over unique hashes, or what follows the loop.
Pick ==
    /\ pc = "pick"
    /\ \/ \E h \in todo : /\ cur' = h /\ todo' = todo \ {h}
                          /\ pc' = IF cmd = "status" THEN "size" ELSE "stat"
       \/ /\ todo = {}
          /\ cur' = NoObject /\ UNCHANGED todo
          /\ pc' = IF cmd = "status" THEN "report" ELSE IF asked THEN "list" ELSE "orphans"
    /\ UNCHANGED <<options, cancel, writable, local, lookup, listing, scratch, issues, outcome, world>>

Found(s, n) == local' = [local EXCEPT ![cur] = [state |-> s, size |-> n]]

\* object_size, `unwrap_or(0)` in verify: the file may be gone since it was verified.
MeasureObject ==
    /\ pc = "size"
    /\ LET n == Size(cache[cur].bytes) IN
       Found(IF cmd = "status" /\ n = 0 THEN "missing" ELSE "present", n)
    /\ pc' = "pick"
    /\ UNCHANGED <<options, cancel, todo, cur, writable, lookup, listing, scratch, issues, outcome, world>>

\* file_sizes for every unique hash.  A failure ends verify, and is "unknown" to status.
Presence(h) ==
    IF listing'[h] = 0 THEN {<<"MissingRemoteFile", h>>}
    ELSE IF local[h].state = "present" /\ local[h].size # listing'[h]
         THEN {<<"CorruptRemoteFile", h>>} ELSE {}

AfterList == CASE cmd = "status" -> "pick" [] cmd = "integrity" -> "download" [] OTHER -> "orphans"

Answered ==
    /\ listing' = [h \in Objects |-> Size(remote[h])]
    /\ lookup' = "known"

\* Bug: a query that fails is taken for a remote that has nothing.
ListTakesFailureForEmpty ==
    /\ pc = "list"
    /\ \/ Answered
       \/ listing' = [h \in Objects |-> 0] /\ lookup' = "known"
    /\ issues' = IF cmd = "status" THEN issues ELSE issues \cup UNION {Presence(h) : h \in Objects}
    /\ pc' = AfterList
    /\ UNCHANGED <<options, cancel, todo, cur, writable, local, scratch, outcome, world>>

List ==
    /\ pc = "list"
    /\ \/ cancel /\ Fail(<<"Remote", "Canceled">>) /\ UNCHANGED <<lookup, listing, issues>>
       \/ /\ cmd # "status" /\ \E e \in {"Failed", "InvalidListing"} : Fail(<<"Remote", e>>)
          /\ UNCHANGED <<lookup, listing, issues>>
       \/ /\ cmd = "status" /\ lookup' = "failed"
          /\ pc' = AfterList
          /\ UNCHANGED <<listing, issues, outcome>>
       \/ /\ ~cancel /\ Answered
          /\ issues' = IF cmd = "status" THEN issues ELSE issues \cup UNION {Presence(h) : h \in Objects}
          /\ pc' = AfterList
          /\ UNCHANGED outcome
    /\ UNCHANGED <<options, cancel, todo, cur, writable, local, scratch, world>>

-----------------------------------------------------------------------------
(* verify *)

\* Bug: `verified` trusts any file that is there.
StatTrustsAnyMode ==
    /\ pc = "stat"
    /\ \/ /\ cache[cur] = NoFile
          /\ Found("missing", 0)
          /\ issues' = issues \cup {<<"MissingCacheFile", cur>>}
          /\ pc' = "pick" /\ UNCHANGED writable
       \/ /\ cache[cur] # NoFile
          /\ writable' = cache[cur].writable
          /\ pc' = IF cmd = "integrity" THEN "hash" ELSE "size"
          /\ UNCHANGED <<local, issues>>
    /\ UNCHANGED <<options, cancel, todo, cur, lookup, listing, scratch, outcome, world>>

\* The stat of `verified` or `rehash_object`; `verified` trusts a read-only file.
Stat ==
    /\ pc = "stat"
    /\ \/ /\ cache[cur] = NoFile
          /\ Found("missing", 0)
          /\ issues' = issues \cup {<<"MissingCacheFile", cur>>}
          /\ pc' = "pick" /\ UNCHANGED writable
       \/ /\ cache[cur] # NoFile
          /\ writable' = cache[cur].writable
          /\ pc' = IF cmd = "integrity" \/ cache[cur].writable THEN "hash" ELSE "size"
          /\ UNCHANGED <<local, issues>>
    /\ UNCHANGED <<options, cancel, todo, cur, lookup, listing, scratch, outcome, world>>

\* hash_file: a file that has gone meanwhile is an error, not a missing object.
Hash ==
    /\ pc = "hash"
    /\ \/ (cancel \/ cache[cur] = NoFile) /\ UNCHANGED <<local, issues>>
          /\ Fail(<<"Store", "Io">>)
       \/ /\ cache[cur].bytes \in {"rot", "cut"}
          /\ Found("corrupt", 0)
          /\ issues' = issues \cup {<<"CorruptCacheFile", cur>>}
          /\ pc' = "pick" /\ UNCHANGED outcome
       \/ /\ cache[cur].bytes = "good"
          /\ pc' = IF writable THEN "seal" ELSE "size"
          /\ UNCHANGED <<local, issues, outcome>>
    /\ UNCHANGED <<options, cancel, todo, cur, writable, lookup, listing, scratch, world>>

\* set_permissions by path.
Seal ==
    /\ pc = "seal"
    /\ \/ /\ cache[cur] = NoFile /\ Fail(<<"Store", "Io">>)
          /\ UNCHANGED <<cache, was>>
       \/ /\ cache[cur] # NoFile
          /\ cache' = [cache EXCEPT ![cur] = File(@.bytes, FALSE)]
          /\ was' = [was EXCEPT ![cur] = @ \cup Facts(cache'[cur], remote[cur])]
          /\ pc' = "size" /\ UNCHANGED outcome
    /\ UNCHANGED <<options, cancel, todo, cur, writable, local, lookup, listing, scratch, issues, remote>>

\* remote_integrity_issues: what is listed and not already reported goes to a scratch tree
\* in one copy_from_remote.  rclone may report success without every file.
Wanted == {h \in Objects : listing[h] > 0 /\ <<"CorruptRemoteFile", h>> \notin issues}

Download ==
    /\ pc = "download"
    /\ \/ Wanted = {} /\ pc' = "orphans" /\ UNCHANGED <<scratch, outcome>>
       \/ /\ Wanted # {} /\ \E e \in {<<"Scratch">>, <<"Remote", "Failed">>} : Fail(e)
          /\ UNCHANGED scratch
       \/ /\ Wanted # {} /\ ~cancel
          /\ \E lost \in SUBSET Wanted :
                scratch' = [h \in Objects |-> IF h \notin Wanted THEN NoObject
                                              ELSE IF h \in lost THEN Absent ELSE remote[h]]
          /\ pc' = "rehash" /\ UNCHANGED outcome
    /\ UNCHANGED <<options, cancel, todo, cur, writable, local, lookup, listing, issues, world>>

\* Every staged file is hashed; one that did not arrive ends the command.
Rehash ==
    /\ pc = "rehash"
    /\ \/ (cancel \/ \E h \in Objects : scratch[h] = Absent) /\ UNCHANGED issues
          /\ Fail(<<"Scratch">>)
       \/ /\ \A h \in Objects : scratch[h] # Absent
          /\ issues' = issues \cup {<<"CorruptRemoteFile", h>> :
                                        h \in {x \in Objects : scratch[x] \in {"rot", "cut"}}}
          /\ pc' = "orphans" /\ UNCHANGED outcome
    /\ UNCHANGED <<options, cancel, todo, cur, writable, local, lookup, listing, scratch, world>>

Kinds == {i[1] : i \in issues}

\* Bug: a missing object hides a corrupt one.
VerdictMissingFirst ==
    CASE issues = {} -> "ok"
      [] Kinds \cap {"MissingCacheFile", "MissingRemoteFile"} # {} -> "missing"
      [] OTHER -> "integrity"

\* classify_failed_report: corruption outranks absence.
Verdict ==
    CASE issues = {} -> "ok"
      [] Kinds \cap {"CorruptCacheFile", "CorruptRemoteFile", "BrokenGitSymlink"} # {} -> "integrity"
      [] OTHER -> "missing"

\* count_orphans reads the whole cache for a number; its failure hides every issue.
Orphans ==
    /\ pc = "orphans"
    /\ Fail(<<"Store", "Io">>) \/ End(Verdict)
    /\ UNCHANGED <<options, cancel, todo, cur, writable, local, lookup, listing, scratch, issues, world>>

\* build_report of status.
Report ==
    /\ pc = "report"
    /\ End("report")
    /\ UNCHANGED <<options, cancel, todo, cur, writable, local, lookup, listing, scratch, issues, world>>

Command == \/ Scan \/ Pick \/ MeasureObject \/ List \/ Stat \/ Hash \/ Seal \/ Download \/ Rehash
           \/ Orphans \/ Report

-----------------------------------------------------------------------------
(* The other commands, and the user *)

Becomes(h, f, r, event) ==
    /\ pc # "done"
    /\ cache' = [cache EXCEPT ![h] = f] /\ remote' = [remote EXCEPT ![h] = r]
    /\ was' = [was EXCEPT ![h] = @ \cup Facts(f, r) \cup {event}]
    /\ UNCHANGED <<options, cancel, pc, todo, cur, writable, local, lookup, listing, scratch,
                   issues, outcome>>

\* cache rm, cache prune, or a pull that drops what it does not trust.
Evict(h) == cache[h] # NoFile /\ Becomes(h, NoFile, remote[h], "evicted")

\* add publishes the object, pull whatever the remote has under its name.
Publish(h) == \E c \in {"good", remote[h]} \ {Absent} :
                 cache[h] = NoFile /\ Becomes(h, File(c, FALSE), remote[h], "published")

\* A push from here sends what the cache has accepted, one from elsewhere the object.
PushOther(h) == \E c \in {"good"} \cup (IF cache[h] # NoFile /\ ~cache[h].writable
                                         THEN {cache[h].bytes} ELSE {}) :
                   remote[h] = Absent /\ Becomes(h, cache[h], c, "pushed")

Interrupt ==
    /\ ~cancel /\ pc # "done"
    /\ cancel' = TRUE
    /\ UNCHANGED <<options, pc, todo, cur, writable, local, lookup, listing, scratch, issues,
                   outcome, world>>

Done == pc = "done" /\ UNCHANGED vars

Next == \/ Command \/ Interrupt \/ Done
        \/ \E h \in Shared : Evict(h) \/ Publish(h) \/ PushOther(h)

Spec == Init /\ [][Next]_vars

-----------------------------------------------------------------------------
(* Properties *)

\* The variables have their types, only objects the remote has listed are downloaded, and
\* a command inspects every object before it looks further.
TypeOK ==
    /\ cmd \in {"status", "verify", "integrity"} /\ asked \in BOOLEAN
    /\ broken \in BOOLEAN /\ cancel \in BOOLEAN
    /\ pc \in {"scan", "pick", "stat", "hash", "seal", "size", "list", "download", "rehash",
               "orphans", "report", "done"}
    /\ todo \subseteq Objects /\ cur \in Objects \cup {NoObject} /\ writable \in BOOLEAN
    /\ local \in [Objects -> [state : {"unseen", "present", "missing", "corrupt"}, size : 0..2]]
    /\ lookup \in {"none", "known", "failed"} /\ listing \in [Objects -> 0..2]
    /\ scratch \in [Objects -> Contents \cup {Absent, NoObject}]
    /\ \A h \in Objects : scratch[h] # NoObject => listing[h] > 0
    /\ issues \subseteq {"BrokenGitSymlink", "MissingCacheFile", "CorruptCacheFile",
                         "MissingRemoteFile", "CorruptRemoteFile"} \X (Objects \cup {NoObject})
    /\ outcome \in {"none", "ok", "integrity", "missing", "unavailable", "canceled", "report"}
    /\ (outcome # "none") <=> (pc = "done")
    /\ cache \in [Objects -> Files \cup {NoFile}]
    /\ remote \in [Objects -> Contents \cup {Absent}]
    /\ (pc \in {"download", "rehash", "orphans", "report"} \/ outcome \in {"ok", "missing", "report"})
          => \A h \in Objects : local[h].state # "unseen"

\* What verify reports has been so at some moment of the run.  "Corrupt remote file" only
\* says that two sizes differ: the cached file may be the wrong one, or have been evicted
\* after it was verified, when its size is taken to be 0.
IssuesHaveCause == \A i \in issues : LET h == i[2] IN
    /\ i[1] = "MissingCacheFile" => "absent" \in was[h]
    /\ i[1] = "CorruptCacheFile" => "wrong" \in was[h]
    /\ i[1] = "MissingRemoteFile" => "remoteAbsent" \in was[h]
    /\ i[1] = "CorruptRemoteFile" => \/ remote[h] \in {"rot", "cut"}
                                     \/ {"wrong", "evicted"} \cap was[h] # {}

\* A clean verify: each object was held by the cache at some moment (with its right
\* bytes, with --with-integrity), and the remote has a file for it, with --with-integrity
\* the right one, otherwise one whose size differs only if the cache never had the right bytes.
CleanMeansHeld == outcome = "ok" => \A h \in Objects :
    /\ (IF cmd = "integrity" THEN "good" ELSE "held") \in was[h]
    /\ asked => IF cmd = "integrity" THEN remote[h] = "good"
                ELSE remote[h] # Absent /\ (remote[h] = "cut" => was[h] \cap {"wrong", "absent"} # {})

\* If wrong bytes sit in the cache all the while, verify --with-integrity does not end with
\* "ok" or with the milder "missing", whatever else is wrong.
WrongIsNeverMissed == (cmd = "integrity" /\ outcome \in {"ok", "missing"}) =>
    \A h \in Objects : {"good", "absent"} \cap was[h] # {}

\* status calls an object neither cached nor on the remote only if it was nowhere at some
\* moment, or was pushed while status ran: it reads the remote before the cache.
LossNeedsPush == outcome = "report" => \A h \in Objects :
    (local[h].state = "missing" /\ lookup = "known" /\ listing[h] = 0)
       => {"nowhere", "pushed"} \cap was[h] # {}
=============================================================================
