-------------------------------- MODULE Gate --------------------------------
(***************************************************************************)
(* What stands between a command and its first answer of a remote          *)
(* (dispatch.rs): the configuration, the version floors, the cache, the    *)
(* locks, the objects, the remote; and doctor, which looks at most of this *)
(* one after the other, while self update replaces the programs.           *)
(***************************************************************************)
EXTENDS Config, SelfUpdate

CONSTANTS Texts,         \* configuration files
          Places,        \* what else the clone and the machine may be like
          Names          \* names of remotes

Default == "default"

VARIABLES file,      \* .git-sfs/config.toml: one of Texts, or Absent
          place,     \* one of Places
          doctor,    \* a run of doctor
          command    \* the last command that got through, or why it did not

gateVars == <<file, place, doctor, command>>
vars == <<updateVars, gateVars>>

\* The rest of the world, which stays as it is: whether there is a repository, whether Git
\* makes symlinks, the cache, an rclone that comes earlier in PATH than the one beside
\* git-sfs (its version, or 0), the rclone configuration, each remote, the locks (kept:
\* somebody keeps the one that is wanted), whether old downloads can be purged, and what is
\* met in the scope of a command: a directory that cannot be read; an object that must be
\* hashed and cannot be read, or is corrupt; one that the cache does not have next to one
\* that it has; objects that are all in the cache; no object.
Caches == {"unbound", "gone", "read-only", "modeless", "good"}
Answers == {"down", "empty", "good"}
Locks == {"free", "kept", "unusable"}
Scopes == {"unreadable", "locked", "corrupt", "missing", "cached", "none"}

ASSUME GateAssumption ==
    /\ Places \subseteq [repository : BOOLEAN, symlinks : BOOLEAN, cache : Caches,
                         elsewhere : 0..Newest["rclone"], conf : BOOLEAN,
                         remote : [Names -> Answers], locks : Locks, purges : BOOLEAN, scope : Scopes]
    /\ \A p \in Places : p.cache = "gone" => p.scope \in {"unreadable", "missing", "none"}

Labels == {"git repository", "git-sfs config", "git-sfs version", "git core.symlinks",
           "cache config", "cache directory", "cache permissions", "rclone binary",
           "rclone version"}

Idle == [stage |-> "idle", own |-> 0, asked |-> Absent, config |-> Refused("none"),
         report |-> [l \in Labels |-> "none"], failed |-> 0, left |-> {}, code |-> -1]
Nothing == [kind |-> "none", skip |-> FALSE, class |-> "none", own |-> 0, remote |-> Absent,
            late |-> FALSE]

GateInit ==
    /\ file \in Texts \cup {Absent}
    /\ place \in Places
    /\ doctor = Idle
    /\ command = Nothing

Init == UpdateInit /\ GateInit

-----------------------------------------------------------------------------
\* load_config: no file is an error of its own, a panic ends the process.
Load == IF file = Absent THEN Refused("missing") ELSE ParseAndValidate(file)

\* check_git_sfs_version: floors are releases, a pre-release is below its release.
MeetsFloor(v, floor) == \/ floor = Absent
                        \/ v = Dev
                        \/ floor \in Nat /\ v >= 2 * floor
\* check_rclone_version.
RcloneMeetsFloor(v, floor) == floor = Absent \/ (floor \in Nat /\ v >= floor)

\* The rclone that PATH leads to.
Rclone == IF place.elsewhere > 0 THEN place.elsewhere
          ELSE IF Runs(binary["rclone"]) THEN binary["rclone"].version ELSE 0

\* exit.rs code_for, and 101 of a panic.
ExitCode(class) == CASE class = "ok" -> 0 [] class = "config" -> 2 [] class = "integrity" -> 3
                     [] class = "missing" -> 4 [] class = "unavailable" -> 5
                     [] class = "canceled" -> 130 [] class = "panic" -> 101

\* build_rclone_remote: the remote must be configured.
HasRemote(config, n) == n \in DOMAIN config.remotes
\* validate_config, before any run of rclone.
ConfIsThere(config, n) == config.remotes[n].config = Absent \/ place.conf

\* The commands that ask a remote: verify with --check-remote, status with -r.
Kinds == {"push", "pull", "verify", "status"}

\* discover_repo, load_config, check_git_sfs_floor, resolve_cache_root.
Prepared(config, v) ==
    IF ~place.repository THEN "config"
    ELSE IF config.status = "panic" THEN "panic"
    ELSE IF config.status # "ok" \/ ~MeetsFloor(v, config.sfs) \/ place.cache = "unbound" THEN "config"
    ELSE "ok"

\* Lock::acquire waits for a lock that is kept until it is canceled.
Acquired(kind) == IF kind \notin {"push", "pull"} \/ place.locks = "free" THEN "ok"
                  ELSE IF place.locks = "kept" THEN "canceled" ELSE "unavailable"

\* The scan, the objects in the cache, and push's plan, with --skip-missing or without.
Planned(kind, skip) ==
    CASE place.scope = "unreadable" -> "unavailable"
      [] place.scope = "locked" /\ kind # "status" -> "unavailable"
      [] place.scope = "corrupt" /\ kind = "push" -> "integrity"
      [] place.scope = "missing" /\ kind = "push" /\ ~skip -> "missing"
      [] OTHER -> "ok"

NothingToAsk(kind) == \/ place.scope = "none"
                      \/ kind = "pull" /\ place.scope = "cached"
                      \/ kind = "push" /\ place.cache = "gone"

\* A list of the objects is written to tmp/ of the cache before rclone runs.
RemoteAnswers(config, n) == /\ place.cache # "read-only" /\ ConfIsThere(config, n)
                            /\ Rclone > 0 /\ place.remote[n] # "down"

\* What a command that asks remote n comes to before its first run of rclone succeeds; status
\* does not end where the remote does not answer, but reports it as unknown.
Class(config, kind, skip, v, n) ==
    IF Prepared(config, v) # "ok" THEN Prepared(config, v)
    ELSE IF kind = "pull" /\ ~place.purges THEN "unavailable"
    ELSE IF ~HasRemote(config, n) THEN "config"
    ELSE IF Acquired(kind) # "ok" THEN Acquired(kind)
    ELSE IF Planned(kind, skip) # "ok" THEN Planned(kind, skip)
    ELSE IF NothingToAsk(kind) \/ RemoteAnswers(config, n) THEN "ok"
    ELSE IF kind = "status" THEN "unknown" ELSE "unavailable"

\* A command runs the git-sfs that is installed, with -r n or without.
Command ==
    /\ Runs(binary["git-sfs"])
    /\ LET config == Load
           v == binary["git-sfs"].version
       IN \E kind \in Kinds, skip \in BOOLEAN, n \in Names \cup {Absent} :
             LET r == IF n = Absent THEN Default ELSE n IN
             /\ skip => kind = "push"
             /\ n = Absent => kind # "status"
             /\ command' = [kind |-> kind, skip |-> skip, class |-> Class(config, kind, skip, v, r),
                            own |-> v, remote |-> r, late |-> doctor.code = 0]
    /\ UNCHANGED <<updateVars, file, place, doctor>>

-----------------------------------------------------------------------------
(* doctor *)

At(stage) == doctor.stage = stage
Record(l, good) == [doctor EXCEPT !.report[l] = IF good THEN "pass" ELSE "fail",
                                  !.failed = IF good THEN @ ELSE @ + 1]
Then(d, stage) == /\ doctor' = [d EXCEPT !.stage = stage]
                  /\ UNCHANGED <<updateVars, file, place, command>>
\* finish_doctor after an early return: the other checks are listed as skipped.
SkipRest(d) == Then([d EXCEPT !.report = [l \in Labels |-> IF @[l] = "none" THEN "skip" ELSE @[l]]],
                    "finish")

\* doctor, with -r n or without.
DoctorStarts ==
    /\ At("idle") /\ Runs(binary["git-sfs"])
    /\ \E n \in Names \cup {Absent} :
          Then([Idle EXCEPT !.own = binary["git-sfs"].version, !.asked = n], "repository")

CheckRepository ==
    /\ At("repository")
    /\ LET d == Record("git repository", place.repository) IN
       IF place.repository THEN Then(d, "config") ELSE SkipRest(d)

CheckConfig ==
    /\ At("config")
    /\ LET config == Load
           d == [Record("git-sfs config", config.status = "ok") EXCEPT !.config = config]
       IN /\ config.status # "panic"
          /\ IF config.status = "ok" THEN Then(d, "version") ELSE SkipRest(d)

\* Bug: a floor that is not met is reported, and counts as a pass.
CheckVersionWarns ==
    /\ At("version")
    /\ Then(Record("git-sfs version", TRUE), "symlinks")

\* A floor that is not met fails, and the checks go on.
CheckVersion ==
    /\ At("version")
    /\ Then(Record("git-sfs version", MeetsFloor(doctor.own, doctor.config.sfs)), "symlinks")

CheckSymlinks ==
    /\ At("symlinks")
    /\ Then(Record("git core.symlinks", place.symlinks), "cache")

CheckCache ==
    /\ At("cache")
    /\ LET d == Record("cache config", place.cache # "unbound") IN
       IF place.cache # "unbound" THEN Then(d, "directory") ELSE SkipRest(d)

CheckDirectory ==
    /\ At("directory")
    /\ Then(Record("cache directory", place.cache \notin {"gone", "read-only"}), "permissions")

CheckPermissions ==
    /\ At("permissions")
    /\ Then(Record("cache permissions", place.cache = "good"), "binary")

\* find_rclone_binary: an executable file is enough.
CheckBinary ==
    /\ At("binary")
    /\ LET d == Record("rclone binary", Rclone > 0) IN
       IF Rclone > 0 THEN Then(d, "rclone") ELSE SkipRest(d)

\* remote_names: the one asked for, or all that are configured.
CheckRclone ==
    /\ At("rclone")
    /\ Then([Record("rclone version", Rclone > 0 /\ RcloneMeetsFloor(Rclone, doctor.config.rclone))
                EXCEPT !.left = IF doctor.asked = Absent THEN DOMAIN doctor.config.remotes
                                ELSE {doctor.asked}], "remotes")

\* check_doctor_remotes: the first test of a remote that fails ends that remote only.
RemoteIsFine(n) == /\ HasRemote(doctor.config, n) /\ ConfIsThere(doctor.config, n)
                   /\ Rclone > 0 /\ place.remote[n] = "good"
CheckRemote ==
    /\ At("remotes")
    /\ \E n \in doctor.left :
          Then([doctor EXCEPT !.left = @ \ {n},
                              !.failed = IF RemoteIsFine(n) THEN @ ELSE @ + 1], "remotes")

RemotesDone == At("remotes") /\ doctor.left = {} /\ Then(doctor, "finish")

\* finish_doctor: any failed check fails the run.
Finish == /\ At("finish")
          /\ Then([doctor EXCEPT !.code = ExitCode(IF doctor.failed = 0 THEN "ok" ELSE "unavailable")], "done")

\* Canceled takes precedence over whatever doctor found; a panic needs no interrupt.
DoctorDies ==
    /\ doctor.stage \notin {"idle", "done"}
    /\ \E class \in {"canceled"} \cup (IF At("config") /\ Load.status = "panic" THEN {"panic"} ELSE {}) :
          Then([doctor EXCEPT !.code = ExitCode(class)], "done")

Doctor == \/ DoctorStarts \/ CheckRepository \/ CheckConfig \/ CheckVersion \/ CheckSymlinks
          \/ CheckCache \/ CheckDirectory \/ CheckPermissions \/ CheckBinary \/ CheckRclone
          \/ CheckRemote \/ RemotesDone \/ Finish \/ DoctorDies

Next == \/ Command \/ Doctor
        \/ Update /\ UNCHANGED gateVars
        \* What doctor found before is no promise any more.
        \/ PowerLoss /\ doctor' = Idle /\ command' = Nothing /\ UNCHANGED <<file, place>>

Spec == Init /\ [][Next]_vars

-----------------------------------------------------------------------------
(* Properties *)

\* What doctor does not look at: old downloads, locks, the repository's files, the objects.
Unseen(c) == \/ c.kind = "pull" /\ ~place.purges /\ c.class = "unavailable"
             \/ c.class \in {Acquired(c.kind), Planned(c.kind, c.skip)}

\* What a run of doctor that exits with 0 has looked at, a git-sfs that is not older can use:
\* no command on those remotes stops before its first run of rclone succeeds, whatever self
\* update does meanwhile, unless for what doctor does not look at.
ReadyAfterDoctor ==
    (command.late /\ command.class # "ok")
       => \/ doctor.own = Dev /\ command.own # Dev
          \/ command.own # Dev /\ command.own < doctor.own
          \/ command.remote \notin
                IF doctor.asked = Absent THEN DOMAIN doctor.config.remotes ELSE {doctor.asked}
          \/ Unseen(command)

\* Two readings that both have a value have the same one.
Agree(a, b) == a = b \/ Absent \in {a, b}

\* A configuration that is taken is taken by the versions that read it with the scanner too,
\* and means the same to them: they keep the same floors, and a remote that they know by the
\* same name is the same place to them.  A name that only one of the two readings has is left
\* out, and with it what its section says: [remotes."x"] is taken whatever the readings make
\* of its path, and an older version that is asked for x finds no such remote.
AcceptedMeansAgreed ==
    file # Absent =>
       LET config == Load
           older == RemotesOf(file, "compat")
       IN config.status = "ok" =>
             /\ Scan(file) = "ok"
             /\ Agree(config.sfs, file.min_git_sfs_version.compat)
             /\ Agree(config.rclone, file.min_rclone_version.compat)
             /\ \A n \in DOMAIN config.remotes \cap DOMAIN older, x \in RemoteFields :
                   Agree(config.remotes[n][x], older[n][x])
=============================================================================
