----------------------------- MODULE Workspace -----------------------------
(***************************************************************************)
(* How a clone comes to its cache: init, setup (exec/init.rs,              *)
(* exec/setup.rs, ports/local_state.rs) and the commands that read the     *)
(* binding they make, all on one clone, one system call at a time.         *)
(*                                                                         *)
(* setup holds a lock in the cache it has chosen, so two setups that chose *)
(* differently hold different locks, and init holds none.                  *)
(***************************************************************************)
EXTENDS Naturals, FiniteSets

CONSTANTS Procs,     \* the processes
          Caches,    \* the directories a cache may be in
          Paths,     \* the paths that name them
          Target,    \* the directory a path names: canonicalize
          Old,       \* .git-sfs/.cache, the default of earlier versions
          Private    \* the default in the private Git directory

ASSUME WorkspaceAssumption ==
    /\ Target \in [Paths -> Caches]
    /\ {Old, Private} \subseteq Caches /\ Caches \subseteq Paths
    /\ \A c \in Caches : Target[c] = c
    /\ "none" \notin Paths

VARIABLES kind,      \* "init", "setup", or another command: "local" (add, mv, import, cache)
                     \* or "remote" (status, push, pull, verify)
          request,   \* the path given with --cache
          force,     \* --force of init
          pc,        \* where each process is
          root,      \* the cache root it has chosen or resolved
          seen,      \* the lines it has read of .gitignore
          outcome,   \* how it ended
          link,      \* what .git-sfs/cache points at
          dirs,      \* the subdirectories that exist in each cache
          holder,    \* who holds the setup lock of each cache
          config,    \* .git-sfs/config.toml
          ignored    \* the lines of .gitignore

vars == <<kind, request, force, pc, root, seen, outcome, link, dirs, holder, config, ignored>>
options == <<kind, request, force>>

None == "none"
Subdirs == {"files", "tmp", "locks"}
\* A configuration may fail to parse, or demand a newer git-sfs.
Configs == {"valid", "invalid", "demanding", "template"}
Lines == {".git-sfs/cache", ".git-sfs/.cache"}
Kinds == {"init", "setup", "local", "remote"}
Binders == {"init", "setup"}

\* The commands that talk to a remote, and setup, read the configuration first.
FirstStage(k) == CASE k = "init" -> "exists" [] k = "local" -> "choose" [] OTHER -> "load"

Init == /\ kind \in [Procs -> Kinds]
        /\ request \in [Procs -> Paths \cup {None}]
        /\ force \in [Procs -> BOOLEAN]
        /\ \A p \in Procs : /\ kind[p] \notin Binders => request[p] = None
                            /\ kind[p] # "init" => ~force[p]
        /\ pc = [p \in Procs |-> FirstStage(kind[p])]
        /\ root = [p \in Procs |-> None]
        /\ seen = [p \in Procs |-> {}]
        /\ outcome = [p \in Procs |-> None]
        /\ link \in {None, Old, Private}
        /\ dirs \in [Caches -> {{}, Subdirs}]
        /\ link # None => dirs[link] = Subdirs
        /\ holder = [c \in Caches |-> None]
        /\ config \in Configs \cup {None}
        /\ ignored \in SUBSET Lines

-----------------------------------------------------------------------------
Goto(p, s) == pc' = [pc EXCEPT ![p] = s]
\* A process that ends drops its lock.
End(p, o) == /\ pc' = [pc EXCEPT ![p] = "done"]
             /\ outcome' = [outcome EXCEPT ![p] = o]
             /\ holder' = [c \in Caches |-> IF holder[c] = p THEN None ELSE holder[c]]
Go(p, s) == Goto(p, s) /\ UNCHANGED <<outcome, holder>>

\* init looks for a configuration that it must not replace.
LookForConfig(p) ==
    /\ pc[p] = "exists"
    /\ IF config # None /\ ~force[p] THEN End(p, "config") ELSE Go(p, "choose")
    /\ UNCHANGED <<options, root, seen, link, dirs, config, ignored>>

\* load_config and check_git_sfs_floor, before the command does anything.
LoadConfig(p) ==
    /\ pc[p] = "load"
    /\ IF config \in {None, "invalid", "demanding"} THEN End(p, "config") ELSE Go(p, "choose")
    /\ UNCHANGED <<options, root, seen, link, dirs, config, ignored>>

\* --cache, or the cache that is bound already.  Commands other than init and setup take
\* what is bound (resolve_cache_root) and nothing else.
Choose(p) ==
    /\ pc[p] = "choose"
    /\ \/ /\ kind[p] \in Binders /\ request[p] # None
          /\ root' = [root EXCEPT ![p] = request[p]]
          /\ Go(p, "files")
       \/ /\ request[p] = None /\ link # None
          /\ root' = [root EXCEPT ![p] = link]
          /\ Go(p, IF kind[p] \in Binders THEN "files" ELSE "work")
       \/ /\ request[p] = None /\ link = None
          /\ IF kind[p] \in Binders THEN Go(p, "default") ELSE End(p, "config")
          /\ UNCHANGED root
    /\ UNCHANGED <<options, seen, link, dirs, config, ignored>>

\* The old default directory if it is there, otherwise the private Git directory.
ChooseDefault(p) ==
    /\ pc[p] = "default"
    /\ root' = [root EXCEPT ![p] = IF dirs[Old] # {} THEN Old ELSE Private]
    /\ Go(p, "files")
    /\ UNCHANGED <<options, seen, link, dirs, config, ignored>>

\* init_cache_dirs, one create_dir_all at a time.
\* Bug: the link is made before the directories.
AfterDirBindsFirst(p) == IF pc[p] = "files" THEN "bind" ELSE "acquire"

AfterDir(p) == CASE pc[p] = "files" -> "tmp" [] pc[p] = "tmp" -> "locks"
                 [] OTHER -> IF kind[p] = "setup" THEN "acquire" ELSE "bind"

MakeDir(p) ==
    /\ pc[p] \in Subdirs
    /\ dirs' = [dirs EXCEPT ![Target[root[p]]] = @ \cup {pc[p]}]
    /\ Go(p, AfterDir(p))
    /\ UNCHANGED <<options, root, seen, link, config, ignored>>

\* Lock::acquire: the lock of the chosen cache.
Acquire(p) ==
    /\ pc[p] = "acquire"
    /\ LET c == Target[root[p]] IN
       /\ holder[c] = None
       /\ holder' = [holder EXCEPT ![c] = p]
    /\ Goto(p, "bind")
    /\ UNCHANGED <<options, root, seen, outcome, link, dirs, config, ignored>>

\* bind_cache: an existing link must name the same directory.
AfterBind(p) == IF kind[p] = "init" THEN Go(p, "config") ELSE End(p, "ok")

CheckLink(p) ==
    /\ pc[p] = "bind"
    /\ CASE link = None -> Go(p, "symlink")
         [] link = Target[root[p]] -> AfterBind(p)
         [] OTHER -> End(p, "config")
    /\ UNCHANGED <<options, root, seen, link, dirs, config, ignored>>

\* Bug: the link is replaced by a rename.
MakeLinkByRename(p) ==
    /\ pc[p] = "symlink"
    /\ link' = Target[root[p]] /\ AfterBind(p)
    /\ UNCHANGED <<options, root, seen, dirs, config, ignored>>

\* Bug: a link that is there by now is taken for one's own.
MakeLinkTakesAny(p) ==
    /\ pc[p] = "symlink"
    /\ link' = IF link = None THEN Target[root[p]] ELSE link
    /\ AfterBind(p)
    /\ UNCHANGED <<options, root, seen, dirs, config, ignored>>

\* symlink fails if another process has made the link meanwhile.
MakeLink(p) ==
    /\ pc[p] = "symlink"
    /\ IF link = None THEN link' = Target[root[p]] /\ AfterBind(p)
                      ELSE End(p, "config") /\ UNCHANGED link
    /\ UNCHANGED <<options, root, seen, dirs, config, ignored>>

\* write_file renames over whatever is there by now, then .git-sfs/README.md is written.
WriteConfig(p) ==
    /\ pc[p] = "config"
    /\ config' = "template"
    /\ Go(p, "ignore")
    /\ UNCHANGED <<options, root, seen, link, dirs, ignored>>

ReadIgnore(p) ==
    /\ pc[p] = "ignore"
    /\ seen' = [seen EXCEPT ![p] = ignored]
    /\ IF Lines \subseteq ignored THEN End(p, "ok") ELSE Go(p, "write")
    /\ UNCHANGED <<options, root, link, dirs, config, ignored>>

\* ensure_gitignore writes the lines it has not seen, and write_file puts them in the place
\* of the whole file.
WriteIgnore(p) ==
    /\ pc[p] = "write"
    /\ ignored' = Lines \ seen[p]
    /\ End(p, "ok")
    /\ UNCHANGED <<options, root, seen, link, dirs, config>>

\* A command works in the cache it has resolved.
Work(p) ==
    /\ pc[p] = "work"
    /\ End(p, "ok")
    /\ UNCHANGED <<options, root, seen, link, dirs, config, ignored>>

\* A system call fails, the wait for the lock is interrupted, or the process is killed; a
\* killed setup's lock is broken by the next one (CommandLock).
Stop(p) ==
    /\ pc[p] # "done"
    /\ End(p, "unavailable")
    /\ UNCHANGED <<options, root, seen, link, dirs, config, ignored>>

Step(p) == \/ LookForConfig(p) \/ LoadConfig(p) \/ Choose(p) \/ ChooseDefault(p) \/ MakeDir(p)
           \/ Acquire(p) \/ CheckLink(p) \/ MakeLink(p) \/ WriteConfig(p) \/ ReadIgnore(p)
           \/ WriteIgnore(p) \/ Work(p)

Done == (\A p \in Procs : pc[p] = "done") /\ UNCHANGED vars

Next == (\E p \in Procs : Step(p) \/ Stop(p)) \/ Done

Spec == Init /\ [][Next]_vars

-----------------------------------------------------------------------------
(* Properties *)

\* The variables have their types, and only a setup that is binding holds a lock, that of
\* the cache it has chosen.
TypeOK ==
    /\ kind \in [Procs -> Kinds]
    /\ request \in [Procs -> Paths \cup {None}] /\ force \in [Procs -> BOOLEAN]
    /\ pc \in [Procs -> {"exists", "load", "choose", "default", "acquire", "bind", "symlink",
                         "config", "ignore", "write", "work", "done"} \cup Subdirs]
    /\ root \in [Procs -> Paths \cup {None}]
    /\ seen \in [Procs -> SUBSET Lines]
    /\ outcome \in [Procs -> {None, "ok", "config", "unavailable"}]
    /\ link \in Caches \cup {None}
    /\ dirs \in [Caches -> SUBSET Subdirs]
    /\ holder \in [Caches -> Procs \cup {None}]
    /\ \A c \in Caches : holder[c] # None =>
          /\ kind[holder[c]] = "setup" /\ pc[holder[c]] \in {"bind", "symlink"}
          /\ Target[root[holder[c]]] = c
    /\ config \in Configs \cup {None} /\ ignored \subseteq Lines

\* A clone that is bound stays bound to the same cache, however many inits and setups run
\* at once, with whatever --cache: "rebinding" is refused, also when it is a race.
BindingIsFinal == [][link # None => link' = link]_link

\* An init or setup that succeeds has bound the clone to the directory it chose, and any
\* other command works where the clone is bound: no two processes use two caches.
SuccessMeansBound == \A p \in Procs :
    (outcome[p] = "ok" \/ pc[p] \in {"config", "ignore", "write", "work"})
       => link = Target[root[p]]

\* No command meets a cache that is bound but not laid out, whoever was killed on the way.
BoundIsLaidOut == link # None => dirs[link] = Subdirs
=============================================================================
