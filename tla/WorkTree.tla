-------------------------------- MODULE WorkTree --------------------------------
(***************************************************************************)
(* The links of a working tree, the objects of its cache, and the commands *)
(* that keep one pointing at the other: add, import (with --move and -L),  *)
(* mv of a link or of a directory, cache rm and cache prune.  A command    *)
(* works through a list it made when it started, item by item, syscall by  *)
(* syscall; add and import hold a lock of their own, mv holds none, and    *)
(* the evictions rely on the caller to keep everything else idle.  A       *)
(* command that ends is "done", or ends with the class of its failure.     *)
(*                                                                         *)
(* A link's text is relative, so what it names depends on the depth of the *)
(* directory it lies in; a path is a directory and a name in it.  Storing  *)
(* and adopting one object is one step here: ObjectStore has the detail.   *)
(***************************************************************************)
EXTENDS FiniteSets, Failures

CONSTANTS
  Adders, Importers, Movers, Pruners, Removers,  \* the commands that are run
  Consumes,    \* imports with --move
  Follows,     \* imports with -L
  Failing,     \* commands that an I/O error stops; the others are killed
  Stoppable,   \* commands that may be interrupted
  Folder, Name,   \* directories of the working tree, names in them
  OffLimits,   \* folders import must not write to: .git, .git-sfs, outside the repository
  Depth,       \* how far below the repository's root a folder is
  GitTracked,  \* paths whose regular file git already tracks
  Data,        \* the contents files have; one object each
  Source,      \* paths outside the repository
  LeadsTo,     \* those that are symlinks: to a source, to an object, to nothing
  Batches,     \* what an import's arguments may come to: what goes where, as [src, dst]
  Nothing

Command == Adders \cup Importers \cup Movers \cup Pruners \cup Removers
Evictors == Pruners \cup Removers
Path == [dir : Folder, name : Name]

\* The path of the same name in another folder.
Moved(p, f) == [dir |-> f, name |-> p.name]

Regular(d) == [kind |-> "file", of |-> d, depth |-> 0]

\* git_link_target: the text leads up from the folder, then to the object.
Link(d, p) == [kind |-> "link", of |-> d, depth |-> Depth[p.dir]]

\* What is at a path outside that is a symlink.
Symlink == [leads |-> "elsewhere"]

Entry == [kind : {"file", "link"}, of : Data, depth : {0} \cup {Depth[f] : f \in Folder}]

\* What a command reads bytes from: a file outside, or an object of the cache.
File == Source \cup Data

Item == Path \cup [src : File, dst : Path] \cup [from : Path, to : Path]
          \cup [from : Folder, to : Folder] \cup [at : Path, of : Data] \cup [of : Data]

ASSUME CommandAssumption ==
  /\ Consumes \cup Follows \subseteq Importers /\ Failing \subseteq Command /\ Stoppable \subseteq Command
  /\ GitTracked \subseteq Path /\ OffLimits \cap Folder = {}
  /\ DOMAIN LeadsTo \subseteq Source
  /\ \A s \in DOMAIN LeadsTo : LeadsTo[s] \in (File \cup {Nothing}) \ DOMAIN LeadsTo
  /\ Source \cap Data = {} /\ Symlink \notin Data
  /\ \A c \in Importers : \A batch \in Batches[c] :
       batch \subseteq [src : Source, dst : [dir : Folder \cup OffLimits, name : Name]]
  /\ Adders \cap (Importers \cup Movers \cup Evictors) = {}
  /\ Importers \cap (Movers \cup Evictors) = {} /\ Movers \cap Evictors = {}
  /\ Pruners \cap Removers = {}

ASSUME NothingAssumption == Nothing \notin Entry \cup File \cup Item \cup {Symlink}

VARIABLES
  pc,           \* where each command is
  todo,         \* what it has still to do
  cur,          \* the item it is working on
  held,         \* the hash it has for that item
  hashes,       \* an import's memory of the files it has already cached
  followed,     \* the symlinks that have led an import to its files
  tree,         \* what is at each path of the working tree
  folders,      \* the directories there are
  cache,        \* the objects there are
  sources,      \* what is at the paths outside
  interrupted,  \* commands that have been told to stop
  forgone,      \* given up by an eviction, or not in the cache to begin with
  wrote         \* ghost: commands that have changed something

vars == << pc, todo, cur, held, hashes, followed, tree, folders, cache, sources, interrupted, forgone, wrote >>

Ended == {"done", "killed"} \cup Classes
Stages == Ended \cup
  {"idle", "loop", "hash", "store", "remove", "link", "publish",
   "tidy", "write", "drop", "rollback", "rename", "unlink", "relink", "evict"}

Running(c) == pc[c] \notin Ended \cup {"idle"}

IsFile(p) == tree[p] # Nothing /\ tree[p].kind = "file"
IsLink(p) == tree[p] # Nothing /\ tree[p].kind = "link"

\* validate_symlink_target: a link that was carried elsewhere names nothing.
IsTracked(p) == IsLink(p) /\ tree[p].depth = Depth[p.dir]

\* The objects that the links among ps name, those that no longer resolve too.
Linked(ps) == {tree[p].of : p \in {q \in ps : IsLink(q)}}

TypeOK ==
  /\ pc \in [Command -> Stages]
  /\ todo \in [Command -> SUBSET Item]
  /\ cur \in [Command -> Item \cup {Nothing}]
  /\ held \in [Command -> Data \cup {Nothing}]
  /\ hashes \in [Importers -> [File -> Data \cup {Nothing}]]
  /\ followed \in [Importers -> SUBSET DOMAIN LeadsTo]
  /\ tree \in [Path -> Entry \cup {Nothing}]
  /\ folders \subseteq Folder
  /\ cache \subseteq Data
  /\ sources \in [Source -> Data \cup {Nothing, Symlink}]
  /\ interrupted \subseteq Command
  /\ forgone \subseteq Data
  /\ wrote \subseteq Command

\* Somewhere on this machine there is a complete copy of d.
Present(d) ==
  \/ d \in cache
  \/ \E p \in Path : tree[p] = Regular(d)
  \/ \E s \in Source : sources[s] = d

Init ==
  /\ pc = [c \in Command |-> "idle"]
  /\ todo = [c \in Command |-> {}]
  /\ cur = [c \in Command |-> Nothing]
  /\ held = [c \in Command |-> Nothing]
  /\ hashes = [c \in Importers |-> [f \in File |-> Nothing]]
  /\ followed = [c \in Importers |-> {}]
  /\ folders \in SUBSET Folder
  /\ tree \in [Path -> Entry \cup {Nothing}]
  /\ \A p \in Path : tree[p] # Nothing =>
       p.dir \in folders /\ tree[p] \in {Regular(tree[p].of), Link(tree[p].of, p)}
  /\ cache \in SUBSET Data
  /\ sources \in [Source -> Data \cup {Symlink}]
  /\ \A s \in Source : sources[s] = Symlink <=> s \in DOMAIN LeadsTo
  /\ interrupted = {}
  /\ forgone = {d \in Data : ~Present(d)} \cup (Linked(Path) \ cache)
  /\ wrote = {}

Goto(c, stage) == pc' = [pc EXCEPT ![c] = stage] /\ UNCHANGED wrote
Changed(c, stage) == pc' = [pc EXCEPT ![c] = stage] /\ wrote' = wrote \cup {c}

\* An interrupt outranks whatever else the command came to.
Exit(c, class) == Goto(c, IF c \in interrupted THEN "canceled" ELSE class)
Put(p, entry) == tree' = [tree EXCEPT ![p] = entry]

\* add and import wait for the lock of their kind; an eviction is run alone.
MayStart(c) ==
  /\ pc[c] = "idle"
  /\ \A d \in Command : Running(d) =>
       /\ c \notin Evictors /\ d \notin Evictors
       /\ ~({c, d} \subseteq Adders) /\ ~({c, d} \subseteq Importers)

(***************************************************************************)
(* The loop of every command that has a list: the interrupt is looked at   *)
(* before each item, and while bytes are read.                             *)
(***************************************************************************)
FirstStage(c) ==
  CASE c \in Adders -> "hash"
    [] c \in Movers -> "unlink"
    [] c \in Evictors -> "evict"

Pick(c) ==
  /\ pc[c] = "loop" /\ c \notin Importers
  /\ \/ /\ todo[c] = {} /\ Exit(c, "done")
        /\ cur' = [cur EXCEPT ![c] = Nothing]
        /\ UNCHANGED todo
     \/ /\ todo[c] # {} /\ c \in interrupted /\ Exit(c, "canceled")
        /\ cur' = [cur EXCEPT ![c] = Nothing]
        /\ UNCHANGED todo
     \/ /\ c \notin interrupted
        /\ \E item \in todo[c] :
             /\ todo' = [todo EXCEPT ![c] = @ \ {item}]
             /\ cur' = [cur EXCEPT ![c] = item]
        /\ Goto(c, FirstStage(c))
  /\ held' = [held EXCEPT ![c] = Nothing]
  /\ UNCHANGED << hashes, followed, tree, folders, cache, sources, interrupted, forgone >>

(***************************************************************************)
(* add                                                                     *)
(***************************************************************************)

\* find_files under the lock; a regular file that git tracks stops it all.
AddScan(c) ==
  /\ c \in Adders /\ MayStart(c)
  /\ \E f \in Folder :
       LET found == {p \in Path : p.dir = f /\ IsFile(p)} IN
       IF c \in interrupted
         THEN Exit(c, AddClass(<<"Repo", "Canceled">>)) /\ UNCHANGED todo
         ELSE IF found \cap GitTracked # {}
           THEN Exit(c, AddClass(<<"AlreadyTracked">>)) /\ UNCHANGED todo
           ELSE Goto(c, "loop") /\ todo' = [todo EXCEPT ![c] = found]
  /\ UNCHANGED << cur, held, hashes, followed, tree, folders, cache, sources, interrupted, forgone >>

\* Hashing follows a link that has taken the file's place.
AddHash(c) ==
  /\ pc[c] = "hash" /\ c \in Adders
  /\ LET p == cur[c] IN
     IF c \notin interrupted /\ (IsFile(p) \/ (IsTracked(p) /\ tree[p].of \in cache))
       THEN Goto(c, "store") /\ held' = [held EXCEPT ![c] = tree[p].of]
       ELSE Exit(c, AddClass(<<"Io">>)) /\ UNCHANGED held
  /\ UNCHANGED << todo, cur, hashes, followed, tree, folders, cache, sources, interrupted, forgone >>

\* An object that is there is accepted; else the file is copied as it is now.
\* Evictions being kept away, the look through .git-sfs/cache then finds it.
AddStore(c) ==
  /\ pc[c] = "store" /\ c \in Adders
  /\ IF held[c] \in cache \/ (c \notin interrupted /\ tree[cur[c]] = Regular(held[c]))
       THEN cache' = cache \cup {held[c]} /\ Changed(c, "remove")
       ELSE Exit(c, AddClass(<<"Store", "HashMismatch">>)) /\ UNCHANGED cache
  /\ UNCHANGED << todo, cur, held, hashes, followed, tree, folders, sources, interrupted, forgone >>

AddRemove(c) ==
  /\ pc[c] = "remove"
  /\ IF tree[cur[c]] = Nothing
       THEN Exit(c, AddClass(<<"Io">>)) /\ UNCHANGED tree
       ELSE Changed(c, "link") /\ Put(cur[c], Nothing)
  /\ UNCHANGED << todo, cur, held, hashes, followed, folders, cache, sources, interrupted, forgone >>

AddLink(c) ==
  /\ pc[c] = "link"
  /\ IF tree[cur[c]] # Nothing \/ cur[c].dir \notin folders
       THEN Exit(c, AddClass(<<"Io">>)) /\ UNCHANGED tree
       ELSE Changed(c, "loop") /\ Put(cur[c], Link(held[c], cur[c]))
  /\ UNCHANGED << todo, cur, held, hashes, followed, folders, cache, sources, interrupted, forgone >>

(***************************************************************************)
(* import                                                                  *)
(***************************************************************************)

\* resolve_symlink, and canonical_key: links to one file have one key.
Resolved(s) == IF sources[s] = Symlink THEN LeadsTo[s] ELSE s

Bytes(f) == CASE f = Nothing -> Nothing
              [] f \in Data -> IF f \in cache THEN f ELSE Nothing
              [] f \in Source -> sources[f]

\* What plan_source and walk_source_dir find wrong with one source.
SourceErrors(c, s) ==
  IF sources[s] = Symlink /\ c \notin Follows THEN {<<"SourceSymlinkRequiresFollow">>}
  ELSE IF Bytes(Resolved(s)) = Nothing THEN {<<"Io">>} ELSE {}

\* validate_destination_parents, and that nothing is there.
DestinationErrors(p) ==
  IF p.dir \in OffLimits THEN {<<"DestinationInsideGitSfs">>}
  ELSE IF tree[p] # Nothing THEN {<<"DestinationAlreadyExists">>} ELSE {}

PlanErrors(c, batch) ==
  {e \in ImportErrors :
     \/ \E pair \in batch : e \in SourceErrors(c, pair.src) \cup DestinationErrors(pair.dst)
     \/ e = <<"DestinationCollision">> /\ \E a, b \in batch : a # b /\ a.dst = b.dst}

\* Every source and destination of the batch is checked before anything moves.
ImportPlan(c) ==
  /\ c \in Importers /\ MayStart(c)
  /\ \E batch \in Batches[c] :
       IF c \in interrupted
         THEN Exit(c, ImportClass(<<"Canceled">>)) /\ UNCHANGED << todo, followed >>
         ELSE \/ \E e \in PlanErrors(c, batch) :
                   Exit(c, ImportClass(e)) /\ UNCHANGED << todo, followed >>
              \/ /\ PlanErrors(c, batch) = {}
                 /\ Goto(c, "loop")
                 /\ todo' = [todo EXCEPT ![c] = {[src |-> Resolved(pair.src), dst |-> pair.dst] : pair \in batch}]
                 /\ followed' = [followed EXCEPT ![c] =
                      {pair.src : pair \in {q \in batch : sources[q.src] = Symlink}}]
  /\ UNCHANGED << cur, held, hashes, tree, folders, cache, sources, interrupted, forgone >>

\* A source that leads to a file already cached is not read again.
ImportPick(c) ==
  /\ pc[c] = "loop" /\ c \in Importers
  /\ \/ /\ todo[c] = {}
        /\ IF c \in Consumes THEN Goto(c, "tidy") ELSE Exit(c, "done")
        /\ cur' = [cur EXCEPT ![c] = Nothing]
        /\ held' = [held EXCEPT ![c] = Nothing]
        /\ UNCHANGED todo
     \/ /\ todo[c] # {} /\ c \in interrupted /\ Exit(c, ImportClass(<<"Canceled">>))
        /\ UNCHANGED << todo, cur, held >>
     \/ /\ c \notin interrupted
        /\ \E pair \in todo[c] :
             /\ todo' = [todo EXCEPT ![c] = @ \ {pair}]
             /\ cur' = [cur EXCEPT ![c] = pair]
             /\ held' = [held EXCEPT ![c] = hashes[c][pair.src]]
             /\ Goto(c, IF hashes[c][pair.src] = Nothing THEN "hash" ELSE "publish")
  /\ UNCHANGED << hashes, followed, tree, folders, cache, sources, interrupted, forgone >>

ImportHash(c) ==
  /\ pc[c] = "hash" /\ c \in Importers
  /\ LET d == Bytes(cur[c].src) IN
     IF c \notin interrupted /\ d # Nothing
       THEN Goto(c, "store") /\ held' = [held EXCEPT ![c] = d]
       ELSE Exit(c, ImportClass(<<"Io">>)) /\ UNCHANGED held
  /\ UNCHANGED << todo, cur, hashes, followed, tree, folders, cache, sources, interrupted, forgone >>

\* adopt leaves only the object; a source that is the object itself is left alone.
Consumed(c) == IF c \in Consumes /\ cur[c].src \in Source
                 THEN [sources EXCEPT ![cur[c].src] = Nothing] ELSE sources

\* Bug: --move takes the source away and leaves caching it for later.
ImportStoreMovesFirst(c) ==
  /\ pc[c] = "store" /\ c \in Importers
  /\ IF c \in Consumes THEN UNCHANGED cache ELSE cache' = cache \cup {held[c]}
  /\ sources' = Consumed(c)
  /\ hashes' = [hashes EXCEPT ![c][cur[c].src] = held[c]]
  /\ Changed(c, "publish")
  /\ UNCHANGED << todo, cur, held, followed, tree, folders, interrupted, forgone >>

\* store copies the source, adopt takes it.
ImportStore(c) ==
  /\ pc[c] = "store" /\ c \in Importers
  /\ IF held[c] \in cache \/ (c \notin interrupted /\ Bytes(cur[c].src) = held[c])
       THEN /\ cache' = cache \cup {held[c]}
            /\ sources' = Consumed(c)
            /\ hashes' = [hashes EXCEPT ![c][cur[c].src] = held[c]]
            /\ Changed(c, "publish")
       ELSE /\ Exit(c, ImportClass(<<"Store", "HashMismatch">>))
            /\ UNCHANGED << cache, sources, hashes >>
  /\ UNCHANGED << todo, cur, held, followed, tree, folders, interrupted, forgone >>

\* Bug: a path taken meanwhile is reported as it is when the batch is planned.
ImportPublishRejects(c) ==
  /\ pc[c] = "publish"
  /\ folders' = folders \cup {cur[c].dst.dir}
  /\ IF tree[cur[c].dst] = Nothing
       THEN Changed(c, "loop") /\ Put(cur[c].dst, Link(held[c], cur[c].dst))
       ELSE Exit(c, ImportClass(<<"DestinationAlreadyExists">>)) /\ UNCHANGED tree
  /\ UNCHANGED << todo, cur, held, hashes, followed, cache, sources, interrupted, forgone >>

\* The destination's directories are made; a path taken meanwhile is left alone.
ImportPublish(c) ==
  /\ pc[c] = "publish"
  /\ folders' = folders \cup {cur[c].dst.dir}
  /\ IF tree[cur[c].dst] = Nothing
       THEN Changed(c, "loop") /\ Put(cur[c].dst, Link(held[c], cur[c].dst))
       ELSE Exit(c, ImportClass(<<"Io">>)) /\ UNCHANGED tree
  /\ UNCHANGED << todo, cur, held, hashes, followed, cache, sources, interrupted, forgone >>

\* The links that --move has followed go last, those that can be removed.
ImportTidy(c) ==
  /\ pc[c] = "tidy"
  /\ \E gone \in SUBSET followed[c] :
       sources' = [s \in Source |-> IF s \in gone THEN Nothing ELSE sources[s]]
  /\ Exit(c, "done")
  /\ UNCHANGED << todo, cur, held, hashes, followed, tree, folders, cache, interrupted, forgone >>

(***************************************************************************)
(* mv of one link                                                          *)
(***************************************************************************)

\* src must be a valid link, dst must be free.
MvRead(c) ==
  /\ c \in Movers /\ MayStart(c)
  /\ \E src, dst \in Path :
       /\ tree[src] # Nothing
       /\ IF IsTracked(src) /\ tree[dst] = Nothing
            THEN /\ Goto(c, "write")
                 /\ cur' = [cur EXCEPT ![c] = [from |-> src, to |-> dst]]
                 /\ held' = [held EXCEPT ![c] = tree[src].of]
            ELSE /\ Exit(c, MvClass(IF IsTracked(src) THEN <<"DestinationExists">>
                                                      ELSE <<"NotATrackedLink">>))
                 /\ UNCHANGED << cur, held >>
  /\ UNCHANGED << todo, hashes, followed, tree, folders, cache, sources, interrupted, forgone >>

\* Bug: the old link is removed before the new one is written.
MvWriteDropsFirst(c) ==
  /\ pc[c] = "write"
  /\ folders' = folders \cup {cur[c].to.dir}
  /\ Changed(c, "relink")
  /\ cur' = [cur EXCEPT ![c] = [at |-> cur[c].to, of |-> held[c]]]
  /\ Put(cur[c].from, Nothing)
  /\ UNCHANGED << todo, held, hashes, followed, cache, sources, interrupted, forgone >>

\* The new link first.
MvWrite(c) ==
  /\ pc[c] = "write"
  /\ folders' = folders \cup {cur[c].to.dir}
  /\ IF tree[cur[c].to] = Nothing
       THEN Changed(c, "drop") /\ Put(cur[c].to, Link(held[c], cur[c].to))
       ELSE Exit(c, MvClass(<<"Io">>)) /\ UNCHANGED tree
  /\ UNCHANGED << todo, cur, held, hashes, followed, cache, sources, interrupted, forgone >>

\* Then the old one goes; if it cannot be removed, the new one goes again.
MvDrop(c) ==
  /\ pc[c] = "drop"
  /\ \/ tree[cur[c].from] # Nothing /\ Exit(c, "done") /\ Put(cur[c].from, Nothing)
     \/ /\ tree[cur[c].from] = Nothing \/ c \in Failing
        /\ Goto(c, "rollback") /\ UNCHANGED tree
  /\ UNCHANGED << todo, cur, held, hashes, followed, folders, cache, sources, interrupted, forgone >>

MvRollback(c) ==
  /\ pc[c] = "rollback"
  /\ Exit(c, MvClass(<<"Io">>))
  /\ Put(cur[c].to, Nothing)
  /\ UNCHANGED << todo, cur, held, hashes, followed, folders, cache, sources, interrupted, forgone >>

(***************************************************************************)
(* mv of a directory                                                       *)
(***************************************************************************)

\* The valid links are collected while they are valid.  A destination that is
\* there takes the directory inside it, as another folder that is not.
MvDirScan(c) ==
  /\ c \in Movers /\ MayStart(c)
  /\ \E f \in folders, g \in Folder \ folders :
       IF c \in interrupted
         THEN Exit(c, MvClass(<<"Repo", "Canceled">>)) /\ UNCHANGED << todo, cur >>
         ELSE /\ Goto(c, "rename")
              /\ cur' = [cur EXCEPT ![c] = [from |-> f, to |-> g]]
              /\ todo' = [todo EXCEPT ![c] =
                   {[at |-> Moved(p, g), of |-> tree[p].of] :
                      p \in {q \in Path : q.dir = f /\ IsTracked(q)}}]
  /\ UNCHANGED << held, hashes, followed, tree, folders, cache, sources, interrupted, forgone >>

\* One rename carries the whole directory, its links with the text they had.
MvDirRename(c) ==
  /\ pc[c] = "rename"
  /\ LET f == cur[c].from
         g == cur[c].to
     IN IF f \notin folders \/ \E p \in Path : p.dir = g /\ tree[p] # Nothing
          THEN Exit(c, MvClass(<<"Io">>)) /\ UNCHANGED << tree, folders >>
          ELSE /\ Changed(c, "loop")
               /\ folders' = (folders \ {f}) \cup {g}
               /\ tree' = [p \in Path |->
                             IF p.dir = f THEN Nothing
                             ELSE IF p.dir = g THEN tree[Moved(p, f)] ELSE tree[p]]
  /\ UNCHANGED << todo, cur, held, hashes, followed, cache, sources, interrupted, forgone >>

MvUnlink(c) ==
  /\ pc[c] = "unlink"
  /\ held' = [held EXCEPT ![c] = cur[c].of]
  /\ IF tree[cur[c].at] = Nothing
       THEN Exit(c, MvClass(<<"Io">>)) /\ UNCHANGED tree
       ELSE Changed(c, "relink") /\ Put(cur[c].at, Nothing)
  /\ UNCHANGED << todo, cur, hashes, followed, folders, cache, sources, interrupted, forgone >>

MvRelink(c) ==
  /\ pc[c] = "relink"
  /\ LET p == cur[c].at IN
     IF tree[p] # Nothing \/ p.dir \notin folders
       THEN Exit(c, MvClass(<<"Io">>)) /\ UNCHANGED tree
       ELSE Changed(c, "loop") /\ Put(p, Link(cur[c].of, p))
  /\ UNCHANGED << todo, cur, held, hashes, followed, folders, cache, sources, interrupted, forgone >>

(***************************************************************************)
(* cache rm and cache prune                                                *)
(***************************************************************************)

\* The objects named by the links of a folder; no link, or an invalid one, is
\* an error before anything is removed.
SelectRm(c) ==
  /\ c \in Removers /\ MayStart(c)
  /\ \E f \in Folder \cup OffLimits :
       LET links == {p \in Path : p.dir = f /\ IsLink(p)} IN
       IF links = {} THEN Exit(c, "usage") /\ UNCHANGED todo
       ELSE IF c \in interrupted \/ \E p \in links : ~IsTracked(p)
         THEN Exit(c, "integrity") /\ UNCHANGED todo
         ELSE Goto(c, "loop") /\ todo' = [todo EXCEPT ![c] = [of : Linked(links)]]
  /\ UNCHANGED << cur, held, hashes, followed, tree, folders, cache, sources, interrupted, forgone >>

\* Bug: an invalid link is passed over instead of stopping the selection.
SelectPruneSkipsInvalid(c) ==
  /\ c \in Pruners /\ MayStart(c)
  /\ IF c \in interrupted
       THEN Exit(c, "canceled") /\ UNCHANGED todo
       ELSE /\ Goto(c, "loop")
            /\ todo' = [todo EXCEPT ![c] =
                          [of : cache \ Linked({p \in Path : IsTracked(p)})]]
  /\ UNCHANGED << cur, held, hashes, followed, tree, folders, cache, sources, interrupted, forgone >>

\* The objects that no link of the working tree names.
SelectPrune(c) ==
  /\ c \in Pruners /\ MayStart(c)
  /\ IF c \in interrupted \/ \E p \in Path : IsLink(p) /\ ~IsTracked(p)
       THEN Exit(c, "integrity") /\ UNCHANGED todo
       ELSE Goto(c, "loop") /\ todo' = [todo EXCEPT ![c] = [of : cache \ Linked(Path)]]
  /\ UNCHANGED << cur, held, hashes, followed, tree, folders, cache, sources, interrupted, forgone >>

\* remove_object; one that is gone already is no error.  The user of rm has
\* given the object up; the user of prune only what no link names.
EvictOne(c) ==
  /\ pc[c] = "evict"
  /\ cache' = cache \ {cur[c].of}
  /\ forgone' = forgone \cup (IF c \in Removers THEN {cur[c].of} ELSE {cur[c].of} \ Linked(Path))
  /\ Changed(c, "loop")
  /\ UNCHANGED << todo, cur, held, hashes, followed, tree, folders, sources, interrupted >>

(***************************************************************************)
(* What the environment does                                               *)
(***************************************************************************)

\* SIGINT, before a command starts to look at its list or while it runs.
Interrupt(c) ==
  /\ c \in Stoppable \ interrupted
  /\ pc[c] = "idle" \/ Running(c)
  /\ interrupted' = interrupted \cup {c}
  /\ UNCHANGED << pc, todo, cur, held, hashes, followed, tree, folders, cache, sources, forgone, wrote >>

\* A system call fails, or the process is killed between two of them and what it
\* knew is gone.
Stop(c) ==
  /\ Running(c)
  /\ \/ /\ c \in Failing /\ Exit(c, "unavailable")
        /\ UNCHANGED << todo, cur, held, hashes, followed >>
     \/ /\ c \notin Failing /\ Goto(c, "killed")
        /\ todo' = [todo EXCEPT ![c] = {}]
        /\ cur' = [cur EXCEPT ![c] = Nothing]
        /\ held' = [held EXCEPT ![c] = Nothing]
        /\ hashes' = [i \in Importers |-> IF i = c THEN [f \in File |-> Nothing] ELSE hashes[i]]
        /\ followed' = [i \in Importers |-> IF i = c THEN {} ELSE followed[i]]
  /\ UNCHANGED << tree, folders, cache, sources, interrupted, forgone >>

Step(c) ==
  \/ Pick(c) \/ ImportPick(c)
  \/ AddScan(c) \/ AddHash(c) \/ AddStore(c) \/ AddRemove(c) \/ AddLink(c)
  \/ ImportPlan(c) \/ ImportHash(c) \/ ImportStore(c) \/ ImportPublish(c) \/ ImportTidy(c)
  \/ MvRead(c) \/ MvWrite(c) \/ MvDrop(c) \/ MvRollback(c)
  \/ MvDirScan(c) \/ MvDirRename(c) \/ MvUnlink(c) \/ MvRelink(c)
  \/ SelectRm(c) \/ SelectPrune(c) \/ EvictOne(c)

Next == \E c \in Command : Step(c) \/ Interrupt(c) \/ Stop(c)

Spec == Init /\ [][Next]_vars

-----------------------------------------------------------------------------

\* No command loses bytes: whatever was on the machine is still in the cache,
\* in a file of the working tree or in a source, unless it has been evicted.
BytesKept == \A d \in Data : d \in forgone \/ Present(d)

\* Every link's object is in the cache, unless rm has evicted it or it was
\* missing to begin with: add and import never publish a dangling link, and
\* prune takes nothing that a link names, one left stale by mv included.
LinksResolve == Linked(Path) \subseteq cache \cup forgone

\* A step of mv takes an object's last link away only while it has that very
\* link out to rewrite it: a move of one link never leaves neither.
MovesKeepLinks ==
  [][\A c \in Movers, d \in Data :
       pc'[c] # pc[c] /\ d \in Linked(Path) /\ d \notin Linked(Path)'
         => pc[c] = "unlink" /\ cur[c].of = d]_vars

\* A command that is rejected for its arguments has changed nothing: not one
\* of a batch's sources is consumed or published before all have been checked.
RejectedChangesNothing == \A c \in Command : pc[c] = "usage" => c \notin wrote
=============================================================================
