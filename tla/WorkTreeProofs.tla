----------------------------- MODULE WorkTreeProofs -----------------------------
(***************************************************************************)
(* Theorems about WorkTree for any commands, paths, objects and sources.   *)
(*                                                                         *)
(* The argument, for any commands together: a command makes links only to  *)
(* objects it has published or has found linked, an eviction runs alone    *)
(* and takes what its caller has given up, and what a command is rejected  *)
(* for it finds before its first change (TreeInv).                         *)
(*                                                                         *)
(* For bytes and links what matters is what other commands do to a path    *)
(* between the moment a command looks at it and the moment it changes it.  *)
(* If no file comes to such a path, only add removes files, and those it   *)
(* has stored (BytesInv); if nothing there changes, mv always finds the    *)
(* link that it is about to take away, and its other end (MoversInv). With *)
(* one mv at a time both hold by themselves: adds take turns, a file that  *)
(* add is about to remove is never where mv works, and mv brings no file   *)
(* to a path before it has renamed a directory, to a place where there was *)
(* nothing (LoneInv). Of two mv's, one may carry away what add is about to *)
(* remove, or the link that the other has just made, and neither theorem   *)
(* holds.                                                                  *)
(***************************************************************************)
EXTENDS WorkTree, TLAPS

\* What the items of each kind of command are.
ImportItem == [src : File \ DOMAIN LeadsTo, dst : Path]
MoveItem == [from : Path, to : Path]
DirItem == [from : Folder, to : Folder]
LinkItem == [at : Path, of : Data]
ObjectItem == [of : Data]

\* Where each kind of command may be, and what it has in hand there.
AdderPlaced(c) ==
  /\ pc[c] \in Ended \cup {"idle", "loop", "hash", "store", "remove", "link"}
  /\ todo[c] \subseteq Path
  /\ pc[c] \in {"hash", "store", "remove", "link"} => cur[c] \in Path
  /\ pc[c] \in {"store", "remove", "link"} => held[c] \in Data

ImporterPlaced(c) ==
  /\ pc[c] \in Ended \cup {"idle", "loop", "hash", "store", "publish", "tidy"}
  /\ todo[c] \subseteq ImportItem
  /\ pc[c] \in {"hash", "store", "publish"} => cur[c] \in ImportItem
  /\ pc[c] \in {"store", "publish"} => held[c] \in Data

MoverPlaced(c) ==
  /\ pc[c] \in Ended \cup {"idle", "write", "drop", "rollback", "rename", "loop", "unlink", "relink"}
  /\ todo[c] \subseteq LinkItem
  /\ pc[c] \in {"write", "drop", "rollback"} => cur[c] \in MoveItem /\ held[c] \in Data
  /\ pc[c] = "rename" => /\ cur[c] \in DirItem /\ cur[c].from # cur[c].to
                         /\ \A i \in todo[c] : i.at.dir = cur[c].to
  /\ pc[c] \in {"unlink", "relink"} => cur[c] \in LinkItem

EvictorPlaced(c) ==
  /\ pc[c] \in Ended \cup {"idle", "loop", "evict"}
  /\ todo[c] \subseteq ObjectItem
  /\ pc[c] = "evict" => cur[c] \in ObjectItem

Placed(c) ==
  /\ c \in Adders => AdderPlaced(c)
  /\ c \in Importers => ImporterPlaced(c)
  /\ c \in Movers => MoverPlaced(c)
  /\ c \in Evictors => EvictorPlaced(c)

\* A path outside never becomes a symlink, or a file again.
SourcesKeepKind ==
  \A s \in Source : IF s \in DOMAIN LeadsTo THEN sources[s] \in {Symlink, Nothing}
                                            ELSE sources[s] \in Data \cup {Nothing}

\* Objects that are there or are not missed.
Known == cache \cup forgone

\* A command makes links to such objects only.
HoldsKnown(c) ==
  /\ c \in Adders /\ pc[c] \in {"remove", "link"} => held[c] \in Known
  /\ c \in Importers => /\ \A f \in File : hashes[c][f] \in Known \cup {Nothing}
                        /\ pc[c] = "publish" => held[c] \in Known
  /\ c \in Movers => /\ pc[c] = "write" => held[c] \in Known
                     /\ \A i \in todo[c] : i.of \in Known
                     /\ pc[c] \in {"unlink", "relink"} => cur[c].of \in Known

\* An eviction runs alone.
EvictorsAlone == \A c \in Evictors, d \in Command : Running(c) /\ Running(d) => c = d

\* What prune has on its list no link names.
PruneSpares(c) ==
  c \in Pruners /\ Running(c) =>
    /\ \A i \in todo[c] : i.of \notin Linked(Path)
    /\ pc[c] = "evict" => cur[c].of \notin Linked(Path)

\* A command that has not begun, or was rejected, has changed nothing.
UnbegunChangesNothing == \A c \in Command : pc[c] \in {"idle", "usage"} => c \notin wrote

\* The inductive invariant, whatever runs together.
TreeInv ==
  /\ TypeOK
  /\ \A c \in Command : Placed(c) /\ HoldsKnown(c) /\ PruneSpares(c)
  /\ SourcesKeepKind
  /\ EvictorsAlone
  /\ UnbegunChangesNothing
  /\ LinksResolve

-----------------------------------------------------------------------------

\* A step of c leaves what the other commands have in hand alone.
Framed(c) ==
  /\ \A d \in Command \ {c} :
       /\ pc'[d] = pc[d] /\ todo'[d] = todo[d] /\ cur'[d] = cur[d] /\ held'[d] = held[d]
       /\ d \in Importers => hashes'[d] = hashes[d]
  /\ wrote' \subseteq wrote \cup {c}

\* The classes of the failures met once a command has begun: none is that of a rejection.
LEMMA LateFailures ==
  /\ AddClass(<<"Io">>) = "unavailable"
  /\ AddClass(<<"Store", "HashMismatch">>) = "unavailable"
  /\ ImportClass(<<"Canceled">>) = "canceled"
  /\ ImportClass(<<"Io">>) = "unavailable"
  /\ ImportClass(<<"Store", "HashMismatch">>) = "integrity"
  /\ MvClass(<<"Io">>) = "unavailable"
  BY DEF AddClass, ImportClass, MvClass, Rejections, Own

\* Those met before it has.
LEMMA EarlyFailures ==
  /\ AddClass(<<"Repo", "Canceled">>) \in Classes
  /\ AddClass(<<"AlreadyTracked">>) \in Classes
  /\ MvClass(<<"Repo", "Canceled">>) \in Classes
  /\ MvClass(<<"DestinationExists">>) \in Classes
  /\ MvClass(<<"NotATrackedLink">>) \in Classes
  /\ \A e \in ImportErrors : ImportClass(e) \in Classes
  BY ClassesAreTotal DEF AddClass, MvClass, Classes

\* A batch without errors: its sources lead to files, its destinations are in the tree.
LEMMA SoundBatch ==
  ASSUME TypeOK, SourcesKeepKind, NEW c \in Importers, NEW batch \in Batches[c], PlanErrors(c, batch) = {},
         NEW pair \in batch
  PROVE  [src |-> Resolved(pair.src), dst |-> pair.dst] \in ImportItem
<1>1. SourceErrors(c, pair.src) = {}
  <2>1. SourceErrors(c, pair.src) \subseteq ImportErrors
    BY DEF SourceErrors, ImportErrors, Rejections, Own
  <2> QED BY <2>1 DEF PlanErrors
<1>2. DestinationErrors(pair.dst) = {}
  <2>1. DestinationErrors(pair.dst) \subseteq ImportErrors
    BY DEF DestinationErrors, ImportErrors, Rejections, Own
  <2> QED BY <2>1 DEF PlanErrors
<1>3. pair.src \in Source /\ pair.dst \in [dir : Folder \cup OffLimits, name : Name]
  BY CommandAssumption
<1>4. pair.dst \in Path
  BY <1>2, <1>3 DEF DestinationErrors, Path
<1>5. Resolved(pair.src) \in File \ DOMAIN LeadsTo
  <2>1. Bytes(Resolved(pair.src)) # Nothing
    BY <1>1 DEF SourceErrors
  <2>2. CASE sources[pair.src] = Symlink
    BY <1>3, <2>1, <2>2, CommandAssumption, NothingAssumption DEF Resolved, Bytes, SourcesKeepKind, File
  <2>3. CASE sources[pair.src] # Symlink
    BY <1>3, <2>1, <2>3, CommandAssumption, NothingAssumption DEF Resolved, Bytes, SourcesKeepKind, File
  <2> QED BY <2>2, <2>3
<1> QED BY <1>4, <1>5 DEF ImportItem

LEMMA InitEstablishes == Init => TreeInv
<1> SUFFICES ASSUME Init PROVE TreeInv
  OBVIOUS
<1> USE CommandAssumption, NothingAssumption DEF Init
<1>1. TypeOK
  <2>1. pc \in [Command -> Stages]
    BY DEF Stages
  <2>2. /\ hashes \in [Importers -> [File -> Data \cup {Nothing}]]
        /\ followed \in [Importers -> SUBSET DOMAIN LeadsTo]
    OBVIOUS
  <2>3. forgone \subseteq Data
    BY DEF Linked, IsLink, Entry
  <2>4. sources \in [Source -> Data \cup {Nothing, Symlink}]
    OBVIOUS
  <2> QED BY <2>1, <2>2, <2>3, <2>4 DEF TypeOK
<1>2. \A c \in Command : Placed(c) /\ HoldsKnown(c) /\ PruneSpares(c)
  BY DEF Placed, AdderPlaced, ImporterPlaced, MoverPlaced, EvictorPlaced, HoldsKnown, PruneSpares,
     Running, Command, Evictors
<1>3. SourcesKeepKind
  BY DEF SourcesKeepKind
<1>4. EvictorsAlone /\ UnbegunChangesNothing
  BY DEF EvictorsAlone, UnbegunChangesNothing, Running, Command, Evictors
<1>5. LinksResolve
  BY DEF LinksResolve
<1> QED BY <1>1, <1>2, <1>3, <1>4, <1>5 DEF TreeInv

-----------------------------------------------------------------------------

LEMMA ItemKinds ==
  /\ Path \subseteq Item /\ ImportItem \subseteq Item /\ MoveItem \subseteq Item
  /\ DirItem \subseteq Item /\ LinkItem \subseteq Item /\ ObjectItem \subseteq Item
  BY DEF Item, ImportItem, MoveItem, DirItem, LinkItem, ObjectItem, File

\* What an action finds: its command is of the kind that gets to its stage, and has there what
\* the action works on.
LEMMA StageIsPlaced ==
  ASSUME TreeInv, NEW c \in Command
  PROVE  /\ pc[c] = "hash" => (c \in Adders /\ cur[c] \in Path) \/ (c \in Importers /\ cur[c] \in ImportItem)
         /\ pc[c] = "store" => \/ c \in Adders /\ cur[c] \in Path /\ held[c] \in Data
                               \/ c \in Importers /\ cur[c] \in ImportItem /\ held[c] \in Data
         /\ pc[c] \in {"remove", "link"} => c \in Adders /\ cur[c] \in Path /\ held[c] \in Data
         /\ pc[c] = "publish" => c \in Importers /\ cur[c] \in ImportItem /\ held[c] \in Data
         /\ pc[c] = "tidy" => c \in Importers
         /\ pc[c] \in {"write", "drop", "rollback"} => c \in Movers /\ cur[c] \in MoveItem /\ held[c] \in Data
         /\ pc[c] = "rename" => /\ c \in Movers /\ cur[c] \in DirItem /\ cur[c].from # cur[c].to
                                /\ \A i \in todo[c] : i.at.dir = cur[c].to
         /\ pc[c] \in {"unlink", "relink"} => c \in Movers /\ cur[c] \in LinkItem
         /\ pc[c] = "evict" => c \in Evictors /\ cur[c] \in ObjectItem
<1>1. c \in Adders \/ c \in Importers \/ c \in Movers \/ c \in Evictors
  BY DEF Command, Evictors
<1>2. Placed(c)
  BY DEF TreeInv
<1>3. CASE c \in Adders
  BY <1>2, <1>3 DEF Placed, AdderPlaced, Ended, Classes
<1>4. CASE c \in Importers
  BY <1>2, <1>4 DEF Placed, ImporterPlaced, Ended, Classes
<1>5. CASE c \in Movers
  BY <1>2, <1>5 DEF Placed, MoverPlaced, Ended, Classes
<1>6. CASE c \in Evictors
  BY <1>2, <1>6 DEF Placed, EvictorPlaced, Ended, Classes
<1> QED BY <1>1, <1>3, <1>4, <1>5, <1>6

LEMMA StepIsFramed ==
  ASSUME TypeOK, NEW c \in Command, Step(c) \/ Interrupt(c) \/ Stop(c)
  PROVE  Framed(c)
<1> USE DEF TypeOK, Framed, Goto, Changed, Exit
<1>1. CASE Pick(c) BY <1>1 DEF Pick
<1>2. CASE ImportPick(c) BY <1>2 DEF ImportPick
<1>3. CASE AddScan(c) \/ AddHash(c) \/ AddStore(c) BY <1>3 DEF AddScan, AddHash, AddStore
<1>4. CASE AddRemove(c) \/ AddLink(c) BY <1>4 DEF AddRemove, AddLink
<1>5. CASE ImportPlan(c) BY <1>5 DEF ImportPlan
<1>6. CASE ImportHash(c) \/ ImportStore(c) BY <1>6 DEF ImportHash, ImportStore
<1>7. CASE ImportPublish(c) \/ ImportTidy(c) BY <1>7 DEF ImportPublish, ImportTidy
<1>8. CASE MvRead(c) BY <1>8 DEF MvRead
<1>9. CASE MvWrite(c) \/ MvDrop(c) \/ MvRollback(c) BY <1>9 DEF MvWrite, MvDrop, MvRollback
<1>10. CASE MvDirScan(c) BY <1>10 DEF MvDirScan
<1>11. CASE MvDirRename(c) BY <1>11 DEF MvDirRename
<1>12. CASE MvUnlink(c) \/ MvRelink(c) BY <1>12 DEF MvUnlink, MvRelink
<1>13. CASE SelectRm(c) \/ SelectPrune(c) \/ EvictOne(c) BY <1>13 DEF SelectRm, SelectPrune, EvictOne
<1>14. CASE Interrupt(c) BY <1>14 DEF Interrupt
<1>15. CASE Stop(c) BY <1>15 DEF Stop
<1> QED BY <1>1, <1>2, <1>3, <1>4, <1>5, <1>6, <1>7, <1>8, <1>9, <1>10, <1>11, <1>12, <1>13, <1>14, <1>15 DEF Step

\* The outcome of a scan: an error before anything is done, or a list of the links of f as they
\* will lie in g.
Scanned(c, f, g) ==
  /\ pc' = [pc EXCEPT ![c] = "rename"]
  /\ cur' = [cur EXCEPT ![c] = [from |-> f, to |-> g]]
  /\ todo' = [todo EXCEPT ![c] =
       {[at |-> Moved(p, g), of |-> tree[p].of] : p \in {q \in Path : q.dir = f /\ IsTracked(q)}}]

\* A command has ended with a class of failure.
Rejected(c) == todo' = todo /\ \E class \in Classes : pc' = [pc EXCEPT ![c] = class]

\* What the scan of a directory, the checks of an import and the selection of rm come to.
LEMMA DirScanOutcome ==
  ASSUME NEW c \in Command, MvDirScan(c)
  PROVE  \/ Rejected(c) /\ cur' = cur
         \/ \E f \in folders, g \in Folder \ folders : Scanned(c, f, g)
<1>1. CASE c \in interrupted
  BY <1>1 DEF MvDirScan, Exit, Goto, Classes, Rejected
<1>2. CASE c \notin interrupted
  BY <1>2 DEF MvDirScan, Goto, Scanned
<1> QED BY <1>1, <1>2

LEMMA PlanOutcome ==
  ASSUME TreeInv, NEW c \in Command, ImportPlan(c)
  PROVE  \/ Rejected(c)
         \/ /\ pc' = [pc EXCEPT ![c] = "loop"] /\ todo' \in [Command -> SUBSET Item]
            /\ todo'[c] \subseteq ImportItem
<1>1. PICK batch \in Batches[c] :
        IF c \in interrupted
          THEN Exit(c, ImportClass(<<"Canceled">>)) /\ UNCHANGED << todo, followed >>
          ELSE \/ \E e \in PlanErrors(c, batch) :
                    Exit(c, ImportClass(e)) /\ UNCHANGED << todo, followed >>
               \/ /\ PlanErrors(c, batch) = {}
                  /\ Goto(c, "loop")
                  /\ todo' = [todo EXCEPT ![c] = {[src |-> Resolved(pair.src), dst |-> pair.dst] : pair \in batch}]
  BY Zenon DEF ImportPlan
<1>2. CASE c \in interrupted
  BY <1>1, <1>2 DEF Exit, Goto, Classes, Rejected
<1>3. CASE c \notin interrupted /\ \E e \in PlanErrors(c, batch) :
             Exit(c, ImportClass(e)) /\ UNCHANGED << todo, followed >>
  BY <1>3, EarlyFailures DEF Exit, Goto, Classes, PlanErrors, Rejected
<1>4. CASE /\ PlanErrors(c, batch) = {}
           /\ Goto(c, "loop")
           /\ todo' = [todo EXCEPT ![c] = {[src |-> Resolved(pair.src), dst |-> pair.dst] : pair \in batch}]
  <2>1. \A pair \in batch : [src |-> Resolved(pair.src), dst |-> pair.dst] \in ImportItem
    BY <1>4, SoundBatch DEF ImportPlan, TreeInv
  <2>2. {[src |-> Resolved(pair.src), dst |-> pair.dst] : pair \in batch} \subseteq ImportItem
    BY <2>1
  <2> QED BY <1>4, <2>2, ItemKinds DEF Goto, TreeInv, TypeOK
<1> QED BY <1>1, <1>2, <1>3, <1>4

LEMMA RmOutcome ==
  ASSUME TreeInv, NEW c \in Command, SelectRm(c)
  PROVE  \/ Rejected(c)
         \/ /\ pc' = [pc EXCEPT ![c] = "loop"] /\ todo' \in [Command -> SUBSET Item]
            /\ todo'[c] \subseteq ObjectItem
<1>1. PICK f \in Folder \cup OffLimits :
        \/ \E class \in Classes : Exit(c, class) /\ UNCHANGED todo
        \/ /\ Goto(c, "loop")
           /\ todo' = [todo EXCEPT ![c] = [of : Linked({p \in Path : p.dir = f /\ IsLink(p)})]]
  BY DEF SelectRm, Classes
<1>2. [of : Linked({p \in Path : p.dir = f /\ IsLink(p)})] \subseteq ObjectItem
  BY DEF Linked, IsLink, Entry, ObjectItem, TreeInv, TypeOK
<1>3. CASE \E class \in Classes : Exit(c, class) /\ UNCHANGED todo
  BY <1>3 DEF Exit, Goto, Classes, Rejected
<1>4. CASE /\ Goto(c, "loop")
           /\ todo' = [todo EXCEPT ![c] = [of : Linked({p \in Path : p.dir = f /\ IsLink(p)})]]
  BY <1>2, <1>4, ItemKinds DEF Goto, TreeInv, TypeOK
<1> QED BY <1>1, <1>3, <1>4

\* Where a step leaves its command.
LEMMA StepPlaces ==
  ASSUME TreeInv, NEW c \in Command, Step(c) \/ Interrupt(c) \/ Stop(c)
  PROVE  Placed(c)'
<1> USE CommandAssumption, StageIsPlaced, LateFailures, EarlyFailures
    DEF TreeInv, TypeOK, Placed, Goto, Changed, Exit, Command, Evictors
<1> USE DEF Ended, Classes
<1>1. CASE Pick(c)
  <2>0. /\ c \in Adders => FirstStage(c) = "hash"
        /\ c \in Movers => FirstStage(c) = "unlink"
        /\ c \in Evictors => FirstStage(c) = "evict"
    BY DEF FirstStage
  <2>1. CASE c \in Adders BY <1>1, <2>0, <2>1 DEF Pick, AdderPlaced
  <2>2. CASE c \in Movers BY <1>1, <2>0, <2>2 DEF Pick, MoverPlaced
  <2>3. CASE c \in Evictors BY <1>1, <2>0, <2>3 DEF Pick, EvictorPlaced
  <2> QED BY <1>1, <2>1, <2>2, <2>3 DEF Pick
<1>2. CASE ImportPick(c)
  <2>1. \A pair \in todo[c] : pair \in ImportItem /\ hashes[c][pair.src] \in Data \cup {Nothing}
    BY <1>2 DEF ImportPick, ImporterPlaced, ImportItem
  <2> QED BY <1>2, <2>1 DEF ImportPick, ImporterPlaced
<1>3. CASE AddScan(c) BY <1>3 DEF AddScan, MayStart, AdderPlaced
<1>4. CASE AddHash(c) BY <1>4 DEF AddHash, AdderPlaced, IsFile, IsTracked, IsLink, Entry
<1>5. CASE AddStore(c) BY <1>5 DEF AddStore, AdderPlaced
<1>6. CASE AddRemove(c) \/ AddLink(c) BY <1>6 DEF AddRemove, AddLink, AdderPlaced
<1>7. CASE ImportPlan(c)
  <2>1. c \in Importers /\ ImporterPlaced(c)
    BY <1>7 DEF ImportPlan
  <2> QED BY <1>7, <2>1, PlanOutcome DEF ImporterPlaced, Rejected
<1>8. CASE ImportHash(c)
  BY <1>8 DEF ImportHash, ImporterPlaced, SourcesKeepKind, Bytes, ImportItem, File
<1>9. CASE ImportStore(c) BY <1>9 DEF ImportStore, ImporterPlaced
<1>10. CASE ImportPublish(c) \/ ImportTidy(c) BY <1>10 DEF ImportPublish, ImportTidy, ImporterPlaced
<1>11. CASE MvRead(c) BY <1>11 DEF MvRead, MayStart, MoverPlaced, IsTracked, IsLink, Entry, MoveItem
<1>12. CASE MvWrite(c) \/ MvDrop(c) \/ MvRollback(c) BY <1>12 DEF MvWrite, MvDrop, MvRollback, MoverPlaced
<1>13. CASE MvDirScan(c)
  <2>1. c \in Movers /\ MoverPlaced(c)
    BY <1>13 DEF MvDirScan
  <2>2. CASE Rejected(c)
    BY <2>1, <2>2 DEF MoverPlaced, Rejected
  <2>3. CASE \E f \in folders, g \in Folder \ folders : Scanned(c, f, g)
    <3> PICK f \in folders, g \in Folder \ folders : Scanned(c, f, g)
      BY <2>3
    <3> USE DEF Scanned
    <3>1. \A p \in {q \in Path : q.dir = f /\ IsTracked(q)} :
            [at |-> Moved(p, g), of |-> tree[p].of] \in LinkItem
      BY DEF IsTracked, IsLink, LinkItem, Moved, Path, Entry
    <3>2. todo'[c] \subseteq LinkItem
      BY <3>1
    <3>3. \A i \in todo'[c] : i.at.dir = g
      BY DEF Moved
    <3> QED BY <2>1, <3>2, <3>3 DEF MoverPlaced, DirItem
  <2> QED BY <1>13, <2>2, <2>3, DirScanOutcome
<1>14. CASE MvDirRename(c) BY <1>14 DEF MvDirRename, MoverPlaced
<1>15. CASE MvUnlink(c) \/ MvRelink(c) BY <1>15 DEF MvUnlink, MvRelink, MoverPlaced
<1>16. CASE SelectRm(c)
  <2>1. c \in Evictors /\ EvictorPlaced(c)
    BY <1>16 DEF SelectRm
  <2> QED BY <1>16, <2>1, RmOutcome DEF EvictorPlaced, Rejected
<1>17. CASE SelectPrune(c)
  <2>1. [of : cache \ Linked(Path)] \subseteq ObjectItem
    BY DEF ObjectItem
  <2>2. c \in Evictors /\ EvictorPlaced(c)
    BY <1>17 DEF SelectPrune
  <2> HIDE DEF Evictors, Command
  <2>3. todo' = todo \/ todo'[c] \subseteq ObjectItem
    BY <1>17, <2>1 DEF SelectPrune
  <2>4. pc'[c] \in Ended \cup {"loop"}
    BY <1>17 DEF SelectPrune
  <2> QED BY <2>2, <2>3, <2>4, CommandAssumption DEF EvictorPlaced
<1>18. CASE EvictOne(c) BY <1>18 DEF EvictOne, EvictorPlaced
<1>19. CASE Interrupt(c) \/ Stop(c)
  BY <1>19 DEF Interrupt, Stop, Running, AdderPlaced, ImporterPlaced, MoverPlaced, EvictorPlaced
<1> QED BY <1>1, <1>2, <1>3, <1>4, <1>5, <1>6, <1>7, <1>8, <1>9, <1>10, <1>11, <1>12, <1>13, <1>14, <1>15,
           <1>16, <1>17, <1>18, <1>19 DEF Step

LEMMA StageNames ==
  /\ {"idle", "loop", "hash", "store", "remove", "link", "publish", "tidy", "write", "drop", "rollback",
      "rename", "unlink", "relink", "evict", "done", "killed", "usage", "canceled", "integrity", "unavailable"}
       \subseteq Stages
  /\ Classes \subseteq Stages
  BY DEF Stages, Ended, Classes

LEMMA LinksAreEntries == \A d \in Data, p \in Path : Link(d, p) \in Entry
  BY DEF Link, Entry, Path

LEMMA StepKeepsTypes ==
  ASSUME TreeInv, NEW c \in Command, Step(c) \/ Interrupt(c) \/ Stop(c)
  PROVE  TypeOK'
<1> USE StageNames DEF TypeOK, Goto, Changed, Exit, Put
<1> TypeOK
  BY DEF TreeInv
<1>1. CASE Pick(c)
  <2>1. FirstStage(c) \in Stages
    BY <1>1 DEF FirstStage, Pick, Command, Evictors
  <2> QED BY <1>1, <2>1 DEF Pick
<1>2. CASE ImportPick(c)
  <2>1. c \in Importers /\ todo[c] \subseteq ImportItem
    BY <1>2, CommandAssumption DEF ImportPick, TreeInv, Placed, ImporterPlaced
  <2>2. \A pair \in todo[c] : pair \in Item /\ hashes[c][pair.src] \in Data \cup {Nothing}
    BY <2>1, ItemKinds DEF ImportItem
  <2>3. pc' \in [Command -> Stages]
    BY <1>2, LateFailures DEF ImportPick
  <2>4. /\ todo' \in [Command -> SUBSET Item] /\ cur' \in [Command -> Item \cup {Nothing}]
        /\ held' \in [Command -> Data \cup {Nothing}]
    BY <1>2, <2>1, <2>2 DEF ImportPick
  <2>5. wrote' = wrote
    BY <1>2 DEF ImportPick
  <2> QED BY <1>2, <2>3, <2>4, <2>5 DEF ImportPick
<1>3. CASE AddScan(c) BY <1>3, EarlyFailures, ItemKinds DEF AddScan
<1>4. CASE AddHash(c)
  <2>1. cur[c] \in Path
    BY <1>4, StageIsPlaced, CommandAssumption DEF AddHash, Evictors
  <2>2. IsFile(cur[c]) \/ IsLink(cur[c]) => tree[cur[c]].of \in Data
    BY <2>1 DEF IsFile, IsLink, Entry
  <2> QED BY <1>4, <2>1, <2>2, LateFailures DEF AddHash, IsTracked
<1>5. CASE AddStore(c)
  <2>1. held[c] \in Data
    BY <1>5, StageIsPlaced DEF AddStore
  <2> QED BY <1>5, <2>1, LateFailures DEF AddStore
<1>6. CASE AddRemove(c) BY <1>6, LateFailures DEF AddRemove
<1>7. CASE AddLink(c)
  <2>1. Link(held[c], cur[c]) \in Entry
    BY <1>7, StageIsPlaced, LinksAreEntries DEF AddLink
  <2> QED BY <1>7, <2>1, LateFailures DEF AddLink
<1>8. CASE ImportPlan(c)
  <2>1. followed' \in [Importers -> SUBSET DOMAIN LeadsTo]
    <3>1. \A s \in Source : sources[s] = Symlink => s \in DOMAIN LeadsTo
      BY CommandAssumption, NothingAssumption DEF TreeInv, SourcesKeepKind
    <3>2. \A batch \in Batches[c] : {q.src : q \in {r \in batch : sources[r.src] = Symlink}} \subseteq DOMAIN LeadsTo
      BY <1>8, <3>1, CommandAssumption DEF ImportPlan
    <3> QED BY <1>8, <3>2 DEF ImportPlan
  <2>2. pc' \in [Command -> Stages] /\ todo' \in [Command -> SUBSET Item]
    BY <1>8, PlanOutcome DEF Rejected
  <2>3. UNCHANGED << cur, held, hashes, tree, folders, cache, sources, interrupted, forgone, wrote >>
    BY <1>8 DEF ImportPlan
  <2> QED BY <2>1, <2>2, <2>3
<1>9. CASE ImportHash(c)
  <2>1. c \in Importers /\ cur[c] \in ImportItem
    BY <1>9, StageIsPlaced, CommandAssumption DEF ImportHash
  <2>2. Bytes(cur[c].src) \in Data \cup {Nothing}
    BY <2>1, CommandAssumption, NothingAssumption DEF TreeInv, SourcesKeepKind, Bytes, ImportItem, File
  <2> QED BY <1>9, <2>2, LateFailures DEF ImportHash
<1>10. CASE ImportStore(c)
  <2>1. c \in Importers /\ held[c] \in Data /\ cur[c].src \in File
    BY <1>10, StageIsPlaced, CommandAssumption DEF ImportStore, ImportItem
  <2>2. Consumed(c) \in [Source -> Data \cup {Nothing, Symlink}]
    <3>1. sources \in [Source -> Data \cup {Nothing, Symlink}]
      OBVIOUS
    <3> QED BY ONLY <3>1 DEF Consumed
  <2>3. pc' \in [Command -> Stages] /\ wrote' \subseteq Command
    BY <1>10, <2>1, LateFailures DEF ImportStore
  <2>4. cache' \subseteq Data /\ sources' \in [Source -> Data \cup {Nothing, Symlink}]
    BY <1>10, <2>1, <2>2 DEF ImportStore
  <2>5. hashes' \in [Importers -> [File -> Data \cup {Nothing}]]
    <3>1. hashes \in [Importers -> [File -> Data \cup {Nothing}]]
      OBVIOUS
    <3>2. hashes' \in {hashes, [hashes EXCEPT ![c] = [@ EXCEPT ![cur[c].src] = held[c]]]}
      BY <1>10 DEF ImportStore
    <3> QED BY ONLY <2>1, <3>1, <3>2
  <2> QED BY <1>10, <2>3, <2>4, <2>5 DEF ImportStore
<1>11. CASE ImportPublish(c)
  <2>1. cur[c].dst \in Path /\ held[c] \in Data
    BY <1>11, StageIsPlaced DEF ImportPublish, ImportItem
  <2>2. Link(held[c], cur[c].dst) \in Entry /\ cur[c].dst.dir \in Folder
    BY <2>1, LinksAreEntries DEF Path
  <2>3. tree' \in [Path -> Entry \cup {Nothing}] /\ folders' \subseteq Folder
    BY <1>11, <2>1, <2>2 DEF ImportPublish
  <2>4. pc' \in [Command -> Stages] /\ wrote' \subseteq Command
    BY <1>11, LateFailures DEF ImportPublish
  <2> QED BY <1>11, <2>3, <2>4 DEF ImportPublish
<1>12. CASE ImportTidy(c) BY <1>12 DEF ImportTidy
<1>13. CASE MvRead(c)
  <2>1. \A src, dst \in Path : [from |-> src, to |-> dst] \in Item
    BY ItemKinds DEF MoveItem
  <2>2. \A src \in Path : IsTracked(src) => tree[src].of \in Data
    BY DEF IsTracked, IsLink, Entry
  <2>3. cur' \in [Command -> Item \cup {Nothing}] /\ held' \in [Command -> Data \cup {Nothing}]
    BY <1>13, <2>1, <2>2 DEF MvRead
  <2>4. pc' \in [Command -> Stages] /\ wrote' \subseteq Command
    BY <1>13, EarlyFailures DEF MvRead
  <2> QED BY <1>13, <2>3, <2>4 DEF MvRead
<1>14. CASE MvWrite(c)
  <2>1. cur[c].to \in Path /\ held[c] \in Data
    BY <1>14, StageIsPlaced DEF MvWrite, MoveItem
  <2>2. Link(held[c], cur[c].to) \in Entry /\ cur[c].to.dir \in Folder
    BY <2>1, LinksAreEntries DEF Path
  <2>3. tree' \in [Path -> Entry \cup {Nothing}] /\ folders' \subseteq Folder
    BY <1>14, <2>1, <2>2 DEF MvWrite
  <2>4. pc' \in [Command -> Stages] /\ wrote' \subseteq Command
    BY <1>14, LateFailures DEF MvWrite
  <2> QED BY <1>14, <2>3, <2>4 DEF MvWrite
<1>15. CASE MvDrop(c) \/ MvRollback(c)
  BY <1>15, LateFailures DEF MvDrop, MvRollback
<1>16. CASE MvDirScan(c)
  <2>1. todo'[c] \subseteq LinkItem /\ (pc'[c] = "rename" => cur'[c] \in DirItem)
    BY <1>16, StepPlaces, CommandAssumption DEF Step, MvDirScan, Placed, MoverPlaced
  <2>2. todo'[c] \subseteq Item /\ (pc'[c] = "rename" => cur'[c] \in Item)
    BY <2>1, ItemKinds
  <2>3. \/ pc' \in [Command -> Stages] /\ UNCHANGED << todo, cur >>
        \/ /\ pc' = [pc EXCEPT ![c] = "rename"]
           /\ todo' = [todo EXCEPT ![c] = todo'[c]] /\ cur' = [cur EXCEPT ![c] = cur'[c]]
    BY <1>16, DirScanOutcome DEF Rejected, Scanned
  <2>4. /\ pc' \in [Command -> Stages] /\ todo' \in [Command -> SUBSET Item]
        /\ cur' \in [Command -> Item \cup {Nothing}]
    BY <1>16, <2>2, <2>3
  <2> QED BY <1>16, <2>4 DEF MvDirScan
<1>17. CASE MvDirRename(c)
  <2>1. cur[c].from \in Folder /\ cur[c].to \in Folder
    BY <1>17, StageIsPlaced DEF MvDirRename, DirItem
  <2>2. \A p \in Path : Moved(p, cur[c].from) \in Path
    BY <2>1 DEF Moved, Path
  <2> QED BY <1>17, <2>1, <2>2, LateFailures DEF MvDirRename
<1>18. CASE MvUnlink(c)
  <2>1. cur[c].of \in Data
    BY <1>18, StageIsPlaced DEF MvUnlink, LinkItem
  <2> QED BY <1>18, <2>1, LateFailures DEF MvUnlink
<1>19. CASE MvRelink(c)
  <2>1. Link(cur[c].of, cur[c].at) \in Entry
    BY <1>19, StageIsPlaced, LinksAreEntries DEF MvRelink, LinkItem
  <2> QED BY <1>19, <2>1, LateFailures DEF MvRelink
<1>20. CASE SelectRm(c) BY <1>20, RmOutcome DEF SelectRm, Rejected
<1>21. CASE SelectPrune(c)
  <2>1. [of : cache \ Linked(Path)] \subseteq Item
    BY ItemKinds DEF ObjectItem
  <2> QED BY <1>21, <2>1 DEF SelectPrune
<1>22. CASE EvictOne(c)
  <2>1. cur[c].of \in Data
    BY <1>22, StageIsPlaced DEF EvictOne, ObjectItem
  <2> QED BY <1>22, <2>1 DEF EvictOne
<1>23. CASE Interrupt(c) BY <1>23 DEF Interrupt
<1>24. CASE Stop(c) BY <1>24 DEF Stop
<1> QED BY <1>1, <1>2, <1>3, <1>4, <1>5, <1>6, <1>7, <1>8, <1>9, <1>10, <1>11, <1>12, <1>13, <1>14, <1>15,
           <1>16, <1>17, <1>18, <1>19, <1>20, <1>21, <1>22, <1>23, <1>24 DEF Step

-----------------------------------------------------------------------------

LEMMA LinkedAre ==
  \A ps \in SUBSET Path : \A d : d \in Linked(ps) <=> \E p \in ps : IsLink(p) /\ tree[p].of = d
  BY DEF Linked

LEMMA LinkedBecome ==
  \A d : d \in Linked(Path)' <=> \E p \in Path : IsLink(p)' /\ tree'[p].of = d
  BY DEF Linked

\* Commands give objects up, but forget none.
LEMMA KnownGrows ==
  ASSUME TreeInv, NEW c \in Command, Step(c) \/ Interrupt(c) \/ Stop(c)
  PROVE  Known \subseteq Known'
<1> USE DEF Known
<1>1. CASE EvictOne(c)
  <2>1. c \in Removers \/ cur[c].of \notin Linked(Path)
    BY <1>1, StageIsPlaced DEF EvictOne, TreeInv, PruneSpares, Running, Ended, Classes, Evictors
  <2> QED BY <1>1, <2>1 DEF EvictOne
<1>2. CASE AddScan(c) \/ AddHash(c) \/ AddStore(c) \/ AddRemove(c) \/ AddLink(c) \/ Pick(c)
  BY <1>2 DEF AddScan, AddHash, AddStore, AddRemove, AddLink, Pick
<1>3. CASE ImportPick(c) \/ ImportPlan(c) \/ ImportHash(c) \/ ImportStore(c) \/ ImportPublish(c) \/ ImportTidy(c)
  BY <1>3 DEF ImportPick, ImportPlan, ImportHash, ImportStore, ImportPublish, ImportTidy
<1>4. CASE MvRead(c) \/ MvWrite(c) \/ MvDrop(c) \/ MvRollback(c)
  BY <1>4 DEF MvRead, MvWrite, MvDrop, MvRollback
<1>5. CASE MvDirScan(c) \/ MvDirRename(c) \/ MvUnlink(c) \/ MvRelink(c)
  BY <1>5 DEF MvDirScan, MvDirRename, MvUnlink, MvRelink
<1>6. CASE SelectRm(c) \/ SelectPrune(c) \/ Interrupt(c) \/ Stop(c)
  BY <1>6 DEF SelectRm, SelectPrune, Interrupt, Stop
<1> QED BY <1>1, <1>2, <1>3, <1>4, <1>5, <1>6 DEF Step

\* What a command has in hand after a step is known.
LEMMA StepHoldsKnown ==
  ASSUME TreeInv, NEW c \in Command, Step(c) \/ Interrupt(c) \/ Stop(c)
  PROVE  HoldsKnown(c)'
<1> USE LateFailures, EarlyFailures DEF HoldsKnown, Goto, Changed, Exit, Classes
<1> TypeOK /\ HoldsKnown(c) /\ Known \subseteq Known'
  BY KnownGrows DEF TreeInv
<1> USE DEF TypeOK
<1>1. CASE Pick(c)
  <2>1. pc'[c] \notin {"remove", "link", "write", "relink"}
    BY <1>1 DEF Pick, FirstStage, Command, Evictors
  <2>2. /\ todo'[c] \subseteq todo[c]
        /\ cur'[c] \in todo[c] \/ pc'[c] \in {"done", "canceled"}
    BY <1>1 DEF Pick
  <2> QED BY <1>1, <2>1, <2>2 DEF Pick
<1>2. CASE ImportPick(c)
  <2>1. c \in Importers /\ c \notin Adders \cup Movers /\ todo[c] \subseteq ImportItem
    BY <1>2, CommandAssumption DEF ImportPick, TreeInv, Placed, ImporterPlaced
  <2>2. \A pair \in todo[c] : hashes[c][pair.src] \in Known \cup {Nothing}
    BY <2>1 DEF ImportItem
  <2> QED BY <1>2, <2>1, <2>2 DEF ImportPick
<1>3. CASE AddScan(c) \/ AddHash(c) \/ AddStore(c) \/ AddRemove(c) \/ AddLink(c)
  <2>1. c \in Adders /\ c \notin Importers \cup Movers
    BY <1>3, StageIsPlaced, CommandAssumption DEF AddScan, AddHash, AddStore, AddRemove, AddLink
  <2> QED BY <1>3, <2>1 DEF AddScan, AddHash, AddStore, AddRemove, AddLink, Known
<1>4. CASE ImportPlan(c)
  <2>1. c \in Importers /\ c \notin Adders \cup Movers /\ hashes' = hashes
    BY <1>4, CommandAssumption DEF ImportPlan
  <2> QED BY <1>4, <2>1, PlanOutcome DEF Rejected
<1>5. CASE ImportHash(c)
  <2>1. c \in Importers /\ c \notin Adders \cup Movers
    BY <1>5, CommandAssumption DEF ImportHash
  <2> QED BY <1>5, <2>1 DEF ImportHash
<1>6. CASE ImportStore(c)
  <2>1. c \in Importers /\ c \notin Adders \cup Movers /\ cur[c].src \in File
    BY <1>6, StageIsPlaced, CommandAssumption DEF ImportStore, ImportItem
  <2> QED BY <1>6, <2>1 DEF ImportStore, Known
<1>7. CASE ImportPublish(c) \/ ImportTidy(c)
  <2>1. c \in Importers /\ c \notin Adders \cup Movers
    BY <1>7, StageIsPlaced, CommandAssumption DEF ImportPublish, ImportTidy
  <2> QED BY <1>7, <2>1 DEF ImportPublish, ImportTidy
<1>8. CASE MvRead(c) \/ MvWrite(c) \/ MvDrop(c) \/ MvRollback(c) \/ MvDirScan(c) \/ MvDirRename(c) \/ MvUnlink(c) \/ MvRelink(c)
  <2>1. c \in Movers /\ c \notin Adders \cup Importers
    BY <1>8, StageIsPlaced, CommandAssumption
       DEF MvRead, MvWrite, MvDrop, MvRollback, MvDirScan, MvDirRename, MvUnlink, MvRelink
  <2>2. \A p \in Path : IsTracked(p) => tree[p].of \in Known
    BY LinkedAre DEF TreeInv, LinksResolve, IsTracked, Known
  <2>3. CASE MvRead(c)
    BY <2>1, <2>2, <2>3 DEF MvRead
  <2>4. CASE MvDirScan(c)
    <3>1. \A i \in todo'[c] : i.of \in Known
      <4>1. CASE Rejected(c)
        BY <2>1, <4>1 DEF Rejected
      <4>2. CASE \E f \in folders, g \in Folder \ folders : Scanned(c, f, g)
        BY <2>2, <4>2 DEF Scanned
      <4> QED BY <2>4, <4>1, <4>2, DirScanOutcome
    <3> QED BY <2>1, <2>4, <3>1 DEF MvDirScan
  <2>5. CASE MvWrite(c) \/ MvDrop(c) \/ MvRollback(c)
    BY <2>1, <2>5 DEF MvWrite, MvDrop, MvRollback
  <2>6. CASE MvDirRename(c) \/ MvUnlink(c) \/ MvRelink(c)
    BY <2>1, <2>6 DEF MvDirRename, MvUnlink, MvRelink
  <2> QED BY <1>8, <2>3, <2>4, <2>5, <2>6
<1>9. CASE SelectRm(c) \/ SelectPrune(c) \/ EvictOne(c)
  <2>1. c \in Evictors /\ c \notin Adders \cup Importers \cup Movers
    BY <1>9, StageIsPlaced, CommandAssumption DEF SelectRm, SelectPrune, EvictOne, Evictors
  <2> QED BY <1>9, <2>1 DEF SelectRm, SelectPrune, EvictOne
<1>10. CASE Interrupt(c)
  BY <1>10 DEF Interrupt
<1>11. CASE Stop(c)
  BY <1>11 DEF Stop
<1> QED BY <1>1, <1>2, <1>3, <1>4, <1>5, <1>6, <1>7, <1>8, <1>9, <1>10, <1>11 DEF Step

\* Every link a step leaves names what a link named before, or what is known.
LEMMA StepLinksKnown ==
  ASSUME TreeInv, NEW c \in Command, Step(c) \/ Interrupt(c) \/ Stop(c)
  PROVE  \/ tree' = tree
         \/ /\ Running(c) /\ c \notin Evictors
            /\ \A p \in Path : IsLink(p)' => tree'[p].of \in Linked(Path) \cup Known
<1> TypeOK /\ HoldsKnown(c)
  BY DEF TreeInv
<1> USE LinkedAre DEF TypeOK, HoldsKnown, Put, IsLink
<1>1. CASE AddRemove(c) \/ AddLink(c)
  <2>1. c \in Adders /\ c \notin Evictors /\ cur[c] \in Path
    BY <1>1, StageIsPlaced, CommandAssumption DEF AddRemove, AddLink
  <2> QED BY <1>1, <2>1 DEF AddRemove, AddLink, Link, Running, Ended, Classes
<1>2. CASE ImportPublish(c)
  <2>1. c \in Importers /\ c \notin Evictors /\ cur[c].dst \in Path
    BY <1>2, StageIsPlaced, CommandAssumption DEF ImportPublish, ImportItem
  <2> QED BY <1>2, <2>1 DEF ImportPublish, Link, Running, Ended, Classes
<1>3. CASE MvWrite(c) \/ MvDrop(c) \/ MvRollback(c)
  <2>1. c \in Movers /\ c \notin Evictors /\ cur[c].from \in Path /\ cur[c].to \in Path
    BY <1>3, StageIsPlaced, CommandAssumption DEF MvWrite, MvDrop, MvRollback, MoveItem
  <2> QED BY <1>3, <2>1 DEF MvWrite, MvDrop, MvRollback, Link, Running, Ended, Classes
<1>4. CASE MvDirRename(c)
  <2>1. c \in Movers /\ c \notin Evictors /\ cur[c].from \in Folder
    BY <1>4, StageIsPlaced, CommandAssumption DEF MvDirRename, DirItem
  <2>2. \A p \in Path : Moved(p, cur[c].from) \in Path
    BY <2>1 DEF Moved, Path
  <2> QED BY <1>4, <2>1, <2>2 DEF MvDirRename, Running, Ended, Classes
<1>5. CASE MvUnlink(c) \/ MvRelink(c)
  <2>1. c \in Movers /\ c \notin Evictors /\ cur[c].at \in Path
    BY <1>5, StageIsPlaced, CommandAssumption DEF MvUnlink, MvRelink, LinkItem
  <2> QED BY <1>5, <2>1 DEF MvUnlink, MvRelink, Link, Running, Ended, Classes
<1>6. CASE Pick(c) \/ ImportPick(c) \/ AddScan(c) \/ AddHash(c) \/ AddStore(c)
  BY <1>6 DEF Pick, ImportPick, AddScan, AddHash, AddStore
<1>7. CASE ImportPlan(c) \/ ImportHash(c) \/ ImportStore(c) \/ ImportTidy(c) \/ MvRead(c) \/ MvDirScan(c)
  BY <1>7 DEF ImportPlan, ImportHash, ImportStore, ImportTidy, MvRead, MvDirScan
<1>8. CASE SelectRm(c) \/ SelectPrune(c) \/ EvictOne(c) \/ Interrupt(c) \/ Stop(c)
  BY <1>8 DEF SelectRm, SelectPrune, EvictOne, Interrupt, Stop
<1> QED BY <1>1, <1>2, <1>3, <1>4, <1>5, <1>6, <1>7, <1>8 DEF Step

\* No link is left without an object: what a link named is known, and stays so.
LEMMA StepResolves ==
  ASSUME TreeInv, NEW c \in Command, Step(c) \/ Interrupt(c) \/ Stop(c)
  PROVE  LinksResolve'
<1>1. Known \subseteq Known' /\ Linked(Path) \subseteq Known
  BY KnownGrows DEF TreeInv, LinksResolve, Known
<1>2. Linked(Path)' \subseteq Linked(Path) \cup Known
  BY LinkedAre, LinkedBecome, StepLinksKnown DEF IsLink
<1> QED BY <1>1, <1>2 DEF LinksResolve, Known

\* A command that takes a step runs, or may start.
LEMMA StepRuns ==
  ASSUME TypeOK, NEW c \in Command, Step(c) \/ Interrupt(c) \/ Stop(c)
  PROVE  Running(c) \/ MayStart(c) \/ pc' = pc
<1> USE DEF Running, Ended, Classes
<1>1. CASE AddHash(c) \/ AddStore(c) \/ AddRemove(c) \/ AddLink(c) \/ Pick(c)
  BY <1>1 DEF AddHash, AddStore, AddRemove, AddLink, Pick
<1>2. CASE ImportPick(c) \/ ImportHash(c) \/ ImportStore(c) \/ ImportPublish(c) \/ ImportTidy(c)
  BY <1>2 DEF ImportPick, ImportHash, ImportStore, ImportPublish, ImportTidy
<1>3. CASE MvWrite(c) \/ MvDrop(c) \/ MvRollback(c) \/ MvDirRename(c) \/ MvUnlink(c) \/ MvRelink(c)
  BY <1>3 DEF MvWrite, MvDrop, MvRollback, MvDirRename, MvUnlink, MvRelink
<1>4. CASE EvictOne(c) \/ Interrupt(c) \/ Stop(c)
  BY <1>4 DEF EvictOne, Interrupt, Stop
<1>5. CASE AddScan(c) \/ ImportPlan(c) \/ MvRead(c) \/ MvDirScan(c) \/ SelectRm(c) \/ SelectPrune(c)
  BY <1>5 DEF AddScan, ImportPlan, MvRead, MvDirScan, SelectRm, SelectPrune
<1> QED BY <1>1, <1>2, <1>3, <1>4, <1>5 DEF Step

\* A step of a command takes it somewhere else; an interrupt does not.
LEMMA StepMoves ==
  ASSUME TypeOK, NEW c \in Command, Step(c) \/ Stop(c)
  PROVE  pc'[c] # pc[c]
<1> USE LateFailures, EarlyFailures DEF TypeOK, Goto, Changed, Exit, Classes, Ended
<1>1. CASE AddHash(c) \/ AddStore(c) \/ AddRemove(c) \/ AddLink(c)
  BY <1>1 DEF AddHash, AddStore, AddRemove, AddLink
<1>2. CASE Pick(c)
  <2>1. FirstStage(c) # "loop"
    BY <1>2 DEF FirstStage, Pick, Command, Evictors
  <2> QED BY <1>2, <2>1 DEF Pick
<1>3. CASE ImportPick(c) \/ ImportHash(c) \/ ImportStore(c) \/ ImportPublish(c) \/ ImportTidy(c)
  BY <1>3 DEF ImportPick, ImportHash, ImportStore, ImportPublish, ImportTidy
<1>4. CASE MvWrite(c) \/ MvDrop(c) \/ MvRollback(c) \/ MvDirRename(c) \/ MvUnlink(c) \/ MvRelink(c)
  BY <1>4 DEF MvWrite, MvDrop, MvRollback, MvDirRename, MvUnlink, MvRelink
<1>5. CASE AddScan(c) \/ MvRead(c) \/ MvDirScan(c) \/ SelectRm(c) \/ SelectPrune(c)
  BY <1>5 DEF AddScan, MvRead, MvDirScan, SelectRm, SelectPrune, MayStart
<1>6. CASE ImportPlan(c)
  BY <1>6 DEF ImportPlan, MayStart, PlanErrors
<1>7. CASE EvictOne(c)
  BY <1>7 DEF EvictOne
<1>8. CASE Stop(c)
  BY <1>8 DEF Stop, Running
<1> QED BY <1>1, <1>2, <1>3, <1>4, <1>5, <1>6, <1>7, <1>8 DEF Step

\* An eviction starts when nothing runs, and nothing starts beside it.
LEMMA StepKeepsEvictorsAlone ==
  ASSUME TreeInv, NEW c \in Command, Step(c) \/ Interrupt(c) \/ Stop(c)
  PROVE  EvictorsAlone'
<1> SUFFICES ASSUME NEW e \in Evictors, NEW d \in Command, Running(e)', Running(d)', e # d PROVE FALSE
  BY DEF EvictorsAlone
<1>1. TypeOK /\ EvictorsAlone /\ Evictors \subseteq Command
  BY DEF TreeInv, Command, Evictors
<1>2. \A x \in Command \ {c} : Running(x)' => Running(x)
  BY <1>1, StepIsFramed DEF Framed, Running
<1>3. CASE c \notin {e, d} \/ Running(c)
  BY <1>1, <1>2, <1>3 DEF EvictorsAlone
<1>4. CASE c \in {e, d} /\ MayStart(c)
  BY <1>1, <1>2, <1>4 DEF MayStart
<1>5. CASE pc' = pc
  BY <1>1, <1>5 DEF EvictorsAlone, Running
<1> QED BY <1>1, <1>3, <1>4, <1>5, StepRuns

\* What prune has selected no link names, and none comes to while it runs alone.
LEMMA StepSparesLinks ==
  ASSUME TreeInv, NEW c \in Command, Step(c) \/ Interrupt(c) \/ Stop(c), NEW d \in Command
  PROVE  PruneSpares(d)'
<1> SUFFICES ASSUME d \in Pruners, Running(d)'
             PROVE  /\ \A i \in todo'[d] : i.of \notin Linked(Path)'
                    /\ pc'[d] = "evict" => cur'[d].of \notin Linked(Path)'
  BY DEF PruneSpares
<1>1. TypeOK /\ PruneSpares(d) /\ d \in Evictors
  BY DEF TreeInv, Evictors
<1>2. CASE d # c
  <2>1. /\ todo'[d] = todo[d] /\ pc'[d] = pc[d] /\ cur'[d] = cur[d]
        /\ Running(d)
    BY <1>1, <1>2, StepIsFramed DEF Framed, Running
  <2>2. tree' = tree
    BY <1>1, <1>2, <2>1, StepLinksKnown DEF TreeInv, EvictorsAlone
  <2>3. Linked(Path)' = Linked(Path)
    BY <2>2 DEF Linked, IsLink
  <2> QED BY <1>1, <2>1, <2>3 DEF PruneSpares
<1>3. CASE d = c
  <2>1. tree' = tree
    BY <1>1, <1>3, StepLinksKnown
  <2>2. Linked(Path)' = Linked(Path)
    BY <2>1 DEF Linked, IsLink
  <2>3. c \notin Adders \cup Importers \cup Movers \cup Removers
    BY <1>1, <1>3, CommandAssumption
  <2> USE DEF Running, Ended, Classes
  <2>4. CASE Pick(c)
    <3>1. Running(c) /\ todo'[c] \subseteq todo[c] /\ (pc'[c] = "evict" => cur'[c] \in todo[c])
      BY <1>1, <1>3, <2>3, <2>4 DEF TypeOK, Pick, Goto, Exit, FirstStage
    <3> QED BY <1>1, <1>3, <2>2, <3>1 DEF PruneSpares
  <2>5. CASE SelectPrune(c)
    <3>1. pc'[c] = "loop" /\ todo'[c] = [of : cache \ Linked(Path)]
      BY <1>1, <1>3, <2>5 DEF TypeOK, SelectPrune, Goto, Exit
    <3> QED BY <1>3, <2>2, <3>1
  <2>6. CASE EvictOne(c)
    BY <1>1, <1>3, <2>2, <2>6 DEF TypeOK, EvictOne, Changed, PruneSpares
  <2>7. CASE Interrupt(c)
    BY <1>1, <1>3, <2>2, <2>7 DEF TypeOK, Interrupt, PruneSpares
  <2>8. CASE Stop(c)
    BY <1>1, <1>3, <2>2, <2>8 DEF TypeOK, Stop, Exit, Goto
  <2>9. ~(AddScan(c) \/ AddHash(c) \/ AddStore(c) \/ AddRemove(c) \/ AddLink(c) \/ SelectRm(c))
    BY <1>1, <2>3, StageIsPlaced DEF AddScan, AddHash, AddStore, AddRemove, AddLink, SelectRm
  <2>10. ~(ImportPick(c) \/ ImportPlan(c) \/ ImportHash(c) \/ ImportStore(c) \/ ImportPublish(c) \/ ImportTidy(c))
    BY <1>1, <2>3, StageIsPlaced DEF ImportPick, ImportPlan, ImportHash, ImportStore, ImportPublish, ImportTidy
  <2>11. ~(\/ MvRead(c) \/ MvWrite(c) \/ MvDrop(c) \/ MvRollback(c)
           \/ MvDirScan(c) \/ MvDirRename(c) \/ MvUnlink(c) \/ MvRelink(c))
    BY <1>1, <2>3, StageIsPlaced
       DEF MvRead, MvWrite, MvDrop, MvRollback, MvDirScan, MvDirRename, MvUnlink, MvRelink
  <2> QED BY <2>4, <2>5, <2>6, <2>7, <2>8, <2>9, <2>10, <2>11 DEF Step
<1> QED BY <1>2, <1>3

\* A rejection comes before the first change.
LEMMA StepChangesNothingEarly ==
  ASSUME TreeInv, NEW c \in Command, Step(c) \/ Interrupt(c) \/ Stop(c)
  PROVE  UnbegunChangesNothing'
<1>1. TypeOK /\ UnbegunChangesNothing /\ Framed(c)
  BY StepIsFramed DEF TreeInv
<1>2. pc'[c] \in {"idle", "usage"} => c \notin wrote'
  <2> USE <1>1, LateFailures DEF TypeOK, UnbegunChangesNothing, Goto, Changed, Exit
  <2>1. CASE Pick(c) \/ AddHash(c) \/ AddStore(c) \/ AddRemove(c) \/ AddLink(c)
    <3>1. FirstStage(c) \notin {"idle", "usage"} \/ c \in Importers
      BY DEF FirstStage, Command, Evictors
    <3> QED BY <2>1, <3>1 DEF Pick, AddHash, AddStore, AddRemove, AddLink
  <2>2. CASE ImportPick(c) \/ ImportHash(c) \/ ImportStore(c) \/ ImportPublish(c) \/ ImportTidy(c)
    BY <2>2 DEF ImportPick, ImportHash, ImportStore, ImportPublish, ImportTidy
  <2>3. CASE MvWrite(c) \/ MvDrop(c) \/ MvRollback(c) \/ MvDirRename(c) \/ MvUnlink(c) \/ MvRelink(c)
    BY <2>3 DEF MvWrite, MvDrop, MvRollback, MvDirRename, MvUnlink, MvRelink
  <2>4. CASE EvictOne(c) \/ Interrupt(c) \/ Stop(c)
    BY <2>4 DEF EvictOne, Interrupt, Stop
  <2>5. CASE AddScan(c) \/ ImportPlan(c) \/ MvRead(c) \/ MvDirScan(c) \/ SelectRm(c) \/ SelectPrune(c)
    BY <2>5 DEF AddScan, ImportPlan, MvRead, MvDirScan, SelectRm, SelectPrune, MayStart
  <2> QED BY <2>1, <2>2, <2>3, <2>4, <2>5 DEF Step
<1> QED BY <1>1, <1>2 DEF UnbegunChangesNothing, Framed

LEMMA StepKeepsSources ==
  ASSUME TreeInv, NEW c \in Command, Step(c) \/ Interrupt(c) \/ Stop(c)
  PROVE  SourcesKeepKind'
<1> USE DEF TreeInv, TypeOK, SourcesKeepKind
<1>1. CASE ImportStore(c)
  <2>1. cur[c].src \in Source => cur[c].src \notin DOMAIN LeadsTo
    BY <1>1, StageIsPlaced, CommandAssumption DEF ImportStore, ImportItem
  <2> QED BY <1>1, <2>1 DEF ImportStore, Consumed
<1>2. CASE ImportTidy(c)
  BY <1>2 DEF ImportTidy
<1>3. CASE AddScan(c) \/ AddHash(c) \/ AddStore(c) \/ AddRemove(c) \/ AddLink(c) \/ Pick(c)
  BY <1>3 DEF AddScan, AddHash, AddStore, AddRemove, AddLink, Pick
<1>4. CASE ImportPick(c) \/ ImportPlan(c) \/ ImportHash(c) \/ ImportPublish(c)
  BY <1>4 DEF ImportPick, ImportPlan, ImportHash, ImportPublish
<1>5. CASE MvRead(c) \/ MvWrite(c) \/ MvDrop(c) \/ MvRollback(c)
  BY <1>5 DEF MvRead, MvWrite, MvDrop, MvRollback
<1>6. CASE MvDirScan(c) \/ MvDirRename(c) \/ MvUnlink(c) \/ MvRelink(c)
  BY <1>6 DEF MvDirScan, MvDirRename, MvUnlink, MvRelink
<1>7. CASE SelectRm(c) \/ SelectPrune(c) \/ EvictOne(c) \/ Interrupt(c) \/ Stop(c)
  BY <1>7 DEF SelectRm, SelectPrune, EvictOne, Interrupt, Stop
<1> QED BY <1>1, <1>2, <1>3, <1>4, <1>5, <1>6, <1>7 DEF Step

LEMMA TreeInvIsKept == TreeInv /\ [Next]_vars => TreeInv'
<1> SUFFICES ASSUME TreeInv, [Next]_vars PROVE TreeInv'
  OBVIOUS
<1>1. ASSUME NEW c \in Command, Step(c) \/ Interrupt(c) \/ Stop(c) PROVE TreeInv'
  <2>1. TypeOK' /\ Framed(c) /\ Known \subseteq Known'
    BY <1>1, StepKeepsTypes, StepIsFramed, KnownGrows DEF TreeInv
  <2>2. \A d \in Command : Placed(d)'
    <3> SUFFICES ASSUME NEW d \in Command PROVE Placed(d)'
      OBVIOUS
    <3>1. CASE d = c
      BY <1>1, <3>1, StepPlaces
    <3>2. CASE d # c
      BY <2>1, <3>2 DEF Framed, TreeInv, Placed, AdderPlaced, ImporterPlaced, MoverPlaced, EvictorPlaced
    <3> QED BY <3>1, <3>2
  <2>3. \A d \in Command : HoldsKnown(d)'
    <3> SUFFICES ASSUME NEW d \in Command PROVE HoldsKnown(d)'
      OBVIOUS
    <3>1. CASE d = c
      BY <1>1, <3>1, StepHoldsKnown
    <3>2. CASE d # c
      BY <2>1, <3>2 DEF Framed, TreeInv, HoldsKnown
    <3> QED BY <3>1, <3>2
  <2> QED BY <1>1, <2>1, <2>2, <2>3, StepSparesLinks, StepKeepsSources, StepKeepsEvictorsAlone,
             StepChangesNothingEarly, StepResolves DEF TreeInv
<1>2. CASE UNCHANGED vars
  <2> USE <1>2 DEF vars, TreeInv
  <2>1. TypeOK' /\ SourcesKeepKind'
    BY DEF TypeOK, SourcesKeepKind
  <2>2. \A c \in Command : Placed(c)' /\ HoldsKnown(c)' /\ PruneSpares(c)'
    BY DEF Placed, AdderPlaced, ImporterPlaced, MoverPlaced, EvictorPlaced, HoldsKnown, Known, PruneSpares,
       Running, Linked, IsLink
  <2>3. EvictorsAlone' /\ UnbegunChangesNothing' /\ LinksResolve'
    BY DEF EvictorsAlone, Running, UnbegunChangesNothing, LinksResolve, Linked, IsLink
  <2> QED BY <2>1, <2>2, <2>3
<1> QED BY <1>1, <1>2 DEF Next

\* What is reachable has the types it is declared with.
THEOREM TypeCorrect == Spec => []TypeOK
<1>1. TreeInv => TypeOK
  BY DEF TreeInv
<1> QED BY InitEstablishes, TreeInvIsKept, <1>1, PTL DEF Spec

\* Whatever commands run together, are interrupted, fail and are killed, no link is left without
\* its object, unless rm has evicted it or it was missing to begin with.
THEOREM NoDanglingLink == Spec => []LinksResolve
<1>1. TreeInv => LinksResolve
  BY DEF TreeInv
<1> QED BY InitEstablishes, TreeInvIsKept, <1>1, PTL DEF Spec

\* A command that is rejected for its arguments has changed nothing.
THEOREM RejectionIsEarly == Spec => []RejectedChangesNothing
<1>1. TreeInv => RejectedChangesNothing
  BY DEF TreeInv, UnbegunChangesNothing, RejectedChangesNothing
<1> QED BY InitEstablishes, TreeInvIsKept, <1>1, PTL DEF Spec

-----------------------------------------------------------------------------

\* The paths that a command has looked at and is to change without another look.
Places(c) ==
  IF c \in Adders /\ pc[c] \in {"store", "remove"} THEN {cur[c]}
  ELSE IF c \notin Movers THEN {}
  ELSE IF pc[c] = "write" THEN {cur[c].from}
  ELSE IF pc[c] \in {"drop", "rollback"} THEN {cur[c].from, cur[c].to}
  ELSE IF pc[c] = "rename" THEN {Moved(i.at, cur[c].from) : i \in todo[c]}
  ELSE IF pc[c] = "unlink" THEN {i.at : i \in todo[c] \cup {cur[c]}}
  ELSE IF pc[c] \in {"loop", "relink"} THEN {i.at : i \in todo[c]}
  ELSE {}

\* No other command brings a file to a path that a command is working on.
NoFileIntrudes ==
  \A c \in Command : \A p \in Places(c) : pc'[c] = pc[c] => tree'[p] = tree[p] \/ ~IsFile(p)'

\* No other command changes a path that mv is working on.
MoversUndisturbed ==
  \A c \in Movers : \A p \in Places(c) : pc'[c] = pc[c] => tree'[p] = tree[p]

\* A source that is being cached is what it was hashed as, or gone.
SourceIsHashed(c) ==
  c \in Importers /\ pc[c] = "store" /\ cur[c].src \in Source => sources[cur[c].src] \in {held[c], Nothing}

\* The one file that a command may remove is the one that add has hashed.
FilesAreHashed(c) == \A p \in Places(c) : IsFile(p) => c \in Adders /\ tree[p].of = held[c]

BytesInv ==
  /\ \A c \in Command : SourceIsHashed(c) /\ FilesAreHashed(c)
  /\ BytesKept

\* Nothing that was outside is brought back or changed.
LEMMA SourcesOnlyGo ==
  ASSUME TypeOK, NEW c \in Command, Step(c) \/ Interrupt(c) \/ Stop(c), NEW s \in Source
  PROVE  sources'[s] \in {sources[s], Nothing}
<1>1. CASE ImportStore(c)
  BY <1>1 DEF TypeOK, ImportStore, Consumed
<1>2. CASE ImportTidy(c)
  BY <1>2 DEF ImportTidy
<1>3. CASE AddScan(c) \/ AddHash(c) \/ AddStore(c) \/ AddRemove(c) \/ AddLink(c) \/ Pick(c)
  BY <1>3 DEF AddScan, AddHash, AddStore, AddRemove, AddLink, Pick
<1>4. CASE ImportPick(c) \/ ImportPlan(c) \/ ImportHash(c) \/ ImportPublish(c)
  BY <1>4 DEF ImportPick, ImportPlan, ImportHash, ImportPublish
<1>5. CASE MvRead(c) \/ MvWrite(c) \/ MvDrop(c) \/ MvRollback(c)
  BY <1>5 DEF MvRead, MvWrite, MvDrop, MvRollback
<1>6. CASE MvDirScan(c) \/ MvDirRename(c) \/ MvUnlink(c) \/ MvRelink(c)
  BY <1>6 DEF MvDirScan, MvDirRename, MvUnlink, MvRelink
<1>7. CASE SelectRm(c) \/ SelectPrune(c) \/ EvictOne(c) \/ Interrupt(c) \/ Stop(c)
  BY <1>7 DEF SelectRm, SelectPrune, EvictOne, Interrupt, Stop
<1> QED BY <1>1, <1>2, <1>3, <1>4, <1>5, <1>6, <1>7 DEF Step

LEMMA StepKeepsSourceHash ==
  ASSUME TreeInv, NEW c \in Command, Step(c) \/ Interrupt(c) \/ Stop(c), NEW d \in Command, SourceIsHashed(d)
  PROVE  SourceIsHashed(d)'
<1> SUFFICES ASSUME d \in Importers, pc'[d] = "store", cur'[d].src \in Source
             PROVE  sources'[cur'[d].src] \in {held'[d], Nothing}
  BY DEF SourceIsHashed
<1>1. TypeOK
  BY DEF TreeInv
<1>2. CASE pc'[d] = pc[d] /\ cur'[d] = cur[d] /\ held'[d] = held[d]
  BY <1>2, SourcesOnlyGo, <1>1 DEF SourceIsHashed
<1>3. CASE d = c /\ pc'[d] # pc[d]
  <2> USE <1>1, <1>3 DEF TypeOK
  <2>1. c \notin Adders \cup Movers \cup Evictors
    BY CommandAssumption
  <2>2. CASE ImportHash(c)
    BY <2>2 DEF ImportHash, Goto, Exit, Bytes
  <2>3. ~(ImportPick(c) \/ ImportPlan(c) \/ ImportStore(c) \/ ImportPublish(c) \/ ImportTidy(c))
    BY LateFailures, PlanOutcome
       DEF Rejected, ImportPick, ImportPlan, ImportStore, ImportPublish, ImportTidy, Goto, Changed, Exit, Classes
  <2>4. ~(AddScan(c) \/ AddHash(c) \/ AddStore(c) \/ AddRemove(c) \/ AddLink(c) \/ Pick(c) \/ Interrupt(c) \/ Stop(c))
    BY <2>1, StageIsPlaced DEF AddScan, AddHash, AddStore, AddRemove, AddLink, Pick, Interrupt, Stop, Goto, Exit
  <2>5. ~(\/ MvRead(c) \/ MvWrite(c) \/ MvDrop(c) \/ MvRollback(c)
          \/ MvDirScan(c) \/ MvDirRename(c) \/ MvUnlink(c) \/ MvRelink(c))
    BY <2>1, StageIsPlaced DEF MvRead, MvWrite, MvDrop, MvRollback, MvDirScan, MvDirRename, MvUnlink, MvRelink
  <2>6. ~(SelectRm(c) \/ SelectPrune(c) \/ EvictOne(c))
    BY <2>1, StageIsPlaced DEF SelectRm, SelectPrune, EvictOne, Evictors
  <2> QED BY <2>2, <2>3, <2>4, <2>5, <2>6 DEF Step
<1>4. CASE d = c /\ pc'[d] = pc[d]
  BY <1>1, <1>2, <1>4, StepMoves DEF Interrupt
<1>5. CASE d # c
  BY <1>1, <1>2, <1>5, StepIsFramed DEF Framed
<1> QED BY <1>3, <1>4, <1>5

\* What a command works on next is no file, but the one that add has hashed.
LEMMA StepKeepsFilesHashed ==
  ASSUME TreeInv, NEW c \in Command, Step(c) \/ Interrupt(c) \/ Stop(c), NoFileIntrudes,
         NEW d \in Command, FilesAreHashed(d)
  PROVE  FilesAreHashed(d)'
<1> SUFFICES ASSUME NEW p, p \in Places(d)', IsFile(p)'
             PROVE  d \in Adders /\ tree'[p].of = held'[d]
  BY DEF FilesAreHashed
<1>1. TypeOK /\ Framed(c)
  BY StepIsFramed DEF TreeInv
<1>2. CASE pc'[d] = pc[d]
  <2>1. todo'[d] = todo[d] /\ cur'[d] = cur[d] /\ held'[d] = held[d]
    BY <1>1, <1>2, StepMoves DEF Framed, Interrupt
  <2>2. p \in Places(d)
    BY <1>2, <2>1 DEF Places
  <2>3. tree'[p] = tree[p] /\ IsFile(p)
    BY <1>2, <2>2 DEF NoFileIntrudes, IsFile
  <2> QED BY <2>1, <2>2, <2>3 DEF FilesAreHashed
<1>3. CASE pc'[d] # pc[d]
  <2>1. d = c
    BY <1>1, <1>3 DEF Framed
  <2>2. CASE c \in Adders
    <3>1. cur'[c] = p /\ pc'[c] \in {"store", "remove"} /\ c \notin Importers \cup Movers \cup Evictors
      BY <2>1, <2>2, CommandAssumption DEF Places
    <3>2. CASE AddHash(c)
      BY <1>1, <2>1, <2>2, <3>1, <3>2 DEF AddHash, TypeOK, Goto, Exit, IsFile
    <3>3. CASE AddStore(c)
      BY <1>1, <2>1, <2>2, <3>1, <3>3 DEF AddStore, IsFile, FilesAreHashed, Places
    <3>4. ~(AddScan(c) \/ AddRemove(c) \/ AddLink(c) \/ Pick(c) \/ Stop(c) \/ Interrupt(c))
      BY <1>1, <1>3, <2>1, <2>2, <3>1, LateFailures, EarlyFailures
         DEF AddScan, AddRemove, AddLink, Pick, FirstStage, Stop, Interrupt, TypeOK, Goto, Changed, Exit, Classes
    <3>5. ~(ImportPick(c) \/ ImportPlan(c) \/ ImportHash(c) \/ ImportStore(c) \/ ImportPublish(c) \/ ImportTidy(c))
      BY <3>1, StageIsPlaced DEF ImportPick, ImportPlan, ImportHash, ImportStore, ImportPublish, ImportTidy
    <3>6. ~(\/ MvRead(c) \/ MvWrite(c) \/ MvDrop(c) \/ MvRollback(c)
            \/ MvDirScan(c) \/ MvDirRename(c) \/ MvUnlink(c) \/ MvRelink(c))
      BY <3>1, StageIsPlaced DEF MvRead, MvWrite, MvDrop, MvRollback, MvDirScan, MvDirRename, MvUnlink, MvRelink
    <3>7. ~(SelectRm(c) \/ SelectPrune(c) \/ EvictOne(c))
      BY <3>1, StageIsPlaced DEF SelectRm, SelectPrune, EvictOne, Evictors
    <3> QED BY <3>2, <3>3, <3>4, <3>5, <3>6, <3>7 DEF Step
  <2>3. CASE c \notin Adders
    <3>1. c \in Movers /\ c \notin Adders \cup Importers \cup Evictors
      BY <2>1, <2>3, CommandAssumption DEF Places
    <3>2. \A q \in Places(c) : ~IsFile(q)
      BY <2>1, <2>3 DEF FilesAreHashed
    <3> SUFFICES ~IsFile(p)'
      OBVIOUS
    <3>3. CASE Pick(c)
      BY <1>1, <2>1, <3>1, <3>2, <3>3 DEF Pick, FirstStage, TypeOK, Goto, Exit, Places, IsFile
    <3>4. CASE MvRead(c)
      BY <1>1, <2>1, <3>1, <3>4, EarlyFailures DEF MvRead, TypeOK, Goto, Exit, Places, IsFile, IsTracked, IsLink, Classes
    <3>5. CASE MvWrite(c)
      <4>1. cur[c].from \in Path /\ cur[c].to \in Path
        BY <3>5, StageIsPlaced DEF MvWrite, MoveItem
      <4> QED BY <1>1, <2>1, <3>1, <3>2, <3>5, <4>1, LateFailures
              DEF MvWrite, TypeOK, Put, Goto, Changed, Exit, Places, IsFile, Link
    <3>6. CASE MvDrop(c) \/ MvRollback(c)
      BY <1>1, <2>1, <3>1, <3>2, <3>6, LateFailures DEF MvDrop, MvRollback, TypeOK, Goto, Exit, Places, IsFile
    <3>7. CASE MvDirScan(c)
      <4>1. PICK f \in folders, g \in Folder \ folders : Scanned(c, f, g)
        BY <1>1, <2>1, <3>1, <3>7, DirScanOutcome DEF TypeOK, Rejected, Places, Classes
      <4>2. \A q \in Path : q.dir = f => Moved(Moved(q, g), f) = q
        BY DEF Moved, Path
      <4>3. pc'[c] = "rename" /\ cur'[c].from = f
        BY <1>1, <4>1 DEF Scanned, TypeOK
      <4>4. PICK i \in todo'[c] : p = Moved(i.at, f)
        BY <2>1, <3>1, <4>3 DEF Places
      <4>5. IsTracked(p)
        BY <1>1, <4>1, <4>2, <4>4 DEF Scanned, TypeOK
      <4>6. tree' = tree
        BY <3>7 DEF MvDirScan
      <4> QED BY <4>5, <4>6 DEF IsTracked, IsLink, IsFile
    <3>8. CASE MvDirRename(c)
      <4>1. /\ cur[c].from \in Folder /\ cur[c].from # cur[c].to
            /\ \A i \in todo[c] : i.at \in Path /\ i.at.dir = cur[c].to
        BY <3>1, <3>8, StageIsPlaced DEF MvDirRename, DirItem, TreeInv, Placed, MoverPlaced, LinkItem
      <4>2. pc'[c] = "loop" /\ todo'[c] = todo[c]
        BY <1>1, <2>1, <3>1, <3>8, LateFailures DEF MvDirRename, TypeOK, Changed, Goto, Exit, Places
      <4>3. PICK i \in todo[c] : p = i.at
        BY <2>1, <3>1, <4>2 DEF Places
      <4>4. tree'[p] = tree[Moved(i.at, cur[c].from)]
        BY <1>1, <3>8, <4>1, <4>2, <4>3, LateFailures DEF MvDirRename, TypeOK, Exit, Goto
      <4>5. ~IsFile(Moved(i.at, cur[c].from))
        BY <3>1, <3>2, <3>8 DEF MvDirRename, Places
      <4> QED BY <4>4, <4>5 DEF IsFile
    <3>9. CASE MvUnlink(c) \/ MvRelink(c)
      <4>1. cur[c].at \in Path
        BY <3>9, StageIsPlaced DEF MvUnlink, MvRelink, LinkItem
      <4>2. p \in Places(c) /\ p \in {i.at : i \in todo[c]}
        BY <1>1, <2>1, <3>1, <3>9, LateFailures
           DEF MvUnlink, MvRelink, TypeOK, Goto, Changed, Exit, Places
      <4> p \in Path
        BY <3>1, <4>2 DEF TreeInv, Placed, MoverPlaced, LinkItem
      <4>3. /\ p # cur[c].at => tree'[p] = tree[p]
            /\ tree'[cur[c].at] \in {tree[cur[c].at], Nothing, Link(cur[c].of, cur[c].at)}
        BY <1>1, <3>9, <4>1 DEF MvUnlink, MvRelink, TypeOK, Put
      <4>4. CASE p = cur[c].at /\ tree'[p] # tree[p]
        BY <4>3, <4>4 DEF IsFile, Link
      <4> QED BY <3>2, <4>2, <4>3, <4>4 DEF IsFile
    <3>10. ~(AddScan(c) \/ AddHash(c) \/ AddStore(c) \/ AddRemove(c) \/ AddLink(c) \/ Interrupt(c) \/ Stop(c))
      BY <1>1, <1>3, <2>1, <3>1, StageIsPlaced
         DEF AddScan, AddHash, AddStore, AddRemove, AddLink, Interrupt, Stop, TypeOK, Goto, Exit, Places
    <3>11. ~(ImportPick(c) \/ ImportPlan(c) \/ ImportHash(c) \/ ImportStore(c) \/ ImportPublish(c) \/ ImportTidy(c))
      BY <3>1, StageIsPlaced DEF ImportPick, ImportPlan, ImportHash, ImportStore, ImportPublish, ImportTidy
    <3>12. ~(SelectRm(c) \/ SelectPrune(c) \/ EvictOne(c))
      BY <3>1, StageIsPlaced DEF SelectRm, SelectPrune, EvictOne, Evictors
    <3> QED BY <3>3, <3>4, <3>5, <3>6, <3>7, <3>8, <3>9, <3>10, <3>11, <3>12 DEF Step
  <2> QED BY <2>2, <2>3
<1> QED BY <1>2, <1>3

\* What a source held is in the cache before --move takes it away.
LEMMA StepKeepsSourceBytes ==
  ASSUME TreeInv, NEW c \in Command, SourceIsHashed(c), Step(c) \/ Interrupt(c) \/ Stop(c),
         NEW s \in Source, sources[s] \in Data
  PROVE  sources'[s] = sources[s] \/ sources[s] \in Known'
<1>1. TypeOK /\ Known \subseteq Known' /\ Nothing \notin Data /\ Symlink \notin Data
  BY KnownGrows, CommandAssumption, NothingAssumption DEF TreeInv, File
<1>2. CASE ImportStore(c)
  <2>1. held[c] \in cache' \/ sources' = sources
    BY <1>2 DEF ImportStore
  <2>2. sources'[s] = sources[s] \/ (s = cur[c].src /\ c \in Importers /\ pc[c] = "store")
    BY <1>1, <1>2 DEF ImportStore, Consumed, TypeOK
  <2> QED BY <1>1, <2>1, <2>2 DEF SourceIsHashed, Known
<1>3. CASE ImportTidy(c)
  <2>1. s \notin DOMAIN LeadsTo
    BY <1>1 DEF TreeInv, SourcesKeepKind
  <2>2. c \in Importers
    BY <1>3, StageIsPlaced DEF ImportTidy
  <2> QED BY <1>1, <1>3, <2>1, <2>2 DEF ImportTidy, TypeOK
<1>4. CASE AddScan(c) \/ AddHash(c) \/ AddStore(c) \/ AddRemove(c) \/ AddLink(c) \/ Pick(c)
  BY <1>4 DEF AddScan, AddHash, AddStore, AddRemove, AddLink, Pick
<1>5. CASE ImportPick(c) \/ ImportPlan(c) \/ ImportHash(c) \/ ImportPublish(c)
  BY <1>5 DEF ImportPick, ImportPlan, ImportHash, ImportPublish
<1>6. CASE MvRead(c) \/ MvWrite(c) \/ MvDrop(c) \/ MvRollback(c)
  BY <1>6 DEF MvRead, MvWrite, MvDrop, MvRollback
<1>7. CASE MvDirScan(c) \/ MvDirRename(c) \/ MvUnlink(c) \/ MvRelink(c)
  BY <1>7 DEF MvDirScan, MvDirRename, MvUnlink, MvRelink
<1>8. CASE SelectRm(c) \/ SelectPrune(c) \/ EvictOne(c) \/ Interrupt(c) \/ Stop(c)
  BY <1>8 DEF SelectRm, SelectPrune, EvictOne, Interrupt, Stop
<1> QED BY <1>2, <1>3, <1>4, <1>5, <1>6, <1>7, <1>8 DEF Step

\* A file of the working tree stays, moves with its directory, or was cached before it went.
LEMMA StepKeepsFileBytes ==
  ASSUME TreeInv, NEW c \in Command, FilesAreHashed(c), Step(c) \/ Interrupt(c) \/ Stop(c),
         NEW d \in Data, NEW p \in Path, tree[p] = Regular(d)
  PROVE  d \in Known' \/ \E q \in Path : tree'[q] = Regular(d)
<1>1. /\ TypeOK /\ Known \subseteq Known'
      /\ IsFile(p) /\ tree[p].of = d
  BY KnownGrows, NothingAssumption DEF TreeInv, IsFile, Regular, Entry
<1>2. CASE AddRemove(c)
  <2>1. c \in Adders /\ cur[c] \in Path /\ held[c] \in Known
    BY <1>2, StageIsPlaced DEF AddRemove, TreeInv, HoldsKnown
  <2>2. CASE p = cur[c]
    <3>1. p \in Places(c)
      BY <1>2, <2>1, <2>2 DEF AddRemove, Places
    <3> QED BY <1>1, <2>1, <3>1 DEF FilesAreHashed
  <2>3. CASE p # cur[c]
    BY <1>1, <1>2, <2>1, <2>3 DEF AddRemove, Put, TypeOK
  <2> QED BY <2>2, <2>3
<1>3. CASE AddLink(c) \/ ImportPublish(c) \/ MvWrite(c) \/ MvRelink(c)
  <2>1. tree'[p] = tree[p]
    BY <1>1, <1>3, StageIsPlaced
       DEF AddLink, ImportPublish, MvWrite, MvRelink, Put, TypeOK, IsFile, ImportItem, MoveItem, LinkItem
  <2> QED BY <2>1
<1>4. CASE MvDrop(c) \/ MvRollback(c) \/ MvUnlink(c)
  <2>1. c \in Movers /\ c \notin Adders
    BY <1>4, StageIsPlaced, CommandAssumption DEF MvDrop, MvRollback, MvUnlink
  <2>2. p \notin Places(c)
    BY <1>1, <2>1 DEF FilesAreHashed
  <2>3. tree'[p] = tree[p]
    BY <1>1, <1>4, <2>1, <2>2, StageIsPlaced
       DEF MvDrop, MvRollback, MvUnlink, Put, TypeOK, Places, MoveItem, LinkItem
  <2> QED BY <2>3
<1>5. CASE MvDirRename(c)
  <2>1. cur[c].from \in Folder /\ cur[c].to \in Folder /\ cur[c].from # cur[c].to
    BY <1>5, StageIsPlaced DEF MvDirRename, DirItem
  <2>2. CASE tree' = tree
    BY <2>2
  <2>3. CASE tree' # tree
    <3>1. /\ \A q \in Path : q.dir = cur[c].to => tree[q] = Nothing
          /\ tree' = [q \in Path |-> IF q.dir = cur[c].from THEN Nothing
                                     ELSE IF q.dir = cur[c].to THEN tree[Moved(q, cur[c].from)] ELSE tree[q]]
      BY <1>5, <2>3 DEF MvDirRename
    <3>2. CASE p.dir = cur[c].from
      <4>1. Moved(p, cur[c].to) \in Path /\ Moved(Moved(p, cur[c].to), cur[c].from) = p
            /\ Moved(p, cur[c].to).dir = cur[c].to
        BY <2>1, <3>2 DEF Moved, Path
      <4>2. tree'[Moved(p, cur[c].to)] = tree[p]
        BY <2>1, <3>1, <4>1
      <4> QED BY <4>1, <4>2
    <3>3. CASE p.dir # cur[c].from
      BY <1>1, <3>1, <3>3 DEF IsFile
    <3> QED BY <3>2, <3>3
  <2> QED BY <2>2, <2>3
<1>6. CASE Pick(c) \/ ImportPick(c) \/ AddScan(c) \/ AddHash(c) \/ AddStore(c)
  BY <1>6 DEF Pick, ImportPick, AddScan, AddHash, AddStore
<1>7. CASE ImportPlan(c) \/ ImportHash(c) \/ ImportStore(c) \/ ImportTidy(c) \/ MvRead(c) \/ MvDirScan(c)
  BY <1>7 DEF ImportPlan, ImportHash, ImportStore, ImportTidy, MvRead, MvDirScan
<1>8. CASE SelectRm(c) \/ SelectPrune(c) \/ EvictOne(c) \/ Interrupt(c) \/ Stop(c)
  BY <1>8 DEF SelectRm, SelectPrune, EvictOne, Interrupt, Stop
<1> QED BY <1>2, <1>3, <1>4, <1>5, <1>6, <1>7, <1>8 DEF Step

LEMMA BytesInvIsKept == TreeInv /\ BytesInv /\ [Next]_vars /\ [NoFileIntrudes]_vars => BytesInv'
<1> SUFFICES ASSUME TreeInv, BytesInv, [Next]_vars, [NoFileIntrudes]_vars PROVE BytesInv'
  OBVIOUS
<1>1. ASSUME NEW c \in Command, Step(c) \/ Interrupt(c) \/ Stop(c), NoFileIntrudes PROVE BytesInv'
  <2>1. \A d \in Command : SourceIsHashed(d)' /\ FilesAreHashed(d)'
    BY <1>1, StepKeepsSourceHash, StepKeepsFilesHashed DEF BytesInv
  <2>2. Known \subseteq Known' /\ SourceIsHashed(c) /\ FilesAreHashed(c)
    BY <1>1, KnownGrows DEF BytesInv
  <2>3. ASSUME NEW d \in Data PROVE d \in forgone' \/ Present(d)'
    <3>1. CASE d \in Known
      BY <2>2, <3>1 DEF Known, Present
    <3>2. CASE \E p \in Path : tree[p] = Regular(d)
      BY <1>1, <2>2, <3>2, StepKeepsFileBytes DEF Known, Present, Regular
    <3>3. CASE \E s \in Source : sources[s] = d
      BY <1>1, <2>2, <3>3, StepKeepsSourceBytes DEF Known, Present
    <3> QED BY <3>1, <3>2, <3>3 DEF BytesInv, BytesKept, Present, Known
  <2> QED BY <2>1, <2>3 DEF BytesInv, BytesKept
<1>2. CASE UNCHANGED vars
  BY <1>2 DEF vars, BytesInv, SourceIsHashed, FilesAreHashed, Places, IsFile, BytesKept, Present
<1> QED BY <1>1, <1>2 DEF Next

LEMMA InitKeepsBytes == Init => BytesInv
  BY CommandAssumption, NothingAssumption DEF Init, BytesInv, SourceIsHashed, FilesAreHashed, Places, BytesKept, Command

\* As long as no directory with a file is moved to where another command is at work, no command
\* loses bytes: whatever was on the machine is still in the cache, in a file of the working tree
\* or in a source, unless it has been evicted.
THEOREM NoBytesLost == Spec /\ [][NoFileIntrudes]_vars => []BytesKept
<1>1. BytesInv => BytesKept
  BY DEF BytesInv
<1> QED BY InitEstablishes, InitKeepsBytes, TreeInvIsKept, BytesInvIsKept, <1>1, PTL DEF Spec

-----------------------------------------------------------------------------

\* There is a link to d at a path.
LinkTo(p, d) == IsLink(p) /\ tree[p].of = d

\* What mv works on is as it has found or left it.
MoverSees(c) ==
  /\ pc[c] \in {"write", "drop", "rollback"} => LinkTo(cur[c].from, held[c])
  /\ pc[c] \in {"drop", "rollback"} => LinkTo(cur[c].to, held[c]) /\ cur[c].from # cur[c].to
  /\ pc[c] = "rename" => \A i \in todo[c] : LinkTo(Moved(i.at, cur[c].from), i.of)
  /\ pc[c] \in {"loop", "unlink", "relink"} => \A i \in todo[c] : LinkTo(i.at, i.of)
  /\ pc[c] = "unlink" => LinkTo(cur[c].at, cur[c].of)
  /\ pc[c] \in {"unlink", "relink"} => cur[c] \notin todo[c]

MoversInv == \A c \in Movers : MoverSees(c)

\* The steps of mv are the only ones that a mover takes.
LEMMA MoverSteps ==
  ASSUME TreeInv, NEW c \in Movers, Step(c) \/ Interrupt(c) \/ Stop(c)
  PROVE  \/ Pick(c) \/ MvRead(c) \/ MvWrite(c) \/ MvDrop(c) \/ MvRollback(c)
         \/ MvDirScan(c) \/ MvDirRename(c) \/ MvUnlink(c) \/ MvRelink(c)
         \/ Interrupt(c) \/ Stop(c)
<1>1. c \in Command /\ c \notin Adders \cup Importers \cup Evictors
  BY CommandAssumption DEF Command
<1>2. ~(AddScan(c) \/ AddHash(c) \/ AddStore(c) \/ AddRemove(c) \/ AddLink(c))
  BY <1>1, StageIsPlaced DEF AddScan, AddHash, AddStore, AddRemove, AddLink
<1>3. ~(ImportPick(c) \/ ImportPlan(c) \/ ImportHash(c) \/ ImportStore(c) \/ ImportPublish(c) \/ ImportTidy(c))
  BY <1>1, StageIsPlaced DEF ImportPick, ImportPlan, ImportHash, ImportStore, ImportPublish, ImportTidy
<1>4. ~(SelectRm(c) \/ SelectPrune(c) \/ EvictOne(c))
  BY <1>1, StageIsPlaced DEF SelectRm, SelectPrune, EvictOne, Evictors
<1> QED BY <1>2, <1>3, <1>4 DEF Step

\* What a mover sees of the links it works on after a step of its own.
LEMMA StepKeepsSight ==
  ASSUME TreeInv, NEW c \in Movers, Step(c) \/ Interrupt(c) \/ Stop(c), MoverSees(c)
  PROVE  MoverSees(c)'
<1>1. TypeOK /\ c \in Command /\ todo[c] \subseteq LinkItem
  BY DEF TreeInv, Command, Placed, MoverPlaced
<1> USE DEF TypeOK, Goto, Changed, Exit, Classes
<1>2. CASE Pick(c)
  <2>1. pc'[c] \in {"done", "canceled", "unlink"} /\ todo'[c] \subseteq todo[c] /\ tree' = tree
    BY <1>1, <1>2, CommandAssumption DEF Pick, FirstStage
  <2>2. pc'[c] = "unlink" => cur'[c] \in todo[c] /\ cur'[c] \notin todo'[c]
    BY <1>1, <1>2 DEF Pick
  <2>3. \A i \in todo[c] : LinkTo(i.at, i.of)
    BY <1>2 DEF Pick, MoverSees
  <2> QED BY <1>1, <2>1, <2>2, <2>3 DEF MoverSees, LinkTo, IsLink
<1>3. CASE MvRead(c)
  <2>1. \/ pc'[c] \in Classes
        \/ pc'[c] = "write" /\ tree' = tree /\ LinkTo(cur'[c].from, held'[c])
    BY <1>1, <1>3, EarlyFailures DEF MvRead, IsTracked, LinkTo
  <2> QED BY <2>1 DEF MoverSees, LinkTo, IsLink
<1>4. CASE MvWrite(c)
  <2>1. /\ LinkTo(cur[c].from, held[c]) /\ cur[c].from \in Path /\ cur[c].to \in Path /\ held[c] \in Data
        /\ cur' = cur /\ held' = held
    BY <1>1, <1>4, StageIsPlaced DEF MvWrite, MoverSees, MoveItem
  <2>2. \/ pc'[c] \in Classes
        \/ /\ pc'[c] = "drop" /\ tree[cur[c].to] = Nothing
           /\ tree' = [tree EXCEPT ![cur[c].to] = Link(held[c], cur[c].to)]
    BY <1>1, <1>4, LateFailures DEF MvWrite, Put
  <2>3. Link(held[c], cur[c].to) # Nothing
    BY <2>1, LinksAreEntries, NothingAssumption
  <2> QED BY <1>1, <2>1, <2>2, <2>3 DEF MoverSees, LinkTo, IsLink, Link
<1>5. CASE MvDrop(c) \/ MvRollback(c)
  <2>1. pc'[c] \in Classes \cup {"done"} \/ (pc[c] = "drop" /\ pc'[c] = "rollback" /\ UNCHANGED << tree, cur, held, todo >>)
    BY <1>1, <1>5, LateFailures DEF MvDrop, MvRollback
  <2> QED BY <2>1 DEF MoverSees, LinkTo, IsLink
<1>6. CASE MvDirScan(c)
  <2>1. CASE Rejected(c)
    BY <1>1, <2>1 DEF Rejected, MoverSees
  <2>2. CASE \E f \in folders, g \in Folder \ folders : Scanned(c, f, g)
    <3> PICK f \in folders, g \in Folder \ folders : Scanned(c, f, g)
      BY <2>2
    <3>1. /\ pc'[c] = "rename" /\ cur'[c].from = f /\ tree' = tree
          /\ todo'[c] = {[at |-> Moved(p, g), of |-> tree[p].of] : p \in {q \in Path : q.dir = f /\ IsTracked(q)}}
      BY <1>1, <1>6 DEF Scanned, MvDirScan
    <3>2. \A q \in Path : q.dir = f => Moved(Moved(q, g), f) = q
      BY DEF Moved, Path
    <3>3. \A i \in todo'[c] : LinkTo(Moved(i.at, f), i.of)
      BY <3>1, <3>2 DEF LinkTo, IsTracked
    <3> QED BY <3>1, <3>3 DEF MoverSees, LinkTo, IsLink
  <2> QED BY <1>1, <1>6, <2>1, <2>2, DirScanOutcome
<1>7. CASE MvDirRename(c)
  <2>1. /\ cur[c].from # cur[c].to /\ \A i \in todo[c] : i.at \in Path /\ i.at.dir = cur[c].to
        /\ \A i \in todo[c] : LinkTo(Moved(i.at, cur[c].from), i.of)
    BY <1>1, <1>7, StageIsPlaced DEF MvDirRename, MoverSees, LinkItem
  <2>2. \/ pc'[c] \in Classes
        \/ /\ pc'[c] = "loop" /\ todo' = todo
           /\ \A i \in todo[c] : tree'[i.at] = tree[Moved(i.at, cur[c].from)]
    BY <1>1, <1>7, <2>1, LateFailures DEF MvDirRename
  <2> QED BY <2>1, <2>2 DEF MoverSees, LinkTo, IsLink
<1>8. CASE MvUnlink(c)
  <2>1. /\ LinkTo(cur[c].at, cur[c].of) /\ cur[c] \notin todo[c] /\ cur[c] \in LinkItem
        /\ \A i \in todo[c] : LinkTo(i.at, i.of) /\ i \in LinkItem
    BY <1>1, <1>8, StageIsPlaced DEF MvUnlink, MoverSees
  <2>2. \A i \in todo[c] : i.at # cur[c].at
    BY <2>1 DEF LinkTo, LinkItem
  <2>3. /\ pc'[c] = "relink" /\ todo' = todo /\ cur' = cur
        /\ tree' = [tree EXCEPT ![cur[c].at] = Nothing]
    BY <1>1, <1>8, <2>1 DEF MvUnlink, Put, LinkTo, IsLink
  <2>4. \A i \in todo[c] : tree'[i.at] = tree[i.at]
    BY <1>1, <2>1, <2>2, <2>3 DEF LinkItem
  <2> QED BY <2>1, <2>3, <2>4 DEF MoverSees, LinkTo, IsLink
<1>9. CASE MvRelink(c)
  <2>1. \A i \in todo[c] : LinkTo(i.at, i.of) /\ i.at \in Path
    BY <1>1, <1>9 DEF MvRelink, MoverSees, LinkItem
  <2>2. \/ pc'[c] \in Classes
        \/ /\ pc'[c] = "loop" /\ todo' = todo /\ tree[cur[c].at] = Nothing
           /\ \A p \in Path : p # cur[c].at => tree'[p] = tree[p]
    BY <1>1, <1>9, LateFailures DEF MvRelink, Put
  <2> QED BY <2>1, <2>2 DEF MoverSees, LinkTo, IsLink
<1>10. CASE Interrupt(c)
  BY <1>10 DEF Interrupt, MoverSees, LinkTo, IsLink
<1>11. CASE Stop(c)
  <2>1. pc'[c] \in Classes \cup {"killed"}
    BY <1>1, <1>11 DEF Stop
  <2> QED BY <2>1 DEF MoverSees
<1> QED BY <1>2, <1>3, <1>4, <1>5, <1>6, <1>7, <1>8, <1>9, <1>10, <1>11, MoverSteps

LEMMA MoversInvIsKept == TreeInv /\ MoversInv /\ [Next]_vars /\ [MoversUndisturbed]_vars => MoversInv'
<1> SUFFICES ASSUME TreeInv, MoversInv, [Next]_vars, [MoversUndisturbed]_vars, NEW d \in Movers
             PROVE  MoverSees(d)'
  BY DEF MoversInv
<1>1. ASSUME NEW c \in Command, Step(c) \/ Interrupt(c) \/ Stop(c), c # d, MoversUndisturbed PROVE MoverSees(d)'
  <2>1. TypeOK /\ MoverSees(d) /\ d \in Command /\ d \notin Adders
    BY CommandAssumption DEF TreeInv, MoversInv, Command
  <2>2. pc'[d] = pc[d] /\ todo'[d] = todo[d] /\ cur'[d] = cur[d] /\ held'[d] = held[d]
    BY <1>1, <2>1, StepIsFramed DEF Framed
  <2>3. \A p \in Places(d) : tree'[p] = tree[p]
    BY <1>1, <2>2 DEF MoversUndisturbed
  <2>4. \A p \in Places(d) : \A x : LinkTo(p, x) => LinkTo(p, x)'
    BY <2>3 DEF LinkTo, IsLink
  <2>5. CASE pc[d] = "write"
    BY <2>1, <2>2, <2>4, <2>5 DEF MoverSees, Places
  <2>6. CASE pc[d] \in {"drop", "rollback"}
    BY <2>1, <2>2, <2>4, <2>6 DEF MoverSees, Places
  <2>7. CASE pc[d] = "rename"
    BY <2>1, <2>2, <2>4, <2>7 DEF MoverSees, Places
  <2>8. CASE pc[d] \in {"loop", "relink"}
    BY <2>1, <2>2, <2>4, <2>8 DEF MoverSees, Places
  <2>9. CASE pc[d] = "unlink"
    BY <2>1, <2>2, <2>4, <2>9 DEF MoverSees, Places
  <2>10. CASE pc[d] \notin {"write", "drop", "rollback", "rename", "loop", "unlink", "relink"}
    BY <2>2, <2>10 DEF MoverSees
  <2> QED BY <2>5, <2>6, <2>7, <2>8, <2>9, <2>10
<1>2. ASSUME NEW c \in Command, Step(c) \/ Interrupt(c) \/ Stop(c), c = d PROVE MoverSees(d)'
  BY <1>2, StepKeepsSight DEF MoversInv
<1>3. CASE UNCHANGED vars
  BY <1>3 DEF vars, MoversInv, MoverSees, LinkTo, IsLink
<1> QED BY <1>1, <1>2, <1>3 DEF Next

LEMMA InitSeesLinks == Init => MoversInv
  BY DEF Init, MoversInv, MoverSees, Command

\* What a step of mv may take the last link from.
LEMMA StepKeepsLinks ==
  ASSUME TreeInv, NEW c \in Movers, MoverSees(c), Step(c) \/ Interrupt(c) \/ Stop(c),
         NEW d \in Data, d \in Linked(Path), d \notin Linked(Path)'
  PROVE  pc[c] = "unlink" /\ cur[c].of = d
<1>1. TypeOK /\ c \in Command
  BY DEF TreeInv, Command
<1>2. PICK p \in Path : LinkTo(p, d)
  BY LinkedAre DEF LinkTo
<1>3. \A q \in Path : tree'[q] # tree[p]
  <2>1. \A q \in Path : ~(IsLink(q)' /\ tree'[q].of = d)
    BY LinkedBecome
  <2> QED BY <1>2, <2>1 DEF LinkTo, IsLink
<1>4. tree[p] # Nothing
  BY <1>2 DEF LinkTo, IsLink
<1>5. CASE MvWrite(c) \/ MvRelink(c)
  <2>1. tree'[p] = tree[p]
    BY <1>1, <1>4, <1>5, StageIsPlaced DEF MvWrite, MvRelink, Put, TypeOK, MoveItem, LinkItem
  <2> QED BY <1>3, <2>1
<1>6. CASE MvDrop(c) \/ MvRollback(c)
  <2>1. /\ LinkTo(cur[c].from, held[c]) /\ LinkTo(cur[c].to, held[c]) /\ cur[c].from # cur[c].to
        /\ cur[c].from \in Path /\ cur[c].to \in Path
    BY <1>1, <1>6, StageIsPlaced DEF MvDrop, MvRollback, MoverSees, MoveItem
  <2>2. \/ tree' = tree \/ tree' = [tree EXCEPT ![cur[c].from] = Nothing]
        \/ tree' = [tree EXCEPT ![cur[c].to] = Nothing]
    BY <1>6 DEF MvDrop, MvRollback, Put
  <2>3. \A q \in Path : tree[q] # Nothing /\ tree[q].kind = "link" /\ tree[q].of = d => tree'[q] # tree[q]
    BY LinkedBecome DEF IsLink
  <2>4. p \in {cur[c].from, cur[c].to}
    BY <1>1, <1>3, <2>2 DEF TypeOK
  <2>5. held[c] = d
    BY <1>2, <2>1, <2>4 DEF LinkTo
  <2>6. tree'[cur[c].from] = tree[cur[c].from] \/ tree'[cur[c].to] = tree[cur[c].to]
    BY <1>1, <2>1, <2>2 DEF TypeOK
  <2> QED BY <2>1, <2>3, <2>5, <2>6 DEF LinkTo, IsLink
<1>7. CASE MvDirRename(c)
  <2>1. cur[c].from \in Folder /\ cur[c].to \in Folder /\ cur[c].from # cur[c].to
    BY <1>1, <1>7, StageIsPlaced DEF MvDirRename, DirItem
  <2>2. tree' # tree
    BY <1>3
  <2>3. /\ \A q \in Path : q.dir = cur[c].to => tree[q] = Nothing
        /\ tree' = [q \in Path |-> IF q.dir = cur[c].from THEN Nothing
                                   ELSE IF q.dir = cur[c].to THEN tree[Moved(q, cur[c].from)] ELSE tree[q]]
    BY <1>7, <2>2 DEF MvDirRename
  <2>4. CASE p.dir = cur[c].from
    <3>1. Moved(p, cur[c].to) \in Path /\ Moved(Moved(p, cur[c].to), cur[c].from) = p
          /\ Moved(p, cur[c].to).dir = cur[c].to
      BY <2>1, <2>4 DEF Moved, Path
    <3>2. tree'[Moved(p, cur[c].to)] = tree[p]
      BY <2>1, <2>3, <3>1
    <3> QED BY <1>3, <3>1, <3>2
  <2>5. CASE p.dir # cur[c].from
    BY <1>3, <1>4, <2>3, <2>5
  <2> QED BY <2>4, <2>5
<1>8. CASE MvUnlink(c)
  <2>1. LinkTo(cur[c].at, cur[c].of) /\ cur[c].at \in Path
    BY <1>1, <1>8, StageIsPlaced DEF MvUnlink, MoverSees, LinkItem
  <2>2. p = cur[c].at
    BY <1>1, <1>3, <1>8, <2>1 DEF MvUnlink, Put, TypeOK
  <2> QED BY <1>2, <1>8, <2>1, <2>2 DEF MvUnlink, LinkTo
<1>9. CASE Pick(c) \/ MvRead(c) \/ MvDirScan(c) \/ Interrupt(c) \/ Stop(c)
  BY <1>3, <1>9 DEF Pick, MvRead, MvDirScan, Interrupt, Stop
<1> QED BY <1>5, <1>6, <1>7, <1>8, <1>9, MoverSteps

\* If no other command changes a path that a mover works on, a step of mv takes an object's last
\* link away only to rewrite it.
THEOREM NoLinkIsLost == Spec /\ [][MoversUndisturbed]_vars => MovesKeepLinks
<1>1. TreeInv /\ MoversInv /\ [Next]_vars =>
        [\A c \in Movers, d \in Data :
           pc'[c] # pc[c] /\ d \in Linked(Path) /\ d \notin Linked(Path)'
             => pc[c] = "unlink" /\ cur[c].of = d]_vars
  <2> SUFFICES ASSUME TreeInv, MoversInv, Next, NEW c \in Movers, NEW d \in Data,
                      pc'[c] # pc[c], d \in Linked(Path), d \notin Linked(Path)'
               PROVE  pc[c] = "unlink" /\ cur[c].of = d
    OBVIOUS
  <2>1. PICK x \in Command : Step(x) \/ Interrupt(x) \/ Stop(x)
    BY DEF Next
  <2>2. x = c
    BY <2>1, StepIsFramed DEF Framed, TreeInv, Command
  <2> QED BY <2>1, <2>2, StepKeepsLinks DEF MoversInv
<1> QED BY InitEstablishes, InitSeesLinks, TreeInvIsKept, MoversInvIsKept, <1>1, PTL DEF Spec, MovesKeepLinks

-----------------------------------------------------------------------------

\* At most one mv is run.
OneMover == \A m, n \in Movers : m = n

\* The files that add still has to look at again.
Pending(c) ==
  IF pc[c] \in {"loop", "link"} THEN todo[c]
  ELSE IF pc[c] \in {"hash", "store", "remove"} THEN todo[c] \cup {cur[c]}
  ELSE {}

\* Adds take turns, and none looks at a file twice.
AddersAlone ==
  /\ \A c, d \in Adders : Running(c) /\ Running(d) => c = d
  /\ \A c \in Adders : pc[c] \in {"hash", "store", "remove"} => cur[c] \notin todo[c]

\* Until it renames a directory, mv leaves files alone, and no file comes to lie where the
\* directory goes; it works on no path that add works on.
MoverApart(m) ==
  /\ pc[m] \in {"idle", "write", "drop", "rollback", "rename"} =>
       \A c \in Adders : \A p \in Pending(c) : IsFile(p)
  /\ pc[m] \in {"idle", "rename"} => \A p \in Path : IsFile(p) => p.dir \in folders
  /\ pc[m] = "rename" => \A p \in Path : IsFile(p) => p.dir # cur[m].to
  /\ \A c \in Adders : Pending(c) \cap Places(m) = {}

LoneInv == AddersAlone /\ \A m \in Movers : MoverApart(m)

LEMMA PlacesArePaths ==
  ASSUME TreeInv, NEW c \in Command
  PROVE  Places(c) \subseteq Path /\ (c \in Adders => Pending(c) \subseteq Path)
<1>1. CASE c \in Adders
  BY <1>1, CommandAssumption DEF Places, Pending, TreeInv, Placed, AdderPlaced
<1>2. CASE c \in Movers
  <2>1. MoverPlaced(c) /\ c \notin Adders
    BY <1>2, CommandAssumption DEF TreeInv, Placed
  <2>2. CASE pc[c] = "rename"
    BY <1>2, <2>1, <2>2 DEF Places, MoverPlaced, DirItem, LinkItem, Moved, Path
  <2>3. CASE pc[c] # "rename"
    BY <1>2, <2>1, <2>3 DEF Places, MoverPlaced, MoveItem, LinkItem
  <2> QED BY <2>1, <2>2, <2>3
<1>3. CASE c \notin Adders \cup Movers
  BY <1>3 DEF Places
<1> QED BY <1>1, <1>2, <1>3

\* What mv works on are links.
LEMMA SeenAreLinks ==
  ASSUME NEW c \in Movers, MoverSees(c)
  PROVE  \A p \in Places(c) : IsLink(p)
  BY CommandAssumption DEF MoverSees, Places, LinkTo

\* What a command other than mv does to the working tree: add removes a file of its own, the
\* rest of the changes are links made where nothing was.
LEMMA StepOfAnother ==
  ASSUME TreeInv, NEW c \in Command, c \notin Movers, Step(c) \/ Interrupt(c) \/ Stop(c)
  PROVE  /\ folders \subseteq folders'
         /\ \A p \in Path : \/ tree'[p] = tree[p]
                            \/ tree[p] = Nothing /\ ~IsFile(p)'
                            \/ AddRemove(c) /\ p = cur[c] /\ tree'[p] = Nothing
<1>1. TypeOK
  BY DEF TreeInv
<1>2. CASE AddRemove(c)
  BY <1>1, <1>2, StageIsPlaced DEF AddRemove, Put, TypeOK
<1>3. CASE AddLink(c)
  BY <1>1, <1>3, StageIsPlaced DEF AddLink, Put, TypeOK, IsFile, Link
<1>4. CASE ImportPublish(c)
  BY <1>1, <1>4, StageIsPlaced DEF ImportPublish, Put, TypeOK, IsFile, Link, ImportItem
<1>5. CASE Pick(c) \/ ImportPick(c) \/ AddScan(c) \/ AddHash(c) \/ AddStore(c)
  BY <1>5 DEF Pick, ImportPick, AddScan, AddHash, AddStore
<1>6. CASE ImportPlan(c) \/ ImportHash(c) \/ ImportStore(c) \/ ImportTidy(c)
  BY <1>6 DEF ImportPlan, ImportHash, ImportStore, ImportTidy
<1>7. CASE SelectRm(c) \/ SelectPrune(c) \/ EvictOne(c) \/ Interrupt(c) \/ Stop(c)
  BY <1>7 DEF SelectRm, SelectPrune, EvictOne, Interrupt, Stop
<1>8. ~(\/ MvRead(c) \/ MvWrite(c) \/ MvDrop(c) \/ MvRollback(c)
        \/ MvDirScan(c) \/ MvDirRename(c) \/ MvUnlink(c) \/ MvRelink(c))
  BY StageIsPlaced DEF MvRead, MvWrite, MvDrop, MvRollback, MvDirScan, MvDirRename, MvUnlink, MvRelink
<1> QED BY <1>2, <1>3, <1>4, <1>5, <1>6, <1>7, <1>8 DEF Step

\* The steps of add, and what each leaves to be looked at again.
LEMMA StepOfAdder ==
  ASSUME TreeInv, AddersAlone, NEW c \in Adders, Step(c) \/ Interrupt(c) \/ Stop(c)
  PROVE  /\ pc'[c] \in {"hash", "store", "remove"} => cur'[c] \notin todo'[c]
         /\ \/ /\ AddScan(c) /\ tree' = tree
               /\ \A p \in Pending(c)' : p \in Path /\ IsFile(p)
            \/ ~AddScan(c) /\ Running(c) /\ Pending(c)' \subseteq Pending(c)
            \/ Interrupt(c) /\ tree' = tree /\ Pending(c)' = Pending(c)
         /\ AddRemove(c) => cur[c] \in Pending(c) /\ cur[c] \notin Pending(c)'
<1>1. TypeOK /\ c \in Command /\ c \notin Importers \cup Movers \cup Evictors
  BY CommandAssumption DEF TreeInv, Command
<1>2. pc[c] \in {"hash", "store", "remove"} => cur[c] \notin todo[c]
  BY DEF AddersAlone
<1> USE DEF TypeOK, Goto, Changed, Exit, Running, Ended, Classes, Pending
<1>4. CASE Pick(c)
  <2>1. FirstStage(c) = "hash"
    BY <1>1 DEF FirstStage
  <2> QED BY <1>1, <1>4, <2>1 DEF Pick, AddScan, AddRemove, MayStart
<1>5. CASE AddScan(c)
  <2>1. pc[c] = "idle" /\ tree' = tree
    BY <1>5 DEF AddScan, MayStart
  <2>2. \/ pc'[c] \in Classes
        \/ pc'[c] = "loop" /\ \E f \in Folder : todo'[c] = {p \in Path : p.dir = f /\ IsFile(p)}
    BY <1>1, <1>5, EarlyFailures DEF AddScan
  <2> QED BY <1>5, <2>1, <2>2 DEF AddRemove
<1>6. CASE AddHash(c)
  BY <1>1, <1>2, <1>6, LateFailures DEF AddHash, AddScan, AddRemove, MayStart
<1>7. CASE AddStore(c)
  BY <1>1, <1>2, <1>7, LateFailures DEF AddStore, AddScan, AddRemove, MayStart
<1>8. CASE AddRemove(c)
  BY <1>1, <1>2, <1>8, LateFailures DEF AddScan, AddRemove, MayStart
<1>9. CASE AddLink(c)
  BY <1>1, <1>9, LateFailures DEF AddLink, AddScan, AddRemove, MayStart
<1>10. CASE Interrupt(c)
  BY <1>1, <1>2, <1>10 DEF Interrupt, AddRemove, AddScan
<1>11. CASE Stop(c)
  BY <1>1, <1>11 DEF Stop, AddScan, AddRemove, MayStart
<1>12. ~(ImportPick(c) \/ ImportPlan(c) \/ ImportHash(c) \/ ImportStore(c) \/ ImportPublish(c) \/ ImportTidy(c))
  BY <1>1, StageIsPlaced DEF ImportPick, ImportPlan, ImportHash, ImportStore, ImportPublish, ImportTidy
<1>13. ~(\/ MvRead(c) \/ MvWrite(c) \/ MvDrop(c) \/ MvRollback(c)
         \/ MvDirScan(c) \/ MvDirRename(c) \/ MvUnlink(c) \/ MvRelink(c))
  BY <1>1, StageIsPlaced DEF MvRead, MvWrite, MvDrop, MvRollback, MvDirScan, MvDirRename, MvUnlink, MvRelink
<1>14. ~(SelectRm(c) \/ SelectPrune(c) \/ EvictOne(c))
  BY <1>1, StageIsPlaced DEF SelectRm, SelectPrune, EvictOne, Evictors
<1> QED BY <1>4, <1>5, <1>6, <1>7, <1>8, <1>9, <1>10, <1>11, <1>12, <1>13, <1>14 DEF Step

LEMMA AddersAloneIsKept ==
  ASSUME TreeInv, AddersAlone, NEW c \in Command, Step(c) \/ Interrupt(c) \/ Stop(c)
  PROVE  AddersAlone'
<1>1. TypeOK /\ Adders \subseteq Command /\ Framed(c)
  BY StepIsFramed DEF TreeInv, Command
<1>2. \A x \in Command \ {c} : Running(x)' => Running(x)
  BY <1>1 DEF Framed, Running
<1>3. ASSUME NEW a \in Adders, NEW d \in Adders, Running(a)', Running(d)', a # d PROVE FALSE
  <2>1. CASE c \notin {a, d} \/ Running(c)
    BY <1>1, <1>2, <1>3, <2>1 DEF AddersAlone
  <2>2. CASE c \in {a, d} /\ MayStart(c)
    BY <1>1, <1>2, <1>3, <2>2 DEF MayStart
  <2>3. CASE pc' = pc
    BY <1>3, <2>3 DEF AddersAlone, Running
  <2> QED BY <1>1, <2>1, <2>2, <2>3, StepRuns
<1>4. ASSUME NEW a \in Adders, pc'[a] \in {"hash", "store", "remove"} PROVE cur'[a] \notin todo'[a]
  <2>1. CASE a = c
    BY <1>4, <2>1, StepOfAdder
  <2>2. CASE a # c
    BY <1>1, <1>4, <2>2 DEF Framed, AddersAlone
  <2> QED BY <2>1, <2>2
<1> QED BY <1>3, <1>4 DEF AddersAlone

\* Another command's step leaves a mover apart from what the adds work on.
LEMMA MoverStaysApart ==
  ASSUME TreeInv, AddersAlone, NEW c \in Command, c \notin Movers, Step(c) \/ Interrupt(c) \/ Stop(c),
         NEW m \in Movers, MoverSees(m), MoverApart(m)
  PROVE  MoverApart(m)'
<1>1. TypeOK /\ Framed(c) /\ m \in Command /\ m \notin Adders /\ m # c /\ Adders \subseteq Command
  BY StepIsFramed, CommandAssumption DEF TreeInv, Command
<1>2. pc'[m] = pc[m] /\ cur'[m] = cur[m] /\ todo'[m] = todo[m]
  BY <1>1 DEF Framed
<1>3. Places(m)' = Places(m)
  BY <1>2 DEF Places
<1>4. folders \subseteq folders' /\ \A p \in Path : IsFile(p)' => IsFile(p) /\ tree'[p] = tree[p]
  BY StepOfAnother DEF IsFile
<1>5. ASSUME NEW a \in Adders, NEW p \in Pending(a)' PROVE p \in Pending(a) \/ (IsFile(p) /\ tree' = tree)
  <2>1. CASE a = c
    BY <1>5, <2>1, StepOfAdder
  <2>2. CASE a # c
    BY <1>1, <1>5, <2>2 DEF Framed, Pending
  <2> QED BY <2>1, <2>2
<1>6. ASSUME NEW a \in Adders, NEW p \in Pending(a)', IsFile(p) PROVE IsFile(p)'
  <2>1. p \in Path
    <3>1. CASE a = c /\ AddScan(c)
      BY <1>5, <1>6, <3>1, PlacesArePaths, StepOfAdder
    <3>2. CASE p \in Pending(a)
      BY <1>1, <3>2, PlacesArePaths
    <3> QED BY <1>1, <1>5, <1>6, <3>1, <3>2, StepOfAdder DEF Framed, Pending
  <2>2. CASE tree' = tree
    BY <1>6, <2>2 DEF IsFile
  <2>3. CASE ~(AddRemove(c) /\ p = cur[c])
    BY <1>6, <2>1, <2>3, StepOfAnother DEF IsFile
  <2>4. CASE AddRemove(c) /\ p = cur[c]
    <3>1. c \in Adders /\ Running(c) /\ p \notin Pending(c)'
      BY <2>4, StepOfAdder, StageIsPlaced DEF AddRemove, Running, Ended, Classes
    <3>2. a # c /\ Pending(a)' = Pending(a) /\ Running(a)
      BY <1>1, <1>6, <3>1 DEF Framed, Pending, Running, Ended, Classes
    <3> QED BY <3>1, <3>2 DEF AddersAlone
  <2> QED BY <2>2, <2>3, <2>4
<1>7. \A p \in Places(m) : ~IsFile(p)
  BY SeenAreLinks DEF IsLink, IsFile
<1>8. \A a \in Adders : Pending(a)' \cap Places(m)' = {}
  BY <1>3, <1>5, <1>7 DEF MoverApart
<1>9. pc[m] \in {"idle", "write", "drop", "rollback", "rename"} =>
        \A a \in Adders : \A p \in Pending(a)' : IsFile(p)'
  BY <1>5, <1>6 DEF MoverApart
<1> QED BY <1>2, <1>4, <1>8, <1>9 DEF MoverApart

\* And so does a step of its own.
LEMMA MoverKeepsApart ==
  ASSUME TreeInv, NEW m \in Movers, Step(m) \/ Interrupt(m) \/ Stop(m), MoverSees(m), MoverApart(m)
  PROVE  MoverApart(m)'
<1>1. /\ TypeOK /\ Framed(m) /\ m \in Command /\ m \notin Adders /\ Adders \subseteq Command
      /\ MoverPlaced(m)
  BY StepIsFramed, CommandAssumption DEF TreeInv, Command, Placed
<1>2. \A a \in Adders : Pending(a)' = Pending(a) /\ Pending(a) \subseteq Path
  BY <1>1, PlacesArePaths DEF Framed, Pending
<1>3. \A p \in Places(m) : ~IsFile(p)
  BY SeenAreLinks DEF IsLink, IsFile
<1> USE DEF TypeOK, Goto, Changed, Exit, Classes
<1>4. CASE Pick(m) \/ MvUnlink(m) \/ MvRelink(m)
  <2>1. pc'[m] \notin {"idle", "write", "drop", "rollback", "rename"}
    BY <1>1, <1>4, LateFailures, CommandAssumption DEF Pick, MvUnlink, MvRelink, FirstStage
  <2>2. Places(m)' \subseteq Places(m)
    <3>1. CASE Pick(m)
      BY <1>1, <3>1, CommandAssumption DEF Pick, FirstStage, Places
    <3>2. CASE MvUnlink(m) \/ MvRelink(m)
      BY <1>1, <3>2, LateFailures DEF MvUnlink, MvRelink, Places
    <3> QED BY <1>4, <3>1, <3>2
  <2> QED BY <1>2, <2>1, <2>2 DEF MoverApart
<1>5. CASE MvRead(m)
  <2>1. /\ tree' = tree /\ pc[m] = "idle"
        /\ \/ pc'[m] \in Classes
           \/ pc'[m] = "write" /\ IsLink(cur'[m].from)
    BY <1>1, <1>5, EarlyFailures DEF MvRead, MayStart, IsTracked
  <2>2. CASE pc'[m] \in Classes
    BY <1>1, <2>2 DEF MoverApart, Places
  <2>3. CASE pc'[m] = "write" /\ IsLink(cur'[m].from)
    <3>1. Places(m)' = {cur'[m].from}
      BY <1>1, <2>3 DEF Places
    <3> QED BY <1>2, <2>1, <2>3, <3>1 DEF MoverApart, IsFile, IsLink
  <2> QED BY <2>1, <2>2, <2>3
<1>6. CASE MvWrite(m)
  <2>1. /\ pc[m] = "write" /\ cur' = cur /\ cur[m].to \in Path
        /\ \/ pc'[m] \in Classes
           \/ /\ pc'[m] = "drop" /\ tree[cur[m].to] = Nothing
              /\ \A p \in Path : p # cur[m].to => tree'[p] = tree[p]
    BY <1>1, <1>6, LateFailures, StageIsPlaced DEF MvWrite, Put, MoveItem
  <2>2. CASE pc'[m] \in Classes
    BY <1>1, <2>2 DEF MoverApart, Places
  <2>3. CASE /\ pc'[m] = "drop" /\ tree[cur[m].to] = Nothing
             /\ \A p \in Path : p # cur[m].to => tree'[p] = tree[p]
    <3>1. Places(m)' = {cur[m].from, cur[m].to} /\ Places(m) = {cur[m].from}
      BY <1>1, <2>1, <2>3 DEF Places
    <3>2. \A a \in Adders : \A p \in Pending(a) : IsFile(p) /\ p # cur[m].to
      BY <2>1, <2>3 DEF MoverApart, IsFile
    <3> QED BY <1>2, <2>1, <2>3, <3>1, <3>2 DEF MoverApart, IsFile
  <2> QED BY <2>1, <2>2, <2>3
<1>7. CASE MvDrop(m) \/ MvRollback(m)
  <2>1. \/ pc'[m] \in Classes \cup {"done"}
        \/ pc[m] = "drop" /\ pc'[m] = "rollback" /\ UNCHANGED << tree, cur >>
    BY <1>1, <1>7, LateFailures DEF MvDrop, MvRollback
  <2>2. CASE pc'[m] \in Classes \cup {"done"}
    BY <1>1, <2>2 DEF MoverApart, Places
  <2>3. CASE pc[m] = "drop" /\ pc'[m] = "rollback" /\ UNCHANGED << tree, cur >>
    <3>1. Places(m)' = Places(m)
      BY <2>3 DEF Places
    <3> QED BY <1>2, <2>3, <3>1 DEF MoverApart, IsFile
  <2> QED BY <2>1, <2>2, <2>3
<1>8. CASE MvDirScan(m)
  <2>1. pc[m] = "idle" /\ tree' = tree /\ folders' = folders
    BY <1>8 DEF MvDirScan, MayStart
  <2>2. CASE Rejected(m)
    BY <1>1, <2>2 DEF Rejected, MoverApart, Places
  <2>3. CASE \E f \in folders, g \in Folder \ folders : Scanned(m, f, g)
    <3> PICK f \in folders, g \in Folder \ folders : Scanned(m, f, g)
      BY <2>3
    <3>1. /\ pc'[m] = "rename" /\ cur'[m].from = f /\ cur'[m].to = g
          /\ todo'[m] = {[at |-> Moved(p, g), of |-> tree[p].of] : p \in {q \in Path : q.dir = f /\ IsTracked(q)}}
      BY <1>1 DEF Scanned
    <3>2. \A q \in Path : q.dir = f => Moved(Moved(q, g), f) = q
      BY DEF Moved, Path
    <3>3. \A p \in Places(m)' : IsLink(p)
      BY <1>1, <3>1, <3>2 DEF Places, IsTracked
    <3> QED BY <1>2, <2>1, <3>1, <3>3 DEF MoverApart, IsFile, IsLink
  <2> QED BY <1>1, <1>8, <2>2, <2>3, DirScanOutcome
<1>9. CASE MvDirRename(m)
  <2>1. pc[m] = "rename" /\ \A i \in todo[m] : i.at.dir = cur[m].to
    BY <1>1, <1>9, StageIsPlaced DEF MvDirRename
  <2>2. pc'[m] \in Classes \/ (pc'[m] = "loop" /\ todo' = todo)
    BY <1>1, <1>9, LateFailures DEF MvDirRename
  <2>3. \A p \in Places(m)' : p.dir = cur[m].to
    BY <1>1, <2>1, <2>2 DEF Places
  <2>4. \A a \in Adders : \A p \in Pending(a) : p.dir # cur[m].to
    BY <1>2, <2>1 DEF MoverApart
  <2> QED BY <1>2, <2>2, <2>3, <2>4 DEF MoverApart
<1>10. CASE Interrupt(m)
  <2>1. UNCHANGED << pc, todo, cur, tree, folders >>
    BY <1>10 DEF Interrupt
  <2>2. Places(m)' = Places(m) /\ \A p : IsFile(p)' <=> IsFile(p)
    BY <2>1 DEF Places, IsFile
  <2> QED BY <1>2, <2>1, <2>2 DEF MoverApart
<1>11. CASE Stop(m)
  <2>1. pc'[m] \in Classes \cup {"killed"}
    BY <1>1, <1>11 DEF Stop
  <2> QED BY <1>1, <2>1 DEF MoverApart, Places
<1> QED BY <1>4, <1>5, <1>6, <1>7, <1>8, <1>9, <1>10, <1>11, MoverSteps

\* With one mover, what it works on and what the adds work on stay as they are.
LEMMA LoneMoverIsUndisturbed ==
  ASSUME OneMover, TreeInv, MoversInv, LoneInv, Next
  PROVE  MoversUndisturbed /\ NoFileIntrudes
<1>1. PICK c \in Command : Step(c) \/ Interrupt(c) \/ Stop(c)
  BY DEF Next
<1>2. TypeOK /\ Adders \subseteq Command /\ Movers \subseteq Command
  BY DEF TreeInv, Command
<1>3. ASSUME NEW d \in Command, pc'[d] = pc[d], d = c PROVE tree' = tree
  BY <1>1, <1>2, <1>3, StepMoves DEF Interrupt
<1>4. ASSUME NEW d \in Movers, NEW p \in Places(d), pc'[d] = pc[d] PROVE tree'[p] = tree[p]
  <2>1. CASE d = c
    BY <1>2, <1>3, <1>4, <2>1
  <2>2. CASE d # c
    <3>1. c \notin Movers /\ p \in Path /\ IsLink(p)
      BY <1>2, <1>4, <2>2, PlacesArePaths, SeenAreLinks DEF OneMover, MoversInv
    <3>2. ~(AddRemove(c) /\ p = cur[c])
      BY <1>1, <1>4, StepOfAdder, StageIsPlaced DEF AddRemove, LoneInv, MoverApart
    <3> QED BY <1>1, <3>1, <3>2, StepOfAnother DEF IsLink
  <2> QED BY <2>1, <2>2
<1>5. ASSUME NEW d \in Command, NEW p \in Places(d), pc'[d] = pc[d], tree'[p] # tree[p] PROVE ~IsFile(p)'
  <2>1. p \in Path /\ c # d /\ d \notin Movers
    BY <1>3, <1>4, <1>5, PlacesArePaths
  <2>2. CASE c \notin Movers
    BY <1>1, <1>5, <2>1, <2>2, StepOfAnother DEF IsFile
  <2>3. CASE c \in Movers
    <3>1. d \in Adders /\ p \in Pending(d)
      BY <1>5, <2>1 DEF Places, Pending
    <3>2. CASE MvWrite(c) \/ MvDrop(c) \/ MvRollback(c) \/ MvUnlink(c) \/ MvRelink(c)
      BY <1>2, <1>5, <2>1, <3>2, StageIsPlaced
         DEF MvWrite, MvDrop, MvRollback, MvUnlink, MvRelink, Put, TypeOK, IsFile, Link, MoveItem, LinkItem
    <3>3. CASE MvDirRename(c)
      <4>1. pc[c] = "rename" /\ p.dir # cur[c].to
        BY <2>1, <2>3, <3>1, <3>3 DEF MvDirRename, LoneInv, MoverApart
      <4> QED BY <1>5, <2>1, <3>3, <4>1 DEF MvDirRename, IsFile
    <3>4. CASE Pick(c) \/ MvRead(c) \/ MvDirScan(c) \/ Interrupt(c) \/ Stop(c)
      BY <1>5, <3>4 DEF Pick, MvRead, MvDirScan, Interrupt, Stop
    <3> QED BY <1>1, <2>3, <3>2, <3>3, <3>4, MoverSteps
  <2> QED BY <2>2, <2>3
<1> QED BY <1>4, <1>5 DEF MoversUndisturbed, NoFileIntrudes

LEMMA LoneInvIsKept ==
  ASSUME OneMover, TreeInv, MoversInv, LoneInv, [Next]_vars
  PROVE  LoneInv'
<1>1. ASSUME NEW c \in Command, Step(c) \/ Interrupt(c) \/ Stop(c) PROVE LoneInv'
  <2>1. AddersAlone'
    BY <1>1, AddersAloneIsKept DEF LoneInv
  <2>2. ASSUME NEW m \in Movers PROVE MoverApart(m)'
    <3>1. CASE c = m
      BY <1>1, <3>1, MoverKeepsApart DEF LoneInv, MoversInv
    <3>2. CASE c # m
      BY <1>1, <3>2, MoverStaysApart DEF OneMover, LoneInv, MoversInv
    <3> QED BY <3>1, <3>2
  <2> QED BY <2>1, <2>2 DEF LoneInv
<1>2. CASE UNCHANGED vars
  BY <1>2 DEF vars, LoneInv, AddersAlone, Running, MoverApart, Pending, Places, IsFile
<1> QED BY <1>1, <1>2 DEF Next

LEMMA InitIsApart == Init => LoneInv
  BY CommandAssumption DEF Init, LoneInv, AddersAlone, Running, MoverApart, Pending, Places, IsFile, Command

\* With one mv at a time, no other command changes a path that it works on, and none brings a
\* file to a path that a command works on.
LEMMA LoneMoverIsApart ==
  ASSUME OneMover
  PROVE  Spec => [][MoversUndisturbed]_vars /\ [][NoFileIntrudes]_vars
<1>1. TreeInv /\ MoversInv /\ LoneInv /\ [Next]_vars => [MoversUndisturbed]_vars /\ [NoFileIntrudes]_vars
  BY LoneMoverIsUndisturbed
<1>2. TreeInv /\ MoversInv /\ LoneInv /\ [Next]_vars => LoneInv'
  BY LoneInvIsKept
<1> QED BY InitEstablishes, InitSeesLinks, InitIsApart, TreeInvIsKept, MoversInvIsKept, <1>1, <1>2, PTL DEF Spec

\* Whatever adds, imports and evictions run beside one mv, are interrupted, fail and are killed, no
\* bytes are lost.
THEOREM OneMoverLosesNoBytes ==
  ASSUME OneMover
  PROVE  Spec => []BytesKept
BY LoneMoverIsApart, NoBytesLost, PTL

\* And a step of mv takes an object's last link away only to rewrite it.
THEOREM OneMoverLosesNoLink ==
  ASSUME OneMover
  PROVE  Spec => MovesKeepLinks
BY LoneMoverIsApart, NoLinkIsLost, PTL
=============================================================================
