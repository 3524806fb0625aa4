----------------------------- MODULE ReportsProofs -----------------------------
(***************************************************************************)
(* Theorems about verify and status for any set of objects, however many   *)
(* of them other commands touch while the report is put together.          *)
(*                                                                         *)
(* The argument: what a step reads is true when it reads it and therefore  *)
(* among what has been true of the object; what the remote holds stays as  *)
(* it is, since nothing replaces an object there; and what has been found  *)
(* is either what a sound object gives or an issue.                        *)
(***************************************************************************)
EXTENDS Reports, TLAPS

Inspecting == {"stat", "hash", "seal", "size"}
Remotely == {"download", "rehash", "orphans"}
Stages == {"scan", "pick", "list", "report", "done"} \cup Inspecting \cup Remotely
Anything == {"absent", "wrong", "good", "held", "remoteAbsent", "nowhere", "evicted", "published", "pushed"}
\* The fact that makes an object count as held.
Proof == IF cmd = "integrity" THEN "good" ELSE "held"

Types ==
    /\ cmd \in {"status", "verify", "integrity"} /\ asked \in BOOLEAN /\ cancel \in BOOLEAN
    /\ pc \in Stages /\ (pc # "done" => outcome = "none")
    /\ todo \subseteq Objects /\ cur \in Objects \cup {NoObject}
    /\ local \in [Objects -> [state : {"unseen", "present", "missing", "corrupt"}, size : 0..2]]
    /\ listing \in [Objects -> 0..2]
    /\ scratch \in [Objects -> Contents \cup {Absent, NoObject}]
    /\ cache \in [Objects -> Files \cup {NoFile}]
    /\ remote \in [Objects -> Contents \cup {Absent}]
    /\ was \in [Objects -> SUBSET Anything]

\* What is true now has been true.
PastStands == \A h \in Objects : Facts(cache[h], remote[h]) \subseteq was[h]

\* What the inspection of one object has come to so far.
InspectionStands ==
    /\ pc \in Inspecting => cur \in Objects
    /\ pc \in {"stat", "hash", "seal"} \cup Remotely => cmd # "status"
    /\ pc = "report" => cmd = "status"
    /\ pc \in {"hash", "seal", "size"} /\ cmd # "status" =>
          cache[cur] # NoFile \/ "evicted" \in was[cur]
    /\ pc \in {"seal", "size"} /\ cmd # "status" => Proof \in was[cur]

\* Which objects are still to be inspected.
LoopStands ==
    /\ pc = "scan" \/ (pc = "list" /\ cmd = "status") => \A h \in Objects : local[h] = Unseen
    /\ pc \notin {"scan", "done"} =>
          \A h \in Objects : local[h].state = "unseen" => h \in todo \/ (pc \in Inspecting /\ h = cur)
    /\ pc \in Remotely \cup {"report"} \/ (pc = "list" /\ cmd # "status") => todo = {}

\* What has been found of an object has a reason, and is an issue unless it is sound.
FoundStands ==
    \A h \in Objects :
      /\ local[h].state = "missing" => "absent" \in was[h]
      /\ local[h].state = "corrupt" => "wrong" \in was[h]
      /\ cmd # "status" /\ local[h].state = "missing" => <<"MissingCacheFile", h>> \in issues
      /\ cmd # "status" /\ local[h].state = "corrupt" => <<"CorruptCacheFile", h>> \in issues
      /\ cmd # "status" /\ local[h].state = "present" =>
            /\ Proof \in was[h]
            /\ local[h].size = 2 \/ {"wrong", "evicted"} \cap was[h] # {}
            /\ local[h].size = 1 => "wrong" \in was[h]

\* What the remote has listed it holds, in that size, or it is an issue.
ListingStands ==
    /\ pc \in Remotely /\ asked => lookup = "known"
    /\ pc \in {"list", "download", "rehash"} => asked
    /\ pc \in {"scan", "pick", "list"} \cup Inspecting /\ cmd # "status" => lookup = "none"
    /\ lookup = "known" /\ cmd # "status" => \A h \in Objects :
          /\ listing[h] = 0 => <<"MissingRemoteFile", h>> \in issues
          /\ listing[h] > 0 => remote[h] # Absent
          /\ remote[h] = "cut" /\ listing[h] > 0 /\ local[h].state = "present" =>
                "wrong" \in was[h] \/ <<"CorruptRemoteFile", h>> \in issues

\* What has been downloaded is what the remote holds; once hashed it is good or an issue.
Reported(h) == {<<"MissingRemoteFile", h>>, <<"CorruptRemoteFile", h>>} \cap issues # {}
ScratchStands ==
    /\ \A h \in Objects : scratch[h] \in Contents => remote[h] = scratch[h]
    /\ pc = "rehash" => \A h \in Objects : scratch[h] = NoObject => Reported(h)
    /\ pc = "orphans" /\ asked /\ cmd = "integrity" =>
          \A h \in Objects : remote[h] = "good" \/ Reported(h)

\* status knows of an object the remote did not list that it was not there, or was pushed.
LossStands ==
    cmd = "status" /\ lookup = "known" => \A h \in Objects : listing[h] = 0 =>
       /\ remote[h] = Absent \/ "pushed" \in was[h]
       /\ local[h].state = "missing" => {"nowhere", "pushed"} \cap was[h] # {}

\* Every issue has a cause, and but for broken links an object.
CausesStand == IssuesHaveCause /\ \A i \in issues : i[1] # "BrokenGitSymlink" => i[2] \in Objects

\* The inductive invariant.
Results == CleanMeansHeld /\ WrongIsNeverMissed /\ LossNeedsPush
ReportInv == /\ Types /\ PastStands /\ InspectionStands /\ LoopStands /\ FoundStands
             /\ ListingStands /\ ScratchStands /\ LossStands /\ CausesStand /\ Results

-----------------------------------------------------------------------------

\* What is true of an object at a moment, and what its facts are called.
LEMMA FactsSay ==
  ASSUME NEW f \in Files \cup {NoFile}, NEW r
  PROVE  /\ Facts(f, r) \subseteq Anything
         /\ f = NoFile => "absent" \in Facts(f, r)
         /\ f.bytes \in {"rot", "cut"} => "wrong" \in Facts(f, r)
         /\ f.bytes = "good" => "good" \in Facts(f, r) /\ "held" \in Facts(f, r)
         /\ f # NoFile /\ ~f.writable => "held" \in Facts(f, r)
         /\ r = Absent => "remoteAbsent" \in Facts(f, r)
         /\ f = NoFile /\ r = Absent => "nowhere" \in Facts(f, r)
<1>1. f = NoFile \/ (f \in Files /\ f # NoFile)
  OBVIOUS
<1>2. f.bytes = "good" => f # NoFile
  BY DEF NoFile, File, Absent
<1> QED BY <1>2 DEF Facts, Anything

LEMMA SealedIsFile ==
  ASSUME NEW c \in Contents
  PROVE  File(c, FALSE) \in Files /\ File(c, FALSE) # NoFile /\ File(c, FALSE).bytes = c
<1>1. FALSE \in BOOLEAN
  OBVIOUS
<1>2. File(c, FALSE) \in Files
  BY <1>1 DEF Files, File
<1>3. c # Absent
  BY DEF Contents, Absent
<1> QED BY <1>2, <1>3 DEF File, NoFile

\* The classes of what verify and status may fail with.
LEMMA FailureClasses ==
  ASSUME NEW e \in {<<"Repo", "Canceled">>, <<"Repo", "Walk">>, <<"Remote", "Canceled">>, <<"Remote", "Failed">>,
                    <<"Remote", "InvalidListing">>, <<"Store", "Io">>, <<"Scratch">>}, Fail(e),
         cmd = "status" => e # <<"Scratch">>
  PROVE  pc' = "done" /\ outcome' \in {"canceled", "unavailable"}
  BY DEF Fail, End, StatusClass, VerifyClass, PortClass, RepoClass, StoreClass, RemoteClass

LEMMA InitEstablishes == Init => ReportInv
<1> SUFFICES ASSUME Init PROVE ReportInv
  OBVIOUS
<1>1. /\ cache \in [Objects -> Files \cup {NoFile}] /\ remote \in [Objects -> Contents \cup {Absent}]
      /\ was = [h \in Objects |-> Facts(cache[h], remote[h])]
      /\ local = [h \in Objects |-> Unseen] /\ listing = [h \in Objects |-> 0]
      /\ scratch = [h \in Objects |-> NoObject]
  BY DEF Init
<1>2. was \in [Objects -> SUBSET Anything]
  BY <1>1, FactsSay
<1>3. local \in [Objects -> [state : {"unseen", "present", "missing", "corrupt"}, size : 0..2]]
  BY <1>1 DEF Unseen
<1>4. Types
  <2>1. /\ cmd \in {"status", "verify", "integrity"} /\ asked \in BOOLEAN /\ cancel \in BOOLEAN
        /\ pc \in Stages /\ (pc # "done" => outcome = "none") /\ todo \subseteq Objects /\ cur = NoObject
    BY DEF Init, Stages
  <2>2. /\ listing \in [Objects -> 0..2] /\ scratch \in [Objects -> Contents \cup {Absent, NoObject}]
    BY <1>1
  <2> QED BY <1>1, <1>2, <1>3, <2>1, <2>2 DEF Types
<1>5. \A h \in Objects : local[h] = Unseen /\ local[h].state = "unseen" /\ scratch[h] = NoObject
  BY <1>1 DEF Unseen
<1>6. PastStands /\ InspectionStands /\ LoopStands /\ FoundStands /\ ListingStands /\ LossStands
  BY <1>1, <1>5 DEF Init, PastStands, InspectionStands, LoopStands, FoundStands, ListingStands, LossStands, Inspecting, Remotely
<1>7. ScratchStands /\ CausesStand /\ Results
  BY <1>5 DEF Init, ScratchStands, CausesStand, IssuesHaveCause, Results, CleanMeansHeld, WrongIsNeverMissed, LossNeedsPush,
     Contents, NoObject
<1> QED BY <1>4, <1>6, <1>7 DEF ReportInv

\* A report that fails says nothing.
LEMMA EndStands ==
  ASSUME ReportInv, pc' = "done", outcome' \in {"canceled", "unavailable"}, cancel' \in BOOLEAN,
         UNCHANGED <<options, todo, cur, local, lookup, listing, scratch, issues, world>>
  PROVE  ReportInv'
<1>1. /\ Types /\ PastStands /\ FoundStands /\ ListingStands /\ ScratchStands /\ LossStands /\ CausesStand
      /\ cmd' = cmd /\ asked' = asked /\ UNCHANGED world
  BY DEF ReportInv, options
<1>2. Types' /\ PastStands' /\ InspectionStands' /\ LoopStands'
  BY <1>1 DEF Types, PastStands, InspectionStands, LoopStands, Stages, Inspecting, Remotely, world
<1>3. FoundStands' /\ ListingStands' /\ LossStands' /\ ScratchStands'
  BY <1>1 DEF FoundStands, ListingStands, LossStands, ScratchStands, Inspecting, Remotely, Proof, world
<1>4. CausesStand' /\ Results'
  BY <1>1 DEF CausesStand, IssuesHaveCause, Results, CleanMeansHeld, WrongIsNeverMissed, LossNeedsPush, world
<1> QED BY <1>2, <1>3, <1>4 DEF ReportInv
\* The parts that a step of the loop, of the query or of the download leaves alone.
LEMMA WorldStands ==
  ASSUME ReportInv, UNCHANGED <<cache, remote, was>>
  PROVE  PastStands'
  BY DEF ReportInv, PastStands

LEMMA NothingSaid ==
  ASSUME outcome' = "none"
  PROVE  Results'
  BY DEF Results, CleanMeansHeld, WrongIsNeverMissed, LossNeedsPush

LEMMA ScanStands ==
  ASSUME ReportInv, Scan
  PROVE  ReportInv'
<1>1. CASE pc' = "done"
  <2>1. outcome' \in {"canceled", "unavailable"}
    BY <1>1, FailureClasses DEF Scan
  <2>2. UNCHANGED <<options, cancel, todo, cur, local, lookup, listing, scratch, issues, world>>
    BY <1>1 DEF Scan
  <2> QED BY <1>1, <2>1, <2>2, EndStands DEF ReportInv, Types
<1>2. CASE pc' # "done"
  <2>0. /\ Types /\ LoopStands /\ ListingStands /\ ScratchStands /\ LossStands /\ FoundStands /\ InspectionStands
        /\ cmd' = cmd /\ asked' = asked /\ outcome' = "none" /\ pc = "scan" /\ todo' = Objects
        /\ UNCHANGED <<cancel, cur, local, lookup, listing, scratch, cache, remote, was>>
        /\ pc' \in {"list", "pick"} /\ (pc' = "list" <=> cmd = "status" /\ asked)
        /\ issues' \in {{}, {<<"BrokenGitSymlink", NoObject>>}}
    BY <1>2 DEF ReportInv, Scan, Types, options, world, Fail, End
  <2>1. Types'
    BY <2>0 DEF Types, Stages
  <2>2. PastStands' /\ Results'
    BY <2>0, WorldStands, NothingSaid
  <2>3. InspectionStands' /\ LoopStands'
    BY <2>0 DEF InspectionStands, LoopStands, Inspecting, Remotely
  <2>4. FoundStands'
    <3>1. \A h \in Objects : local'[h].state = "unseen"
      BY <2>0 DEF LoopStands, Unseen
    <3> QED BY <3>1 DEF FoundStands
  <2>5. ListingStands' /\ ScratchStands' /\ LossStands'
    <3>1. \A h \in Objects : local'[h].state = "unseen"
      BY <2>0 DEF LoopStands, Unseen
    <3>2. cmd # "status" => lookup = "none"
      BY <2>0 DEF ListingStands
    <3> QED BY <2>0, <3>1, <3>2 DEF ListingStands, ScratchStands, LossStands, Inspecting, Remotely
  <2>6. CausesStand'
    BY <2>0 DEF CausesStand, IssuesHaveCause
  <2> QED BY <2>1, <2>2, <2>3, <2>4, <2>5, <2>6 DEF ReportInv
<1> QED BY <1>1, <1>2

LEMMA PickStands ==
  ASSUME ReportInv, Pick
  PROVE  ReportInv'
<1>0. /\ Types /\ InspectionStands /\ LoopStands /\ ListingStands /\ ScratchStands /\ LossStands /\ FoundStands /\ CausesStand
      /\ cmd' = cmd /\ asked' = asked /\ pc = "pick"
      /\ UNCHANGED <<cancel, local, lookup, listing, scratch, issues, outcome, cache, remote, was>>
  BY DEF ReportInv, Pick, options, world
<1>1. outcome' = "none"
  BY <1>0 DEF Types
<1>2. \/ \E h \in todo : /\ cur' = h /\ todo' = todo \ {h} /\ h \in Objects
                         /\ pc' = IF cmd = "status" THEN "size" ELSE "stat"
      \/ /\ todo = {} /\ todo' = {} /\ cur' = NoObject
         /\ pc' = IF cmd = "status" THEN "report" ELSE IF asked THEN "list" ELSE "orphans"
  BY <1>0 DEF Pick, Types
<1>3. Types'
  BY <1>0, <1>1, <1>2 DEF Types, Stages, Inspecting, Remotely
<1>4. PastStands' /\ Results'
  BY <1>0, <1>1, WorldStands, NothingSaid
<1>5. InspectionStands'
  BY <1>0, <1>2 DEF InspectionStands, Inspecting, Remotely
<1>6. LoopStands'
  BY <1>0, <1>2 DEF LoopStands, Inspecting, Remotely
<1>7. FoundStands' /\ CausesStand'
  BY <1>0 DEF FoundStands, CausesStand, IssuesHaveCause, Proof
<1>8. ListingStands' /\ ScratchStands' /\ LossStands'
  BY <1>0, <1>2 DEF ListingStands, ScratchStands, LossStands, Inspecting, Remotely, Reported
<1> QED BY <1>3, <1>4, <1>5, <1>6, <1>7, <1>8 DEF ReportInv

LEMMA MeasureStands ==
  ASSUME ReportInv, MeasureObject
  PROVE  ReportInv'
<1>0. /\ Types /\ PastStands /\ InspectionStands /\ LoopStands /\ ListingStands /\ ScratchStands /\ LossStands
      /\ FoundStands /\ CausesStand
      /\ cmd' = cmd /\ asked' = asked /\ pc = "size" /\ pc' = "pick"
      /\ UNCHANGED <<cancel, todo, cur, lookup, listing, scratch, issues, outcome, cache, remote, was>>
  BY DEF ReportInv, MeasureObject, options, world
<1> DEFINE n == Size(cache[cur].bytes)
<1>1. cur \in Objects /\ outcome' = "none"
  BY <1>0 DEF InspectionStands, Inspecting, Types
<1>2. /\ cache[cur] \in Files \cup {NoFile}
      /\ n \in 0..2
      /\ n = 0 <=> cache[cur] = NoFile
      /\ n = 1 <=> cache[cur].bytes = "cut"
  <2>1. cache[cur] = NoFile \/ \E c \in Contents, w \in BOOLEAN : cache[cur] = [bytes |-> c, writable |-> w]
    BY <1>0, <1>1 DEF Types, Files, File
  <2>2. CASE cache[cur] = NoFile
    BY <2>2 DEF NoFile, File, Size, Absent
  <2>3. ASSUME NEW c \in Contents, NEW w \in BOOLEAN, cache[cur] = [bytes |-> c, writable |-> w]
        PROVE  /\ cache[cur] # NoFile /\ cache[cur].bytes = c /\ c # Absent
               /\ n \in 0..2 /\ n # 0 /\ (n = 1 <=> c = "cut")
    <3>1. cache[cur].bytes = c /\ c \in {"good", "rot", "cut"} /\ NoFile.bytes = "absent"
      BY <2>3 DEF NoFile, File, Absent, Contents
    <3> QED BY <3>1 DEF Size, Absent
  <2> QED BY <1>0, <1>1, <2>1, <2>2, <2>3 DEF Types
<1>3. local' = [local EXCEPT ![cur] = [state |-> IF cmd = "status" /\ n = 0 THEN "missing" ELSE "present", size |-> n]]
  BY DEF MeasureObject, Found
<1>4. /\ local'[cur].state = (IF cmd = "status" /\ n = 0 THEN "missing" ELSE "present") /\ local'[cur].size = n
      /\ \A h \in Objects : h # cur => local'[h] = local[h]
  BY <1>0, <1>1, <1>3 DEF Types
<1>5. /\ n = 0 => "absent" \in was[cur]
      /\ n = 0 /\ remote[cur] = Absent => "nowhere" \in was[cur]
      /\ n = 1 => "wrong" \in was[cur]
      /\ n = 0 /\ cmd # "status" => "evicted" \in was[cur]
      /\ cmd # "status" => Proof \in was[cur]
  BY <1>0, <1>1, <1>2, FactsSay DEF PastStands, InspectionStands
<1>6. Types'
  <2>1. [state |-> IF cmd = "status" /\ n = 0 THEN "missing" ELSE "present", size |-> n]
          \in [state : {"unseen", "present", "missing", "corrupt"}, size : 0..2]
    BY <1>2
  <2>2. local' \in [Objects -> [state : {"unseen", "present", "missing", "corrupt"}, size : 0..2]]
    BY <1>0, <1>3, <2>1 DEF Types
  <2> QED BY <1>0, <2>2 DEF Types, Stages
<1>7. PastStands' /\ Results'
  BY <1>0, <1>1, WorldStands, NothingSaid
<1>8. InspectionStands' /\ LoopStands'
  BY <1>0, <1>4 DEF InspectionStands, LoopStands, Inspecting, Remotely
<1>9. FoundStands'
  <2> SUFFICES ASSUME NEW h \in Objects
      PROVE (/\ local[h].state = "missing" => "absent" \in was[h]
             /\ local[h].state = "corrupt" => "wrong" \in was[h]
             /\ cmd # "status" /\ local[h].state = "missing" => <<"MissingCacheFile", h>> \in issues
             /\ cmd # "status" /\ local[h].state = "corrupt" => <<"CorruptCacheFile", h>> \in issues
             /\ cmd # "status" /\ local[h].state = "present" =>
                 /\ Proof \in was[h]
                 /\ local[h].size = 2 \/ {"wrong", "evicted"} \cap was[h] # {}
                 /\ local[h].size = 1 => "wrong" \in was[h])'
    BY DEF FoundStands
  <2>1. CASE h # cur
    BY <1>0, <1>4, <2>1 DEF FoundStands, Proof
  <2>2. CASE h = cur
    BY <1>0, <1>2, <1>4, <1>5, <2>2 DEF Proof
  <2> QED BY <2>1, <2>2
<1>10. ListingStands' /\ ScratchStands'
  BY <1>0, <1>1 DEF ListingStands, ScratchStands, Inspecting, Remotely, Reported
<1>11. LossStands'
  BY <1>0, <1>1, <1>4, <1>5 DEF LossStands
<1>12. CausesStand'
  BY <1>0 DEF CausesStand, IssuesHaveCause
<1> QED BY <1>6, <1>7, <1>8, <1>9, <1>10, <1>11, <1>12 DEF ReportInv
LEMMA ListStands ==
  ASSUME ReportInv, List
  PROVE  ReportInv'
<1>0. /\ Types /\ PastStands /\ InspectionStands /\ LoopStands /\ ListingStands /\ ScratchStands /\ LossStands
      /\ FoundStands /\ CausesStand
      /\ cmd' = cmd /\ asked' = asked /\ pc = "list" /\ outcome = "none"
      /\ UNCHANGED <<cancel, todo, cur, local, scratch, cache, remote, was>>
  BY DEF ReportInv, List, options, world, Types
<1>1. CASE pc' = "done"
  <2>1. outcome' \in {"canceled", "unavailable"} /\ UNCHANGED <<lookup, listing, issues>>
    BY <1>1, FailureClasses DEF List, AfterList
  <2>2. UNCHANGED <<options, cancel, todo, cur, local, scratch, world>>
    BY DEF List
  <2> QED BY <1>0, <1>1, <2>1, <2>2, EndStands DEF Types
<1>2. CASE pc' # "done" /\ lookup' = "failed" /\ cmd = "status"
  <2>0. pc' = "pick" /\ outcome' = "none" /\ UNCHANGED <<listing, issues>>
    BY <1>0, <1>2 DEF List, AfterList, Fail, End, Answered
  <2>1. Types' /\ PastStands' /\ Results'
    BY <1>0, <2>0, WorldStands, NothingSaid DEF Types, Stages
  <2>2. InspectionStands' /\ LoopStands' /\ FoundStands' /\ CausesStand'
    BY <1>0, <1>2, <2>0 DEF InspectionStands, LoopStands, FoundStands, CausesStand, IssuesHaveCause, Inspecting, Remotely, Proof
  <2>3. ListingStands' /\ ScratchStands' /\ LossStands'
    BY <1>0, <1>2, <2>0 DEF ListingStands, ScratchStands, LossStands, Inspecting, Remotely
  <2> QED BY <2>1, <2>2, <2>3 DEF ReportInv
<1>3. CASE pc' # "done" /\ ~(lookup' = "failed" /\ cmd = "status")
  <2>0. /\ ~cancel /\ Answered /\ pc' = AfterList /\ outcome' = "none"
        /\ issues' = IF cmd = "status" THEN issues ELSE issues \cup UNION {Presence(h) : h \in Objects}
    BY <1>0, <1>3 DEF List, Fail, End
  <2>1. \A h \in Objects : /\ listing'[h] \in 0..2 /\ listing'[h] = Size(remote[h])
                           /\ (listing'[h] = 0 <=> remote[h] = Absent)
                           /\ (listing'[h] = 1 <=> remote[h] = "cut")
    <3> SUFFICES ASSUME NEW h \in Objects
                 PROVE  /\ listing'[h] \in 0..2 /\ listing'[h] = Size(remote[h])
                        /\ (listing'[h] = 0 <=> remote[h] = Absent)
                        /\ (listing'[h] = 1 <=> remote[h] = "cut")
      OBVIOUS
    <3>1. listing'[h] = Size(remote[h])
      BY <2>0 DEF Answered
    <3>2. remote[h] \in {"good", "rot", "cut", "absent"}
      BY <1>0 DEF Types, Contents, Absent
    <3> QED BY <3>1, <3>2 DEF Size, Absent
  <2>2. /\ listing' \in [Objects -> 0..2] /\ lookup' = "known"
        /\ pc' = IF cmd = "status" THEN "pick" ELSE IF cmd = "integrity" THEN "download" ELSE "orphans"
    <3>1. listing' = [h \in Objects |-> Size(remote[h])] /\ lookup' = "known"
      BY <2>0 DEF Answered
    <3> QED BY <1>0, <2>0, <2>1, <3>1 DEF AfterList, Types
  <2>3. Types' /\ PastStands' /\ Results'
    BY <1>0, <2>0, <2>2, WorldStands, NothingSaid DEF Types, Stages, Remotely
  <2>4. InspectionStands' /\ LoopStands'
    BY <1>0, <2>2 DEF InspectionStands, LoopStands, Inspecting, Remotely
  <2>5. issues \subseteq issues'
    BY <2>0
  <2>6. FoundStands'
    BY <1>0, <2>5 DEF FoundStands, Proof
  <2>7. cmd # "status" => \A h \in Objects :
          /\ listing'[h] = 0 => <<"MissingRemoteFile", h>> \in issues'
          /\ remote[h] = "cut" /\ local[h].state = "present" =>
               "wrong" \in was[h] \/ <<"CorruptRemoteFile", h>> \in issues'
    <3> SUFFICES ASSUME cmd # "status", NEW h \in Objects
                 PROVE  /\ listing'[h] = 0 => <<"MissingRemoteFile", h>> \in issues'
                        /\ remote[h] = "cut" /\ local[h].state = "present" =>
                             "wrong" \in was[h] \/ <<"CorruptRemoteFile", h>> \in issues'
      OBVIOUS
    <3>1. Presence(h) \subseteq issues'
      BY <2>0
    <3>2. local[h].state = "present" /\ local[h].size = 1 => "wrong" \in was[h]
      BY <1>0 DEF FoundStands
    <3> QED BY <2>1, <3>1, <3>2 DEF Presence
  <2>8. \A h \in Objects : listing'[h] > 0 => remote[h] # Absent
    BY <2>1
  <2>9. ListingStands'
    BY <1>0, <2>2, <2>7, <2>8 DEF ListingStands, Inspecting, Remotely
  <2>10. ScratchStands'
    BY <1>0, <2>2 DEF ScratchStands
  <2>11. LossStands'
    <3>1. cmd = "status" => \A h \in Objects : local[h].state = "unseen"
      BY <1>0 DEF LoopStands, Unseen
    <3> QED BY <1>0, <2>1, <3>1 DEF LossStands
  <2>12. CausesStand'
    <3> SUFFICES ASSUME NEW i \in issues', i \notin issues
                 PROVE  /\ i[1] = "MissingCacheFile" => "absent" \in was[i[2]]
                        /\ i[1] = "CorruptCacheFile" => "wrong" \in was[i[2]]
                        /\ i[1] = "MissingRemoteFile" => "remoteAbsent" \in was[i[2]]
                        /\ i[1] = "CorruptRemoteFile" => \/ remote[i[2]] \in {"rot", "cut"}
                                                         \/ {"wrong", "evicted"} \cap was[i[2]] # {}
                        /\ i[2] \in Objects
      BY <1>0 DEF CausesStand, IssuesHaveCause
    <3>1. PICK h \in Objects : i \in Presence(h) /\ cmd # "status"
      BY <2>0
    <3>2. CASE listing'[h] = 0
      <4>1. i = <<"MissingRemoteFile", h>>
        BY <3>1, <3>2 DEF Presence
      <4>2. "remoteAbsent" \in was[h]
        BY <1>0, <2>1, <3>2, FactsSay DEF PastStands, Types
      <4> QED BY <4>1, <4>2
    <3>3. CASE listing'[h] # 0
      <4>1. i = <<"CorruptRemoteFile", h>> /\ local[h].state = "present" /\ local[h].size # listing'[h]
        BY <3>1, <3>3 DEF Presence
      <4>2. local[h].size = 2 \/ {"wrong", "evicted"} \cap was[h] # {}
        BY <1>0, <3>1, <4>1 DEF FoundStands
      <4>3. local[h].size = 2 => remote[h] = "cut"
        BY <2>1, <3>3, <4>1
      <4> QED BY <4>1, <4>2, <4>3
    <3> QED BY <3>2, <3>3
  <2> QED BY <2>3, <2>4, <2>6, <2>9, <2>10, <2>11, <2>12 DEF ReportInv
<1> QED BY <1>1, <1>2, <1>3

\* An inspection that ends with an issue: the object is missing or corrupt.
LEMMA IssueStands ==
  ASSUME ReportInv, pc \in {"stat", "hash"}, pc' = "pick",
         UNCHANGED <<options, cancel, todo, cur, lookup, listing, scratch, outcome, world>>,
         \/ /\ Found("missing", 0) /\ issues' = issues \cup {<<"MissingCacheFile", cur>>}
            /\ cache[cur] = NoFile
         \/ /\ Found("corrupt", 0) /\ issues' = issues \cup {<<"CorruptCacheFile", cur>>}
            /\ cache[cur].bytes \in {"rot", "cut"}
  PROVE  ReportInv'
<1>0. /\ Types /\ PastStands /\ InspectionStands /\ LoopStands /\ ListingStands /\ ScratchStands /\ LossStands
      /\ FoundStands /\ CausesStand
      /\ cmd' = cmd /\ asked' = asked /\ outcome' = "none"
      /\ UNCHANGED <<cancel, todo, cur, lookup, listing, scratch, cache, remote, was>>
  BY DEF ReportInv, options, world, Types
<1>1. cur \in Objects /\ cmd # "status" /\ cache[cur] \in Files \cup {NoFile}
  BY <1>0 DEF InspectionStands, Inspecting, Types
<1>2. /\ \A h \in Objects : h # cur => local'[h] = local[h]
      /\ \/ /\ local'[cur].state = "missing" /\ <<"MissingCacheFile", cur>> \in issues'
            /\ issues' = issues \cup {<<"MissingCacheFile", cur>>} /\ "absent" \in was[cur]
         \/ /\ local'[cur].state = "corrupt" /\ <<"CorruptCacheFile", cur>> \in issues'
            /\ issues' = issues \cup {<<"CorruptCacheFile", cur>>} /\ "wrong" \in was[cur]
  BY <1>0, <1>1, FactsSay DEF Found, PastStands, Types
<1>3. Types'
  <2>1. \A st \in {"missing", "corrupt"} : [state |-> st, size |-> 0]
          \in [state : {"unseen", "present", "missing", "corrupt"}, size : 0..2]
    OBVIOUS
  <2>2. local' \in [Objects -> [state : {"unseen", "present", "missing", "corrupt"}, size : 0..2]]
    BY <1>0, <2>1 DEF Types, Found
  <2> QED BY <1>0, <2>2 DEF Types, Stages
<1>4. PastStands' /\ Results'
  BY <1>0, WorldStands, NothingSaid
<1>5. InspectionStands' /\ LoopStands'
  BY <1>0, <1>1, <1>2 DEF InspectionStands, LoopStands, Inspecting, Remotely
<1>6. FoundStands'
  BY <1>0, <1>2 DEF FoundStands, Proof
<1>7. ListingStands' /\ ScratchStands' /\ LossStands'
  BY <1>0, <1>1 DEF ListingStands, ScratchStands, LossStands, Inspecting, Remotely
<1>8. CausesStand'
  BY <1>0, <1>1, <1>2 DEF CausesStand, IssuesHaveCause
<1> QED BY <1>3, <1>4, <1>5, <1>6, <1>7, <1>8 DEF ReportInv

\* An inspection that goes on: the object is there, and its proof when it needs no hash.
LEMMA InspectionGoesOn ==
  ASSUME ReportInv, pc \in {"stat", "hash"}, pc' \in {"hash", "seal", "size"},
         UNCHANGED <<options, cancel, todo, cur, local, lookup, listing, scratch, issues, outcome, world>>,
         cache[cur] # NoFile,
         pc' \in {"seal", "size"} => Proof \in was[cur]
  PROVE  ReportInv'
<1>0. /\ Types /\ PastStands /\ InspectionStands /\ LoopStands /\ ListingStands /\ ScratchStands /\ LossStands
      /\ FoundStands /\ CausesStand
      /\ cmd' = cmd /\ asked' = asked /\ outcome' = "none"
      /\ UNCHANGED <<cancel, todo, cur, local, lookup, listing, scratch, issues, cache, remote, was>>
  BY DEF ReportInv, options, world, Types
<1>1. Types' /\ PastStands' /\ Results'
  BY <1>0, WorldStands, NothingSaid DEF Types, Stages, Inspecting
<1>2. InspectionStands' /\ LoopStands' /\ FoundStands' /\ CausesStand'
  BY <1>0 DEF InspectionStands, LoopStands, FoundStands, CausesStand, IssuesHaveCause, Inspecting, Remotely, Proof
<1>3. ListingStands' /\ ScratchStands' /\ LossStands'
  BY <1>0 DEF ListingStands, ScratchStands, LossStands, Inspecting, Remotely
<1> QED BY <1>1, <1>2, <1>3 DEF ReportInv

LEMMA StatStands ==
  ASSUME ReportInv, Stat
  PROVE  ReportInv'
<1>0. /\ pc = "stat" /\ Types /\ PastStands /\ cur \in Objects /\ cache[cur] \in Files \cup {NoFile}
      /\ UNCHANGED <<options, cancel, todo, cur, lookup, listing, scratch, outcome, world>>
  BY DEF ReportInv, Stat, InspectionStands, Inspecting, Types
<1>1. CASE cache[cur] = NoFile
  <2>1. Found("missing", 0) /\ issues' = issues \cup {<<"MissingCacheFile", cur>>} /\ pc' = "pick"
    BY <1>1 DEF Stat
  <2> QED BY <1>0, <1>1, <2>1, IssueStands
<1>2. CASE cache[cur] # NoFile
  <2>1. /\ pc' = IF cmd = "integrity" \/ cache[cur].writable THEN "hash" ELSE "size"
        /\ UNCHANGED <<local, issues>>
    BY <1>2 DEF Stat
  <2>2. pc' = "size" => Proof \in was[cur]
    BY <1>0, <1>2, <2>1, FactsSay DEF PastStands, Proof
  <2> QED BY <1>0, <1>2, <2>1, <2>2, InspectionGoesOn
<1> QED BY <1>1, <1>2

LEMMA HashStands ==
  ASSUME ReportInv, Hash
  PROVE  ReportInv'
<1>0. /\ pc = "hash" /\ Types /\ PastStands /\ cur \in Objects /\ cache[cur] \in Files \cup {NoFile}
      /\ UNCHANGED <<options, cancel, todo, cur, lookup, listing, scratch, world>>
  BY DEF ReportInv, Hash, InspectionStands, Inspecting, Types
<1>1. CASE pc' = "done"
  <2>1. outcome' \in {"canceled", "unavailable"} /\ UNCHANGED <<local, issues>>
    BY <1>1, FailureClasses DEF Hash
  <2> QED BY <1>0, <1>1, <2>1, EndStands DEF Types
<1>2. CASE pc' = "pick"
  <2>1. /\ Found("corrupt", 0) /\ issues' = issues \cup {<<"CorruptCacheFile", cur>>}
        /\ cache[cur].bytes \in {"rot", "cut"} /\ outcome' = outcome
    BY <1>2 DEF Hash, Fail, End
  <2> QED BY <1>0, <1>2, <2>1, IssueStands
<1>3. CASE pc' \notin {"done", "pick"}
  <2>1. /\ cache[cur].bytes = "good" /\ pc' \in {"seal", "size"} /\ UNCHANGED <<local, issues, outcome>>
    BY <1>3 DEF Hash, Fail, End
  <2>2. cache[cur] # NoFile /\ Proof \in was[cur]
    BY <1>0, <2>1, FactsSay DEF PastStands, Proof, NoFile, File, Absent
  <2> QED BY <1>0, <2>1, <2>2, InspectionGoesOn
<1> QED BY <1>1, <1>2, <1>3
\* What other commands do to an object: its past grows, and what the remote holds stays.
LEMMA WorldMoves ==
  ASSUME ReportInv, NEW h \in Objects, NEW f \in Files \cup {NoFile}, NEW r \in Contents \cup {Absent},
         NEW event \in {"evicted", "published", "pushed"}, pc # "done",
         cache' = [cache EXCEPT ![h] = f], remote' = [remote EXCEPT ![h] = r],
         was' = [was EXCEPT ![h] = @ \cup Facts(f, r) \cup {event}],
         UNCHANGED <<options, cancel, pc, todo, cur, local, lookup, listing, scratch, issues, outcome>>,
         f = NoFile => cache[h] = NoFile \/ event = "evicted",
         r # remote[h] => remote[h] = Absent /\ event = "pushed"
  PROVE  ReportInv'
<1>0. /\ Types /\ PastStands /\ InspectionStands /\ LoopStands /\ ListingStands /\ ScratchStands /\ LossStands
      /\ FoundStands /\ CausesStand
      /\ cmd' = cmd /\ asked' = asked /\ outcome' = "none"
      /\ UNCHANGED <<cancel, pc, todo, cur, local, lookup, listing, scratch, issues>>
  BY DEF ReportInv, options, Types
<1>1. /\ \A x \in Objects : was[x] \subseteq was'[x]
      /\ \A x \in Objects : was'[x] = IF x = h THEN was[h] \cup Facts(f, r) \cup {event} ELSE was[x]
      /\ \A x \in Objects : cache'[x] = IF x = h THEN f ELSE cache[x]
      /\ \A x \in Objects : remote'[x] = IF x = h THEN r ELSE remote[x]
  BY <1>0 DEF Types
<1>2. /\ \A x \in Objects : remote[x] # Absent => remote'[x] = remote[x]
      /\ \A x \in Objects : remote'[x] = remote[x] \/ "pushed" \in was'[x]
      /\ \A x \in Objects : cache'[x] = NoFile => cache[x] = NoFile \/ "evicted" \in was'[x]
  BY <1>1
<1>3. Types'
  <2>1. was[h] \cup Facts(f, r) \cup {event} \subseteq Anything
    BY <1>0, FactsSay DEF Types, Anything
  <2> QED BY <1>0, <2>1 DEF Types
<1>4. PastStands'
  BY <1>0, <1>1 DEF PastStands
<1>5. Results'
  BY <1>0, NothingSaid
<1>6. InspectionStands' /\ LoopStands'
  BY <1>0, <1>1, <1>2 DEF InspectionStands, LoopStands, Proof, Inspecting
<1>7. FoundStands'
  BY <1>0, <1>1 DEF FoundStands, Proof
<1>8. ListingStands'
  BY <1>0, <1>1, <1>2 DEF ListingStands, Absent, Types
<1>9. ScratchStands'
  <2>1. Absent \notin Contents /\ Absent # "good"
    BY DEF Absent, Contents
  <2> QED BY <1>0, <1>2, <2>1 DEF ScratchStands, Reported
<1>10. LossStands'
  BY <1>0, <1>1, <1>2 DEF LossStands
<1>11. CausesStand'
  <2> SUFFICES ASSUME NEW i \in issues
               PROVE  (/\ i[1] = "MissingCacheFile" => "absent" \in was[i[2]]
                       /\ i[1] = "CorruptCacheFile" => "wrong" \in was[i[2]]
                       /\ i[1] = "MissingRemoteFile" => "remoteAbsent" \in was[i[2]]
                       /\ i[1] = "CorruptRemoteFile" => \/ remote[i[2]] \in {"rot", "cut"}
                                                        \/ {"wrong", "evicted"} \cap was[i[2]] # {})'
    BY <1>0 DEF CausesStand, IssuesHaveCause
  <2>1. i[1] # "BrokenGitSymlink" => i[2] \in Objects
    BY <1>0 DEF CausesStand
  <2> QED BY <1>0, <1>1, <1>2, <2>1 DEF CausesStand, IssuesHaveCause, Absent
<1> QED BY <1>3, <1>4, <1>5, <1>6, <1>7, <1>8, <1>9, <1>10, <1>11 DEF ReportInv
\* set_permissions adds to what has been true of an object that is there.
LEMMA SealStands ==
  ASSUME ReportInv, Seal
  PROVE  ReportInv'
<1>1. CASE pc' = "done"
  <2>1. outcome' \in {"canceled", "unavailable"} /\ UNCHANGED <<cache, was>>
    BY <1>1, FailureClasses DEF Seal
  <2>2. UNCHANGED <<options, cancel, todo, cur, local, lookup, listing, scratch, issues, remote>>
    BY DEF Seal
  <2> QED BY <1>1, <2>1, <2>2, EndStands DEF ReportInv, Types, world
<1>2. CASE pc' # "done"
  <2>0. /\ Types /\ PastStands /\ InspectionStands /\ LoopStands /\ ListingStands /\ ScratchStands /\ LossStands
        /\ FoundStands /\ CausesStand
        /\ cmd' = cmd /\ asked' = asked /\ pc = "seal" /\ pc' = "size" /\ outcome' = "none" /\ cache[cur] # NoFile
        /\ cache' = [cache EXCEPT ![cur] = File(@.bytes, FALSE)]
        /\ was' = [was EXCEPT ![cur] = @ \cup Facts(cache'[cur], remote[cur])]
        /\ UNCHANGED <<cancel, todo, cur, local, lookup, listing, scratch, issues, remote>>
    BY <1>2 DEF ReportInv, Seal, Types, options, Fail, End
  <2>1. cur \in Objects /\ cmd # "status" /\ cache[cur] \in Files
    BY <2>0 DEF InspectionStands, Inspecting, Types
  <2> DEFINE f == File(cache[cur].bytes, FALSE)
  <2>2. f \in Files /\ f # NoFile
    <3>1. PICK c \in Contents, w \in BOOLEAN : cache[cur] = [bytes |-> c, writable |-> w]
      BY <2>1 DEF Files, File
    <3>2. cache[cur].bytes = c
      BY <3>1
    <3>3. f.bytes = c /\ NoFile.bytes = "absent" /\ c # "absent"
      BY <3>2 DEF NoFile, File, Absent, Contents
    <3>4. f \in Files
      BY <3>2, SealedIsFile
    <3>5. f # NoFile
      BY <3>3
    <3> QED BY <3>4, <3>5
  <2>3. /\ \A x \in Objects : cache'[x] = IF x = cur THEN f ELSE cache[x]
        /\ \A x \in Objects : was'[x] = IF x = cur THEN was[cur] \cup Facts(f, remote[cur]) ELSE was[x]
        /\ \A x \in Objects : was[x] \subseteq was'[x]
    BY <2>0, <2>1 DEF Types
  <2>4. Types'
    <3>1. was[cur] \cup Facts(f, remote[cur]) \subseteq Anything
      BY <2>0, <2>1, <2>2, FactsSay DEF Types
    <3>2. was' \in [Objects -> SUBSET Anything]
      BY <2>0, <2>1, <2>3, <3>1 DEF Types
    <3>3. cache' \in [Objects -> Files \cup {NoFile}]
      BY <2>0, <2>1, <2>2 DEF Types
    <3> QED BY <2>0, <3>2, <3>3 DEF Types, Stages, Inspecting
  <2>5. PastStands'
    <3> SUFFICES ASSUME NEW h \in Objects PROVE Facts(cache'[h], remote'[h]) \subseteq was'[h]
      BY DEF PastStands
    <3>1. CASE h = cur
      <4>1. cache'[h] = f /\ remote'[h] = remote[cur] /\ was'[h] = was[cur] \cup Facts(f, remote[cur])
        BY <2>0, <2>1, <2>3, <3>1
      <4> HIDE DEF f
      <4> QED BY <4>1
    <3>2. CASE h # cur
      BY <2>0, <2>3, <3>2 DEF PastStands
    <3> QED BY <3>1, <3>2
  <2>6. InspectionStands' /\ LoopStands'
    BY <2>0, <2>1, <2>2, <2>3 DEF InspectionStands, LoopStands, Inspecting, Remotely, Proof
  <2>7. FoundStands'
    BY <2>0, <2>3 DEF FoundStands, Proof
  <2>8. ListingStands' /\ ScratchStands' /\ LossStands'
    BY <2>0, <2>1 DEF ListingStands, ScratchStands, LossStands, Inspecting, Remotely
  <2>9. CausesStand'
    BY <2>0, <2>3 DEF CausesStand, IssuesHaveCause
  <2>10. Results'
    BY <2>0, NothingSaid
  <2> QED BY <2>4, <2>5, <2>6, <2>7, <2>8, <2>9, <2>10 DEF ReportInv
<1> QED BY <1>1, <1>2

LEMMA DownloadStands ==
  ASSUME ReportInv, Download
  PROVE  ReportInv'
<1>0. /\ Types /\ PastStands /\ InspectionStands /\ LoopStands /\ ListingStands /\ ScratchStands /\ LossStands
      /\ FoundStands /\ CausesStand
      /\ cmd' = cmd /\ asked' = asked /\ pc = "download" /\ outcome = "none" /\ asked /\ lookup = "known"
      /\ cmd # "status"
      /\ UNCHANGED <<options, cancel, todo, cur, local, lookup, listing, issues, world>>
      /\ UNCHANGED <<cache, remote, was>>
  BY DEF ReportInv, Download, options, world, Types, ListingStands, InspectionStands, Remotely
<1>1. CASE pc' = "done"
  <2>1. outcome' \in {"canceled", "unavailable"} /\ UNCHANGED scratch
    BY <1>1, FailureClasses, <1>0 DEF Download
  <2> QED BY <1>0, <1>1, <2>1, EndStands DEF Types
<1>2. CASE pc' # "done"
  <2>1. /\ outcome' = "none"
        /\ \/ Wanted = {} /\ pc' = "orphans" /\ scratch' = scratch
           \/ /\ pc' = "rehash"
              /\ \E lost \in SUBSET Wanted :
                   scratch' = [h \in Objects |-> IF h \notin Wanted THEN NoObject
                                                 ELSE IF h \in lost THEN Absent ELSE remote[h]]
    BY <1>0, <1>2 DEF Download, Fail, End
  <2>2. \A h \in Objects : h \notin Wanted => Reported(h)
    <3> SUFFICES ASSUME NEW h \in Objects, h \notin Wanted PROVE Reported(h)
      OBVIOUS
    <3>1. listing[h] = 0 \/ <<"CorruptRemoteFile", h>> \in issues
      BY <1>0 DEF Wanted, Types
    <3>2. listing[h] = 0 => <<"MissingRemoteFile", h>> \in issues
      BY <1>0 DEF ListingStands
    <3> QED BY <3>1, <3>2 DEF Reported
  <2>3. /\ \A h \in Objects : scratch'[h] \in Contents => remote[h] = scratch'[h]
        /\ pc' = "rehash" => \A h \in Objects : scratch'[h] = NoObject => h \notin Wanted
        /\ scratch' \in [Objects -> Contents \cup {Absent, NoObject}]
    <3>1. CASE scratch' = scratch /\ pc' = "orphans"
      BY <1>0, <3>1 DEF ScratchStands, Types
    <3>2. CASE pc' = "rehash"
      <4>1. PICK lost \in SUBSET Wanted :
                   scratch' = [h \in Objects |-> IF h \notin Wanted THEN NoObject
                                                 ELSE IF h \in lost THEN Absent ELSE remote[h]]
        BY <2>1, <3>2
      <4>2. NoObject \notin Contents /\ Absent \notin Contents /\ NoObject # Absent
        BY DEF NoObject, Absent, Contents
      <4>3. \A h \in Objects : remote[h] \in Contents \cup {Absent}
        BY <1>0 DEF Types
      <4> QED BY <4>1, <4>2, <4>3
    <3> QED BY <2>1, <3>1, <3>2
  <2>4. Types' /\ PastStands' /\ Results'
    BY <1>0, <2>1, <2>3, WorldStands, NothingSaid DEF Types, Stages, Remotely
  <2>5. InspectionStands' /\ LoopStands' /\ FoundStands' /\ CausesStand'
    BY <1>0, <2>1 DEF InspectionStands, LoopStands, FoundStands, CausesStand, IssuesHaveCause, Inspecting, Remotely, Proof
  <2>6. ListingStands' /\ LossStands'
    BY <1>0, <2>1 DEF ListingStands, LossStands, Inspecting, Remotely
  <2>7. ScratchStands'
    BY <1>0, <2>1, <2>2, <2>3 DEF ScratchStands, Reported
  <2> QED BY <2>4, <2>5, <2>6, <2>7 DEF ReportInv
<1> QED BY <1>1, <1>2

LEMMA RehashStands ==
  ASSUME ReportInv, Rehash
  PROVE  ReportInv'
<1>0. /\ Types /\ PastStands /\ InspectionStands /\ LoopStands /\ ListingStands /\ ScratchStands /\ LossStands
      /\ FoundStands /\ CausesStand
      /\ cmd' = cmd /\ asked' = asked /\ pc = "rehash" /\ outcome = "none" /\ asked /\ lookup = "known"
      /\ cmd # "status"
      /\ UNCHANGED <<options, cancel, todo, cur, local, lookup, listing, scratch, world>>
      /\ UNCHANGED <<cache, remote, was>>
  BY DEF ReportInv, Rehash, options, world, Types, ListingStands, InspectionStands, Remotely
<1>1. CASE pc' = "done"
  <2>1. outcome' \in {"canceled", "unavailable"} /\ UNCHANGED issues
    BY <1>1, FailureClasses, <1>0 DEF Rehash
  <2> QED BY <1>0, <1>1, <2>1, EndStands DEF Types
<1>2. CASE pc' # "done"
  <2> DEFINE wrong == {x \in Objects : scratch[x] \in {"rot", "cut"}}
  <2>1. /\ outcome' = "none" /\ pc' = "orphans" /\ \A h \in Objects : scratch[h] # Absent
        /\ issues' = issues \cup {<<"CorruptRemoteFile", h>> : h \in wrong}
    BY <1>0, <1>2 DEF Rehash, Fail, End
  <2>2. issues \subseteq issues' /\ \A h \in wrong : <<"CorruptRemoteFile", h>> \in issues'
    BY <2>1
  <2>3. \A h \in Objects : Reported(h) => Reported(h)'
    BY <2>2 DEF Reported
  <2>4. \A h \in Objects : remote[h] = "good" \/ Reported(h)'
    <3> SUFFICES ASSUME NEW h \in Objects PROVE remote[h] = "good" \/ Reported(h)'
      OBVIOUS
    <3>1. scratch[h] \in {"good", "rot", "cut", NoObject}
      BY <1>0, <2>1 DEF Types, Contents
    <3>2. CASE scratch[h] = NoObject
      BY <1>0, <2>3, <3>2 DEF ScratchStands
    <3>3. CASE scratch[h] = "good"
      BY <1>0, <3>3 DEF ScratchStands, Contents
    <3>4. CASE scratch[h] \in {"rot", "cut"}
      BY <2>2, <3>4 DEF Reported
    <3> QED BY <3>1, <3>2, <3>3, <3>4
  <2>5. Types' /\ PastStands' /\ Results'
    BY <1>0, <2>1, WorldStands, NothingSaid DEF Types, Stages, Remotely
  <2>6. InspectionStands' /\ LoopStands' /\ FoundStands'
    BY <1>0, <2>1, <2>2 DEF InspectionStands, LoopStands, FoundStands, Inspecting, Remotely, Proof
  <2>7. ListingStands' /\ LossStands'
    BY <1>0, <2>1, <2>2 DEF ListingStands, LossStands, Inspecting, Remotely
  <2>8. ScratchStands'
    BY <1>0, <2>1, <2>4 DEF ScratchStands
  <2>9. CausesStand'
    <3>1. \A h \in wrong : remote[h] \in {"rot", "cut"} /\ h \in Objects
      BY <1>0 DEF ScratchStands, Contents
    <3>2. \A i \in issues' : i \in issues \/ \E h \in wrong : i = <<"CorruptRemoteFile", h>>
      BY <2>1
    <3>3. \A h \in wrong : <<"CorruptRemoteFile", h>>[1] = "CorruptRemoteFile" /\ <<"CorruptRemoteFile", h>>[2] = h
      OBVIOUS
    <3> QED BY <1>0, <3>1, <3>2, <3>3 DEF CausesStand, IssuesHaveCause
  <2> QED BY <2>5, <2>6, <2>7, <2>8, <2>9 DEF ReportInv
<1> QED BY <1>1, <1>2

\* The verdict of verify: whatever it says is backed by what has been found.
LEMMA OrphansStand ==
  ASSUME ReportInv, Orphans
  PROVE  ReportInv'
<1>0. /\ Types /\ PastStands /\ InspectionStands /\ LoopStands /\ ListingStands /\ ScratchStands /\ LossStands
      /\ FoundStands /\ CausesStand
      /\ cmd' = cmd /\ asked' = asked /\ pc = "orphans" /\ pc' = "done" /\ cmd # "status"
      /\ UNCHANGED <<options, cancel, todo, cur, local, lookup, listing, scratch, issues, world>>
      /\ UNCHANGED <<cache, remote, was>>
  BY DEF ReportInv, Orphans, options, world, Fail, End, InspectionStands, Remotely
<1>1. CASE Fail(<<"Store", "Io">>)
  <2>1. outcome' \in {"canceled", "unavailable"}
    BY <1>0, <1>1, FailureClasses
  <2> QED BY <1>0, <2>1, EndStands DEF Types
<1>2. CASE End(Verdict)
  <2>1. outcome' = Verdict
    BY <1>2 DEF End
  <2>2. \A h \in Objects : local[h].state \in {"present", "missing", "corrupt"}
    BY <1>0 DEF LoopStands, Types, Remotely, Inspecting
  <2>3. Verdict = "ok" => issues = {}
    BY DEF Verdict
  <2>4. \A h \in Objects : Verdict \in {"ok", "missing"} => <<"CorruptCacheFile", h>> \notin issues
    <3> SUFFICES ASSUME NEW h \in Objects, <<"CorruptCacheFile", h>> \in issues
                 PROVE  Verdict = "integrity"
      OBVIOUS
    <3>1. "CorruptCacheFile" \in Kinds /\ issues # {}
      BY DEF Kinds
    <3> QED BY <3>1 DEF Verdict
  <2>5. CleanMeansHeld'
    <3> SUFFICES ASSUME issues = {}, NEW h \in Objects
                 PROVE  /\ Proof \in was[h]
                        /\ asked => IF cmd = "integrity" THEN remote[h] = "good"
                             ELSE remote[h] # Absent /\ (remote[h] = "cut" => was[h] \cap {"wrong", "absent"} # {})
      BY <1>0, <2>1, <2>3 DEF CleanMeansHeld, Proof
    <3>1. local[h].state = "present" /\ Proof \in was[h]
      BY <1>0, <2>2 DEF FoundStands
    <3>2. asked => lookup = "known" /\ listing[h] > 0 /\ remote[h] # Absent
      BY <1>0 DEF ListingStands, Remotely, Types
    <3>3. asked /\ cmd = "integrity" => remote[h] = "good"
      BY <1>0 DEF ScratchStands, Reported
    <3>4. asked /\ remote[h] = "cut" => "wrong" \in was[h]
      BY <1>0, <3>1, <3>2 DEF ListingStands
    <3> QED BY <3>1, <3>2, <3>3, <3>4
  <2>6. WrongIsNeverMissed'
    <3> SUFFICES ASSUME Verdict \in {"ok", "missing"}, cmd = "integrity", NEW h \in Objects
                 PROVE  {"good", "absent"} \cap was[h] # {}
      BY <1>0, <2>1 DEF WrongIsNeverMissed
    <3>1. local[h].state # "corrupt"
      BY <1>0, <2>4 DEF FoundStands
    <3> QED BY <1>0, <2>2, <3>1 DEF FoundStands, Proof
  <2>7. LossNeedsPush'
    BY <1>0, <2>1 DEF LossNeedsPush, Verdict
  <2>8. Types' /\ PastStands' /\ InspectionStands' /\ LoopStands'
    BY <1>0 DEF Types, PastStands, InspectionStands, LoopStands, Stages, Inspecting, Remotely
  <2>9. FoundStands' /\ ListingStands' /\ LossStands' /\ ScratchStands' /\ CausesStand'
    BY <1>0 DEF FoundStands, ListingStands, LossStands, ScratchStands, CausesStand, IssuesHaveCause, Inspecting, Remotely, Proof
  <2> QED BY <2>5, <2>6, <2>7, <2>8, <2>9 DEF ReportInv, Results
<1> QED BY <1>1, <1>2 DEF Orphans

\* The report of status.
LEMMA ReportStands ==
  ASSUME ReportInv, Report
  PROVE  ReportInv'
<1>0. /\ Types /\ PastStands /\ InspectionStands /\ LoopStands /\ ListingStands /\ ScratchStands /\ LossStands
      /\ FoundStands /\ CausesStand
      /\ cmd' = cmd /\ asked' = asked /\ pc = "report" /\ pc' = "done" /\ cmd = "status" /\ outcome' = "report"
      /\ UNCHANGED <<cancel, todo, cur, local, lookup, listing, scratch, issues, cache, remote, was>>
  BY DEF ReportInv, Report, options, world, End, InspectionStands
<1>1. Results'
  BY <1>0 DEF Results, CleanMeansHeld, WrongIsNeverMissed, LossNeedsPush, LossStands
<1>2. Types' /\ PastStands' /\ InspectionStands' /\ LoopStands'
  BY <1>0 DEF Types, PastStands, InspectionStands, LoopStands, Stages, Inspecting, Remotely
<1>3. FoundStands' /\ ListingStands' /\ LossStands' /\ ScratchStands' /\ CausesStand'
  BY <1>0 DEF FoundStands, ListingStands, LossStands, ScratchStands, CausesStand, IssuesHaveCause, Inspecting, Remotely, Proof
<1> QED BY <1>1, <1>2, <1>3 DEF ReportInv

-----------------------------------------------------------------------------

LEMMA InvariantIsKept == ReportInv /\ [Next]_vars => ReportInv'
<1> SUFFICES ASSUME ReportInv, [Next]_vars PROVE ReportInv'
  OBVIOUS
<1>1. CASE Command
  BY <1>1, ScanStands, PickStands, MeasureStands, ListStands, StatStands, HashStands, SealStands, DownloadStands,
     RehashStands, OrphansStand, ReportStands DEF Command
<1>2. CASE Interrupt
  <2>1. /\ cancel' \in BOOLEAN /\ pc # "done" /\ cmd' = cmd /\ asked' = asked /\ pc' = pc
        /\ UNCHANGED <<todo, cur, local, lookup, listing, scratch, issues, outcome, cache, remote, was>>
    BY <1>2 DEF Interrupt, options, world
  <2>2. Types' /\ PastStands' /\ InspectionStands' /\ LoopStands' /\ FoundStands'
    BY <2>1 DEF ReportInv, Types, PastStands, InspectionStands, LoopStands, FoundStands, Inspecting, Remotely, Proof
  <2>3. ListingStands' /\ ScratchStands' /\ LossStands' /\ CausesStand' /\ Results'
    BY <2>1 DEF ReportInv, ListingStands, ScratchStands, LossStands, CausesStand, IssuesHaveCause, Results,
       CleanMeansHeld, WrongIsNeverMissed, LossNeedsPush, Reported, Inspecting, Remotely
  <2> QED BY <2>2, <2>3 DEF ReportInv
<1>3. ASSUME NEW h \in Shared, Evict(h) \/ Publish(h) \/ PushOther(h)
      PROVE  ReportInv'
  <2>1. h \in Objects /\ cache[h] \in Files \cup {NoFile} /\ remote[h] \in Contents \cup {Absent}
    BY ReportsAssumption DEF ReportInv, Types
  <2>2. CASE Evict(h)
    BY <2>1, <2>2, WorldMoves DEF Evict, Becomes
  <2>3. CASE Publish(h)
    <3>1. PICK c \in {"good", remote[h]} \ {Absent} :
             cache[h] = NoFile /\ Becomes(h, File(c, FALSE), remote[h], "published")
      BY <2>3 DEF Publish
    <3>2. c \in Contents
      BY <2>1, <3>1 DEF Contents, Absent
    <3>3. File(c, FALSE) \in Files /\ File(c, FALSE) # NoFile
      BY <3>2, SealedIsFile
    <3> QED BY <2>1, <3>1, <3>3, WorldMoves DEF Becomes
  <2>4. CASE PushOther(h)
    <3>1. PICK c \in {"good"} \cup (IF cache[h] # NoFile /\ ~cache[h].writable THEN {cache[h].bytes} ELSE {}) :
             remote[h] = Absent /\ Becomes(h, cache[h], c, "pushed")
      BY <2>4 DEF PushOther
    <3>2. cache[h] # NoFile => cache[h].bytes \in Contents
      BY <2>1 DEF Files, File
    <3>3. c \in Contents
      BY <3>1, <3>2 DEF Contents
    <3> QED BY <2>1, <3>1, <3>3, WorldMoves DEF Becomes
  <2> QED BY <1>3, <2>2, <2>3, <2>4
<1>4. CASE UNCHANGED vars
  <2>1. /\ cmd' = cmd /\ asked' = asked /\ pc' = pc
        /\ UNCHANGED <<cancel, todo, cur, local, lookup, listing, scratch, issues, outcome, cache, remote, was>>
    BY <1>4 DEF vars
  <2>2. Types' /\ PastStands' /\ InspectionStands' /\ LoopStands' /\ FoundStands'
    BY <2>1 DEF ReportInv, Types, PastStands, InspectionStands, LoopStands, FoundStands, Inspecting, Remotely, Proof
  <2>3. ListingStands' /\ ScratchStands' /\ LossStands' /\ CausesStand' /\ Results'
    BY <2>1 DEF ReportInv, ListingStands, ScratchStands, LossStands, CausesStand, IssuesHaveCause, Results,
       CleanMeansHeld, WrongIsNeverMissed, LossNeedsPush, Reported, Inspecting, Remotely
  <2> QED BY <2>2, <2>3 DEF ReportInv
<1> QED BY <1>1, <1>2, <1>3, <1>4 DEF Next, Done

\* The inductive invariant holds in every run.
LEMMA InvariantHolds == Spec => []ReportInv
<1> QED BY InitEstablishes, InvariantIsKept, PTL DEF Spec

\* Whatever others do to the cache and the remote meanwhile, each issue verify reports was so at
\* some moment, up to the two readings of "corrupt remote file" (verify.rs, the issues it pushes).
THEOREM IssuesAreCaused == Spec => []IssuesHaveCause
<1>1. ReportInv => IssuesHaveCause
  BY DEF ReportInv, CausesStand
<1> QED BY <1>1, InvariantHolds, PTL

\* A clean verify means that each object was held, and is on the remote (verify.rs, an empty report).
THEOREM CleanIsHeld == Spec => []CleanMeansHeld
<1>1. ReportInv => CleanMeansHeld
  BY DEF ReportInv, Results
<1> QED BY <1>1, InvariantHolds, PTL

\* Bytes that stay wrong are never passed over by verify --with-integrity (rehash_object, and the
\* precedence of classify_failed_report).
THEOREM WrongIsFound == Spec => []WrongIsNeverMissed
<1>1. ReportInv => WrongIsNeverMissed
  BY DEF ReportInv, Results
<1> QED BY <1>1, InvariantHolds, PTL

\* status calls an object lost only if it was nowhere at some moment or has been pushed since
\* (status.rs reads the remote before the cache).
THEOREM LossIsReal == Spec => []LossNeedsPush
<1>1. ReportInv => LossNeedsPush
  BY DEF ReportInv, Results
<1> QED BY <1>1, InvariantHolds, PTL
=============================================================================
