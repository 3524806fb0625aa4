------------------------------- MODULE PullProofs -------------------------------
(***************************************************************************)
(* Theorems about Pull for any set of objects and any number of workers.   *)
(*                                                                         *)
(* The argument: while a pull runs nobody evicts, and whatever add does at *)
(* the same time leaves a protected object protected and a rotten one      *)
(* alone.  So what the inspection found is still true when it is acted on: *)
(* what was there is there, and what is removed is still rotten.           *)
(***************************************************************************)
EXTENDS Pull, FiniteSetTheorems, TLAPS

\* The stages in which there is a plan.
Planned == {"sizes", "drop", "download", "staged", "accept"}

\* TypeOK without the bound on the workers.
Typed ==
  /\ pc \in Stages
  /\ mode \in {"trust", "verify"}
  /\ jobs \in Nat
  /\ todo \subseteq Scope
  /\ present \subseteq Scope
  /\ untrusted \subseteq Scope
  /\ download \subseteq Scope
  /\ attempt \in Nat \ {0}
  /\ scratch \in [Object -> Remote]
  /\ work \in [Object -> Progress]
  /\ interrupted \in BOOLEAN
  /\ cached \in [Object -> Cached]
  /\ remote \in [Object -> Remote]
  /\ added \subseteq Object

\* No download is being accepted before all of them are there.
NoneStarted ==
  pc \in {"scan", "inspect"} \cup (Planned \ {"accept"}) =>
    \A o \in Object : work[o] = "waiting"

TypeInv == Typed /\ PoolBounded /\ NoneStarted

LEMMA TypedInit == Init => Typed /\ NoneStarted
<1> SUFFICES ASSUME Init PROVE Typed /\ NoneStarted
  OBVIOUS
<1>1. cached \in [Object -> Cached]
  BY DEF Init, Cached
<1>2. interrupted \in BOOLEAN
  <2>1. interrupted = FALSE
    BY DEF Init
  <2> QED
    BY <2>1, Zenon
<1>3. scratch \in [Object -> Remote] /\ work \in [Object -> Progress]
  BY DEF Init, Remote, Progress
<1>4. Typed
  BY <1>1, <1>2, <1>3 DEF Init, Typed, Stages
<1>5. NoneStarted
  BY DEF Init, NoneStarted
<1> QED
  BY <1>4, <1>5

LEMMA TypedStep == Typed /\ NoneStarted /\ [Next]_vars => Typed' /\ NoneStarted'
<1> SUFFICES ASSUME Typed, NoneStarted, [Next]_vars PROVE Typed' /\ NoneStarted'
  OBVIOUS
<1> USE PullAssumption
    DEF Typed, NoneStarted, Stages, Ended, Transfers, Remote, Cached, Progress, Planned,
        plan, outside
<1>1. CASE Start
  <2>1. jobs' \in Nat
    BY <1>1 DEF Start
  <2>2. work' \in [Object -> Progress] /\ scratch' \in [Object -> Remote]
    BY <1>1 DEF Start
  <2>3. NoneStarted'
    BY <1>1 DEF Start
  <2>4. interrupted' \in BOOLEAN
    <3>1. interrupted' = FALSE
      BY <1>1 DEF Start
    <3> QED
      BY <3>1, Zenon
  <2>5. Typed'
    BY <1>1, <2>1, <2>2, <2>4 DEF Start
  <2> QED
    BY <2>3, <2>5
<1>2. CASE Scan \/ InspectCanceled \/ MakePlan
  BY <1>2 DEF Scan, InspectCanceled, MakePlan
<1>3. CASE QuerySizes \/ DropEnds \/ DownloadEnds \/ Staged \/ Join
  BY <1>3 DEF QuerySizes, DropEnds, DownloadEnds, Staged, Join
<1>4. CASE Retry \/ GiveUp \/ Cancel
  BY <1>4 DEF Retry, GiveUp, Cancel
<1>5. CASE Interrupt \/ Kill
  BY <1>5 DEF Interrupt, Kill, Running
<1>6. ASSUME NEW o \in Object, Inspect(o) \/ Drop(o) \/ Download(o)
      PROVE  Typed' /\ NoneStarted'
  BY <1>6 DEF Inspect, Drop, Download
<1>7. ASSUME NEW o \in Object, Look(o) \/ Accept(o) \/ AcceptFails(o)
      PROVE  Typed' /\ NoneStarted'
  BY <1>7 DEF Look, Accept, AcceptFails
<1>8. ASSUME NEW o \in Object, AddElsewhere(o) \/ Evict(o) \/ PushElsewhere(o)
      PROVE  Typed' /\ NoneStarted'
  BY <1>8 DEF AddElsewhere, Evict, PushElsewhere, Running
<1>9. CASE UNCHANGED vars
  BY <1>9 DEF vars
<1> QED
  BY <1>1, <1>2, <1>3, <1>4, <1>5, <1>6, <1>7, <1>8, <1>9 DEF Next, Step

\* A pool that has a free worker has one more at work after it has taken up a
\* download, and never more than there are.
LEMMA PoolStep == TypeInv /\ [Next]_vars => PoolBounded'
<1> SUFFICES ASSUME TypeInv, [Next]_vars PROVE PoolBounded'
  OBVIOUS
<1> USE DEF TypeInv
<1>1. IsFiniteSet(Busy) /\ Cardinality(Busy) \in Nat /\ jobs \in Nat /\ jobs' \in Nat
  <2>1. Busy \in SUBSET Object
    BY PullAssumption DEF Busy, Typed
  <2>2. IsFiniteSet(Busy)
    BY <2>1, PullAssumption, FS_Subset
  <2>3. jobs \in Nat /\ jobs' \in Nat
    BY TypedStep DEF Typed
  <2> QED
    BY <2>2, <2>3, FS_CardinalityType
<1>2. CASE Busy' = {}
  BY <1>1, <1>2, FS_EmptySet DEF PoolBounded
<1>3. CASE jobs' = jobs /\ Busy' \subseteq Busy
  <2>1. Cardinality(Busy') <= Cardinality(Busy) /\ Cardinality(Busy') \in Nat
    BY <1>1, <1>3, FS_Subset, FS_CardinalityType
  <2> QED
    BY <1>1, <1>3, <2>1 DEF PoolBounded
<1>4. ASSUME NEW o \in Object, Look(o)
      PROVE  PoolBounded'
  <2>1. jobs' = jobs /\ Cardinality(Busy) < jobs /\ download' = download
    BY <1>4 DEF Look, plan
  <2>2. ASSUME NEW p \in Busy' PROVE p \in Busy \cup {o}
    <3>1. p \in Object /\ p \in download /\ work'[p] = "missed"
      BY <2>1, <2>2, PullAssumption DEF Busy, Typed
    <3>2. p # o => work'[p] = work[p]
      BY <1>4, <3>1 DEF Look, Typed
    <3> QED
      BY <3>1, <3>2 DEF Busy
  <2>3. Busy' \subseteq Busy \cup {o}
    BY <2>2
  <2>4. IsFiniteSet(Busy \cup {o}) /\ Cardinality(Busy \cup {o}) <= Cardinality(Busy) + 1
        /\ Cardinality(Busy \cup {o}) \in Nat
    <3> HIDE DEF TypeInv
    <3> DEFINE B == Busy
    <3>1. IsFiniteSet(B) /\ Cardinality(B) \in Nat
      BY <1>1
    <3> HIDE DEF B
    <3>2. /\ IsFiniteSet(B \cup {o})
          /\ \/ Cardinality(B \cup {o}) = Cardinality(B)
             \/ Cardinality(B \cup {o}) = Cardinality(B) + 1
      BY <3>1, FS_AddElement
    <3>3. Cardinality(B \cup {o}) <= Cardinality(B) + 1 /\ Cardinality(B \cup {o}) \in Nat
      BY <3>1, <3>2
    <3> QED
      BY <3>2, <3>3 DEF B
  <2>5. Cardinality(Busy') <= Cardinality(Busy \cup {o}) /\ Cardinality(Busy') \in Nat
    BY <2>3, <2>4, FS_Subset, FS_CardinalityType
  <2> QED
    BY <1>1, <2>1, <2>4, <2>5 DEF PoolBounded
<1>5. CASE Start \/ MakePlan
  <2>1. \A o \in Object : work'[o] = "waiting"
    BY <1>5 DEF Start, MakePlan, NoneStarted, Planned
  <2>2. download' \subseteq Object
    BY TypedStep, PullAssumption DEF Typed
  <2>3. Busy' = {}
    BY <2>1, <2>2 DEF Busy
  <2> QED
    BY <1>2, <2>3
<1>6. ASSUME NEW o \in Object, Accept(o) \/ AcceptFails(o)
      PROVE  PoolBounded'
  <2>1. jobs' = jobs /\ download' = download /\ download \subseteq Object
    BY <1>6, PullAssumption DEF Accept, AcceptFails, plan, Typed
  <2>2. \A p \in Object : work'[p] = work[p] \/ work'[p] # "missed"
    BY <1>6 DEF Accept, AcceptFails, Typed
  <2>3. Busy' \subseteq Busy
    BY <2>1, <2>2 DEF Busy
  <2> QED
    BY <1>3, <2>1, <2>3
<1>7. CASE \/ Scan \/ InspectCanceled \/ QuerySizes \/ DropEnds \/ DownloadEnds
           \/ Staged \/ Join \/ Retry \/ GiveUp \/ Cancel \/ Interrupt \/ Kill
           \/ UNCHANGED vars
  <2>1. Busy' = Busy /\ jobs' = jobs
    BY <1>7 DEF Scan, InspectCanceled, QuerySizes, DropEnds, DownloadEnds, Staged, Join,
                Retry, GiveUp, Cancel, Interrupt, Kill, vars, Busy, plan
  <2> QED
    BY <1>3, <2>1
<1>8. ASSUME NEW o \in Object,
             \/ Inspect(o) \/ Drop(o) \/ Download(o)
             \/ AddElsewhere(o) \/ Evict(o) \/ PushElsewhere(o)
      PROVE  PoolBounded'
  <2>1. Busy' = Busy /\ jobs' = jobs
    BY <1>8 DEF Inspect, Drop, Download, AddElsewhere, Evict, PushElsewhere, Busy, plan
  <2> QED
    BY <1>3, <2>1
<1> QED
  BY <1>4, <1>5, <1>6, <1>7, <1>8 DEF Next, Step

LEMMA TypeInvInit == Init => TypeInv
<1> SUFFICES ASSUME Init PROVE TypeInv
  OBVIOUS
<1>1. Busy = {} /\ jobs = 0
  BY DEF Init, Busy
<1> QED
  BY <1>1, TypedInit, FS_EmptySet DEF TypeInv, PoolBounded

LEMMA TypeInvStep == TypeInv /\ [Next]_vars => TypeInv'
BY TypedStep, PoolStep DEF TypeInv

\* Pull's variables keep their types, and never more workers accept downloads
\* than -j allows.
THEOREM TypeCorrect == Spec => []TypeOK
<1>1. TypeInv => TypeOK
  BY DEF TypeInv, Typed, TypeOK
<1> QED
  BY <1>1, TypeInvInit, TypeInvStep, PTL DEF Spec

-----------------------------------------------------------------------------

\* What the inspection found stays true for as long as the pull may act on it.
PresentIsThere == Running => \A o \in present : Protected(cached[o])
UntrustedIsRotten ==
  pc \in {"scan", "inspect", "sizes"} => \A o \in untrusted : cached[o] = "rotten"
TodoIsReplaceable ==
  pc = "drop" => \A o \in todo : cached[o] = "rotten" /\ remote[o] # "absent"
PlanIsRest == pc \in Planned => Scope \ present \subseteq download

\* A protected object with the wrong bytes can only be one that was there before.
NoneBad ==
  /\ pc = "inspect" => \A o \in Scope \ (todo \cup present) : cached[o] # "bad"
  /\ pc \in Planned /\ mode = "verify" => \A o \in download : cached[o] # "bad"
BadIsRemote == \A o \in Object : "bad" \in {cached[o], scratch[o]} => remote[o] = "bad"

Arrived == pc = "accept" => \A o \in download : scratch[o] # "absent"
AcceptedIsThere ==
  pc = "accept" => \A o \in download : work[o] = "accepted" => Protected(cached[o])
AddedIsThere == \A o \in added : Protected(cached[o])

PullInv ==
  /\ PresentIsThere /\ UntrustedIsRotten /\ TodoIsReplaceable /\ PlanIsRest
  /\ NoneBad /\ BadIsRemote /\ Arrived /\ AcceptedIsThere /\ AddedIsThere
  /\ DoneIsPresent

LEMMA PullInit == Init => PullInv
<1> SUFFICES ASSUME Init PROVE PullInv
  OBVIOUS
<1>1. pc = "idle" /\ added = {}
  BY DEF Init
<1>2. \A o \in Object : cached[o] # "bad" /\ scratch[o] = "absent"
  BY DEF Init, Cached
<1>3. /\ PresentIsThere /\ UntrustedIsRotten /\ TodoIsReplaceable /\ PlanIsRest
      /\ NoneBad /\ Arrived /\ AcceptedIsThere /\ AddedIsThere /\ DoneIsPresent
  BY <1>1
     DEF PresentIsThere, UntrustedIsRotten, TodoIsReplaceable, PlanIsRest, NoneBad, Arrived,
         AcceptedIsThere, AddedIsThere, DoneIsPresent, Running, Planned
<1>4. BadIsRemote
  BY <1>2 DEF BadIsRemote
<1> QED
  BY <1>3, <1>4 DEF PullInv

LEMMA PullStep == TypeInv /\ PullInv /\ [Next]_vars => PullInv'
<1> SUFFICES ASSUME Typed, NoneStarted, PullInv, [Next]_vars PROVE PullInv'
  BY DEF TypeInv
<1> USE PullAssumption
    DEF Typed, PullInv, PresentIsThere, UntrustedIsRotten, TodoIsReplaceable, PlanIsRest,
        NoneBad, BadIsRemote, Arrived, AcceptedIsThere, AddedIsThere, DoneIsPresent,
        Running, Planned, Protected, Ended, Transfers, plan, outside
<1>1. CASE Start
  BY <1>1 DEF Start
<1>2. CASE Scan \/ InspectCanceled
  BY <1>2 DEF Scan, InspectCanceled
<1>2a. CASE MakePlan
  <2>1. CASE Scope \ present = {}
    <3>1. pc' = "done" /\ download' = {}
      BY <1>2a, <2>1 DEF MakePlan
    <3>2. \A o \in Scope : Protected(cached[o])
      BY <1>2a, <2>1 DEF MakePlan
    <3> QED
      BY <1>2a, <3>1, <3>2 DEF MakePlan
  <2>2. CASE Scope \ present # {}
    <3>1. pc' = "sizes" /\ download' = Scope \ present
      BY <1>2a, <2>2 DEF MakePlan
    <3>2. \A o \in download' : cached[o] # "bad"
      BY <1>2a, <3>1 DEF MakePlan
    <3> QED
      BY <1>2a, <3>1, <3>2 DEF MakePlan
  <2> QED
    BY <2>1, <2>2
<1>3. CASE QuerySizes \/ DropEnds \/ DownloadEnds
  BY <1>3 DEF QuerySizes, DropEnds, DownloadEnds
<1>4. CASE Staged
  BY <1>4 DEF Staged, NoneStarted
<1>5. CASE Join
  BY <1>5 DEF Join
<1>6. CASE Retry \/ GiveUp \/ Cancel
  BY <1>6 DEF Retry, GiveUp, Cancel
<1>7. CASE Interrupt \/ Kill
  BY <1>7 DEF Interrupt, Kill
<1>8. ASSUME NEW o \in Object, Inspect(o) PROVE PullInv'
  BY <1>8 DEF Inspect
<1>9. ASSUME NEW o \in Object, Drop(o) PROVE PullInv'
  BY <1>9 DEF Drop
<1>10. ASSUME NEW o \in Object, Download(o) PROVE PullInv'
  BY <1>10 DEF Download, Remote
<1>11. ASSUME NEW o \in Object, Look(o) PROVE PullInv'
  BY <1>11 DEF Look
<1>12. ASSUME NEW o \in Object, Accept(o) PROVE PullInv'
  BY <1>12 DEF Accept, Busy, Remote
<1>13. ASSUME NEW o \in Object, AcceptFails(o) PROVE PullInv'
  BY <1>13 DEF AcceptFails, Busy
<1>14. ASSUME NEW o \in Object, AddElsewhere(o) PROVE PullInv'
  BY <1>14 DEF AddElsewhere, Cached
<1>15. ASSUME NEW o \in Object, Evict(o) PROVE PullInv'
  BY <1>15 DEF Evict
<1>16. ASSUME NEW o \in Object, PushElsewhere(o) PROVE PullInv'
  BY <1>16 DEF PushElsewhere
<1>17. CASE UNCHANGED vars
  BY <1>17 DEF vars
<1> QED
  BY <1>1, <1>2, <1>2a, <1>3, <1>4, <1>5, <1>6, <1>7, <1>8, <1>9, <1>10, <1>11, <1>12, <1>13,
     <1>14, <1>15, <1>16, <1>17
     DEF Next, Step

\* The inductive invariant holds of every reachable state.
THEOREM Invariant == Spec => [](TypeInv /\ PullInv)
<1>1. Init => TypeInv /\ PullInv
  BY TypeInvInit, PullInit
<1>2. TypeInv /\ PullInv /\ [Next]_vars => (TypeInv /\ PullInv)'
  BY TypeInvStep, PullStep
<1> QED
  BY <1>1, <1>2, PTL DEF Spec

\* A pull that succeeds leaves every object of its scope in the cache,
\* protected, and with --verify every download with the right bytes.
THEOREM SuccessMeansPresent == Spec => []DoneIsPresent
<1>1. TypeInv /\ PullInv => DoneIsPresent
  BY DEF PullInv
<1> QED
  BY <1>1, Invariant, PTL

\* What add or import has put into the cache outlives every pull, and keeps its
\* bytes unless the remote has other bytes under its name.
THEOREM AddedOutlivesPull == Spec => []AddedIsKept
<1>1. TypeInv /\ PullInv => AddedIsKept
  BY PullAssumption DEF TypeInv, Typed, PullInv, AddedIsThere, BadIsRemote, AddedIsKept, Protected
<1> QED
  BY <1>1, Invariant, PTL

\* A pull removes nothing but objects with wrong bytes that the remote can replace.
THEOREM RemovalIsSafe == Spec => DropsReplaceable
<1>1. ASSUME TypeInv, PullInv, [Next]_vars,
             NEW o \in Object, Running, cached[o] # "absent", cached'[o] = "absent"
      PROVE  cached[o] = "rotten" /\ remote[o] # "absent"
  <2> USE <1>1 DEF TypeInv, Typed
  <2>1. cached' # cached
    OBVIOUS
  <2>2. \E p \in Object :
          Inspect(p) \/ Drop(p) \/ Look(p) \/ Accept(p) \/ AddElsewhere(p)
    BY <2>1
       DEF Next, Step, Start, Scan, InspectCanceled, MakePlan, QuerySizes, DropEnds, DownloadEnds,
           Staged, Join, Retry, GiveUp, Cancel, Interrupt, Kill, Download, AcceptFails, Evict,
           PushElsewhere, outside, vars
  <2>3. PICK p \in Object : Inspect(p) \/ Drop(p) \/ Look(p) \/ Accept(p) \/ AddElsewhere(p)
    BY <2>2
  <2>4. CASE Inspect(p) \/ Look(p) \/ AddElsewhere(p)
    BY <2>4 DEF Inspect, Look, AddElsewhere
  <2>5. CASE Drop(p)
    BY <2>5 DEF Drop, PullInv, TodoIsReplaceable
  <2>6. CASE Accept(p)
    BY <2>6 DEF Accept, Busy, PullInv, Arrived
  <2> QED
    BY <2>3, <2>4, <2>5, <2>6
<1>2. TypeInv /\ PullInv /\ [Next]_vars =>
        [\A o \in Object :
           Running /\ cached[o] # "absent" /\ cached'[o] = "absent" =>
             cached[o] = "rotten" /\ remote[o] # "absent"]_vars
  BY <1>1
<1> QED
  BY <1>2, Invariant, PTL DEF Spec, DropsReplaceable
=============================================================================
