------------------------------- MODULE PushProofs -------------------------------
(***************************************************************************)
(* Theorems about Push for any number of machines and objects.             *)
(*                                                                         *)
(* The argument: a staging directory has one push that works in it, as     *)
(* long as no two machines push under one user name.  So what that push    *)
(* has checked there stays as it was, and only whole files are moved to    *)
(* their final places.  What is there may be replaced, when two pushes     *)
(* have both found the place empty, but then by another whole file: so     *)
(* what a push has seen of a final object's size stays true until it ends, *)
(* and after.                                                              *)
(***************************************************************************)
EXTENDS Push, TLAPS

OneUserEach == \A p, q \in Pusher : User[p] = User[q] => p = q

Looking == {"stat"} \cup Runs
Sending == {"copy", "checkStaged", "move", "checkFinal"}

\* What the plan has left to send can be sent, and the rest of the scope is
\* there already or was skipped.
PlanStands(p) ==
  /\ upload[p] \subseteq Scope[p]
  /\ pc[p] = "plan" => upload[p] = {}
  /\ pc[p] \in Looking => \A o \in upload[p] : cached[p][o] # "corrupt"
  /\ pc[p] \in Looking => \A o \in Scope[p] : o \in upload[p] \/ o \in skipped[p] \/ Whole(final[o])
  /\ pc[p] \in Sending => \A o \in upload[p] : final[o] # "cut"

\* What is in the staging directory is what was sent, but for objects that an
\* eviction has taken from the cache.
StagedStands(p) ==
  /\ pc[p] = "copy" => \A o \in handled[p] : cached[p][o] \in {"absent", staged[User[p]][o]}
  /\ pc[p] = "checkStaged" => \A o \in upload[p] : cached[p][o] \in {"absent", staged[User[p]][o]}

\* What is being published is whole, before its move and after it.
MoveStands(p) ==
  /\ pc[p] = "move" => \A o \in upload[p] : Whole(staged[User[p]][o]) \/ Whole(final[o])
  /\ pc[p] = "move" => \A o \in upload[p] : staged[User[p]][o] # "cut"
  /\ pc[p] = "move" => \A o \in handled[p] : Whole(final[o])
  /\ pc[p] = "move" => free[p] \subseteq upload[p]
  /\ pc[p] = "checkFinal" => \A o \in upload[p] : Whole(final[o])

\* ExitIsTrue, for one push.
ExitStands(p) ==
  /\ pc[p] = "done" => \A o \in Scope[p] : Whole(final[o]) \/ o \in skipped[p]
  /\ pc[p] = "integrity" => \/ \E o \in Scope[p] : cached[p][o] = "corrupt" \/ final[o] = "cut"
                            \/ \E o \in upload[p] : cached[p][o] = "absent"
  /\ pc[p] = "missing" => upload[p] = {} /\ \E o \in Scope[p] : cached[p][o] = "absent"

\* The inductive invariant.
PushInv ==
  /\ TypeOK
  /\ \A p \in Pusher : PlanStands(p) /\ StagedStands(p) /\ MoveStands(p) /\ ExitStands(p)

Disturb(p) == Interrupt(p) \/ Kill(p) \/ \E o \in Object : Evict(p, o)

-----------------------------------------------------------------------------

\* The class each failure of a push is reported as.
LEMMA PushClasses ==
  /\ PushClass(<<"Repo", "Canceled">>) = "canceled"
  /\ PushClass(<<"Remote", "Canceled">>) = "canceled"
  /\ PushClass(<<"Store", "HashMismatch">>) = "integrity"
  /\ PushClass(<<"Remote", "SizeMismatch">>) = "integrity"
  /\ PushClass(<<"Plan", "MissingCachedFile">>) = "missing"
  /\ PushClass(<<"Remote", "Io">>) = "unavailable"
  /\ PushClass(<<"Remote", "Failed">>) = "unavailable"
  BY DEF PushClass, PortClass, RepoClass, StoreClass, RemoteClass

LEMMA InitEstablishes == Init => PushInv
  BY PushAssumption DEF Init, PushInv, TypeOK, Stages, Runs, Ended, Classes, Remote, Cached,
     PlanStands, StagedStands, MoveStands, ExitStands, Looking, Sending

LEMMA GotoTypes ==
  ASSUME TypeOK, NEW p \in Pusher, NEW stage \in Stages, Goto(p, stage)
  PROVE  /\ (pc \in [Pusher -> Stages])'
         /\ (handled \in [Pusher -> SUBSET Object])'
         /\ (free \in [Pusher -> SUBSET Object])'
         /\ (attempt \in [Pusher -> Nat \ {0}])'
         /\ (\A q \in Pusher : attempt[q] <= RetryMax \/ attempt[q] = 1)'
<1>1. pc' = [pc EXCEPT ![p] = stage] /\ pc \in [Pusher -> Stages]
  BY DEF Goto, TypeOK
<1>2. /\ handled' = [handled EXCEPT ![p] = {}] /\ handled \in [Pusher -> SUBSET Object]
      /\ free' = [free EXCEPT ![p] = {}] /\ free \in [Pusher -> SUBSET Object]
  BY DEF Goto, TypeOK
<1>3. /\ attempt' = [attempt EXCEPT ![p] = 1] /\ attempt \in [Pusher -> Nat \ {0}]
      /\ \A q \in Pusher : attempt[q] <= RetryMax \/ attempt[q] = 1
  BY DEF Goto, TypeOK
<1> QED BY <1>1, <1>2, <1>3

\* Whatever a push ends with, it is at the end.
LEMMA ExitIsGoto ==
  ASSUME NEW p \in Pusher, NEW class \in Ended, Exit(p, class)
  PROVE  \E stage \in Ended : Goto(p, stage) /\ (stage = class \/ stage = "canceled")
  BY DEF Exit, Ended, Classes

LEMMA EndedAreStages == Ended \subseteq Stages
  BY DEF Stages

\* The variables keep their types.
LEMMA TypesAreKept ==
  ASSUME PushInv, NEW p \in Pusher, Step(p) \/ Disturb(p)
  PROVE  TypeOK'
<1> DEFINE Staging == [{User[q] : q \in Pusher} -> [Object -> Remote]]
<1>0. TypeOK /\ PlanStands(p)
  BY DEF PushInv
<1>u. User[p] \in {User[q] : q \in Pusher} /\ staged \in Staging
  BY <1>0 DEF TypeOK
<1>s. ASSUME NEW o \in Object, NEW content \in Remote,
             staged' = [staged EXCEPT ![User[p]][o] = content]
      PROVE  staged' \in Staging
  <2>1. staged[User[p]] \in [Object -> Remote]
    BY <1>u
  <2>2. [staged[User[p]] EXCEPT ![o] = content] \in [Object -> Remote]
    BY <2>1
  <2> QED BY <1>s, <1>u, <2>2
<1>1. ASSUME NEW stage \in Stages, Goto(p, stage), UNCHANGED << cached, staged, final, interrupted, raced >>,
             (upload \in [Pusher -> SUBSET Object])', (skipped \in [Pusher -> SUBSET Object])'
      PROVE  TypeOK'
  <2>1. /\ (pc \in [Pusher -> Stages])'
        /\ (handled \in [Pusher -> SUBSET Object])'
        /\ (free \in [Pusher -> SUBSET Object])'
        /\ (attempt \in [Pusher -> Nat \ {0}])'
        /\ (\A q \in Pusher : attempt[q] <= RetryMax \/ attempt[q] = 1)'
    BY <1>0, <1>1, GotoTypes
  <2> QED BY <1>0, <1>1, <2>1 DEF TypeOK
<1>2. ASSUME NEW class \in Ended, Exit(p, class), UNCHANGED << cached, staged, final, interrupted, raced >>,
             (upload \in [Pusher -> SUBSET Object])', (skipped \in [Pusher -> SUBSET Object])'
      PROVE  TypeOK'
  BY <1>1, <1>2, ExitIsGoto, EndedAreStages
<1>3. /\ upload \in [Pusher -> SUBSET Object] /\ skipped \in [Pusher -> SUBSET Object]
      /\ Scope[p] \subseteq Object
      /\ Classes \cup {"done", "killed"} = Ended /\ Runs \cup {"plan", "stat"} \subseteq Stages
  BY <1>0, PushAssumption DEF TypeOK, Stages, Ended
<1>4. {"canceled", "integrity", "missing", "unavailable"} \subseteq Classes
  BY DEF Classes
<1>5. CASE Plan(p)
  <2>1. CASE Goto(p, "stat")
    BY <1>1, <1>3, <1>5, <2>1 DEF Plan
  <2>2. CASE ~Goto(p, "stat")
    BY <1>2, <1>3, <1>4, <1>5, <2>2, PushClasses DEF Plan
  <2> QED BY <2>1, <2>2
<1>6. CASE Stat(p)
  <2>1. "sizes" \in Stages
    BY DEF Stages, Runs
  <2> QED BY <1>1, <1>2, <1>3, <1>4, <1>6, <2>1, PushClasses DEF Stat
<1>7. CASE QuerySizes(p)
  <2>1. "copy" \in Stages
    BY DEF Stages, Runs
  <2> QED BY <1>1, <1>2, <1>3, <1>4, <1>7, <2>1, PushClasses DEF QuerySizes, Mismatch
<1>8. CASE CheckStaged(p) \/ CheckFinal(p)
  <2>1. "move" \in Stages
    BY DEF Stages, Runs
  <2> QED BY <1>1, <1>2, <1>3, <1>4, <1>8, <2>1, PushClasses DEF CheckStaged, CheckFinal, Mismatch
<1>9. ASSUME NEW o \in Object, Upload(p, o) PROVE TypeOK'
  <2>1. o \in upload[p] /\ pc[p] \in Looking
    BY <1>9 DEF Upload, Looking, Runs
  <2>2. cached[p][o] \in Remote /\ "cut" \in Remote
    BY <1>0, <2>1 DEF TypeOK, Cached, Remote, PlanStands
  <2>3. staged' \in Staging
    BY <1>9, <1>s, <1>u, <2>2 DEF Upload
  <2>4. handled' \in [Pusher -> SUBSET Object]
    BY <1>0, <1>9 DEF Upload, TypeOK
  <2> QED BY <1>0, <1>9, <2>3, <2>4 DEF Upload, TypeOK
<1>10. ASSUME NEW o \in Object, Move(p, o) PROVE TypeOK'
  <2>1. staged' \in Staging
    <3>1. CASE staged[User[p]][o] = "absent"
      BY <1>10, <1>u, <3>1 DEF Move
    <3>2. CASE staged[User[p]][o] # "absent"
      BY <1>10, <1>s, <1>u, <3>2 DEF Move, Remote
    <3> QED BY <3>1, <3>2
  <2>2. final' \in [Object -> Remote]
    <3>1. staged[User[p]][o] \in Remote /\ final \in [Object -> Remote]
      BY <1>0, <1>u DEF TypeOK
    <3> QED BY <1>10, <3>1 DEF Move
  <2>3. handled' \in [Pusher -> SUBSET Object] /\ free' \in [Pusher -> SUBSET Object]
    BY <1>0, <1>10 DEF Move, TypeOK
  <2> QED BY <1>0, <1>10, <2>1, <2>2, <2>3 DEF Move, TypeOK
<1>17. ASSUME NEW o \in Object, Look(p, o) PROVE TypeOK'
  <2>0. handled \in [Pusher -> SUBSET Object] /\ free \in [Pusher -> SUBSET Object]
    BY <1>0 DEF TypeOK
  <2>1. handled' \in [Pusher -> SUBSET Object] /\ free' \in [Pusher -> SUBSET Object]
    <3>1. CASE final[o] = "absent"
      BY <1>17, <2>0, <3>1 DEF Look
    <3>2. CASE final[o] # "absent"
      BY <1>17, <2>0, <3>2 DEF Look
    <3> QED BY <3>1, <3>2
  <2>2. raced' \subseteq Object
    BY <1>0, <1>17 DEF Look, TypeOK
  <2> QED BY <1>0, <1>17, <2>1, <2>2 DEF Look, TypeOK
<1>11. CASE TransferEnds(p)
  BY <1>1, <1>3, <1>11 DEF TransferEnds, Runs
<1>12. CASE Retry(p)
  <2>1. attempt[p] \in Nat \ {0} /\ attempt[p] + 1 \in Nat \ {0} /\ RetryMax \in Nat
    BY <1>0, PushAssumption DEF TypeOK
  <2>2. attempt[p] + 1 <= RetryMax
    BY <1>12, <2>1 DEF Retry
  <2>3. handled' \in [Pusher -> SUBSET Object] /\ free' \in [Pusher -> SUBSET Object]
    BY <1>0, <1>12 DEF Retry, TypeOK
  <2> QED BY <1>0, <1>12, <2>1, <2>2, <2>3 DEF Retry, TypeOK
<1>13. CASE GiveUp(p) \/ Cancel(p)
  BY <1>2, <1>3, <1>4, <1>13, PushClasses DEF GiveUp, Cancel
<1>14. CASE Kill(p)
  BY <1>1, <1>3, <1>14 DEF Kill, Stages
<1>15. CASE Interrupt(p)
  BY <1>0, <1>15 DEF Interrupt, TypeOK
<1>16. ASSUME NEW o \in Object, Evict(p, o) PROVE TypeOK'
  <2>1. cached' \in [Pusher -> [Object -> Cached]]
    BY <1>0, <1>16 DEF Evict, TypeOK, Cached
  <2> QED BY <1>0, <1>16, <2>1 DEF Evict, TypeOK
<1> QED BY <1>5, <1>6, <1>7, <1>8, <1>9, <1>10, <1>11, <1>12, <1>13, <1>14, <1>15, <1>16, <1>17
  DEF Step, Disturb

\* What a step of p leaves alone: the other pushes, what is in their staging
\* directories, and whether each object at its final place is whole or cut.
Framed(p) ==
  /\ \A q \in Pusher \ {p} :
       /\ pc'[q] = pc[q] /\ upload'[q] = upload[q] /\ skipped'[q] = skipped[q]
       /\ handled'[q] = handled[q] /\ free'[q] = free[q] /\ cached'[q] = cached[q]
       /\ staged'[User[q]] = staged[User[q]]
  /\ \A o \in Object : Whole(final[o]) => Whole(final'[o])
  /\ \A o \in Object : final'[o] = "cut" <=> final[o] = "cut"

LEMMA StepIsFramed ==
  ASSUME OneUserEach, PushInv, NEW p \in Pusher, Step(p) \/ Disturb(p)
  PROVE  Framed(p)
<1>1. TypeOK /\ PlanStands(p) /\ MoveStands(p)
  BY DEF PushInv
<1>2. \A q \in Pusher \ {p} : User[q] # User[p]
  BY DEF OneUserEach
<1>3. ASSUME NEW q \in Pusher, NEW stage, Goto(q, stage)
      PROVE  \A r \in Pusher \ {q} : pc'[r] = pc[r] /\ handled'[r] = handled[r] /\ free'[r] = free[r]
  BY <1>1, <1>3 DEF Goto, TypeOK
<1>4. ASSUME NEW class, Exit(p, class)
      PROVE  \A r \in Pusher \ {p} : pc'[r] = pc[r] /\ handled'[r] = handled[r] /\ free'[r] = free[r]
  BY <1>3, <1>4 DEF Exit
<1>5. CASE Plan(p)
  <2>1. \A r \in Pusher \ {p} : pc'[r] = pc[r] /\ handled'[r] = handled[r] /\ free'[r] = free[r]
    BY <1>3, <1>4, <1>5 DEF Plan
  <2>2. \A r \in Pusher \ {p} : upload'[r] = upload[r] /\ skipped'[r] = skipped[r]
    BY <1>1, <1>5 DEF Plan, TypeOK
  <2> QED BY <1>5, <2>1, <2>2 DEF Plan, Framed
<1>6. CASE Stat(p)
  BY <1>3, <1>4, <1>6 DEF Stat, Framed
<1>7. CASE QuerySizes(p)
  <2>1. \A r \in Pusher \ {p} : pc'[r] = pc[r] /\ handled'[r] = handled[r] /\ free'[r] = free[r]
    BY <1>3, <1>4, <1>7 DEF QuerySizes, Mismatch
  <2>2. \A r \in Pusher \ {p} : upload'[r] = upload[r]
    BY <1>1, <1>7 DEF QuerySizes, TypeOK
  <2> QED BY <1>7, <2>1, <2>2 DEF QuerySizes, Framed
<1>8. CASE CheckStaged(p) \/ CheckFinal(p)
  BY <1>3, <1>4, <1>8 DEF CheckStaged, CheckFinal, Mismatch, Framed
<1>9. ASSUME NEW o \in Object, Upload(p, o) PROVE Framed(p)
  BY <1>1, <1>2, <1>9 DEF Upload, Framed, TypeOK
<1>10. ASSUME NEW o \in Object, Move(p, o) PROVE Framed(p)
  <2>1. o \in upload[p] /\ pc[p] \in Sending
    BY <1>1, <1>10 DEF Move, MoveStands, Sending
  <2>2. staged[User[p]][o] # "cut" /\ final[o] # "cut" /\ staged[User[p]][o] \in Remote
    BY <1>1, <1>10, <2>1 DEF Move, MoveStands, PlanStands, TypeOK
  <2>3. \A q \in Pusher \ {p} : /\ handled'[q] = handled[q] /\ free'[q] = free[q]
                                /\ staged'[User[q]] = staged[User[q]]
    BY <1>1, <1>2, <1>10 DEF Move, TypeOK
  <2>4. /\ \A b \in Object : Whole(final[b]) => Whole(final'[b])
        /\ \A b \in Object : final'[b] = "cut" <=> final[b] = "cut"
    <3>1. CASE staged[User[p]][o] = "absent"
      BY <1>10, <3>1 DEF Move
    <3>2. CASE staged[User[p]][o] # "absent"
      <4>1. Whole(staged[User[p]][o])
        BY <2>2, <3>2 DEF Remote, Whole
      <4>2. \A b \in Object : final'[b] = IF b = o THEN staged[User[p]][o] ELSE final[b]
        BY <1>1, <1>10, <3>2 DEF Move, TypeOK
      <4> QED BY <2>2, <4>1, <4>2
    <3> QED BY <3>1, <3>2
  <2> QED BY <1>10, <2>3, <2>4 DEF Move, Framed
<1>17. ASSUME NEW o \in Object, Look(p, o) PROVE Framed(p)
  <2>1. \A q \in Pusher \ {p} : handled'[q] = handled[q] /\ free'[q] = free[q]
    BY <1>1, <1>17 DEF Look, TypeOK
  <2> QED BY <1>17, <2>1 DEF Look, Framed
<1>11. CASE TransferEnds(p)
  BY <1>3, <1>11 DEF TransferEnds, Framed
<1>12. CASE Retry(p)
  BY <1>1, <1>12 DEF Retry, Framed, TypeOK
<1>13. CASE GiveUp(p) \/ Cancel(p)
  BY <1>4, <1>13 DEF GiveUp, Cancel, Framed
<1>14. CASE Kill(p)
  BY <1>3, <1>14 DEF Kill, Framed
<1>15. CASE Interrupt(p)
  BY <1>15 DEF Interrupt, Framed
<1>16. ASSUME NEW o \in Object, Evict(p, o) PROVE Framed(p)
  BY <1>1, <1>16 DEF Evict, Framed, TypeOK
<1> QED BY <1>5, <1>6, <1>7, <1>8, <1>9, <1>10, <1>11, <1>12, <1>13, <1>14, <1>15, <1>16, <1>17
  DEF Step, Disturb

\* What the other pushes rely on stands.
LEMMA OthersStand ==
  ASSUME OneUserEach, PushInv, NEW p \in Pusher, Step(p) \/ Disturb(p), NEW q \in Pusher, q # p
  PROVE  (PlanStands(q) /\ StagedStands(q) /\ MoveStands(q) /\ ExitStands(q))'
<1>1. Framed(p)
  BY StepIsFramed
<1>2. /\ pc'[q] = pc[q] /\ upload'[q] = upload[q] /\ skipped'[q] = skipped[q]
      /\ handled'[q] = handled[q] /\ free'[q] = free[q]
      /\ cached'[q] = cached[q] /\ staged'[User[q]] = staged[User[q]]
  BY <1>1 DEF Framed
<1>3. upload[q] \subseteq Object /\ handled[q] \subseteq Object /\ Scope[q] \subseteq Object
  BY PushAssumption DEF PushInv, TypeOK
<1>4. /\ \A o \in Object : Whole(final[o]) => Whole(final'[o])
      /\ \A o \in Object : final'[o] = "cut" <=> final[o] = "cut"
  BY <1>1 DEF Framed
<1>5. PlanStands(q) /\ StagedStands(q) /\ MoveStands(q) /\ ExitStands(q)
  BY DEF PushInv
<1>6. PlanStands(q)'
  BY <1>2, <1>3, <1>4, <1>5 DEF PlanStands, Whole
<1>7. StagedStands(q)'
  BY <1>2, <1>5 DEF StagedStands
<1>8. MoveStands(q)'
  BY <1>2, <1>3, <1>4, <1>5 DEF MoveStands, Whole
<1>9. ExitStands(q)'
  BY <1>2, <1>3, <1>4, <1>5 DEF ExitStands, Whole
<1> QED BY <1>6, <1>7, <1>8, <1>9

LEMMA GotoLands ==
  ASSUME TypeOK, NEW p \in Pusher, NEW stage, Goto(p, stage)
  PROVE  pc'[p] = stage /\ handled'[p] = {} /\ free'[p] = {}
  BY DEF Goto, TypeOK

\* What the invariant says of one push.
PushStands(p) == PlanStands(p) /\ StagedStands(p) /\ MoveStands(p) /\ ExitStands(p)

\* A push that ends owes only what it ends with, and an interrupt owes nothing.
LEMMA EndStands ==
  ASSUME PushInv, NEW p \in Pusher, NEW class \in Ended, Exit(p, class) \/ Goto(p, class),
         upload'[p] \subseteq Scope[p],
         class = "done" => \A o \in Scope[p] : Whole(final'[o]) \/ o \in skipped'[p],
         class = "integrity" => \/ \E o \in Scope[p] : cached'[p][o] = "corrupt" \/ final'[o] = "cut"
                                \/ \E o \in upload'[p] : cached'[p][o] = "absent",
         class = "missing" => upload'[p] = {} /\ \E o \in Scope[p] : cached'[p][o] = "absent"
  PROVE  PushStands(p)'
<1>1. PICK stage \in Ended : Goto(p, stage) /\ (stage = class \/ stage = "canceled")
  BY ExitIsGoto
<1>2. pc'[p] = stage
  BY <1>1, GotoLands DEF PushInv
<1>3. stage \notin Looking \cup Sending \cup {"plan"}
  BY <1>1 DEF Ended, Classes, Looking, Sending, Runs
<1>4. PlanStands(p)'
  BY <1>2, <1>3 DEF PlanStands
<1>5. StagedStands(p)' /\ MoveStands(p)'
  BY <1>2, <1>3 DEF StagedStands, MoveStands, Sending
<1>6. ExitStands(p)'
  BY <1>1, <1>2 DEF ExitStands
<1> QED BY <1>4, <1>5, <1>6 DEF PushStands

\* What a push relies on itself stands through each step of its own.
LEMMA OwnStands ==
  ASSUME PushInv, NEW p \in Pusher, Step(p) \/ Disturb(p)
  PROVE  PushStands(p)'
<1>1. TypeOK /\ PlanStands(p) /\ StagedStands(p) /\ MoveStands(p) /\ ExitStands(p)
  BY DEF PushInv
<1>2. Scope[p] \subseteq Object /\ upload[p] \subseteq Scope[p] /\ handled[p] \subseteq Object
  BY <1>1, PushAssumption DEF TypeOK, PlanStands
<1>3. {"done", "canceled", "integrity", "missing", "unavailable", "killed"} \subseteq Ended
  BY DEF Ended, Classes
<1>4. \A o \in Object : cached[p][o] \in Cached /\ final[o] \in Remote
  BY <1>1 DEF TypeOK
<1>5. CASE Plan(p)
  <2> DEFINE missing == {o \in Scope[p] : cached[p][o] = "absent"}
  <2>1. pc[p] = "plan" /\ upload[p] = {} /\ UNCHANGED << cached, staged, final, interrupted >>
    BY <1>1, <1>5 DEF Plan, PlanStands
  <2>2. CASE p \in interrupted
    BY <1>2, <1>3, <1>5, <2>1, <2>2, EndStands, PushClasses DEF Plan
  <2>3. CASE p \notin interrupted /\ \E o \in Scope[p] : cached[p][o] = "corrupt"
    BY <1>2, <1>3, <1>5, <2>1, <2>3, EndStands, PushClasses DEF Plan
  <2>4. CASE /\ p \notin interrupted /\ ~ \E o \in Scope[p] : cached[p][o] = "corrupt"
             /\ missing # {} /\ p \notin SkipMissing
    BY <1>2, <1>3, <1>5, <2>1, <2>4, EndStands, PushClasses DEF Plan
  <2>5. CASE /\ p \notin interrupted /\ ~ \E o \in Scope[p] : cached[p][o] = "corrupt"
             /\ ~ (missing # {} /\ p \notin SkipMissing)
    <3>1. /\ Goto(p, "stat")
          /\ upload' = [upload EXCEPT ![p] = Scope[p] \ missing]
          /\ skipped' = [skipped EXCEPT ![p] = missing]
      BY <1>5, <2>5 DEF Plan
    <3>2. pc'[p] = "stat" /\ upload'[p] = Scope[p] \ missing /\ skipped'[p] = missing
      BY <1>1, <3>1, GotoLands DEF TypeOK
    <3>3. PlanStands(p)'
      BY <2>1, <2>5, <3>2 DEF PlanStands, Sending
    <3> QED BY <3>2, <3>3 DEF PushStands, StagedStands, MoveStands, ExitStands
  <2> QED BY <2>2, <2>3, <2>4, <2>5
<1>6. CASE Stat(p)
  <2>1. pc[p] = "stat" /\ UNCHANGED << upload, skipped, cached, staged, final, interrupted >>
    BY <1>6 DEF Stat
  <2>2. \A o \in Scope[p] : o \in upload[p] \/ o \in skipped[p] \/ Whole(final[o])
    BY <1>1, <2>1 DEF PlanStands, Looking
  <2>3. CASE upload[p] = {}
    <3>1. \A o \in Scope[p] : Whole(final'[o]) \/ o \in skipped'[p]
      BY <2>1, <2>2, <2>3
    <3> QED BY <1>2, <1>3, <1>6, <2>1, <2>3, <3>1, EndStands DEF Stat
  <2>4. CASE upload[p] # {} /\ \E o \in upload[p] : cached[p][o] = "absent"
    BY <1>2, <1>3, <1>6, <2>1, <2>4, EndStands, PushClasses DEF Stat
  <2>5. CASE upload[p] # {} /\ ~ \E o \in upload[p] : cached[p][o] = "absent"
    <3>1. pc'[p] = "sizes"
      BY <1>1, <1>6, <2>5, GotoLands DEF Stat
    <3>2. PlanStands(p)'
      BY <1>1, <2>1, <3>1 DEF PlanStands, Looking, Runs, Sending
    <3> QED BY <3>1, <3>2 DEF PushStands, StagedStands, MoveStands, ExitStands
  <2> QED BY <2>3, <2>4, <2>5
<1>7. CASE QuerySizes(p)
  <2> DEFINE there == {o \in upload[p] : Whole(final[o])}
  <2>1. pc[p] = "sizes" /\ UNCHANGED << skipped, cached, staged, final, interrupted >>
    BY <1>7 DEF QuerySizes
  <2>2. \A o \in Scope[p] : o \in upload[p] \/ o \in skipped[p] \/ Whole(final[o])
    BY <1>1, <2>1 DEF PlanStands, Looking, Runs
  <2>3. CASE \E o \in upload[p] : final[o] = "cut"
    BY <1>2, <1>3, <1>7, <2>1, <2>3, EndStands, PushClasses DEF QuerySizes, Mismatch
  <2>4. CASE ~ \E o \in upload[p] : final[o] = "cut"
    <3>1. /\ upload' = [upload EXCEPT ![p] = @ \ there]
          /\ IF upload[p] = there THEN Exit(p, "done") ELSE Goto(p, "copy")
      BY <1>7, <2>4 DEF QuerySizes
    <3>2. upload'[p] = upload[p] \ there
      BY <1>1, <3>1 DEF TypeOK
    <3>3. \A o \in Scope[p] : o \in upload'[p] \/ o \in skipped[p] \/ Whole(final[o])
      BY <2>2, <3>2
    <3>4. CASE upload[p] = there
      BY <1>2, <1>3, <2>1, <3>1, <3>2, <3>3, <3>4, EndStands
    <3>5. CASE upload[p] # there
      <4>1. pc'[p] = "copy" /\ handled'[p] = {}
        BY <1>1, <3>1, <3>5, GotoLands
      <4>2. PlanStands(p)'
        BY <1>1, <1>2, <2>1, <2>4, <3>2, <3>3, <4>1 DEF PlanStands, Looking, Runs, Sending
      <4> QED BY <4>1, <4>2 DEF PushStands, StagedStands, MoveStands, ExitStands
    <3> QED BY <3>4, <3>5
  <2> QED BY <2>3, <2>4
<1>8. CASE CheckStaged(p)
  <2>1. pc[p] = "checkStaged" /\ UNCHANGED << upload, skipped, cached, staged, final, interrupted >>
    BY <1>8 DEF CheckStaged
  <2>2. CASE \A o \in upload[p] : Whole(staged[User[p]][o])
    <3>1. pc'[p] = "move" /\ handled'[p] = {} /\ free'[p] = {}
      BY <1>1, <1>8, <2>2, GotoLands DEF CheckStaged
    <3>2. PlanStands(p)'
      BY <1>1, <2>1, <3>1 DEF PlanStands, Looking, Runs, Sending
    <3>3. MoveStands(p)'
      BY <2>1, <2>2, <3>1 DEF MoveStands, Whole
    <3> QED BY <3>1, <3>2, <3>3 DEF PushStands, StagedStands, ExitStands
  <2>3. CASE ~ \A o \in upload[p] : Whole(staged[User[p]][o])
    <3>1. PICK o \in upload[p] : ~ Whole(staged[User[p]][o])
      BY <2>3
    <3>2. cached[p][o] \in {"absent", staged[User[p]][o]} /\ cached[p][o] # "corrupt"
      BY <1>1, <2>1 DEF StagedStands, PlanStands, Looking, Runs
    <3>3. cached[p][o] = "absent"
      BY <1>2, <1>4, <3>1, <3>2 DEF Cached, Whole
    <3>4. Exit(p, "integrity")
      BY <1>8, <2>3, PushClasses DEF CheckStaged, Mismatch
    <3> QED BY <1>2, <1>3, <2>1, <3>3, <3>4, EndStands
  <2> QED BY <2>2, <2>3
<1>9. CASE CheckFinal(p)
  <2>1. pc[p] = "checkFinal" /\ UNCHANGED << upload, skipped, cached, staged, final, interrupted >>
    BY <1>9 DEF CheckFinal
  <2>2. \A o \in upload[p] : Whole(final[o])
    BY <1>1, <2>1 DEF MoveStands
  <2>3. \A o \in Scope[p] : Whole(final[o]) \/ o \in skipped[p]
    BY <1>1, <2>1, <2>2 DEF PlanStands, Looking, Runs
  <2>4. Exit(p, "done")
    BY <1>9, <2>2 DEF CheckFinal
  <2> QED BY <1>2, <1>3, <2>1, <2>3, <2>4, EndStands
<1>10. ASSUME NEW o \in Object, Upload(p, o) PROVE PushStands(p)'
  <2>1. /\ pc[p] = "copy" /\ o \in upload[p]
        /\ UNCHANGED << pc, upload, skipped, attempt, cached, final, interrupted >>
    BY <1>10 DEF Upload
  <2>2. PlanStands(p)'
    BY <1>1, <2>1 DEF PlanStands
  <2>3. StagedStands(p)'
    <3>1. SUFFICES ASSUME NEW b \in handled'[p]
                   PROVE  cached[p][b] \in {"absent", staged'[User[p]][b]}
      BY <2>1 DEF StagedStands
    <3>2. \A c \in handled[p] : cached[p][c] \in {"absent", staged[User[p]][c]}
      BY <1>1, <2>1 DEF StagedStands
    <3>3. handled'[p] \subseteq handled[p] \cup {o}
      BY <1>1, <1>10 DEF Upload, TypeOK
    <3>4. CASE b # o
      <4>1. staged'[User[p]][b] = staged[User[p]][b]
        BY <1>1, <1>2, <1>10, <3>3, <3>4 DEF Upload, TypeOK
      <4> QED BY <3>2, <3>3, <3>4, <4>1
    <3>5. CASE b = o
      <4>1. o \notin handled[p] /\ o \in handled'[p]
        BY <1>10, <3>5 DEF Upload
      <4>2. staged'[User[p]] = [staged[User[p]] EXCEPT ![o] = cached[p][o]]
              \/ (staged' = staged /\ cached[p][o] \in {"absent", staged[User[p]][o]})
        BY <1>1, <1>10, <4>1 DEF Upload, TypeOK
      <4>3. staged[User[p]] \in [Object -> Remote]
        BY <1>1 DEF TypeOK
      <4> QED BY <3>5, <4>2, <4>3
    <3> QED BY <3>4, <3>5
  <2> QED BY <2>1, <2>2, <2>3 DEF PushStands, MoveStands, ExitStands
<1>11. ASSUME NEW o \in Object, Move(p, o) PROVE PushStands(p)'
  <2>1. /\ pc[p] = "move" /\ o \in free[p] /\ handled' = [handled EXCEPT ![p] = @ \cup {o}]
        /\ free' = [free EXCEPT ![p] = @ \ {o}]
        /\ UNCHANGED << pc, upload, skipped, attempt, cached, interrupted >>
    BY <1>11 DEF Move
  <2>2. /\ handled'[p] = handled[p] \cup {o} /\ free'[p] = free[p] \ {o}
        /\ staged[User[p]] \in [Object -> Remote]
    BY <1>1, <2>1 DEF TypeOK
  <2>3. /\ \A b \in upload[p] : Whole(staged[User[p]][b]) \/ Whole(final[b])
        /\ \A b \in upload[p] : staged[User[p]][b] # "cut" /\ final[b] # "cut"
        /\ \A b \in handled[p] : Whole(final[b])
        /\ \A b \in Scope[p] : b \in upload[p] \/ b \in skipped[p] \/ Whole(final[b])
        /\ free[p] \subseteq upload[p]
    BY <1>1, <2>1 DEF MoveStands, PlanStands, Looking, Runs, Sending
  <2>4. CASE staged[User[p]][o] # "absent"
    <3>1. /\ final' = [final EXCEPT ![o] = staged[User[p]][o]]
          /\ staged' = [staged EXCEPT ![User[p]][o] = "absent"]
      BY <1>11, <2>4 DEF Move
    <3>2. Whole(staged[User[p]][o])
      BY <2>1, <2>2, <2>3, <2>4 DEF Remote, Whole
    <3>3. \A b \in Object : final'[b] = IF b = o THEN staged[User[p]][o] ELSE final[b]
      BY <1>1, <3>1 DEF TypeOK
    <3>4. \A b \in Object : staged'[User[p]][b] = IF b = o THEN "absent" ELSE staged[User[p]][b]
      BY <1>1, <2>2, <3>1 DEF TypeOK
    <3>5. PlanStands(p)'
      BY <1>1, <1>2, <2>1, <2>3, <3>2, <3>3 DEF PlanStands, Looking, Runs, Whole
    <3>6. MoveStands(p)'
      BY <1>2, <2>1, <2>2, <2>3, <3>2, <3>3, <3>4 DEF MoveStands, Whole
    <3> QED BY <2>1, <3>5, <3>6 DEF PushStands, StagedStands, ExitStands
  <2>5. CASE staged[User[p]][o] = "absent"
    <3>1. UNCHANGED << staged, final >>
      BY <1>11, <2>5 DEF Move
    <3>2. Whole(final[o])
      BY <2>1, <2>3, <2>5 DEF Whole
    <3>3. PlanStands(p)'
      BY <1>1, <2>1, <3>1 DEF PlanStands
    <3>4. MoveStands(p)'
      BY <2>1, <2>2, <2>3, <3>1, <3>2 DEF MoveStands
    <3> QED BY <2>1, <3>3, <3>4 DEF PushStands, StagedStands, ExitStands
  <2> QED BY <2>4, <2>5
<1>18. ASSUME NEW o \in Object, Look(p, o) PROVE PushStands(p)'
  <2>1. /\ pc[p] = "move" /\ o \in upload[p]
        /\ UNCHANGED << pc, upload, skipped, attempt, cached, staged, final, interrupted >>
    BY <1>18 DEF Look
  <2>2. /\ free'[p] \subseteq free[p] \cup {o}
        /\ handled'[p] \subseteq handled[p] \cup {o}
        /\ o \in handled'[p] => o \in handled[p] \/ final[o] # "absent"
    BY <1>1, <1>18 DEF Look, TypeOK
  <2>3. PlanStands(p)' /\ final[o] # "cut"
    BY <1>1, <2>1 DEF PlanStands, Sending
  <2>4. MoveStands(p)'
    BY <1>1, <1>2, <1>4, <2>1, <2>2, <2>3 DEF MoveStands, Remote, Whole
  <2> QED BY <2>1, <2>3, <2>4 DEF PushStands, StagedStands, ExitStands
<1>12. CASE TransferEnds(p)
  <2>1. /\ pc[p] \in {"copy", "move"} /\ handled[p] = upload[p]
        /\ UNCHANGED << upload, skipped, cached, staged, final, interrupted >>
    BY <1>12 DEF TransferEnds
  <2>2. pc'[p] = IF pc[p] = "copy" THEN "checkStaged" ELSE "checkFinal"
    BY <1>1, <1>12, GotoLands DEF TransferEnds
  <2>3. PlanStands(p)'
    BY <1>1, <2>1, <2>2 DEF PlanStands, Looking, Runs, Sending
  <2>4. StagedStands(p)' /\ MoveStands(p)'
    BY <1>1, <2>1, <2>2 DEF StagedStands, MoveStands
  <2> QED BY <2>2, <2>3, <2>4 DEF PushStands, ExitStands
<1>13. CASE Retry(p)
  <2>1. /\ pc[p] \in Runs
        /\ UNCHANGED << pc, upload, skipped, cached, staged, final, interrupted >>
    BY <1>13 DEF Retry
  <2>2. handled'[p] = {} /\ free'[p] = {}
    BY <1>1, <1>13 DEF Retry, TypeOK
  <2> QED BY <1>1, <2>1, <2>2 DEF PushStands, PlanStands, StagedStands, MoveStands, ExitStands
<1>14. CASE GiveUp(p) \/ Cancel(p)
  BY <1>2, <1>3, <1>14, EndStands, PushClasses DEF GiveUp, Cancel
<1>15. CASE Kill(p)
  BY <1>2, <1>3, <1>15, EndStands DEF Kill
<1>16. CASE Interrupt(p)
  BY <1>1, <1>16 DEF Interrupt, PushStands, PlanStands, StagedStands, MoveStands, ExitStands
<1>17. ASSUME NEW o \in Object, Evict(p, o) PROVE PushStands(p)'
  <2>1. /\ pc[p] \notin Ended
        /\ UNCHANGED << pc, upload, skipped, handled, free, attempt, staged, final, interrupted >>
    BY <1>17 DEF Evict
  <2>2. \A b \in Object : cached'[p][b] = IF b = o THEN "absent" ELSE cached[p][b]
    BY <1>1, <1>17 DEF Evict, TypeOK
  <2>3. PlanStands(p)'
    BY <1>1, <1>2, <2>1, <2>2 DEF PlanStands
  <2>4. StagedStands(p)'
    BY <1>1, <1>2, <2>1, <2>2 DEF StagedStands
  <2>5. MoveStands(p)' /\ ExitStands(p)'
    BY <1>1, <1>3, <2>1 DEF MoveStands, ExitStands
  <2> QED BY <2>3, <2>4, <2>5 DEF PushStands
<1> QED BY <1>5, <1>6, <1>7, <1>8, <1>9, <1>10, <1>11, <1>12, <1>13, <1>14, <1>15, <1>16, <1>17, <1>18
  DEF Step, Disturb

LEMMA InvariantIsKept ==
  ASSUME OneUserEach, PushInv, [Next]_vars
  PROVE  PushInv'
<1>1. CASE UNCHANGED vars
  BY <1>1 DEF vars, PushInv, TypeOK, PlanStands, StagedStands, MoveStands, ExitStands
<1>2. ASSUME NEW p \in Pusher, Step(p) \/ Disturb(p) PROVE PushInv'
  <2>1. TypeOK'
    BY <1>2, TypesAreKept
  <2>2. \A q \in Pusher : (PlanStands(q) /\ StagedStands(q) /\ MoveStands(q) /\ ExitStands(q))'
    BY <1>2, OthersStand, OwnStands DEF PushStands
  <2> QED BY <2>1, <2>2 DEF PushInv
<1>3. Next => \E p \in Pusher : Step(p) \/ Disturb(p)
  BY PushAssumption DEF Next, Disturb
<1> QED BY <1>1, <1>2, <1>3

\* The safety of a step that every temporal theorem below rests on.
LEMMA InvariantHolds ==
  ASSUME OneUserEach
  PROVE  Spec => []PushInv
  BY InitEstablishes, InvariantIsKept, PTL DEF Spec

\* Whatever a push ends with is true of the remote and the cache: success means
\* that the whole scope is backed up or was skipped, "integrity" that something
\* is damaged or gone, "missing" that nothing was sent.  It rests on what the
\* machines share: no push undoes what another has seen.
THEOREM ExitsAreTrue ==
  ASSUME OneUserEach
  PROVE  Spec => []ExitIsTrue
<1>1. PushInv => ExitIsTrue
  BY DEF PushInv, ExitStands, ExitIsTrue, DoneIsBackedUp, IntegrityNeedsDamage, MissingSendsNothing
<1> QED BY <1>1, InvariantHolds, PTL

\* What a push checks in its staging directory is what it sent there.
THEOREM StagedBatchIsOwn ==
  ASSUME OneUserEach
  PROVE  Spec => []StagedIsOwn
<1>1. PushInv => StagedIsOwn
  <2> SUFFICES ASSUME PushInv, NEW p \in Pusher, NEW o \in Object, pc[p] = "checkStaged",
                      o \in upload[p], cached[p][o] # "absent"
               PROVE  staged[User[p]][o] = cached[p][o]
    BY DEF StagedIsOwn
  <2> QED BY DEF PushInv, StagedStands
<1> QED BY <1>1, InvariantHolds, PTL

LEMMA EveryStepIsFramed ==
  ASSUME OneUserEach, PushInv, Next
  PROVE  \E p \in Pusher : Framed(p)
<1>1. \E p \in Pusher : Step(p) \/ Disturb(p)
  BY PushAssumption DEF Next, Disturb
<1> QED BY <1>1, StepIsFramed

\* No step of any push, retried, killed or evicted under as it may be, leaves a
\* cut file at the final place of an object.
THEOREM NoFinalIsCut ==
  ASSUME OneUserEach
  PROVE  Spec => FinalsWhole
<1>1. PushInv /\ [Next]_vars => [\A o \in Object : final'[o] = "cut" => final[o] = "cut"]_vars
  BY EveryStepIsFramed DEF Framed
<1> QED BY <1>1, InvariantHolds, PTL DEF Spec, FinalsWhole

\* Where two pushes have both found a final place empty, and where one has that is
\* empty no longer, there is a race.
RaceInv ==
  /\ free = [p \in Pusher |-> free[p]]
  /\ \A o \in Object : \A p \in Pusher : o \in free[p] /\ final[o] # "absent" => o \in raced
  /\ \A o \in Object : \A p, q \in Pusher : o \in free[p] /\ o \in free[q] => p = q \/ o \in raced

\* What a step but Look and Move does to a race: it moves nothing, and one push at most
\* forgets what it has found.
Calm(p) ==
  /\ UNCHANGED << final, raced >>
  /\ free' = free \/ free' = [free EXCEPT ![p] = {}]

LEMMA OtherStepsAreCalm ==
  ASSUME NEW p \in Pusher, Step(p) \/ Disturb(p)
  PROVE  Calm(p) \/ \E o \in Object : Look(p, o) \/ Move(p, o)
<1>1. CASE Plan(p) \/ Stat(p)
  BY <1>1 DEF Plan, Stat, Exit, Goto, Calm
<1>2. CASE QuerySizes(p) \/ CheckStaged(p) \/ CheckFinal(p)
  BY <1>2 DEF QuerySizes, CheckStaged, CheckFinal, Mismatch, Exit, Goto, Calm
<1>3. CASE (\E o \in Object : Upload(p, o)) \/ TransferEnds(p) \/ Retry(p)
  BY <1>3 DEF Upload, TransferEnds, Retry, Goto, Calm
<1>4. CASE GiveUp(p) \/ Cancel(p)
  BY <1>4 DEF GiveUp, Cancel, Exit, Goto, Calm
<1>5. CASE Disturb(p)
  BY <1>5 DEF Disturb, Interrupt, Kill, Evict, Goto, Calm
<1> QED BY <1>1, <1>2, <1>3, <1>4, <1>5 DEF Step

\* One step, whoever takes it: the races are known, and nothing else is replaced.
LEMMA RaceStep ==
  ASSUME RaceInv, NEW p \in Pusher, Step(p) \/ Disturb(p),
         final = [o \in Object |-> final[o]]
  PROVE  /\ RaceInv' /\ final' = [o \in Object |-> final'[o]]
         /\ \A o \in Object : final[o] # "absent" /\ final'[o] # final[o] => o \in raced
<1>1. CASE Calm(p)
  <2>1. free' = [q \in Pusher |-> free'[q]] /\ \A q \in Pusher : free'[q] \subseteq free[q]
    BY <1>1 DEF Calm, RaceInv
  <2> QED BY <1>1, <2>1 DEF Calm, RaceInv
<1>2. ASSUME NEW o \in Object, Look(p, o)
      PROVE  RaceInv' /\ UNCHANGED final
  <2>1. /\ UNCHANGED final /\ raced \subseteq raced' /\ o \notin free[p]
        /\ free' = [q \in Pusher |-> free'[q]]
        /\ \A q \in Pusher \ {p} : free'[q] = free[q]
        /\ free'[p] \subseteq free[p] \cup {o}
        /\ o \in free'[p] => final[o] = "absent"
        /\ o \in free'[p] => \A q \in Pusher : o \in free[q] => o \in raced'
    BY <1>2 DEF Look, RaceInv
  <2> QED BY <2>1 DEF RaceInv
<1>3. ASSUME NEW o \in Object, Move(p, o)
      PROVE  /\ RaceInv' /\ final' = [b \in Object |-> final'[b]]
             /\ \A b \in Object : final[b] # "absent" /\ final'[b] # final[b] => b \in raced
  <2>1. /\ UNCHANGED raced /\ o \in free[p]
        /\ free' = [q \in Pusher |-> free'[q]]
        /\ free'[p] = free[p] \ {o} /\ \A q \in Pusher \ {p} : free'[q] = free[q]
    BY <1>3 DEF Move, RaceInv
  <2>2. final' = [b \in Object |-> final'[b]] /\ \A b \in Object \ {o} : final'[b] = final[b]
    BY <1>3 DEF Move
  <2> QED BY <2>1, <2>2 DEF RaceInv
<1> QED BY <1>1, <1>2, <1>3, OtherStepsAreCalm DEF Calm

\* No push replaces an object at its final place but in a race of two that had both found
\* the place empty: whatever is retried, killed or evicted, and whoever shares a staging
\* directory.
THEOREM OnlyRacesReplace == Spec => OnlyRaceReplaces
<1> DEFINE Inv == RaceInv /\ final = [o \in Object |-> final[o]]
<1>1. Init => Inv
  BY DEF Init, RaceInv
<1>2. Inv /\ [Next]_vars => Inv' /\ [\A o \in Object : final[o] # "absent" /\ final'[o] # final[o] => o \in raced]_vars
  <2>1. Next => \E p \in Pusher : Step(p) \/ Disturb(p)
    BY PushAssumption DEF Next, Disturb
  <2>2. UNCHANGED vars /\ Inv => Inv'
    BY DEF vars, RaceInv
  <2> QED BY <2>1, <2>2, RaceStep
<1> QED BY <1>1, <1>2, PTL DEF Spec, OnlyRaceReplaces
=============================================================================
