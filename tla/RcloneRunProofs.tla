---------------------------- MODULE RcloneRunProofs ----------------------------
(***************************************************************************)
(* Theorems about one call of run_with_output, for any number of runs and  *)
(* any lengths of output, pipes and captures.                              *)
(*                                                                         *)
(* The argument: a process lives only while the caller is between its      *)
(* spawn and its wait, a thread only until it is joined, and a thread ends *)
(* only when a read fails or nobody can write any more: so that whoever is *)
(* past both joins has the output up to the failure, or all of it, and     *)
(* owes nothing to anybody.                                                *)
(***************************************************************************)
EXTENDS RcloneRun, TLAPS

Before == {"list", "validate"}
Between == {"gate", "spawn"}
Alive == {"readers", "poll", "kill", "reap"}
Joining == {"joinOut", "joinErr"}
Stages == Before \cup Between \cup Alive \cup Joining \cup {"judge", "sleep", "done"}
Holders == {"caller", "child", "helper"}
Readers == {"none", "reading", "ended", "failed"}

Types ==
    /\ op \in Call!Ops /\ progress \in BOOLEAN /\ autoreap \in BOOLEAN
    /\ pc \in Stages
    /\ cancel \in BOOLEAN /\ list \in BOOLEAN
    /\ attempt \in 1..RetryMax /\ runs \in Nat
    /\ child \in {"none", "running", "zombie", "lost", "reaped"}
    /\ stream \in [Streams -> [written : Nat, read : Nat, holders : SUBSET Holders]]
    /\ reader \in [Streams -> Readers]
    /\ cap \in [Streams -> [lo : Nat, hi : Nat, truncated : BOOLEAN]]

\* Who has a process and who has a list.
ChildStands ==
    /\ child \in {"running", "zombie"} => pc \in Alive
    /\ pc = "reap" => child # "running"
    /\ Listed /\ pc \notin {"list", "done"} => list
    /\ child = "running" => \A s \in Streams : "child" \in stream[s].holders
    /\ child = "zombie" => code \in Call!Classes

\* A thread has ended at the end of its stream, and whoever needs it has waited for it.
ReadersStand ==
    /\ pc \in Before \cup Between \cup {"readers", "sleep"} => \A s \in Streams : reader[s] # "reading"
    /\ pc = "joinErr" => Joined("out")
    /\ pc = "judge" => \A s \in Streams : Joined(s)
    /\ pc = "done" /\ result # "io" => \A s \in Streams : reader[s] # "reading"
    /\ \A s \in Streams : reader[s] = "ended" =>
          stream[s].read = stream[s].written /\ stream[s].holders = {}

\* A capture is what ought to be left of all that has been read.
CapturesStand ==
    \A s \in Streams : cap[s] = Diagnosis(stream[s].read) /\ stream[s].read <= stream[s].written

\* A call that answers with sizes has parsed a listing.
ListingStands ==
    (pc = "done" /\ op = "sizes" /\ result = "ok") =>
        stream["out"].read \in {0, stream["out"].written} /\ Joined("out")

\* The runs are counted, and an answer is an exit of the last run or a cancellation.
CountStands ==
    /\ pc \in Before => runs = 0 /\ attempt = 1
    /\ pc \in Between => runs = attempt - 1
    /\ pc \in Alive \cup Joining \cup {"judge", "sleep"} => runs = attempt
    /\ pc = "sleep" => attempt < RetryMax
    /\ pc \in {"readers", "poll", "kill"} => status = "none"
    /\ pc = "reap" => status = "canceled"
    /\ pc \in Joining \cup {"judge"} => status \in Call!Classes \cup {"canceled"}
    /\ status = "canceled" \/ pc = "kill" => cancel

\* The inductive invariant.
RunInv == Types /\ ChildStands /\ ReadersStand /\ CapturesStand /\ CountStands /\ ListingStands

-----------------------------------------------------------------------------

\* A capture below its limit holds everything, another one the end.
LEMMA DiagnosisWhole ==
  ASSUME NEW n, ~(progress /\ n > Limit)
  PROVE  Diagnosis(n) = [lo |-> 1, hi |-> n, truncated |-> FALSE]
  BY DEF Diagnosis

LEMMA DiagnosisEnd ==
  ASSUME NEW n, progress /\ n > Limit
  PROVE  Diagnosis(n) = [lo |-> n - Limit + 1, hi |-> n, truncated |-> TRUE]
  BY DEF Diagnosis

LEMMA InitEstablishes == Init => RunInv
<1> SUFFICES ASSUME Init PROVE RunInv
  OBVIOUS
<1>1. \A s \in Streams : stream[s] = [written |-> 0, read |-> 0, holders |-> {}]
                          /\ reader[s] = "none" /\ cap[s] = [lo |-> 1, hi |-> 0, truncated |-> FALSE]
  BY DEF Init, Empty
<1>2. Types
  <2>1. /\ op \in Call!Ops /\ progress \in BOOLEAN /\ autoreap \in BOOLEAN
        /\ cancel \in BOOLEAN /\ list \in BOOLEAN /\ pc \in {"list", "validate"}
        /\ child = "none" /\ runs = 0 /\ attempt = 1
    BY DEF Init
  <2>2. attempt \in 1..RetryMax /\ pc \in Stages
    BY <2>1, RunAssumption DEF Stages, Before
  <2>3. stream \in [Streams -> [written : Nat, read : Nat, holders : SUBSET Holders]]
    <3>1. [written |-> 0, read |-> 0, holders |-> {}] \in [written : Nat, read : Nat, holders : SUBSET Holders]
      OBVIOUS
    <3> QED BY <3>1 DEF Init
  <2>4. /\ reader \in [Streams -> Readers]
        /\ cap \in [Streams -> [lo : Nat, hi : Nat, truncated : BOOLEAN]]
    BY DEF Init, Empty, Readers
  <2> QED BY <2>1, <2>2, <2>3, <2>4 DEF Types
<1>3. pc \in Before /\ (Listed /\ pc # "list" => list) /\ status = "none"
  BY DEF Init, Before
<1>4. CapturesStand
  <2>1. Diagnosis(0) = [lo |-> 1, hi |-> 0, truncated |-> FALSE]
    <3>1. ~(0 > Limit)
      BY RunAssumption
    <3> QED BY <3>1, DiagnosisWhole
  <2>2. \A s \in Streams : stream[s].read = 0 /\ stream[s].written = 0
    BY <1>1
  <2>3. \A s \in Streams : Diagnosis(stream[s].read) = Diagnosis(0) /\ 0 <= 0
    BY <2>2
  <2> QED BY <1>1, <2>1, <2>2, <2>3 DEF CapturesStand
<1>5. ChildStands /\ ReadersStand /\ CountStands /\ ListingStands
  BY <1>1, <1>3 DEF Init, ListingStands, ChildStands, ReadersStand, CountStands, Before, Between, Alive, Joining, Call!Classes
<1> QED BY <1>2, <1>4, <1>5 DEF RunInv

\* PipeCapture::extend keeps the end of what has been read.
LEMMA ExtendKeepsTheEnd ==
  ASSUME NEW r \in Nat, NEW n \in Nat \ {0}, NEW m \in Nat, m = r + n, progress \in BOOLEAN
  PROVE  Extend(Diagnosis(r), n) = Diagnosis(m)
<1>1. Limit \in Nat \ {0} 
  BY RunAssumption
<1> DEFINE c == Diagnosis(r)
           held == c.hi + n + 1 - c.lo
           excess == IF progress /\ held > Limit THEN held - Limit ELSE 0
<1>2. Extend(c, n) = [lo |-> c.lo + excess, hi |-> c.hi + n, truncated |-> c.truncated \/ excess > 0]
  BY DEF Extend
<1>3. CASE progress /\ r > Limit
  <2>1. c.lo = r - Limit + 1 /\ c.hi = r /\ c.truncated = TRUE
    BY <1>3 DEF Diagnosis
  <2> HIDE DEF c
  <2>2. held = Limit + n /\ held > Limit
    BY <1>1, <2>1
  <2>3. excess = n
    BY <1>1, <1>3, <2>2
  <2>4. /\ c.lo + excess = m - Limit + 1 /\ c.hi + n = m
        /\ (c.truncated \/ excess > 0) = TRUE
    BY <1>1, <2>1, <2>3
  <2>5. Diagnosis(m) = [lo |-> m - Limit + 1, hi |-> m, truncated |-> TRUE]
    BY <1>1, <1>3 DEF Diagnosis
  <2> QED BY <1>2, <2>4, <2>5 DEF c
<1>4. CASE ~(progress /\ r > Limit)
  <2>1. c.lo = 1 /\ c.hi = r /\ c.truncated = FALSE
    BY <1>4 DEF Diagnosis
  <2> HIDE DEF c
  <2>2. held = m
    BY <2>1
  <2>3. CASE progress /\ m > Limit
    <3>1. excess = m - Limit /\ excess > 0
      BY <1>1, <2>2, <2>3
    <3>2. /\ c.lo + excess = m - Limit + 1 /\ c.hi + n = m
          /\ (c.truncated \/ excess > 0) = TRUE
      BY <1>1, <2>1, <3>1
    <3>3. Diagnosis(m) = [lo |-> m - Limit + 1, hi |-> m, truncated |-> TRUE]
      BY <2>3, DiagnosisEnd
    <3> QED BY <1>2, <3>2, <3>3 DEF c
  <2>4. CASE ~(progress /\ m > Limit)
    <3>1. excess = 0
      BY <2>2, <2>4
    <3>2. c.lo + excess = 1 /\ c.hi + n = m /\ (c.truncated \/ excess > 0) = FALSE
      BY <2>1, <3>1
    <3>3. Diagnosis(m) = [lo |-> 1, hi |-> m, truncated |-> FALSE]
      BY <2>4, DiagnosisWhole
    <3> QED BY <1>2, <3>2, <3>3 DEF c
  <2> QED BY <2>3, <2>4
<1> QED BY <1>3, <1>4

\* The variables keep their types.
LEMMA TypesAreKept ==
  ASSUME RunInv, Next
  PROVE  Types'
<1> DEFINE Stream == [written : Nat, read : Nat, holders : SUBSET Holders]
<1>0. Types /\ RetryMax \in Nat \ {0} /\ ChildStands /\ CountStands
  BY RunAssumption DEF RunInv
<1>1. \A s \in Streams : stream[s] \in Stream /\ stream[s].written \in Nat /\ stream[s].read \in Nat
                         /\ stream[s].holders \subseteq Holders
  BY <1>0 DEF Types
<1>2. ASSUME NEW s \in Streams, NEW x \in Stream, stream' = [stream EXCEPT ![s] = x]
      PROVE  stream' \in [Streams -> Stream]
  BY <1>0, <1>2 DEF Types
<1>c. ASSUME NEW who,
             stream' = [s \in Streams |-> [stream[s] EXCEPT !.holders = @ \ {who}]]
      PROVE  stream' \in [Streams -> Stream]
  <2>1. \A s \in Streams : [stream[s] EXCEPT !.holders = @ \ {who}] \in Stream
    BY <1>1
  <2> QED BY <1>c, <2>1
<1>3. CASE WriteList \/ Validate \/ Gate \/ SpawnFails \/ JoinOut \/ JoinErr \/ Judge
  BY <1>0, <1>3 DEF Types, WriteList, Validate, Gate, SpawnFails, JoinOut, JoinErr, Judge, Finish, setup, io,
     Stages, Before, Between, Alive, Joining
<1>4. CASE Spawn
  <2>1. stream' \in [Streams -> Stream]
    <3>1. \A H \in SUBSET Holders : [written |-> 0, read |-> 0, holders |-> H] \in Stream
      OBVIOUS
    <3>2. \A s \in Streams : {"child"} \cup (IF progress /\ s = "out" THEN {"caller"} ELSE {}) \in SUBSET Holders
      BY DEF Holders
    <3> QED BY <1>4, <3>1, <3>2 DEF Spawn
  <2>2. /\ reader' \in [Streams -> Readers]
        /\ cap' \in [Streams -> [lo : Nat, hi : Nat, truncated : BOOLEAN]]
    BY <1>4 DEF Spawn, Empty, Readers
  <2>3. runs' \in Nat /\ pc' \in Stages
    BY <1>0, <1>4 DEF Spawn, Types, Stages, Alive
  <2> QED BY <1>0, <1>4, <2>1, <2>2, <2>3 DEF Spawn, Types, setup
<1>5. CASE StartReaders
  <2>1. stream' \in [Streams -> Stream]
    BY <1>5, <1>c DEF StartReaders
  <2>2. reader' \in [Streams -> Readers] /\ pc' \in Stages
    BY <1>5 DEF StartReaders, Readers, Stages, Alive
  <2> QED BY <1>0, <1>5, <2>1, <2>2 DEF StartReaders, Types, setup
<1>6. CASE Poll \/ Reap
  BY <1>0, <1>6 DEF Types, Poll, Reap, Finish, setup, io, Stages, Alive, Joining
<1>7. CASE Kill
  <2>1. stream' \in [Streams -> Stream]
    BY <1>0, <1>7, <1>c DEF Kill, Closed, Types
  <2>2. child' \in {"none", "running", "zombie", "lost", "reaped"} /\ pc' \in Stages
    BY <1>0, <1>7 DEF Kill, Gone, Types, Stages, Alive
  <2> QED BY <1>0, <1>7, <2>1, <2>2 DEF Kill, Types, setup
<1>8. CASE Sleep
  <2>1. attempt' \in 1..RetryMax
    BY <1>0, <1>8 DEF Sleep, Types, CountStands
  <2> QED BY <1>0, <1>8, <2>1 DEF Sleep, Types, Finish, setup, io, Stages, Between
<1>9. ASSUME NEW s \in Streams, Write(s) PROVE Types'
  <2>1. [stream[s] EXCEPT !.written = @ + 1] \in Stream
    BY <1>1
  <2> QED BY <1>0, <1>2, <1>9, <2>1 DEF Write, Types, setup
<1>10. ASSUME NEW s \in Streams, ForkHelper(s) \/ HelperEnds(s) PROVE Types'
  <2>1. /\ [stream[s] EXCEPT !.holders = @ \cup {"helper"}] \in Stream
        /\ [stream[s] EXCEPT !.holders = @ \ {"helper"}] \in Stream
    BY <1>1 DEF Holders
  <2> QED BY <1>0, <1>2, <1>10, <2>1 DEF ForkHelper, HelperEnds, Types, setup
<1>11. ASSUME NEW c \in Call!Classes, Exit(c) PROVE Types'
  <2>1. stream' \in [Streams -> Stream]
    BY <1>11, <1>c DEF Exit, Closed
  <2> QED BY <1>0, <1>11, <2>1 DEF Exit, Gone, Types, setup
<1>12. ASSUME NEW s \in Streams, Read(s) PROVE Types'
  <2>1. PICK n \in 1..Unread(s) : /\ stream' = [stream EXCEPT ![s].read = @ + n]
                                  /\ cap' = [cap EXCEPT ![s] = Extend(@, n)]
    BY <1>12 DEF Read
  <2>2. n \in Nat \ {0} /\ stream[s].read + n \in Nat
    BY <1>1 DEF Unread
  <2>3. [stream[s] EXCEPT !.read = @ + n] \in Stream
    BY <1>1, <2>2
  <2>4. Extend(cap[s], n) = Diagnosis(stream[s].read + n)
    <3>1. cap[s] = Diagnosis(stream[s].read)
      BY DEF RunInv, CapturesStand
    <3> QED BY <1>0, <1>1, <2>2, <3>1, ExtendKeepsTheEnd DEF Types
  <2>5. Diagnosis(stream[s].read + n) \in [lo : Nat, hi : Nat, truncated : BOOLEAN]
    BY <2>2, RunAssumption DEF Diagnosis
  <2> QED BY <1>0, <1>2, <1>12, <2>1, <2>3, <2>4, <2>5 DEF Read, Types, setup
<1>13. ASSUME NEW s \in Streams, Eof(s) \/ ReadFails(s) PROVE Types'
  BY <1>0, <1>13 DEF Eof, ReadFails, Readers, Types, setup
<1>14. CASE Interrupt \/ Pause \/ Done
  BY <1>0, <1>14 DEF Interrupt, Pause, Done, vars, Types, setup, io
<1> QED BY <1>3, <1>4, <1>5, <1>6, <1>7, <1>8, <1>9, <1>10, <1>11, <1>12, <1>13, <1>14 DEF Next, Caller

\* A capture stays what its reader has seen last.
LEMMA CapturesAreKept ==
  ASSUME RunInv, Next
  PROVE  CapturesStand'
<1>0. Types /\ CapturesStand /\ Types' /\ progress' = progress
  BY TypesAreKept DEF RunInv, Next, Caller, WriteList, Validate, Gate, SpawnFails, JoinOut, JoinErr, Judge,
     Spawn, StartReaders, Poll, Kill, Reap, Sleep, Write, ForkHelper, HelperEnds, Read, Eof, ReadFails, Exit,
     Interrupt, Pause, Done, vars, setup
<1>1. \A s \in Streams : stream[s].written \in Nat /\ stream[s].read \in Nat
  BY <1>0 DEF Types
<1>k. \A n : Diagnosis(n)' = Diagnosis(n)
  BY <1>0 DEF Diagnosis
<1> SUFFICES ASSUME NEW t \in Streams
             PROVE  cap'[t] = Diagnosis(stream'[t].read) /\ stream'[t].read <= stream'[t].written
  BY <1>k DEF CapturesStand
<1>2. cap[t] = Diagnosis(stream[t].read) /\ stream[t].read <= stream[t].written
  BY <1>0 DEF CapturesStand
<1>3. CASE UNCHANGED <<stream, cap>>
  BY <1>2, <1>3
<1>4. CASE StartReaders \/ Kill \/ (\E c \in Call!Classes : Exit(c)) \/ \E s \in Streams : ForkHelper(s) \/ HelperEnds(s)
  <2>1. cap' = cap
    BY <1>4 DEF StartReaders, Kill, Exit, ForkHelper, HelperEnds
  <2>2. stream'[t].read = stream[t].read /\ stream'[t].written = stream[t].written
    BY <1>0, <1>4 DEF StartReaders, Kill, Exit, ForkHelper, HelperEnds, Closed, Types
  <2> QED BY <1>2, <2>1, <2>2
<1>5. CASE Spawn
  <2>1. ~(0 > Limit)
    BY RunAssumption
  <2>2. stream'[t].read = 0 /\ stream'[t].written = 0 /\ cap'[t] = [lo |-> 1, hi |-> 0, truncated |-> FALSE]
    BY <1>5 DEF Spawn, Empty
  <2>3. Diagnosis(0) = [lo |-> 1, hi |-> 0, truncated |-> FALSE]
    BY <2>1, DiagnosisWhole
  <2> QED BY <2>2, <2>3
<1>6. ASSUME NEW s \in Streams, Write(s)
      PROVE  cap'[t] = Diagnosis(stream'[t].read) /\ stream'[t].read <= stream'[t].written
  <2>1. cap' = cap /\ stream' = [stream EXCEPT ![s].written = @ + 1]
    BY <1>6 DEF Write
  <2>2. stream'[t].read = stream[t].read /\ stream'[t].written \in {stream[t].written, stream[t].written + 1}
    BY <1>0, <2>1 DEF Types
  <2> QED BY <1>1, <1>2, <2>1, <2>2
<1>7. ASSUME NEW s \in Streams, Read(s)
      PROVE  cap'[t] = Diagnosis(stream'[t].read) /\ stream'[t].read <= stream'[t].written
  <2>1. PICK n \in 1..Unread(s) : /\ stream' = [stream EXCEPT ![s].read = @ + n]
                                  /\ cap' = [cap EXCEPT ![s] = Extend(@, n)]
    BY <1>7 DEF Read
  <2>2. CASE t # s
    BY <1>0, <1>2, <2>1, <2>2 DEF Types
  <2>3. CASE t = s
    <3>1. n \in Nat \ {0} /\ stream[s].read + n \in Nat /\ stream[s].read + n <= stream[s].written
      BY <1>1 DEF Unread
    <3>2. /\ stream'[s].read = stream[s].read + n /\ stream'[s].written = stream[s].written
          /\ cap'[s] = Extend(cap[s], n)
      BY <1>0, <2>1 DEF Types
    <3>3. Extend(cap[s], n) = Diagnosis(stream[s].read + n)
      BY <1>0, <1>1, <1>2, <2>3, <3>1, ExtendKeepsTheEnd DEF Types
    <3> QED BY <2>3, <3>1, <3>2, <3>3
  <2> QED BY <2>2, <2>3
<1>8. CASE \/ WriteList \/ Validate \/ Gate \/ SpawnFails \/ Poll \/ Reap \/ JoinOut \/ JoinErr \/ Judge \/ Sleep
           \/ (\E s \in Streams : Eof(s) \/ ReadFails(s)) \/ Interrupt \/ Pause \/ Done
  BY <1>3, <1>8 DEF WriteList, Validate, Gate, SpawnFails, Poll, Reap, JoinOut, JoinErr, Judge, Sleep, Eof, ReadFails,
     Interrupt, Pause, Done, vars, io
<1> QED BY <1>4, <1>5, <1>6, <1>7, <1>8 DEF Next, Caller

\* A process has a caller that ends it or waits for it, and its list.
LEMMA ChildIsKept ==
  ASSUME RunInv, Next
  PROVE  ChildStands'
<1>0. Types /\ ChildStands
  BY DEF RunInv
<1>1. Listed' <=> Listed
  BY DEF Listed, Next, Caller, WriteList, Validate, Gate, SpawnFails, JoinOut, JoinErr, Judge,
     Spawn, StartReaders, Poll, Kill, Reap, Sleep, Write, ForkHelper, HelperEnds, Read, Eof, ReadFails, Exit,
     Interrupt, Pause, Done, vars, setup
<1>2. CASE WriteList \/ Validate \/ Gate \/ SpawnFails \/ JoinOut \/ JoinErr \/ Judge \/ Sleep
  BY <1>0, <1>1, <1>2 DEF WriteList, Validate, Gate, SpawnFails, JoinOut, JoinErr, Judge, Sleep, Finish,
     ChildStands, Alive, io
<1>3. CASE Spawn
  <2>1. \A s \in Streams : "child" \in stream'[s].holders
    BY <1>3 DEF Spawn
  <2> QED BY <1>0, <1>1, <1>3, <2>1 DEF Spawn, ChildStands, Alive
<1>4. CASE StartReaders
  <2>1. \A s \in Streams : stream'[s].holders = stream[s].holders \ {"caller"}
    BY <1>0, <1>4 DEF StartReaders, Types
  <2> QED BY <1>0, <1>1, <1>4, <2>1 DEF StartReaders, ChildStands, Alive
<1>5. CASE Poll \/ Reap
  BY <1>0, <1>1, <1>5 DEF Poll, Reap, Finish, ChildStands, Alive, Types, io
<1>6. CASE Kill
  <2>1. child' # "running" /\ (child' = "zombie" => code' \in Call!Classes)
    BY <1>0, <1>6 DEF Kill, Gone, ChildStands, Call!Classes
  <2> QED BY <1>0, <1>1, <1>6, <2>1 DEF Kill, ChildStands, Alive
<1>7. ASSUME NEW s \in Streams, Write(s) \/ ForkHelper(s) \/ HelperEnds(s) \/ Read(s) \/ Eof(s) \/ ReadFails(s)
      PROVE  ChildStands'
  <2>1. \A t \in Streams : "child" \in stream[t].holders => "child" \in stream'[t].holders
    <3>t. stream \in [Streams -> [written : Nat, read : Nat, holders : SUBSET Holders]]
      BY <1>0 DEF Types
    <3>1. CASE Write(s)
      BY <3>t, <3>1 DEF Write
    <3>2. CASE ForkHelper(s)
      BY <3>t, <3>2 DEF ForkHelper
    <3>3. CASE HelperEnds(s)
      BY <3>t, <3>3 DEF HelperEnds
    <3>4. CASE Read(s)
      BY <3>t, <3>4 DEF Read
    <3>5. CASE Eof(s) \/ ReadFails(s)
      BY <3>5 DEF Eof, ReadFails
    <3> QED BY <1>7, <3>1, <3>2, <3>3, <3>4, <3>5
  <2> QED BY <1>0, <1>1, <1>7, <2>1 DEF Write, ForkHelper, HelperEnds, Read, Eof, ReadFails, ChildStands
<1>8. ASSUME NEW c \in Call!Classes, Exit(c) PROVE ChildStands'
  BY <1>0, <1>1, <1>8 DEF Exit, Gone, ChildStands
<1>9. CASE Interrupt \/ Pause \/ Done
  BY <1>0, <1>1, <1>9 DEF Interrupt, Pause, Done, vars, ChildStands, io
<1> QED BY <1>2, <1>3, <1>4, <1>5, <1>6, <1>7, <1>8, <1>9 DEF Next, Caller

\* A thread is joined before anything is made of what it has read.
LEMMA ReadersAreKept ==
  ASSUME RunInv, Next
  PROVE  ReadersStand'
<1>0. Types /\ ChildStands /\ ReadersStand /\ CountStands
  BY DEF RunInv
<1>s. Streams = {"out", "err"}
  BY DEF Streams
<1>2. CASE WriteList \/ Validate \/ Gate \/ SpawnFails \/ Judge \/ Sleep \/ Poll \/ Reap
  BY <1>0, <1>2 DEF WriteList, Validate, Gate, SpawnFails, Judge, Sleep, Poll, Reap, Finish,
     ReadersStand, Joined, Before, Between, io
<1>3. CASE JoinOut \/ JoinErr
  BY <1>0, <1>s, <1>3 DEF JoinOut, JoinErr, ReadersStand, Joined, Before, Between, io
<1>4. CASE Spawn
  <2>1. \A s \in Streams : reader'[s] = "none"
    BY <1>4 DEF Spawn
  <2> QED BY <1>4, <2>1 DEF Spawn, ReadersStand, Joined, Before, Between
<1>5. CASE StartReaders
  <2>1. \A s \in Streams : reader'[s] = "reading"
    BY <1>5 DEF StartReaders
  <2> QED BY <1>5, <2>1 DEF StartReaders, ReadersStand, Joined, Before, Between
<1>6. CASE Kill
  <2>1. \A s \in Streams : \/ stream'[s] = stream[s]
                           \/ /\ stream'[s].read = stream[s].read /\ stream'[s].written = stream[s].written
                              /\ stream'[s].holders = stream[s].holders \ {"child"}
    BY <1>0, <1>6 DEF Kill, Closed, Types
  <2> QED BY <1>0, <1>6, <2>1 DEF Kill, ReadersStand, Joined, Before, Between
<1>7. ASSUME NEW s \in Streams, Write(s) \/ ForkHelper(s) \/ HelperEnds(s) \/ Read(s)
      PROVE  ReadersStand'
  <2>1. reader' = reader /\ pc' = pc /\ result' = result
    BY <1>7 DEF Write, ForkHelper, HelperEnds, Read
  <2>2. reader[s] # "ended"
    BY <1>0, <1>7 DEF Write, ForkHelper, HelperEnds, Read, ReadersStand, Joined, ChildStands
  <2>3. \A t \in Streams : t # s => stream'[t] = stream[t]
    BY <1>0, <1>7 DEF Write, ForkHelper, HelperEnds, Read, Types
  <2> QED BY <1>0, <2>1, <2>2, <2>3 DEF ReadersStand, Joined
<1>f. ASSUME NEW s \in Streams, ReadFails(s) PROVE ReadersStand'
  <2>1. /\ pc' = pc /\ result' = result /\ stream' = stream /\ reader[s] = "reading"
        /\ \A t \in Streams : reader'[t] = IF t = s THEN "failed" ELSE reader[t]
    BY <1>0, <1>f DEF ReadFails, Types
  <2> QED BY <1>0, <1>s, <2>1 DEF ReadersStand, Joined
<1>8. ASSUME NEW s \in Streams, Eof(s) PROVE ReadersStand'
  <2>1. /\ pc' = pc /\ result' = result /\ stream' = stream
        /\ reader[s] = "reading" /\ stream[s].holders = {} /\ Unread(s) = 0
        /\ \A t \in Streams : reader'[t] = IF t = s THEN "ended" ELSE reader[t]
    BY <1>0, <1>8 DEF Eof, Types
  <2>2. stream[s].read = stream[s].written
    <3>1. stream[s].read \in Nat /\ stream[s].written \in Nat
      BY <1>0 DEF Types
    <3> QED BY <2>1, <3>1 DEF Unread
  <2> QED BY <1>0, <1>s, <2>1, <2>2 DEF ReadersStand, Joined
<1>9. ASSUME NEW c \in Call!Classes, Exit(c) PROVE ReadersStand'
  <2>1. \A s \in Streams : /\ stream'[s].read = stream[s].read /\ stream'[s].written = stream[s].written
                           /\ stream'[s].holders = stream[s].holders \ {"child"}
    BY <1>0, <1>9 DEF Exit, Closed, Types
  <2> QED BY <1>0, <1>9, <2>1 DEF Exit, ReadersStand, Joined
<1>10. CASE Interrupt \/ Pause \/ Done
  BY <1>0, <1>10 DEF Interrupt, Pause, Done, vars, ReadersStand, Joined, io
<1> QED BY <1>2, <1>3, <1>4, <1>5, <1>6, <1>7, <1>8, <1>f, <1>9, <1>10 DEF Next, Caller

\* The runs are counted as the attempts are, and an answer is an exit.
LEMMA CountIsKept ==
  ASSUME RunInv, Next
  PROVE  CountStands'
<1>0. Types /\ ChildStands /\ CountStands /\ RetryMax \in Nat \ {0}
  BY RunAssumption DEF RunInv
<1>1. attempt \in Nat /\ runs \in Nat /\ attempt <= RetryMax
  BY <1>0 DEF Types
<1>2. CASE WriteList \/ Validate \/ Gate \/ SpawnFails \/ StartReaders
  BY <1>0, <1>1, <1>2 DEF WriteList, Validate, Gate, SpawnFails, StartReaders, Finish, CountStands, Before, Between, Alive, Joining
<1>3. CASE Spawn
  BY <1>0, <1>1, <1>3 DEF Spawn, CountStands, Before, Between, Alive, Joining
<1>4. CASE Poll \/ Kill \/ Reap \/ JoinOut \/ JoinErr
  BY <1>0, <1>1, <1>4 DEF Poll, Kill, Reap, JoinOut, JoinErr, Finish, CountStands, ChildStands, Before, Between,
     Alive, Joining, Call!Classes
<1>5. CASE Judge
  BY <1>0, <1>1, <1>5 DEF Judge, Again, Finish, CountStands, Before, Between, Alive, Joining
<1>6. CASE Sleep
  BY <1>0, <1>1, <1>6 DEF Sleep, Finish, CountStands, Before, Between, Alive, Joining
<1>7. ASSUME NEW s \in Streams, Write(s) \/ ForkHelper(s) \/ HelperEnds(s) \/ Read(s) \/ Eof(s) \/ ReadFails(s)
      PROVE  CountStands'
  BY <1>0, <1>7 DEF Write, ForkHelper, HelperEnds, Read, Eof, ReadFails, CountStands
<1>8. ASSUME NEW c \in Call!Classes, Exit(c) PROVE CountStands'
  BY <1>0, <1>8 DEF Exit, CountStands
<1>9. CASE Interrupt \/ Pause \/ Done
  BY <1>0, <1>9 DEF Interrupt, Pause, Done, vars, CountStands
<1> QED BY <1>2, <1>3, <1>4, <1>5, <1>6, <1>7, <1>8, <1>9 DEF Next, Caller
\* A call that answers with sizes has parsed all that was listed, or read nothing of it, and
\* nothing is read or written after it.
LEMMA ListingIsKept ==
  ASSUME RunInv, Next
  PROVE  ListingStands'
<1> SUFFICES ASSUME pc' = "done", op' = "sizes", result' = "ok"
             PROVE  stream'["out"].read \in {0, stream'["out"].written} /\ Joined("out")'
  BY DEF ListingStands
<1>0. /\ Types /\ ChildStands /\ ReadersStand /\ CapturesStand /\ ListingStands
      /\ "out" \in Streams /\ "out" # "err"
  BY DEF RunInv, Streams
<1>1. op' = op
  BY DEF Next, Caller, WriteList, Validate, Gate, SpawnFails, JoinOut, JoinErr, Judge,
     Spawn, StartReaders, Poll, Kill, Reap, Sleep, Write, ForkHelper, HelperEnds, Read, Eof, ReadFails, Exit,
     Interrupt, Pause, Done, vars, setup
<1>2. CASE Judge
  <2>1. /\ pc = "judge" /\ UNCHANGED io /\ \E r \in Answers : Finish(r)
    BY <1>2 DEF Judge, Finish
  <2>2. "ok" \in Answers
    BY <2>1 DEF Finish
  <2>3. cap["out"].hi \in {0, stream["out"].written}
    BY <1>1, <2>2 DEF Answers, Parses
  <2>4. cap["out"].hi = stream["out"].read
    <3>1. cap["out"] = Diagnosis(stream["out"].read)
      BY <1>0 DEF CapturesStand
    <3>2. \A n : Diagnosis(n).hi = n
      BY DEF Diagnosis
    <3> QED BY <3>1, <3>2
  <2>5. Joined("out")
    BY <1>0, <2>1 DEF ReadersStand
  <2> QED BY <2>1, <2>3, <2>4, <2>5 DEF io, Joined
<1>3. CASE Caller /\ ~Judge
  <2>1. pc # "done"
    BY <1>3 DEF Caller, WriteList, Validate, Gate, SpawnFails, JoinOut, JoinErr, Spawn, StartReaders, Poll,
       Kill, Reap, Sleep
  <2>2. Finish("io") \/ Finish("failed") \/ Finish("canceled")
    BY <1>3 DEF Caller, WriteList, Validate, Gate, SpawnFails, JoinOut, JoinErr, Spawn, StartReaders, Poll,
       Kill, Reap, Sleep
  <2> QED BY <2>2 DEF Finish
<1>4. CASE ~Caller
  <2>1. pc' = pc /\ result' = result
    BY <1>4 DEF Next, Write, ForkHelper, HelperEnds, Read, Eof, ReadFails, Exit, Interrupt, Pause, Done, vars
  <2>2. /\ child # "running" /\ reader["out"] # "reading" /\ Joined("out")
        /\ stream["out"].read \in {0, stream["out"].written}
    BY <1>0, <1>1, <2>1 DEF ChildStands, Alive, ListingStands, Joined
  <2>3. /\ reader'["out"] = reader["out"]
        /\ stream'["out"].read = stream["out"].read /\ stream'["out"].written = stream["out"].written
    <3>1. CASE \E s \in Streams : Write(s) \/ ForkHelper(s) \/ HelperEnds(s) \/ Read(s) \/ Eof(s) \/ ReadFails(s)
      BY <1>0, <2>2, <3>1 DEF Types, Write, ForkHelper, HelperEnds, Read, Eof, ReadFails
    <3>2. CASE (\E c \in Call!Classes : Exit(c)) \/ Interrupt \/ Pause \/ Done
      BY <2>2, <3>2 DEF Exit, Interrupt, Pause, Done, vars, io
    <3> QED BY <1>4, <3>1, <3>2 DEF Next
  <2> QED BY <2>2, <2>3 DEF Joined
<1> QED BY <1>2, <1>3, <1>4

LEMMA InvariantIsKept == RunInv /\ [Next]_vars => RunInv'
<1>1. ASSUME RunInv, Next PROVE RunInv'
  BY <1>1, TypesAreKept, ChildIsKept, ReadersAreKept, CapturesAreKept, CountIsKept, ListingIsKept DEF RunInv
<1>2. ASSUME RunInv, UNCHANGED vars PROVE RunInv'
  BY <1>2 DEF RunInv, vars, Types, ChildStands, ReadersStand, CapturesStand, CountStands, ListingStands, Joined, Diagnosis, Listed
<1> QED BY <1>1, <1>2

LEMMA InvariantHolds == Spec => []RunInv
  BY InitEstablishes, InvariantIsKept, PTL DEF Spec

\* When a run is judged by its exit the captures hold the end of all that was written,
\* however far a thread lags behind, or of what was read until a read failed; and a call
\* never answers with the sizes of half a listing.
THEOREM OutputIsWhole == Spec => []OutputIsComplete
<1>1. RunInv => OutputIsComplete
  <2> SUFFICES ASSUME RunInv PROVE OutputIsComplete
    OBVIOUS
  <2>1. \A s \in Streams : stream[s].read \in Nat /\ stream[s].written \in Nat
    BY DEF RunInv, Types
  <2>2. ASSUME pc = "judge", NEW s \in Streams
        PROVE  cap[s] = Diagnosis(stream[s].read) /\ (reader[s] = "failed" \/ Unread(s) = 0)
    BY <2>1, <2>2 DEF RunInv, ReadersStand, CapturesStand, Joined, Unread
  <2>3. ASSUME pc = "done", op = "sizes", result = "ok"
        PROVE  Unread("out") = 0 \/ (reader["out"] = "failed" /\ stream["out"].read = 0)
    <3>1. "out" \in Streams /\ Joined("out") /\ stream["out"].read \in {0, stream["out"].written}
      BY <2>3 DEF RunInv, ListingStands, Streams
    <3>2. reader["out"] = "ended" => stream["out"].read = stream["out"].written
      BY <3>1 DEF RunInv, ReadersStand
    <3> QED BY <2>1, <3>1, <3>2 DEF Joined, Unread
  <2> QED BY <2>2, <2>3 DEF OutputIsComplete
<1> QED BY <1>1, InvariantHolds, PTL

\* rclone runs only under a caller that waits for it, with its list in place, and a call
\* that returns leaves neither a process nor, unless waitpid failed, a thread.
THEOREM NothingIsLeft == Spec => []NothingOutlivesCall
<1>1. RunInv => NothingOutlivesCall
  BY DEF RunInv, ChildStands, ReadersStand, NothingOutlivesCall, Alive
<1> QED BY <1>1, InvariantHolds, PTL

-----------------------------------------------------------------------------
(* The refinement of RcloneCall *)

Phase == CASE pc \in {"list", "validate", "gate", "spawn", "sleep"} -> "ready"
           [] pc = "done" -> "ended"
           [] pc \in {"joinOut", "joinErr", "judge"} /\ status # "canceled" -> "answered"
           [] OTHER -> "running"
Last == IF status = "canceled" THEN "none" ELSE status

LEMMA InitImplements == Init => Call!Init
  BY DEF Init, Call!Init, Listed

\* Every step of the call is a step of RcloneCall, or none.
LEMMA StepImplements ==
  ASSUME RunInv, [Next]_vars
  PROVE  [Call!Next]_(Call!vars)
<1> DEFINE Same == UNCHANGED <<op, Phase, runs, Last, cancel, result>>
<1>0. Types /\ ChildStands /\ CountStands /\ RetryMax \in Nat \ {0} /\ attempt \in Nat /\ runs \in Nat
      /\ attempt <= RetryMax
  BY RunAssumption DEF RunInv, Types
<1>s. Same => UNCHANGED Call!vars
  BY DEF Call!vars, Phase, Last
<1>1. ASSUME UNCHANGED <<op, pc, runs, status, cancel, result>> PROVE Same
  BY <1>1 DEF Phase, Last
<1>2. CASE \/ Pause \/ Done \/ (UNCHANGED vars) \/ (\E c \in Call!Classes : Exit(c))
           \/ \E s \in Streams : Write(s) \/ ForkHelper(s) \/ HelperEnds(s) \/ Read(s) \/ Eof(s) \/ ReadFails(s)
  <2>1. UNCHANGED <<op, pc, runs, status, cancel, result>>
    BY <1>2 DEF Pause, Done, vars, Exit, Write, ForkHelper, HelperEnds, Read, Eof, ReadFails, setup
  <2> QED BY <1>1, <1>s, <2>1
<1>3. CASE Interrupt
  <2>1. Call!Interrupt
    BY <1>3 DEF Interrupt, Call!Interrupt, setup
  <2> QED BY <2>1 DEF Call!Next
<1>4. CASE WriteList
  <2>1. CASE pc' = "validate"
    BY <1>4, <1>s, <2>1 DEF WriteList, Finish, Phase, Last, setup
  <2>2. CASE pc' # "validate"
    <3>1. Call!Abort
      BY <1>4, <2>2 DEF WriteList, Finish, Call!Abort, setup
    <3> QED BY <3>1 DEF Call!Next
  <2> QED BY <2>1, <2>2
<1>5. CASE Validate
  <2>1. CASE pc' = "gate"
    BY <1>5, <1>s, <2>1 DEF Validate, Finish, Phase, Last, setup
  <2>2. CASE pc' # "gate"
    <3>1. Call!Refuse
      BY <1>0, <1>5, <2>2 DEF Validate, Finish, Call!Refuse, setup, CountStands, Before
    <3> QED BY <3>1 DEF Call!Next
  <2> QED BY <2>1, <2>2
<1>6. CASE Gate
  <2>1. CASE ~cancel
    BY <1>6, <1>s, <2>1 DEF Gate, Finish, Phase, Last, setup
  <2>2. CASE cancel
    <3>1. Call!Abort
      BY <1>6, <2>2 DEF Gate, Finish, Call!Abort, setup
    <3> QED BY <3>1 DEF Call!Next
  <2> QED BY <2>1, <2>2
<1>7. CASE Spawn
  <2>1. runs < RetryMax
    BY <1>0, <1>7 DEF Spawn, CountStands, Between
  <2>2. Call!Start
    BY <1>7, <2>1 DEF Spawn, Call!Start, setup
  <2> QED BY <2>2 DEF Call!Next
<1>8. CASE SpawnFails
  <2>1. Call!Abort
    BY <1>8 DEF SpawnFails, Finish, Call!Abort, setup
  <2> QED BY <2>1 DEF Call!Next
<1>9. CASE StartReaders \/ JoinOut \/ JoinErr
  <2>1. Same
    BY <1>9 DEF StartReaders, JoinOut, JoinErr, Phase, Last, setup
  <2> QED BY <1>s, <2>1
<1>10. CASE Kill \/ Reap
  <2>1. Same
    BY <1>0, <1>10 DEF Kill, Reap, CountStands, Phase, Last, setup
  <2> QED BY <1>s, <2>1
<1>11. CASE Poll
  <2>1. CASE pc' = "kill"
    <3>1. Same
      BY <1>11, <2>1 DEF Poll, Finish, Phase, Last, setup
    <3> QED BY <1>s, <3>1
  <2>2. CASE pc' = "joinOut"
    <3>1. code \in Call!Classes /\ code # "canceled" /\ status' = code /\ pc = "poll"
      BY <1>0, <1>11, <2>2 DEF Poll, Finish, ChildStands, Call!Classes
    <3>2. op' = op /\ cancel' = cancel /\ result' = result /\ runs' = runs
      BY <1>11, <2>2 DEF Poll, Finish, setup
    <3>3. Phase = "running" /\ Phase' = "answered" /\ Last' = code
      BY <2>2, <3>1 DEF Phase, Last
    <3>4. Call!Answer
      BY <3>1, <3>2, <3>3 DEF Call!Answer, Phase, Last
    <3> QED BY <3>4 DEF Call!Next
  <2>3. CASE pc' \notin {"kill", "joinOut"}
    <3>1. Call!Abort
      BY <1>11, <2>3 DEF Poll, Finish, Call!Abort, setup
    <3> QED BY <3>1 DEF Call!Next
  <2> QED BY <2>1, <2>2, <2>3
<1>12. CASE Judge
  <2>1. CASE status = "canceled"
    <3>1. cancel /\ Finish("canceled")
      BY <1>0, <1>12, <2>1 DEF Judge, CountStands, Again
    <3>2. Call!Abort
      BY <1>12, <2>1, <3>1 DEF Judge, Finish, Call!Abort, setup
    <3> QED BY <3>2 DEF Call!Next
  <2>2. CASE Again
    <3>1. runs < RetryMax /\ status = "temporary" /\ pc' = "sleep" /\ result' = result
      BY <1>0, <1>12, <2>2 DEF Judge, CountStands, Again
    <3>2. Call!Retry
      BY <1>12, <3>1 DEF Judge, Call!Retry, setup
    <3> QED BY <3>2 DEF Call!Next
  <2>3. CASE status # "canceled" /\ ~Again
    <3>1. pc = "judge" /\ \E r \in Answers : Finish(r)
      BY <1>12, <2>3 DEF Judge
    <3>2. status = "temporary" => runs = RetryMax
      BY <1>0, <2>3, <3>1 DEF CountStands, Again
    <3>3. result' \in Call!Results(op, status) /\ pc' = "done"
      BY <3>1 DEF Finish, Answers
    <3>4. Call!Return
      BY <1>12, <2>3, <3>2, <3>3 DEF Judge, Call!Return, setup
    <3> QED BY <3>4 DEF Call!Next
  <2> QED BY <2>1, <2>2, <2>3
<1>13. CASE Sleep
  <2>1. CASE pc' = "done"
    <3>1. Call!Abort
      BY <1>13, <2>1 DEF Sleep, Finish, Call!Abort, setup
    <3> QED BY <3>1 DEF Call!Next
  <2>2. CASE pc' # "done"
    <3>1. Same
      BY <1>13, <2>2 DEF Sleep, Finish, Phase, Last, setup
    <3> QED BY <1>s, <3>1
  <2> QED BY <2>1, <2>2
<1> QED BY <1>2, <1>3, <1>4, <1>5, <1>6, <1>7, <1>8, <1>9, <1>10, <1>11, <1>12, <1>13 DEF Next, Caller

\* However often rclone is run, killed or left with its output held open, the call is a
\* RcloneCall: another run only after a temporary failure, a result that follows from the
\* last exit, "canceled" only after an interrupt.
THEOREM RunImplementsCall == Spec => ImplementsCall
<1>1. RunInv /\ [Next]_vars => [Call!Next]_(Call!vars)
  BY StepImplements
<1> QED BY <1>1, InitImplements, InvariantHolds, PTL DEF Spec, ImplementsCall, Call!Spec
=============================================================================
