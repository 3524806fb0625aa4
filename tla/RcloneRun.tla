----------------------------- MODULE RcloneRun -----------------------------
(***************************************************************************)
(* One call of RcloneRemote::run_with_output (ports/remote.rs), with the   *)
(* caller, the rclone process it spawns, the two threads that drain its    *)
(* output, and what git-sfs cannot control: a helper process that keeps    *)
(* rclone's output open, and a terminal that stops taking output.          *)
(*                                                                         *)
(* Output is counted in chunks.  A stream holds at most PipeCap unread     *)
(* chunks; rclone blocks on a full one.  A capture is the interval lo..hi  *)
(* of the chunks it still holds.                                           *)
(***************************************************************************)
EXTENDS Naturals, FiniteSets

CONSTANTS RetryMax,   \* runs of rclone one call may spend (retry_max)
          Backoff,    \* sleeps of POLL_INTERVAL before the first retry (initial_backoff)
          PipeCap,    \* chunks a pipe or a terminal holds
          Limit,      \* chunks a bounded capture keeps (TRANSFER_DIAGNOSTIC_LIMIT)
          MaxWrite    \* bound: chunks one run of rclone writes to one stream

ASSUME RunAssumption == /\ RetryMax \in Nat \ {0}
                        /\ Backoff \in Nat
                        /\ PipeCap \in Nat \ {0}
                        /\ Limit \in Nat \ {0}
                        /\ MaxWrite \in Nat

VARIABLES op,        \* what the caller asks for
          progress,  \* the run shows rclone's own progress display
          configOk,  \* the pinned rclone configuration file exists, or none is pinned
          autoreap,  \* SIGCHLD is ignored: the kernel reaps, and waitpid finds no child
          pc,        \* where the caller is
          cancel,    \* the interrupt flag
          attempt,   \* number of the current run of rclone
          runs,      \* ghost: processes started so far
          left,      \* sleeps left before the next run
          status,    \* how the caller saw the run end
          result,    \* what the call returned
          list,      \* the --files-from list exists
          child,     \* the rclone process of this run
          code,      \* class of the exit it ended with
          stream,    \* chunks written, chunks read, and who holds the write end
          reader,    \* the thread that drains a stream
          cap,       \* what that thread has captured
          viewer     \* the terminal that a mirrored stream is copied to

vars == <<op, progress, configOk, autoreap, pc, cancel, attempt, runs, left, status, result, list,
          child, code, stream, reader, cap, viewer>>
setup == <<op, progress, configOk, autoreap>>
io == <<stream, reader, cap>>

Call == INSTANCE RcloneCall WITH
            phase <- CASE pc \in {"list", "validate", "gate", "spawn", "sleep"} -> "ready"
                       [] pc = "done" -> "ended"
                       [] pc \in {"joinOut", "joinErr", "judge"} /\ status # "canceled" -> "answered"
                       [] OTHER -> "running",
            tries <- runs,
            last <- IF status = "canceled" THEN "none" ELSE status

Streams == {"out", "err"}
\* Transfers and size queries name their objects in a list file.
Listed == op \in {"sizes", "transfer"}

\* What a reader has not taken yet.
Unread(s) == stream[s].written - stream[s].read

\* PipeCapture::extend: append n chunks, then drop from the front what exceeds the limit.
Empty == [lo |-> 1, hi |-> 0, truncated |-> FALSE]

Extend(c, n) ==
    LET held == c.hi + n + 1 - c.lo
        excess == IF progress /\ held > Limit THEN held - Limit ELSE 0
    IN [lo |-> c.lo + excess, hi |-> c.hi + n, truncated |-> c.truncated \/ excess > 0]

Init == /\ op \in Call!Ops
        /\ progress \in BOOLEAN /\ (progress => op = "transfer")
        /\ configOk \in BOOLEAN
        /\ autoreap \in BOOLEAN
        /\ pc = IF Listed THEN "list" ELSE "validate"
        /\ cancel = FALSE
        /\ attempt = 1 /\ runs = 0
        /\ left = 0
        /\ status = "none" /\ result = "none"
        /\ list = FALSE
        /\ child = "none" /\ code = "none"
        /\ stream = [s \in Streams |-> [written |-> 0, read |-> 0, holders |-> {}]]
        /\ reader = [s \in Streams |-> "none"]
        /\ cap = [s \in Streams |-> Empty]
        /\ viewer = "taking"

-----------------------------------------------------------------------------
(* The caller *)

\* The call returns, and dropping the NamedTempFile removes the list.
Finish(r) == /\ pc' = "done"
             /\ result' = r
             /\ list' = FALSE

WriteList ==
    /\ pc = "list"
    /\ \/ pc' = "validate" /\ list' = TRUE /\ UNCHANGED result
       \/ Finish("io")
    /\ UNCHANGED <<setup, cancel, runs, attempt, left, status, child, code, io, viewer>>

Validate ==
    /\ pc = "validate"
    /\ \/ configOk /\ pc' = "gate" /\ UNCHANGED <<result, list>>
       \/ ~configOk /\ Finish("failed")
    /\ UNCHANGED <<setup, cancel, runs, attempt, left, status, child, code, io, viewer>>

\* The head of the retry loop.
Gate ==
    /\ pc = "gate"
    /\ \/ cancel /\ Finish("canceled")
       \/ ~cancel /\ pc' = "spawn" /\ UNCHANGED <<result, list>>
    /\ UNCHANGED <<setup, cancel, runs, attempt, left, status, child, code, io, viewer>>

\* With a progress display the caller holds the terminal's slave side too, in `command`.
Spawn ==
    /\ pc = "spawn"
    /\ pc' = "readers"
    /\ runs' = runs + 1
    /\ child' = "running" /\ code' = "none" /\ status' = "none"
    /\ stream' = [s \in Streams |->
                    [written |-> 0, read |-> 0,
                     holders |-> {"child"} \cup (IF progress /\ s = "out" THEN {"caller"} ELSE {})]]
    /\ reader' = [s \in Streams |-> "none"]
    /\ cap' = [s \in Streams |-> Empty]
    /\ UNCHANGED <<setup, cancel, attempt, left, result, list, viewer>>

\* openpty or spawn fails.
SpawnFails ==
    /\ pc = "spawn"
    /\ Finish("io")
    /\ UNCHANGED <<setup, cancel, runs, attempt, left, status, child, code, io, viewer>>

\* Bug: `command` lives on, and with it the terminal's slave side.
StartReadersKeepsSlave ==
    /\ pc = "readers"
    /\ pc' = "poll"
    /\ reader' = [s \in Streams |-> "reading"]
    /\ UNCHANGED <<setup, cancel, runs, attempt, left, status, result, list, child, code, stream, cap, viewer>>

\* drop(command), then one thread per stream.
StartReaders ==
    /\ pc = "readers"
    /\ pc' = "poll"
    /\ stream' = [s \in Streams |-> [stream[s] EXCEPT !.holders = @ \ {"caller"}]]
    /\ reader' = [s \in Streams |-> "reading"]
    /\ UNCHANGED <<setup, cancel, runs, attempt, left, status, result, list, child, code, cap, viewer>>

\* Bug: the flag is looked at only between runs.
PollIgnoresCancel ==
    /\ pc = "poll"
    /\ \/ /\ child = "zombie"
          /\ child' = "reaped" /\ status' = code
          /\ pc' = "joinOut"
          /\ UNCHANGED <<result, list>>
       \/ /\ child = "lost"
          /\ Finish("io")
          /\ UNCHANGED <<status, child>>
    /\ UNCHANGED <<setup, cancel, runs, attempt, left, code, io, viewer>>

\* Bug: the captures are taken without waiting for the threads.
PollSkipsJoin ==
    /\ pc = "poll"
    /\ \/ /\ cancel
          /\ pc' = "kill"
          /\ UNCHANGED <<status, result, list, child>>
       \/ /\ ~cancel /\ child = "zombie"
          /\ child' = "reaped" /\ status' = code
          /\ pc' = "judge"
          /\ UNCHANGED <<result, list>>
       \/ /\ ~cancel /\ child = "lost"
          /\ Finish("io")
          /\ UNCHANGED <<status, child>>
    /\ UNCHANGED <<setup, cancel, runs, attempt, left, code, io, viewer>>

\* One turn of the poll loop: the flag first, then try_wait.  A child that still runs
\* makes the loop sleep, which changes nothing.
Poll ==
    /\ pc = "poll"
    /\ \/ /\ cancel
          /\ pc' = "kill"
          /\ UNCHANGED <<status, result, list, child>>
       \/ /\ ~cancel /\ child = "zombie"
          /\ child' = "reaped" /\ status' = code
          /\ pc' = "joinOut"
          /\ UNCHANGED <<result, list>>
       \/ /\ ~cancel /\ child = "lost"        \* ECHILD
          /\ Finish("io")
          /\ UNCHANGED <<status, child>>
    /\ UNCHANGED <<setup, cancel, runs, attempt, left, code, io, viewer>>

Gone(c) == IF autoreap THEN "lost" ELSE c
Closed(who) == [s \in Streams |-> [stream[s] EXCEPT !.holders = @ \ {who}]]

\* kill_and_drain begins: SIGKILL, which a process that has ended does not feel.
Kill ==
    /\ pc = "kill"
    /\ pc' = "reap"
    /\ status' = "canceled"
    /\ \/ /\ child = "running"
          /\ child' = Gone("zombie") /\ code' = "permanent"
          /\ stream' = Closed("child")
       \/ child # "running" /\ UNCHANGED <<child, code, stream>>
    /\ UNCHANGED <<setup, cancel, runs, attempt, left, result, list, reader, cap, viewer>>

\* Bug: an interrupted call returns without waiting for its child or its threads.
ReapAndReturn ==
    /\ pc = "reap"
    /\ Finish("canceled")
    /\ UNCHANGED <<setup, cancel, runs, attempt, left, status, child, code, io, viewer>>

\* child.wait(), whose failure is ignored.
Reap ==
    /\ pc = "reap"
    /\ pc' = "joinOut"
    /\ child' = IF child = "zombie" THEN "reaped" ELSE child
    /\ UNCHANGED <<setup, cancel, runs, attempt, left, status, result, list, code, io, viewer>>

Joined(s) == reader[s] \in {"ended", "failed"}

JoinOut ==
    /\ pc = "joinOut" /\ Joined("out")
    /\ pc' = "joinErr"
    /\ UNCHANGED <<setup, cancel, runs, attempt, left, status, result, list, child, code, io, viewer>>

JoinErr ==
    /\ pc = "joinErr" /\ Joined("err")
    /\ pc' = "judge"
    /\ UNCHANGED <<setup, cancel, runs, attempt, left, status, result, list, child, code, io, viewer>>

\* parse_lsjson_entries: a listing of which a part is missing is no JSON, but one of which
\* nothing was read is taken for an empty listing.
Parses == op = "sizes" => cap["out"].hi \in {0, stream["out"].written}
Answers == Call!Results(op, status) \ (IF Parses THEN {} ELSE {"ok"})

\* Bug: every failure is retried.
AgainAlways == status \in {"temporary", "permanent"} /\ attempt < RetryMax

\* Another run, after a temporary failure.
Again == status = "temporary" /\ attempt < RetryMax

\* Success, another run or the failure; then what the caller of `run` makes of it
\* (check_backend, parse_lsjson_entries, parse_rclone_version).
Judge ==
    /\ pc = "judge"
    /\ \/ status = "canceled" /\ Finish("canceled") /\ UNCHANGED left
       \/ /\ Again
          /\ pc' = "sleep" /\ left' = Backoff * 2 ^ (attempt - 1)
          /\ UNCHANGED <<result, list>>
       \/ /\ status # "canceled" /\ ~Again
          /\ \E r \in Answers : Finish(r)
          /\ UNCHANGED left
    /\ UNCHANGED <<setup, cancel, runs, attempt, status, child, code, io, viewer>>

\* sleep_cancelable, then the next turn of the retry loop.
Sleep ==
    /\ pc = "sleep"
    /\ \/ /\ left > 0 /\ cancel
          /\ Finish("canceled")
          /\ UNCHANGED <<left, attempt>>
       \/ /\ left > 0 /\ ~cancel
          /\ left' = left - 1
          /\ UNCHANGED <<pc, attempt, result, list>>
       \/ /\ left = 0
          /\ attempt' = attempt + 1 /\ pc' = "gate"
          /\ UNCHANGED <<left, result, list>>
    /\ UNCHANGED <<setup, cancel, runs, status, child, code, io, viewer>>

Caller == \/ WriteList \/ Validate \/ Gate \/ Spawn \/ SpawnFails \/ StartReaders \/ Poll
          \/ Kill \/ Reap \/ JoinOut \/ JoinErr \/ Judge \/ Sleep
-----------------------------------------------------------------------------
(* rclone, which the model knows only through its output and its exit, and its helper *)

\* A pipe that nobody reads any more takes nothing: rclone is told so, and may exit.
Write(s) ==
    /\ child = "running" /\ Unread(s) < PipeCap /\ stream[s].written < MaxWrite
    /\ reader[s] # "failed"
    /\ stream' = [stream EXCEPT ![s].written = @ + 1]
    /\ UNCHANGED <<setup, pc, cancel, attempt, runs, left, status, result, list, child, code,
                   reader, cap, viewer>>

Exit(c) ==
    /\ child = "running"
    /\ child' = Gone("zombie") /\ code' = c
    /\ stream' = Closed("child")
    /\ UNCHANGED <<setup, pc, cancel, attempt, runs, left, status, result, list, reader, cap, viewer>>

\* rclone may be a script that leaves a process behind, with the streams it inherited.
ForkHelper(s) ==
    /\ child = "running" /\ "helper" \notin stream[s].holders
    /\ stream' = [stream EXCEPT ![s].holders = @ \cup {"helper"}]
    /\ UNCHANGED <<setup, pc, cancel, attempt, runs, left, status, result, list, child, code,
                   reader, cap, viewer>>

HelperEnds(s) ==
    /\ "helper" \in stream[s].holders
    /\ stream' = [stream EXCEPT ![s].holders = @ \ {"helper"}]
    /\ UNCHANGED <<setup, pc, cancel, attempt, runs, left, status, result, list, child, code,
                   reader, cap, viewer>>

-----------------------------------------------------------------------------
(* The reader threads: read_pipe *)

\* Take what is there, copy it to the terminal, keep it.
Read(s) ==
    /\ reader[s] = "reading" /\ Unread(s) > 0
    /\ progress => viewer = "taking"
    /\ \E n \in 1..Unread(s) :
          /\ stream' = [stream EXCEPT ![s].read = @ + n]
          /\ cap' = [cap EXCEPT ![s] = Extend(@, n)]
    /\ UNCHANGED <<setup, pc, cancel, attempt, runs, left, status, result, list, child, code,
                   reader, viewer>>

\* The end of a pipe, or the error a terminal gives once its slave side is closed.
Eof(s) ==
    /\ reader[s] = "reading" /\ Unread(s) = 0 /\ stream[s].holders = {}
    /\ reader' = [reader EXCEPT ![s] = "ended"]
    /\ UNCHANGED <<setup, pc, cancel, attempt, runs, left, status, result, list, child, code,
                   stream, cap, viewer>>

\* Any other read error ends the thread as the end of the stream does: it hands over what
\* it has, and nobody is told.
ReadFails(s) ==
    /\ reader[s] = "reading"
    /\ reader' = [reader EXCEPT ![s] = "failed"]
    /\ UNCHANGED <<setup, pc, cancel, attempt, runs, left, status, result, list, child, code,
                   stream, cap, viewer>>

-----------------------------------------------------------------------------
(* The user *)

\* Ctrl-C reaches rclone as well, whose own exit is one of the outcomes of Exit.
Interrupt ==
    /\ ~cancel
    /\ cancel' = TRUE
    /\ UNCHANGED <<setup, pc, attempt, runs, left, status, result, list, child, code, io, viewer>>

\* A paused terminal or a full pipe behind git-sfs, and the user who lets it run again.
Pause ==
    /\ progress
    /\ viewer' = IF viewer = "taking" THEN "paused" ELSE "taking"
    /\ UNCHANGED <<setup, pc, cancel, attempt, runs, left, status, result, list, child, code, io>>

Done == pc = "done" /\ UNCHANGED vars

Next == \/ Caller
        \/ \E s \in Streams : Write(s) \/ ForkHelper(s) \/ HelperEnds(s) \/ Read(s) \/ Eof(s) \/ ReadFails(s)
        \/ \E c \in Call!Classes : Exit(c)
        \/ Interrupt \/ Pause \/ Done

\* The caller and its threads are scheduled.  rclone need not write, exit or be heard of
\* again, and nobody has to press Ctrl-C or let the terminal run.
Fairness == /\ WF_vars(Caller)
            /\ \A s \in Streams : WF_vars(Read(s)) /\ WF_vars(Eof(s))

Spec == Init /\ [][Next]_vars /\ Fairness

-----------------------------------------------------------------------------
(* Properties *)

StreamType == [written : 0..MaxWrite, read : 0..MaxWrite, holders : SUBSET {"caller", "child", "helper"}]

\* The variables have their types, a stream never holds more than its capacity, a bounded
\* capture never more than its limit, and no run follows the last one allowed.
TypeOK ==
    /\ op \in Call!Ops /\ progress \in BOOLEAN /\ configOk \in BOOLEAN /\ autoreap \in BOOLEAN
    /\ pc \in {"list", "validate", "gate", "spawn", "readers", "poll", "kill", "reap",
               "joinOut", "joinErr", "judge", "sleep", "done"}
    /\ cancel \in BOOLEAN /\ list \in BOOLEAN
    /\ attempt \in 1..RetryMax /\ runs \in 0..RetryMax /\ left \in Nat
    /\ status \in Call!Classes \cup {"none", "canceled"}
    /\ result \in {"none", "ok", "failed", "io", "canceled"}
    /\ child \in {"none", "running", "zombie", "lost", "reaped"}
    /\ code \in Call!Classes \cup {"none"}
    /\ stream \in [Streams -> StreamType]
    /\ \A s \in Streams : stream[s].read <= stream[s].written /\ Unread(s) <= PipeCap
    /\ reader \in [Streams -> {"none", "reading", "ended", "failed"}]
    /\ cap \in [Streams -> [lo : Nat, hi : Nat, truncated : BOOLEAN]]
    /\ \A s \in Streams : progress => cap[s].hi + 1 - cap[s].lo <= Limit
    /\ viewer \in {"taking", "paused"}

\* What ought to be left of n chunks: all of them, or the last Limit and a note that some
\* are missing.
Diagnosis(n) ==
    IF progress /\ n > Limit
    THEN [lo |-> n - Limit + 1, hi |-> n, truncated |-> TRUE]
    ELSE [lo |-> 1, hi |-> n, truncated |-> FALSE]

\* When a run is judged by its own exit, each capture holds the end of all that rclone
\* wrote to that stream, however far its reader lags behind; unless a read failed, which
\* leaves what was read until then, with no gap, and the run is judged by that.  Even so a
\* listing is never half believed: a call that answers with sizes has read all of what
\* rclone listed, or, after a failed read, nothing at all, which it takes for an empty
\* listing.
OutputIsComplete ==
    /\ (pc = "judge" /\ status # "canceled") =>
          \A s \in Streams : /\ cap[s] = Diagnosis(stream[s].read)
                             /\ reader[s] = "failed" \/ Unread(s) = 0
    /\ (pc = "done" /\ op = "sizes" /\ result = "ok") =>
          \/ Unread("out") = 0
          \/ reader["out"] = "failed" /\ stream["out"].read = 0

\* rclone runs only under a caller that will end it or wait for it, and its list of
\* objects exists as long as it runs.  A call that returns leaves no process behind, and no
\* thread either unless waitpid failed.
NothingOutlivesCall ==
    /\ child \in {"running", "zombie"} =>
           pc \in {"readers", "poll", "kill", "reap"} /\ (Listed => list)
    /\ (pc = "done" /\ result # "io") => \A s \in Streams : reader[s] # "reading"

\* Every call is a RcloneCall: no run after an exit that is not temporary, no result that
\* the last exit does not give, "canceled" only after an interrupt.
ImplementsCall == Call!Spec

\* Output can be stuck only outside: in a helper that keeps a stream open, or in a
\* terminal that takes no more.
Held == viewer = "paused" \/ \E s \in Streams : "helper" \in stream[s].holders

\* An interrupt ends the call, even if rclone would run for ever.
InterruptEndsCall == <>[]~Held => (cancel ~> pc = "done")

\* If every run of rclone ends, the call ends, whatever the runs answer.
CallEnds == (<>[]~Held /\ (child = "running" ~> child # "running")) => <>(pc = "done")
=============================================================================
