---------------------------- MODULE RcloneCall ----------------------------
(***************************************************************************)
(* What one call of RcloneRemote::run promises, with the processes, pipes  *)
(* and threads left out: at most RetryMax runs of rclone, another one only *)
(* after an exit that rclone itself calls temporary, and a result that     *)
(* follows from the last exit alone unless the call was canceled or the    *)
(* operating system failed.                                                *)
(***************************************************************************)
EXTENDS Naturals

CONSTANTS RetryMax   \* runs of rclone one call may spend

VARIABLES op,        \* what the caller asks rclone for
          phase,     \* "ready" for a run, "running" one, "answered", or "ended"
          tries,     \* runs started
          last,      \* the exit of the last run
          cancel,    \* the interrupt flag
          result     \* what the caller gets

vars == <<op, phase, tries, last, cancel, result>>

Ops == {"backend", "path", "sizes", "version", "transfer"}

\* ExitClass, with the success that never reaches classify_exit.
Classes == {"success", "notfound", "temporary", "permanent"}

\* The results a call may give for an exit. check_backend takes "not found" for a backend
\* that answers; the output of `version` and `lsjson` may turn out unreadable.
Results(o, c) ==
    CASE c = "success" -> {"ok"} \cup (IF o \in {"sizes", "version"} THEN {"failed"} ELSE {})
      [] c = "notfound" /\ o = "backend" -> {"ok"}
      [] OTHER -> {"failed"}

Init == /\ op \in Ops
        /\ phase = "ready" /\ tries = 0
        /\ last = "none" /\ result = "none"
        /\ cancel = FALSE

Start == /\ phase = "ready" /\ tries < RetryMax
         /\ phase' = "running" /\ tries' = tries + 1 /\ last' = "none"
         /\ UNCHANGED <<op, cancel, result>>

Answer == /\ phase = "running"
          /\ phase' = "answered" /\ last' \in Classes
          /\ UNCHANGED <<op, tries, cancel, result>>

\* Only a temporary failure is worth another run.
Retry == /\ phase = "answered" /\ last = "temporary" /\ tries < RetryMax
         /\ phase' = "ready"
         /\ UNCHANGED <<op, tries, last, cancel, result>>

Return == /\ phase = "answered" /\ (last = "temporary" => tries = RetryMax)
          /\ phase' = "ended" /\ result' \in Results(op, last)
          /\ UNCHANGED <<op, tries, last, cancel>>

\* The configuration file is missing, which is seen before the first run.
Refuse == /\ phase = "ready" /\ tries = 0
          /\ phase' = "ended" /\ result' = "failed"
          /\ UNCHANGED <<op, tries, last, cancel>>

Abort == /\ phase \in {"ready", "running"}
         /\ phase' = "ended"
         /\ result' = "io" \/ (cancel /\ result' = "canceled")
         /\ UNCHANGED <<op, tries, last, cancel>>

Interrupt == cancel' = TRUE /\ UNCHANGED <<op, phase, tries, last, result>>

Next == Start \/ Answer \/ Retry \/ Return \/ Refuse \/ Abort \/ Interrupt

Spec == Init /\ [][Next]_vars
=============================================================================
