--------------------------- MODULE CommandRunner ----------------------------
(***************************************************************************)
(* One external program under supervision: a child process, the pipes it   *)
(* writes to, the threads that drain them, and the loop that polls for the *)
(* exit until a timeout.  The crates have four such loops, told apart by   *)
(* command.kind:                                                           *)
(*   query       tsa.rs run_command, which reads the pipes after the exit; *)
(*   submission  tsa.rs run_submission, which caps the response body;      *)
(*   verify      rfc3161 run_command, in a process group of its own;       *)
(*   ots         ots wait_for_exit, whose output goes nowhere.             *)
(*                                                                         *)
(* The child may write, exit or hang as it likes.  It succeeds only if     *)
(* what it was asked holds (command.accepts) and its output is complete.   *)
(***************************************************************************)
EXTENDS Naturals, FiniteSets

CONSTANTS
    Timeout,           \* polls before a command is given up
    PipeCapacity,      \* what a pipe holds before its writer blocks
    MaxResponse        \* MAX_RESPONSE_BYTES

VARIABLES
    command,           \* [kind, accepts, size], or {} between commands
    child,             \* none | running | success | failure
    reaped,            \* the exit status was collected
    descendant,        \* a process the child left behind holds its pipes
    pipe,              \* bytes in the stdout pipe
    written,           \* bytes the child has written
    readers,           \* the reader threads still running
    body,              \* bytes the stdout reader has
    elapsed,
    phase,             \* where the loop is: idle | poll | drain | join | done
    report             \* what the loop returns: success | failure | error

runner == <<command, child, reaped, descendant, pipe, written, readers, body, elapsed,
            phase, report>>
-----------------------------------------------------------------------------
RunnerInit ==
    /\ command = {} /\ child = "none" /\ reaped = TRUE /\ descendant = FALSE
    /\ pipe = 0 /\ written = 0 /\ readers = {} /\ body = 0 /\ elapsed = 0
    /\ phase = "idle" /\ report = "error"

Kind == (CHOOSE c \in command : TRUE).kind

Piped == Kind # "ots"

\* spawn, and the reader threads of the kinds that have them.
Spawn(kind, accepts, size) ==
    /\ phase = "idle"
    /\ command' = {[kind |-> kind, accepts |-> accepts, size |-> size]}
    /\ \/ /\ child' = "running" /\ reaped' = FALSE /\ phase' = "poll"
          /\ readers' = IF kind \in {"submission", "verify"} THEN {"stdout", "stderr"} ELSE {}
          /\ UNCHANGED report
       \/ /\ child' = "none" /\ reaped' = TRUE /\ phase' = "join"
          /\ readers' = {} /\ report' = "error"
    /\ descendant' = FALSE
    /\ pipe' = 0 /\ written' = 0 /\ body' = 0 /\ elapsed' = 0

\* The caller takes the result.
Collect ==
    /\ phase = "done"
    /\ command' = {} /\ phase' = "idle"
    /\ UNCHANGED <<child, reaped, descendant, pipe, written, readers, body, elapsed, report>>

Gone == child # "running" /\ reaped /\ ~descendant /\ readers = {}
-----------------------------------------------------------------------------
(* The child. *)

Writes ==
    LET size == (CHOOSE c \in command : TRUE).size
    IN  /\ child = "running" /\ Piped /\ written < size
        /\ IF Kind = "submission" /\ "stdout" \notin readers
           THEN child' = "failure" /\ UNCHANGED <<pipe, written>>
           ELSE /\ pipe < PipeCapacity
                /\ pipe' = pipe + 1 /\ written' = written + 1
                /\ UNCHANGED child
        /\ UNCHANGED <<command, reaped, descendant, readers, body, elapsed, phase, report>>

Exits ==
    /\ child = "running"
    /\ \/ child' = "failure"
       \/ /\ \A c \in command : c.accepts /\ (Piped => written = c.size)
          /\ child' = "success"
    /\ UNCHANGED <<command, reaped, descendant, pipe, written, readers, body, elapsed, phase, report>>

\* Only the OpenSSL of the verifier is expected to leave a process behind.
LeavesDescendant ==
    /\ child = "running" /\ Kind = "verify"
    /\ ~descendant /\ descendant' = TRUE
    /\ UNCHANGED <<command, child, reaped, pipe, written, readers, body, elapsed, phase, report>>

DescendantExits ==
    /\ descendant /\ descendant' = FALSE
    /\ UNCHANGED <<command, child, reaped, pipe, written, readers, body, elapsed, phase, report>>
-----------------------------------------------------------------------------
(* The readers. *)

EndOfFile == child # "running" /\ ~descendant /\ pipe = 0

\* The body's reader of a submission stops one byte past the limit; the one of
\* the verifier drops what exceeds its bound and keeps reading.
Reads ==
    /\ "stdout" \in readers
    /\ pipe > 0
    /\ pipe' = pipe - 1 /\ body' = body + 1
    /\ readers' = IF Kind = "submission" /\ body + 1 > MaxResponse
                  THEN readers \ {"stdout"} ELSE readers
    /\ UNCHANGED <<command, child, reaped, descendant, written, elapsed, phase, report>>

ReaderEnds ==
    /\ \E r \in readers : /\ IF r = "stdout" THEN EndOfFile
                             ELSE child # "running" /\ ~descendant
                          /\ readers' = readers \ {r}
    /\ UNCHANGED <<command, child, reaped, descendant, pipe, written, body, elapsed, phase, report>>
-----------------------------------------------------------------------------
(* The supervising loop. *)

Exited == child \in {"success", "failure"}

Late == elapsed = Timeout

\* The loop returns.
Returns(result) == phase' = "done" /\ report' = result

\* Fault: only the direct child is killed.
KillChild == child' = "failure" /\ reaped' = TRUE /\ UNCHANGED descendant

\* Kill and wait.  terminate_child signals the whole group of a verifier.
Kill == child' = "failure" /\ reaped' = TRUE /\ descendant' = FALSE

Abandon ==
    /\ Kill
    /\ phase' = "join" /\ report' = "error"
    /\ UNCHANGED <<command, pipe, written, readers, body, elapsed>>

\* query: the output is read once the child has exited.
PollQuery ==
    /\ phase = "poll" /\ Kind = "query"
    /\ \/ /\ Exited
          /\ reaped' = TRUE /\ body' = pipe /\ pipe' = 0
          /\ Returns(child)
          /\ UNCHANGED <<command, child, descendant, written, readers, elapsed>>
       \/ ~Exited /\ Late /\ Abandon

\* submission: overflow first, then exit with both pipes drained, then the
\* deadline.  child.wait is reached on every path.
PollSubmission ==
    /\ phase = "poll" /\ Kind = "submission"
    /\ LET overflow == "stdout" \notin readers /\ body > MaxResponse
       IN  \/ overflow /\ Abandon
           \/ /\ ~overflow /\ Exited /\ readers = {}
              /\ reaped' = TRUE
              /\ Returns(child)
              /\ UNCHANGED <<command, child, descendant, pipe, written, readers, body, elapsed>>
           \/ ~overflow /\ ~(Exited /\ readers = {}) /\ Late /\ Abandon

\* verify: first the exit, then the readers, both against one deadline.
PollVerify ==
    /\ phase = "poll" /\ Kind = "verify"
    /\ \/ /\ Exited
          /\ reaped' = TRUE /\ phase' = "drain"
          /\ UNCHANGED <<command, child, descendant, pipe, written, readers, body, elapsed, report>>
       \/ ~Exited /\ Late /\ Abandon

Drain ==
    /\ phase = "drain"
    /\ \/ /\ readers = {}
          /\ Returns(child)
          /\ UNCHANGED <<command, child, reaped, descendant, pipe, written, readers, body, elapsed>>
       \/ readers # {} /\ Late /\ Abandon

PollOts ==
    /\ phase = "poll" /\ Kind = "ots"
    /\ \/ /\ Exited
          /\ reaped' = TRUE
          /\ Returns(child)
          /\ UNCHANGED <<command, child, descendant, pipe, written, readers, body, elapsed>>
       \/ ~Exited /\ Late /\ Abandon

\* The reader threads are joined before an error is returned.
Join ==
    /\ phase = "join" /\ readers = {}
    /\ Returns(report)
    /\ UNCHANGED <<command, child, reaped, descendant, pipe, written, readers, body, elapsed>>

Tick ==
    /\ phase \in {"poll", "drain"} /\ elapsed < Timeout
    /\ elapsed' = elapsed + 1
    /\ UNCHANGED <<command, child, reaped, descendant, pipe, written, readers, body, phase, report>>

Supervise == PollQuery \/ PollSubmission \/ PollVerify \/ Drain \/ PollOts \/ Join

Program == Writes \/ Exits \/ LeavesDescendant \/ DescendantExits

Read == Reads \/ ReaderEnds
=============================================================================
