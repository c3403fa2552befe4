------------------------------- MODULE Tools --------------------------------
(***************************************************************************)
(* The calls that run external programs, one at a time under one runner:   *)
(* stamping, and the verification of OpenTimestamps proofs.                *)
(***************************************************************************)
EXTENDS Stamping, OtsVerification

VARIABLE job             \* stamp | ots

vars == <<job, runner, stampVars, otsVars>>
-----------------------------------------------------------------------------
Returned == IF job = "stamp" THEN step = "returned" ELSE stage = "returned"

Init ==
    /\ RunnerInit
    /\ StampInit
    /\ \/ job = "ots" /\ OtsInit
       \/ /\ job = "stamp"
          /\ stage = "returned" /\ artifact = {} /\ proof = {} /\ sidecar = {}
          /\ options = (CHOOSE o \in Options : TRUE)
          /\ rewrites = 0 /\ kept = {} /\ copied = {} /\ staging = FALSE
          /\ verdict = NoVerdict

Call ==
    \/ job = "stamp" /\ Stamp /\ UNCHANGED <<job, otsVars>>
    \/ job = "ots" /\ VerifyOts /\ UNCHANGED <<job, stampVars>>

Supervision == Supervise /\ UNCHANGED <<job, stampVars, otsVars>>

Reading == Read /\ UNCHANGED <<job, stampVars, otsVars>>

Ticking == Tick /\ UNCHANGED <<job, stampVars, otsVars>>

Programs == Program /\ UNCHANGED <<job, stampVars, otsVars>>

Rewriting == job = "ots" /\ RewriteArtifact /\ UNCHANGED <<job, stampVars>>

Finished == Returned /\ UNCHANGED vars

Next == Call \/ Supervision \/ Reading \/ Ticking \/ Programs \/ Rewriting \/ Finished

\* The calling thread, the supervising loop it is in and the reader threads are
\* scheduled, and time passes.  Nothing is assumed of the programs.
Fairness ==
    WF_vars(Call) /\ WF_vars(Supervision) /\ WF_vars(Reading) /\ WF_vars(Ticking)

Spec == Init /\ [][Next]_vars /\ Fairness
-----------------------------------------------------------------------------
(***************************************************************************)
(* Every call returns, whatever the programs do - hang, fill a pipe,       *)
(* answer without end, leave a process behind that holds the pipes - and   *)
(* from then on nothing of it is left: no process, no reader thread, no    *)
(* temporary file.                                                         *)
(***************************************************************************)
ReturnsLeavingNothing == <>[](Returned /\ Gone /\ files = {} /\ ~staging)
=============================================================================
