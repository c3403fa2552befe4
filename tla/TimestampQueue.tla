--------------------------- MODULE TimestampQueue ---------------------------
(***************************************************************************)
(* The timestamp queue in sealed_segment and the workers that drain it.    *)
(*                                                                         *)
(* A worker claims one due segment in a transaction, submits the artifact  *)
(* to the timestamp authority with no transaction open, and finishes the   *)
(* claim in a second transaction.  The attempt count fences a worker whose *)
(* lease has expired.  Transactions hold the ledger's advisory lock, so    *)
(* each is one step; it may commit without its worker learning so.         *)
(*                                                                         *)
(* tsa_next_attempt and tsa_lease_until are kept as the time left until    *)
(* they pass (0: passed), which keeps the state finite without bounding    *)
(* time.  Segments that are due all have 0 left: the model claims any of   *)
(* them where the code takes the one due longest.                          *)
(***************************************************************************)
EXTENDS Naturals, FiniteSets

CONSTANTS Segments,     \* the segments the producer may seal
          Workers,        \* worker threads, of one process or of several
          AttemptLimits,  \* the max_attempts a process may be configured with
          LeaseTime,      \* 5 minutes, in ticks
          RetryInitial,   \* retry_initial_ms and retry_max_ms, in ticks
          RetryMax,
          None

ASSUME LimitAssumption ==
    AttemptLimits # {} /\ IsFiniteSet(AttemptLimits) /\ AttemptLimits \subseteq Nat \ {0}
ASSUME LeaseAssumption == LeaseTime \in Nat \ {0}
ASSUME RetryAssumption == RetryInitial \in Nat \ {0} /\ RetryMax \in Nat

VARIABLES row,           \* segment -> its tsa columns, None before it is sealed
          max_attempts,  \* the running configuration
          stop,          \* stop_claiming has been called
          worker         \* worker -> what its loop is doing

vars == <<row, max_attempts, stop, worker>>

\* A response is told apart by the segment and the attempt that obtained it; a
\* response attached by hand has attempt 0.
Response(n, a) == [segment |-> n, attempt |-> a]

Idle == [pc |-> "idle"]
Stopped == [pc |-> "stopped"]

QueuedRow == [status |-> "queued", attempts |-> 0, next_attempt |-> 0,
              lease |-> None, response |-> None]

Init ==
    /\ row = [n \in Segments |-> None]
    /\ max_attempts \in AttemptLimits
    /\ stop = FALSE
    /\ worker = [w \in Workers |-> Idle]
-----------------------------------------------------------------------------
Queued(n) == row[n] # None /\ row[n].status = "queued"
Unleased(n) == row[n].lease \in {None, 0}

\* The producer inserts the segment: the column defaults queue it at once.
Enqueue(n) ==
    /\ row[n] = None
    /\ row' = [row EXCEPT ![n] = QueuedRow]
    /\ UNCHANGED <<max_attempts, stop, worker>>

Elapse(t) == IF t \in {None, 0} THEN t ELSE t - 1

Tick ==
    /\ row' = [n \in Segments |->
                  IF row[n] = None THEN None
                  ELSE [row[n] EXCEPT !.next_attempt = Elapse(@), !.lease = Elapse(@)]]
    /\ UNCHANGED <<max_attempts, stop, worker>>

\* The shift and the product saturate above every retry_max_ms.
RetryDelay(attempt) ==
    LET delay == RetryInitial * 2^(attempt - 1)
    IN  IF delay <= RetryMax THEN delay ELSE RetryMax

\* Fault: attempts are counted without looking at the lease of the last one.
ExhaustedEvenIfLeased(n) == Queued(n) /\ row[n].attempts >= max_attempts

\* Fault: a lease that ran out is never collected.
ExhaustedUnlessLeased(n) ==
    Queued(n) /\ row[n].attempts >= max_attempts /\ row[n].lease = None

\* claim_timestamp's first statement gives up on these.
Exhausted(n) ==
    /\ Queued(n)
    /\ row[n].attempts >= max_attempts
    /\ Unleased(n)

\* Its second statement claims one of these.
Due(n) ==
    /\ Queued(n)
    /\ row[n].attempts < max_attempts
    /\ row[n].next_attempt = 0
    /\ Unleased(n)

\* Fault: taking over an expired claim does not start a generation of its own.
ClaimedUncounted(n) ==
    [row[n] EXCEPT !.attempts = IF row[n].lease = None THEN @ + 1 ELSE @,
                   !.lease = LeaseTime, !.next_attempt = LeaseTime]

Claimed(n) == [row[n] EXCEPT !.attempts = @ + 1, !.lease = LeaseTime,
                             !.next_attempt = LeaseTime]

GivenUp(n) == [row[n] EXCEPT !.status = "failed", !.next_attempt = None, !.lease = None]

ClaimRows(claimed) ==
    row' = [n \in Segments |-> CASE n \in claimed -> Claimed(n)
                                 [] Exhausted(n)  -> GivenUp(n)
                                 [] OTHER         -> row[n]]

Claim(w, n) ==
    /\ worker[w] = Idle
    /\ ~stop
    /\ Due(n)
    /\ ClaimRows({n})
    /\ worker' = [worker EXCEPT ![w] = [pc |-> "submit", segment |-> n,
                                        attempt |-> Claimed(n).attempts]]
    /\ UNCHANGED <<max_attempts, stop>>

\* Nothing is due: the transaction only gives up on exhausted segments.
ClaimNothing(w) ==
    /\ worker[w] = Idle
    /\ ~stop
    /\ \A n \in Segments : ~Due(n)
    /\ \E n \in Segments : Exhausted(n)
    /\ ClaimRows({})
    /\ UNCHANGED <<max_attempts, stop, worker>>

\* The claim commits but the worker sees an error: the attempt is spent and the
\* lease has to expire.
ClaimUnseen(w, n) ==
    /\ worker[w] = Idle
    /\ ~stop
    /\ Due(n)
    /\ ClaimRows({n})
    /\ UNCHANGED <<max_attempts, stop, worker>>

\* submit_claim returns a verified response, or any error.
Submit(w) ==
    /\ worker[w].pc = "submit"
    /\ \E result \in {Response(worker[w].segment, worker[w].attempt), None} :
          worker' = [worker EXCEPT ![w] = [pc |-> "finish",
                                           segment |-> worker[w].segment,
                                           attempt |-> worker[w].attempt,
                                           result |-> result]]
    /\ UNCHANGED <<row, max_attempts, stop>>
-----------------------------------------------------------------------------
(* finish_timestamp_target *)

Attached(n, response) ==
    [row[n] EXCEPT !.response = response, !.status = "verified",
                   !.next_attempt = None, !.lease = None]

Retried(n) ==
    IF row[n].attempts >= max_attempts THEN GivenUp(n)
    ELSE [row[n] EXCEPT !.lease = None, !.next_attempt = RetryDelay(row[n].attempts)]

\* Fault: a superseded worker is not fenced.
OwnsUnfenced(n, generation) == Queued(n)

\* Fault: a target that is no longer queued is not left alone.
OwnsSettled(n, generation) ==
    IF generation = None THEN row[n].lease = None ELSE generation = row[n].attempts

\* A verified target, a terminal one and one with another generation are left
\* alone; a caller without a claim must find no lease.
Owns(n, generation) ==
    /\ Queued(n)
    /\ IF generation = None THEN row[n].lease = None
                            ELSE generation = row[n].attempts

FinishRow(w) ==
    LET claim == worker[w]
    IN  row' = IF Owns(claim.segment, claim.attempt)
               THEN [row EXCEPT ![claim.segment] =
                        IF claim.result = None THEN Retried(claim.segment)
                        ELSE Attached(claim.segment, claim.result)]
               ELSE row

Finish(w) ==
    /\ worker[w].pc = "finish"
    /\ FinishRow(w)
    /\ worker' = [worker EXCEPT ![w] = Idle]
    /\ UNCHANGED <<max_attempts, stop>>

\* The transaction commits unseen: the result stays pending and is finished
\* again after a reconnect.
FinishUnseen(w) ==
    /\ worker[w].pc = "finish"
    /\ FinishRow(w)
    /\ UNCHANGED <<max_attempts, stop, worker>>

\* attach_tsa_response: no claim, so no generation.
Attach(n) ==
    /\ row[n] # None
    /\ Owns(n, None)
    /\ row' = [row EXCEPT ![n] = Attached(n, Response(n, 0))]
    /\ UNCHANGED <<max_attempts, stop, worker>>
-----------------------------------------------------------------------------
(* What a replayed admission is told about the segments it sealed *)

\* Fault: the rows found are not counted.
TsaStatusOfFound(sealed, found) ==
    CASE \E n \in found : row[n].status = "failed"   -> "failed"
      [] \A n \in found : row[n].status = "verified" -> "verified"
      [] OTHER                                       -> "queued"

\* tsa_status from the rows found; a failed lookup finds none.
TsaStatus(sealed, found) ==
    CASE \E n \in found : row[n].status = "failed"   -> "failed"
      [] Cardinality(found) = Cardinality(sealed)
            /\ \A n \in found : row[n].status = "verified" -> "verified"
      [] OTHER                                       -> "queued"
-----------------------------------------------------------------------------
(* Shutdown and crashes *)

StopClaiming ==
    /\ ~stop
    /\ stop' = TRUE
    /\ UNCHANGED <<row, max_attempts, worker>>

\* The loop ends at its top.  A claim in flight is submitted and finished first;
\* a result left pending by a failed finish is dropped.
Exit(w) ==
    /\ stop
    /\ worker[w].pc \in {"idle", "finish"}
    /\ worker' = [worker EXCEPT ![w] = Stopped]
    /\ UNCHANGED <<row, max_attempts, stop>>

\* The process ends at any moment and starts again, perhaps with another limit.
Restart ==
    /\ stop' = FALSE
    /\ max_attempts' \in AttemptLimits
    /\ worker' = [w \in Workers |-> Idle]
    /\ UNCHANGED row
-----------------------------------------------------------------------------
Next ==
    \/ Tick
    \/ \E n \in Segments : Enqueue(n) \/ Attach(n)
    \/ \E w \in Workers, n \in Segments : Claim(w, n) \/ ClaimUnseen(w, n)
    \/ \E w \in Workers :
          ClaimNothing(w) \/ Submit(w) \/ Finish(w) \/ FinishUnseen(w) \/ Exit(w)
    \/ StopClaiming
    \/ Restart

\* The clock runs; the authority answers or times out (bounded HTTP timeouts);
\* a pending finish is retried until the database takes it; a stopped process is
\* started again; and processes that keep being stopped and restarted get to
\* poll now and then (pause wakes the loop every second): hence strong fairness
\* of the claim, which a shutdown disables.
Fairness ==
    /\ WF_vars(Tick)
    /\ \A w \in Workers :
          /\ SF_vars(\E n \in Segments : Claim(w, n))
          /\ SF_vars(ClaimNothing(w))
          /\ WF_vars(Submit(w))
          /\ WF_vars(Finish(w))
    /\ WF_vars(stop /\ Restart)

Spec == Init /\ [][Next]_vars
FairSpec == Spec /\ Fairness
-----------------------------------------------------------------------------
Limit == CHOOSE m \in AttemptLimits : \A k \in AttemptLimits : k <= m

Row == [status : {"queued", "verified", "failed"},
        attempts : 0..Limit,
        next_attempt : Nat \cup {None},
        lease : 0..LeaseTime \cup {None},
        response : [segment : Segments, attempt : 0..Limit] \cup {None}]

\* The columns and the workers' claims hold values of their kinds; attempts
\* never exceed the largest configured limit.
TypeOK ==
    /\ row \in [Segments -> Row \cup {None}]
    /\ max_attempts \in AttemptLimits
    /\ stop \in BOOLEAN
    /\ \A w \in Workers :
          \/ worker[w] \in {Idle, Stopped}
          \/ worker[w] \in [pc : {"submit"}, segment : Segments, attempt : 1..Limit]
          \/ worker[w] \in [pc : {"finish"}, segment : Segments, attempt : 1..Limit,
                            result : [segment : Segments, attempt : 1..Limit] \cup {None}]

\* The claim generation fences expired workers: claims of one segment held by
\* two workers never carry the same generation, and none is ahead of the row.
OneWorkerPerGeneration ==
    \A w \in Workers : worker[w].pc \in {"submit", "finish"} =>
        /\ row[worker[w].segment] # None
        /\ worker[w].attempt <= row[worker[w].segment].attempts
        /\ \A v \in Workers \ {w} :
              /\ worker[v].pc \in {"submit", "finish"}
              /\ worker[v].segment = worker[w].segment
              => worker[v].attempt # worker[w].attempt

\* An attached response was obtained by the latest claim of its own segment (or
\* attached by hand while no claim was out): a worker superseded after its lease
\* expired can no longer settle the segment.
AttachedByLatestClaim ==
    \A n \in Segments : row[n] # None =>
        /\ (row[n].status = "verified") <=> (row[n].response # None)
        /\ row[n].response # None =>
              /\ row[n].response.segment = n
              /\ row[n].response.attempt \in {0, row[n].attempts}

\* A settled segment is settled for good: the first committed response is never
\* replaced, and a failed segment is not queued again, whatever late workers,
\* repeated finishes or a changed attempt limit bring.
SettledForGood ==
    [][\A n \in Segments : row[n] # None /\ row[n].status # "queued" =>
          row'[n] = row[n]]_vars

\* A segment fails only when the configured attempts are spent, and the last of
\* them has reported an error or outlived its lease.
FailsOnlyWhenSpent ==
    [][\A n \in Segments :
          Queued(n) /\ row'[n].status = "failed" =>
             /\ row[n].attempts >= max_attempts
             /\ \/ row[n].lease \in {None, 0}
                \/ \E w \in Workers : /\ worker[w].pc = "finish"
                                      /\ worker[w].segment = n
                                      /\ worker[w].attempt = row[n].attempts
                                      /\ worker[w].result = None]_vars

\* What a client is told holds: once the segments of its batch are answered as
\* "verified" or "failed", the rows justify that answer and every later lookup
\* that succeeds repeats it, a lookup that failed in between notwithstanding.
TsaAnswerHolds ==
    [][\A sealed \in SUBSET {n \in Segments : row[n] # None} \ {{}} :
       \A found \in {{}, sealed} :
          TsaStatus(sealed, found) # "queued" =>
             TsaStatus(sealed, found) = TsaStatus(sealed, sealed)']_vars

\* Every queued segment is eventually verified or failed, through lost claims,
\* lost acknowledgements, shutdowns and crashes.
QueuedSettles ==
    \A n \in Segments : Queued(n) ~> (row[n] # None /\ row[n].status # "queued")
=============================================================================
