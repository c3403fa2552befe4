--------------------------- MODULE GatewayService ---------------------------
(***************************************************************************)
(* The HTTP service of one gateway process: requests and the readiness     *)
(* sampler share one producer behind a mutex, and /readyz answers from the *)
(* last sample.                                                            *)
(*                                                                         *)
(* A request takes the mutex, runs its operation, services a sampling that *)
(* was asked for meanwhile, and releases the mutex.  The sampler asks for  *)
(* a sampling and services it itself if the mutex is free.  What the       *)
(* operations do to the ledger is LedgerProducer's subject; here a         *)
(* transaction is its outcome and the segments it seals.                   *)
(*                                                                         *)
(* The producer's revision is kept as one fact, `current': it equals the   *)
(* durable one.  Only another writer, or a commit whose acknowledgement is *)
(* lost, makes it fall behind.                                             *)
(***************************************************************************)
EXTENDS Naturals, FiniteSets

CONSTANTS Clients,         \* requests in progress at a time
          Sampler,         \* the readiness sampler
          MaxQueue,        \* bound on the segments pending at a time
          MaxPending,      \* limits.max_pending_timestamps, an Option
          MaxSampleAge,    \* MAX_SAMPLE_AGE_SECONDS, in ticks
          Modes,           \* what the database may be like
          ProducerStates,  \* what readiness_state may return
          None

ASSUME SizeAssumption == MaxQueue \in Nat /\ MaxSampleAge \in Nat \ {0}
ASSUME LimitAssumption == MaxPending \subseteq Nat
ASSUME ModeAssumption == Modes \subseteq {"writable", "read_only", "full", "down"}
ASSUME SamplerAssumption == Sampler \notin Clients

Threads == Clients \cup {Sampler}

VARIABLES mode,            \* the database
          pending,         \* the segments that wait for a timestamp
          current,         \* the producer's revision is the durable one
          producer_state,  \* readiness_state()
          expired,         \* the open interval has elapsed
          lock,            \* who holds the producer mutex, or None
          poisoned,        \* a holder has panicked
          sample_requested,
          ready_for,       \* how long the last sample lets /readyz answer ready
          storage_unavailable,
          worker,          \* a timestamp worker between its commit and the flag
          request,         \* client -> what it serves
          pc,              \* thread -> where it is
          seen             \* the observation the holder is making, or None

store == <<mode, pending, current>>
producer == <<producer_state, expired>>
mutex == <<lock, poisoned>>
events == <<storage_unavailable, worker>>
vars == <<store, producer, mutex, sample_requested, ready_for, events, request, pc, seen>>

\* What sample_if_requested finds: whether there is no reason against readiness,
\* and the number of pending timestamps if the statistics were read.
Obstructed == [clean |-> FALSE, pending |-> None]

Init ==
    /\ mode = "writable"
    /\ pending = 0
    /\ current = TRUE
    /\ producer_state = "ready"
    /\ expired = FALSE
    /\ lock = None
    /\ poisoned = FALSE
    /\ sample_requested = FALSE
    /\ ready_for = 0
    /\ storage_unavailable = FALSE
    /\ worker = "idle"
    /\ request = [c \in Clients |-> None]
    /\ pc = [t \in Threads |-> "idle"]
    /\ seen = None
-----------------------------------------------------------------------------
(* The ledger, as the service sees it *)

\* The queue after a transition that seals a segment, or none.
Sealing == {n \in {pending, pending + 1} : n <= MaxQueue}

\* What compare_and_swap may return: a commit may become durable although the
\* caller sees an error.
CommitResults ==
    CASE mode = "writable" /\ current -> {"ok", "unseen"}
      [] mode = "full" /\ current     -> {"full"}
      [] OTHER                        -> {"error"}

\* The durable effect of a transaction that leaves n segments pending.
Durable(result, n) ==
    /\ pending' = IF result \in {"ok", "unseen"} THEN n ELSE pending
    /\ current' = (current /\ result # "unseen")
    /\ UNCHANGED mode

\* The admission limit as compare_and_swap checks it.
CapacityExhausted(n) == \E limit \in MaxPending : pending >= limit \/ n > limit

Go(t, place) == pc' = [pc EXCEPT ![t] = place]

Done(t) ==
    /\ Go(t, "idle")
    /\ request' = [c \in Clients |-> IF c = t THEN None ELSE request[c]]
-----------------------------------------------------------------------------
(* Requests *)

\* A request that passes the checks on its credential, media type, encoding,
\* size, envelope and key; any other is answered without the producer.  An
\* upload is new or was admitted before; "states" asks for timestamps' states.
Receive(c) ==
    /\ pc[c] = "idle"
    /\ \E r \in {"upload", "replay", "states"} : request' = [request EXCEPT ![c] = r]
    /\ Go(c, "lock")
    /\ UNCHANGED <<store, producer, mutex, sample_requested, ready_for, events, seen>>

\* with_producer: wait for the mutex; a poisoned one is an error.
Lock(c) ==
    /\ pc[c] = "lock"
    /\ lock = None
    /\ IF poisoned THEN Done(c) /\ UNCHANGED lock
                   ELSE Go(c, "operate") /\ lock' = c /\ UNCHANGED request
    /\ UNCHANGED <<store, producer, poisoned, sample_requested, ready_for, events, seen>>

\* The operation writes nothing: a replay, timestamps' states, an upload that the
\* producer refuses or whose key cannot be looked up.
Read(c) ==
    /\ pc[c] = "operate"
    /\ request[c] = "upload" => mode = "down" \/ producer_state # "ready"
    /\ Go(c, "swap")
    /\ UNCHANGED <<store, producer, mutex, sample_requested, ready_for, events, request, seen>>

\* An admission, which also closes the intervals that have elapsed.
Admit(c) ==
    /\ pc[c] = "operate"
    /\ request[c] = "upload"
    /\ mode # "down"
    /\ producer_state = "ready"
    /\ \E n \in Sealing :
       \E result \in IF CapacityExhausted(n) THEN {"error"} ELSE CommitResults :
          /\ Durable(result, n)
          /\ expired' = (expired /\ result # "ok")
          /\ Go(c, CASE result = "ok" -> "clear" [] result = "full" -> "set" [] OTHER -> "swap")
    /\ UNCHANGED <<producer_state, mutex, sample_requested, ready_for, events, request, seen>>

\* commit() stores the flag that its transaction's result implies.
FlagStorage(c) ==
    /\ pc[c] \in {"clear", "set"}
    /\ storage_unavailable' = (pc[c] = "set")
    /\ Go(c, "swap")
    /\ UNCHANGED <<store, producer, mutex, sample_requested, ready_for, worker,
                   request, seen>>
-----------------------------------------------------------------------------
(* Sampling *)

\* limits.exhausted(statistics)
Exhausted(n) == \E limit \in MaxPending : n >= limit

\* A sample with a reason, or whose statistics are over a limit, is answered as
\* unready at any age, like no sample; a clean one until MaxSampleAge.
Observe(new) ==
    ready_for' = IF new.clean /\ ~Exhausted(new.pending) THEN MaxSampleAge ELSE 0

\* sample_readiness: the request is stored before the mutex is tried.
Tick ==
    /\ pc[Sampler] = "idle"
    /\ sample_requested' = TRUE
    /\ Go(Sampler, "try")
    /\ UNCHANGED <<store, producer, mutex, ready_for, events, request, seen>>

TryLock ==
    /\ pc[Sampler] = "try"
    /\ CASE lock # None -> Go(Sampler, "idle") /\ UNCHANGED <<lock, ready_for>>
         [] lock = None /\ poisoned ->
               /\ Observe(Obstructed)
               /\ Go(Sampler, "idle")
               /\ UNCHANGED lock
         [] OTHER -> lock' = Sampler /\ Go(Sampler, "swap") /\ UNCHANGED ready_for
    /\ UNCHANGED <<store, producer, poisoned, sample_requested, events,
                   request, seen>>

\* sample_if_requested, the first step of whoever holds the mutex.
Swap(t) ==
    /\ pc[t] = "swap"
    /\ sample_requested' = FALSE
    /\ Go(t, IF sample_requested THEN "probe" ELSE "unlock")
    /\ UNCHANGED <<store, producer, mutex, ready_for, events, request, seen>>

\* pipeline_statistics on the producer's connection: unavailable, read-only or
\* of another revision, or the counters.
Statistics ==
    IF mode \in {"down", "read_only"} \/ ~current THEN Obstructed
    ELSE [clean |-> TRUE, pending |-> pending]

\* Readiness checks the producer's clock and state and reads the statistics.
Probe(t) ==
    /\ pc[t] = "probe"
    /\ IF producer_state = "ready" /\ Statistics.clean
       THEN seen' = Statistics /\ Go(t, "seal")
       ELSE seen' = Obstructed /\ Go(t, "observe")
    /\ UNCHANGED <<store, producer, mutex, sample_requested, ready_for,
                   events, request>>

\* seal_expired_intervals: nothing to do, no clock, or one transaction, which is
\* held to no admission limit.
SealExpired(t) ==
    /\ pc[t] = "seal"
    /\ CASE producer_state # "ready" ->
               /\ seen' = Obstructed
               /\ Go(t, "observe")
               /\ UNCHANGED <<store, expired>>
         [] producer_state = "ready" /\ ~expired ->
               /\ Go(t, "observe")
               /\ UNCHANGED <<store, expired, seen>>
         [] OTHER -> \E n \in Sealing, result \in CommitResults :
               /\ Durable(result, n)
               /\ expired' = (result # "ok")
               /\ seen' = IF result = "ok" THEN seen ELSE Obstructed
               /\ Go(t, CASE result = "ok"   -> "clear_sealed"
                          [] result = "full" -> "set_sealed"
                          [] OTHER           -> "observe")
    /\ UNCHANGED <<producer_state, mutex, sample_requested, ready_for, events, request>>

\* Fault: the statistics read before the sealing are reported.
FlagSealedAndObserve(t) ==
    /\ pc[t] \in {"clear_sealed", "set_sealed"}
    /\ storage_unavailable' = (pc[t] = "set_sealed")
    /\ Go(t, "observe")
    /\ UNCHANGED <<store, producer, mutex, sample_requested, ready_for,
                   worker, request, seen>>

\* Fault: a sealing that succeeds does not clear the flag.
FlagSealedFailure(t) ==
    /\ pc[t] \in {"clear_sealed", "set_sealed"}
    /\ storage_unavailable' = (storage_unavailable \/ pc[t] = "set_sealed")
    /\ Go(t, IF pc[t] = "clear_sealed" THEN "reread" ELSE "observe")
    /\ UNCHANGED <<store, producer, mutex, sample_requested, ready_for,
                   worker, request, seen>>

FlagSealed(t) ==
    /\ pc[t] \in {"clear_sealed", "set_sealed"}
    /\ storage_unavailable' = (pc[t] = "set_sealed")
    /\ Go(t, IF pc[t] = "clear_sealed" THEN "reread" ELSE "observe")
    /\ UNCHANGED <<store, producer, mutex, sample_requested, ready_for,
                   worker, request, seen>>

\* The sealing moved the revision: the statistics are read again.
Reread(t) ==
    /\ pc[t] = "reread"
    /\ seen' = Statistics
    /\ Go(t, "observe")
    /\ UNCHANGED <<store, producer, mutex, sample_requested, ready_for,
                   events, request>>

Publish(t) ==
    /\ pc[t] = "observe"
    /\ Observe(seen)
    /\ seen' = None
    /\ Go(t, "unlock")
    /\ UNCHANGED <<store, producer, mutex, sample_requested, events, request>>


\* Fault: the guard is still held when the states are asked for.
UnlockAtTheEnd(t) ==
    /\ pc[t] = "unlock"
    /\ IF t \in Clients /\ request[t] = "replay"
       THEN Go(t, "lock") /\ request' = [request EXCEPT ![t] = "states"] /\ UNCHANGED lock
       ELSE Done(t) /\ lock' = None
    /\ UNCHANGED <<store, producer, poisoned, sample_requested, ready_for, events, seen>>

\* The guard goes out of scope.  A replayed admission takes the producer once
\* more, for the states of the segments it sealed.
Unlock(t) ==
    /\ pc[t] = "unlock"
    /\ lock' = None
    /\ IF t \in Clients /\ request[t] = "replay"
       THEN Go(t, "lock") /\ request' = [request EXCEPT ![t] = "states"]
       ELSE Done(t)
    /\ UNCHANGED <<store, producer, poisoned, sample_requested, ready_for, events, seen>>

\* A holder panics: the mutex is poisoned and the task's join fails.
Panic(t) ==
    /\ lock = t
    /\ pc[t] # "hung"
    /\ poisoned' = TRUE
    /\ lock' = None
    /\ seen' = None
    /\ IF t = Sampler THEN Observe(Obstructed) ELSE UNCHANGED ready_for
    /\ Done(t)
    /\ UNCHANGED <<store, producer, sample_requested, events>>

\* A call to the database never returns: the producer's session has no timeout.
Hang(t) ==
    /\ lock = t
    /\ pc[t] \in {"operate", "probe", "seal", "reread"}
    /\ Go(t, "hung")
    /\ UNCHANGED <<store, producer, mutex, sample_requested, ready_for, events, request, seen>>
-----------------------------------------------------------------------------
(* The environment: time, the database, workers, other processes *)

service == <<mutex, sample_requested, request, pc, seen>>

\* Fault: a sample is believed whatever its age.
SampleNeverAges ==
    /\ ready_for > 0
    /\ UNCHANGED vars

TimePasses ==
    /\ ready_for > 0
    /\ ready_for' = ready_for - 1
    /\ UNCHANGED <<store, producer, events, service>>

IntervalElapses ==
    /\ ~expired
    /\ expired' = TRUE
    /\ UNCHANGED <<store, producer_state, ready_for, events, service>>

DatabaseChanges ==
    /\ mode' \in Modes
    /\ UNCHANGED <<pending, current, producer, ready_for, events, service>>

ProducerChanges ==
    /\ producer_state' \in ProducerStates
    /\ UNCHANGED <<store, expired, ready_for, events, service>>

\* Another process commits to the same ledger.
OtherWriter ==
    /\ mode = "writable"
    /\ current' = FALSE
    /\ pending' \in Sealing
    /\ UNCHANGED <<mode, producer, ready_for, events, service>>

\* A worker settles a segment; a response it attached makes it clear the flag
\* afterwards, a full disk makes it set it.
WorkerCommits ==
    /\ worker = "idle"
    /\ pending > 0
    /\ \/ mode = "writable" /\ pending' = pending - 1 /\ worker' \in {"idle", "clear"}
       \/ mode = "full" /\ worker' = "set" /\ UNCHANGED pending
    /\ UNCHANGED <<mode, current, producer, ready_for, storage_unavailable, service>>

WorkerFlags ==
    /\ worker \in {"clear", "set"}
    /\ storage_unavailable' = (worker = "set")
    /\ worker' = "idle"
    /\ UNCHANGED <<store, producer, ready_for, service>>
-----------------------------------------------------------------------------
(* /readyz *)

\* response(): no reason against readiness is known.
Ready == ready_for > 0 /\ ~storage_unavailable
-----------------------------------------------------------------------------
Operate(c) == Read(c) \/ Admit(c) \/ FlagStorage(c)

Sampling(t) ==
    \/ Swap(t) \/ Probe(t) \/ SealExpired(t) \/ FlagSealed(t) \/ Reread(t) \/ Publish(t)
    \/ Unlock(t)

Next ==
    \/ \E c \in Clients : Receive(c) \/ Lock(c) \/ Operate(c)
    \/ Tick \/ TryLock
    \/ \E t \in Threads : Sampling(t) \/ Panic(t) \/ Hang(t)
    \/ TimePasses \/ IntervalElapses \/ DatabaseChanges \/ ProducerChanges
    \/ OtherWriter \/ WorkerCommits \/ WorkerFlags

\* The interval timer fires every five seconds while the service runs, time
\* passes and intervals elapse.  A database call that does not hang returns,
\* perhaps with an error, and a thread that waits for the mutex, which it gets now
\* and then, does not wait for ever.
Fairness ==
    /\ WF_vars(TimePasses)
    /\ WF_vars(IntervalElapses)
    /\ WF_vars(Tick)
    /\ WF_vars(TryLock)
    /\ WF_vars(WorkerFlags)
    /\ \A t \in Threads : WF_vars(Sampling(t))
    /\ \A c \in Clients : WF_vars(Operate(c)) /\ SF_vars(Lock(c))

Spec == Init /\ [][Next]_vars
FairSpec == Spec /\ Fairness
-----------------------------------------------------------------------------
\* A sample that reports no obstacle counts every segment the process has queued,
\* those it sealed while sampling included: as long as no other process writes,
\* the queue can only have become shorter since the statistics were read.
SampleCountsEverySeal ==
    [][\A t \in Threads : Publish(t) /\ seen.clean /\ current => seen.pending >= pending]_vars

Hung == \E t \in Threads : pc[t] = "hung"

Broken == mode \in {"down", "read_only"} \/ producer_state # "ready" \/ ~current \/ poisoned \/ Hung

\* Readiness does not outlive the service: once the database is unusable, the
\* producer is behind or has lost its clock, or the mutex is poisoned or held by a
\* call that never returns, /readyz stops answering ready for good.
BrokenIsNoticed == <>[]Broken => <>[]~Ready

Healthy ==
    /\ ~Broken /\ mode = "writable"
    /\ ~Exhausted(pending)

\* Readiness comes back: while nothing is wrong /readyz answers ready again and
\* again, although ticks that meet a busy mutex are left to its holder, and
\* although storage_unavailable is only cleared by a write and an unready service
\* may be sent no admissions: the sampling's own sealing clears it.
HealthIsReported == <>[]Healthy => []<>Ready

\* Unless a call to the database hangs, every request is answered: the mutex comes
\* back from every path through an operation, its sampling and its panics.
RequestsAnswered == []~Hung => \A c \in Clients : (pc[c] # "idle") ~> (pc[c] = "idle")

\* The comment in sample_readiness: "The active operation services the pending
\* tick before releasing the mutex."  So no tick is pending while the mutex is
\* free and the sampler is not about to try it.
PendingTickIsServiced == lock = None /\ pc[Sampler] = "idle" /\ ~poisoned => ~sample_requested
=============================================================================
