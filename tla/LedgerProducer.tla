--------------------------- MODULE LedgerProducer ---------------------------
(***************************************************************************)
(* Gateway processes, each holding one LedgerProducer, over one PostgreSQL *)
(* ledger.                                                                 *)
(*                                                                         *)
(* A process starts (main.rs), loads the state in two queries, creates,    *)
(* reactivates or recovers the ledger, and then serves one operation at a  *)
(* time under the producer mutex.  An operation works on a copy of the     *)
(* process's state (Begin..., CloseExpired, PushRecord) and ends in one    *)
(* compare-and-swap transaction.  The store serialises transactions with   *)
(* an advisory lock, so a transaction is one step; processes interleave at *)
(* every other step.  A process may stop between any two steps, and a      *)
(* transaction may become durable although its process never learns it.    *)
(***************************************************************************)
EXTENDS Segments

CONSTANTS Processes,       \* gateway processes that may run at the same time
          Requests,          \* admissions clients send: [key, records]
          Policies,          \* closure policies a new ledger may be created with
          PolicyRequests,    \* closure policies a caller may ask for later
          CloseRequests,     \* reasons a caller may close the interval with
          MaxPending,        \* limits.max_pending_timestamps, an Option
          MaxEvidenceBytes,  \* limits.max_retained_evidence_bytes, an Option
          ArtifactBytes,     \* the length of an artifact
          ResponseBytes,     \* the length of a timestamp response
          TsaOutcomes,       \* what the timestamp workers make of a segment
          MaxRevision,       \* stands for u64::MAX as a state revision
          MaxNow,            \* bound on a process's elapsed clock
          MaxBoots           \* bound on process starts

ASSUME RequestAssumption ==
    Requests \subseteq [key : STRING, records : Seq(Records) \ {<<>>}]
ASSUME PolicyAssumption == Policies \cup PolicyRequests \subseteq ClosurePolicy
ASSUME CloseAssumption == CloseRequests \subseteq {"manual", "shutdown"}
ASSUME CapacityAssumption ==
    /\ MaxPending \in Optional(Nat)
    /\ MaxEvidenceBytes \in Optional(Nat)
    /\ ArtifactBytes \in Nat
    /\ ResponseBytes \in Nat
    /\ TsaOutcomes \subseteq {"verified", "failed"}
ASSUME BoundAssumption == MaxRevision \in Nat /\ MaxNow \in Nat /\ MaxBoots \in Nat

VARIABLES
    ledger,          \* the ledger_state row, or None; open.records is not a column
    open_record,     \* ordinal -> record
    sealed_segment,  \* segment number -> artifact
    sealed_record,   \* <<segment number, ordinal>> -> record
    tsa_status,      \* segment number -> "queued", "verified" or "failed"
    idempotency,     \* key -> the outcome stored for it
    usage,           \* the pipeline_usage row
    pc,              \* what each process is doing
    now,             \* its elapsed clock
    continuity,      \* its clock's continuity_id
    mem,             \* its ProducerState
    work,            \* the transition it is building
    boots,           \* process starts so far
    journal,         \* history: every committed record with its promised segment
    answers          \* history: every success returned to a client

store == <<ledger, open_record, sealed_segment, sealed_record, tsa_status,
           idempotency, usage>>
process == <<pc, now, continuity, mem, work>>
history == <<journal, answers>>
vars == <<store, process, boots, history>>

Keys == {request.key : request \in Requests}

\* The operations of open_or_create and main.rs before the process serves.
Startup == {"create", "reactivate", "recover"}
-----------------------------------------------------------------------------
SumOfSizes(records) ==
    LET Sum[n \in 0..Len(records)] ==
            IF n = 0 THEN 0 ELSE Sum[n - 1] + Size[records[n]]
    IN  Sum[Len(records)]

\* A transition being built: the copied state, what it sealed so far, the
\* records still to push and the segment numbers promised to those pushed.
Work(kind, at, next, sealed, request) ==
    [kind |-> kind, at |-> at, next |-> next, sealed |-> sealed,
     request |-> request, numbers |-> <<>>,
     todo |-> IF request = None THEN <<>> ELSE request.records]

Init ==
    /\ ledger = None
    /\ open_record = NoRows
    /\ sealed_segment = NoRows
    /\ sealed_record = NoRows
    /\ tsa_status = NoRows
    /\ idempotency = NoRows
    /\ usage = [pending |-> 0, bytes |-> 0]
    /\ pc = [p \in Processes |-> "down"]
    /\ now = [p \in Processes |-> 0]
    /\ continuity = [p \in Processes |-> 0]
    /\ mem = [p \in Processes |-> None]
    /\ work = [p \in Processes |-> None]
    /\ boots = 0
    /\ journal = <<>>
    /\ answers = {}
-----------------------------------------------------------------------------
(* Process life *)

\* SystemElapsedClock::new gives every process its own continuity.
Start(p) ==
    /\ pc[p] = "down"
    /\ boots < MaxBoots
    /\ boots' = boots + 1
    /\ pc' = [pc EXCEPT ![p] = "load"]
    /\ continuity' = [continuity EXCEPT ![p] = boots + 1]
    /\ UNCHANGED <<store, now, mem, work, history>>

\* Fault: the transition under construction survives the process.
DownKeepingWork(p) ==
    /\ pc' = [pc EXCEPT ![p] = "down"]
    /\ now' = [now EXCEPT ![p] = 0]
    /\ continuity' = [continuity EXCEPT ![p] = 0]
    /\ mem' = [mem EXCEPT ![p] = None]
    /\ UNCHANGED work

\* The process is gone, or has lost its database session: either way nothing
\* more comes from it until it is started again.
Down(p) ==
    /\ pc' = [pc EXCEPT ![p] = "down"]
    /\ now' = [now EXCEPT ![p] = 0]
    /\ continuity' = [continuity EXCEPT ![p] = 0]
    /\ mem' = [mem EXCEPT ![p] = None]
    /\ work' = [work EXCEPT ![p] = None]

Crash(p) ==
    /\ pc[p] # "down"
    /\ Down(p)
    /\ UNCHANGED <<store, boots, history>>

\* An operation reads the clock when it begins, so only ticks before that count.
Tick(p) ==
    /\ pc[p] \in {"open", "idle"}
    /\ now[p] < MaxNow
    /\ now' = [now EXCEPT ![p] = @ + 1]
    /\ UNCHANGED <<store, pc, continuity, mem, work, boots, history>>

LoadRow(p) ==
    /\ pc[p] = "load"
    /\ mem' = [mem EXCEPT ![p] = ledger]
    /\ pc' = [pc EXCEPT ![p] = IF ledger = None THEN "open" ELSE "rows"]
    /\ UNCHANGED <<store, now, continuity, work, boots, history>>

LoadRecords(p) ==
    /\ pc[p] = "rows"
    /\ mem' = [mem EXCEPT ![p].open.records = InOrder(open_record)]
    /\ pc' = [pc EXCEPT ![p] = "open"]
    /\ UNCHANGED <<store, now, continuity, work, boots, history>>
-----------------------------------------------------------------------------
(* Operations.  Begin puts the copied state in work[p]. *)

Begin(p, w) ==
    /\ work' = [work EXCEPT ![p] = w]
    /\ pc' = [pc EXCEPT ![p] = "busy"]
    /\ UNCHANGED <<store, now, continuity, mem, boots, history>>

\* An operation that fails leaves the process's state as it was; a failure
\* during start-up ends the process.
Fail(p) ==
    IF work[p].kind \in Startup
    THEN Down(p)
    ELSE /\ pc' = [pc EXCEPT ![p] = "idle"]
         /\ work' = [work EXCEPT ![p] = None]
         /\ UNCHANGED <<now, continuity, mem>>

Stamped(state, p) ==
    [state EXCEPT !.open.opened_at_ms = now[p],
                  !.open.clock_continuity_id = continuity[p]]

\* open_or_create on an empty store.
BeginCreate(p) ==
    /\ pc[p] = "open"
    /\ mem[p] = None
    /\ \E policy \in Policies :
          Begin(p, Work("create", now[p],
                        [revision |-> 0,
                         active |-> TRUE,
                         next_segment_number |-> 0,
                         predecessor_cbor |-> None,
                         open |-> [opened_at_ms |-> now[p],
                                   clock_continuity_id |-> continuity[p],
                                   policy |-> policy,
                                   records |-> <<>>,
                                   byte_count |-> 0],
                         next_policy |-> policy],
                        <<>>, None))

\* Fault: the reactivated interval keeps the clock it was closed under.
BeginReactivateUnstamped(p) ==
    /\ pc[p] = "open"
    /\ mem[p] # None
    /\ ~mem[p].active
    /\ Begin(p, Work("reactivate", now[p], [mem[p] EXCEPT !.active = TRUE], <<>>, None))

BeginReactivate(p) ==
    /\ pc[p] = "open"
    /\ mem[p] # None
    /\ ~mem[p].active
    /\ Begin(p, Work("reactivate", now[p],
                     [Stamped(mem[p], p) EXCEPT !.active = TRUE], <<>>, None))

\* transition(now, Some(reason), None).
Transition(p, kind, reason) ==
    /\ ~CannotSeal(mem[p], reason)
    /\ LET next == Stamped(SealOpen(mem[p], now[p], reason), p)
       IN  Begin(p, Work(kind, now[p],
                         [next EXCEPT !.active = reason # "shutdown"],
                         SealedBy(mem[p], reason), None))

\* main.rs recovers an active ledger whose continuity is not this process's.
BeginRecover(p) ==
    /\ pc[p] = "open"
    /\ mem[p] # None
    /\ mem[p].active
    /\ mem[p].open.clock_continuity_id # continuity[p]
    /\ Transition(p, "recover", "recovery")

\* recover() fails: main returns the error and the process ends.
RecoverFails(p) ==
    /\ pc[p] = "open"
    /\ mem[p] # None
    /\ mem[p].active
    /\ mem[p].open.clock_continuity_id # continuity[p]
    /\ CannotSeal(mem[p], "recovery")
    /\ Down(p)
    /\ UNCHANGED <<store, boots, history>>

\* safe_now: the state is active and its ticks compare with this clock's.
SafeNow(p) ==
    /\ mem[p].active
    /\ mem[p].open.clock_continuity_id = continuity[p]
    /\ now[p] >= mem[p].open.opened_at_ms

BeginClose(p, reason) ==
    /\ pc[p] = "idle"
    /\ SafeNow(p)
    /\ Transition(p, "close", reason)

\* update_policy with immediate: the open interval closes as "reconfigure" and
\* the next one starts under the new policy.
BeginReconfigure(p, policy) ==
    /\ pc[p] = "idle"
    /\ SafeNow(p)
    /\ ~CannotSeal(mem[p], "reconfigure")
    /\ LET next == Stamped(SealOpen(mem[p], now[p], "reconfigure"), p)
       IN  Begin(p, Work("reconfigure", now[p],
                         [next EXCEPT !.next_policy = policy, !.open.policy = policy],
                         SealedBy(mem[p], "reconfigure"), None))

\* Fault: the policy also applies to the interval already open.
BeginQueuePolicyAtOnce(p, policy) ==
    /\ pc[p] = "idle"
    /\ SafeNow(p)
    /\ Begin(p, Work("policy", now[p],
                     [mem[p] EXCEPT !.next_policy = policy, !.open.policy = policy],
                     <<>>, None))

\* update_policy otherwise: the policy waits for the next closure.
BeginQueuePolicy(p, policy) ==
    /\ pc[p] = "idle"
    /\ SafeNow(p)
    /\ Begin(p, Work("policy", now[p], [mem[p] EXCEPT !.next_policy = policy],
                     <<>>, None))

BeginSealExpired(p) ==
    /\ pc[p] = "idle"
    /\ SafeNow(p)
    /\ Expired(mem[p], now[p])
    /\ Begin(p, Work("expire", now[p], mem[p], <<>>, None))

\* admit_batch_idempotent_digest finds the key under the same digest: it
\* answers from the stored outcome, even for an inactive ledger.
Replay(p, request) ==
    /\ pc[p] = "idle"
    /\ request.key \in DOMAIN idempotency
    /\ idempotency[request.key].request_sha256 = Sha256(request.records)
    /\ answers' = answers \cup {<<request.key, idempotency[request.key]>>}
    /\ UNCHANGED <<store, process, boots, journal>>

BeginAdmit(p, request) ==
    /\ pc[p] = "idle"
    /\ request.key \notin DOMAIN idempotency
    /\ SafeNow(p)
    /\ Begin(p, Work("admit", now[p], mem[p], <<>>, request))
-----------------------------------------------------------------------------
(* The loops of close_expired and admit_batch_inner *)

Closing(p) ==
    /\ pc[p] = "busy"
    /\ work[p].kind \in {"admit", "expire"}
    /\ Expired(work[p].next, work[p].at)

\* One turn of close_expired's loop: the interval ends at its own boundary.
AfterExpiry(w) ==
    LET boundary == w.next.open.opened_at_ms + w.next.open.policy.interval_ms
    IN  [w EXCEPT !.next = SealOpen(w.next, boundary, "interval"),
                  !.sealed = @ \o SealedBy(w.next, "interval")]

CloseExpired(p) ==
    /\ Closing(p)
    /\ ~CannotSeal(work[p].next, "interval")
    /\ work' = [work EXCEPT ![p] = AfterExpiry(@)]
    /\ UNCHANGED <<store, pc, now, continuity, mem, boots, history>>

Pushing(p) ==
    /\ pc[p] = "busy"
    /\ ~Closing(p)
    /\ work[p].todo # <<>>

\* One record: promise it the next segment number, push it, and seal when it
\* fills the interval.
AfterPush(w) ==
    LET pushed == Pushed(w.next, Head(w.todo))
        reasons == LimitReasons(pushed)
        reason == Highest(reasons)
    IN  [w EXCEPT !.todo = Tail(@),
                  !.numbers = Append(@, w.next.next_segment_number),
                  !.next = IF reasons = {} THEN pushed
                           ELSE SealOpen(pushed, w.at, reason),
                  !.sealed = IF reasons = {} THEN @
                             ELSE @ \o SealedBy(pushed, reason)]

\* The record at hand fills an interval that cannot be sealed.
CannotPush(w) ==
    LET pushed == Pushed(w.next, Head(w.todo))
        reasons == LimitReasons(pushed)
    IN  reasons # {} /\ CannotSeal(pushed, Highest(reasons))

PushRecord(p) ==
    /\ Pushing(p)
    /\ ~CannotPush(work[p])
    /\ work' = [work EXCEPT ![p] = AfterPush(@)]
    /\ UNCHANGED <<store, pc, now, continuity, mem, boots, history>>

\* seal_open fails inside either loop: the copy is dropped.
SealFails(p) ==
    /\ \/ Closing(p) /\ CannotSeal(work[p].next, "interval")
       \/ Pushing(p) /\ CannotPush(work[p])
    /\ Fail(p)
    /\ UNCHANGED <<store, boots, history>>
-----------------------------------------------------------------------------
(* commit() and compare_and_swap *)

Ready(p) ==
    /\ pc[p] = "busy"
    /\ ~Closing(p)
    /\ work[p].todo = <<>>

\* Fault: only a transition that seals takes a new revision.
NextStateUnnumbered(p) ==
    IF work[p].kind = "create" \/ work[p].sealed = <<>> THEN work[p].next
    ELSE [work[p].next EXCEPT !.revision = mem[p].revision + 1]

\* commit(): create() goes to the store itself, with no expected revision.
NextState(p) ==
    IF work[p].kind = "create" THEN work[p].next
    ELSE [work[p].next EXCEPT !.revision = mem[p].revision + 1]

PreviousOpenCount(p) ==
    IF work[p].kind = "create" THEN 0 ELSE Len(mem[p].open.records)

Deltas(p) ==
    IF work[p].request = None THEN <<>>
    ELSE RecordDeltas(mem[p], work[p].next, work[p].sealed,
                      work[p].request.records, work[p].numbers)

AdmissionOutcome(p, revision) ==
    [request_sha256 |-> Sha256(work[p].request.records),
     admitted_segment_numbers |-> work[p].numbers,
     state_revision |-> revision,
     sealed_segment_numbers |-> [i \in DOMAIN work[p].sealed |->
                                    work[p].sealed[i].artifact.segment_number]]

\* Fault: the stored outcome names the revision before the commit.
IdempotencyRecordStale(p) == AdmissionOutcome(p, work[p].next.revision)

\* Built before the commit, from the copied state; the answer to the client is
\* built after it, from the committed one.
IdempotencyRecord(p) == AdmissionOutcome(p, work[p].next.revision + 1)

\* Fault: the artifacts are left out.
ExtraBytesOfRecords(p) ==
    IF work[p].request = None THEN 0 ELSE SumOfSizes(work[p].request.records)

ExtraBytes(p) ==
    ArtifactBytes * Len(work[p].sealed)
    + (IF work[p].request = None THEN 0 ELSE SumOfSizes(work[p].request.records))

\* Fault: what the transaction itself adds is not counted.
OverCapacityBefore(p) ==
    /\ work[p].request # None
    /\ \/ \E limit \in MaxPending : usage.pending >= limit
       \/ \E limit \in MaxEvidenceBytes : usage.bytes >= limit

\* Only a transaction that admits records is held to the limits.
OverCapacity(p) ==
    /\ work[p].request # None
    /\ \/ \E limit \in MaxPending :
             \/ usage.pending >= limit
             \/ usage.pending + Len(work[p].sealed) > limit
       \/ \E limit \in MaxEvidenceBytes :
             \/ usage.bytes >= limit
             \/ usage.bytes + ExtraBytes(p) > limit

\* Fault: the update is not conditional on the revision.
RevisionUnchecked(p) == IF work[p].kind = "create" THEN ledger = None ELSE ledger # None

\* UPDATE ... WHERE revision = expected, or INSERT ... ON CONFLICT DO NOTHING.
RevisionMatches(p) ==
    IF work[p].kind = "create"
    THEN ledger = None
    ELSE ledger # None /\ ledger.revision = mem[p].revision

\* Fault: the last sealed segment takes over the rows.
TransferToLast(p) == work[p].sealed[Len(work[p].sealed)].artifact.segment_number

\* Fault: the segment before the open interval takes over the rows.
TransferToPrevious(p) == work[p].sealed[1].artifact.segment_number - 1

\* The first non-empty sealed segment takes over the rows of the open interval.
TransferTo(p) ==
    LET sealed == work[p].sealed
        first == CHOOSE i \in DOMAIN sealed :
                    /\ sealed[i].records # <<>>
                    /\ \A j \in 1..(i - 1) : sealed[j].records = <<>>
    IN  sealed[first].artifact.segment_number

TransferredRows(p) ==
    IF work[p].sealed # <<>> /\ PreviousOpenCount(p) > 0
    THEN {<<TransferTo(p), o>> : o \in DOMAIN open_record}
    ELSE {}

OpenDeltas(p) == {i \in DOMAIN Deltas(p) : ~Deltas(p)[i].sealed}

SealedDeltas(p) == {i \in DOMAIN Deltas(p) : Deltas(p)[i].sealed}

OpenAfter(p) ==
    LET kept == IF work[p].sealed = <<>> THEN open_record ELSE NoRows
        deltas == Deltas(p)
        added == {deltas[i].ordinal : i \in OpenDeltas(p)}
    IN  [o \in DOMAIN kept \cup added |->
            IF o \in added
            THEN deltas[CHOOSE i \in OpenDeltas(p) : deltas[i].ordinal = o].record
            ELSE kept[o]]

SealedRowsAfter(p) ==
    LET deltas == Deltas(p)
        RowOf(i) == <<deltas[i].segment, deltas[i].ordinal>>
        added == {RowOf(i) : i \in SealedDeltas(p)}
    IN  [row \in DOMAIN sealed_record \cup TransferredRows(p) \cup added |->
            IF row \in added
            THEN deltas[CHOOSE i \in SealedDeltas(p) : RowOf(i) = row].record
            ELSE IF row \in TransferredRows(p)
                 THEN open_record[row[2]]
                 ELSE sealed_record[row]]

SealedAfter(p) ==
    LET sealed == work[p].sealed
        added == NumbersOf(sealed)
    IN  [n \in DOMAIN sealed_segment \cup added |->
            IF n \in added
            THEN sealed[CHOOSE i \in DOMAIN sealed :
                           sealed[i].artifact.segment_number = n].artifact
            ELSE sealed_segment[n]]

\* Every check of the transaction after the revision: primary keys are free
\* and the row counts of the transfer and the deletion are the expected ones.
RowsFit(p) ==
    LET sealed == work[p].sealed
        deltas == Deltas(p)
        Row(i) == <<deltas[i].segment, deltas[i].ordinal>>
        SameTable(i, j) == deltas[i].sealed = deltas[j].sealed
        kept == IF sealed = <<>> THEN DOMAIN open_record ELSE {}
    IN  /\ \A i \in DOMAIN sealed :
              /\ sealed[i].artifact.segment_number \notin DOMAIN sealed_segment
              /\ \A j \in DOMAIN sealed : i # j =>
                    sealed[i].artifact.segment_number # sealed[j].artifact.segment_number
        /\ sealed # <<>> =>
              /\ Cardinality(DOMAIN open_record) = PreviousOpenCount(p)
              /\ PreviousOpenCount(p) > 0 =>
                    \E i \in DOMAIN sealed : sealed[i].records # <<>>
        /\ TransferredRows(p) \cap DOMAIN sealed_record = {}
        /\ \A i \in OpenDeltas(p) : deltas[i].ordinal \notin kept
        /\ \A i \in SealedDeltas(p) : Row(i) \notin DOMAIN sealed_record \cup TransferredRows(p)
        /\ \A i, j \in DOMAIN deltas : i # j /\ SameTable(i, j) => Row(i) # Row(j)

\* Fault: neither the revision nor the key is checked.
AcceptedUnconditionally(p) == ~OverCapacity(p) /\ RowsFit(p)

Accepted(p) ==
    /\ work[p].kind # "create" => mem[p].revision < MaxRevision
    /\ ~OverCapacity(p)
    /\ RevisionMatches(p)
    /\ RowsFit(p)
    /\ work[p].request # None => work[p].request.key \notin DOMAIN idempotency

\* An UPDATE writes predecessor_cbor only when the transition seals.
StoredPredecessor(p) ==
    IF work[p].sealed = <<>> /\ work[p].kind # "create"
    THEN ledger.predecessor_cbor
    ELSE work[p].next.predecessor_cbor

\* The durable effect of an accepted transaction.
Durable(p) ==
    LET w == work[p]
        added == NumbersOf(w.sealed)
    IN
    /\ ledger' = [NextState(p) EXCEPT !.open.records = <<>>,
                                      !.predecessor_cbor = StoredPredecessor(p)]
    /\ open_record' = OpenAfter(p)
    /\ sealed_segment' = SealedAfter(p)
    /\ sealed_record' = SealedRowsAfter(p)
    /\ tsa_status' = [n \in DOMAIN tsa_status \cup added |->
                         IF n \in added THEN "queued" ELSE tsa_status[n]]
    /\ usage' = [pending |-> usage.pending + Len(w.sealed),
                 bytes |-> usage.bytes + ExtraBytes(p)]
    /\ IF w.request = None
       THEN UNCHANGED <<idempotency, journal>>
       ELSE /\ idempotency' =
                  [k \in DOMAIN idempotency \cup {w.request.key} |->
                      IF k = w.request.key THEN IdempotencyRecord(p) ELSE idempotency[k]]
            /\ journal' = journal \o [i \in DOMAIN w.request.records |->
                              [key |-> w.request.key,
                               record |-> w.request.records[i],
                               segment |-> w.numbers[i]]]

\* The transaction commits and the process learns it.
Commit(p) ==
    /\ Ready(p)
    /\ Accepted(p)
    /\ Durable(p)
    /\ mem' = [mem EXCEPT ![p] = NextState(p)]
    /\ work' = [work EXCEPT ![p] = None]
    /\ pc' = [pc EXCEPT ![p] = "idle"]
    /\ answers' = IF work[p].request = None THEN answers
                  ELSE answers \cup {<<work[p].request.key,
                                     AdmissionOutcome(p, NextState(p).revision)>>}
    /\ UNCHANGED <<now, continuity, boots>>

\* The transaction commits but the process or its session is lost before the
\* acknowledgement.
CommitUnseen(p) ==
    /\ Ready(p)
    /\ Accepted(p)
    /\ Durable(p)
    /\ Down(p)
    /\ UNCHANGED <<boots, answers>>

\* The transaction rolls back: a check refused it, or PostgreSQL failed it.
Rollback(p) ==
    /\ Ready(p)
    /\ Fail(p)
    /\ UNCHANGED <<store, boots, history>>

\* Fault: a failed timestamp still counts as pending.
SettleTimestampUncounted(n) ==
    /\ n \in DOMAIN tsa_status
    /\ tsa_status[n] = "queued"
    /\ \E outcome \in TsaOutcomes :
          /\ tsa_status' = [tsa_status EXCEPT ![n] = outcome]
          /\ usage' = IF outcome = "failed" THEN usage
                      ELSE [pending |-> usage.pending - 1,
                            bytes |-> usage.bytes + ResponseBytes]
    /\ UNCHANGED <<ledger, open_record, sealed_segment, sealed_record, idempotency,
                   process, boots, history>>

\* finish_timestamp_target, as the producer sees it: a queued segment settles.
SettleTimestamp(n) ==
    /\ n \in DOMAIN tsa_status
    /\ tsa_status[n] = "queued"
    /\ \E outcome \in TsaOutcomes :
          /\ tsa_status' = [tsa_status EXCEPT ![n] = outcome]
          /\ usage' = [pending |-> usage.pending - 1,
                       bytes |-> usage.bytes
                                 + IF outcome = "verified" THEN ResponseBytes ELSE 0]
    /\ UNCHANGED <<ledger, open_record, sealed_segment, sealed_record, idempotency,
                   process, boots, history>>
-----------------------------------------------------------------------------
Next ==
    \/ \E p \in Processes :
          \/ Start(p) \/ Crash(p) \/ Tick(p) \/ LoadRow(p) \/ LoadRecords(p)
          \/ BeginCreate(p) \/ BeginReactivate(p) \/ BeginRecover(p) \/ RecoverFails(p)
          \/ \E reason \in CloseRequests : BeginClose(p, reason)
          \/ \E policy \in PolicyRequests : BeginReconfigure(p, policy)
          \/ \E policy \in PolicyRequests : BeginQueuePolicy(p, policy)
          \/ BeginSealExpired(p)
          \/ \E request \in Requests : Replay(p, request)
          \/ \E request \in Requests : BeginAdmit(p, request)
          \/ CloseExpired(p) \/ PushRecord(p) \/ SealFails(p)
          \/ Commit(p) \/ CommitUnseen(p) \/ Rollback(p)
    \/ \E n \in DOMAIN tsa_status : SettleTimestamp(n)

Spec == Init /\ [][Next]_vars
-----------------------------------------------------------------------------
(* Types *)

IsWork(w) ==
    /\ w \in [kind : Startup \cup {"close", "reconfigure", "policy", "expire", "admit"},
              at : Nat, next : {w.next}, sealed : {w.sealed},
              request : Requests \cup {None}, numbers : Seq(Nat), todo : Seq(Records)]
    /\ IsState(w.next)
    /\ AreSealed(w.sealed)

\* Every table, process and history variable holds values of its kind.
TypeOK ==
    /\ ledger # None => IsState(ledger)
    /\ open_record \in [DOMAIN open_record -> Records]
    /\ DOMAIN open_record \subseteq Nat
    /\ \A n \in DOMAIN sealed_segment :
          sealed_segment[n] # None /\ IsOptionalArtifact(sealed_segment[n])
    /\ sealed_record \in [DOMAIN sealed_record -> Records]
    /\ tsa_status \in [DOMAIN sealed_segment -> {"queued", "verified", "failed"}]
    /\ DOMAIN idempotency \subseteq Keys
    /\ usage.pending \in Nat
    /\ pc \in [Processes -> {"down", "load", "rows", "open", "idle", "busy"}]
    /\ now \in [Processes -> Nat]
    /\ continuity \in [Processes -> Nat]
    /\ mem \in [Processes -> {mem[p] : p \in Processes}]
    /\ work \in [Processes -> {work[p] : p \in Processes}]
    /\ \A p \in Processes : mem[p] # None => IsState(mem[p])
    /\ \A p \in Processes : IF pc[p] = "busy" THEN IsWork(work[p]) ELSE work[p] = None
    /\ boots \in Nat
    /\ journal \in Seq([key : Keys, record : Records, segment : Nat])
    /\ \A a \in answers : a[1] \in Keys
-----------------------------------------------------------------------------
(* Safety *)

Rows(n) == {row \in DOMAIN sealed_record : row[1] = n}

RowsOf(n) == InOrder([o \in {row[2] : row \in Rows(n)} |-> sealed_record[<<n, o>>]])

\* The sealed segments form one chain: numbers run from 0 without a gap up to
\* the state's next_segment_number, each artifact commits to the digest of its
\* predecessor's bytes, and the stored predecessor is the last artifact.  Holds
\* across crashes, unseen commits and concurrent processes (construct_segment,
\* compare_and_swap).
ChainIntact ==
    IF ledger = None
    THEN sealed_segment = NoRows
    ELSE /\ DOMAIN sealed_segment = 0..(ledger.next_segment_number - 1)
         /\ \A n \in DOMAIN sealed_segment :
               /\ sealed_segment[n].segment_number = n
               /\ sealed_segment[n].prev_segment_sha256 =
                     IF n = 0 THEN None ELSE Sha256(sealed_segment[n - 1])
         /\ ledger.predecessor_cbor =
               IF ledger.next_segment_number = 0 THEN None
               ELSE sealed_segment[ledger.next_segment_number - 1]

\* A process whose revision is the durable one holds exactly the durable state,
\* open rows included.  load() reads them in two queries without a transaction;
\* a torn read must show as an older revision, or the next swap would commit it.
WriterMirrorsStore ==
    \A p \in Processes :
        pc[p] \in {"open", "idle", "busy"} /\ mem[p] # None =>
            /\ ledger # None
            /\ mem[p].revision <= ledger.revision
            /\ mem[p].revision = ledger.revision =>
                  mem[p] = [ledger EXCEPT !.open.records = InOrder(open_record)]

\* When the revision matches, none of the transaction's later checks (primary
\* keys, row counts of the transfer and the deletion) can fail: record_deltas
\* always computes rows that fit.
MatchingRevisionFits ==
    \A p \in Processes : Ready(p) /\ RevisionMatches(p) => RowsFit(p)

\* Each artifact commits to exactly the rows stored for its segment, whose
\* ordinals run from 0 without a gap, as do the open interval's.
RowsMatchArtifacts ==
    /\ DOMAIN open_record = 0..(Cardinality(DOMAIN open_record) - 1)
    /\ {row[1] : row \in DOMAIN sealed_record} \subseteq DOMAIN sealed_segment
    /\ \A n \in DOMAIN sealed_segment :
          /\ {row[2] : row \in Rows(n)} = 0..(sealed_segment[n].record_count - 1)
          /\ sealed_segment[n].segment_root = MerkleRoot(RowsOf(n))

\* Nothing admitted is lost, duplicated, reordered or moved: the sealed rows in
\* segment and ordinal order, then the open rows, are exactly the records of
\* the committed admissions in commit order, each in the segment that its
\* outcome promised (the open interval being the next segment); and the
\* artifacts commit to those rows.
LedgerMatchesJournal ==
    /\ RowsMatchArtifacts
    /\ ledger # None =>
        LET Content[n \in 0..ledger.next_segment_number] ==
                IF n = 0 THEN <<>>
                ELSE Content[n - 1] \o
                     [i \in DOMAIN RowsOf(n - 1) |->
                         [record |-> RowsOf(n - 1)[i], segment |-> n - 1]]
            open == InOrder(open_record)
            placed == [i \in DOMAIN journal |->
                          [record |-> journal[i].record, segment |-> journal[i].segment]]
        IN  placed = Content[ledger.next_segment_number] \o
                      [i \in DOMAIN open |->
                          [record |-> open[i], segment |-> ledger.next_segment_number]]

\* A success a client has seen, first answer or replay, is the stored outcome
\* of its key, and its records are in the ledger: retries of one key, through
\* crashes and through different processes, always get one and the same answer.
AnswersAreDurable ==
    \A a \in answers : a[1] \in DOMAIN idempotency /\ a[2] = idempotency[a[1]]

\* The journal holds the records of each key once, in the segments its stored
\* outcome names, and none of a key without one: no upload is applied twice or
\* without the row that makes its retry a replay.
OncePerKey ==
    \A k \in Keys :
        LET OfKey(entry) == entry.key = k
            entries == SelectSeq(journal, OfKey)
        IN  [i \in DOMAIN entries |-> entries[i].segment] =
               IF k \in DOMAIN idempotency
               THEN idempotency[k].admitted_segment_numbers ELSE <<>>

\* An interval closes as soon as it reaches a limit of the policy it was opened
\* under: no artifact exceeds its own record limit, one closed as "record_limit"
\* is exactly full, and the durable open interval is below both limits.  A
\* policy change never applies to the interval already open.
LimitsRespected ==
    /\ \A n \in DOMAIN sealed_segment :
          LET a == sealed_segment[n]
          IN  \A limit \in a.closure_policy.record_limit :
                 /\ a.record_count <= limit
                 /\ a.close_reason = "record_limit" => a.record_count = limit
    /\ ledger # None =>
          LET rows == InOrder(open_record)
          IN  /\ ledger.open.byte_count = SumOfSizes(rows)
              /\ LimitReasons([ledger EXCEPT !.open.records = rows]) = {}

\* The trigger-kept count of pending timestamps equals the queued segments.
PendingIsExact ==
    usage.pending = Cardinality({n \in DOMAIN tsa_status : tsa_status[n] = "queued"})

\* The trigger-kept evidence size equals the bytes the tables hold: no path that
\* inserts, moves or settles rows counts them twice or not at all.
EvidenceIsExact ==
    LET Bytes[S \in SUBSET DOMAIN sealed_record] ==
            IF S = {} THEN 0
            ELSE LET row == CHOOSE row \in S : TRUE
                 IN  Size[sealed_record[row]] + Bytes[S \ {row}]
    IN  usage.bytes =
            Bytes[DOMAIN sealed_record] + SumOfSizes(InOrder(open_record))
            + ArtifactBytes * Cardinality(DOMAIN sealed_segment)
            + ResponseBytes * Cardinality({n \in DOMAIN tsa_status :
                                              tsa_status[n] = "verified"})

\* A serving process owns its interval's clock, so elapsed time is computed
\* only between ticks of one continuity and never goes negative.
OwnClock ==
    \A p \in Processes :
        pc[p] = "idle" \/ (pc[p] = "busy" /\ work[p].kind \notin Startup) =>
            /\ mem[p].open.clock_continuity_id = continuity[p]
            /\ mem[p].open.opened_at_ms <= now[p]

\* The comment on recover(): "Recoverable material is sealed; an empty suppress
\* interval advances only the logical interval", so a recovery artifact under a
\* suppressing policy has records.  construct_segment exempts recovery from
\* suppression and seals the empty interval too.
RecoverySealsOnlyMaterial ==
    \A n \in DOMAIN sealed_segment :
        /\ sealed_segment[n].close_reason = "recovery"
        /\ sealed_segment[n].closure_policy.empty_mode = "suppress"
        => sealed_segment[n].record_count > 0
-----------------------------------------------------------------------------
(* What a step may never do *)

\* An admission never takes the ledger over a capacity limit, although
\* preservation transitions may.
AdmissionWithinCapacity ==
    [][journal' # journal =>
          /\ \A limit \in MaxPending : usage'.pending <= limit
          /\ \A limit \in MaxEvidenceBytes : usage'.bytes <= limit]_vars

\* An admission never lands in an interval that had already expired when the
\* process read its clock, and never leaves a future opening time behind.
AdmissionInLiveInterval ==
    [][journal' # journal =>
          \A p \in Processes : work[p] # None /\ work'[p] = None =>
             /\ ledger'.open.opened_at_ms <= work[p].at
             /\ work[p].at - ledger'.open.opened_at_ms
                   < ledger'.open.policy.interval_ms]_vars
=============================================================================
