------------------------------ MODULE Segments ------------------------------
(***************************************************************************)
(* The producer's pure rules: what a ledger state, a closure policy and a  *)
(* sealed segment are, when an interval closes, and where the store must   *)
(* put every record of an admission.                                       *)
(*                                                                         *)
(* A record's canonical CBOR is a member of Records, with a length in      *)
(* Size.  An optional value (Option<u64>) is a set of at most one element. *)
(* SHA-256 is an injective constructor.  A Merkle root is the bag of the   *)
(* committed records, because the code hashes the leaves in sorted order.  *)
(***************************************************************************)
EXTENDS Naturals, Sequences, FiniteSets

CONSTANTS Records,     \* canonical record byte strings
          Size,          \* Size[r]: the length of record r in bytes
          MaxSerial      \* stands for u64::MAX as a segment number

ASSUME RecordAssumption == Size \in [Records -> Nat]
ASSUME SerialAssumption == MaxSerial \in Nat
-----------------------------------------------------------------------------
\* An absent ledger state, predecessor, digest or request.
None == [none |-> TRUE]

Optional(S) == {o \in SUBSET S : \A x, y \in o : x = y}

EmptyMode == {"emit", "suppress"}

CloseReason == {"recovery", "shutdown", "reconfigure", "manual",
                "size_limit", "record_limit", "interval"}

Precedence == [recovery |-> 7, shutdown |-> 6, reconfigure |-> 5, manual |-> 4,
               size_limit |-> 3, record_limit |-> 2, interval |-> 1]

Highest(reasons) ==
    CHOOSE r \in reasons : \A q \in reasons : Precedence[q] <= Precedence[r]

\* ClosurePolicy::validate: a zero interval or limit is refused.
ClosurePolicy == [interval_ms : Nat \ {0},
                  record_limit : Optional(Nat \ {0}),
                  size_limit_bytes : Optional(Nat \ {0}),
                  empty_mode : EmptyMode]

Sha256(bytes) == [sha256 |-> bytes]

\* The bag of records a Merkle root commits to.
MerkleRoot(records) ==
    [r \in {records[i] : i \in DOMAIN records} |->
        Cardinality({i \in DOMAIN records : records[i] = r})]
-----------------------------------------------------------------------------
(* Types *)

IsSequence(q) == q \in Seq({q[i] : i \in DOMAIN q})

IsOptionalArtifact(a) ==
    a = None \/ a \in [segment_number : Nat,
                       prev_segment_sha256 : {a.prev_segment_sha256},
                       closure_policy : ClosurePolicy,
                       close_reason : CloseReason,
                       record_count : Nat,
                       segment_root : {a.segment_root}]

OpenInterval == [opened_at_ms : Nat, clock_continuity_id : Nat,
                 policy : ClosurePolicy, records : Seq(Records), byte_count : Nat]

IsState(s) ==
    /\ s \in [revision : Nat, active : BOOLEAN, next_segment_number : Nat,
              predecessor_cbor : {s.predecessor_cbor},
              open : OpenInterval, next_policy : ClosurePolicy]
    /\ IsOptionalArtifact(s.predecessor_cbor)

AreSealed(q) ==
    /\ IsSequence(q)
    /\ \A i \in DOMAIN q :
          /\ q[i] \in [artifact : {q[i].artifact}, records : Seq(Records)]
          /\ q[i].artifact # None
          /\ IsOptionalArtifact(q[i].artifact)
-----------------------------------------------------------------------------
\* An empty interval under a suppressing policy leaves no segment behind,
\* unless the closure is a shutdown or a recovery.
Suppressed(state, reason) ==
    /\ state.open.records = <<>>
    /\ state.open.policy.empty_mode = "suppress"
    /\ reason \notin {"shutdown", "recovery"}

\* SegmentRecord::new_epoch and new_successor: the number and the digest come
\* from the predecessor's bytes, not from the state's counter.
PositionAfter(predecessor) ==
    IF predecessor = None
    THEN [segment_number |-> 0, prev_segment_sha256 |-> None]
    ELSE [segment_number |-> predecessor.segment_number + 1,
          prev_segment_sha256 |-> Sha256(predecessor)]

SegmentRecord(state, reason) ==
    LET position == PositionAfter(state.predecessor_cbor)
    IN  [segment_number |-> position.segment_number,
         prev_segment_sha256 |-> position.prev_segment_sha256,
         closure_policy |-> state.open.policy,
         close_reason |-> reason,
         record_count |-> Len(state.open.records),
         segment_root |-> MerkleRoot(state.open.records)]

\* construct_segment fails when the serial is spent or disagrees with the
\* predecessor.
CannotSeal(state, reason) ==
    /\ ~Suppressed(state, reason)
    /\ \/ state.next_segment_number = MaxSerial
       \/ PositionAfter(state.predecessor_cbor).segment_number
              # state.next_segment_number

\* The next interval starts empty, under the policy queued for it.
Rotated(state, next_opened_at_ms) ==
    [state EXCEPT !.open = [@ EXCEPT !.records = <<>>,
                                     !.byte_count = 0,
                                     !.policy = state.next_policy,
                                     !.opened_at_ms = next_opened_at_ms]]

\* seal_open: the state after the closure, and the zero or one sealed segments.
SealOpen(state, next_opened_at_ms, reason) ==
    LET rotated == Rotated(state, next_opened_at_ms)
    IN  IF Suppressed(state, reason)
        THEN rotated
        ELSE [rotated EXCEPT !.predecessor_cbor = SegmentRecord(state, reason),
                             !.next_segment_number = @ + 1]

SealedBy(state, reason) ==
    IF Suppressed(state, reason)
    THEN <<>>
    ELSE <<[artifact |-> SegmentRecord(state, reason),
            records |-> state.open.records]>>

\* Fault: the interval that ends exactly now is still open.
ExpiredLate(state, now) ==
    now - state.open.opened_at_ms > state.open.policy.interval_ms

\* close_expired's loop condition.
Expired(state, now) ==
    now - state.open.opened_at_ms >= state.open.policy.interval_ms

Pushed(state, record) ==
    [state EXCEPT !.open.records = Append(@, record),
                  !.open.byte_count = @ + Size[record]]

\* The limits an open interval has reached.
LimitReasons(state) ==
    {r \in {"size_limit", "record_limit"} :
        \/ /\ r = "size_limit"
           /\ \E limit \in state.open.policy.size_limit_bytes :
                 state.open.byte_count >= limit
        \/ /\ r = "record_limit"
           /\ \E limit \in state.open.policy.record_limit :
                 Len(state.open.records) >= limit}
-----------------------------------------------------------------------------
\* load()'s second query: SELECT record_cbor ... ORDER BY ordinal.
InOrder(rows) ==
    [i \in 1..Cardinality(DOMAIN rows) |->
        rows[CHOOSE o \in DOMAIN rows :
                Cardinality({q \in DOMAIN rows : q < o}) = i - 1]]

NoRows == [o \in {} |-> None]

StartsWith(s, t) == Len(t) <= Len(s) /\ SubSeq(s, 1, Len(t)) = t

NumbersOf(sealed) == {sealed[i].artifact.segment_number : i \in DOMAIN sealed}

\* Fault: the rows transferred from the open interval are forgotten.
ExistingRowsUncounted(previous, next, sealed, numbers, n) ==
    IF n \in NumbersOf(sealed) THEN 0
    ELSE Len(next.open.records)
         - Cardinality({i \in DOMAIN numbers : numbers[i] = next.next_segment_number})

\* The rows that segment n, or the open interval, holds before the admitted
\* records are added to it.
ExistingRows(previous, next, sealed, numbers, n) ==
    IF n \in NumbersOf(sealed)
    THEN IF /\ previous.open.records # <<>>
            /\ \E i \in DOMAIN sealed :
                  StartsWith(sealed[i].records, previous.open.records)
            /\ n = previous.next_segment_number
         THEN Len(previous.open.records)
         ELSE 0
    ELSE Len(next.open.records)
         - Cardinality({i \in DOMAIN numbers : numbers[i] = next.next_segment_number})

\* record_deltas: the row each admitted record goes to, in a sealed segment or
\* in the open interval; the ordinals continue after the rows already there.
RecordDeltas(previous, next, sealed, records, numbers) ==
    LET Sealed(i) == numbers[i] \in NumbersOf(sealed)
        SameDestination(i, j) ==
            (Sealed(i) <=> Sealed(j)) /\ (Sealed(i) => numbers[i] = numbers[j])
        Earlier(i) == Cardinality({j \in 1..(i - 1) : SameDestination(i, j)})
    IN  [i \in DOMAIN records |->
            [sealed |-> Sealed(i),
             segment |-> numbers[i],
             ordinal |-> ExistingRows(previous, next, sealed, numbers, numbers[i])
                         + Earlier(i),
             record |-> records[i]]]
=============================================================================
