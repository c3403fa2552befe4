--------------------------- MODULE SegmentsProofs ---------------------------
(***************************************************************************)
(* Lemmas about the producer's pure rules: the types of closures and       *)
(* pushes, how a transition under construction extends the chain and the   *)
(* open interval, and which rows record_deltas gives the admitted records. *)
(***************************************************************************)
EXTENDS Segments, FiniteSetTheorems, SequenceTheorems, TLAPS

(* What a transition under construction is *)

\* The open records that were open before the transition.
Base(s, sealed) == IF sealed = <<>> THEN s.open.records ELSE <<>>

\* The n segments of q are numbered from first on, each committing to the digest
\* of the one before it and the first to the given digest.
Link(q, i, digest) == IF i > 1 THEN Sha256(q[i - 1].artifact) ELSE digest

Chained(q, n, first, digest) ==
    \A i \in 1..n :
        /\ q[i].artifact.segment_number = first + i - 1
        /\ q[i].artifact.prev_segment_sha256 = Link(q, i, digest)

\* The segments sealed by the transition continue the chain of s.
BuiltChain(s, w) ==
    /\ w.next.next_segment_number = s.next_segment_number + Len(w.sealed)
    /\ Chained(w.sealed, Len(w.sealed), s.next_segment_number,
               PositionAfter(s.predecessor_cbor).prev_segment_sha256)
    /\ w.next.predecessor_cbor =
          IF w.sealed = <<>> THEN s.predecessor_cbor
          ELSE w.sealed[Len(w.sealed)].artifact

\* The open records are base followed by the last admitted ones: those numbered
\* next; the admitted records before them are in segments first..(next - 1).
Fresh(base, records) == Len(records) - Len(base)

Placed(base, records, numbers, admitted, first, next) ==
    LET fresh == Fresh(base, records)
    IN  /\ fresh \in 0..Len(numbers)
        /\ \A i \in 1..Len(numbers) :
              IF i > Len(numbers) - fresh
              THEN numbers[i] = next
              ELSE numbers[i] \in first..(next - 1)
        /\ \A i \in 1..Len(base) : records[i] = base[i]
        /\ \A i \in 1..fresh :
              records[Len(base) + i] = admitted[Len(numbers) - fresh + i]

BuiltRecords(s, w) ==
    Placed(Base(s, w.sealed), w.next.open.records, w.numbers, w.request.records,
           s.next_segment_number, w.next.next_segment_number)

\* The records pushed and the records to push are those of the request.
BuiltRequest(w) ==
    IF w.request = None
    THEN w.numbers = <<>> /\ w.todo = <<>>
    ELSE /\ Len(w.numbers) + Len(w.todo) = Len(w.request.records)
         /\ \A i \in DOMAIN w.todo :
               w.todo[i] = w.request.records[Len(w.numbers) + i]

Built(s, w) == BuiltChain(s, w) /\ BuiltRecords(s, w) /\ BuiltRequest(w)

-----------------------------------------------------------------------------
(* Rows in order *)

\* In 0..(n - 1), the rank of an ordinal is the ordinal itself.
LEMMA RankLemma ==
    ASSUME NEW n \in Nat, NEW o \in 0..(n - 1)
    PROVE  Cardinality({q \in 0..(n - 1) : q < o}) = o
<1>1. {q \in 0..(n - 1) : q < o} = 0..(o - 1)
  OBVIOUS
<1>2. 0 \in Int /\ o - 1 \in Int
  OBVIOUS
<1>3. Cardinality(0..(o - 1)) = IF 0 > o - 1 THEN 0 ELSE (o - 1) - 0 + 1
  BY <1>2, FS_Interval
<1>4. Cardinality({q \in 0..(n - 1) : q < o}) = Cardinality(0..(o - 1))
  BY <1>1, Zenon
<1> QED
  BY <1>3, <1>4

\* load()'s ORDER BY ordinal returns rows numbered 0..(n - 1) in that order.
LEMMA InOrderLemma ==
    ASSUME NEW n \in Nat, NEW rows, DOMAIN rows = 0..(n - 1)
    PROVE  InOrder(rows) = [i \in 1..n |-> rows[i - 1]]
<1>1. Cardinality(DOMAIN rows) = n
  <2>1. 0 \in Int /\ n - 1 \in Int
    OBVIOUS
  <2>2. Cardinality(0..(n - 1)) = IF 0 > n - 1 THEN 0 ELSE (n - 1) - 0 + 1
    BY <2>1, FS_Interval
  <2> QED
    BY <2>2
<1>2. ASSUME NEW i \in 1..n
      PROVE  (CHOOSE o \in DOMAIN rows : Cardinality({q \in DOMAIN rows : q < o}) = i - 1)
                = i - 1
  <2>1. i - 1 \in 0..(n - 1)
    OBVIOUS
  <2>2. Cardinality({q \in DOMAIN rows : q < i - 1}) = i - 1
    BY <2>1, RankLemma
  <2>3. \A o \in DOMAIN rows : Cardinality({q \in DOMAIN rows : q < o}) = i - 1 => o = i - 1
    BY RankLemma
  <2> QED
    BY <2>1, <2>2, <2>3
<1> DEFINE Ranked(i) == CHOOSE o \in DOMAIN rows :
                           Cardinality({q \in DOMAIN rows : q < o}) = i - 1
<1>3. InOrder(rows) = [i \in 1..n |-> rows[Ranked(i)]]
  BY <1>1, Zenon DEF InOrder
<1>4. \A i \in 1..n : Ranked(i) = i - 1
  BY <1>2, Zenon
<1> HIDE DEF Ranked
<1> QED
  BY <1>3, <1>4
-----------------------------------------------------------------------------
(* States *)

\* A ledger state is not the absent one.
LEMMA StateIsSome ==
    ASSUME NEW s, IsState(s)
    PROVE  s # None
BY DEF IsState, None

\* The fields of a ledger state have their types.
LEMMA StateFields ==
    ASSUME NEW s, IsState(s)
    PROVE  /\ s.revision \in Nat
           /\ s.next_segment_number \in Nat
           /\ s.open \in OpenInterval
           /\ s.open.opened_at_ms \in Nat
           /\ s.open.records \in Seq(Records)
           /\ Len(s.open.records) \in Nat
           /\ s.next_policy \in ClosurePolicy
           /\ s.open.policy \in ClosurePolicy
BY DEF IsState, OpenInterval

\* A constructed segment is not the absent one.
LEMMA ArtifactIsSome ==
    ASSUME NEW s, NEW reason
    PROVE  SegmentRecord(s, reason) # None
BY DEF SegmentRecord, None

\* Rotating the interval gives a state with the same place in the chain and
\* an empty interval.
LEMMA RotatedType ==
    ASSUME NEW s, IsState(s), NEW t \in Nat
    PROVE  /\ IsState(Rotated(s, t))
           /\ Rotated(s, t).next_segment_number = s.next_segment_number
           /\ Rotated(s, t).predecessor_cbor = s.predecessor_cbor
           /\ Rotated(s, t).revision = s.revision
           /\ Rotated(s, t).open.records = <<>>
           /\ Rotated(s, t).open.opened_at_ms = t
<1> DEFINE o1 == [s.open EXCEPT !.records = <<>>]
           o2 == [o1 EXCEPT !.byte_count = 0]
           o3 == [o2 EXCEPT !.policy = s.next_policy]
           o4 == [o3 EXCEPT !.opened_at_ms = t]
<1>a. s.open \in OpenInterval /\ <<>> \in Seq(Records)
  BY DEF IsState
<1>1. o1 \in OpenInterval /\ o1.records = <<>>
  BY <1>a, Zenon DEF OpenInterval
<1>2. Rotated(s, t) = [s EXCEPT !.open = o4]
  BY DEF Rotated
<1> HIDE DEF o1
<1>3. o2 \in OpenInterval /\ o2.records = <<>>
  BY <1>1 DEF OpenInterval
<1> HIDE DEF o2
<1>4. o3 \in OpenInterval /\ o3.records = <<>>
  BY <1>3, SMTT(30) DEF IsState, OpenInterval
<1> HIDE DEF o3
<1>5. o4 \in OpenInterval /\ o4.records = <<>> /\ o4.opened_at_ms = t
  BY <1>4 DEF OpenInterval
<1> HIDE DEF o4
<1> QED
  BY <1>2, <1>5 DEF IsState

\* A constructed segment is an artifact at the position after the predecessor.
LEMMA SegmentRecordType ==
    ASSUME NEW s, IsState(s), NEW reason \in CloseReason
    PROVE  /\ IsOptionalArtifact(SegmentRecord(s, reason))
           /\ SegmentRecord(s, reason).segment_number =
                 PositionAfter(s.predecessor_cbor).segment_number
           /\ SegmentRecord(s, reason).prev_segment_sha256 =
                 PositionAfter(s.predecessor_cbor).prev_segment_sha256
<1>1. PositionAfter(s.predecessor_cbor).segment_number \in Nat
  BY DEF IsState, IsOptionalArtifact, PositionAfter
<1> QED
  BY <1>1 DEF IsState, SegmentRecord, IsOptionalArtifact, OpenInterval

\* seal_open returns a state: the serial advances by the segments it sealed and
\* the predecessor is the last of them.
LEMMA SealOpenType ==
    ASSUME NEW s, IsState(s), NEW t \in Nat, NEW reason \in CloseReason
    PROVE  /\ IsState(SealOpen(s, t, reason))
           /\ SealOpen(s, t, reason).revision = s.revision
           /\ SealOpen(s, t, reason).open.records = <<>>
           /\ SealOpen(s, t, reason).next_segment_number =
                 s.next_segment_number + Len(SealedBy(s, reason))
           /\ SealOpen(s, t, reason).predecessor_cbor =
                 IF Suppressed(s, reason) THEN s.predecessor_cbor
                 ELSE SegmentRecord(s, reason)
<1> DEFINE r == Rotated(s, t)
<1>1. IsState(r) /\ r.next_segment_number = s.next_segment_number
      /\ r.predecessor_cbor = s.predecessor_cbor /\ r.revision = s.revision
      /\ r.open.records = <<>>
  BY RotatedType
<1>2. CASE Suppressed(s, reason)
  BY <1>1, <1>2 DEF SealOpen, SealedBy, IsState
<1>3. CASE ~Suppressed(s, reason)
  <2> DEFINE a == SegmentRecord(s, reason)
  <2>1. IsOptionalArtifact(a)
    BY SegmentRecordType
  <2>2. SealOpen(s, t, reason) = [r EXCEPT !.predecessor_cbor = a, !.next_segment_number = @ + 1]
    BY <1>3 DEF SealOpen
  <2>3. Len(SealedBy(s, reason)) = 1
    BY <1>3 DEF SealedBy
  <2> HIDE DEF a, r
  <2> DEFINE r1 == [r EXCEPT !.predecessor_cbor = a]
  <2>5. IsState(r1) /\ r1.next_segment_number = r.next_segment_number
        /\ r1.revision = r.revision /\ r1.open = r.open /\ r1.predecessor_cbor = a
    BY <1>1, <2>1 DEF IsState
  <2> DEFINE r2 == [r1 EXCEPT !.next_segment_number = r.next_segment_number + 1]
  <2> HIDE DEF r1
  <2>6. IsState(r2) /\ r2.next_segment_number = r.next_segment_number + 1
        /\ r2.revision = r.revision /\ r2.open = r.open /\ r2.predecessor_cbor = a
    BY <1>1, <2>5 DEF IsState
  <2> QED
    BY <1>1, <1>3, <2>2, <2>3, <2>6 DEF a, r1
<1> QED
  BY <1>2, <1>3

\* Pushing a record returns a state at the same place in the chain.
LEMMA PushedType ==
    ASSUME NEW s, IsState(s), NEW r \in Records
    PROVE  /\ IsState(Pushed(s, r))
           /\ Pushed(s, r).revision = s.revision
           /\ Pushed(s, r).next_segment_number = s.next_segment_number
           /\ Pushed(s, r).predecessor_cbor = s.predecessor_cbor
           /\ Pushed(s, r).open.records = Append(s.open.records, r)
<1> DEFINE o1 == [s.open EXCEPT !.records = Append(s.open.records, r)]
           o2 == [o1 EXCEPT !.byte_count = s.open.byte_count + Size[r]]
           s1 == [s EXCEPT !.open = o1]
           s2 == [s1 EXCEPT !.open = o2]
<1>1. s.open \in OpenInterval /\ Append(s.open.records, r) \in Seq(Records)
      /\ s.open.byte_count + Size[r] \in Nat
  BY RecordAssumption DEF IsState, OpenInterval
<1>2. o1 \in OpenInterval /\ o1.records = Append(s.open.records, r)
      /\ o1.byte_count = s.open.byte_count
  BY <1>1, Zenon DEF OpenInterval
<1>3. Pushed(s, r) = s2
  BY <1>1, <1>2 DEF Pushed, IsState
<1> HIDE DEF o1
<1>4. o2 \in OpenInterval /\ o2.records = Append(s.open.records, r)
  BY <1>1, <1>2, Zenon DEF OpenInterval
<1> HIDE DEF o2
<1>5. IsState(s1) /\ s1.revision = s.revision
      /\ s1.next_segment_number = s.next_segment_number
      /\ s1.predecessor_cbor = s.predecessor_cbor
  BY <1>2 DEF IsState
<1> HIDE DEF s1
<1> QED
  BY <1>3, <1>4, <1>5 DEF IsState

\* A function on 1..n is a sequence of length n.
LEMMA FunctionIsSequence ==
    ASSUME NEW R, NEW n \in Nat, NEW f \in [1..n -> R]
    PROVE  f \in Seq(R) /\ Len(f) = n
OBVIOUS

\* Length and domain of a sequence of any elements.
LEMMA EmptySequence ==
    ASSUME NEW q, IsSequence(q)
    PROVE  /\ Len(q) \in Nat
           /\ DOMAIN q = 1..Len(q)
           /\ q = <<>> <=> Len(q) = 0
<1> DEFINE S == {q[i] : i \in DOMAIN q}
<1>1. q \in Seq(S)
  BY DEF IsSequence
<1> HIDE DEF S
<1> QED
  BY <1>1, LenProperties, EmptySeq

\* What appending one element to a sequence of any elements gives.
LEMMA SequenceAndOne ==
    ASSUME NEW q, IsSequence(q), NEW x
    PROVE  /\ IsSequence(q \o <<x>>)
           /\ Len(q \o <<x>>) = Len(q) + 1
           /\ DOMAIN (q \o <<x>>) = 1..(Len(q) + 1)
           /\ q \o <<x>> # <<>>
           /\ \A i \in 1..Len(q) : (q \o <<x>>)[i] = q[i]
           /\ (q \o <<x>>)[Len(q) + 1] = x
<1> DEFINE r == q \o <<x>>
<1> DEFINE S == {q[i] : i \in DOMAIN q} \cup {x}
<1>1. q \in Seq(S) /\ <<x>> \in Seq(S)
  BY DEF IsSequence
<1> HIDE DEF S
<1>2. /\ r \in Seq(S)
      /\ Len(r) = Len(q) + 1
      /\ \A i \in 1..Len(q) : r[i] = q[i]
      /\ r[Len(q) + 1] = x
  BY <1>1
<1>3. DOMAIN r = 1..(Len(q) + 1)
  BY <1>2
<1> DEFINE R == {r[i] : i \in DOMAIN r}
<1>4. \A i \in 1..Len(r) : r[i] \in R
  BY <1>2, <1>3
<1>5. r \in [1..Len(r) -> S] /\ Len(r) \in Nat
  BY <1>2, LenProperties, Zenon
<1> HIDE DEF R
<1>6. r \in [1..Len(r) -> R]
  BY <1>4, <1>5, Zenon
<1>7. r \in Seq(R)
  BY <1>5, <1>6, FunctionIsSequence, Zenon
<1>8. r # <<>>
  <2>1. Len(r) # 0
    BY <1>1, <1>2, LenProperties
  <2> QED
    BY <2>1
<1> QED
  BY <1>2, <1>3, <1>7, <1>8, Zenon DEF R, IsSequence

\* A transition that has sealed nothing has a well-typed list of segments.
LEMMA NothingSealed == AreSealed(<<>>)
BY DEF AreSealed, IsSequence

\* Adding the segment of one closure keeps the list of sealed segments typed.
LEMMA SealedConcat ==
    ASSUME NEW q, AreSealed(q), NEW s, IsState(s), NEW reason \in CloseReason
    PROVE  AreSealed(q \o SealedBy(s, reason))
<1>1. CASE Suppressed(s, reason)
  <2>1. q \o <<>> = q
    BY ConcatEmptySeq DEF AreSealed, IsSequence
  <2> QED
    BY <1>1, <2>1 DEF SealedBy
<1>2. CASE ~Suppressed(s, reason)
  <2> DEFINE x == [artifact |-> SegmentRecord(s, reason), records |-> s.open.records]
             r == q \o <<x>>
  <2>1. SealedBy(s, reason) = <<x>>
    BY <1>2 DEF SealedBy
  <2>2. /\ x \in [artifact : {x.artifact}, records : Seq(Records)]
        /\ x.artifact # None
        /\ IsOptionalArtifact(x.artifact)
    BY SegmentRecordType, ArtifactIsSome, StateFields
  <2>3. IsSequence(q) /\ Len(q) \in Nat /\ DOMAIN q = 1..Len(q)
    BY EmptySequence DEF AreSealed
  <2>a. r = q \o <<x>>
    OBVIOUS
  <2> HIDE DEF x, r
  <2>4. /\ IsSequence(r)
        /\ DOMAIN r = 1..(Len(q) + 1)
        /\ \A i \in 1..Len(q) : r[i] = q[i]
        /\ r[Len(q) + 1] = x
    BY <2>3, SequenceAndOne DEF r
  <2>5. ASSUME NEW i \in DOMAIN r
        PROVE  /\ r[i] \in [artifact : {r[i].artifact}, records : Seq(Records)]
               /\ r[i].artifact # None
               /\ IsOptionalArtifact(r[i].artifact)
    <3>1. CASE i \in 1..Len(q)
      <4>1. r[i] = q[i] /\ i \in DOMAIN q
        BY <3>1, <2>3, <2>4
      <4> QED
        BY <4>1, Zenon DEF AreSealed
    <3>2. CASE i = Len(q) + 1
      <4>1. r[i] = x
        BY <3>2, <2>4
      <4> QED
        BY <4>1, <2>2, Zenon
    <3> QED
      BY <2>3, <2>4, <3>1, <3>2
  <2>6. AreSealed(r)
    BY <2>4, <2>5, Zenon DEF AreSealed
  <2> QED
    BY <2>1, <2>6, <2>a, Zenon
<1> QED
  BY <1>1, <1>2

\* The zero or one segments of a closure are well-typed.
LEMMA SealedByType ==
    ASSUME NEW s, IsState(s), NEW reason \in CloseReason
    PROVE  AreSealed(SealedBy(s, reason))
<1>1. AreSealed(<<>> \o SealedBy(s, reason))
  BY NothingSealed, SealedConcat, Zenon
<1>2. <<>> \o SealedBy(s, reason) = SealedBy(s, reason)
  <2> DEFINE x == [artifact |-> SegmentRecord(s, reason), records |-> s.open.records]
  <2>a. SealedBy(s, reason) = <<>> \/ SealedBy(s, reason) = <<x>>
    BY Zenon DEF SealedBy
  <2> HIDE DEF x
  <2>b. <<>> \in Seq({x}) /\ <<x>> \in Seq({x})
    OBVIOUS
  <2>1. SealedBy(s, reason) \in Seq({x})
    BY <2>a, <2>b, Zenon
  <2> QED
    BY <2>1, ConcatEmptySeq
<1> QED
  BY <1>1, <1>2, Zenon
-----------------------------------------------------------------------------
(* Building a transition *)

\* Before any record is pushed, the open records are the ones open before.
LEMMA PlacedStart ==
    ASSUME NEW records \in Seq(Records), NEW admitted, NEW first \in Nat
    PROVE  Placed(records, records, <<>>, admitted, first, first)
<1>1. Len(records) \in Nat
  OBVIOUS
<1> QED
  BY <1>1 DEF Placed, Fresh

\* A transition starts well built: a copy of the state, nothing sealed yet.
LEMMA BuiltStart ==
    ASSUME NEW s, IsState(s), NEW w,
           w.next.next_segment_number = s.next_segment_number,
           w.next.predecessor_cbor = s.predecessor_cbor,
           w.next.open.records = s.open.records,
           w.sealed = <<>>, w.numbers = <<>>,
           w.todo = IF w.request = None THEN <<>> ELSE w.request.records,
           w.request # None => w.request.records \in Seq(Records)
    PROVE  Built(s, w)
<1>1. /\ s.next_segment_number \in Nat
      /\ s.open.records \in Seq(Records)
      /\ Len(s.open.records) \in Nat
  BY DEF IsState, OpenInterval
<1>2. BuiltChain(s, w)
  BY <1>1 DEF BuiltChain, Chained
<1>3. Base(s, w.sealed) = s.open.records
  BY DEF Base
<1>4. BuiltRecords(s, w)
  <2>1. Placed(s.open.records, s.open.records, <<>>, w.request.records,
               s.next_segment_number, s.next_segment_number)
    BY <1>1, PlacedStart, Zenon
  <2> QED
    BY <1>3, <2>1, Zenon DEF BuiltRecords
<1>5. BuiltRequest(w)
  BY DEF BuiltRequest
<1> QED
  BY <1>2, <1>4, <1>5 DEF Built

\* One more segment with the next number and digest extends a chain.
LEMMA ChainExtended ==
    ASSUME NEW first \in Nat, NEW digest, NEW n \in Nat, NEW q, NEW r,
           Chained(q, n, first, digest),
           \A i \in 1..n : r[i] = q[i],
           r[n + 1].artifact.segment_number = first + n,
           r[n + 1].artifact.prev_segment_sha256 = Link(q, n + 1, digest)
    PROVE  Chained(r, n + 1, first, digest)
<1>1. ASSUME NEW i \in 1..(n + 1)
      PROVE  Link(r, i, digest) = Link(q, i, digest)
  BY DEF Link
<1>2. ASSUME NEW i \in 1..(n + 1)
      PROVE  /\ r[i].artifact.segment_number = first + i - 1
             /\ r[i].artifact.prev_segment_sha256 = Link(q, i, digest)
  <2>1. CASE i \in 1..n
    BY <2>1 DEF Chained
  <2>2. CASE i = n + 1
    BY <2>2
  <2> QED
    BY <2>1, <2>2
<1> QED
  BY <1>1, <1>2 DEF Chained

\* After a closure no open record is left, and every pushed one is in an earlier
\* segment.
LEMMA PlacedSeal ==
    ASSUME NEW base \in Seq(Records), NEW records \in Seq(Records),
           NEW numbers \in Seq(Nat), NEW admitted,
           NEW first \in Nat, NEW next \in Nat, first <= next,
           Placed(base, records, numbers, admitted, first, next)
    PROVE  Placed(<<>>, <<>>, numbers, admitted, first, next + 1)
<1>1. Len(numbers) \in Nat /\ Len(base) \in Nat /\ Len(records) \in Nat
  OBVIOUS
<1>2. \A i \in 1..Len(numbers) : numbers[i] \in first..next
  BY <1>1 DEF Placed, Fresh
<1> QED
  BY <1>1, <1>2 DEF Placed, Fresh

\* A pushed record joins the open ones under the next segment number.
LEMMA PlacedPush ==
    ASSUME NEW base \in Seq(Records), NEW records \in Seq(Records),
           NEW numbers \in Seq(Nat), NEW admitted,
           NEW first \in Nat, NEW next \in Nat, first <= next,
           Placed(base, records, numbers, admitted, first, next),
           NEW r \in Records, admitted[Len(numbers) + 1] = r
    PROVE  Placed(base, Append(records, r), Append(numbers, next), admitted, first, next)
<1> DEFINE more == Append(records, r)
           longer == Append(numbers, next)
           fresh == Len(records) - Len(base)
<1>1. Len(numbers) \in Nat /\ Len(base) \in Nat /\ Len(records) \in Nat
  OBVIOUS
<1>2. /\ Len(more) = Len(records) + 1
      /\ \A i \in 1..Len(records) : more[i] = records[i]
      /\ more[Len(records) + 1] = r
  OBVIOUS
<1>3. /\ Len(longer) = Len(numbers) + 1
      /\ \A i \in 1..Len(numbers) : longer[i] = numbers[i]
      /\ longer[Len(numbers) + 1] = next
  OBVIOUS
<1>4. /\ fresh \in 0..Len(numbers)
      /\ \A i \in 1..Len(numbers) :
            IF i > Len(numbers) - fresh
            THEN numbers[i] = next
            ELSE numbers[i] \in first..(next - 1)
      /\ \A i \in 1..Len(base) : records[i] = base[i]
      /\ \A i \in 1..fresh : records[Len(base) + i] = admitted[Len(numbers) - fresh + i]
  BY DEF Placed, Fresh
<1> HIDE DEF more, longer
<1>5. Len(more) - Len(base) = fresh + 1 /\ Len(longer) - (fresh + 1) = Len(numbers) - fresh
  BY <1>1, <1>2, <1>3
<1>6. ASSUME NEW i \in 1..Len(longer)
      PROVE  IF i > Len(longer) - (fresh + 1)
             THEN longer[i] = next
             ELSE longer[i] \in first..(next - 1)
  <2>1. CASE i \in 1..Len(numbers)
    BY <2>1, <1>1, <1>3, <1>4, <1>5, Zenon
  <2>2. CASE i = Len(numbers) + 1
    BY <2>2, <1>1, <1>3, <1>4, <1>5
  <2> QED
    BY <2>1, <2>2, <1>1, <1>3, SMTT(30)
<1>7. ASSUME NEW i \in 1..Len(base) PROVE more[i] = base[i]
  <2>1. fresh >= 0
    BY <1>1, <1>4
  <2>2. i \in 1..Len(records)
    BY <1>1, <2>1
  <2> QED
    BY <1>2, <1>4, <2>2, Zenon
<1>8. ASSUME NEW i \in 1..(fresh + 1)
      PROVE  more[Len(base) + i] = admitted[Len(longer) - (fresh + 1) + i]
  <2>1. CASE i \in 1..fresh
    <3>1. Len(base) + i \in 1..Len(records)
      BY <2>1, <1>1, <1>4
    <3>2. more[Len(base) + i] = records[Len(base) + i]
      BY <3>1, <1>2
    <3>3. records[Len(base) + i] = admitted[Len(numbers) - fresh + i]
      BY <2>1, <1>4, Zenon
    <3> QED
      BY <3>2, <3>3, <1>5, Zenon
  <2>2. CASE i = fresh + 1
    <3>1. Len(base) + i = Len(records) + 1
      BY <2>2, <1>1, <1>4
    <3>2. Len(longer) - (fresh + 1) + i = Len(numbers) + 1
      BY <2>2, <1>1, <1>3, <1>4
    <3> QED
      BY <3>1, <3>2, <1>2
  <2>3. fresh \in Nat
    BY <1>1, <1>4
  <2>4. i \in 1..fresh \/ i = fresh + 1
    <3> HIDE DEF fresh
    <3> QED
      BY <2>3
  <2> QED
    BY <2>1, <2>2, <2>4
<1>9. fresh + 1 \in 0..Len(longer)
  BY <1>1, <1>3, <1>4
<1> HIDE DEF fresh
<1>10. Placed(base, more, longer, admitted, first, next)
  BY <1>5, <1>6, <1>7, <1>8, <1>9, Zenon DEF Placed, Fresh
<1> QED
  BY <1>10 DEF more, longer

\* seal_open, in either loop, keeps a transition well built.
LEMMA BuiltSeal ==
    ASSUME NEW s, IsState(s),
           NEW w, IsState(w.next), AreSealed(w.sealed),
           w.numbers \in Seq(Nat), Built(s, w),
           NEW t \in Nat, NEW reason \in CloseReason, ~CannotSeal(w.next, reason),
           NEW v, v.sealed = w.sealed \o SealedBy(w.next, reason),
           v.next.next_segment_number = SealOpen(w.next, t, reason).next_segment_number,
           v.next.predecessor_cbor = SealOpen(w.next, t, reason).predecessor_cbor,
           v.next.open.records = <<>>,
           v.numbers = w.numbers, v.todo = w.todo, v.request = w.request
    PROVE  Built(s, v)
<1>1. /\ s.next_segment_number \in Nat
      /\ w.next.next_segment_number \in Nat
      /\ s.open.records \in Seq(Records)
      /\ w.next.open.records \in Seq(Records)
      /\ Len(s.open.records) \in Nat
      /\ Len(w.next.open.records) \in Nat
  BY StateFields
<1>a. /\ Len(w.sealed) \in Nat
      /\ DOMAIN w.sealed = 1..Len(w.sealed)
      /\ w.sealed = <<>> <=> Len(w.sealed) = 0
  BY EmptySequence DEF AreSealed
<1>c. /\ w.next.next_segment_number = s.next_segment_number + Len(w.sealed)
      /\ Chained(w.sealed, Len(w.sealed), s.next_segment_number,
                 PositionAfter(s.predecessor_cbor).prev_segment_sha256)
      /\ w.next.predecessor_cbor =
            IF w.sealed = <<>> THEN s.predecessor_cbor
            ELSE w.sealed[Len(w.sealed)].artifact
  BY Zenon DEF Built, BuiltChain
<1>b. /\ SealOpen(w.next, t, reason).next_segment_number =
            w.next.next_segment_number + Len(SealedBy(w.next, reason))
      /\ SealOpen(w.next, t, reason).predecessor_cbor =
            IF Suppressed(w.next, reason) THEN w.next.predecessor_cbor
            ELSE SegmentRecord(w.next, reason)
  BY SealOpenType, SMTT(30)
<1>2. BuiltRequest(v)
  BY Zenon DEF Built, BuiltRequest
<1>3. CASE Suppressed(w.next, reason)
  <2>1. v.sealed = w.sealed
    BY <1>3, ConcatEmptySeq DEF SealedBy, IsSequence
  <2>2. /\ v.next.next_segment_number = w.next.next_segment_number
        /\ v.next.predecessor_cbor = w.next.predecessor_cbor
    BY <1>3, <1>1, <1>b DEF SealedBy
  <2>3. w.next.open.records = <<>>
    BY <1>3 DEF Suppressed
  <2>4. BuiltChain(s, v)
    BY <2>1, <2>2, Zenon DEF Built, BuiltChain
  <2>5. BuiltRecords(s, v)
    BY <2>1, <2>2, <2>3, Zenon DEF Built, BuiltRecords
  <2> QED
    BY <1>2, <2>4, <2>5 DEF Built
<1>4. CASE ~Suppressed(w.next, reason)
  <2> DEFINE a == SegmentRecord(w.next, reason)
             x == [artifact |-> a, records |-> w.next.open.records]
  <2>0. SealedBy(w.next, reason) = <<x>>
    BY <1>4 DEF SealedBy
  <2>1. v.sealed = w.sealed \o <<x>> /\ Len(SealedBy(w.next, reason)) = 1
    BY <2>0
  <2>2. /\ v.next.next_segment_number = w.next.next_segment_number + 1
        /\ v.next.predecessor_cbor = a
    BY <1>4, <1>b, <2>1
  <2>3. /\ a.segment_number = w.next.next_segment_number
        /\ a.prev_segment_sha256 = PositionAfter(w.next.predecessor_cbor).prev_segment_sha256
    BY <1>4, SegmentRecordType DEF CannotSeal
  <2>4. x.artifact = a
    OBVIOUS
  <2> HIDE DEF a, x
  <2>5. /\ Len(v.sealed) = Len(w.sealed) + 1
        /\ DOMAIN v.sealed = 1..(Len(w.sealed) + 1)
        /\ v.sealed # <<>>
        /\ \A i \in 1..Len(w.sealed) : v.sealed[i] = w.sealed[i]
        /\ v.sealed[Len(w.sealed) + 1] = x
    BY <2>1, SequenceAndOne DEF AreSealed
  <2> DEFINE digest == PositionAfter(s.predecessor_cbor).prev_segment_sha256
  <2>7. a.prev_segment_sha256 = Link(w.sealed, Len(w.sealed) + 1, digest)
    <3>1. CASE Len(w.sealed) > 0
      <4>1. w.next.predecessor_cbor = w.sealed[Len(w.sealed)].artifact
        BY <3>1, <1>a, <1>c
      <4>2. w.sealed[Len(w.sealed)].artifact # None
        <5>1. Len(w.sealed) \in DOMAIN w.sealed
          BY <3>1, <1>a
        <5> QED
          BY <5>1, Zenon DEF AreSealed
      <4> QED
        BY <1>a, <2>3, <3>1, <4>1, <4>2 DEF PositionAfter, Link
    <3>2. CASE Len(w.sealed) = 0
      BY <2>3, <3>2, <1>a, <1>c DEF Link
    <3> QED
      BY <1>a, <1>c, <3>1, <3>2
  <2>8. BuiltChain(s, v)
    <3>1. v.next.next_segment_number = s.next_segment_number + Len(v.sealed)
      BY <1>1, <1>a, <1>c, <2>2, <2>5
    <3>2. /\ v.sealed[Len(w.sealed) + 1].artifact.segment_number =
                s.next_segment_number + Len(w.sealed)
          /\ v.sealed[Len(w.sealed) + 1].artifact.prev_segment_sha256 =
                Link(w.sealed, Len(w.sealed) + 1, digest)
      BY <1>c, <2>3, <2>4, <2>5, <2>7
    <3>3. Chained(v.sealed, Len(w.sealed) + 1, s.next_segment_number, digest)
      <4>1. s.next_segment_number \in Nat /\ Len(w.sealed) \in Nat
        BY <1>1, <1>a
      <4>2. Chained(w.sealed, Len(w.sealed), s.next_segment_number, digest)
        BY <1>c
      <4>3. \A i \in 1..Len(w.sealed) : v.sealed[i] = w.sealed[i]
        BY <2>5, Zenon
      <4> HIDE DEF digest
      <4> QED
        BY <3>2, <4>1, <4>2, <4>3, ChainExtended, Zenon
    <3>4. v.next.predecessor_cbor = v.sealed[Len(v.sealed)].artifact
      BY <2>2, <2>4, <2>5
    <3> QED
      BY <2>5, <3>1, <3>3, <3>4, Zenon DEF BuiltChain
  <2>9. BuiltRecords(s, v)
    <3>1. Base(s, v.sealed) = <<>>
      BY <2>5 DEF Base
    <3>2. Base(s, w.sealed) \in Seq(Records)
      BY <1>1 DEF Base
    <3>3. s.next_segment_number <= w.next.next_segment_number
      BY <1>1, <1>a, <1>c
    <3>4. Placed(Base(s, w.sealed), w.next.open.records, w.numbers, w.request.records,
                 s.next_segment_number, w.next.next_segment_number)
      BY Zenon DEF Built, BuiltRecords
    <3>5. Placed(<<>>, <<>>, w.numbers, w.request.records,
                 s.next_segment_number, w.next.next_segment_number + 1)
      BY <1>1, <3>2, <3>3, <3>4, PlacedSeal, Zenon
    <3> QED
      BY <2>2, <3>1, <3>5, Zenon DEF BuiltRecords
  <2> QED
    BY <1>2, <2>8, <2>9 DEF Built
<1> QED
  BY <1>3, <1>4

\* Pushing a record of the request keeps a transition well built.
LEMMA BuiltPush ==
    ASSUME NEW s, IsState(s),
           NEW w, IsState(w.next), AreSealed(w.sealed),
           w.numbers \in Seq(Nat), w.todo \in Seq(Records), w.todo # <<>>,
           Built(s, w),
           NEW v, v.sealed = w.sealed,
           v.next.next_segment_number = w.next.next_segment_number,
           v.next.predecessor_cbor = w.next.predecessor_cbor,
           v.next.open.records = Append(w.next.open.records, Head(w.todo)),
           v.numbers = Append(w.numbers, w.next.next_segment_number),
           v.todo = Tail(w.todo), v.request = w.request
    PROVE  Built(s, v)
<1>1. /\ s.next_segment_number \in Nat
      /\ w.next.next_segment_number \in Nat
      /\ s.open.records \in Seq(Records)
      /\ w.next.open.records \in Seq(Records)
  BY StateFields
<1>2. Len(w.sealed) \in Nat
  BY EmptySequence DEF AreSealed
<1>3. /\ Len(w.numbers) \in Nat
      /\ Len(w.todo) \in Nat \ {0}
      /\ Head(w.todo) \in Records
      /\ Head(w.todo) = w.todo[1]
      /\ Tail(w.todo) \in Seq(Records)
      /\ Len(Tail(w.todo)) = Len(w.todo) - 1
      /\ \A i \in 1..Len(Tail(w.todo)) : Tail(w.todo)[i] = w.todo[i + 1]
      /\ Len(Append(w.numbers, w.next.next_segment_number)) = Len(w.numbers) + 1
  BY <1>1
<1>4. /\ w.request # None
      /\ Len(w.numbers) + Len(w.todo) = Len(w.request.records)
      /\ \A i \in 1..Len(w.todo) : w.todo[i] = w.request.records[Len(w.numbers) + i]
  <2>1. w.request # None
    BY Zenon DEF Built, BuiltRequest
  <2>2. DOMAIN w.todo = 1..Len(w.todo)
    OBVIOUS
  <2> QED
    BY <2>1, <2>2, Zenon DEF Built, BuiltRequest
<1>5. BuiltChain(s, v)
  BY Zenon DEF Built, BuiltChain
<1>6. BuiltRecords(s, v)
  <2>1. Base(s, w.sealed) \in Seq(Records)
    BY <1>1 DEF Base
  <2>2. s.next_segment_number <= w.next.next_segment_number
    <3>1. w.next.next_segment_number = s.next_segment_number + Len(w.sealed)
      BY Zenon DEF Built, BuiltChain
    <3> QED
      BY <3>1, <1>1, <1>2
  <2>3. Placed(Base(s, w.sealed), w.next.open.records, w.numbers, w.request.records,
               s.next_segment_number, w.next.next_segment_number)
    BY Zenon DEF Built, BuiltRecords
  <2>4. w.request.records[Len(w.numbers) + 1] = Head(w.todo)
    BY <1>3, <1>4
  <2>5. Placed(Base(s, w.sealed), Append(w.next.open.records, Head(w.todo)),
               Append(w.numbers, w.next.next_segment_number), w.request.records,
               s.next_segment_number, w.next.next_segment_number)
    BY <1>1, <1>3, <2>1, <2>2, <2>3, <2>4, PlacedPush, Zenon
  <2> QED
    BY <2>5, Zenon DEF BuiltRecords
<1>7. BuiltRequest(v)
  <2>a. Len(v.numbers) = Len(w.numbers) + 1 /\ Len(v.todo) = Len(w.todo) - 1
    BY <1>3, Zenon
  <2>b. Len(w.numbers) \in Nat /\ Len(w.todo) \in Nat
    BY <1>3
  <2>1. Len(v.numbers) + Len(v.todo) = Len(v.request.records)
    <3>a. \A m, n \in Nat : (m + 1) + (n - 1) = m + n
      OBVIOUS
    <3>1. Len(v.numbers) + Len(v.todo) = Len(w.numbers) + Len(w.todo)
      BY <2>a, <2>b, <3>a, Zenon
    <3> QED
      BY <3>1, <1>4, Zenon
  <2>2. ASSUME NEW i \in 1..Len(v.todo)
        PROVE  v.todo[i] = v.request.records[Len(v.numbers) + i]
    <3>1. v.todo[i] = w.todo[i + 1]
      BY <1>3, Zenon
    <3>a. \A m, n \in Nat : \A k \in 1..(n - 1) :
             m + (k + 1) = (m + 1) + k /\ k + 1 \in 1..n
      OBVIOUS
    <3>2. Len(w.numbers) + (i + 1) = Len(v.numbers) + i /\ i + 1 \in 1..Len(w.todo)
      BY <2>a, <2>b, <3>a, Zenon
    <3> QED
      BY <1>4, <3>1, <3>2
  <2>3. DOMAIN v.todo = 1..Len(v.todo)
    BY <1>3
  <2> QED
    BY <1>4, <2>1, <2>2, <2>3, Zenon DEF BuiltRequest
<1> QED
  BY <1>5, <1>6, <1>7 DEF Built
-----------------------------------------------------------------------------
(* Where record_deltas puts the admitted records *)

\* Finiteness and size of an integer interval.
LEMMA IntervalSize ==
    ASSUME NEW lo \in Int, NEW hi \in Int, lo <= hi + 1
    PROVE  IsFiniteSet(lo..hi) /\ Cardinality(lo..hi) = hi - lo + 1
<1>1. Cardinality(lo..hi) = IF lo > hi THEN 0 ELSE hi - lo + 1
  BY FS_Interval
<1>2. IsFiniteSet(lo..hi)
  BY FS_Interval
<1> QED
  BY <1>1, <1>2

\* A chain of segments takes consecutive numbers.
LEMMA NumbersOfChain ==
    ASSUME NEW q, IsSequence(q), NEW first \in Nat, NEW digest,
           Chained(q, Len(q), first, digest)
    PROVE  NumbersOf(q) = first..(first + Len(q) - 1)
<1>1. Len(q) \in Nat /\ DOMAIN q = 1..Len(q)
  BY EmptySequence
<1>2. \A i \in 1..Len(q) : q[i].artifact.segment_number = first + i - 1
  BY DEF Chained
<1>3. ASSUME NEW n \in first..(first + Len(q) - 1)
      PROVE  n \in NumbersOf(q)
  <2>1. n - first + 1 \in 1..Len(q) /\ first + (n - first + 1) - 1 = n
    BY <1>1
  <2> QED
    BY <1>1, <1>2, <2>1, Zenon DEF NumbersOf
<1>4. ASSUME NEW n \in NumbersOf(q)
      PROVE  n \in first..(first + Len(q) - 1)
  <2>1. PICK i \in 1..Len(q) : n = q[i].artifact.segment_number
    BY <1>1 DEF NumbersOf
  <2> QED
    BY <1>1, <1>2, <2>1
<1> QED
  BY <1>3, <1>4, Zenon

\* The records promised the next number are counted by record_deltas as the
\* fresh ones.
LEMMA FreshCount ==
    ASSUME NEW numbers \in Seq(Nat), NEW next \in Nat, NEW fresh \in 0..Len(numbers),
           \A i \in 1..Len(numbers) : numbers[i] = next <=> i > Len(numbers) - fresh
    PROVE  Cardinality({i \in DOMAIN numbers : numbers[i] = next}) = fresh
<1> DEFINE n == Len(numbers)
<1>1. n \in Nat /\ DOMAIN numbers = 1..n /\ fresh \in Nat
  OBVIOUS
<1>2. {i \in DOMAIN numbers : numbers[i] = next} = (n - fresh + 1)..n
  BY <1>1
<1>3. Cardinality((n - fresh + 1)..n) = n - (n - fresh + 1) + 1
  BY <1>1, IntervalSize
<1>4. n - (n - fresh + 1) + 1 = fresh
  BY <1>1
<1> QED
  BY <1>2, <1>3, <1>4, Zenon

\* The last fresh numbers are serial and the others are below it.
AreNumbered(numbers, n, fresh, first, serial) ==
    \A j \in 1..n : IF j > n - fresh THEN numbers[j] = serial
                    ELSE numbers[j] \in first..(serial - 1)

AreSplit(numbers, n, fresh, first, serial) ==
    \A j \in 1..n : /\ numbers[j] \in first..(serial - 1) <=> j <= n - fresh
                    /\ numbers[j] = serial <=> j > n - fresh

\* The promised numbers split the admitted records into sealed and open ones.
LEMMA SerialSplit ==
    ASSUME NEW n \in Nat, NEW fresh \in 0..n, NEW first \in Nat, NEW serial \in Nat,
           NEW numbers, AreNumbered(numbers, n, fresh, first, serial)
    PROVE  AreSplit(numbers, n, fresh, first, serial)
BY DEF AreNumbered, AreSplit

\* The arithmetic of an open record's ordinal.
LEMMA OrdinalSum ==
    ASSUME NEW n \in Nat, NEW fresh \in 0..n, NEW i \in 1..n, i > n - fresh,
           NEW open \in Nat
    PROVE  /\ (n - fresh + 1) <= (i - 1) + 1
           /\ (n - fresh + 1) \in Int
           /\ (i - 1) \in Int
           /\ open + ((i - 1) - (n - fresh + 1) + 1) = open + (i - 1 - (n - fresh))
OBVIOUS

\* The part of 1..hi above k.
LEMMA IntervalAbove ==
    ASSUME NEW k \in Nat, NEW hi \in Int
    PROVE  {j \in 1..hi : j > k} = (k + 1)..hi
OBVIOUS

\* The admitted records are placed, and the segments the transition sealed are
\* those from first on.
IsPlacement(next, sealed, records, numbers, first, base) ==
    /\ numbers \in Seq(Nat)
    /\ first \in Nat
    /\ next.next_segment_number \in Nat
    /\ Len(next.open.records) \in Nat
    /\ Len(base) \in Nat
    /\ NumbersOf(sealed) = first..(next.next_segment_number - 1)
    /\ Placed(base, next.open.records, numbers, records, first, next.next_segment_number)
    /\ DOMAIN records = 1..Len(numbers)

\* The row of admitted record i: sealed if it is one of the older ones, in the
\* open interval after b others if not.
IsDelta(delta, i, older, b, record) ==
    /\ delta.sealed <=> i <= older
    /\ delta.record = record
    /\ i > older => delta.ordinal = b + (i - 1 - older)

\* record_deltas: an admitted record still open goes to the row right after the
\* rows that stay and the open ones admitted before it.
LEMMA OpenDelta ==
    ASSUME NEW previous, NEW next, NEW sealed, NEW records, NEW numbers, NEW first,
           NEW base, IsPlacement(next, sealed, records, numbers, first, base),
           NEW i \in DOMAIN records
    PROVE  IsDelta(RecordDeltas(previous, next, sealed, records, numbers)[i], i,
                   Len(numbers) - Fresh(base, next.open.records), Len(base), records[i])
<1> SUFFICES ASSUME numbers \in Seq(Nat),
                    first \in Nat,
                    next.next_segment_number \in Nat,
                    Len(next.open.records) \in Nat, Len(base) \in Nat,
                    NumbersOf(sealed) = first..(next.next_segment_number - 1),
                    Placed(base, next.open.records, numbers, records, first,
                           next.next_segment_number),
                    DOMAIN records = 1..Len(numbers)
             PROVE  LET delta == RecordDeltas(previous, next, sealed, records, numbers)[i]
                        older == Len(numbers) - Fresh(base, next.open.records)
                    IN  /\ delta.sealed <=> i <= older
                        /\ delta.record = records[i]
                        /\ i > older => delta.ordinal = Len(base) + (i - 1 - older)
  BY Zenon DEF IsPlacement, IsDelta
<1> DEFINE n == Len(numbers)
           fresh == Fresh(base, next.open.records)
           serial == next.next_segment_number
           deltas == RecordDeltas(previous, next, sealed, records, numbers)
           Sealed(j) == numbers[j] \in NumbersOf(sealed)
           SameDestination(j, k) ==
              (Sealed(j) <=> Sealed(k)) /\ (Sealed(j) => numbers[j] = numbers[k])
           earlier == {j \in 1..(i - 1) : SameDestination(i, j)}
<1>1. /\ n \in Nat
      /\ fresh \in 0..n
      /\ i \in 1..n
      /\ serial \in Nat
  BY DEF Placed
<1>2. \A j \in 1..n : /\ Sealed(j) <=> j <= n - fresh
                      /\ numbers[j] = serial <=> j > n - fresh
  <2>1. AreNumbered(numbers, n, fresh, first, serial)
    BY Zenon DEF Placed, AreNumbered
  <2>2. AreSplit(numbers, n, fresh, first, serial)
    <3> HIDE DEF n, fresh, serial
    <3> QED
      BY <1>1, <2>1, SerialSplit
  <2> QED
    BY <2>2, Zenon DEF AreSplit
<1>3. /\ deltas[i].sealed = Sealed(i)
      /\ deltas[i].record = records[i]
      /\ deltas[i].ordinal = ExistingRows(previous, next, sealed, numbers, numbers[i])
                             + Cardinality(earlier)
  BY DEF RecordDeltas
<1>4. ASSUME i > n - fresh
      PROVE  deltas[i].ordinal = Len(base) + (i - 1 - (n - fresh))
  <2>1. ~Sealed(i)
    <3> HIDE DEF n, fresh, serial, Sealed
    <3> QED
      BY <1>1, <1>2, <1>4
  <2>2. Cardinality({j \in DOMAIN numbers : numbers[j] = serial}) = fresh
    <3>1. \A j \in 1..n : numbers[j] = serial <=> j > n - fresh
      BY <1>2
    <3> HIDE DEF fresh, serial
    <3> QED
      BY <1>1, <3>1, FreshCount, Zenon
  <2>3. ExistingRows(previous, next, sealed, numbers, numbers[i]) =
           Len(next.open.records) - fresh
    BY <2>1, <2>2, Zenon DEF ExistingRows
  <2>4. earlier = (n - fresh + 1)..(i - 1)
    <3>1. \A j \in 1..(i - 1) : SameDestination(i, j) <=> j > n - fresh
      <4> SUFFICES ASSUME NEW j \in 1..(i - 1)
                   PROVE  SameDestination(i, j) <=> j > n - fresh
        OBVIOUS
      <4>a. \A k \in Nat : i \in 1..k => j \in 1..k
        OBVIOUS
      <4>1. j \in 1..n
        BY <1>1, <4>a, Zenon
      <4>2. SameDestination(i, j) <=> ~Sealed(j)
        BY <2>1, Zenon
      <4>3. Sealed(j) <=> j <= n - fresh
        BY <1>2, <4>1, Zenon
      <4> HIDE DEF n, fresh, Sealed, SameDestination
      <4> QED
        BY <1>1, <4>1, <4>2, <4>3
    <3>2. earlier = {j \in 1..(i - 1) : j > n - fresh}
      BY <3>1, Zenon
    <3>3. n - fresh \in Nat /\ i - 1 \in Int
      BY <1>1
    <3>4. {j \in 1..(i - 1) : j > n - fresh} = (n - fresh + 1)..(i - 1)
      BY <3>3, IntervalAbove, Zenon
    <3> QED
      BY <3>2, <3>4, Zenon
  <2>5. Cardinality((n - fresh + 1)..(i - 1)) = (i - 1) - (n - fresh + 1) + 1
    <3> HIDE DEF n, fresh
    <3>1. /\ (n - fresh + 1) <= (i - 1) + 1
          /\ (n - fresh + 1) \in Int
          /\ (i - 1) \in Int
      BY <1>1, <1>4, OrdinalSum
    <3> QED
      BY <3>1, IntervalSize, Zenon
  <2>6. Cardinality(earlier) = (i - 1) - (n - fresh + 1) + 1
    BY <2>4, <2>5, Zenon
  <2>7. Len(next.open.records) - fresh = Len(base)
    BY DEF Fresh
  <2> HIDE DEF earlier, deltas, n, fresh
  <2>8. Len(base) + ((i - 1) - (n - fresh + 1) + 1) = Len(base) + (i - 1 - (n - fresh))
    BY <1>1, <1>4, OrdinalSum
  <2> QED
    BY <1>3, <2>3, <2>6, <2>7, <2>8, Zenon
<1> HIDE DEF n, fresh, deltas
<1>5. /\ deltas[i].sealed <=> i <= n - fresh
      /\ deltas[i].record = records[i]
      /\ i > n - fresh => deltas[i].ordinal = Len(base) + (i - 1 - (n - fresh))
  BY <1>1, <1>2, <1>3, <1>4, Zenon
<1> QED
  BY <1>5 DEF n, fresh, deltas

\* The arithmetic that recovers a record's index from its ordinal.
LEMMA OrdinalInverse ==
    ASSUME NEW b \in Nat, NEW m \in Nat, NEW older \in Nat,
           NEW k \in (older + 1)..(older + m)
    PROVE  /\ b + (k - 1 - older) \in b..(b + m - 1)
           /\ k = older + 1 + ((b + (k - 1 - older)) - b)
           /\ b + (k - older) = (b + (k - 1 - older)) + 1
OBVIOUS

\* The kept rows are the first b of records, and the m deltas at the positions
\* open, after the older ones, are the next m.
AreAdded(b, m, older, records, kept, deltas, open) ==
    /\ b \in Nat
    /\ m \in Nat
    /\ older \in Nat
    /\ DOMAIN kept = 0..(b - 1)
    /\ \A o \in 0..(b - 1) : kept[o] = records[o + 1]
    /\ open = (older + 1)..(older + m)
    /\ \A i \in open : deltas[i].ordinal = b + (i - 1 - older)
    /\ \A i \in open : deltas[i].record = records[b + (i - older)]

WithAdded(kept, deltas, open) ==
    LET added == {deltas[i].ordinal : i \in open}
    IN  [o \in DOMAIN kept \cup added |->
            IF o \in added
            THEN deltas[CHOOSE i \in open : deltas[i].ordinal = o].record
            ELSE kept[o]]

\* The rows that stay and the added ones are the open records in order.
LEMMA RowsAfter ==
    ASSUME NEW b, NEW m, NEW older, NEW records, NEW kept, NEW deltas, NEW open,
           AreAdded(b, m, older, records, kept, deltas, open)
    PROVE  WithAdded(kept, deltas, open) = [o \in 0..(b + m - 1) |-> records[o + 1]]
<1> SUFFICES ASSUME b \in Nat, m \in Nat, older \in Nat,
                    DOMAIN kept = 0..(b - 1),
                    \A o \in 0..(b - 1) : kept[o] = records[o + 1],
                    open = (older + 1)..(older + m),
                    \A i \in open : deltas[i].ordinal = b + (i - 1 - older),
                    \A i \in open : deltas[i].record = records[b + (i - older)]
             PROVE  LET added == {deltas[i].ordinal : i \in open}
                    IN  [o \in DOMAIN kept \cup added |->
                            IF o \in added
                            THEN deltas[CHOOSE i \in open : deltas[i].ordinal = o].record
                            ELSE kept[o]]
                        = [o \in 0..(b + m - 1) |-> records[o + 1]]
  BY Zenon DEF AreAdded, WithAdded
<1> DEFINE added == {deltas[i].ordinal : i \in open}
           Of(o) == CHOOSE i \in open : deltas[i].ordinal = o
<1>1. ASSUME NEW o \in added
      PROVE  o \in b..(b + m - 1) /\ Of(o) = older + 1 + (o - b)
             /\ deltas[Of(o)].record = records[o + 1]
  <2>1. PICK i \in open : deltas[i].ordinal = o
    BY Zenon
  <2>2. Of(o) \in open /\ deltas[Of(o)].ordinal = o
    BY <2>1, Zenon
  <2> HIDE DEF Of, added
  <2>3. PICK k \in (older + 1)..(older + m) : k = Of(o) /\ o = b + (k - 1 - older)
    BY <2>2, Zenon
  <2>4. o \in b..(b + m - 1) /\ k = older + 1 + (o - b) /\ b + (k - older) = o + 1
    <3>1. k \in (older + 1)..(older + m) /\ o = b + (k - 1 - older)
      BY <2>3, Zenon
    <3>2. /\ b + (k - 1 - older) \in b..(b + m - 1)
          /\ k = older + 1 + ((b + (k - 1 - older)) - b)
          /\ b + (k - older) = (b + (k - 1 - older)) + 1
      BY <3>1, OrdinalInverse, ZenonT(40)
    <3> QED
      BY <3>1, <3>2, Zenon
  <2>5. deltas[k].record = records[b + (k - older)]
    BY <2>2, <2>3, Zenon
  <2> QED
    BY <2>3, <2>4, <2>5
<1>2. ASSUME NEW o \in b..(b + m - 1)
      PROVE  o \in added
  <2>1. PICK i \in (older + 1)..(older + m) : b + (i - 1 - older) = o
    <3>1. older + 1 + (o - b) \in (older + 1)..(older + m)
      OBVIOUS
    <3>2. b + ((older + 1 + (o - b)) - 1 - older) = o
      OBVIOUS
    <3> QED
      BY <3>1, <3>2
  <2>2. i \in open /\ deltas[i].ordinal = o
    BY <2>1, Zenon
  <2> QED
    BY <2>2, SMTT(30)
<1>3. added = b..(b + m - 1)
  BY <1>1, <1>2, Zenon
<1> HIDE DEF added, Of
<1>4. DOMAIN kept \cup added = 0..(b + m - 1)
  BY <1>3
<1>5. ASSUME NEW o \in 0..(b + m - 1)
      PROVE  (IF o \in added THEN deltas[Of(o)].record ELSE kept[o]) = records[o + 1]
  BY <1>1, <1>3
<1>6. [o \in DOMAIN kept \cup added |->
          IF o \in added THEN deltas[Of(o)].record ELSE kept[o]]
      = [o \in 0..(b + m - 1) |-> records[o + 1]]
  BY <1>4, <1>5
<1> QED
  BY <1>6, Zenon DEF added, Of
=============================================================================
