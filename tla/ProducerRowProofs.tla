------------------------- MODULE ProducerRowProofs --------------------------
(***************************************************************************)
(* What a transaction of LedgerProducer leaves in each table: the rows of  *)
(* the open interval in order, the chain of segments, the queue, the state *)
(* row and the journal.                                                    *)
(***************************************************************************)
EXTENDS ProducerStepProofs

(* The committed transaction: what it starts from *)

\* The segments form a chain that ends before number next, at pred.
ChainUpTo(segments, next, pred) ==
    /\ DOMAIN segments = 0..(next - 1)
    /\ \A n \in DOMAIN segments :
          /\ segments[n].segment_number = n
          /\ segments[n].prev_segment_sha256 =
                IF n = 0 THEN None ELSE Sha256(segments[n - 1])
    /\ pred = IF next = 0 THEN None ELSE segments[next - 1]

\* The transition p commits was built from s, and s is the durable state.
BuiltFrom(p, s) ==
    /\ IsState(s)
    /\ Built(s, work[p])
    /\ ChainUpTo(sealed_segment, s.next_segment_number, s.predecessor_cbor)
    /\ s.open.records = InOrder(open_record)
    /\ work[p].kind # "create" => s.predecessor_cbor = ledger.predecessor_cbor

\* No rows give no records.
LEMMA EmptyInOrder == InOrder(NoRows) = <<>>
<1>1. DOMAIN NoRows = 0..(0 - 1)
  BY DEF NoRows
<1>2. InOrder(NoRows) = [i \in 1..0 |-> NoRows[i - 1]]
  BY <1>1, InOrderLemma
<1> QED
  BY <1>2

\* On an empty store, create()'s transition is built from the durable state.
LEMMA BuiltFromFirst ==
    ASSUME IInv, NEW p \in Processes, IsBuilding(mem[p], work[p]),
           work[p].kind = "create", ledger = None
    PROVE  BuiltFrom(p, work[p].next)
<1> DEFINE w == work[p]
<1>1. IsFirst(w) /\ IsState(w.next)
  BY WorkFields DEF IsBuilding
<1>2. /\ w.next.next_segment_number = 0 /\ w.next.predecessor_cbor = None
      /\ w.next.open.records = <<>>
      /\ w.sealed = <<>> /\ w.numbers = <<>> /\ w.request = None /\ w.todo = <<>>
  BY <1>1 DEF IsFirst
<1>3. Built(w.next, w)
  <2> HIDE DEF w
  <2>1. /\ w.todo = IF w.request = None THEN <<>> ELSE w.request.records
        /\ w.request # None => w.request.records \in Seq(Records)
    BY <1>2
  <2> QED
    BY <1>1, <1>2, <2>1, BuiltStart
<1>4. sealed_segment = NoRows /\ open_record = NoRows
  BY DEF IInv, StoreInv, ChainIntact, OpenRowsInv
<1>5. ChainUpTo(NoRows, 0, None)
  BY DEF ChainUpTo, NoRows
<1> QED
  BY <1>1, <1>2, <1>3, <1>4, <1>5, EmptyInOrder DEF BuiltFrom

\* A state that mirrors the durable row has its number, predecessor and revision.
LEMMA MirrorFields ==
    ASSUME NEW m, NEW row, IsState(row), NEW rows,
           Mirrors(m, row, rows), row.revision = m.revision
    PROVE  /\ m.next_segment_number = row.next_segment_number
           /\ m.predecessor_cbor = row.predecessor_cbor
           /\ m.open.records = InOrder(rows)
<1> DEFINE records == InOrder(rows)
<1> HIDE DEF records
<1>1. m = [row EXCEPT !.open.records = records]
  BY DEF records, Mirrors
<1>2. /\ m.next_segment_number = row.next_segment_number
      /\ m.predecessor_cbor = row.predecessor_cbor
      /\ m.open.records = records
  BY <1>1 DEF IsState, OpenInterval
<1> QED
  BY <1>2 DEF records

\* At a matching revision, a transition is built from the durable state, because
\* the process mirrors it.
LEMMA BuiltFromMirror ==
    ASSUME IInv, NEW p \in Processes, pc[p] = "busy", IsBuilding(mem[p], work[p]),
           work[p].kind # "create", ledger # None, ledger.revision = mem[p].revision
    PROVE  BuiltFrom(p, mem[p])
<1>1. mem[p] # None /\ IsState(mem[p]) /\ Built(mem[p], work[p])
  BY LocalOf DEF IsBuilding
<1>2. IsFollowing("busy", mem[p], ledger, open_record)
  BY LocalOf DEF LocalInv
<1>3. Mirrors(mem[p], ledger, open_record)
  BY <1>1, <1>2 DEF IsFollowing
<1>5. IsState(ledger)
  BY DEF IInv, StoreInv
<1>6. /\ mem[p].next_segment_number = ledger.next_segment_number
      /\ mem[p].predecessor_cbor = ledger.predecessor_cbor
      /\ mem[p].open.records = InOrder(open_record)
  BY <1>3, <1>5, MirrorFields
<1>7. ChainUpTo(sealed_segment, ledger.next_segment_number, ledger.predecessor_cbor)
  <2>1. ChainIntact
    BY DEF IInv, StoreInv
  <2> QED
    BY <2>1, Zenon DEF ChainIntact, ChainUpTo
<1> QED
  BY <1>1, <1>6, <1>7, Zenon DEF BuiltFrom

\* Whatever the transaction accepts was built from the durable state: this is
\* what the compare-and-swap on the revision buys.
LEMMA CommitFrom ==
    ASSUME IInv, NEW p \in Processes, Ready(p), Accepted(p)
    PROVE  /\ \E s : BuiltFrom(p, s)
           /\ IsBuilding(mem[p], work[p])
           /\ work[p].todo = <<>>
<1>1. pc[p] = "busy" /\ IsBuilding(mem[p], work[p]) /\ work[p].todo = <<>>
  BY LocalOf DEF Ready
<1>2. CASE work[p].kind = "create"
  <2>1. ledger = None
    BY <1>2 DEF Accepted, RevisionMatches
  <2> QED
    BY <1>1, <1>2, <2>1, BuiltFromFirst
<1>3. CASE work[p].kind # "create"
  <2>1. ledger # None /\ ledger.revision = mem[p].revision
    BY <1>3 DEF Accepted, RevisionMatches
  <2> QED
    BY <1>1, <1>3, <2>1, BuiltFromMirror
<1> QED
  BY <1>1, <1>2, <1>3
-----------------------------------------------------------------------------
(* The committed transaction: the open rows *)

\* Rows numbered from 0 and the sequence load() reads from them.
AreRowsOf(rows, records) ==
    /\ DOMAIN rows = 0..(Len(records) - 1)
    /\ \A o \in 0..(Len(records) - 1) : rows[o] = records[o + 1]

\* Rows 0..(n - 1) hold the records load() would return, in order.
LEMMA RowsOfInOrder ==
    ASSUME NEW rows, NEW n \in Nat, DOMAIN rows = 0..(n - 1),
           rows \in [DOMAIN rows -> Records]
    PROVE  AreRowsOf(rows, InOrder(rows))
<1> DEFINE records == InOrder(rows)
<1>1. records = [i \in 1..n |-> rows[i - 1]]
  BY InOrderLemma
<1>2. records \in Seq(Records)
  BY RowsInOrder
<1> HIDE DEF records
<1>3. DOMAIN records = 1..n
  BY <1>1
<1>4. Len(records) = n
  BY <1>2, <1>3
<1>5. ASSUME NEW o \in 0..(n - 1) PROVE rows[o] = records[o + 1]
  <2>1. o + 1 \in 1..n /\ (o + 1) - 1 = o
    OBVIOUS
  <2> QED
    BY <1>1, <2>1
<1>6. AreRowsOf(rows, records)
  BY <1>4, <1>5 DEF AreRowsOf
<1> QED
  BY <1>6 DEF records

\* Rows that hold a sequence in order are read back in order.
LEMMA InOrderIs ==
    ASSUME NEW records \in Seq(Records), NEW rows,
           DOMAIN rows = 0..(Len(records) - 1),
           \A o \in 0..(Len(records) - 1) : rows[o] = records[o + 1]
    PROVE  InOrder(rows) = records
<1> DEFINE n == Len(records)
<1>1. n \in Nat /\ DOMAIN rows = 0..(n - 1)
  BY LenProperties
<1>2. \A o \in 0..(n - 1) : rows[o] = records[o + 1]
  OBVIOUS
<1>3. records = [i \in 1..n |-> records[i]]
  OBVIOUS
<1> HIDE DEF n
<1>4. InOrder(rows) = [i \in 1..n |-> rows[i - 1]]
  BY <1>1, InOrderLemma
<1>5. \A i \in 1..n : i - 1 \in 0..(n - 1) /\ (i - 1) + 1 = i
  BY <1>1
<1>6. \A i \in 1..n : rows[i - 1] = records[i]
  BY <1>2, <1>5
<1> QED
  BY <1>3, <1>4, <1>6, Zenon

\* Rows written in order are read back in order.
LEMMA InOrderOfRows ==
    ASSUME NEW records \in Seq(Records), NEW rows,
           rows = [o \in 0..(Len(records) - 1) |-> records[o + 1]]
    PROVE  /\ InOrder(rows) = records
           /\ rows \in [DOMAIN rows -> Records]
           /\ Len(records) \in Nat
           /\ DOMAIN rows = 0..(Len(records) - 1)
<1>1. Len(records) \in Nat /\ DOMAIN rows = 0..(Len(records) - 1)
  BY LenProperties
<1>2. \A o \in 0..(Len(records) - 1) : rows[o] = records[o + 1]
  OBVIOUS
<1>3. InOrder(rows) = records
  BY <1>1, <1>2, InOrderIs, Zenon
<1>4. \A o \in 0..(Len(records) - 1) : records[o + 1] \in Records
  OBVIOUS
<1>5. rows \in [DOMAIN rows -> Records]
  BY <1>1, <1>4
<1> QED
  BY <1>1, <1>3, <1>5

\* The open rows a transaction keeps are those of the base of its open records.
LEMMA KeptRows ==
    ASSUME NEW s, IsState(s), NEW sealed, NEW rows, AreRowsOf(rows, s.open.records)
    PROVE  AreRowsOf(IF sealed = <<>> THEN rows ELSE NoRows, Base(s, sealed))
<1>1. CASE sealed = <<>>
  BY <1>1, Zenon DEF Base
<1>2. CASE sealed # <<>>
  <2>1. AreRowsOf(NoRows, <<>>)
    BY DEF AreRowsOf, NoRows
  <2> QED
    BY <1>2, <2>1, Zenon DEF Base
<1> QED
  BY <1>1, <1>2

\* Position i counts i - older among the last ones.
LEMMA PositionArithmetic ==
    ASSUME NEW n \in Nat, NEW fresh \in 0..n,
           NEW i \in (n - fresh + 1)..(n - fresh + fresh)
    PROVE  /\ i \in 1..n /\ i > n - fresh
           /\ i - (n - fresh) \in 1..fresh
           /\ n - fresh + (i - (n - fresh)) = i
OBVIOUS

\* The open_record table after the transaction holds the transition's open
\* records in order: the rows kept, deleted and inserted fit together.
LEMMA OpenAfterIs ==
    ASSUME NEW p, IsWork(work[p]), work[p].todo = <<>>, NEW s, BuiltFrom(p, s),
           AreRowsOf(open_record, s.open.records)
    PROVE  OpenAfter(p) = [o \in 0..(Len(work[p].next.open.records) - 1) |->
                              work[p].next.open.records[o + 1]]
<1> DEFINE w == work[p]
           base == Base(s, w.sealed)
           records == w.next.open.records
           fresh == Fresh(base, records)
           older == Len(w.numbers) - fresh
           kept == IF w.sealed = <<>> THEN open_record ELSE NoRows
           deltas == Deltas(p)
           open == OpenDeltas(p)
<1>1. /\ IsState(s) /\ BuiltChain(s, w) /\ BuiltRecords(s, w) /\ BuiltRequest(w)
  BY DEF BuiltFrom, Built
<1>2. /\ IsState(w.next) /\ AreSealed(w.sealed) /\ w.numbers \in Seq(Nat)
      /\ w.request \in Requests \cup {None}
  BY WorkFields
<1>3. /\ Len(w.numbers) \in Nat /\ Len(records) \in Nat
      /\ s.next_segment_number \in Nat /\ w.next.next_segment_number \in Nat
  BY <1>1, <1>2, StateFields, LenProperties
<1>4. Len(base) \in Nat
  <2>1. Len(s.open.records) \in Nat
    BY <1>1, StateFields
  <2> QED
    BY <2>1 DEF Base
<1>5. AreRowsOf(kept, base)
  BY <1>1, KeptRows
<1>6. Placed(base, records, w.numbers, w.request.records,
             s.next_segment_number, w.next.next_segment_number)
  BY <1>1 DEF BuiltRecords
<1>7. NumbersOf(w.sealed) = s.next_segment_number..(w.next.next_segment_number - 1)
  <2>1. IsSequence(w.sealed)
    BY <1>2 DEF AreSealed
  <2>2. /\ Chained(w.sealed, Len(w.sealed), s.next_segment_number,
                   PositionAfter(s.predecessor_cbor).prev_segment_sha256)
        /\ w.next.next_segment_number = s.next_segment_number + Len(w.sealed)
    BY <1>1 DEF BuiltChain
  <2> QED
    BY <1>3, <2>1, <2>2, NumbersOfChain
<1> HIDE DEF w, base, records, kept, deltas, open
<1>8. /\ fresh \in 0..Len(w.numbers)
      /\ \A i \in 1..Len(base) : records[i] = base[i]
      /\ \A i \in 1..fresh :
            records[Len(base) + i] = w.request.records[Len(w.numbers) - fresh + i]
  BY <1>6 DEF Placed
<1>9. Len(records) = Len(base) + fresh
  BY <1>3, <1>4 DEF Fresh
<1> HIDE DEF fresh
<1>10. /\ fresh \in Nat /\ older \in Nat /\ older + fresh = Len(w.numbers)
  BY <1>3, <1>8
<1>11. /\ open = (older + 1)..(older + fresh)
       /\ \A i \in open : deltas[i].ordinal = Len(base) + (i - 1 - older)
       /\ \A i \in open : deltas[i].record = records[Len(base) + (i - older)]
  <2>1. CASE w.request = None
    <3>1. deltas = <<>> /\ open = {}
      BY <2>1 DEF deltas, open, w, Deltas, OpenDeltas
    <3>2. w.numbers = <<>>
      BY <1>1, <2>1 DEF BuiltRequest
    <3>3. older = 0 /\ fresh = 0
      BY <1>8, <3>2
    <3> QED
      BY <3>1, <3>3
  <2>2. CASE w.request # None
    <3> DEFINE admitted == w.request.records
    <3>1. /\ deltas = RecordDeltas(mem[p], w.next, w.sealed, admitted, w.numbers)
          /\ open = {i \in DOMAIN deltas : ~deltas[i].sealed}
      BY <2>2 DEF deltas, open, w, Deltas, OpenDeltas
    <3>2. DOMAIN admitted = 1..Len(w.numbers)
      <4>1. w.todo = <<>>
        BY DEF w
      <4>2. Len(w.numbers) + Len(w.todo) = Len(admitted)
        BY <1>1, <2>2, Zenon DEF BuiltRequest
      <4>3. admitted \in Seq(Records)
        BY <1>2, <2>2, RequestAssumption
      <4> QED
        BY <1>3, <4>1, <4>2, <4>3
    <3>3. DOMAIN deltas = 1..Len(w.numbers)
      BY <3>1, <3>2 DEF RecordDeltas
    <3> HIDE DEF admitted
    <3>4. ASSUME NEW i \in 1..Len(w.numbers)
          PROVE  /\ deltas[i].sealed <=> i <= older
                 /\ deltas[i].record = admitted[i]
                 /\ i > older => deltas[i].ordinal = Len(base) + (i - 1 - older)
      <4>1. IsPlacement(w.next, w.sealed, admitted, w.numbers, s.next_segment_number, base)
        BY <1>2, <1>3, <1>4, <1>6, <1>7, <3>2 DEF IsPlacement, records, admitted
      <4>2. i \in DOMAIN admitted
        BY <3>2
      <4>3. IsDelta(RecordDeltas(mem[p], w.next, w.sealed, admitted, w.numbers)[i], i,
                    Len(w.numbers) - Fresh(base, w.next.open.records), Len(base), admitted[i])
        BY <4>1, <4>2, OpenDelta, Zenon
      <4>4. IsDelta(deltas[i], i, older, Len(base), admitted[i])
        BY <3>1, <4>3, Zenon DEF fresh, records
      <4> HIDE DEF older
      <4> QED
        BY <4>4, Zenon DEF IsDelta
    <3>5. open = (older + 1)..(older + fresh)
      <4>1. open = {i \in 1..Len(w.numbers) : ~deltas[i].sealed}
        BY <3>1, <3>3
      <4>2. open = {i \in 1..Len(w.numbers) : i > older}
        <5>1. \A i \in 1..Len(w.numbers) : ~(i <= older) <=> i > older
          BY <1>3, <1>10
        <5>2. \A i \in 1..Len(w.numbers) : ~deltas[i].sealed <=> i > older
          BY <3>4, <5>1, Zenon
        <5> QED
          BY <4>1, <5>2, Zenon
      <4> QED
        BY <1>3, <1>10, <4>2
    <3>6. ASSUME NEW i \in open
          PROVE  /\ deltas[i].ordinal = Len(base) + (i - 1 - older)
                 /\ deltas[i].record = records[Len(base) + (i - older)]
      <4>1. i \in (older + 1)..(older + fresh)
        BY <3>5
      <4>2. /\ i \in 1..Len(w.numbers) /\ i > older
            /\ i - older \in 1..fresh
            /\ Len(w.numbers) - fresh + (i - older) = i
        BY <1>3, <1>8, <4>1, PositionArithmetic, Zenon
      <4> HIDE DEF older
      <4>3. records[Len(base) + (i - older)] = admitted[i]
        <5>1. records[Len(base) + (i - older)] =
                 w.request.records[Len(w.numbers) - fresh + (i - older)]
          BY <1>8, <4>2, Zenon
        <5> QED
          BY <4>2, <5>1 DEF admitted
      <4> QED
        BY <3>4, <4>2, <4>3
    <3> QED
      BY <3>5, <3>6
  <2> QED
    BY <2>1, <2>2
<1>12. /\ DOMAIN kept = 0..(Len(base) - 1)
       /\ \A o \in 0..(Len(base) - 1) : kept[o] = records[o + 1]
  <2>1. \A o \in 0..(Len(base) - 1) : o + 1 \in 1..Len(base)
    BY <1>4
  <2> QED
    BY <1>5, <1>8, <2>1 DEF AreRowsOf
<1> HIDE DEF older
<1>13. AreAdded(Len(base), fresh, older, records, kept, deltas, open)
  BY <1>4, <1>10, <1>11, <1>12, Zenon DEF AreAdded
<1>14. WithAdded(kept, deltas, open) =
          [o \in 0..(Len(base) + fresh - 1) |-> records[o + 1]]
  BY <1>13, RowsAfter
<1>15. OpenAfter(p) = WithAdded(kept, deltas, open)
  BY Zenon DEF OpenAfter, WithAdded, kept, deltas, open, w
<1>16. OpenAfter(p) = [o \in 0..(Len(records) - 1) |-> records[o + 1]]
  <2>1. 0..(Len(base) + fresh - 1) = 0..(Len(records) - 1)
    BY <1>3, <1>4, <1>9, <1>10
  <2> QED
    BY <1>14, <1>15, <2>1
<1> QED
  BY <1>16 DEF records, w
-----------------------------------------------------------------------------
(* The committed transaction: the chain of segments *)

AreArtifacts(segments) ==
    \A n \in DOMAIN segments : segments[n] # None /\ IsOptionalArtifact(segments[n])

WithSealed(segments, sealed) ==
    [n \in DOMAIN segments \cup NumbersOf(sealed) |->
        IF n \in NumbersOf(sealed)
        THEN sealed[CHOOSE i \in DOMAIN sealed :
                       sealed[i].artifact.segment_number = n].artifact
        ELSE segments[n]]

\* The n segments take the numbers from first on, and after ends with them.
IsPlaced(sealed, after, first, n) ==
    /\ n \in Nat
    /\ NumbersOf(sealed) = first..(first + n - 1)
    /\ DOMAIN after = 0..(first + n - 1)

\* Where the old and the new segments are found afterwards.
LEMMA SealedPlaces ==
    ASSUME NEW segments, NEW first \in Nat, DOMAIN segments = 0..(first - 1),
           NEW sealed, AreSealed(sealed), NEW digest,
           Chained(sealed, Len(sealed), first, digest)
    PROVE  LET after == WithSealed(segments, sealed)
           IN  /\ IsPlaced(sealed, after, first, Len(sealed))
               /\ \A n \in 0..(first - 1) : after[n] = segments[n]
               /\ \A n \in first..(first + Len(sealed) - 1) :
                     after[n] = sealed[n - first + 1].artifact
<1> DEFINE after == WithSealed(segments, sealed)
           added == NumbersOf(sealed)
           Of(n) == CHOOSE i \in DOMAIN sealed : sealed[i].artifact.segment_number = n
<1>1. IsSequence(sealed)
  BY DEF AreSealed
<1>2. Len(sealed) \in Nat /\ DOMAIN sealed = 1..Len(sealed)
  BY <1>1, EmptySequence
<1>3. added = first..(first + Len(sealed) - 1)
  BY <1>1, NumbersOfChain
<1>4. \A i \in 1..Len(sealed) : sealed[i].artifact.segment_number = first + i - 1
  BY DEF Chained
<1>5. after = [n \in DOMAIN segments \cup added |->
                  IF n \in added THEN sealed[Of(n)].artifact ELSE segments[n]]
  BY Zenon DEF WithSealed
<1> HIDE DEF added, after
<1>6. DOMAIN after = DOMAIN segments \cup added
  BY <1>5
<1>7. DOMAIN segments \cup added = 0..(first + Len(sealed) - 1)
  BY <1>2, <1>3
<1>8. ASSUME NEW n \in 0..(first - 1) PROVE after[n] = segments[n]
  <2>1. n \notin added /\ n \in DOMAIN segments
    BY <1>2, <1>3
  <2> QED
    BY <1>5, <2>1
<1>9. ASSUME NEW n \in first..(first + Len(sealed) - 1)
      PROVE  after[n] = sealed[n - first + 1].artifact
  <2>1. n - first + 1 \in 1..Len(sealed) /\ first + (n - first + 1) - 1 = n
    BY <1>2
  <2>2. \A i \in 1..Len(sealed) :
           sealed[i].artifact.segment_number = n <=> i = n - first + 1
    BY <1>2, <1>4
  <2>3. Of(n) = n - first + 1
    BY <1>2, <2>1, <2>2
  <2>4. n \in added
    BY <1>3
  <2> HIDE DEF Of
  <2> QED
    BY <1>5, <2>3, <2>4
<1>10. IsPlaced(sealed, after, first, Len(sealed))
  BY <1>2, <1>3, <1>6, <1>7 DEF IsPlaced, added
<1> QED
  BY <1>8, <1>9, <1>10 DEF after

\* Inserting the sealed segments of a transition extends the durable chain.
LEMMA ChainGrows ==
    ASSUME NEW segments, AreArtifacts(segments), NEW first \in Nat, NEW pred,
           ChainUpTo(segments, first, pred), NEW sealed, AreSealed(sealed),
           Chained(sealed, Len(sealed), first, PositionAfter(pred).prev_segment_sha256)
    PROVE  LET after == WithSealed(segments, sealed)
           IN  /\ AreArtifacts(after)
               /\ ChainUpTo(after, first + Len(sealed),
                            IF sealed = <<>> THEN pred ELSE sealed[Len(sealed)].artifact)
<1> DEFINE after == WithSealed(segments, sealed)
           digest == PositionAfter(pred).prev_segment_sha256
           L == Len(sealed)
<1>1. DOMAIN segments = 0..(first - 1)
  BY DEF ChainUpTo
<1> HIDE DEF digest
<1>2. /\ L \in Nat
      /\ DOMAIN after = 0..(first + L - 1)
      /\ \A n \in 0..(first - 1) : after[n] = segments[n]
      /\ \A n \in first..(first + L - 1) : after[n] = sealed[n - first + 1].artifact
  BY <1>1, SealedPlaces DEF digest, IsPlaced
<1>3. /\ DOMAIN sealed = 1..L
      /\ sealed = <<>> <=> L = 0
      /\ \A i \in DOMAIN sealed :
            sealed[i].artifact # None /\ IsOptionalArtifact(sealed[i].artifact)
  BY EmptySequence DEF AreSealed
<1>4. \A i \in 1..L : /\ sealed[i].artifact.segment_number = first + i - 1
                      /\ sealed[i].artifact.prev_segment_sha256 = Link(sealed, i, digest)
  BY DEF Chained, digest
<1>5. /\ \A n \in 0..(first - 1) :
            /\ segments[n] # None /\ IsOptionalArtifact(segments[n])
            /\ segments[n].segment_number = n
            /\ segments[n].prev_segment_sha256 =
                  IF n = 0 THEN None ELSE Sha256(segments[n - 1])
      /\ first = 0 => pred = None
      /\ first # 0 => pred = segments[first - 1]
  BY <1>1 DEF ChainUpTo, AreArtifacts
<1>6. digest = IF first = 0 THEN None ELSE Sha256(segments[first - 1])
  <2>1. first # 0 => first - 1 \in 0..(first - 1)
    OBVIOUS
  <2>2. CASE first = 0
    BY <1>5, <2>2 DEF PositionAfter, digest
  <2>3. CASE first # 0
    <3>1. pred # None /\ pred = segments[first - 1]
      BY <1>5, <2>1, <2>3
    <3> QED
      BY <2>3, <3>1 DEF PositionAfter, digest
  <2> QED
    BY <2>2, <2>3
<1> HIDE DEF after, L
<1>7. ASSUME NEW n \in 0..(first + L - 1)
      PROVE  /\ after[n] # None /\ IsOptionalArtifact(after[n])
             /\ after[n].segment_number = n
             /\ after[n].prev_segment_sha256 =
                   IF n = 0 THEN None ELSE Sha256(after[n - 1])
  <2>1. CASE n \in 0..(first - 1)
    <3>1. n # 0 => n - 1 \in 0..(first - 1)
      BY <2>1
    <3> QED
      BY <1>2, <1>5, <2>1, <3>1
  <2>2. CASE n \in first..(first + L - 1)
    <3> DEFINE i == n - first + 1
    <3>1. /\ i \in 1..L /\ first + i - 1 = n
          /\ i > 1 => /\ n - 1 \in first..(first + L - 1)
                      /\ (n - 1) - first + 1 = i - 1 /\ n # 0
          /\ ~(i > 1) => n = first
          /\ first # 0 => first - 1 \in 0..(first - 1)
      BY <1>2, <2>2
    <3>2. after[n] = sealed[i].artifact
      BY <1>2, <2>2
    <3> HIDE DEF i
    <3>3. /\ after[n] # None /\ IsOptionalArtifact(after[n])
          /\ after[n].segment_number = n
          /\ after[n].prev_segment_sha256 = Link(sealed, i, digest)
      BY <1>3, <1>4, <3>1, <3>2
    <3>4. Link(sealed, i, digest) = IF n = 0 THEN None ELSE Sha256(after[n - 1])
      <4>1. CASE i > 1
        <5>1. Link(sealed, i, digest) = Sha256(sealed[i - 1].artifact)
          BY <4>1 DEF Link
        <5>2. after[n - 1] = sealed[i - 1].artifact
          <6>1. after[n - 1] = sealed[(n - 1) - first + 1].artifact
            BY <1>2, <3>1, <4>1
          <6> QED
            BY <3>1, <4>1, <6>1
        <5> QED
          BY <3>1, <4>1, <5>1, <5>2
      <4>2. CASE ~(i > 1)
        <5>1. Link(sealed, i, digest) = digest /\ n = first
          BY <3>1, <4>2 DEF Link
        <5>2. first # 0 => after[first - 1] = segments[first - 1]
          BY <1>2, <3>1
        <5> QED
          BY <1>6, <5>1, <5>2
      <4> QED
        BY <4>1, <4>2
    <3> QED
      BY <3>3, <3>4
  <2> QED
    BY <1>2, <2>1, <2>2
<1>a. L \in Nat
  BY <1>2
<1> DEFINE last == IF sealed = <<>> THEN pred ELSE sealed[L].artifact
<1>8. last = IF first + L = 0 THEN None ELSE after[first + L - 1]
  <2>1. CASE L = 0
    <3>1. last = pred
      BY <1>3, <2>1
    <3>2. first # 0 => first - 1 \in 0..(first - 1)
      OBVIOUS
    <3>3. first # 0 => after[first - 1] = segments[first - 1]
      BY <1>2, <3>2
    <3>4. pred = IF first = 0 THEN None ELSE after[first - 1]
      BY <1>5, <3>3
    <3>5. first + L = first /\ first + L - 1 = first - 1
      BY <2>1
    <3> HIDE DEF last
    <3> QED
      BY <3>1, <3>4, <3>5
  <2>2. CASE L # 0
    <3>1. last = sealed[L].artifact
      BY <1>3, <2>2
    <3>2. /\ first + L # 0 /\ first + L - 1 \in first..(first + L - 1)
          /\ (first + L - 1) - first + 1 = L
      BY <1>a, <2>2
    <3> QED
      BY <1>2, <3>1, <3>2
  <2> QED
    BY <2>1, <2>2
<1> HIDE DEF last
<1>9. AreArtifacts(after)
  BY <1>2, <1>7 DEF AreArtifacts
<1>10. ChainUpTo(after, first + L, last)
  BY <1>2, <1>7, <1>8, SMTT(30) DEF ChainUpTo
<1> QED
  BY <1>9, <1>10 DEF after, L, last
-----------------------------------------------------------------------------
(* The committed transaction: the queue, the rows, the journal and the state *)

IsQueueAfter(after, status, first, k) ==
    /\ DOMAIN status = 0..(first - 1)
    /\ after = [n \in DOMAIN status \cup (first..(first + k - 1)) |->
                   IF n \in first..(first + k - 1) THEN "queued" ELSE status[n]]

\* The number of segments that still wait for a timestamp.
Queued(status) == Cardinality({n \in DOMAIN status : status[n] = "queued"})

\* The queue grows by the segments the transaction seals.
LEMMA QueueGrows ==
    ASSUME NEW first \in Nat, NEW k \in Nat, NEW status, NEW after,
           IsQueueAfter(after, status, first, k)
    PROVE  Queued(after) = Queued(status) + k
<1> DEFINE added == first..(first + k - 1)
           old == {n \in DOMAIN status : status[n] = "queued"}
           new == {n \in DOMAIN after : after[n] = "queued"}
<1>1. new = old \cup added
  BY DEF IsQueueAfter
<1>2. old \cap added = {}
  BY DEF IsQueueAfter
<1>3. IsFiniteSet(0..(first - 1)) /\ IsFiniteSet(added) /\ Cardinality(added) = k
  <2>1. /\ 0 \in Int /\ first - 1 \in Int /\ 0 <= (first - 1) + 1
        /\ first \in Int /\ first + k - 1 \in Int /\ first <= (first + k - 1) + 1
        /\ (first + k - 1) - first + 1 = k
    OBVIOUS
  <2> QED
    BY <2>1, IntervalSize
<1>4. IsFiniteSet(old)
  <2>1. old \subseteq 0..(first - 1)
    BY DEF IsQueueAfter
  <2> QED
    BY <1>3, <2>1, FS_Subset
<1> HIDE DEF old, new
<1>5. Cardinality(old \cup added) =
         Cardinality(old) + Cardinality(added) - Cardinality(old \cap added)
  BY <1>3, <1>4, FS_Union, Zenon
<1>6. Cardinality(old \cap added) = 0
  BY <1>2, FS_EmptySet
<1>7. Cardinality(old) \in Nat
  BY <1>4, FS_CardinalityType
<1>8. Cardinality(new) = Cardinality(old) + k
  BY <1>1, <1>3, <1>5, <1>6, <1>7
<1> QED
  BY <1>8, Zenon DEF old, new, Queued

\* The ledger_state row written for state x, without its records.
IsRowOf(y, x) ==
    y = [x EXCEPT !.open.records = <<>>, !.predecessor_cbor = x.predecessor_cbor]

\* The written row with the open records is the committed state.
LEMMA StateRow ==
    ASSUME NEW x, IsState(x), NEW y, IsRowOf(y, x)
    PROVE  /\ IsState(y)
           /\ y.revision = x.revision
           /\ y.next_segment_number = x.next_segment_number
           /\ y.predecessor_cbor = x.predecessor_cbor
           /\ [y EXCEPT !.open.records = x.open.records] = x
<1> DEFINE o == x.open
           z == [x EXCEPT !.open.records = <<>>]
<1>1. x \in [revision : {x.revision}, active : {x.active},
             next_segment_number : {x.next_segment_number},
             predecessor_cbor : {x.predecessor_cbor},
             open : {o}, next_policy : {x.next_policy}]
  BY DEF IsState
<1>2. o \in [opened_at_ms : {o.opened_at_ms}, clock_continuity_id : {o.clock_continuity_id},
             policy : {o.policy}, records : {o.records}, byte_count : {o.byte_count}]
  BY DEF IsState, OpenInterval
<1>3. /\ IsState(z) /\ z.revision = x.revision
      /\ z.next_segment_number = x.next_segment_number
      /\ z.predecessor_cbor = x.predecessor_cbor
  <2>1. <<>> \in Seq(Records)
    OBVIOUS
  <2> QED
    BY <2>1, WithRecords, Zenon
<1>4. y = z
  <2>1. z \in [revision : {z.revision}, active : {z.active},
               next_segment_number : {z.next_segment_number},
               predecessor_cbor : {z.predecessor_cbor},
               open : {z.open}, next_policy : {z.next_policy}]
    BY <1>3 DEF IsState
  <2>2. y = [z EXCEPT !.predecessor_cbor = x.predecessor_cbor]
    BY DEF IsRowOf
  <2> HIDE DEF z
  <2>3. [z EXCEPT !.predecessor_cbor = z.predecessor_cbor] = z
    BY <2>1
  <2> QED
    BY <1>3, <2>2, <2>3
<1>5. [z EXCEPT !.open.records = x.open.records] = x
  <2> DEFINE bare == [o EXCEPT !.records = <<>>]
  <2>1. [bare EXCEPT !.records = o.records] = o
    <3>1. [bare EXCEPT !.records = o.records] \in
             [opened_at_ms : {o.opened_at_ms}, clock_continuity_id : {o.clock_continuity_id},
              policy : {o.policy}, records : {o.records}, byte_count : {o.byte_count}]
      BY <1>2, Zenon
    <3> HIDE DEF bare, o
    <3> QED
      BY <1>2, <3>1
  <2>2. z = [x EXCEPT !.open = bare]
    BY <1>1
  <2> HIDE DEF bare
  <2>3. z.open = bare
    BY <1>1, <2>2
  <2>4. [z EXCEPT !.open.records = x.open.records] = [z EXCEPT !.open = o]
    <3>1. [z EXCEPT !.open.records = x.open.records] =
             [z EXCEPT !.open = [z.open EXCEPT !.records = o.records]]
      OBVIOUS
    <3> QED
      BY <2>1, <2>3, <3>1, Zenon
  <2>5. [z EXCEPT !.open = o] \in [revision : {x.revision}, active : {x.active},
             next_segment_number : {x.next_segment_number},
             predecessor_cbor : {x.predecessor_cbor},
             open : {o}, next_policy : {x.next_policy}]
    BY <1>1, <2>2, Zenon
  <2> HIDE DEF z, o
  <2>6. [z EXCEPT !.open = o] = x
    BY <1>1, <2>5
  <2> QED
    BY <2>4, <2>6
<1> HIDE DEF z, o
<1> QED
  BY <1>3, <1>4, <1>5

\* record_deltas computes one row for each admitted record, which holds it.
LEMMA DeltaRecord ==
    ASSUME NEW previous, NEW next, NEW sealed, NEW records, NEW numbers
    PROVE  LET deltas == RecordDeltas(previous, next, sealed, records, numbers)
           IN  /\ DOMAIN deltas = DOMAIN records
               /\ \A i \in DOMAIN records : deltas[i].record = records[i]
BY Zenon DEF RecordDeltas

\* Every row record_deltas computes holds a record.
LEMMA DeltaRecords ==
    ASSUME NEW p, IsWork(work[p])
    PROVE  \A i \in DOMAIN Deltas(p) : Deltas(p)[i].record \in Records
<1>1. CASE work[p].request = None
  BY <1>1 DEF Deltas
<1>2. CASE work[p].request # None
  <2> DEFINE records == work[p].request.records
  <2>1. records \in Seq(Records)
    BY <1>2, WorkFields, RequestAssumption
  <2>2. Deltas(p) = RecordDeltas(mem[p], work[p].next, work[p].sealed, records,
                                 work[p].numbers)
    BY <1>2 DEF Deltas
  <2> HIDE DEF records
  <2>3. /\ DOMAIN Deltas(p) = DOMAIN records
        /\ \A i \in DOMAIN records : Deltas(p)[i].record = records[i]
    BY <2>2, DeltaRecord
  <2> QED
    BY <2>1, <2>3
<1> QED
  BY <1>1, <1>2

\* The sealed_record table after the transaction holds records.
LEMMA SealedRowsType ==
    ASSUME NEW p, IsWork(work[p]), open_record \in [DOMAIN open_record -> Records],
           sealed_record \in [DOMAIN sealed_record -> Records]
    PROVE  SealedRowsAfter(p) \in [DOMAIN SealedRowsAfter(p) -> Records]
<1> DEFINE deltas == Deltas(p)
           moved == TransferredRows(p)
           RowOf(i) == <<deltas[i].segment, deltas[i].ordinal>>
           added == {RowOf(i) : i \in SealedDeltas(p)}
           Of(row) == CHOOSE i \in SealedDeltas(p) : RowOf(i) = row
           Content(row) == IF row \in added THEN deltas[Of(row)].record
                           ELSE IF row \in moved THEN open_record[row[2]]
                           ELSE sealed_record[row]
           D == DOMAIN sealed_record \cup moved \cup added
<1>1. SealedRowsAfter(p) = [row \in D |-> Content(row)]
  BY Zenon DEF SealedRowsAfter
<1>2. ASSUME NEW row \in added PROVE deltas[Of(row)].record \in Records
  <2>1. PICK i \in SealedDeltas(p) : RowOf(i) = row
    OBVIOUS
  <2> HIDE DEF RowOf
  <2>2. Of(row) \in SealedDeltas(p)
    BY <2>1
  <2>3. SealedDeltas(p) \subseteq DOMAIN deltas
    BY DEF SealedDeltas
  <2> QED
    BY <2>2, <2>3, DeltaRecords
<1>3. ASSUME NEW row \in moved PROVE open_record[row[2]] \in Records
  <2>1. PICK o \in DOMAIN open_record : row = <<TransferTo(p), o>>
    BY <1>3 DEF TransferredRows
  <2> QED
    BY <2>1
<1> HIDE DEF added, moved, deltas, Of
<1>4. ASSUME NEW row \in D PROVE Content(row) \in Records
  BY <1>2, <1>3
<1> HIDE DEF D, Content
<1> QED
  BY <1>1, <1>4

\* An admission journals records under a client's key.
LEMMA JournalType ==
    ASSUME NEW w, IsWork(w), BuiltRequest(w), w.todo = <<>>, w.request # None,
           NEW entries, entries = [i \in DOMAIN w.request.records |->
                                      [key |-> w.request.key,
                                       record |-> w.request.records[i],
                                       segment |-> w.numbers[i]]]
    PROVE  /\ w.request.key \in Keys
           /\ entries \in Seq([key : Keys, record : Records, segment : Nat])
<1> DEFINE records == w.request.records
           n == Len(w.numbers)
<1>1. w.request \in Requests /\ w.numbers \in Seq(Nat)
  BY WorkFields
<1>2. w.request.key \in Keys
  BY <1>1 DEF Keys
<1>3. records \in Seq(Records)
  BY <1>1, RequestAssumption
<1>4. n \in Nat /\ DOMAIN w.numbers = 1..n
  BY <1>1
<1>5. Len(records) = n
  BY <1>4 DEF BuiltRequest
<1>6. DOMAIN records = 1..n
  BY <1>3, <1>5
<1> HIDE DEF records, n
<1>7. \A i \in 1..n : records[i] \in Records /\ w.numbers[i] \in Nat
  BY <1>1, <1>3, <1>4, <1>6
<1>8. entries = [i \in 1..n |-> [key |-> w.request.key, record |-> records[i],
                                 segment |-> w.numbers[i]]]
  BY <1>6 DEF records
<1> DEFINE E == [key : Keys, record : Records, segment : Nat]
<1>9. \A i \in 1..n : [key |-> w.request.key, record |-> records[i],
                       segment |-> w.numbers[i]] \in E
  BY <1>2, <1>7
<1> HIDE DEF E
<1>10. entries \in [1..n -> E]
  BY <1>8, <1>9, Zenon
<1>11. entries \in Seq(E)
  BY <1>4, <1>10, FunctionIsSequence
<1> QED
  BY <1>2, <1>11 DEF E

\* commit() numbers the state it writes.
LEMMA NextStateType ==
    ASSUME NEW p, IsWork(work[p]), mem[p] # None => IsState(mem[p]),
           work[p].kind # "create" => mem[p] # None
    PROVE  /\ IsState(NextState(p))
           /\ NextState(p).next_segment_number = work[p].next.next_segment_number
           /\ NextState(p).predecessor_cbor = work[p].next.predecessor_cbor
           /\ NextState(p).open.records = work[p].next.open.records
           /\ work[p].kind # "create" => NextState(p).revision = mem[p].revision + 1
<1>1. IsState(work[p].next)
  BY WorkFields
<1>2. CASE work[p].kind = "create"
  BY <1>1, <1>2 DEF NextState
<1>3. CASE work[p].kind # "create"
  <2> DEFINE next == work[p].next
             number == mem[p].revision + 1
  <2>1. number \in Nat
    BY <1>3, StateFields
  <2>2. NextState(p) = [next EXCEPT !.revision = number]
    BY <1>3 DEF NextState
  <2> HIDE DEF next, number
  <2>3. /\ IsState([next EXCEPT !.revision = number])
        /\ [next EXCEPT !.revision = number].next_segment_number = next.next_segment_number
        /\ [next EXCEPT !.revision = number].predecessor_cbor = next.predecessor_cbor
        /\ [next EXCEPT !.revision = number].open = next.open
        /\ [next EXCEPT !.revision = number].revision = number
    BY <1>1, <2>1 DEF IsState, next
  <2> QED
    BY <2>2, <2>3 DEF next, number
<1> QED
  BY <1>2, <1>3
=============================================================================
