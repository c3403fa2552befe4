------------------------ MODULE LedgerProducerProofs ------------------------
(***************************************************************************)
(* Proofs about LedgerProducer: the type invariant, the integrity of the   *)
(* chain of sealed segments, the mirroring of the store by a writer whose  *)
(* revision is current and the exactness of the pending counter, for every *)
(* set of processes, requests and policies and every bound.                *)
(***************************************************************************)
EXTENDS ProducerRowProofs

(* The committed transaction: every table *)

\* The ledger_state row after the commit holds the committed state.
LEMMA DurableState ==
    ASSUME IInv, NEW p \in Processes, Ready(p), Accepted(p), Durable(p)
    PROVE  /\ IsState(ledger')
           /\ IsState(NextState(p))
           /\ ledger'.revision = NextState(p).revision
           /\ ledger'.next_segment_number = work[p].next.next_segment_number
           /\ ledger'.predecessor_cbor = work[p].next.predecessor_cbor
           /\ [ledger' EXCEPT !.open.records = work[p].next.open.records] = NextState(p)
           /\ ledger # None => ledger'.revision > ledger.revision
<1> DEFINE x == NextState(p)
           pred == StoredPredecessor(p)
<1>1. IsBuilding(mem[p], work[p]) /\ IsWork(work[p])
  BY CommitFrom DEF IsBuilding
<1>2. /\ mem[p] # None => IsState(mem[p])
      /\ work[p].kind # "create" => mem[p] # None
  BY <1>1, LocalOf DEF IsBuilding
<1>3. /\ IsState(x)
      /\ x.next_segment_number = work[p].next.next_segment_number
      /\ x.predecessor_cbor = work[p].next.predecessor_cbor
      /\ x.open.records = work[p].next.open.records
      /\ work[p].kind # "create" => x.revision = mem[p].revision + 1
  BY <1>1, <1>2, NextStateType
<1>4. PICK s : BuiltFrom(p, s)
  BY CommitFrom
<1>5. pred = x.predecessor_cbor
  <2>1. CASE work[p].sealed = <<>> /\ work[p].kind # "create"
    <3>1. work[p].next.predecessor_cbor = s.predecessor_cbor
      BY <1>4, <2>1 DEF BuiltFrom, Built, BuiltChain
    <3>2. s.predecessor_cbor = ledger.predecessor_cbor
      BY <1>4, <2>1 DEF BuiltFrom
    <3> QED
      BY <1>3, <2>1, <3>1, <3>2, Zenon DEF StoredPredecessor
  <2>2. CASE ~(work[p].sealed = <<>> /\ work[p].kind # "create")
    BY <1>3, <2>2, Zenon DEF StoredPredecessor
  <2> QED
    BY <2>1, <2>2
<1>6. ledger' = [x EXCEPT !.open.records = <<>>, !.predecessor_cbor = pred]
  BY DEF Durable
<1> HIDE DEF x, pred
<1>7. /\ IsState(ledger')
      /\ ledger'.revision = x.revision
      /\ ledger'.next_segment_number = x.next_segment_number
      /\ ledger'.predecessor_cbor = x.predecessor_cbor
      /\ [ledger' EXCEPT !.open.records = x.open.records] = x
  <2>1. IsRowOf(ledger', x)
    BY <1>5, <1>6, Zenon DEF IsRowOf
  <2> QED
    BY <1>3, <2>1, StateRow, Zenon
<1>8. ASSUME ledger # None PROVE ledger'.revision > ledger.revision
  <2>1. work[p].kind # "create" /\ ledger.revision = mem[p].revision
    BY <1>8 DEF Accepted, RevisionMatches
  <2>2. mem[p].revision \in Nat
    BY <1>2, <2>1, StateFields
  <2> QED
    BY <1>3, <1>7, <2>1, <2>2
<1> QED
  BY <1>3, <1>7, <1>8, Zenon DEF x

\* The open rows after the commit are the committed open records.
LEMMA DurableRows ==
    ASSUME IInv, NEW p \in Processes, Ready(p), Accepted(p), Durable(p)
    PROVE  /\ OpenRowsInv'
           /\ InOrder(open_record') = work[p].next.open.records
<1> DEFINE records == work[p].next.open.records
<1>1. IsWork(work[p]) /\ work[p].todo = <<>>
  BY CommitFrom DEF IsBuilding
<1>2. PICK s : BuiltFrom(p, s)
  BY CommitFrom
<1>3. PICK n \in Nat : DOMAIN open_record = 0..(n - 1)
  BY DEF IInv, StoreInv, OpenRowsInv
<1>4. open_record \in [DOMAIN open_record -> Records]
  BY DEF IInv, StoreInv, OpenRowsInv
<1>5. AreRowsOf(open_record, s.open.records)
  <2>1. AreRowsOf(open_record, InOrder(open_record))
    BY <1>3, <1>4, RowsOfInOrder
  <2> QED
    BY <1>2, <2>1 DEF BuiltFrom
<1>6. OpenAfter(p) = [o \in 0..(Len(records) - 1) |-> records[o + 1]]
  BY <1>1, <1>2, <1>5, OpenAfterIs, Zenon
<1>7. open_record' = OpenAfter(p)
  BY DEF Durable
<1>8. records \in Seq(Records)
  BY <1>1, WorkFields, StateFields
<1> HIDE DEF records
<1>9. /\ InOrder(open_record') = records
      /\ open_record' \in [DOMAIN open_record' -> Records]
      /\ Len(records) \in Nat
      /\ DOMAIN open_record' = 0..(Len(records) - 1)
  BY <1>6, <1>7, <1>8, InOrderOfRows
<1>10. ledger' # None
  BY DurableState, StateIsSome
<1>11. OpenRowsInv'
  BY <1>9, <1>10 DEF OpenRowsInv
<1> QED
  BY <1>9, <1>11 DEF records

\* The sealed segments of a transition take the next numbers of the chain.
LEMMA ChainPlaces ==
    ASSUME NEW segments, NEW first \in Nat, NEW pred, ChainUpTo(segments, first, pred),
           NEW sealed, AreSealed(sealed),
           Chained(sealed, Len(sealed), first, PositionAfter(pred).prev_segment_sha256)
    PROVE  IsPlaced(sealed, WithSealed(segments, sealed), first, Len(sealed))
<1> DEFINE digest == PositionAfter(pred).prev_segment_sha256
<1>1. DOMAIN segments = 0..(first - 1)
  BY DEF ChainUpTo
<1>2. Chained(sealed, Len(sealed), first, digest)
  OBVIOUS
<1> HIDE DEF digest
<1> QED
  BY <1>1, <1>2, SealedPlaces, Zenon

\* The segments after the commit are one chain, each queued for a timestamp once.
LEMMA DurableChain ==
    ASSUME IInv, NEW p \in Processes, Ready(p), Accepted(p), Durable(p)
    PROVE  /\ ChainIntact'
           /\ AreArtifacts(sealed_segment')
           /\ tsa_status' \in [DOMAIN sealed_segment' -> {"queued", "verified", "failed"}]
           /\ usage'.pending \in Nat
           /\ PendingIsExact'
<1> DEFINE w == work[p]
           added == NumbersOf(w.sealed)
<1>1. PICK s : BuiltFrom(p, s)
  BY CommitFrom
<1>2. /\ IsState(s) /\ BuiltChain(s, w)
      /\ ChainUpTo(sealed_segment, s.next_segment_number, s.predecessor_cbor)
  BY <1>1 DEF BuiltFrom, Built
<1>3. IsWork(w) /\ AreSealed(w.sealed)
  BY CommitFrom, WorkFields DEF IsBuilding
<1> DEFINE first == s.next_segment_number
           L == Len(w.sealed)
           digest == PositionAfter(s.predecessor_cbor).prev_segment_sha256
<1>4. /\ first \in Nat
      /\ w.next.next_segment_number = first + L
      /\ Chained(w.sealed, L, first, digest)
      /\ w.next.predecessor_cbor = IF w.sealed = <<>> THEN s.predecessor_cbor
                                   ELSE w.sealed[L].artifact
  BY <1>2, StateFields DEF BuiltChain
<1>5. AreArtifacts(sealed_segment)
  BY DEF IInv, StoreInv, AreArtifacts
<1>6. sealed_segment' = WithSealed(sealed_segment, w.sealed)
  BY Zenon DEF Durable, SealedAfter, WithSealed
<1>7. /\ DOMAIN sealed_segment = 0..(first - 1)
  BY <1>2 DEF ChainUpTo
<1> HIDE DEF w, first, L, digest, added
<1>8. /\ L \in Nat
      /\ added = first..(first + L - 1)
      /\ DOMAIN sealed_segment' = 0..(first + L - 1)
  <2>1. IsPlaced(w.sealed, WithSealed(sealed_segment, w.sealed), first, L)
    BY <1>2, <1>3, <1>4, ChainPlaces, Zenon DEF L, first, digest
  <2> QED
    BY <1>6, <2>1, Zenon DEF IsPlaced, added
<1>9. /\ AreArtifacts(sealed_segment')
      /\ ChainUpTo(sealed_segment', w.next.next_segment_number, w.next.predecessor_cbor)
  <2>1. /\ AreArtifacts(WithSealed(sealed_segment, w.sealed))
        /\ ChainUpTo(WithSealed(sealed_segment, w.sealed), first + L,
                     IF w.sealed = <<>> THEN s.predecessor_cbor ELSE w.sealed[L].artifact)
    BY <1>2, <1>3, <1>4, <1>5, ChainGrows, Zenon DEF L, first, digest
  <2> QED
    BY <1>4, <1>6, <2>1, Zenon
<1>10. ChainIntact'
  <2>1. /\ IsState(ledger')
        /\ ledger'.next_segment_number = w.next.next_segment_number
        /\ ledger'.predecessor_cbor = w.next.predecessor_cbor
    BY DurableState DEF w
  <2>2. ledger' # None
    BY <2>1, StateIsSome
  <2>3. ChainUpTo(sealed_segment', ledger'.next_segment_number, ledger'.predecessor_cbor)
    BY <1>9, <2>1, Zenon
  <2> QED
    BY <2>2, <2>3, Zenon DEF ChainIntact, ChainUpTo
<1> DEFINE statuses == {"queued", "verified", "failed"}
<1>11. tsa_status' = [n \in DOMAIN tsa_status \cup added |->
                         IF n \in added THEN "queued" ELSE tsa_status[n]]
  BY Zenon DEF Durable, added, w
<1>12. tsa_status \in [0..(first - 1) -> statuses]
  BY <1>7 DEF IInv, StoreInv
<1>13. tsa_status' \in [DOMAIN sealed_segment' -> statuses]
  <2>1. DOMAIN tsa_status \cup added = DOMAIN sealed_segment'
    BY <1>4, <1>8, <1>12
  <2> QED
    BY <1>11, <1>12, <2>1
<1>14. Queued(tsa_status') = Queued(tsa_status) + L
  <2> HIDE DEF statuses
  <2>1. DOMAIN tsa_status = 0..(first - 1)
    BY <1>12
  <2>2. IsQueueAfter(tsa_status', tsa_status, first, L)
    BY <1>8, <1>11, <2>1, Zenon DEF IsQueueAfter
  <2>3. first \in Nat /\ L \in Nat
    BY <1>4, <1>8
  <2> QED
    BY <2>2, <2>3, QueueGrows, Zenon
<1>15. /\ usage.pending \in Nat
       /\ usage.pending = Queued(tsa_status)
  BY DEF IInv, StoreInv, PendingIsExact, Queued
<1>16. usage'.pending = usage.pending + L
  BY DEF Durable, w, L
<1>17. usage'.pending \in Nat
  BY <1>8, <1>15, <1>16
<1>18. PendingIsExact'
  BY <1>14, <1>15, <1>16, Zenon DEF PendingIsExact, Queued
<1> QED
  BY <1>9, <1>10, <1>13, <1>17, <1>18

\* The journal and the idempotency table after the commit.
LEMMA DurableJournal ==
    ASSUME IInv, NEW p \in Processes, Ready(p), Accepted(p), Durable(p)
    PROVE  /\ DOMAIN idempotency' \subseteq Keys
           /\ journal' \in Seq([key : Keys, record : Records, segment : Nat])
           /\ work[p].request # None => work[p].request.key \in Keys
<1> DEFINE w == work[p]
           Entry == [key : Keys, record : Records, segment : Nat]
           entries == [i \in DOMAIN w.request.records |->
                          [key |-> w.request.key,
                           record |-> w.request.records[i],
                           segment |-> w.numbers[i]]]
<1>1. DOMAIN idempotency \subseteq Keys /\ journal \in Seq(Entry)
  BY DEF IInv, StoreInv
<1>2. CASE w.request = None
  BY <1>1, <1>2 DEF Durable
<1>3. CASE w.request # None
  <2>1. PICK s : BuiltFrom(p, s)
    BY CommitFrom
  <2>2. IsWork(w) /\ w.todo = <<>> /\ BuiltRequest(w)
    BY <2>1, CommitFrom DEF IsBuilding, BuiltFrom, Built
  <2>3. w.request.key \in Keys /\ entries \in Seq(Entry)
    BY <1>3, <2>2, JournalType, ZenonT(40)
  <2>4. journal' = journal \o entries
    BY <1>3, Zenon DEF Durable
  <2>5. DOMAIN idempotency' = DOMAIN idempotency \cup {w.request.key}
    BY <1>3, Zenon DEF Durable
  <2> HIDE DEF entries, Entry
  <2>6. journal' \in Seq(Entry)
    BY <1>1, <2>3, <2>4
  <2> QED
    BY <1>1, <2>3, <2>5, <2>6 DEF Entry
<1> QED
  BY <1>2, <1>3

\* What the transaction writes keeps the store's invariant.
LEMMA DurableStore ==
    ASSUME IInv, NEW p \in Processes, Ready(p), Accepted(p), Durable(p)
    PROVE  StoreInv'
<1>1. ledger' # None => IsState(ledger')
  BY DurableState
<1>2. OpenRowsInv'
  BY DurableRows
<1>3. /\ ChainIntact'
      /\ AreArtifacts(sealed_segment')
      /\ tsa_status' \in [DOMAIN sealed_segment' -> {"queued", "verified", "failed"}]
      /\ usage'.pending \in Nat
      /\ PendingIsExact'
  BY DurableChain
<1>4. sealed_record' \in [DOMAIN sealed_record' -> Records]
  <2>1. IsWork(work[p])
    BY CommitFrom DEF IsBuilding
  <2>2. /\ open_record \in [DOMAIN open_record -> Records]
        /\ sealed_record \in [DOMAIN sealed_record -> Records]
    BY DEF IInv, StoreInv, OpenRowsInv
  <2>3. sealed_record' = SealedRowsAfter(p)
    BY DEF Durable
  <2> QED
    BY <2>1, <2>2, <2>3, SealedRowsType
<1>5. /\ DOMAIN idempotency' \subseteq Keys
      /\ journal' \in Seq([key : Keys, record : Records, segment : Nat])
  BY DurableJournal, Zenon
<1>6. \A n \in DOMAIN sealed_segment' :
         sealed_segment'[n] # None /\ IsOptionalArtifact(sealed_segment'[n])
  BY <1>3 DEF AreArtifacts
<1> QED
  BY <1>1, <1>2, <1>3, <1>4, <1>5, <1>6, Zenon DEF StoreInv
-----------------------------------------------------------------------------
(* Steps that write the store *)

\* A process that does not commit falls behind: its revision is the older one.
LEMMA OthersLag ==
    ASSUME NEW step, NEW at, NEW id, NEW m, NEW w, NEW row, NEW rows,
           LocalInv(step, at, id, m, w, row, rows), row # None => IsState(row),
           NEW newer, NEW newerRows, IsState(newer),
           row # None => newer.revision > row.revision
    PROVE  LocalInv(step, at, id, m, w, newer, newerRows)
<1>1. newer # None
  BY StateIsSome
<1>2. ASSUME m # None
      PROVE  m.revision <= newer.revision /\ m.revision # newer.revision
  <2>1. IsState(m) /\ row # None /\ m.revision <= row.revision
    BY <1>2 DEF LocalInv, IsFollowing
  <2>2. m.revision \in Nat /\ row.revision \in Nat /\ newer.revision \in Nat
    BY <2>1, StateFields
  <2> QED
    BY <2>1, <2>2
<1>3. IsFollowing(step, m, newer, newerRows)
  BY <1>1, <1>2 DEF LocalInv, IsFollowing, Mirrors
<1> QED
  BY <1>3 DEF LocalInv

\* A commit of process p preserves the invariant when it preserves the store's
\* and what is said of p.
LEMMA StoreStep ==
    ASSUME IInv, NEW p \in Processes, StoreInv', ClientInv', IsState(ledger'),
           ledger # None => ledger'.revision > ledger.revision,
           NEW step, NEW at, NEW id, NEW m, NEW w,
           pc' = [pc EXCEPT ![p] = step],
           now' = [now EXCEPT ![p] = at],
           continuity' = [continuity EXCEPT ![p] = id],
           mem' = [mem EXCEPT ![p] = m],
           work' = [work EXCEPT ![p] = w],
           LocalInv(step, at, id, m, w, ledger', open_record')
    PROVE  IInv'
<1>1. /\ Arrays'
      /\ pc'[p] = step /\ now'[p] = at /\ continuity'[p] = id /\ mem'[p] = m /\ work'[p] = w
      /\ \A q \in Processes : q # p =>
            /\ pc'[q] = pc[q] /\ now'[q] = now[q]
            /\ continuity'[q] = continuity[q]
            /\ mem'[q] = mem[q] /\ work'[q] = work[q]
  <2>1. Arrays
    BY DEF IInv
  <2> QED
    BY <2>1, ExceptAt, Zenon DEF Arrays
<1>2. ProcessInv(p)'
  BY <1>1, Zenon DEF ProcessInv
<1>3. ASSUME NEW q \in Processes, q # p PROVE ProcessInv(q)'
  <2>1. LocalInv(pc[q], now[q], continuity[q], mem[q], work[q], ledger, open_record)
    BY LocalOf
  <2>2. ledger # None => IsState(ledger)
    BY DEF IInv, StoreInv
  <2>3. LocalInv(pc[q], now[q], continuity[q], mem[q], work[q], ledger', open_record')
    BY <2>1, <2>2, OthersLag
  <2> QED
    BY <1>1, <1>3, <2>3, Zenon DEF ProcessInv
<1>4. \A q \in Processes : ProcessInv(q)'
  BY <1>2, <1>3
<1> QED
  BY <1>1, <1>4, Zenon DEF IInv

\* A committed transaction whose process learns of it preserves the invariant.
LEMMA CommitStep ==
    ASSUME IInv, NEW p \in Processes, Commit(p)
    PROVE  IInv'
<1>1. Ready(p) /\ Accepted(p) /\ Durable(p)
  BY DEF Commit
<1>2. StoreInv'
  BY <1>1, DurableStore
<1>3. ClientInv'
  <2>1. work[p].request # None => work[p].request.key \in Keys
    BY <1>1, DurableJournal
  <2> QED
    BY <2>1 DEF IInv, ClientInv, Commit
<1>4. /\ IsState(ledger') /\ IsState(NextState(p))
      /\ ledger'.revision = NextState(p).revision
      /\ [ledger' EXCEPT !.open.records = work[p].next.open.records] = NextState(p)
      /\ ledger # None => ledger'.revision > ledger.revision
  BY <1>1, DurableState
<1>5. InOrder(open_record') = work[p].next.open.records
  BY <1>1, DurableRows
<1>6. LocalInv("idle", now[p], continuity[p], NextState(p), None, ledger', open_record')
  <2>1. Mirrors(NextState(p), ledger', open_record')
    BY <1>4, <1>5, Zenon DEF Mirrors
  <2>2. NextState(p) # None /\ ledger' # None
    BY <1>4, StateIsSome
  <2>3. NextState(p).revision <= ledger'.revision
    BY <1>4, StateFields
  <2>4. IsFollowing("idle", NextState(p), ledger', open_record')
    BY <1>4, <2>1, <2>2, <2>3 DEF IsFollowing
  <2> QED
    BY <2>4, LocalOf DEF LocalInv
<1>7. /\ pc' = [pc EXCEPT ![p] = "idle"]
      /\ now' = [now EXCEPT ![p] = now[p]]
      /\ continuity' = [continuity EXCEPT ![p] = continuity[p]]
      /\ mem' = [mem EXCEPT ![p] = NextState(p)]
      /\ work' = [work EXCEPT ![p] = None]
  BY Untouched, Zenon DEF Commit
<1> QED
  BY <1>2, <1>3, <1>4, <1>6, <1>7, StoreStep, Zenon

\* A committed transaction whose process is lost preserves the invariant.
LEMMA CommitUnseenStep ==
    ASSUME IInv, NEW p \in Processes, CommitUnseen(p)
    PROVE  IInv'
<1>1. Ready(p) /\ Accepted(p) /\ Durable(p) /\ Down(p)
  BY DEF CommitUnseen
<1>2. StoreInv'
  BY <1>1, DurableStore
<1>3. ClientInv'
  BY ClientSame DEF CommitUnseen
<1>4. /\ IsState(ledger')
      /\ ledger # None => ledger'.revision > ledger.revision
  BY <1>1, DurableState
<1>5. LocalInv("down", 0, 0, None, None, ledger', open_record')
  BY DownLocal
<1> QED
  BY <1>1, <1>2, <1>3, <1>4, <1>5, StoreStep, Zenon DEF Down

\* Segment n of the finite queue settles.
Settles(status, n, outcome, after) ==
    /\ IsFiniteSet(DOMAIN status)
    /\ n \in DOMAIN status
    /\ status[n] = "queued"
    /\ outcome # "queued"
    /\ after = [status EXCEPT ![n] = outcome]

\* Settling one queued segment takes one from the queue.
LEMMA QueueShrinks ==
    ASSUME NEW status, NEW n, NEW outcome, NEW after, Settles(status, n, outcome, after)
    PROVE  Queued(after) = Queued(status) - 1 /\ Queued(status) \in Nat /\ Queued(status) > 0
<1> DEFINE old == {k \in DOMAIN status : status[k] = "queued"}
           new == {k \in DOMAIN after : after[k] = "queued"}
<1>1. new = old \ {n}
  BY DEF Settles
<1>2. n \in old
  BY DEF Settles
<1>3. IsFiniteSet(old)
  <2>1. old \subseteq DOMAIN status
    OBVIOUS
  <2> QED
    BY <2>1, FS_Subset DEF Settles
<1> HIDE DEF old, new
<1>4. Cardinality(old \ {n}) = Cardinality(old) - 1
  BY <1>2, <1>3, FS_RemoveElement
<1>5. Cardinality(old) \in Nat
  BY <1>3, FS_CardinalityType
<1>6. Cardinality(old) # 0
  BY <1>2, <1>3, FS_EmptySet
<1>7. Cardinality(new) = Cardinality(old) - 1 /\ Cardinality(old) > 0
  BY <1>1, <1>4, <1>5, <1>6
<1>8. Queued(after) = Cardinality(new) /\ Queued(status) = Cardinality(old)
  BY Zenon DEF old, new, Queued
<1> QED
  BY <1>5, <1>7, <1>8

\* Settling a timestamp preserves the invariant.
LEMMA SettleTimestampStep ==
    ASSUME IInv, NEW n \in DOMAIN tsa_status, SettleTimestamp(n)
    PROVE  IInv'
<1> DEFINE S == {"queued", "verified", "failed"}
<1>1. /\ UNCHANGED <<ledger, open_record, sealed_segment, sealed_record, idempotency>>
      /\ UNCHANGED <<pc, now, continuity, mem, work, boots, journal, answers>>
  BY DEF SettleTimestamp, process, history
<1> DEFINE bytes(outcome) == usage.bytes + IF outcome = "verified" THEN ResponseBytes ELSE 0
<1>2a. PICK outcome \in TsaOutcomes :
          /\ tsa_status' = [tsa_status EXCEPT ![n] = outcome]
          /\ usage' = [pending |-> usage.pending - 1, bytes |-> bytes(outcome)]
  BY Zenon DEF SettleTimestamp
<1>2. /\ tsa_status' = [tsa_status EXCEPT ![n] = outcome]
      /\ usage'.pending = usage.pending - 1
  <2> HIDE DEF bytes
  <2> QED
    BY <1>2a
<1>3. outcome \in S /\ outcome # "queued"
  BY CapacityAssumption
<1>4. /\ tsa_status \in [DOMAIN sealed_segment -> S]
      /\ usage.pending = Queued(tsa_status)
  BY DEF IInv, StoreInv, PendingIsExact, Queued
<1>5. IsFiniteSet(DOMAIN sealed_segment)
  <2>1. CASE ledger = None
    <3>1. DOMAIN sealed_segment = {}
      BY <2>1 DEF IInv, StoreInv, ChainIntact, NoRows
    <3> QED
      BY <3>1, FS_EmptySet
  <2>2. CASE ledger # None
    <3>1. /\ DOMAIN sealed_segment = 0..(ledger.next_segment_number - 1)
          /\ IsState(ledger)
      BY <2>2 DEF IInv, StoreInv, ChainIntact
    <3>2. ledger.next_segment_number - 1 \in Int
      BY <3>1, StateFields
    <3> QED
      BY <3>1, <3>2, FS_Interval
  <2> QED
    BY <2>1, <2>2
<1>6. tsa_status[n] = "queued"
  BY DEF SettleTimestamp
<1> HIDE DEF S
<1>7. /\ Queued(tsa_status') = Queued(tsa_status) - 1
      /\ Queued(tsa_status) \in Nat /\ Queued(tsa_status) > 0
  <2>1. DOMAIN tsa_status = DOMAIN sealed_segment
    BY <1>4
  <2>2. Settles(tsa_status, n, outcome, tsa_status')
    BY <1>2, <1>3, <1>5, <1>6, <2>1, Zenon DEF Settles
  <2> QED
    BY <2>2, QueueShrinks, Zenon
<1>8. PendingIsExact' /\ usage'.pending \in Nat
  BY <1>2, <1>4, <1>7 DEF PendingIsExact, Queued
<1>9. tsa_status' \in [DOMAIN sealed_segment' -> S]
  BY <1>1, <1>2, <1>3, <1>4
<1>10. StoreInv'
  BY <1>1, <1>8, <1>9 DEF IInv, StoreInv, OpenRowsInv, ChainIntact, S
<1>11. ClientInv' /\ Arrays'
  BY <1>1 DEF IInv, ClientInv, Arrays
<1>12. \A p \in Processes : ProcessInv(p)'
  BY <1>1, Zenon DEF IInv, ProcessInv
<1> QED
  BY <1>10, <1>11, <1>12, Zenon DEF IInv
-----------------------------------------------------------------------------
(* The theorems *)

\* The empty store with every process down satisfies the invariant.
LEMMA InitIInv == Init => IInv
<1> SUFFICES ASSUME Init PROVE IInv
  OBVIOUS
<1>1. DOMAIN NoRows = {} /\ NoRows \in [{} -> Records] /\ 0..(0 - 1) = {}
  BY DEF NoRows
<1>2. OpenRowsInv
  BY <1>1 DEF Init, OpenRowsInv
<1>3. PendingIsExact
  <2>1. {n \in DOMAIN tsa_status : tsa_status[n] = "queued"} = {}
    BY <1>1 DEF Init
  <2>2. usage.pending = 0
    BY DEF Init
  <2> QED
    BY <2>1, <2>2, FS_EmptySet DEF PendingIsExact
<1>4. ChainIntact
  BY DEF Init, ChainIntact
<1>5. /\ DOMAIN sealed_segment = {} /\ DOMAIN idempotency = {}
      /\ sealed_record \in [DOMAIN sealed_record -> Records]
      /\ usage.pending \in Nat
      /\ journal \in Seq([key : Keys, record : Records, segment : Nat])
      /\ ledger = None
  BY <1>1 DEF Init
<1>6. tsa_status \in [DOMAIN sealed_segment -> {"queued", "verified", "failed"}]
  BY <1>1, <1>5 DEF Init, NoRows
<1>7. StoreInv
  BY <1>2, <1>3, <1>4, <1>5, <1>6, Zenon DEF StoreInv
<1>8. ClientInv
  BY DEF Init, ClientInv
<1>9. Arrays
  BY DEF Init, Arrays
<1>10. ASSUME NEW p \in Processes PROVE ProcessInv(p)
  <2>1. LocalInv("down", 0, 0, None, None, ledger, open_record)
    BY DownLocal
  <2> QED
    BY <2>1 DEF Init, ProcessInv
<1> QED
  BY <1>7, <1>8, <1>9, <1>10, Zenon DEF IInv

\* Every step of every process, and every settled timestamp, preserves it.
LEMMA NextIInv == IInv /\ [Next]_vars => IInv'
<1> SUFFICES ASSUME IInv, [Next]_vars PROVE IInv'
  OBVIOUS
<1>1. CASE UNCHANGED vars
  <2>1. /\ UNCHANGED <<ledger, open_record, sealed_segment, sealed_record, tsa_status,
                       idempotency, usage>>
        /\ UNCHANGED <<pc, now, continuity, mem, work, boots, journal, answers>>
    BY <1>1 DEF vars, store, process, history
  <2>2. StoreInv'
    BY <2>1 DEF IInv, StoreInv, OpenRowsInv, ChainIntact, PendingIsExact
  <2>3. ClientInv' /\ Arrays'
    BY <2>1 DEF IInv, ClientInv, Arrays
  <2>4. \A p \in Processes : ProcessInv(p)'
    BY <2>1, Zenon DEF IInv, ProcessInv
  <2> QED
    BY <2>2, <2>3, <2>4, Zenon DEF IInv
<1>2. ASSUME NEW p \in Processes, Crash(p) \/ RecoverFails(p) PROVE IInv'
  BY <1>2, DownStep DEF Crash, RecoverFails
<1>3. ASSUME NEW p \in Processes,
             Start(p) \/ Tick(p) \/ LoadRow(p) \/ LoadRecords(p)
      PROVE  IInv'
  BY <1>3, StartStep, TickStep, LoadRowStep, LoadRecordsStep
<1>4. ASSUME NEW p \in Processes,
             BeginCreate(p) \/ BeginReactivate(p) \/ BeginRecover(p) \/ BeginSealExpired(p)
      PROVE  IInv'
  BY <1>4, BeginCreateStep, BeginReactivateStep, BeginRecoverStep, BeginSealExpiredStep
<1>5. ASSUME NEW p \in Processes,
             \/ \E reason \in CloseRequests : BeginClose(p, reason)
             \/ \E policy \in PolicyRequests : BeginReconfigure(p, policy)
             \/ \E policy \in PolicyRequests : BeginQueuePolicy(p, policy)
      PROVE  IInv'
  BY <1>5, BeginCloseStep, BeginReconfigureStep, BeginQueuePolicyStep
<1>6. ASSUME NEW p \in Processes,
             \/ \E request \in Requests : Replay(p, request)
             \/ \E request \in Requests : BeginAdmit(p, request)
      PROVE  IInv'
  BY <1>6, ReplayStep, BeginAdmitStep
<1>7. ASSUME NEW p \in Processes, CloseExpired(p) \/ PushRecord(p) \/ SealFails(p)
      PROVE  IInv'
  BY <1>7, CloseExpiredStep, PushRecordStep, SealFailsStep
<1>8. ASSUME NEW p \in Processes, Commit(p) \/ CommitUnseen(p) \/ Rollback(p)
      PROVE  IInv'
  BY <1>8, CommitStep, CommitUnseenStep, RollbackStep
<1>9. ASSUME NEW n \in DOMAIN tsa_status, SettleTimestamp(n) PROVE IInv'
  BY <1>9, SettleTimestampStep
<1> QED
  BY <1>1, <1>2, <1>3, <1>4, <1>5, <1>6, <1>7, <1>8, <1>9, Zenon DEF Next

\* The inductive invariant holds in every reachable state.
LEMMA Invariance == Spec => []IInv
BY InitIInv, NextIInv, PTL DEF Spec

\* Every table, process and history variable keeps its type, whatever the
\* processes, requests, policies and limits are.
THEOREM TypeCorrect == Spec => []TypeOK
<1>1. IInv => TypeOK
  <2> SUFFICES ASSUME IInv PROVE TypeOK
    OBVIOUS
  <2>1. DOMAIN open_record \subseteq Nat
    BY DEF IInv, StoreInv, OpenRowsInv
  <2>2. \A p \in Processes :
           /\ pc[p] \in {"down", "load", "rows", "open", "idle", "busy"}
           /\ now[p] \in Nat /\ continuity[p] \in Nat
           /\ mem[p] # None => IsState(mem[p])
           /\ IF pc[p] = "busy" THEN IsWork(work[p]) ELSE work[p] = None
    BY DEF IInv, ProcessInv, LocalInv, IsFollowing, IsBuilding
  <2>3. /\ pc \in [Processes -> {"down", "load", "rows", "open", "idle", "busy"}]
        /\ now \in [Processes -> Nat]
        /\ continuity \in [Processes -> Nat]
    BY <2>2 DEF IInv, Arrays
  <2>4. /\ mem \in [Processes -> {mem[p] : p \in Processes}]
        /\ work \in [Processes -> {work[p] : p \in Processes}]
    BY DEF IInv, Arrays
  <2> QED
    BY <2>1, <2>2, <2>3, <2>4, Zenon DEF IInv, StoreInv, OpenRowsInv, ClientInv, TypeOK
<1> QED
  BY <1>1, Invariance, PTL

\* The sealed segments always form one unbroken hash chain that ends at the
\* stored predecessor: no interleaving of processes, crash, unseen commit, torn
\* read or policy makes compare_and_swap insert a segment that breaks it.
THEOREM ChainIsIntact == Spec => []ChainIntact
<1>1. IInv => ChainIntact
  BY DEF IInv, StoreInv
<1> QED
  BY <1>1, Invariance, PTL

\* A process at the durable revision holds exactly the durable state, although
\* load() reads the row and the open records in two separate queries.
THEOREM WriterMirrors == Spec => []WriterMirrorsStore
<1>1. IInv => WriterMirrorsStore
  <2> SUFFICES ASSUME IInv, NEW p \in Processes,
                      pc[p] \in {"open", "idle", "busy"}, mem[p] # None
               PROVE  /\ ledger # None
                      /\ mem[p].revision <= ledger.revision
                      /\ mem[p].revision = ledger.revision =>
                            mem[p] = [ledger EXCEPT !.open.records = InOrder(open_record)]
    BY DEF WriterMirrorsStore
  <2> QED
    BY Zenon DEF IInv, ProcessInv, LocalInv, IsFollowing, Mirrors
<1> QED
  BY <1>1, Invariance, PTL

\* The pending counter that admission is limited by is always the number of
\* queued segments.
THEOREM PendingStaysExact == Spec => []PendingIsExact
<1>1. IInv => PendingIsExact
  BY DEF IInv, StoreInv
<1> QED
  BY <1>1, Invariance, PTL
=============================================================================
