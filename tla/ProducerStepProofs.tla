------------------------- MODULE ProducerStepProofs -------------------------
(***************************************************************************)
(* The inductive invariant of LedgerProducer, and the steps of one process *)
(* that leave the store alone: starting, loading, building a transition,   *)
(* failing.                                                                *)
(***************************************************************************)
EXTENDS LedgerProducer, SegmentsProofs

(* The inductive invariant *)

\* The transition of create().
IsFirst(w) ==
    /\ w.next.next_segment_number = 0
    /\ w.next.predecessor_cbor = None
    /\ w.next.open.records = <<>>
    /\ w.sealed = <<>>
    /\ w.request = None
    /\ w.numbers = <<>>
    /\ w.todo = <<>>

\* What a process knows of the store: step, at and id are its pc, clock and
\* continuity, m and w its state and transition, row and rows the durable ones.
Mirrors(m, row, rows) ==
    m.revision = row.revision => m = [row EXCEPT !.open.records = InOrder(rows)]

IsFollowing(step, m, row, rows) ==
    /\ step \in {"down", "load"} => m = None
    /\ step \in {"rows", "idle"} => m # None
    /\ m # None => IsState(m) /\ row # None /\ m.revision <= row.revision
    /\ step = "rows" /\ m.revision = row.revision => m = row
    /\ step \in {"open", "idle", "busy"} /\ m # None => Mirrors(m, row, rows)

IsBuilding(m, w) ==
    /\ IsWork(w)
    /\ w.kind = "create" => m = None /\ IsFirst(w)
    /\ w.kind # "create" => m # None /\ Built(m, w)

LocalInv(step, at, id, m, w, row, rows) ==
    /\ step \in {"down", "load", "rows", "open", "idle", "busy"}
    /\ at \in Nat
    /\ id \in Nat
    /\ IsFollowing(step, m, row, rows)
    /\ IF step = "busy" THEN IsBuilding(m, w) ELSE w = None

ProcessInv(p) ==
    LocalInv(pc[p], now[p], continuity[p], mem[p], work[p], ledger, open_record)

Arrays ==
    /\ pc = [p \in Processes |-> pc[p]]
    /\ now = [p \in Processes |-> now[p]]
    /\ continuity = [p \in Processes |-> continuity[p]]
    /\ mem = [p \in Processes |-> mem[p]]
    /\ work = [p \in Processes |-> work[p]]

OpenRowsInv ==
    /\ open_record \in [DOMAIN open_record -> Records]
    /\ \E n \in Nat : DOMAIN open_record = 0..(n - 1)
    /\ ledger = None => open_record = NoRows

StoreInv ==
    /\ ledger # None => IsState(ledger)
    /\ OpenRowsInv
    /\ \A n \in DOMAIN sealed_segment :
          sealed_segment[n] # None /\ IsOptionalArtifact(sealed_segment[n])
    /\ ChainIntact
    /\ sealed_record \in [DOMAIN sealed_record -> Records]
    /\ tsa_status \in [DOMAIN sealed_segment -> {"queued", "verified", "failed"}]
    /\ DOMAIN idempotency \subseteq Keys
    /\ usage.pending \in Nat
    /\ PendingIsExact
    /\ journal \in Seq([key : Keys, record : Records, segment : Nat])

ClientInv ==
    /\ boots \in Nat
    /\ \A a \in answers : a[1] \in Keys

IInv ==
    /\ StoreInv
    /\ ClientInv
    /\ Arrays
    /\ \A p \in Processes : ProcessInv(p)
-----------------------------------------------------------------------------
(* Steps of one process that leave the store alone *)

\* Writing one entry of an array leaves the others as they were.
LEMMA ExceptAt ==
    ASSUME NEW S, NEW f, f = [q \in S |-> f[q]], NEW p \in S, NEW x,
           NEW g, g = [f EXCEPT ![p] = x]
    PROVE  /\ g = [q \in S |-> g[q]]
           /\ g[p] = x
           /\ \A q \in S : q # p => g[q] = f[q]
<1> DEFINE V == {f[q] : q \in S} \cup {x}
<1>1. f \in [S -> V]
  <2>1. \A q \in S : f[q] \in V
    OBVIOUS
  <2> HIDE DEF V
  <2> QED
    BY <2>1
<1> HIDE DEF V
<1> QED
  BY <1>1

\* An entry written with its own value changes nothing.
LEMMA ExceptSame ==
    ASSUME NEW S, NEW f, f = [q \in S |-> f[q]], NEW p \in S
    PROVE  f = [f EXCEPT ![p] = f[p]]
OBVIOUS

\* A step of process p that leaves the store alone preserves the invariant when
\* it preserves what is said of p.
LEMMA LocalStep ==
    ASSUME IInv, NEW p \in Processes, UNCHANGED store, UNCHANGED journal, ClientInv',
           NEW step, NEW at, NEW id, NEW m, NEW w,
           pc' = [pc EXCEPT ![p] = step],
           now' = [now EXCEPT ![p] = at],
           continuity' = [continuity EXCEPT ![p] = id],
           mem' = [mem EXCEPT ![p] = m],
           work' = [work EXCEPT ![p] = w],
           LocalInv(step, at, id, m, w, ledger, open_record)
    PROVE  IInv'
<1>1. StoreInv'
  BY DEF IInv, StoreInv, OpenRowsInv, ChainIntact, PendingIsExact, store
<1>2. Arrays' /\ \A q \in Processes : q # p =>
                    /\ pc'[q] = pc[q] /\ now'[q] = now[q]
                    /\ continuity'[q] = continuity[q]
                    /\ mem'[q] = mem[q] /\ work'[q] = work[q]
  <2>1. Arrays
    BY DEF IInv
  <2> QED
    BY <2>1, ExceptAt, Zenon DEF Arrays
<1>3. /\ pc'[p] = step /\ now'[p] = at /\ continuity'[p] = id
      /\ mem'[p] = m /\ work'[p] = w
  <2>1. Arrays
    BY DEF IInv
  <2> QED
    BY <2>1, ExceptAt, Zenon DEF Arrays
<1>4. ledger' = ledger /\ open_record' = open_record
  BY DEF store
<1>5. ASSUME NEW q \in Processes PROVE ProcessInv(q)'
  <2>1. CASE q = p
    BY <2>1, <1>3, <1>4, Zenon DEF ProcessInv
  <2>2. CASE q # p
    <3>1. ProcessInv(q)
      BY DEF IInv
    <3> QED
      BY <2>2, <3>1, <1>2, <1>4, Zenon DEF ProcessInv
  <2> QED
    BY <2>1, <2>2
<1> QED
  BY <1>1, <1>2, <1>5 DEF IInv
-----------------------------------------------------------------------------
(* What a process's start, clock and load() keep of its invariant *)

\* A process that is down knows nothing.
LEMMA DownLocal ==
    ASSUME NEW row, NEW rows
    PROVE  LocalInv("down", 0, 0, None, None, row, rows)
BY DEF LocalInv, IsFollowing

\* A started process has a continuity and has loaded nothing.
LEMMA StartLocal ==
    ASSUME NEW at, NEW id, NEW m, NEW w, NEW row, NEW rows,
           LocalInv("down", at, id, m, w, row, rows), NEW b \in Nat
    PROVE  LocalInv("load", at, b, m, w, row, rows)
BY DEF LocalInv, IsFollowing

\* A tick changes only the clock.
LEMMA TickLocal ==
    ASSUME NEW step, NEW at, NEW id, NEW m, NEW w, NEW row, NEW rows,
           LocalInv(step, at, id, m, w, row, rows)
    PROVE  LocalInv(step, at + 1, id, m, w, row, rows)
<1>1. at \in Nat => at + 1 \in Nat
  OBVIOUS
<1> QED
  BY <1>1, Zenon DEF LocalInv

\* load()'s first query: the row is the durable one at its revision.
LEMMA LoadRowLocal ==
    ASSUME NEW at, NEW id, NEW m, NEW w, NEW row, NEW rows,
           LocalInv("load", at, id, m, w, row, rows), row # None => IsState(row)
    PROVE  LocalInv(IF row = None THEN "open" ELSE "rows", at, id, row, w, row, rows)
<1>1. CASE row = None
  BY <1>1 DEF LocalInv, IsFollowing
<1>2. CASE row # None
  <2>1. row.revision <= row.revision
    BY <1>2, StateFields
  <2> QED
    BY <1>2, <2>1 DEF LocalInv, IsFollowing
<1> QED
  BY <1>1, <1>2

\* A state keeps its type and its place in the chain when its records change.
LEMMA WithRecords ==
    ASSUME NEW s, IsState(s), NEW records \in Seq(Records)
    PROVE  /\ IsState([s EXCEPT !.open.records = records])
           /\ [s EXCEPT !.open.records = records].revision = s.revision
           /\ [s EXCEPT !.open.records = records].next_segment_number = s.next_segment_number
           /\ [s EXCEPT !.open.records = records].predecessor_cbor = s.predecessor_cbor
           /\ [s EXCEPT !.open.records = records].open.records = records
BY Zenon DEF IsState, OpenInterval

\* load()'s second query returns a sequence of records.
LEMMA RowsInOrder ==
    ASSUME NEW rows, rows \in [DOMAIN rows -> Records],
           NEW n \in Nat, DOMAIN rows = 0..(n - 1)
    PROVE  InOrder(rows) \in Seq(Records)
<1>1. InOrder(rows) = [i \in 1..n |-> rows[i - 1]]
  BY InOrderLemma
<1>2. \A i \in 1..n : i - 1 \in 0..(n - 1)
  OBVIOUS
<1>3. [i \in 1..n |-> rows[i - 1]] \in [1..n -> Records]
  BY <1>2
<1> QED
  BY <1>1, <1>3, FunctionIsSequence

\* load()'s second query: if the revision is still the durable one, then so are
\* the open records, although the row was read before.
LEMMA LoadRecordsLocal ==
    ASSUME NEW at, NEW id, NEW m, NEW w, NEW row, NEW rows,
           LocalInv("rows", at, id, m, w, row, rows), InOrder(rows) \in Seq(Records)
    PROVE  LocalInv("open", at, id, [m EXCEPT !.open.records = InOrder(rows)], w, row, rows)
<1> DEFINE loaded == [m EXCEPT !.open.records = InOrder(rows)]
<1>1. /\ IsState(m) /\ row # None /\ m.revision <= row.revision
      /\ m.revision = row.revision => m = row
      /\ at \in Nat /\ id \in Nat /\ w = None
  BY DEF LocalInv, IsFollowing
<1>2. IsState(loaded) /\ loaded.revision = m.revision
  BY <1>1, WithRecords, Zenon
<1>3. Mirrors(loaded, row, rows)
  BY <1>1, <1>2 DEF Mirrors
<1> HIDE DEF loaded
<1>4. IsFollowing("open", loaded, row, rows)
  BY <1>1, <1>2, <1>3 DEF IsFollowing
<1>5. LocalInv("open", at, id, loaded, w, row, rows)
  BY <1>1, <1>4 DEF LocalInv
<1> QED
  BY <1>5 DEF loaded
-----------------------------------------------------------------------------
(* Building a transition *)

\* A process that holds a state, or none for create(), begins a transition.
LEMMA BeginLocal ==
    ASSUME NEW step \in {"open", "idle"}, NEW at, NEW id, NEW m, NEW v, NEW w,
           NEW row, NEW rows, LocalInv(step, at, id, m, v, row, rows), IsBuilding(m, w)
    PROVE  LocalInv("busy", at, id, m, w, row, rows)
BY DEF LocalInv, IsFollowing

\* A busy process may replace its transition by another well-built one.
LEMMA BusyLocal ==
    ASSUME NEW at, NEW id, NEW m, NEW v, NEW w,
           NEW row, NEW rows, LocalInv("busy", at, id, m, v, row, rows), IsBuilding(m, w)
    PROVE  LocalInv("busy", at, id, m, w, row, rows)
BY DEF LocalInv, IsFollowing

\* A failed operation leaves the process's state as it was.
LEMMA FailLocal ==
    ASSUME NEW at, NEW id, NEW m, NEW w, NEW row, NEW rows,
           LocalInv("busy", at, id, m, w, row, rows), w.kind # "create"
    PROVE  LocalInv("idle", at, id, m, None, row, rows)
BY DEF LocalInv, IsFollowing, IsBuilding

\* Work gives the fields it is asked for.
LEMMA WorkType ==
    ASSUME NEW kind \in Startup \cup {"close", "reconfigure", "policy", "expire", "admit"},
           NEW at \in Nat, NEW next, IsState(next), NEW sealed, AreSealed(sealed),
           NEW request \in Requests \cup {None}
    PROVE  IsWork(Work(kind, at, next, sealed, request))
<1> DEFINE todo == IF request = None THEN <<>> ELSE request.records
<1>1. todo \in Seq(Records)
  BY RequestAssumption
<1>2. <<>> \in Seq(Nat)
  OBVIOUS
<1> HIDE DEF todo
<1>3. Work(kind, at, next, sealed, request) =
         [kind |-> kind, at |-> at, next |-> next, sealed |-> sealed,
          request |-> request, numbers |-> <<>>, todo |-> todo]
  BY DEF Work, todo
<1> QED
  BY <1>1, <1>2, <1>3 DEF IsWork

\* Both states continue the same chain with the same open records.
SameChain(s, t) ==
    /\ IsState(t)
    /\ t.next_segment_number = s.next_segment_number
    /\ t.predecessor_cbor = s.predecessor_cbor
    /\ t.open.records = s.open.records

\* What an operation sets besides sealing keeps the chain and the records.
LEMMA StampedChain ==
    ASSUME NEW s, IsState(s), NEW at \in Nat, NEW id \in Nat
    PROVE  SameChain(s, [s EXCEPT !.open.opened_at_ms = at,
                                  !.open.clock_continuity_id = id])
<1> DEFINE s1 == [s EXCEPT !.open.opened_at_ms = at]
<1>1. SameChain(s, s1)
  BY DEF SameChain, IsState, OpenInterval
<1> HIDE DEF s1
<1>2. SameChain(s, [s1 EXCEPT !.open.clock_continuity_id = id])
  BY <1>1, Zenon DEF SameChain, IsState, OpenInterval
<1> QED
  BY <1>2 DEF s1

\* Setting active leaves the chain position and the records alone.
LEMMA ActiveChain ==
    ASSUME NEW s, NEW t, SameChain(s, t), NEW b \in BOOLEAN
    PROVE  SameChain(s, [t EXCEPT !.active = b])
BY DEF SameChain, IsState

\* Queueing a policy leaves the chain position and the records alone.
LEMMA NextPolicyChain ==
    ASSUME NEW s, NEW t, SameChain(s, t), NEW policy \in ClosurePolicy
    PROVE  SameChain(s, [t EXCEPT !.next_policy = policy])
BY DEF SameChain, IsState

\* Setting the open interval's policy leaves them alone.
LEMMA OpenPolicyChain ==
    ASSUME NEW s, NEW t, SameChain(s, t), NEW policy \in ClosurePolicy
    PROVE  SameChain(s, [t EXCEPT !.open.policy = policy])
BY DEF SameChain, IsState, OpenInterval

\* A state has its own chain position and records.
LEMMA ChainReflexive ==
    ASSUME NEW s, IsState(s)
    PROVE  SameChain(s, s)
BY DEF SameChain

\* A transition that has sealed nothing yet.
LEMMA OpenWork ==
    ASSUME NEW m, IsState(m), NEW next, SameChain(m, next), NEW at \in Nat,
           NEW kind \in {"reactivate", "policy", "expire", "admit"},
           NEW request \in Requests \cup {None}
    PROVE  IsBuilding(m, Work(kind, at, next, <<>>, request))
<1> DEFINE w == Work(kind, at, next, <<>>, request)
<1>1. IsWork(w)
  <2>1. IsState(next)
    BY DEF SameChain
  <2>2. kind \in Startup \cup {"close", "reconfigure", "policy", "expire", "admit"}
    BY DEF Startup
  <2> QED
    BY <2>1, <2>2, NothingSealed, WorkType
<1>2. /\ w.kind = kind /\ w.next = next /\ w.sealed = <<>> /\ w.numbers = <<>>
      /\ w.request = request
      /\ w.todo = IF request = None THEN <<>> ELSE request.records
  BY DEF Work
<1>3. request # None => request.records \in Seq(Records)
  BY RequestAssumption
<1> HIDE DEF w
<1>4. /\ w.next.next_segment_number = m.next_segment_number
      /\ w.next.predecessor_cbor = m.predecessor_cbor
      /\ w.next.open.records = m.open.records
      /\ w.sealed = <<>> /\ w.numbers = <<>>
      /\ w.todo = IF w.request = None THEN <<>> ELSE w.request.records
      /\ w.request # None => w.request.records \in Seq(Records)
  BY <1>2, <1>3, Zenon DEF SameChain
<1>5. Built(m, w)
  BY <1>4, BuiltStart
<1>6. m # None /\ w.kind # "create"
  BY <1>2, StateIsSome
<1>7. IsBuilding(m, w)
  BY <1>1, <1>5, <1>6 DEF IsBuilding
<1> QED
  BY <1>7 DEF w

\* A transition that starts by sealing the open interval.
LEMMA SealWork ==
    ASSUME NEW m, IsState(m), NEW reason \in CloseReason, ~CannotSeal(m, reason),
           NEW at \in Nat, NEW next, SameChain(SealOpen(m, at, reason), next),
           NEW kind \in {"recover", "close", "reconfigure"}
    PROVE  IsBuilding(m, Work(kind, at, next, SealedBy(m, reason), None))
<1> DEFINE v == Work("policy", at, m, <<>>, None)
           w == Work(kind, at, next, SealedBy(m, reason), None)
<1>1. IsBuilding(m, v)
  BY ChainReflexive, OpenWork
<1>2. IsWork(w)
  <2>1. IsState(next)
    BY DEF SameChain
  <2>2. kind \in Startup \cup {"close", "reconfigure", "policy", "expire", "admit"}
    BY DEF Startup
  <2> QED
    BY <2>1, <2>2, SealedByType, WorkType
<1>3. /\ v.kind = "policy" /\ v.next = m /\ v.sealed = <<>> /\ v.numbers = <<>>
      /\ v.request = None /\ v.todo = <<>>
  BY DEF Work
<1>4. /\ w.kind = kind /\ w.next = next /\ w.sealed = SealedBy(m, reason)
      /\ w.numbers = <<>> /\ w.request = None /\ w.todo = <<>>
  BY DEF Work
<1> HIDE DEF v, w
<1>5. Built(m, v)
  BY <1>1, <1>3 DEF IsBuilding
<1>6. v.sealed \o SealedBy(v.next, reason) = SealedBy(m, reason)
  <2>1. SealedBy(m, reason) \in Seq({SealedBy(m, reason)[i] : i \in DOMAIN SealedBy(m, reason)})
    BY SealedByType DEF AreSealed, IsSequence
  <2> QED
    BY <1>3, <2>1
<1>7. SealOpen(m, at, reason).open.records = <<>>
  BY SealOpenType
<1>8. /\ IsState(v.next) /\ AreSealed(v.sealed) /\ v.numbers \in Seq(Nat)
      /\ ~CannotSeal(v.next, reason)
  BY <1>3, NothingSealed
<1>9. /\ w.sealed = v.sealed \o SealedBy(v.next, reason)
      /\ w.next.next_segment_number = SealOpen(v.next, at, reason).next_segment_number
      /\ w.next.predecessor_cbor = SealOpen(v.next, at, reason).predecessor_cbor
      /\ w.next.open.records = <<>>
      /\ w.numbers = v.numbers /\ w.todo = v.todo /\ w.request = v.request
  BY <1>3, <1>4, <1>6, <1>7, Zenon DEF SameChain
<1>10. Built(m, w)
  BY <1>5, <1>8, <1>9, BuiltSeal, Zenon
<1>11. m # None /\ w.kind # "create"
  BY <1>4, StateIsSome
<1>12. IsBuilding(m, w)
  BY <1>2, <1>10, <1>11 DEF IsBuilding
<1> QED
  BY <1>12 DEF w

\* The fields of a transition have their types.
LEMMA WorkFields ==
    ASSUME NEW w, IsWork(w)
    PROVE  /\ w.kind \in Startup \cup {"close", "reconfigure", "policy", "expire", "admit"}
           /\ w.at \in Nat
           /\ IsState(w.next)
           /\ AreSealed(w.sealed)
           /\ w.request \in Requests \cup {None}
           /\ w.numbers \in Seq(Nat)
           /\ w.todo \in Seq(Records)
BY DEF IsWork

\* A transition with another next state, sealed segments, numbers and records to
\* push.
Updated(w, todo, numbers, next, sealed) ==
    [w EXCEPT !.todo = todo, !.numbers = numbers, !.next = next, !.sealed = sealed]

\* The fields of an updated transition.
LEMMA UpdatedFields ==
    ASSUME NEW w, IsWork(w), NEW todo, NEW numbers, NEW next, NEW sealed
    PROVE  Updated(w, todo, numbers, next, sealed) =
              [kind |-> w.kind, at |-> w.at, next |-> next, sealed |-> sealed,
               request |-> w.request, numbers |-> numbers, todo |-> todo]
<1> DEFINE v == Updated(w, todo, numbers, next, sealed)
<1>1. v \in [kind : {w.kind}, at : {w.at}, next : {next}, sealed : {sealed},
             request : {w.request}, numbers : {numbers}, todo : {todo}]
  BY Zenon DEF IsWork, Updated
<1> HIDE DEF v
<1>2. v = [kind |-> w.kind, at |-> w.at, next |-> next, sealed |-> sealed,
           request |-> w.request, numbers |-> numbers, todo |-> todo]
  BY <1>1
<1> QED
  BY <1>2 DEF v

\* The fields of a transition after one turn of close_expired.
LEMMA SealedFields ==
    ASSUME NEW w, IsWork(w), NEW next, NEW sealed
    PROVE  [w EXCEPT !.next = next, !.sealed = sealed] =
              [kind |-> w.kind, at |-> w.at, next |-> next, sealed |-> sealed,
               request |-> w.request, numbers |-> w.numbers, todo |-> w.todo]
<1> DEFINE v == [w EXCEPT !.next = next, !.sealed = sealed]
<1>1. v \in [kind : {w.kind}, at : {w.at}, next : {next}, sealed : {sealed},
             request : {w.request}, numbers : {w.numbers}, todo : {w.todo}]
  BY Zenon DEF IsWork
<1> HIDE DEF v
<1>2. v = [kind |-> w.kind, at |-> w.at, next |-> next, sealed |-> sealed,
           request |-> w.request, numbers |-> w.numbers, todo |-> w.todo]
  BY <1>1
<1> QED
  BY <1>2 DEF v

\* An updated transition is typed when what it is given is.
LEMMA WorkUpdate ==
    ASSUME NEW w, IsWork(w), NEW next, IsState(next), NEW sealed, AreSealed(sealed),
           NEW numbers \in Seq(Nat), NEW todo \in Seq(Records)
    PROVE  LET v == Updated(w, todo, numbers, next, sealed) IN
           /\ IsWork(v)
           /\ v.kind = w.kind /\ v.at = w.at /\ v.request = w.request
           /\ v.next = next /\ v.sealed = sealed
           /\ v.numbers = numbers /\ v.todo = todo
BY Zenon DEF IsWork, Updated

\* close_expired seals the interval at its boundary.
LEMMA ExpireBuilding ==
    ASSUME NEW m, NEW w, IsBuilding(m, w), w.kind # "create", m # None => IsState(m),
           NEW t \in Nat, NEW reason \in CloseReason, ~CannotSeal(w.next, reason),
           NEW v, v = Updated(w, w.todo, w.numbers, SealOpen(w.next, t, reason),
                              w.sealed \o SealedBy(w.next, reason))
    PROVE  IsBuilding(m, v)
<1>1. IsWork(w) /\ IsState(m) /\ Built(m, w) /\ m # None
  BY DEF IsBuilding
<1>2. /\ IsState(w.next) /\ AreSealed(w.sealed)
      /\ w.numbers \in Seq(Nat) /\ w.todo \in Seq(Records)
  BY <1>1, WorkFields
<1> DEFINE next == SealOpen(w.next, t, reason)
           sealed == w.sealed \o SealedBy(w.next, reason)
<1>3. IsState(next) /\ next.open.records = <<>>
  BY <1>2, SealOpenType
<1>4. AreSealed(sealed)
  BY <1>2, SealedConcat
<1>5. v = Updated(w, w.todo, w.numbers, next, sealed)
  OBVIOUS
<1> HIDE DEF next, sealed
<1>6. /\ IsWork(v)
      /\ v.kind = w.kind /\ v.request = w.request
      /\ v.next = next /\ v.sealed = sealed
      /\ v.numbers = w.numbers /\ v.todo = w.todo
  <2> DEFINE u == Updated(w, w.todo, w.numbers, next, sealed)
  <2>1. /\ IsWork(u)
        /\ u.kind = w.kind /\ u.request = w.request
        /\ u.next = next /\ u.sealed = sealed
        /\ u.numbers = w.numbers /\ u.todo = w.todo
    BY <1>1, <1>2, <1>3, <1>4, WorkUpdate
  <2> HIDE DEF u
  <2>2. v = u
    BY <1>5 DEF u
  <2> QED
    BY <2>1, <2>2
<1>7. /\ v.sealed = w.sealed \o SealedBy(w.next, reason)
      /\ v.next.next_segment_number = SealOpen(w.next, t, reason).next_segment_number
      /\ v.next.predecessor_cbor = SealOpen(w.next, t, reason).predecessor_cbor
      /\ v.next.open.records = <<>>
  BY <1>3, <1>6, Zenon DEF next, sealed
<1>8. Built(m, v)
  BY <1>1, <1>2, <1>6, <1>7, BuiltSeal, Zenon
<1> QED
  BY <1>1, <1>6, <1>8, Zenon DEF IsBuilding

\* admit_batch_inner pushes one record.
LEMMA PushBuilding ==
    ASSUME NEW m, NEW w, IsBuilding(m, w), w.todo # <<>>, m # None => IsState(m),
           NEW v, v = Updated(w, Tail(w.todo),
                              Append(w.numbers, w.next.next_segment_number),
                              Pushed(w.next, Head(w.todo)), w.sealed)
    PROVE  /\ IsBuilding(m, v)
           /\ v.kind # "create" /\ v.at = w.at
           /\ v.numbers = Append(w.numbers, w.next.next_segment_number)
           /\ v.next = Pushed(w.next, Head(w.todo))
           /\ v.sealed = w.sealed
           /\ v.todo = Tail(w.todo)
<1>1. IsWork(w) /\ w.kind # "create" /\ IsState(m) /\ Built(m, w) /\ m # None
  BY DEF IsBuilding, IsFirst
<1>2. /\ IsState(w.next) /\ AreSealed(w.sealed)
      /\ w.numbers \in Seq(Nat) /\ w.todo \in Seq(Records)
  BY <1>1, WorkFields
<1> DEFINE next == Pushed(w.next, Head(w.todo))
           numbers == Append(w.numbers, w.next.next_segment_number)
           todo == Tail(w.todo)
<1>3. Head(w.todo) \in Records /\ todo \in Seq(Records)
  BY <1>2
<1>4. /\ IsState(next)
      /\ next.next_segment_number = w.next.next_segment_number
      /\ next.predecessor_cbor = w.next.predecessor_cbor
      /\ next.open.records = Append(w.next.open.records, Head(w.todo))
  BY <1>2, <1>3, PushedType, Zenon
<1>5. numbers \in Seq(Nat)
  <2>1. w.next.next_segment_number \in Nat
    BY <1>2, StateFields
  <2> QED
    BY <1>2, <2>1
<1>6. v = Updated(w, todo, numbers, next, w.sealed)
  OBVIOUS
<1> HIDE DEF next, numbers, todo
<1>7. /\ IsWork(v)
      /\ v.kind = w.kind /\ v.request = w.request /\ v.at = w.at
      /\ v.next = next /\ v.sealed = w.sealed
      /\ v.numbers = numbers /\ v.todo = todo
  <2> DEFINE u == Updated(w, todo, numbers, next, w.sealed)
  <2>1. /\ IsWork(u)
        /\ u.kind = w.kind /\ u.request = w.request /\ u.at = w.at
        /\ u.next = next /\ u.sealed = w.sealed
        /\ u.numbers = numbers /\ u.todo = todo
    BY <1>1, <1>2, <1>3, <1>4, <1>5, WorkUpdate
  <2> HIDE DEF u
  <2>2. v = u
    BY <1>6 DEF u
  <2> QED
    BY <2>1, <2>2
<1>8. /\ v.next.next_segment_number = w.next.next_segment_number
      /\ v.next.predecessor_cbor = w.next.predecessor_cbor
      /\ v.next.open.records = Append(w.next.open.records, Head(w.todo))
      /\ v.numbers = Append(w.numbers, w.next.next_segment_number)
      /\ v.todo = Tail(w.todo)
  BY <1>4, <1>7, Zenon DEF numbers, todo
<1>9. Built(m, v)
  BY <1>1, <1>2, <1>7, <1>8, BuiltPush, Zenon
<1>10. IsBuilding(m, v)
  BY <1>1, <1>7, <1>9, Zenon DEF IsBuilding
<1> QED
  BY <1>1, <1>7, <1>8, <1>10, Zenon DEF next
-----------------------------------------------------------------------------
(* Each action that leaves the store alone preserves the invariant *)

\* A variable a process does not write keeps its entry.
LEMMA Untouched ==
    ASSUME IInv, NEW p \in Processes
    PROVE  /\ pc = [pc EXCEPT ![p] = pc[p]]
           /\ now = [now EXCEPT ![p] = now[p]]
           /\ continuity = [continuity EXCEPT ![p] = continuity[p]]
           /\ mem = [mem EXCEPT ![p] = mem[p]]
           /\ work = [work EXCEPT ![p] = work[p]]
<1>1. Arrays
  BY DEF IInv
<1> QED
  BY <1>1, ExceptSame, Zenon DEF Arrays

\* What the invariant says of one process.
LEMMA LocalOf ==
    ASSUME IInv, NEW p \in Processes
    PROVE  /\ LocalInv(pc[p], now[p], continuity[p], mem[p], work[p], ledger, open_record)
           /\ now[p] \in Nat /\ continuity[p] \in Nat
           /\ mem[p] # None => IsState(mem[p])
           /\ pc[p] = "idle" => mem[p] # None
           /\ pc[p] = "busy" => IsBuilding(mem[p], work[p])
BY DEF IInv, ProcessInv, LocalInv, IsFollowing

\* Steps that neither start a process nor answer a client keep ClientInv.
LEMMA ClientSame ==
    ASSUME IInv, boots' = boots, answers' = answers
    PROVE  ClientInv'
BY DEF IInv, ClientInv

\* Losing a process preserves the invariant.
LEMMA DownStep ==
    ASSUME IInv, NEW p \in Processes, Down(p), UNCHANGED <<store, boots, history>>
    PROVE  IInv'
<1>1. LocalInv("down", 0, 0, None, None, ledger, open_record)
  BY DownLocal
<1>2. UNCHANGED store /\ UNCHANGED journal /\ ClientInv'
  BY ClientSame DEF history
<1> QED
  BY <1>1, <1>2, LocalStep, Zenon DEF Down

\* Beginning an operation with a well-built transition preserves it.
LEMMA BeginStep ==
    ASSUME IInv, NEW p \in Processes, pc[p] \in {"open", "idle"},
           NEW w, IsBuilding(mem[p], w), Begin(p, w)
    PROVE  IInv'
<1>1. LocalInv("busy", now[p], continuity[p], mem[p], w, ledger, open_record)
  BY LocalOf, BeginLocal
<1>2. UNCHANGED store /\ UNCHANGED journal /\ ClientInv'
  BY ClientSame DEF history, Begin
<1>3. /\ pc' = [pc EXCEPT ![p] = "busy"]
      /\ now' = [now EXCEPT ![p] = now[p]]
      /\ continuity' = [continuity EXCEPT ![p] = continuity[p]]
      /\ mem' = [mem EXCEPT ![p] = mem[p]]
      /\ work' = [work EXCEPT ![p] = w]
  BY Untouched, Zenon DEF Begin
<1> QED
  BY <1>1, <1>2, <1>3, LocalStep, Zenon

\* Only the transition of p changes.
SetWork(p, w) ==
    /\ work' = [work EXCEPT ![p] = w]
    /\ UNCHANGED <<store, pc, now, continuity, mem, boots, history>>

\* Replacing the transition by a well-built one preserves it.
LEMMA WorkStep ==
    ASSUME IInv, NEW p \in Processes, pc[p] = "busy",
           NEW w, IsBuilding(mem[p], w), SetWork(p, w)
    PROVE  IInv'
<1>1. LocalInv("busy", now[p], continuity[p], mem[p], w, ledger, open_record)
  BY LocalOf, BusyLocal
<1>2. UNCHANGED store /\ UNCHANGED journal /\ ClientInv'
  BY ClientSame DEF history, SetWork
<1>3. /\ pc' = [pc EXCEPT ![p] = "busy"]
      /\ now' = [now EXCEPT ![p] = now[p]]
      /\ continuity' = [continuity EXCEPT ![p] = continuity[p]]
      /\ mem' = [mem EXCEPT ![p] = mem[p]]
      /\ work' = [work EXCEPT ![p] = w]
  BY Untouched, Zenon DEF SetWork
<1> QED
  BY <1>1, <1>2, <1>3, LocalStep, Zenon

\* A failing operation preserves it.
LEMMA FailStep ==
    ASSUME IInv, NEW p \in Processes, pc[p] = "busy", Fail(p),
           UNCHANGED <<store, boots, history>>
    PROVE  IInv'
<1>1. CASE work[p].kind \in Startup
  BY <1>1, DownStep DEF Fail
<1>2. CASE work[p].kind \notin Startup
  <2>1. LocalInv("idle", now[p], continuity[p], mem[p], None, ledger, open_record)
    BY <1>2, LocalOf, FailLocal DEF Startup
  <2>2. UNCHANGED store /\ UNCHANGED journal /\ ClientInv'
    BY ClientSame DEF history
  <2>3. /\ pc' = [pc EXCEPT ![p] = "idle"]
        /\ now' = [now EXCEPT ![p] = now[p]]
        /\ continuity' = [continuity EXCEPT ![p] = continuity[p]]
        /\ mem' = [mem EXCEPT ![p] = mem[p]]
        /\ work' = [work EXCEPT ![p] = None]
    BY <1>2, Untouched, Zenon DEF Fail
  <2> QED
    BY <2>1, <2>2, <2>3, LocalStep, Zenon
<1> QED
  BY <1>1, <1>2

\* Starting a process preserves the invariant.
LEMMA StartStep ==
    ASSUME IInv, NEW p \in Processes, Start(p)
    PROVE  IInv'
<1>1. boots + 1 \in Nat
  BY DEF IInv, ClientInv
<1>2. LocalInv("load", now[p], boots + 1, mem[p], work[p], ledger, open_record)
  BY <1>1, LocalOf, StartLocal DEF Start
<1>3. UNCHANGED store /\ UNCHANGED journal /\ ClientInv'
  BY <1>1 DEF history, Start, ClientInv, IInv
<1>4. /\ pc' = [pc EXCEPT ![p] = "load"]
      /\ now' = [now EXCEPT ![p] = now[p]]
      /\ continuity' = [continuity EXCEPT ![p] = boots + 1]
      /\ mem' = [mem EXCEPT ![p] = mem[p]]
      /\ work' = [work EXCEPT ![p] = work[p]]
  BY Untouched, Zenon DEF Start
<1> QED
  BY <1>2, <1>3, <1>4, LocalStep, Zenon

\* A clock tick preserves it.
LEMMA TickStep ==
    ASSUME IInv, NEW p \in Processes, Tick(p)
    PROVE  IInv'
<1>2. LocalInv(pc[p], now[p] + 1, continuity[p], mem[p], work[p], ledger, open_record)
  BY LocalOf, TickLocal
<1>3. UNCHANGED store /\ UNCHANGED journal /\ ClientInv'
  BY ClientSame DEF history, Tick
<1>4. /\ pc' = [pc EXCEPT ![p] = pc[p]]
      /\ now' = [now EXCEPT ![p] = now[p] + 1]
      /\ continuity' = [continuity EXCEPT ![p] = continuity[p]]
      /\ mem' = [mem EXCEPT ![p] = mem[p]]
      /\ work' = [work EXCEPT ![p] = work[p]]
  BY Untouched, Zenon DEF Tick
<1> QED
  BY <1>2, <1>3, <1>4, LocalStep, Zenon

\* load()'s first query preserves it.
LEMMA LoadRowStep ==
    ASSUME IInv, NEW p \in Processes, LoadRow(p)
    PROVE  IInv'
<1> DEFINE step == IF ledger = None THEN "open" ELSE "rows"
<1>1. ledger # None => IsState(ledger)
  BY DEF IInv, StoreInv
<1>2. LocalInv(step, now[p], continuity[p], ledger, work[p], ledger, open_record)
  BY <1>1, LocalOf, LoadRowLocal DEF LoadRow
<1>3. UNCHANGED store /\ UNCHANGED journal /\ ClientInv'
  BY ClientSame DEF history, LoadRow
<1>4. /\ pc' = [pc EXCEPT ![p] = step]
      /\ now' = [now EXCEPT ![p] = now[p]]
      /\ continuity' = [continuity EXCEPT ![p] = continuity[p]]
      /\ mem' = [mem EXCEPT ![p] = ledger]
      /\ work' = [work EXCEPT ![p] = work[p]]
  BY Untouched, Zenon DEF LoadRow
<1> HIDE DEF step
<1> QED
  BY <1>2, <1>3, <1>4, LocalStep, Zenon

\* load()'s second query preserves it, torn or not.
LEMMA LoadRecordsStep ==
    ASSUME IInv, NEW p \in Processes, LoadRecords(p)
    PROVE  IInv'
<1> DEFINE loaded == [mem[p] EXCEPT !.open.records = InOrder(open_record)]
<1>1. InOrder(open_record) \in Seq(Records)
  BY RowsInOrder, Zenon DEF IInv, StoreInv, OpenRowsInv
<1>2. LocalInv("open", now[p], continuity[p], loaded, work[p], ledger, open_record)
  BY <1>1, LocalOf, LoadRecordsLocal DEF LoadRecords
<1>3. UNCHANGED store /\ UNCHANGED journal /\ ClientInv'
  BY ClientSame DEF history, LoadRecords
<1>4. /\ pc' = [pc EXCEPT ![p] = "open"]
      /\ now' = [now EXCEPT ![p] = now[p]]
      /\ continuity' = [continuity EXCEPT ![p] = continuity[p]]
      /\ work' = [work EXCEPT ![p] = work[p]]
  BY Untouched, Zenon DEF LoadRecords
<1>5. mem' = [mem EXCEPT ![p] = loaded]
  BY DEF LoadRecords
<1> HIDE DEF loaded
<1> QED
  BY <1>2, <1>3, <1>4, <1>5, LocalStep, Zenon

\* open_or_create on an empty store preserves it.
LEMMA BeginCreateStep ==
    ASSUME IInv, NEW p \in Processes, BeginCreate(p)
    PROVE  IInv'
<1> DEFINE first(policy) == [revision |-> 0,
                             active |-> TRUE,
                             next_segment_number |-> 0,
                             predecessor_cbor |-> None,
                             open |-> [opened_at_ms |-> now[p],
                                       clock_continuity_id |-> continuity[p],
                                       policy |-> policy,
                                       records |-> <<>>,
                                       byte_count |-> 0],
                             next_policy |-> policy]
<1>1. PICK policy \in Policies : Begin(p, Work("create", now[p], first(policy), <<>>, None))
  BY Zenon DEF BeginCreate
<1> DEFINE next == first(policy)
           w == Work("create", now[p], next, <<>>, None)
<1>2. policy \in ClosurePolicy
  BY <1>1, PolicyAssumption
<1>3. now[p] \in Nat /\ continuity[p] \in Nat
  BY LocalOf
<1>4. /\ IsState(next) /\ next.next_segment_number = 0
      /\ next.predecessor_cbor = None /\ next.open.records = <<>>
  BY <1>2, <1>3 DEF IsState, OpenInterval, IsOptionalArtifact
<1> HIDE DEF next
<1>5. IsWork(w)
  BY <1>3, <1>4, NothingSealed, WorkType DEF Startup
<1>6. /\ w.kind = "create" /\ w.next = next /\ w.sealed = <<>>
      /\ w.request = None /\ w.numbers = <<>> /\ w.todo = <<>>
  BY DEF Work
<1>7. Begin(p, w)
  BY <1>1 DEF next
<1>8. mem[p] = None /\ pc[p] \in {"open", "idle"}
  BY DEF BeginCreate
<1> HIDE DEF w
<1>9. IsFirst(w)
  BY <1>4, <1>6 DEF IsFirst
<1>10. IsBuilding(mem[p], w)
  BY <1>5, <1>6, <1>8, <1>9 DEF IsBuilding
<1> QED
  BY <1>7, <1>8, <1>10, BeginStep

\* reactivate() preserves it.
LEMMA BeginReactivateStep ==
    ASSUME IInv, NEW p \in Processes, BeginReactivate(p)
    PROVE  IInv'
<1> DEFINE next == [Stamped(mem[p], p) EXCEPT !.active = TRUE]
           w == Work("reactivate", now[p], next, <<>>, None)
<1>1. IsState(mem[p]) /\ now[p] \in Nat /\ continuity[p] \in Nat
  BY LocalOf DEF BeginReactivate
<1>2. SameChain(mem[p], Stamped(mem[p], p))
  BY <1>1, StampedChain, Zenon DEF Stamped
<1>3. SameChain(mem[p], next)
  BY <1>2, ActiveChain, Zenon
<1>4. Begin(p, w) /\ pc[p] \in {"open", "idle"}
  BY DEF BeginReactivate
<1> HIDE DEF next
<1>5. IsBuilding(mem[p], w)
  BY <1>1, <1>3, OpenWork
<1> HIDE DEF w
<1> QED
  BY <1>4, <1>5, BeginStep

\* transition() seals for recover() and close().
LEMMA TransitionStep ==
    ASSUME IInv, NEW p \in Processes, pc[p] \in {"open", "idle"}, mem[p] # None,
           NEW kind \in {"recover", "close"}, NEW reason \in CloseReason,
           Transition(p, kind, reason)
    PROVE  IInv'
<1> DEFINE sealed == SealOpen(mem[p], now[p], reason)
           stamped == Stamped(sealed, p)
           next == [stamped EXCEPT !.active = reason # "shutdown"]
           w == Work(kind, now[p], next, SealedBy(mem[p], reason), None)
<1>1. IsState(mem[p]) /\ now[p] \in Nat /\ continuity[p] \in Nat
  BY LocalOf
<1>2. Begin(p, w) /\ ~CannotSeal(mem[p], reason)
  BY DEF Transition
<1>3. IsState(sealed)
  BY <1>1, SealOpenType
<1>4. SameChain(sealed, stamped)
  <2> HIDE DEF sealed
  <2> QED
    BY <1>1, <1>3, StampedChain, Zenon DEF Stamped
<1>5. SameChain(sealed, next)
  <2> HIDE DEF sealed, stamped
  <2>1. (reason # "shutdown") \in BOOLEAN
    OBVIOUS
  <2> QED
    BY <1>4, <2>1, ActiveChain, Zenon
<1> HIDE DEF next
<1>6. IsBuilding(mem[p], w)
  BY <1>1, <1>2, <1>5, SealWork
<1> HIDE DEF w
<1> QED
  BY <1>2, <1>6, BeginStep

\* recover() preserves it.
LEMMA BeginRecoverStep ==
    ASSUME IInv, NEW p \in Processes, BeginRecover(p)
    PROVE  IInv'
<1>1. /\ pc[p] \in {"open", "idle"} /\ mem[p] # None
      /\ Transition(p, "recover", "recovery")
  BY DEF BeginRecover
<1> QED
  BY <1>1, TransitionStep DEF CloseReason

\* close() preserves it.
LEMMA BeginCloseStep ==
    ASSUME IInv, NEW p \in Processes, NEW reason \in CloseRequests, BeginClose(p, reason)
    PROVE  IInv'
<1>1. /\ pc[p] \in {"open", "idle"} /\ mem[p] # None
      /\ Transition(p, "close", reason)
  BY LocalOf DEF BeginClose
<1>2. reason \in CloseReason
  BY CloseAssumption DEF CloseReason
<1> QED
  BY <1>1, <1>2, TransitionStep

\* update_policy with immediate preserves it.
LEMMA BeginReconfigureStep ==
    ASSUME IInv, NEW p \in Processes, NEW policy \in PolicyRequests,
           BeginReconfigure(p, policy)
    PROVE  IInv'
<1> DEFINE sealed == SealOpen(mem[p], now[p], "reconfigure")
           stamped == Stamped(sealed, p)
           queued == [stamped EXCEPT !.next_policy = policy]
           next == [queued EXCEPT !.open.policy = policy]
           w == Work("reconfigure", now[p], next, SealedBy(mem[p], "reconfigure"), None)
<1>1. /\ IsState(mem[p]) /\ now[p] \in Nat /\ continuity[p] \in Nat
      /\ policy \in ClosurePolicy /\ "reconfigure" \in CloseReason
  BY LocalOf, PolicyAssumption DEF BeginReconfigure, CloseReason
<1>2. /\ Begin(p, w) /\ ~CannotSeal(mem[p], "reconfigure")
      /\ pc[p] \in {"open", "idle"}
  BY DEF BeginReconfigure
<1>3. IsState(sealed)
  BY <1>1, SealOpenType
<1> HIDE DEF sealed
<1>4. SameChain(sealed, stamped)
  BY <1>1, <1>3, StampedChain, Zenon DEF Stamped
<1> HIDE DEF stamped
<1>5. SameChain(sealed, queued)
  BY <1>1, <1>4, NextPolicyChain
<1> HIDE DEF queued
<1>6. SameChain(sealed, next)
  BY <1>1, <1>5, OpenPolicyChain
<1> HIDE DEF next
<1>7. IsBuilding(mem[p], w)
  BY <1>1, <1>2, <1>6, SealWork DEF sealed
<1> HIDE DEF w
<1> QED
  BY <1>2, <1>7, BeginStep

\* update_policy without immediate preserves it.
LEMMA BeginQueuePolicyStep ==
    ASSUME IInv, NEW p \in Processes, NEW policy \in PolicyRequests,
           BeginQueuePolicy(p, policy)
    PROVE  IInv'
<1> DEFINE next == [mem[p] EXCEPT !.next_policy = policy]
           w == Work("policy", now[p], next, <<>>, None)
<1>1. /\ IsState(mem[p]) /\ now[p] \in Nat /\ policy \in ClosurePolicy
      /\ SameChain(mem[p], mem[p])
  BY LocalOf, PolicyAssumption, ChainReflexive DEF BeginQueuePolicy
<1>2. Begin(p, w) /\ pc[p] \in {"open", "idle"}
  BY DEF BeginQueuePolicy
<1>3. SameChain(mem[p], next)
  BY <1>1, NextPolicyChain
<1> HIDE DEF next
<1>4. IsBuilding(mem[p], w)
  BY <1>1, <1>3, OpenWork
<1> HIDE DEF w
<1> QED
  BY <1>2, <1>4, BeginStep

\* seal_expired_intervals preserves it.
LEMMA BeginSealExpiredStep ==
    ASSUME IInv, NEW p \in Processes, BeginSealExpired(p)
    PROVE  IInv'
<1> DEFINE w == Work("expire", now[p], mem[p], <<>>, None)
<1>1. IsState(mem[p]) /\ now[p] \in Nat /\ SameChain(mem[p], mem[p])
  BY LocalOf, ChainReflexive DEF BeginSealExpired
<1>2. Begin(p, w) /\ pc[p] \in {"open", "idle"}
  BY DEF BeginSealExpired
<1>3. IsBuilding(mem[p], w)
  BY <1>1, OpenWork
<1> HIDE DEF w
<1> QED
  BY <1>2, <1>3, BeginStep

\* The start of an admission preserves it.
LEMMA BeginAdmitStep ==
    ASSUME IInv, NEW p \in Processes, NEW request \in Requests, BeginAdmit(p, request)
    PROVE  IInv'
<1> DEFINE w == Work("admit", now[p], mem[p], <<>>, request)
<1>1. IsState(mem[p]) /\ now[p] \in Nat /\ SameChain(mem[p], mem[p])
  BY LocalOf, ChainReflexive DEF BeginAdmit
<1>2. Begin(p, w) /\ pc[p] \in {"open", "idle"}
  BY DEF BeginAdmit
<1>3. IsBuilding(mem[p], w)
  BY <1>1, OpenWork
<1> HIDE DEF w
<1> QED
  BY <1>2, <1>3, BeginStep

\* An answer from the stored outcome preserves it.
LEMMA ReplayStep ==
    ASSUME IInv, NEW p \in Processes, NEW request \in Requests, Replay(p, request)
    PROVE  IInv'
<1>1. LocalInv(pc[p], now[p], continuity[p], mem[p], work[p], ledger, open_record)
  BY LocalOf
<1>2. UNCHANGED store /\ UNCHANGED journal
  BY DEF Replay
<1>3. ClientInv'
  BY DEF IInv, ClientInv, Replay, Keys
<1>4. /\ pc' = [pc EXCEPT ![p] = pc[p]]
      /\ now' = [now EXCEPT ![p] = now[p]]
      /\ continuity' = [continuity EXCEPT ![p] = continuity[p]]
      /\ mem' = [mem EXCEPT ![p] = mem[p]]
      /\ work' = [work EXCEPT ![p] = work[p]]
  <2>1. /\ pc' = pc /\ now' = now /\ continuity' = continuity
        /\ mem' = mem /\ work' = work
    BY DEF Replay, process
  <2> QED
    BY <2>1, Untouched
<1> QED
  BY <1>1, <1>2, <1>3, <1>4, LocalStep, Zenon

\* close_expired's turn keeps a transition well built.
LEMMA ExpiryBuilding ==
    ASSUME NEW m, NEW w, IsBuilding(m, w), w.kind # "create", m # None => IsState(m),
           ~CannotSeal(w.next, "interval")
    PROVE  IsBuilding(m, AfterExpiry(w))
<1> DEFINE boundary == w.next.open.opened_at_ms + w.next.open.policy.interval_ms
           next == SealOpen(w.next, boundary, "interval")
           sealed == w.sealed \o SealedBy(w.next, "interval")
           v == Updated(w, w.todo, w.numbers, next, sealed)
<1>1. IsWork(w)
  BY DEF IsBuilding
<1>2. boundary \in Nat
  <2>1. IsState(w.next)
    BY <1>1, WorkFields
  <2>2. w.next.open.opened_at_ms \in Nat /\ w.next.open.policy \in ClosurePolicy
    BY <2>1, StateFields
  <2>3. w.next.open.policy.interval_ms \in Nat
    BY <2>2 DEF ClosurePolicy
  <2> QED
    BY <2>2, <2>3
<1>3. AfterExpiry(w) = v
  <2>1. AfterExpiry(w) = [w EXCEPT !.next = next, !.sealed = sealed]
    BY DEF AfterExpiry
  <2> HIDE DEF next, sealed
  <2> DEFINE fields == [kind |-> w.kind, at |-> w.at, next |-> next, sealed |-> sealed,
                        request |-> w.request, numbers |-> w.numbers, todo |-> w.todo]
  <2>2. [w EXCEPT !.next = next, !.sealed = sealed] = fields
    BY <1>1, SealedFields, Zenon
  <2>3. v = fields
    BY <1>1, UpdatedFields
  <2> QED
    BY <2>1, <2>2, <2>3, Zenon
<1>4. "interval" \in CloseReason
  BY DEF CloseReason
<1> HIDE DEF boundary
<1>5. v = Updated(w, w.todo, w.numbers, SealOpen(w.next, boundary, "interval"),
                  w.sealed \o SealedBy(w.next, "interval"))
  OBVIOUS
<1> HIDE DEF v
<1>6. IsBuilding(m, v)
  BY <1>2, <1>4, <1>5, ExpireBuilding, Zenon
<1> QED
  BY <1>3, <1>6

\* A turn of close_expired's loop preserves it.
LEMMA CloseExpiredStep ==
    ASSUME IInv, NEW p \in Processes, CloseExpired(p)
    PROVE  IInv'
<1>1. /\ pc[p] = "busy" /\ work[p].kind # "create"
      /\ ~CannotSeal(work[p].next, "interval")
  BY DEF CloseExpired, Closing
<1>2. IsBuilding(mem[p], work[p]) /\ (mem[p] # None => IsState(mem[p]))
  BY <1>1, LocalOf
<1>3. IsBuilding(mem[p], AfterExpiry(work[p]))
  BY <1>1, <1>2, ExpiryBuilding
<1>4. SetWork(p, AfterExpiry(work[p]))
  BY Zenon DEF SetWork, CloseExpired
<1> QED
  BY <1>1, <1>3, <1>4, WorkStep

\* The reason a full interval closes for.
LEMMA LimitReason ==
    ASSUME NEW s, LimitReasons(s) # {}
    PROVE  Highest(LimitReasons(s)) \in CloseReason
<1>1. LimitReasons(s) \subseteq {"size_limit", "record_limit"}
  BY DEF LimitReasons
<1>2. \E r \in LimitReasons(s) : \A q \in LimitReasons(s) : Precedence[q] <= Precedence[r]
  <2>1. Precedence["size_limit"] = 3 /\ Precedence["record_limit"] = 2
    BY DEF Precedence
  <2>2. CASE "size_limit" \in LimitReasons(s)
    BY <1>1, <2>1, <2>2
  <2>3. CASE "size_limit" \notin LimitReasons(s)
    BY <1>1, <2>1, <2>3
  <2> QED
    BY <2>2, <2>3
<1>3. Highest(LimitReasons(s)) \in LimitReasons(s)
  BY <1>2 DEF Highest
<1> QED
  BY <1>1, <1>3 DEF CloseReason

\* So does pushing a record, sealing the interval it fills.
LEMMA AfterPushBuilding ==
    ASSUME NEW m, NEW w, IsBuilding(m, w), w.todo # <<>>, m # None => IsState(m),
           ~CannotPush(w)
    PROVE  IsBuilding(m, AfterPush(w))
<1> DEFINE pushed == Pushed(w.next, Head(w.todo))
           numbers == Append(w.numbers, w.next.next_segment_number)
           todo == Tail(w.todo)
           reasons == LimitReasons(pushed)
           reason == Highest(reasons)
           u == Updated(w, todo, numbers, pushed, w.sealed)
           next == SealOpen(pushed, w.at, reason)
           sealed == w.sealed \o SealedBy(pushed, reason)
           v == Updated(u, u.todo, u.numbers, SealOpen(u.next, w.at, reason),
                        u.sealed \o SealedBy(u.next, reason))
<1>1. IsWork(w) /\ w.at \in Nat
  BY WorkFields DEF IsBuilding
<1>a. u = Updated(w, todo, numbers, pushed, w.sealed)
  BY Zenon
<1> HIDE DEF u
<1>2. /\ IsBuilding(m, u)
      /\ u.kind # "create" /\ u.at = w.at
      /\ u.numbers = numbers /\ u.next = pushed
      /\ u.sealed = w.sealed /\ u.todo = todo
  BY <1>a, PushBuilding, ZenonT(40)
<1> USE DEF u
<1>3. AfterPush(w) = [w EXCEPT !.todo = todo, !.numbers = numbers,
                               !.next = IF reasons = {} THEN pushed ELSE next,
                               !.sealed = IF reasons = {} THEN w.sealed ELSE sealed]
  BY <1>1 DEF AfterPush, IsWork
<1>4. CASE reasons = {}
  <2>1. AfterPush(w) = u
    BY <1>3, <1>4, Zenon DEF Updated
  <2> QED
    BY <1>2, <2>1, Zenon
<1>5. CASE reasons # {}
  <2>1. reason \in CloseReason
    BY <1>5, LimitReason
  <2>2. ~CannotSeal(pushed, reason)
    BY <1>5 DEF CannotPush
  <2>3. AfterPush(w) = Updated(w, todo, numbers, next, sealed)
    BY <1>3, <1>5, Zenon DEF Updated
  <2>a. IsWork(u) /\ u.kind = w.kind /\ u.request = w.request
    <3> HIDE DEF todo, numbers, pushed
    <3> QED
      BY <1>1, <1>2, UpdatedFields DEF IsBuilding
  <2>4. Updated(w, todo, numbers, next, sealed) = Updated(u, todo, numbers, next, sealed)
    <3> HIDE DEF todo, numbers, pushed, next, sealed
    <3> QED
      BY <1>1, <1>2, <2>a, UpdatedFields
  <2> HIDE DEF u, todo, numbers, pushed, reasons, reason
  <2>5. v = Updated(u, todo, numbers, next, sealed)
    BY <1>2, Zenon
  <2>6. v = Updated(u, u.todo, u.numbers, SealOpen(u.next, w.at, reason),
                    u.sealed \o SealedBy(u.next, reason))
    BY Zenon
  <2>7. ~CannotSeal(u.next, reason)
    BY <1>2, <2>2
  <2> HIDE DEF v, next, sealed
  <2>8. IsBuilding(m, v)
    BY <1>1, <1>2, <2>1, <2>6, <2>7, ExpireBuilding, Zenon
  <2> QED
    BY <2>3, <2>4, <2>5, <2>8
<1> QED
  BY <1>4, <1>5

\* A turn of admit_batch_inner's loop preserves it.
LEMMA PushRecordStep ==
    ASSUME IInv, NEW p \in Processes, PushRecord(p)
    PROVE  IInv'
<1>1. pc[p] = "busy" /\ work[p].todo # <<>> /\ ~CannotPush(work[p])
  BY DEF PushRecord, Pushing
<1>2. IsBuilding(mem[p], work[p]) /\ (mem[p] # None => IsState(mem[p]))
  BY <1>1, LocalOf
<1>3. IsBuilding(mem[p], AfterPush(work[p]))
  BY <1>1, <1>2, AfterPushBuilding
<1>4. SetWork(p, AfterPush(work[p]))
  BY Zenon DEF SetWork, PushRecord
<1> QED
  BY <1>1, <1>3, <1>4, WorkStep

\* A closure that fails inside a loop preserves it.
LEMMA SealFailsStep ==
    ASSUME IInv, NEW p \in Processes, SealFails(p)
    PROVE  IInv'
<1>1. pc[p] = "busy" /\ Fail(p) /\ UNCHANGED <<store, boots, history>>
  BY DEF SealFails, Closing, Pushing
<1> QED
  BY <1>1, FailStep

\* A transaction that rolls back preserves it.
LEMMA RollbackStep ==
    ASSUME IInv, NEW p \in Processes, Rollback(p)
    PROVE  IInv'
<1>1. pc[p] = "busy" /\ Fail(p) /\ UNCHANGED <<store, boots, history>>
  BY DEF Rollback, Ready
<1> QED
  BY <1>1, FailStep
=============================================================================
