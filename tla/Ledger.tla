------------------------------- MODULE Ledger -------------------------------
(***************************************************************************)
(* What the gateway promises its clients: one append-only log of records   *)
(* and one chain of segments over it.  There are no processes, no tables   *)
(* and no revisions here.  An upload enters the log once, as a whole, with *)
(* the segment of each record fixed at that moment; a segment, once closed,*)
(* is committed to exactly the records the log has for it; and every       *)
(* success a client sees is the upload's one outcome.                      *)
(***************************************************************************)
EXTENDS Naturals, Sequences

CONSTANTS Requests,       \* uploads: [key, records]
          Commitment(_)   \* what a closed segment commits to, of its records

VARIABLES
    log,       \* every admitted record with its segment, in order
    chain,     \* chain[n + 1]: the commitment of segment n
    outcome,   \* key -> the segments of its upload's records
    answered   \* the successes clients have seen: <<key, segments>>

vars == <<log, chain, outcome, answered>>

Closed == Len(chain)

InSegment(entries, n) ==
    LET Of(entry) == entry.segment = n
        chosen == SelectSeq(entries, Of)
    IN  [i \in DOMAIN chosen |-> chosen[i].record]

Init ==
    /\ log = <<>>
    /\ chain = <<>>
    /\ outcome = [k \in {} |-> <<>>]
    /\ answered = {}

\* Zero or more segments close, each over the records the log now has for it.
Close ==
    /\ Len(chain') >= Closed
    /\ SubSeq(chain', 1, Closed) = chain
    /\ \A n \in Closed..(Len(chain') - 1) :
          chain'[n + 1] = Commitment(InSegment(log', n))

\* The records of an upload go, in order, to the segment that is open and the
\* ones opened while they are placed.
Placed(segments) ==
    /\ \A i \in DOMAIN segments : segments[i] \in Closed..Len(chain')
    /\ \A i, j \in DOMAIN segments : i <= j => segments[i] <= segments[j]

Admit(request) ==
    /\ request.key \notin DOMAIN outcome
    /\ DOMAIN outcome' = DOMAIN outcome \cup {request.key}
    /\ \A k \in DOMAIN outcome : outcome'[k] = outcome[k]
    /\ LET segments == outcome'[request.key]
       IN  /\ DOMAIN segments = DOMAIN request.records
           /\ log' = log \o [i \in DOMAIN segments |->
                                [record |-> request.records[i], segment |-> segments[i]]]
           /\ Close
           /\ Placed(segments)
    /\ answered' \in {answered,
                      answered \cup {<<request.key, outcome'[request.key]>>}}

CloseSegments ==
    /\ Close
    /\ UNCHANGED <<log, outcome, answered>>

Answer(k) ==
    /\ k \in DOMAIN outcome
    /\ answered' = answered \cup {<<k, outcome[k]>>}
    /\ UNCHANGED <<log, chain, outcome>>

Next ==
    \/ \E request \in Requests : Admit(request)
    \/ CloseSegments
    \/ \E k \in DOMAIN outcome : Answer(k)

Spec == Init /\ [][Next]_vars
=============================================================================
