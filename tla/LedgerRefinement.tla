-------------------------- MODULE LedgerRefinement --------------------------
(***************************************************************************)
(* The producers over their shared store implement the ledger of module    *)
(* Ledger.  Its log is read off the tables, not off the history variables: *)
(* the rows of the sealed segments in order, then the open interval's.     *)
(***************************************************************************)
EXTENDS LedgerProducer

StoredSegments == Cardinality(DOMAIN sealed_segment)

\* The rows of segment n by ordinal; a gap in the ordinals reads as None.
StoredRecords(n) ==
    [i \in 1..Cardinality(Rows(n)) |->
        [record |-> IF <<n, i - 1>> \in DOMAIN sealed_record
                    THEN sealed_record[<<n, i - 1>>] ELSE None,
         segment |-> n]]

OpenRecords ==
    [i \in 1..Cardinality(DOMAIN open_record) |->
        [record |-> IF i - 1 \in DOMAIN open_record THEN open_record[i - 1] ELSE None,
         segment |-> StoredSegments]]

StoredLog ==
    LET Through[n \in 0..StoredSegments] ==
            IF n = 0 THEN <<>> ELSE Through[n - 1] \o StoredRecords(n - 1)
    IN  Through[StoredSegments] \o OpenRecords

StoredChain == [i \in 1..StoredSegments |-> sealed_segment[i - 1].segment_root]

StoredOutcome ==
    [k \in DOMAIN idempotency |-> idempotency[k].admitted_segment_numbers]

Seen == {<<answer[1], answer[2].admitted_segment_numbers>> : answer \in answers}

Abstract == INSTANCE Ledger WITH
    log <- StoredLog,
    chain <- StoredChain,
    outcome <- StoredOutcome,
    answered <- Seen,
    Commitment <- MerkleRoot

\* Whatever the processes do, with crashes, lost acknowledgements, torn loads
\* and retries, the store moves as the one ledger: an upload's records enter it
\* once and together, in the segments its stored outcome names, no later step
\* moves or drops them, a sealed root is that of the records the log has for the
\* segment, and clients see only stored outcomes (compare_and_swap and the
\* transitions it commits).
ImplementsLedger == Abstract!Spec
=============================================================================
