------------------------------- MODULE Merkle -------------------------------
(***************************************************************************)
(* The commitment of a sealed segment: a Merkle tree over the records'     *)
(* leaf hashes in sorted order, and the roots of its aligned batches.      *)
(*                                                                         *)
(* A record's bytes are a natural number, and the order of the numbers is  *)
(* the order of the leaf hashes.  A hash is a tuple: <<0, record>> for a   *)
(* leaf, <<1, left, right>> for a node, <<>> for the empty tree.           *)
(***************************************************************************)
EXTENDS Naturals, Sequences, FiniteSets, SequencesExt

CONSTANT Records       \* the record byte strings, a set of naturals

ASSUME RecordsAreNumbers == Records \subseteq Nat
-----------------------------------------------------------------------------
LeafHash(record) == <<0, record>>

Leaves == {LeafHash(r) : r \in Records}

EmptyRoot == <<>>

\* None, where the code returns an Option<[u8; 32]>.
NoRoot == <<2>>

LeafHashes(records) == [i \in DOMAIN records |-> LeafHash(records[i])]

SortedRecords(records) == SortSeq(records, <)

\* The largest power of two below n.
Split(n) == CHOOSE k \in {2^i : i \in 0..n} : k < n /\ n <= 2 * k

\* mth: the tree over an already sorted list of leaf hashes.
mth[leaves \in Seq(Leaves)] ==
    LET n == Len(leaves)
        k == Split(n)
    IN  CASE n = 0 -> EmptyRoot
          [] n = 1 -> leaves[1]
          [] OTHER -> <<1, mth[SubSeq(leaves, 1, k)], mth[SubSeq(leaves, k + 1, n)]>>

MerkleRoot(records) == mth[LeafHashes(SortedRecords(records))]

BatchCount(n, limit) == (n + limit - 1) \div limit

\* The records of a batch: an aligned slice of the sorted records.  Batches are
\* numbered from zero.
Batch(records, limit, number) ==
    SubSeq(SortedRecords(records), number * limit + 1,
           IF (number + 1) * limit <= Len(records) THEN (number + 1) * limit
           ELSE Len(records))

BatchRoots(records, limit) ==
    [i \in 1..BatchCount(Len(records), limit) |->
        mth[LeafHashes(Batch(records, limit, i - 1))]]

\* compose_batch_range, on roots[first..last] standing for count leaves.
ComposeRange(roots, limit) ==
    LET range[first \in Nat, last \in Nat, count \in Nat] ==
            IF count <= limit
            THEN IF first = last THEN roots[first] ELSE NoRoot
            ELSE LET leaves == Split(count)
                     middle == first + leaves \div limit
                 IN  IF middle > last + 1
                     THEN NoRoot
                     ELSE LET left == range[first, middle - 1, leaves]
                              right == range[middle, last, count - leaves]
                          IN  IF NoRoot \in {left, right} THEN NoRoot
                              ELSE <<1, left, right>>
    IN  range

ComposeBatchRoots(roots, count, limit) ==
    IF count = 0 \/ Len(roots) # BatchCount(count, limit)
    THEN NoRoot
    ELSE ComposeRange(roots, limit)[1, Len(roots), count]
=============================================================================
