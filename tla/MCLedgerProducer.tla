-------------------------- MODULE MCLedgerProducer --------------------------
(* LedgerProducer with the records, requests and policies of the runs. *)
EXTENDS LedgerRefinement, TLC

a == "a"
b == "b"
MCRecords == {a, b}
MCSize == [r \in MCRecords |-> IF r = a THEN 1 ELSE 2]

Policy(interval, records, bytes, mode) ==
    [interval_ms |-> interval, record_limit |-> records,
     size_limit_bytes |-> bytes, empty_mode |-> mode]

Upload(key, records) == [key |-> key, records |-> records]

NoLimit == {}
ProcessSymmetry == Permutations(Processes)

\* One process: a batch that crosses the record limit, idle intervals that leave
\* empty segments behind or do not, and a restart.
SoloRequests == {Upload("k1", <<a>>), Upload("k2", <<b, a, b>>)}
SoloPolicies == {Policy(2, {2}, {}, "suppress"), Policy(1, {2}, {}, "emit")}

\* Two processes: the same keys are sent to both, one of them with two bodies.
OverlapRequests == {Upload("k1", <<a>>), Upload("k1", <<b>>), Upload("k2", <<b, a>>)}
OverlapPolicies == {Policy(1, {2}, {}, "suppress")}

\* Policy changes, shutdown and reactivation, record and size limits, and both
\* capacity limits with timestamps settling.
ReconfigureRequests == {Upload("k1", <<a>>), Upload("k2", <<b, a>>)}
ReconfigurePolicies == {Policy(2, {3}, {}, "suppress"), Policy(1, {1}, {2}, "suppress")}
OnePending == {1}
FewBytes == {5}
=============================================================================
