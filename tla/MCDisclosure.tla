---------------------------- MODULE MCDisclosure ----------------------------
(***************************************************************************)
(* Disclosure with two sealed segments, the second of two batches, and     *)
(* holders whose grants differ.                                            *)
(***************************************************************************)
EXTENDS Disclosure

MCRecords == 1..4

\* Four canonical records, of integer payloads.
MCLimits == <<1, 2, 8, 9, 10>>

MCFormats == <<[fraction |-> 1, bias |-> 1]>>

MCEncoded ==
    [r \in MCRecords |->
        <<MajorU64(4, 7), MajorU64(0, 1), MajorU64(2, 8)>> \o [i \in 1..8 |-> [byte |-> 1]]
            \o [i \in 1..4 |-> MajorU64(0, i)] \o <<MajorU64(0, r)>>]

MCJudgement == [r \in MCRecords |-> ValidateCanonicalRecord(MCEncoded[r])]

\* A full and a partial batch, admitted out of leaf order.
MCSealedRecords == (0 :> <<4>>) @@ (1 :> <<3, 1, 2>>)

Signer == [subject |-> "signer", issuer |-> "root", serial |-> 7, not_before |-> 0, not_after |-> 9]
Root == [subject |-> "root", issuer |-> "root", serial |-> 1, not_before |-> 0, not_after |-> 9]
Crl == [issuer |-> "root", kind |-> "base", this_update |-> 0, next_update |-> {9}, revoked |-> {}]

MCTrust == [oid |-> "oid", signer |-> Signer, skew |-> 0,
            archive |-> [anchors |-> {Root}, intermediates |-> {}, crls |-> {Crl}]]

Grant(ledger, read, classes, all, batches) ==
    [ledger_id |-> ledger, read_segments |-> read, classes |-> classes, all |-> all,
     batches |-> batches]

Credential(token, grants) == [token |-> token, grants |-> grants]

MCCredentials ==
    <<Credential("every", <<Grant("here", TRUE, {"A", "B", "C"}, TRUE, {})>>),
      Credential("first", <<Grant("there", TRUE, {"A"}, TRUE, {}),
                            Grant("here", FALSE, {"B"}, FALSE, {0})>>),
      Credential("reader", <<Grant("here", TRUE, {}, FALSE, {})>>),
      Credential("elsewhere", <<Grant("there", TRUE, {"A"}, TRUE, {})>>)>>

Request(token, ledger, n) == [token |-> token, ledger |-> ledger, segment |-> n]

Generate(token, ledger, n, class, batches) ==
    Request(token, ledger, n) @@ [selection |-> [class |-> class, batches |-> batches]]

MCGenerateRequests ==
    {Generate("every", "here", 1, "A", <<>>),
     Generate("every", "here", 1, "B", <<0, 1>>),
     Generate("every", "here", 1, "B", <<0, 0>>),
     Generate("every", "here", 2, "C", <<>>),
     Generate("first", "here", 1, "B", <<0>>),
     Generate("first", "here", 1, "B", <<1>>),
     Generate("elsewhere", "there", 1, "A", <<>>),
     Generate("elsewhere", "here", 1, "A", <<>>),
     Generate("nobody", "here", 1, "A", <<>>)}

MCCurrentRequests ==
    {Request("reader", "here", 1) @@ [path |-> ResponsePath],
     Request("reader", "here", 0) @@ [path |-> PredecessorPath],
     Request("reader", "here", 2) @@ [path |-> ManifestPath],
     Request("first", "here", 1) @@ [path |-> ManifestPath]}

MCObjectRequests ==
    {Request("every", "here", 1), Request("first", "here", 1), Request("reader", "here", 1),
     Request("first", "here", 0)}

MCObjectPaths == {ManifestPath, RecordPath(0, 2), RecordPath(1, 1)}

MCExportSelections ==
    {[segment |-> 0, class |-> "A", batches |-> <<>>],
     [segment |-> 1, class |-> "C", batches |-> <<>>]}
=============================================================================
