-------------------------- MODULE MCRemoteVerifier --------------------------
(***************************************************************************)
(* RemoteVerifier over sealed segments of several shapes, with bundles as  *)
(* they are exported, completed by hand, damaged or about another segment. *)
(***************************************************************************)
EXTENDS RemoteVerifier

(* CBOR in miniature: arguments up to 1 in the initial byte, then up to 2, 8, *)
(* 9 and 10; floats with 1, 2 and 3 bits of fraction.                         *)
MCLimits == <<1, 2, 8, 9, 10>>

MCFormats == <<[fraction |-> 1, bias |-> 1], [fraction |-> 2, bias |-> 3],
               [fraction |-> 3, bias |-> 7]>>

Patterns(format) == 0..2 * Fields(format) * 2^format.fraction - 1

\* Every number, some texts, and collections of up to two levels too many.
Atoms ==
    {[uint |-> n] : n \in 0..10} \cup {[nint |-> n] : n \in 0..10}
        \cup {[simple |-> n] : n \in 20..22}
        \cup {[float |-> f] : f \in
                {f \in {DecodeFloat(bits, Widest) : bits \in Patterns(Widest)} : IsFinite(f)}}
        \cup {[text |-> t] : t \in {<<>>, <<1>>, <<2, 1>>}}

Nested[level \in 0..4] == [array |-> IF level = 0 THEN <<>> ELSE <<Nested[level - 1]>>]

Pair(first, second, n) == [object |-> (first :> [uint |-> n]) @@ (second :> Nested[1])]

Collections ==
    {Nested[level] : level \in 0..4}
        \cup {[object |-> <<>>], Pair(<<2>>, <<1>>, 0), Pair(<<2>>, <<1>>, 1),
              Pair(<<1>>, <<1, 1>>, 0), Pair(<<>>, <<3>>, 2),
              [array |-> <<[object |-> <<>>], [text |-> <<2, 1>>]>>]}

MCValues == Atoms \cup Collections

\* Heads that exist: the argument fits the width.
Possible(token) ==
    \/ "byte" \in DOMAIN token
    \/ token.width = 6 /\ token.argument = 0
    \/ token.major = 7 /\ token.width = 1 /\ token.argument \in 20..23
    \/ token.major = 7 /\ token.width - 2 \in DOMAIN Formats
          /\ token.argument \in Patterns(Formats[token.width - 2])
    \/ token.major < 7 /\ token.width <= Len(Limits) /\ token.argument \in 0..Limits[token.width]

Listed(strings) == FoldSet(LAMBDA tokens, list : Append(list, tokens), <<>>, strings)

\* One head of another width, argument or major type, or a byte that is no text.
VariantsAt(tokens, i, majors) ==
    {[tokens EXCEPT ![i] = token] : token \in
        {token \in IF "byte" \in DOMAIN tokens[i] THEN {[byte |-> 9]}
                   ELSE LET head == tokens[i]
                        IN  {[head EXCEPT !.width = w] : w \in 1..5}
                                \cup {[head EXCEPT !.argument = @ + d] : d \in {-1, 1}}
                                \cup {[head EXCEPT !.major = m] : m \in majors}
                                \cup {Token(head.major, 6, 0)} :
            Possible(token) /\ token # tokens[i]}}

\* Those, and an item more or less.
Variants(tokens, majors) ==
    FlattenSeq([i \in DOMAIN tokens |-> Listed(VariantsAt(tokens, i, majors))])
        \o <<Append(tokens, Null), SubSeq(tokens, 1, Len(tokens) - 1)>>

\* Map entries out of order, or with equal keys.
Misordered(first, second) ==
    <<MajorU64(5, 2)>> \o CborText(first) \o <<Null>> \o CborText(second) \o <<Null>>

Envelope == <<MajorU64(4, 7), MajorU64(0, 1), MajorU64(2, 8)>>
                \o [i \in 1..8 |-> [byte |-> 9]]
                \o <<MajorU64(0, 3), MajorU64(0, 10), Null, MajorU64(0, 2)>>

Payloads ==
    Listed({EncodeValue[v] : v \in Collections \ {Pair(<<2>>, <<1>>, 0)}})
        \o Variants(EncodeValue[Pair(<<2>>, <<1>>, 1)], {6})
        \o Variants(EncodeValue[[text |-> <<2, 1>>]], {6})
        \o <<Misordered(<<2>>, <<1>>), Misordered(<<1>>, <<1>>), Misordered(<<1, 1>>, <<2>>),
             <<MajorU64(5, 6)>>, <<MajorU64(4, 10)>>, <<MajorU64(4, 2), Null>>>>

Envelopes == Variants(Envelope, 0..7)

\* Every bit pattern of a format.
Floats(i) ==
    [k \in 1..Cardinality(Patterns(Formats[i])) |-> Envelope \o <<Token(7, i + 2, k - 1)>>]

\* The last of these is not canonical.
Sample == [r \in 1..6 |-> Envelope \o <<Token(0, IF r = 6 THEN 5 ELSE 3, r + 2)>>]

MCEncoded ==
    Sample \o [i \in DOMAIN Payloads |-> Envelope \o Payloads[i]]
        \o [i \in DOMAIN Envelopes |-> Append(Envelopes[i], Null)]
        \o Floats(1) \o Floats(2) \o Floats(3)

\* As many as MCEncoded has.
MCRecords == 1..487

Judge == [tokens \in Range(MCEncoded) |-> ValidateCanonicalRecord(tokens)]

MCJudgement == [r \in MCRecords |-> Judge[MCEncoded[r]]]

Sealed(limit, records) == [limit |-> limit, records |-> records]

\* One batch, partial last batches, equal records, a tree of depth three.
MCLedgers ==
    {Sealed(1, <<2>>), Sealed(2, <<3, 1, 2>>), Sealed(2, <<5, 4, 3, 2, 1>>),
     Sealed(1, <<3, 2, 1>>), Sealed(4, <<1, 1, 2, 3, 4, 5>>)}
        \cup {Sealed(1, <<r>>) : r \in MCRecords \ DOMAIN Sample}

\* A segment some other producer sealed, its record canonical or not.
IsForeign(l) == l.records[1] \notin DOMAIN Sample

Foreign(l) ==
    LET material == SealedMaterial(l)
    IN  Bundle([manifest |-> Manifest(material, "A", <<Opening(material, 0)>>, "present"),
                files |-> AnchorFiles(material, "present") @@ RecordFiles(material, {0})])

Edited == Sealed(2, <<3, 1, 2>>)

\* A reply with a nonce, its request, and an extension file.
Completed(dir) ==
    LET m == dir[ManifestPath].manifest
        artifact == dir[m.segment_cbor.path]
        tsr == ResponseOver(artifact, {5})
        tsq == [tsq |-> [form |-> "wellformed", cert_req |-> TRUE, imprint |-> Sha256(artifact), nonce |-> {5}]]
        note == [other |-> 1]
    IN  (ManifestPath :>
            [manifest |-> [m EXCEPT !.tsa_tsr = {Reference(ResponsePath, tsr)},
                                    !.tsa_req = {Reference(<<"timestamp.tsq">>, tsq)},
                                    !.extensions = {Reference(<<"note">>, note)}]])
        @@ (ResponsePath :> tsr) @@ (<<"timestamp.tsq">> :> tsq) @@ (<<"note">> :> note) @@ dir

IsRecord(p) == p[1] = "records"

\* One file lost, or holding other bytes: another file's, a record that was not
\* sealed, or bytes that are no canonical record.
Lost(dir) == {Restrict(dir, DOMAIN dir \ {p}) : p \in DOMAIN dir}

Swapped(dir) ==
    LET files == DOMAIN dir \ {ManifestPath}
        records == {p \in files : IsRecord(p)}
    IN  {[dir EXCEPT ![p] = dir[q]] : p, q \in records}
            \cup {[dir EXCEPT ![p] = dir[q]] : p \in files \ records, q \in files}
            \cup {[dir EXCEPT ![p] = [record |-> r]] : p \in records, r \in {5, 6}}

\* The manifest rewritten to agree with the files beside it.
Relabelled(dir) ==
    LET m == dir[ManifestPath].manifest
        again(r) == [r EXCEPT !.sha256 = Sha256(dir[r.path])]
    IN  [dir EXCEPT ![ManifestPath] = [manifest |->
            [m EXCEPT !.segment_cbor = again(@),
                      !.predecessor_segment_cbor = {again(r) : r \in @},
                      !.tsa_tsr = {again(r) : r \in @},
                      !.tsa_req = {again(r) : r \in @},
                      !.record_batches = [i \in DOMAIN @ |->
                            [@[i] EXCEPT !.records = [k \in DOMAIN @ |-> again(@[k])]]]]]]

Pending(l) ==
    Bundle([manifest |-> Manifest(SealedMaterial(l), "C", <<>>, "pending"),
            files |-> AnchorFiles(SealedMaterial(l), "pending")])

First(l) == {Bundle(export) : export \in PrepareExport(FirstMaterial(l), "C", {})}

Disclosing(dirs, classes) == {dir \in dirs : dir[ManifestPath].manifest.class \in classes}

Damaged(exported) ==
    LET wrong == UNION {Swapped(dir) : dir \in Disclosing(exported, {"A", "B"})}
    IN  wrong \cup {Relabelled(dir) : dir \in wrong}
            \cup UNION {Lost(Completed(dir)) : dir \in Disclosing(exported, {"A"})}

ContentsOf(l, exported) ==
    exported \cup First(l) \cup {Completed(dir) : dir \in Disclosing(exported, {"A"})}
        \cup {Pending(l)}
        \cup (IF l = Edited THEN Damaged(exported) ELSE {})

MCContents(l) == IF IsForeign(l) THEN {Foreign(l)} ELSE ContentsOf(l, Exported(l))

MCRepublished(l) == IF l = Edited THEN Exported(l) \cup First(l) \cup {Pending(l)} ELSE {}

Signer == [subject |-> "signer", issuer |-> "root", serial |-> 7, not_before |-> 0, not_after |-> 9]
Root == [subject |-> "root", issuer |-> "root", serial |-> 1, not_before |-> 0, not_after |-> 9]
Crl == [issuer |-> "root", kind |-> "base", this_update |-> 0, next_update |-> {9}, revoked |-> {}]

MCTrust == [oid |-> "oid", signer |-> Signer, skew |-> 0,
            archive |-> [anchors |-> {Root}, intermediates |-> {}, crls |-> {Crl}]]

Policy(scope, batches, claimed) ==
    [scope |-> scope, batches |-> batches, require_claimed_scope |-> claimed, tsa |-> {MCTrust}]

MCPolicies ==
    {Policy({}, {}, FALSE),
     Policy({"disclosed_batch_recompute"}, {1}, FALSE),
     Policy({"disclosed_batch_recompute"}, {}, FALSE),
     Policy({"anchor_only"}, {}, TRUE),
     Policy({"public_recompute"}, {}, FALSE)}
=============================================================================
