-------------------------- MODULE EvidenceVerifier --------------------------
(***************************************************************************)
(* What trackone-evidence concludes from an evidence bundle: a directory   *)
(* of files, one of which is the producer manifest that names the others   *)
(* with their digests.                                                     *)
(*                                                                         *)
(* A directory is a function from paths to bytes.  Bytes are one-field     *)
(* records, the field saying what they hold: [record |-> n],               *)
(* [segment |-> fields], [tsr |-> response], [tsq |-> request],            *)
(* [manifest |-> fields], [other |-> n].  SHA-256 is injective on them.    *)
(* Whatever stands in a record's place is one of Records, canonical or     *)
(* not: Encoded gives its heads and content bytes.                         *)
(***************************************************************************)
EXTENDS Merkle, CanonicalCbor, Rfc3161

CONSTANTS
    Encoded,           \* record -> its bytes, as CanonicalCbor has them
    Judgement,         \* record -> what validate_canonical_record says of them
    Profile            \* COMMITMENT_PROFILE_ID

ASSUME EncodedAssumption == DOMAIN Encoded = Records /\ IsInjective(Encoded)

ASSUME JudgementAssumption ==
    Judgement = [r \in Records |-> ValidateCanonicalRecord(Encoded[r])]
-----------------------------------------------------------------------------
Sha256(bytes) == [sha256 |-> bytes]

ZeroSha256 == [zero |-> TRUE]

ManifestPath == <<"manifest">>

Holds(bytes, kind) == kind \in DOMAIN bytes

\* The failures opening_leaves reports for records that do not validate.
Objection(judgement) ==
    CASE judgement = "ok" -> {}
      [] judgement = "resource_limit" -> {"verifier_policy_rejection"}
      [] OTHER -> {"invalid_canonical_record"}

RecordFailures(records, judged) == UNION {Objection(judged[r]) : r \in Range(records)}

-----------------------------------------------------------------------------
(* The segment artifact. *)

\* ClosurePolicy::validate_batch_record_limit
PowerOfTwo(limit) == \E i \in 0..limit : limit = 2^i

\* SegmentRecord::validate_detailed.  The rest of the closure policy and the
\* close reason are the subject of Segments.
ValidSegment(s) ==
    /\ PowerOfTwo(s.batch_record_limit)
    /\ s.segment_number = 0 => s.prev_segment_sha256 = ZeroSha256
    /\ s.record_count = 0 => s.segment_root = EmptyRoot
    /\ Len(s.batch_roots) = BatchCount(s.record_count, s.batch_record_limit)
    /\ s.record_count > 0 =>
            ComposeBatchRoots(s.batch_roots, s.record_count, s.batch_record_limit)
                = s.segment_root

\* decode_segment_record.  cbor is what the readers make of the bytes.
DecodeSegment(bytes) ==
    IF ~Holds(bytes, "segment") THEN "malformed"
    ELSE LET s == bytes.segment
         IN  IF s.cbor # "canonical" THEN s.cbor
             ELSE IF s.profile = Profile /\ ValidSegment(s) THEN "ok"
             ELSE "malformed"

\* decode_segment_profile_id reads the identifier without validating the rest.
SegmentProfile(bytes) ==
    IF Holds(bytes, "segment") THEN {bytes.segment.profile} ELSE {}

SealArtifact(ledger, number, limit, prev, records) ==
    [segment |-> [cbor |-> "canonical", profile |-> Profile, ledger_id |-> ledger,
                  segment_number |-> number, prev_segment_sha256 |-> prev,
                  batch_record_limit |-> limit, record_count |-> Len(records),
                  batch_roots |-> BatchRoots(records, limit),
                  segment_root |-> MerkleRoot(records)]]

-----------------------------------------------------------------------------
(* The manifest and the files it names. *)

Reference(path, bytes) == [path |-> path, sha256 |-> Sha256(bytes)]

RecordReferences(manifest) ==
    UNION {Range(manifest.record_batches[i].records) : i \in DOMAIN manifest.record_batches}

\* Artifacts::references
References(manifest) ==
    {manifest.segment_cbor} \cup manifest.predecessor_segment_cbor
        \cup manifest.tsa_req \cup manifest.tsa_tsr
        \cup manifest.extensions \cup RecordReferences(manifest)

\* parse_manifest
ParseManifest(bytes) ==
    /\ Holds(bytes, "manifest")
    /\ LET m == bytes.manifest
       IN  /\ \A i \in DOMAIN m.record_batches : m.record_batches[i].records # <<>>
           /\ (m.tsa = "present") <=> (m.tsa_tsr # {})

\* referenced_artifact, split into its two errors.
Unreadable(dir, reference) == reference.path \notin DOMAIN dir

Matches(dir, reference) ==
    /\ ~Unreadable(dir, reference)
    /\ Sha256(dir[reference.path]) = reference.sha256

\* VerificationScope::for_disclosure_class and strength
ClaimedScope(class) ==
    CASE class = "A" -> "public_recompute"
      [] class = "B" -> "disclosed_batch_recompute"
      [] OTHER -> "anchor_only"

Strength(scope) ==
    CASE scope = "public_recompute" -> 3
      [] scope = "disclosed_batch_recompute" -> 2
      [] OTHER -> 1

SelectedScope(manifest, policy) ==
    IF policy.scope = {} THEN ClaimedScope(manifest.class)
    ELSE CHOOSE scope \in policy.scope : TRUE

\* validate_policy
ValidPolicy(policy) ==
    policy.batches # {} => policy.scope = {"disclosed_batch_recompute"}

-----------------------------------------------------------------------------
(* validate_chain *)

ChainStatus(dir, manifest, s) ==
    IF s.segment_number = 0
    THEN IF s.prev_segment_sha256 = ZeroSha256 THEN "epoch" ELSE "failed"
    ELSE IF manifest.predecessor_segment_cbor = {} THEN "predecessor_not_disclosed"
    ELSE LET reference == CHOOSE r \in manifest.predecessor_segment_cbor : TRUE
             prior == dir[reference.path]
         IN  IF /\ Matches(dir, reference)
                /\ DecodeSegment(prior) = "ok"
                /\ prior.segment.ledger_id = s.ledger_id
                /\ prior.segment.segment_number + 1 = s.segment_number
                /\ Sha256(prior) = s.prev_segment_sha256
             THEN "validated" ELSE "failed"

-----------------------------------------------------------------------------
(* validate_disclosure: its steps, each a condition the next one needs. *)

Numbers(manifest, indexed) == {manifest.record_batches[i].batch_number : i \in indexed}

\* The openings whose number names a batch, the first of each number.
Indexed(manifest, count) ==
    LET number(i) == manifest.record_batches[i].batch_number
    IN  {i \in DOMAIN manifest.record_batches :
            number(i) < count /\ \A j \in 1..i - 1 : number(j) # number(i)}

ShapeValid(manifest, s, numbers) ==
    LET openings == Len(manifest.record_batches)
        count == Len(s.batch_roots)
    IN  CASE manifest.class = "A" /\ s.record_count = 0 -> openings = 0
          [] manifest.class = "A" /\ s.record_count > 0 ->
                openings = count /\ Cardinality(numbers) = count
          [] manifest.class = "B" -> count > 1 /\ openings > 0 /\ openings < count
          [] manifest.class = "C" -> openings = 0

\* expected_opening_count
ExpectedCount(s, number) ==
    IF number + 1 = Len(s.batch_roots)
    THEN s.record_count - number * s.batch_record_limit
    ELSE s.batch_record_limit

CountsValid(manifest, s, indexed) ==
    \A i \in indexed :
        Len(manifest.record_batches[i].records)
            = ExpectedCount(s, manifest.record_batches[i].batch_number)

\* Whether the disclosure supports the scope, and the batches it consumes.
ScopeSupported(manifest, s, scope, policy, numbers) ==
    LET count == Len(s.batch_roots)
    IN  CASE scope = "anchor_only" -> TRUE
          [] scope = "public_recompute" -> manifest.class = "A"
          [] OTHER -> /\ count > 1
                      /\ manifest.class # "C"
                      /\ IF manifest.class = "A"
                         THEN /\ policy.batches # {}
                              /\ Cardinality(policy.batches) < count
                              /\ policy.batches \subseteq numbers
                         ELSE policy.batches \in {{}, numbers}

Consumed(manifest, scope, policy, numbers) ==
    CASE scope = "anchor_only" -> {}
      [] scope = "disclosed_batch_recompute" /\ manifest.class = "A" -> policy.batches
      [] OTHER -> numbers

\* opening_leaves: the first reference that cannot be used decides the error.
OpeningError(dir, opening) ==
    LET bad == {k \in DOMAIN opening.records : ~Matches(dir, opening.records[k])}
        first == CHOOSE k \in bad : \A j \in bad : k <= j
    IN  IF bad = {} THEN {}
        ELSE IF Unreadable(dir, opening.records[first]) THEN {"insufficient_disclosure"}
        ELSE {"commitment_mismatch"}

OpenedRecords(dir, opening) ==
    SortedRecords([k \in DOMAIN opening.records |-> dir[opening.records[k].path].record])

\* Fault: the batch's own root is not recomputed.
OpeningFailuresUnrooted(dir, s, opening, judged) ==
    LET error == OpeningError(dir, opening)
    IN  IF error # {} THEN error ELSE RecordFailures(OpenedRecords(dir, opening), judged)

OpeningFailures(dir, s, opening, judged) ==
    LET error == OpeningError(dir, opening)
        records == OpenedRecords(dir, opening)
    IN  IF error # {} THEN error
        ELSE RecordFailures(records, judged)
             \cup (IF mth[LeafHashes(records)] # s.batch_roots[opening.batch_number + 1]
                   THEN {"commitment_mismatch"} ELSE {})

\* The order between neighbouring opened batches, and the whole tree.
OrderFailures(dir, manifest, s, scope, opened) ==
    LET number(i) == manifest.record_batches[i].batch_number
        records(i) == OpenedRecords(dir, manifest.record_batches[i])
        inOrder == SetToSortSeq(opened, LAMBDA i, j : number(i) < number(j))
        all == FlattenSeq([k \in DOMAIN inOrder |-> records(inOrder[k])])
        misplaced == \E i, j \in opened : /\ number(i) + 1 = number(j)
                                          /\ Last(records(i)) > Head(records(j))
        otherRoot == /\ scope = "public_recompute"
                     /\ s.record_count > 0
                     /\ mth[LeafHashes(all)] # s.segment_root
    IN  IF misplaced \/ otherRoot THEN {"commitment_mismatch"} ELSE {}

Insufficient(supported) ==
    [failures |-> {"insufficient_disclosure"}, supported |-> supported]

ValidateDisclosure(dir, manifest, s, scope, policy, judged) ==
    LET indexed == Indexed(manifest, Len(s.batch_roots))
        numbers == Numbers(manifest, indexed)
        consumed == {i \in indexed : manifest.record_batches[i].batch_number
                                        \in Consumed(manifest, scope, policy, numbers)}
        opened == {i \in consumed : OpeningError(dir, manifest.record_batches[i]) = {}}
        stray == IF indexed = DOMAIN manifest.record_batches THEN {}
                 ELSE {"insufficient_disclosure"}
    IN  IF \/ ~ShapeValid(manifest, s, numbers)
           \/ ~CountsValid(manifest, s, indexed)
           \/ ~ScopeSupported(manifest, s, scope, policy, numbers)
        THEN Insufficient(FALSE)
        ELSE [failures |-> stray
                \cup UNION {OpeningFailures(dir, s, manifest.record_batches[i], judged) : i \in consumed}
                \cup OrderFailures(dir, manifest, s, scope, opened),
              supported |-> TRUE]

-----------------------------------------------------------------------------
(* evaluate_tsa: the channel's status and the failures it adds. *)

Channel(status, failures) == [status |-> status, failures |-> failures]

\* verify_timestamp: the archive is read anew for every response.
VerifyTimestamp(response, digest, trust, now) ==
    LoadArchive(trust.archive) /\ VerifyResponse(response, digest, trust, now)

EvaluateTsa(dir, manifest, digest, policy, now) ==
    LET reference == CHOOSE r \in manifest.tsa_tsr : TRUE
        response == dir[reference.path].tsr
        request == CHOOSE r \in manifest.tsa_req : TRUE
        trust == CHOOSE t \in policy.tsa : TRUE
    IN  CASE manifest.tsa = "pending" -> Channel("pending_claim", {})
          [] manifest.tsa = "unavailable" -> Channel("missing", {"channel_failure"})
          [] OTHER ->
                IF Unreadable(dir, reference)
                THEN Channel("missing", {"channel_failure"})
                ELSE IF ~Matches(dir, reference)
                THEN Channel("failed", {"channel_failure", "commitment_mismatch"})
                ELSE IF policy.tsa = {}
                THEN Channel("failed", {"channel_failure", "verifier_policy_rejection"})
                ELSE IF /\ Holds(dir[reference.path], "tsr")
                        /\ VerifyTimestamp(response, digest, trust, now)
                        /\ IF manifest.tsa_req = {} THEN response.nonce = {}
                           ELSE /\ Matches(dir, request)
                                /\ Holds(dir[request.path], "tsq")
                                /\ VerifyRequest(dir[request.path].tsq, digest, response.nonce)
                THEN Channel("verified", {})
                ELSE Channel("failed", {"channel_failure"})

-----------------------------------------------------------------------------
(* verify_bundle_with_policy *)

\* An Err of the verifier, as opposed to a verdict.
Refused == [overall |-> "refused", failures |-> {}, scope |-> "none",
            chain |-> "none", tsa |-> "none", artifact |-> [other |-> 0]]

\* Conclusions::overall
Overall(failures, tsa) ==
    IF failures # {} THEN "failure" ELSE IF tsa = "pending_claim" THEN "incomplete"
    ELSE "success"

DecodeFailure(bytes) ==
    IF \E p \in SegmentProfile(bytes) : p # Profile THEN "unsupported_commitment_profile"
    ELSE IF DecodeSegment(bytes) = "resource_limit" THEN "verifier_policy_rejection"
    ELSE "invalid_segment_artifact"

Verdict(dir, manifest, policy, now, judged) ==
    LET scope == SelectedScope(manifest, policy)
        bytes == dir[manifest.segment_cbor.path]
        s == bytes.segment
        decoded == DecodeSegment(bytes) = "ok"
        matches == /\ s.ledger_id = manifest.ledger_id
                   /\ s.segment_number = manifest.segment_number
                   /\ s.profile = manifest.profile
        chain == IF decoded THEN ChainStatus(dir, manifest, s) ELSE "none"
        disclosure == IF decoded /\ matches
                      THEN ValidateDisclosure(dir, manifest, s, scope, policy, judged)
                      ELSE [failures |-> {}, supported |-> FALSE]
        tsa == EvaluateTsa(dir, manifest, Sha256(bytes), policy, now)
        mismatch == \/ Sha256(bytes) # manifest.segment_cbor.sha256
                    \/ \E p \in SegmentProfile(bytes) : p # manifest.profile
                    \/ decoded /\ ~matches
        failures == (IF mismatch THEN {"commitment_mismatch"} ELSE {})
            \cup (IF decoded THEN {} ELSE {DecodeFailure(bytes)})
            \cup (IF chain = "failed" THEN {"segment_chain_mismatch"} ELSE {})
            \cup disclosure.failures
            \cup (IF /\ Strength(scope) < Strength(ClaimedScope(manifest.class))
                     /\ policy.require_claimed_scope
                     /\ disclosure.supported
                  THEN {"scope_not_exercised"} ELSE {})
            \cup tsa.failures
    IN  [overall |-> Overall(failures, tsa.status), failures |-> failures, scope |-> scope,
         chain |-> chain, tsa |-> tsa.status, artifact |-> bytes]

VerifyBundle(dir, policy, now) ==
    IF /\ ValidPolicy(policy)
       /\ ManifestPath \in DOMAIN dir
       /\ ParseManifest(dir[ManifestPath])
       /\ \A r \in dir[ManifestPath].manifest.extensions : Matches(dir, r)
       /\ ~Unreadable(dir, dir[ManifestPath].manifest.segment_cbor)
    THEN Verdict(dir, dir[ManifestPath].manifest, policy, now, Judgement)
    ELSE Refused
=============================================================================
