------------------------------ MODULE Bundles -------------------------------
(***************************************************************************)
(* How the gateway builds evidence bundles from the rows of a sealed       *)
(* segment: the anchor view of the disclosure service, and prepare_export, *)
(* which the service and the snapshot exporter share.                      *)
(*                                                                         *)
(* The material read in one transaction is a record: ledger_id,            *)
(* segment_number, artifact, artifact_sha256, predecessor (a set of at     *)
(* most one artifact), records in ordinal order, response.                 *)
(***************************************************************************)
EXTENDS EvidenceVerifier
-----------------------------------------------------------------------------
SegmentPath == <<"segment.cbor">>

PredecessorPath == <<"predecessor.cbor">>

ResponsePath == <<"timestamp.tsr">>

RecordPath(batch, index) == <<"records", batch, index>>

Manifest(material, class, openings, tsa) ==
    [manifest |->
        [ledger_id |-> material.ledger_id, segment_number |-> material.segment_number,
         profile |-> material.artifact.segment.profile, class |-> class, tsa |-> tsa,
         segment_cbor |-> [path |-> SegmentPath, sha256 |-> material.artifact_sha256],
         predecessor_segment_cbor |->
            {Reference(PredecessorPath, prior) : prior \in material.predecessor},
         tsa_req |-> {}, extensions |-> {},
         tsa_tsr |-> IF tsa = "present" THEN {Reference(ResponsePath, material.response)}
                     ELSE {},
         record_batches |-> openings]]

AnchorFiles(material, tsa) ==
    (SegmentPath :> material.artifact)
        @@ [p \in {PredecessorPath : prior \in material.predecessor} |->
                CHOOSE prior \in material.predecessor : TRUE]
        @@ (IF tsa = "present" THEN ResponsePath :> material.response ELSE <<>>)

PredecessorFits(material) ==
    /\ (material.segment_number = 0) <=> (material.predecessor = {})
    /\ \A prior \in material.predecessor :
            /\ DecodeSegment(prior) = "ok"
            /\ prior.segment.ledger_id = material.ledger_id
            /\ prior.segment.segment_number + 1 = material.segment_number
            /\ Sha256(prior) = material.artifact.segment.prev_segment_sha256

ArtifactFits(material) ==
    /\ Sha256(material.artifact) = material.artifact_sha256
    /\ DecodeSegment(material.artifact) = "ok"
    /\ material.artifact.segment.ledger_id = material.ledger_id
    /\ material.artifact.segment.segment_number = material.segment_number

\* The rows reproduce the artifact they were sealed into.
RecordsFit(material) ==
    LET s == material.artifact.segment
    IN  /\ Len(material.records) = s.record_count
        /\ RecordFailures(material.records, Judgement) = {}
        /\ MerkleRoot(material.records) = s.segment_root
        /\ BatchRoots(material.records, s.batch_record_limit) = s.batch_roots

\* The batches a class opens, as a set of at most one choice.
Disclosed(class, batches, count) ==
    CASE class = "A" -> {0..count - 1}
      [] class = "C" -> {{}}
      [] OTHER -> {b \in {batches} : /\ count > 1
                                     /\ b # {}
                                     /\ Cardinality(b) # count
                                     /\ \A number \in b : number < count}

\* The occurrences of a batch, in leaf digest order.
Occurrences(material, number) ==
    Batch(material.records, material.artifact.segment.batch_record_limit, number)

Opening(material, number) ==
    LET batch == Occurrences(material, number)
    IN  [batch_number |-> number,
         records |-> [k \in DOMAIN batch |->
                        Reference(RecordPath(number, k), [record |-> batch[k]])]]

RecordFiles(material, numbers) ==
    LET paths == UNION {{RecordPath(b, k) : k \in DOMAIN Occurrences(material, b)} :
                            b \in numbers}
    IN  [p \in paths |-> [record |-> Occurrences(material, p[2])[p[3]]]]

\* prepare_export: the bundles it returns, none or one.
PrepareExport(material, class, batches) ==
    IF ArtifactFits(material) /\ RecordsFit(material) /\ PredecessorFits(material)
    THEN {LET inOrder == SetToSortSeq(numbers, <)
          IN  [manifest |-> Manifest(material, class,
                                     [i \in DOMAIN inOrder |-> Opening(material, inOrder[i])],
                                     "present"),
               files |-> AnchorFiles(material, "present") @@ RecordFiles(material, numbers)] :
            numbers \in Disclosed(class, batches, Len(material.artifact.segment.batch_roots))}
    ELSE {}

\* The directory a verifier is given.
Bundle(export) == (ManifestPath :> export.manifest) @@ export.files
=============================================================================
