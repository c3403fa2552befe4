--------------------------- MODULE RemoteVerifier ---------------------------
(***************************************************************************)
(* trackone-evidence as it runs: verify_remote_bundle retrieves a bundle   *)
(* object by object from an origin and judges the staged copy;             *)
(* compact_bundle judges a directory, reads it again and writes an archive *)
(* that verify_archive replays.  What is read may be republished between   *)
(* two reads, and a request may fail.                                      *)
(*                                                                         *)
(* HTTPS, its headers and curl's retries are a request that yields the     *)
(* complete object or fails; an archive is the directory it expands to.    *)
(***************************************************************************)
EXTENDS Bundles

CONSTANTS
    Ledgers,             \* [limit, records]: the sealed segments under study
    Contents(_),         \* ledger -> the directories that may stand at the root
    Republished(_),      \* ledger -> the directories it may be replaced by
    Policies,
    MaxChanges,          \* bound: republications during one task
    MaxRequests,         \* RemoteOptions::max_requests
    MaxArchiveMembers,
    Trust,               \* the RFC 3161 policy
    Now

VARIABLES
    ledger,
    origin,              \* what stands at the bundle root now
    changes,
    policy,
    task,                \* remote, or compact with or without the extensions
    pc,
    left,                \* the references still to be read
    staged,              \* the private copy, or the members of the archive
    requests,
    outcome              \* the verdict, or the Err in its place

vars == <<ledger, origin, changes, policy, task, pc, left, staged, requests, outcome>>
-----------------------------------------------------------------------------
(* The chain the bundles are about: segment 1 and its predecessor. *)

Number == 1

FirstArtifact(l) == SealArtifact("ledger", 0, l.limit, ZeroSha256, <<>>)

SealedArtifact(l) ==
    SealArtifact("ledger", Number, l.limit, Sha256(FirstArtifact(l)), l.records)

ResponseOver(artifact, nonce) ==
    [tsr |-> [form |-> "wellformed", status |-> 0, policy_oid |-> Trust.oid,
              imprint |-> Sha256(artifact), signer |-> Trust.signer, gen_time |-> Now,
              nonce |-> nonce, attributes |-> {Trust.signer}, signed |-> TRUE]]

SealedMaterial(l) ==
    [ledger_id |-> "ledger", segment_number |-> Number, artifact |-> SealedArtifact(l),
     artifact_sha256 |-> Sha256(SealedArtifact(l)), predecessor |-> {FirstArtifact(l)},
     records |-> l.records, response |-> ResponseOver(SealedArtifact(l), {})]

FirstMaterial(l) ==
    [ledger_id |-> "ledger", segment_number |-> 0, artifact |-> FirstArtifact(l),
     artifact_sha256 |-> Sha256(FirstArtifact(l)), predecessor |-> {}, records |-> <<>>,
     response |-> ResponseOver(FirstArtifact(l), {})]

\* RemoteOptions::expected_segment_sha256, provisioned independently.
Expected(l) == Sha256(SealedArtifact(l))

\* What the exporter would publish.
Exported(l) ==
    LET count == Len(SealedArtifact(l).segment.batch_roots)
        selections == {<<"A", {}>>, <<"C", {}>>} \cup ({"B"} \X SUBSET (0..count - 1))
    IN  {Bundle(export) : export \in
            UNION {PrepareExport(SealedMaterial(l), s[1], s[2]) : s \in selections}}
-----------------------------------------------------------------------------
Init ==
    /\ ledger \in Ledgers
    /\ origin \in Contents(ledger)
    /\ policy \in Policies
    /\ task \in {[kind |-> "remote"], [kind |-> "compact", include |-> TRUE],
                 [kind |-> "compact", include |-> FALSE]}
    /\ pc = IF task.kind = "remote" THEN "manifest" ELSE "check"
    /\ changes = 0 /\ left = <<>> /\ staged = <<>> /\ requests = 0
    /\ outcome = Refused

\* Another bundle takes the place of the one being read.
Republish ==
    /\ pc # "done"
    /\ changes < MaxChanges
    /\ changes' = changes + 1
    /\ origin' \in Republished(ledger) \ {origin}
    /\ UNCHANGED <<ledger, policy, task, pc, left, staged, requests, outcome>>

Environment == <<ledger, origin, changes, policy, task>>

End(verdict) == pc' = "done" /\ outcome' = verdict

\* The errors a caller sees, told apart.
Err(kind) == [Refused EXCEPT !.overall = kind]

-----------------------------------------------------------------------------
(* Retrieval. *)

\* Fault: the query is retrieved only with the records.
WantedWithoutQuery(m) ==
    LET scope == SelectedScope(m, policy)
        consumed == Consumed(m, scope, policy, Numbers(m, DOMAIN m.record_batches))
        opened == SelectSeq(m.record_batches, LAMBDA o : o.batch_number \in consumed)
    IN  <<m.segment_cbor>> \o SetToSeq(m.predecessor_segment_cbor) \o SetToSeq(m.extensions)
            \o (IF m.tsa = "present" THEN SetToSeq(m.tsa_tsr) ELSE <<>>)
            \o FlattenSeq([i \in DOMAIN opened |-> opened[i].records])

\* The objects verify_remote_bundle asks for after the manifest, in its order:
\* the artifact first, and only the openings the scope consumes.
Wanted(m) ==
    LET scope == SelectedScope(m, policy)
        consumed == Consumed(m, scope, policy, Numbers(m, DOMAIN m.record_batches))
        opened == SelectSeq(m.record_batches, LAMBDA o : o.batch_number \in consumed)
    IN  <<m.segment_cbor>> \o SetToSeq(m.predecessor_segment_cbor) \o SetToSeq(m.extensions)
            \o (IF m.tsa = "present" THEN SetToSeq(m.tsa_req) \o SetToSeq(m.tsa_tsr) ELSE <<>>)
            \o FlattenSeq([i \in DOMAIN opened |-> opened[i].records])

\* Retriever::fetch: the request counts, the object arrives whole or not at all.
Request(path, arrives) ==
    /\ requests' = requests + 1
    /\ IF requests + 1 > MaxRequests THEN End(Err("limit")) /\ UNCHANGED <<left, staged>>
       ELSE \/ End(Err("interrupted")) /\ UNCHANGED <<left, staged>>
            \/ IF path \in DOMAIN origin THEN arrives
               ELSE End(Refused) /\ UNCHANGED <<left, staged>>

FetchManifest ==
    /\ pc = "manifest"
    /\ Request(ManifestPath,
            IF ParseManifest(origin[ManifestPath])
            THEN /\ staged' = ManifestPath :> origin[ManifestPath]
                 /\ left' = Wanted(origin[ManifestPath].manifest)
                 /\ pc' = "fetch" /\ UNCHANGED outcome
            ELSE End(Refused) /\ UNCHANGED <<left, staged>>)
    /\ UNCHANGED Environment

\* stage_reference: bytes of another digest are kept for the verifier to judge.
Fetch ==
    /\ pc = "fetch" /\ left # <<>>
    /\ LET path == Head(left).path
       IN  Request(path, /\ staged' = (path :> origin[path]) @@ staged
                         /\ left' = Tail(left)
                         /\ UNCHANGED <<pc, outcome>>)
    /\ UNCHANGED Environment

\* add_integrity_failure
Pinned(verdict) ==
    IF verdict.overall = "refused" \/ Sha256(verdict.artifact) = Expected(ledger) THEN verdict
    ELSE [verdict EXCEPT !.failures = @ \cup {"commitment_mismatch"}, !.overall = "failure"]

VerifyStaged ==
    /\ pc = "fetch" /\ left = <<>>
    /\ End(Pinned(VerifyBundle(staged, policy, Now)))
    /\ UNCHANGED <<Environment, left, staged, requests>>
-----------------------------------------------------------------------------
(* Compaction and replay. *)

\* compact_bundle begins with the verifier, here on one state of the directory.
Check ==
    /\ pc = "check"
    /\ IF VerifyBundle(origin, policy, Now).overall = "success"
       THEN pc' = "reread" /\ UNCHANGED outcome
       ELSE End(Refused)
    /\ UNCHANGED <<Environment, left, staged, requests>>

\* Fault: the manifest keeps the references whose files are left out.
CompactedWithReferences(m) == [m EXCEPT !.extensions = @]

\* The manifest of the archive.
Compacted(m) == [m EXCEPT !.extensions = IF task.include THEN @ ELSE {}]

\* Artifacts::references, in its order.
Members(m) ==
    <<m.segment_cbor>> \o SetToSeq(m.predecessor_segment_cbor)
        \o FlattenSeq([i \in DOMAIN m.record_batches |-> m.record_batches[i].records])
        \o SetToSeq(m.tsa_req) \o SetToSeq(m.tsa_tsr)
        \o (IF task.include THEN SetToSeq(m.extensions) ELSE <<>>)

Reread ==
    /\ pc = "reread"
    /\ IF ManifestPath \in DOMAIN origin /\ ParseManifest(origin[ManifestPath])
       THEN LET m == origin[ManifestPath].manifest
            IN  /\ staged' = ManifestPath :> [manifest |-> Compacted(m)]
                /\ left' = Members(m)
                /\ pc' = "collect" /\ UNCHANGED outcome
       ELSE End(Refused) /\ UNCHANGED <<left, staged>>
    /\ UNCHANGED <<Environment, requests>>

\* referenced_artifact
Collect ==
    /\ pc = "collect" /\ left # <<>>
    /\ LET reference == Head(left)
       IN  IF Matches(origin, reference)
           THEN /\ staged' = (reference.path :> origin[reference.path]) @@ staged
                /\ left' = Tail(left)
                /\ UNCHANGED <<pc, outcome>>
           ELSE End(Refused) /\ UNCHANGED <<left, staged>>
    /\ UNCHANGED <<Environment, requests>>

\* write_archive, then verify_archive on what was written.
VerifyArchive ==
    /\ pc = "collect" /\ left = <<>>
    /\ End(IF Cardinality(DOMAIN staged) > MaxArchiveMembers THEN Err("limit")
           ELSE VerifyBundle(staged, policy, Now))
    /\ UNCHANGED <<Environment, left, staged, requests>>
-----------------------------------------------------------------------------
Done == pc = "done" /\ UNCHANGED vars

Next ==
    \/ FetchManifest \/ Fetch \/ VerifyStaged
    \/ Check \/ Reread \/ Collect \/ VerifyArchive
    \/ Republish \/ Done

Spec == Init /\ [][Next]_vars
-----------------------------------------------------------------------------
Concluded(kind) == pc = "done" /\ task.kind = kind

(***************************************************************************)
(* When verify_remote_bundle reports success, the staged files are about   *)
(* the provisioned artifact and no other, whatever mixture of bundles the  *)
(* origin served meanwhile: the timestamp covers it, a disclosed           *)
(* predecessor is the sealed one, and every batch the scope consumed opens *)
(* to exactly the records sealed in it - all of them for public_recompute. *)
(***************************************************************************)
SuccessIsSealed ==
    Concluded("remote") /\ outcome.overall = "success" =>
        LET m == staged[ManifestPath].manifest
            material == SealedMaterial(ledger)
            count == Len(material.artifact.segment.batch_roots)
            numbers == Numbers(m, DOMAIN m.record_batches)
            consumed == Consumed(m, outcome.scope, policy, numbers)
        IN  /\ outcome.artifact = material.artifact
            /\ \A r \in m.tsa_tsr : staged[r.path].tsr.imprint = Expected(ledger)
            /\ \A r \in m.predecessor_segment_cbor : staged[r.path] = FirstArtifact(ledger)
            /\ \A i \in DOMAIN m.record_batches :
                    m.record_batches[i].batch_number \in consumed =>
                        OpenedRecords(staged, m.record_batches[i])
                            = Occurrences(material, m.record_batches[i].batch_number)
            /\ outcome.scope = "public_recompute" => consumed = 0..count - 1
            /\ outcome.scope = "disclosed_batch_recompute" => consumed # {}

(***************************************************************************)
(* Retrieving only the evidence the scope consumes loses nothing: from an  *)
(* origin that stands still, verify_remote_bundle succeeds exactly when    *)
(* the local verifier accepts the whole directory and its artifact is the  *)
(* provisioned one, and otherwise finds the same failures.  In particular  *)
(* every bundle prepare_export builds is accepted at the scope it claims.  *)
(***************************************************************************)
RemoteAgreesWithLocal ==
    /\ Concluded("remote")
    /\ changes = 0
    /\ outcome.overall \notin {"interrupted", "limit"}
    => LET local == VerifyBundle(origin, policy, Now)
       IN  /\ outcome.overall \in {"refused", Pinned(local).overall}
           /\ outcome.overall = "refused" => local.overall # "success"
           /\ outcome.overall # "refused" => outcome.failures = Pinned(local).failures
           /\ origin \in Exported(ledger) /\ policy.scope = {} => outcome.overall = "success"

(***************************************************************************)
(* An archive holds, for every reference of its own manifest, bytes of the *)
(* referenced digest, also when the directory was republished between the  *)
(* verification and the second reading.  When it was not, replaying the    *)
(* archive repeats the verdict that allowed it to be written, with or      *)
(* without the extensions.                                                 *)
(***************************************************************************)
ArchiveReplays ==
    Concluded("compact") /\ outcome # Refused =>
        /\ \A r \in References(staged[ManifestPath].manifest) : Matches(staged, r)
        /\ changes = 0 /\ outcome.overall # "limit" =>
                outcome = VerifyBundle(origin, policy, Now)

(***************************************************************************)
(* The verifier's parser and the ledger's encoder agree on what canonical  *)
(* bytes are: of the records in the consumed batches, one is objected to   *)
(* exactly when it is not the shortest heads around a payload that         *)
(* encode_value makes of a JSON value of supported depth, so a value has   *)
(* one accepted encoding.  What the encoder makes of a deeper value is     *)
(* outside the verifier's policy, but never called invalid.  (Of records   *)
(* without byte strings, which no JSON value has.)                         *)
(***************************************************************************)
RecordsAreCanonical ==
    /\ Concluded("remote")
    /\ outcome.overall \in {"success", "failure"}
    /\ outcome.artifact = SealedArtifact(ledger)
    /\ outcome.failures \cap {"insufficient_disclosure", "channel_failure"} = {}
    => LET m == staged[ManifestPath].manifest
           consumed == Consumed(m, outcome.scope, policy, Numbers(m, DOMAIN m.record_batches))
           opened == {o \in Range(m.record_batches) :
                        o.batch_number \in consumed /\ OpeningError(staged, o) = {}}
           refused == {r \in UNION {Range(OpenedRecords(staged, o)) : o \in opened} :
                        ~IsRecordOf(Encoded[r], Encodings)}
       IN  /\ refused # {} <=> outcome.failures
                    \cap {"invalid_canonical_record", "verifier_policy_rejection"} # {}
           /\ "invalid_canonical_record" \in outcome.failures =>
                    \E r \in refused : ~IsRecordOf(Encoded[r], DeepEncodings)
=============================================================================
