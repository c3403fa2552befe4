-------------------------- MODULE OtsVerification ---------------------------
(***************************************************************************)
(* trackone-ots: verify_ots_proof and validate_meta_sidecar on files that  *)
(* may be rewritten while they run.  A proof is judged natively as far as  *)
(* possible and otherwise by the external ots program, on a private copy.  *)
(*                                                                         *)
(* An artifact is a model value and stands for its digest.  A proof is a   *)
(* record: form (stub, placeholder, detached, other), hash (the operation  *)
(* its digest is of), digest, tokens.  The tokens of a detached proof are  *)
(* what its bytes spell: more (0xff), the operations append, sha256 and    *)
(* unknown, and the attestations pending, bitcoin and foreign.             *)
(***************************************************************************)
EXTENDS CommandRunner, Sequences, SequencesExt

CONSTANTS
    Artifacts,           \* what the artifact file may hold
    Proofs,
    Options,             \* [allow_placeholder, expected (an option), binary]
    Sidecars,            \* [sha256, names]: the parsed sidecar, and which of the files it names
    MaxRewrites,         \* bound: rewrites of the artifact during one call
    MaxDepth,            \* OTS_MAX_RECURSION_DEPTH
    DigestLength,
    MaxMessage           \* OTS_MAX_OP_RESULT_LEN

VARIABLES
    stage,               \* where the call is
    artifact,            \* the artifact file, an option
    rewrites,
    proof,               \* the proof file, an option; its bytes once read
    options,
    sidecar,
    kept,                \* the artifact read and checked against expected, an option
    copied,              \* the artifact of the private copy, an option
    staging,             \* the private directory exists
    verdict              \* [status, reason] once there is one

otsVars ==
    <<stage, artifact, rewrites, proof, options, sidecar, kept, copied, staging, verdict>>
-----------------------------------------------------------------------------
(* parse_timestamp over the tokens. *)

\* OtsCursor at offset i: the next token, or the end, where every read fails.
ReadToken(tokens, i) == IF i > Len(tokens) THEN "end" ELSE tokens[i]

Parsed(next, pending, bitcoin) ==
    [next |-> next, error |-> {}, pending |-> pending, bitcoin |-> bitcoin]

ParseError(reason) == [next |-> 0, error |-> {reason}, pending |-> 0, bitcoin |-> 0]

\* The two parsers, with the tokens, the recursion left and the message length
\* as they read them.  more repeats the tag of its own level.
ParseTimestamp(tokens) ==
    LET at(i) == ReadToken(tokens, i)
        parse[i \in 1..Len(tokens) + 2, depth \in 0..MaxDepth, length \in 1..MaxMessage,
              tagged \in BOOLEAN] ==
            CASE ~tagged /\ depth = 0 -> ParseError("invalid")
              [] at(i) = "end" -> ParseError("invalid")
              [] ~tagged /\ depth > 0 /\ at(i) = "more" ->
                    LET first == parse[i + 1, depth, length, TRUE]
                        rest == parse[first.next, depth, length, FALSE]
                    IN  IF first.error # {} THEN first
                        ELSE IF rest.error # {} THEN rest
                        ELSE Parsed(rest.next, first.pending + rest.pending,
                                    first.bitcoin + rest.bitcoin)
              [] ~tagged /\ depth > 0 /\ at(i) \notin {"more", "end"} ->
                    parse[i, depth, length, TRUE]
              [] tagged /\ at(i) = "pending" -> Parsed(i + 1, 1, 0)
              [] tagged /\ at(i) = "bitcoin" ->
                    IF length = DigestLength THEN Parsed(i + 1, 0, 1) ELSE ParseError("invalid")
              [] tagged /\ at(i) = "append" ->
                    IF length + 1 > MaxMessage THEN ParseError("invalid")
                    ELSE parse[i + 1, depth - 1, length + 1, FALSE]
              [] tagged /\ at(i) = "sha256" -> parse[i + 1, depth - 1, DigestLength, FALSE]
              [] OTHER -> ParseError("fallback")
    IN  parse[1, MaxDepth, DigestLength, FALSE]

\* parse_detached_ots, against the digest it must bind, if any.
ParseDetached(p, digest) ==
    IF p.form # "detached" \/ p.hash # "sha256" THEN ParseError("fallback")
    ELSE IF \E d \in digest : p.digest # d THEN ParseError("invalid")
    ELSE LET result == ParseTimestamp(p.tokens)
         IN  IF result.error = {} /\ result.next # Len(p.tokens) + 1 THEN ParseError("invalid")
             ELSE result

\* verify_detached_ots_proof
VerifyDetached(p, digest) ==
    LET result == ParseDetached(p, digest)
    IN  IF result.error # {} THEN CHOOSE e \in result.error : TRUE
        ELSE IF result.bitcoin > 0 THEN "fallback"
        ELSE IF result.pending > 0 THEN "pending" ELSE "fallback"
-----------------------------------------------------------------------------
NoVerdict == [status |-> "none", reason |-> "none"]

OtsInit ==
    /\ stage \in {"proof", "meta"}
    /\ artifact \in {{a} : a \in Artifacts} \cup {{}}
    /\ proof \in {{p} : p \in Proofs} \cup {{}}
    /\ options \in Options
    /\ sidecar \in IF stage = "meta" THEN {{s} : s \in Sidecars} \cup {{}} ELSE {{}}
    /\ rewrites = 0 /\ kept = {} /\ copied = {} /\ staging = FALSE
    /\ verdict = NoVerdict

\* Another program writes or removes the artifact.
RewriteArtifact ==
    /\ stage # "returned"
    /\ rewrites < MaxRewrites
    /\ rewrites' = rewrites + 1
    /\ artifact' \in ({{a} : a \in Artifacts} \cup {{}}) \ {artifact}
    /\ UNCHANGED <<stage, proof, options, sidecar, kept, copied, staging, verdict, runner>>

Files == <<artifact, rewrites, proof, options, sidecar>>

\* The call returns; the private directory goes with it.
Concludes(status, reason) ==
    /\ stage' = "returned"
    /\ verdict' = [status |-> status, reason |-> reason]
    /\ staging' = FALSE

Proceeds(next) == stage' = next /\ UNCHANGED <<verdict, staging>>

\* verify_ots_proof_impl: the proof, and the artifact when a digest is expected.
\* The options themselves are refused before anything is read.
ReadProof ==
    /\ stage = "proof"
    /\ IF proof = {} THEN Concludes("missing", "ots-proof-not-found") ELSE Proceeds("artifact")
    /\ UNCHANGED <<Files, kept, copied, runner>>

ReadExpected ==
    /\ stage = "artifact"
    /\ IF options.expected = {} THEN Proceeds("classify") /\ UNCHANGED kept
       ELSE IF artifact = {}
       THEN Concludes("failed", "ots-artifact-read-failed") /\ UNCHANGED kept
       ELSE IF artifact # options.expected
       THEN Concludes("failed", "ots-proof-artifact-hash-mismatch") /\ UNCHANGED kept
       ELSE Proceeds("classify") /\ kept' = artifact
    /\ UNCHANGED <<Files, copied, runner>>

\* expected_digest_for_ots
ExpectedDigest == IF options.expected = {} THEN artifact ELSE options.expected

\* The stub, the placeholder and the native parser; without an expected digest
\* the artifact is read here.
Classify ==
    LET p == CHOOSE x \in proof : TRUE
        digest == ExpectedDigest
        native == VerifyDetached(p, digest)
    IN  /\ stage = "classify"
        /\ IF p.form \in {"stub", "placeholder"} /\ ~options.allow_placeholder
           THEN Concludes("failed", "placeholder-not-allowed")
           ELSE IF p.form = "stub"
           THEN IF digest = {} THEN Concludes("failed", "stationary-stub-artifact-missing")
                ELSE IF digest = {p.digest} THEN Concludes("pending", "stationary-stub-accepted")
                ELSE Concludes("failed", "stationary-stub-hash-mismatch")
           ELSE IF p.form = "placeholder" THEN Concludes("pending", "placeholder-accepted")
           ELSE IF native = "pending" THEN Concludes("pending", "ots-pending-attestation")
           ELSE IF native = "invalid" THEN Concludes("failed", "ots-proof-invalid")
           ELSE Proceeds("external")
        /\ UNCHANGED <<Files, kept, copied, runner>>

\* Fault: the program is given the files in place.
CopyInPlace ==
    /\ stage = "external"
    /\ IF artifact = {} THEN Concludes("failed", "ots-artifact-read-failed") /\ UNCHANGED copied
       ELSE IF ~options.binary THEN Concludes("failed", "ots-binary") /\ UNCHANGED copied
       ELSE stage' = "spawn" /\ copied' = artifact /\ UNCHANGED <<verdict, staging>>
    /\ UNCHANGED <<Files, kept, runner>>

\* verify_external_ots, up to the private copy: the artifact already checked,
\* or the one on disk now.  Staging may fail.
Copy ==
    LET bytes == IF kept = {} THEN artifact ELSE kept
    IN  /\ stage = "external"
        /\ IF bytes = {} THEN Concludes("failed", "ots-artifact-read-failed") /\ UNCHANGED copied
           ELSE IF ~options.binary THEN Concludes("failed", "ots-binary") /\ UNCHANGED copied
           ELSE \/ Concludes("failed", "ots-staging-failed") /\ UNCHANGED copied
                \/ stage' = "spawn" /\ copied' = bytes /\ staging' = TRUE /\ UNCHANGED verdict
        /\ UNCHANGED <<Files, kept, runner>>

\* What the program checks: the proof is of this artifact and leads to a block.
Attested(p, bytes) ==
    p.form = "detached" /\ bytes = {p.digest} /\ "bitcoin" \in Range(p.tokens)

SpawnOts ==
    /\ stage = "spawn"
    /\ Spawn("ots", Attested(CHOOSE p \in proof : TRUE, copied), 0)
    /\ Proceeds("spawned")
    /\ UNCHANGED <<Files, kept, copied>>

ExternalVerdict ==
    /\ stage = "spawned"
    /\ Collect
    /\ IF report = "success" THEN Concludes("verified", "ots-verified")
       ELSE Concludes("failed", "ots-verification-failed")
    /\ UNCHANGED <<Files, kept, copied>>

\* validate_meta_sidecar_impl: the sidecar and the paths it names, then the
\* artifact, then the proof's path.
ReadMeta ==
    /\ stage = "meta"
    /\ IF sidecar = {} THEN Concludes("missing", "meta-not-found")
       ELSE IF artifact = {} THEN Concludes("missing", "meta-artifact-missing")
       ELSE IF \E s \in sidecar : "artifact" \notin s.names
       THEN Concludes("failed", "meta-artifact-path-mismatch")
       ELSE Proceeds("meta_artifact")
    /\ UNCHANGED <<Files, kept, copied, runner>>

ReadMetaArtifact ==
    /\ stage = "meta_artifact"
    /\ IF artifact = {} THEN Concludes("missing", "meta-artifact-missing") /\ UNCHANGED kept
       ELSE IF \E s \in sidecar : artifact # {s.sha256}
       THEN Concludes("failed", "meta-artifact-hash-mismatch") /\ UNCHANGED kept
       ELSE Proceeds("meta_proof") /\ kept' = artifact
    /\ UNCHANGED <<Files, copied, runner>>

ReadMetaProof ==
    /\ stage = "meta_proof"
    /\ IF proof = {} THEN Concludes("missing", "ots-proof-not-found")
       ELSE IF \E s \in sidecar : "proof" \notin s.names
       THEN Concludes("failed", "meta-ots-path-mismatch")
       ELSE Concludes("verified", "meta-valid")
    /\ UNCHANGED <<Files, kept, copied, runner>>

VerifyOts ==
    \/ ReadProof \/ ReadExpected \/ Classify \/ Copy \/ SpawnOts \/ ExternalVerdict
    \/ ReadMeta \/ ReadMetaArtifact \/ ReadMetaProof
-----------------------------------------------------------------------------
(***************************************************************************)
(* A proof is reported verified only when the external program accepted    *)
(* the very bytes that were read, and of the expected digest when one was  *)
(* given, however the artifact is rewritten meanwhile.  A detached proof   *)
(* is reported pending only when it is about nothing but pending           *)
(* attestations, each token of it accounted for: one with a Bitcoin        *)
(* attestation never rests on the native parser.                           *)
(***************************************************************************)
OtsVerdictIsBound ==
    \A p \in proof :
        /\ verdict.reason = "ots-verified" =>
                /\ Attested(p, copied)
                /\ options.expected \subseteq copied
        /\ verdict.reason = "ots-pending-attestation" =>
                /\ Range(p.tokens) \subseteq {"more", "append", "sha256", "pending"}
                /\ options.expected \subseteq {p.digest}
        /\ verdict.reason = "meta-valid" => \A s \in sidecar : kept = {s.sha256}
=============================================================================
