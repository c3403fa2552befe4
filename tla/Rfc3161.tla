------------------------------ MODULE Rfc3161 -------------------------------
(***************************************************************************)
(* The acceptance rule for an RFC 3161 timestamp response, as              *)
(* trackone-rfc3161 decides it for the gateway and for the verifier.       *)
(*                                                                         *)
(* An instant is a number of ticks since the Unix epoch, Second ticks to   *)
(* the second: genTime and the clock have fractions, while certificates,   *)
(* CRLs and `openssl -attime` know whole seconds only.                     *)
(*                                                                         *)
(* A response is a record: form (what the DER readers make of it), status, *)
(* policy_oid, imprint, signer (the one embedded certificate that matches  *)
(* the SignerIdentifier), gen_time, nonce, attributes (the certificate     *)
(* SigningCertificateV2 binds, if the signed attributes meet the profile)  *)
(* and signed (whether its CMS signature is the signer's).  An Option is a *)
(* set of at most one element.  The certificate stands for its SHA-256.    *)
(***************************************************************************)
EXTENDS Naturals, FiniteSets

CONSTANTS
    Second,            \* ticks in a second
    MaxCertificates,   \* MAX_CERTIFICATES, of a file and of a path
    MaxArchiveCrls

ASSUME SecondHasFractions == Second \in Nat /\ Second > 1
-----------------------------------------------------------------------------
(* The deployment's policy, an archive of anchors, intermediates and CRLs. *)

\* decode_pem_blocks: what a file decodes to is neither nothing nor too much.
DecodesPem(blocks, maximum) == Cardinality(blocks) \in 1..maximum

\* load_archive_configuration, when the policy is made: no intermediates is no
\* file, and a CRL is complete, direct and says when it ends.
LoadArchive(archive) ==
    /\ DecodesPem(archive.anchors, MaxCertificates)
    /\ archive.intermediates # {} => DecodesPem(archive.intermediates, MaxCertificates)
    /\ DecodesPem(archive.crls, MaxArchiveCrls)
    /\ \A crl \in archive.crls : crl.next_update # {} /\ crl.kind = "base"
-----------------------------------------------------------------------------
Whole(instant) == instant \div Second

Fractional(instant) == instant % Second # 0

\* Fault: the fraction of genTime is cut off.
TruncatedBounds(instant) == {Whole(instant)}

\* openssl_attime_bounds: both whole seconds around a fractional genTime.
AttimeBounds(instant) ==
    {Whole(instant)} \cup (IF Fractional(instant) THEN {Whole(instant) + 1} ELSE {})

\* exceeds_unix_duration compares the complete instants, fractions included.
ExceedsSkew(gen_time, now, skew) == gen_time > now + skew

\* extract_candidate_fields: every structural rule the DER readers enforce.
WellFormed(response) == response.form = "wellformed"

VerifyStatusAndProfile(response, digest, policy) ==
    /\ response.status = 0
    /\ response.policy_oid = policy.oid
    /\ response.imprint = digest
    /\ response.signer = policy.signer

ValidAt(certificate, second) ==
    certificate.not_before <= second /\ second <= certificate.not_after

Issuers(certificate, certificates) ==
    {c \in certificates : c.subject = certificate.issuer}

\* OpenSSL builds a path from the certificate to an anchor, every member of
\* which is valid at the second it is told.  The real one refuses more.
OpensslPath(certificate, archive, second) ==
    LET path[c \in archive.intermediates \cup {certificate}, depth \in 0..MaxCertificates] ==
            /\ ValidAt(c, second)
            /\ \/ \E a \in Issuers(c, archive.anchors) : ValidAt(a, second)
               \/ /\ depth > 0
                  /\ \E i \in Issuers(c, archive.intermediates) : path[i, depth - 1]
    IN  path[certificate, MaxCertificates]

\* verify_timestamp_with_openssl
VerifyWithOpenssl(response, archive) ==
    /\ response.signed
    /\ \A second \in AttimeBounds(response.gen_time) :
            OpensslPath(response.signer, archive, second)

\* validate_crl_for_certificate.  A CRL lists a serial number at most once.
CrlCovers(crl, certificate, second) ==
    /\ crl.kind = "base"
    /\ crl.this_update <= second
    /\ \E next \in crl.next_update : second < next
    /\ \A entry \in crl.revoked : entry.serial = certificate.serial => second < entry.date

\* validate_archive_applicability: the one path the archive describes, a CRL
\* for every certificate on it below the anchor.
ArchiveApplies(certificate, archive, second) ==
    LET walk[c \in archive.intermediates \cup {certificate}, depth \in 1..MaxCertificates + 1] ==
            LET crls == {crl \in archive.crls : crl.issuer = c.issuer}
                intermediates == Issuers(c, archive.intermediates)
                anchors == Issuers(c, archive.anchors)
            IN  /\ depth <= MaxCertificates
                /\ Cardinality(crls) = 1
                /\ \A crl \in crls : CrlCovers(crl, c, second)
                /\ Cardinality(intermediates) + Cardinality(anchors) = 1
                /\ \A i \in intermediates : walk[i, depth + 1]
    IN  walk[certificate, 1]

\* validate_historical_archive
ValidateHistoricalArchive(response, archive) ==
    /\ ArchiveApplies(response.signer, archive, Whole(response.gen_time))
    /\ OpensslPath(response.signer, archive, Whole(response.gen_time))

\* inspect_verified_response: the signed attributes bind the selected signer.
InspectVerified(response) == response.attributes = {response.signer}

\* verify_response.  No caller tells one rejection from another.
VerifyResponse(response, digest, policy, now) ==
    /\ WellFormed(response)
    /\ ~ExceedsSkew(response.gen_time, now, policy.skew)
    /\ VerifyStatusAndProfile(response, digest, policy)
    /\ VerifyWithOpenssl(response, policy.archive)
    /\ ValidateHistoricalArchive(response, policy.archive)
    /\ InspectVerified(response)

\* verify_request: a retained TimeStampReq against the response's nonce.
VerifyRequest(request, digest, nonce) ==
    /\ request.form = "wellformed"
    /\ request.imprint = digest
    /\ request.cert_req
    /\ request.nonce = nonce
=============================================================================
