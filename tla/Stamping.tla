------------------------------ MODULE Stamping ------------------------------
(***************************************************************************)
(* Rfc3161TimestampAuthority::stamp, which a timestamp worker calls for a  *)
(* claimed segment: make the query with openssl, submit it with curl,      *)
(* verify the response with two or three more openssl processes, publish   *)
(* it, and clean up.  Every program runs under CommandRunner.  The         *)
(* acceptance rule is the one of Rfc3161, taken step by step.              *)
(***************************************************************************)
EXTENDS CommandRunner, Rfc3161, Sequences

CONSTANTS
    Responses,         \* what the authority may answer, with its size
    QueryOutput,       \* what the query command may write to its pipes
    Digest,            \* of the artifact
    Trusts,            \* the verification policies a deployment may have
    Now                \* the clock the worker reads

VARIABLES
    trust,             \* the verification policy
    step,              \* where stamp is
    files,             \* its files: staged, query, response, workdir
    response,          \* the bytes received, an option
    seconds,           \* the -attime values still to be verified at
    stamped            \* the response stamp returned, an option

stampVars == <<trust, step, files, response, seconds, stamped>>
-----------------------------------------------------------------------------
\* Rfc3161TimestampAuthority::new: an archive that does not load is no policy.
StampInit ==
    /\ trust \in {t \in Trusts : LoadArchive(t.archive)}
    /\ step = "stage" /\ files = {} /\ response = {} /\ seconds = <<>> /\ stamped = {}

To(next) == step' = next

\* An Err: the guards of the staged file and of the work directory are dropped
\* on the way out of stamp_paths.
Fails == To("cleanup") /\ files' = files \ {"staged", "workdir"}

\* TemporaryResponse::new_next_to
StageResponse ==
    /\ step = "stage"
    /\ \/ To("query") /\ files' = {"staged"}
       \/ Fails
    /\ UNCHANGED <<response, seconds, stamped, runner>>

\* The first command of submit_paths; the child creates the query file.
Query ==
    /\ step = "query"
    /\ \E size \in QueryOutput : Spawn("query", TRUE, size)
    /\ To("queried") /\ files' = files \cup {"query"}
    /\ UNCHANGED <<response, seconds, stamped>>

\* Requires the success of the command that ended.
After(current, next) ==
    /\ step = current
    /\ Collect
    /\ IF report = "success" THEN next ELSE Fails

Queried ==
    /\ After("queried", To("submit") /\ UNCHANGED files)
    /\ UNCHANGED <<response, seconds, stamped>>

Submit ==
    /\ step = "submit"
    /\ \E r \in Responses : Spawn("submission", TRUE, r.size) /\ response' = {r}
    /\ To("submitted")
    /\ UNCHANGED <<files, seconds, stamped>>

Submitted ==
    /\ After("submitted", To("check") /\ UNCHANGED files)
    /\ UNCHANGED <<response, seconds, stamped>>

Received == CHOOSE r \in response : TRUE

\* The two -attime values in order, one if they coincide.
InOrder(bounds) ==
    LET low == CHOOSE b \in bounds : \A c \in bounds : b <= c
    IN  <<low>> \o (IF bounds = {low} THEN <<>> ELSE <<CHOOSE b \in bounds : b # low>>)

\* create_temporary_directory, removed again when its guard is dropped.
CreateTemporaryDirectory == files' = files \cup {"workdir"}

\* verify_response_with_clock, up to the private directory, which may be refused.
Check ==
    /\ step = "check"
    /\ \/ Fails /\ UNCHANGED seconds
       \/ /\ WellFormed(Received)
          /\ ~ExceedsSkew(Received.gen_time, Now, trust.skew)
          /\ VerifyStatusAndProfile(Received, Digest, trust)
          /\ To("materialize")
          /\ CreateTemporaryDirectory
          /\ seconds' = InOrder(AttimeBounds(Received.gen_time))
    /\ UNCHANGED <<response, stamped, runner>>

\* materialize_archive and write_private_file: the archive, the response and the
\* signer's certificate are written for openssl, or the directory goes again.
Materialize ==
    /\ step = "materialize"
    /\ \/ To("attime") /\ UNCHANGED files
       \/ Fails
    /\ UNCHANGED <<response, seconds, stamped, runner>>

\* verify_timestamp_with_openssl: one process for every value.
VerifyAt ==
    /\ step = "attime"
    /\ \E size \in QueryOutput :
            Spawn("verify", /\ Received.signed
                            /\ OpensslPath(Received.signer, trust.archive, Head(seconds)), size)
    /\ To("attimed")
    /\ UNCHANGED <<files, response, seconds, stamped>>

VerifiedAt ==
    /\ After("attimed", /\ To(IF Len(seconds) > 1 THEN "attime" ELSE "archive")
                        /\ UNCHANGED files)
    /\ seconds' = Tail(seconds)
    /\ UNCHANGED <<response, stamped>>

\* validate_historical_archive: the CRLs, then the path with openssl verify.
VerifyArchive ==
    /\ step = "archive"
    /\ IF ArchiveApplies(Received.signer, trust.archive, Whole(Received.gen_time))
       THEN /\ Spawn("verify", OpensslPath(Received.signer, trust.archive,
                                           Whole(Received.gen_time)), 0)
            /\ To("archived") /\ UNCHANGED files
       ELSE Fails /\ UNCHANGED runner
    /\ UNCHANGED <<response, seconds, stamped>>

VerifiedArchive ==
    /\ After("archived", IF InspectVerified(Received)
                         THEN To("persist") /\ files' = files \ {"workdir"}
                         ELSE Fails)
    /\ UNCHANGED <<response, seconds, stamped>>

\* TemporaryResponse::persist: sync, link, unlink, sync the directory.  The
\* last of these may fail with the response already in place.
Persist ==
    /\ step = "persist"
    /\ \/ Fails /\ UNCHANGED stamped
       \/ To("cleanup") /\ files' = {"query", "response"} /\ UNCHANGED stamped
       \/ To("cleanup") /\ files' = {"query", "response"} /\ stamped' = response
    /\ UNCHANGED <<response, seconds, runner>>

\* The end of stamp, on every path.
Cleanup ==
    /\ step = "cleanup"
    /\ To("returned")
    /\ files' = files \ {"query", "response"}
    /\ UNCHANGED <<response, seconds, stamped, runner>>

Stamp ==
    /\ \/ StageResponse \/ Query \/ Queried \/ Submit \/ Submitted
       \/ Check \/ Materialize \/ VerifyAt \/ VerifiedAt \/ VerifyArchive \/ VerifiedArchive
       \/ Persist \/ Cleanup
    /\ UNCHANGED trust
-----------------------------------------------------------------------------
\* The certificates from the signer up to its anchor.
ChainOf(certificate, archive) ==
    LET known == archive.intermediates \cup archive.anchors
        up[depth \in 0..MaxCertificates] ==
            IF depth = 0 THEN {certificate}
            ELSE up[depth - 1] \cup UNION {Issuers(c, known) : c \in up[depth - 1]}
    IN  up[MaxCertificates]

(***************************************************************************)
(* A response stamp returns was received whole and within the limit, is    *)
(* over the artifact and the trusted signer's, and held at the exact       *)
(* instant it claims, fraction of a second included: every certificate of  *)
(* the chain was valid then, a CRL covered each one below the anchor and   *)
(* none was revoked, and the instant lies within the permitted skew.       *)
(***************************************************************************)
StampedIsValid ==
    \A r \in stamped :
        LET chain == ChainOf(r.signer, trust.archive)
        IN  /\ r.size <= MaxResponse
            /\ r.imprint = Digest /\ r.signer = trust.signer /\ r.signed
            /\ r.gen_time <= Now + trust.skew
            /\ chain \cap trust.archive.anchors # {}
            /\ \A c \in chain :
                    /\ c.not_before * Second <= r.gen_time
                    /\ r.gen_time <= c.not_after * Second
            /\ \A c \in chain \ trust.archive.anchors :
                 \E crl \in trust.archive.crls :
                    /\ crl.issuer = c.issuer
                    /\ crl.this_update * Second <= r.gen_time
                    /\ \E next \in crl.next_update : r.gen_time < next * Second
                    /\ \A entry \in crl.revoked :
                            entry.serial = c.serial => r.gen_time < entry.date * Second
=============================================================================
