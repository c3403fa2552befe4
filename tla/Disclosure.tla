----------------------------- MODULE Disclosure -----------------------------
(***************************************************************************)
(* The two ways sealed evidence leaves the gateway: the HTTP disclosure    *)
(* service, whose jobs run several database transactions under a permit,   *)
(* and the snapshot exporter, which stages a directory and renames it into *)
(* place.  Both read rows a timestamp worker may settle meanwhile.         *)
(*                                                                         *)
(* The sealed rows are consistent with one another, as LedgerProducer      *)
(* establishes; what is written there is a constant here.                  *)
(***************************************************************************)
EXTENDS Bundles

CONSTANTS
    Clients,           \* concurrent requests
    Exporters,         \* exporter processes, all given one destination
    Slots,             \* permits of EvidenceState, 4 in the code
    Active,            \* bound: clients and exporters under way at once
    Ledger,            \* the ledger the service holds
    SealedRecords,     \* segment number -> its records in ordinal order
    BatchRecordLimit,
    Credentials,       \* the grants file: a sequence of [token, grants]
    GenerateRequests,  \* the requests clients make, by handler
    CurrentRequests,
    ObjectRequests,
    ObjectPaths,       \* bound: the paths they ask for
    Unsettled,         \* the segments whose timestamp is still queued at first
    ExportSelections,  \* the exporters' arguments
    Trust,             \* the RFC 3161 policy of the worker and the verifier
    Now                \* the verifier's clock

VARIABLES
    tsa_status,        \* tsa_status of each segment's row
    disclosures,       \* trackone_vtl_disclosure: manifest -> its object rows
    slots,             \* permits left
    job,               \* what each client's request is doing
    answer,            \* what the last step answered from the rows, if it did
    exporter,          \* what each exporter is doing
    published          \* what stands at the destination, if anything

vars == <<tsa_status, disclosures, slots, job, answer, exporter, published>>
-----------------------------------------------------------------------------
\* The segments with a row.
Segments == DOMAIN SealedRecords

\* The sealed chain: artifact_cbor of every row.
Chain[n \in Segments] ==
    SealArtifact(Ledger, n, BatchRecordLimit,
                 IF n = 0 THEN ZeroSha256 ELSE Sha256(Chain[n - 1]), SealedRecords[n])

Artifact == [n \in Segments |-> Chain[n]]

\* The response the worker verified and attached.
Response(n) ==
    [tsr |-> [form |-> "wellformed", status |-> 0, policy_oid |-> Trust.oid,
              imprint |-> Sha256(Artifact[n]), signer |-> Trust.signer, gen_time |-> Now,
              nonce |-> {}, attributes |-> {Trust.signer}, signed |-> TRUE]]

Idle == [pc |-> "idle"]

Init ==
    /\ tsa_status = [n \in Segments |-> IF n \in Unsettled THEN "queued" ELSE "verified"]
    /\ disclosures = <<>>
    /\ slots = Slots
    /\ job = [c \in Clients |-> Idle]
    /\ answer = {}
    /\ exporter = [e \in Exporters |-> Idle]
    /\ published = {}
-----------------------------------------------------------------------------
(* What a transaction reads. *)

Material ==
    [n \in Segments |->
        [ledger_id |-> Ledger, segment_number |-> n, artifact |-> Artifact[n],
         artifact_sha256 |-> Sha256(Artifact[n]),
         predecessor |-> {Artifact[m] : m \in {m \in Segments : m + 1 = n}},
         records |-> SealedRecords[n], response |-> Response(n)]]

TsaState(status) ==
    CASE status = "queued" -> "pending" [] status = "failed" -> "unavailable"
      [] OTHER -> "present"

\* anchor_view: one snapshot of the row, its predecessor and its timestamp.
AnchorView(n) ==
    LET tsa == TsaState(tsa_status[n])
    IN  [tsa |-> tsa, manifest |-> Manifest(Material[n], "C", <<>>, tsa),
         files |-> AnchorFiles(Material[n], tsa)]

AnchorConsistent(n) == ArtifactFits(Material[n]) /\ PredecessorFits(Material[n])

Export(n, selection) ==
    PrepareExport(Material[n], selection.class, Range(selection.batches))
-----------------------------------------------------------------------------
(* Authorization. *)

\* Grant::permits
Permits(grant, class, batches) ==
    /\ class \in grant.classes
    /\ class = "B" => grant.all \/ batches \subseteq grant.batches

\* DisclosureAuth::from_json: no token twice, no ledger twice for one token.
FromJson(entries) ==
    /\ IsInjective([i \in DOMAIN entries |-> entries[i].token])
    /\ \A i \in DOMAIN entries :
            LET grants == entries[i].grants
            IN  grants # <<>> /\ IsInjective([k \in DOMAIN grants |-> grants[k].ledger_id])

ASSUME CredentialsLoad == FromJson(Credentials)

\* DisclosureAuth::authenticate: the entry with the token, if there is one.
Authenticate(request) == {entry \in Range(Credentials) : entry.token = request.token}

LedgerGrants(request) ==
    {grant \in UNION {Range(entry.grants) : entry \in Authenticate(request)} :
        grant.ledger_id = request.ledger}

\* authorize: the failure, if any.
Authorize(request) ==
    IF Authenticate(request) = {} THEN {"unauthorized"}
    ELSE IF LedgerGrants(request) = {} THEN {"denied"}
    ELSE IF request.ledger # Ledger THEN {"absent"}
    ELSE {}

GrantOf(request) == CHOOSE grant \in LedgerGrants(request) : TRUE

\* manifest_selection: what a stored manifest discloses.
ManifestSelection(m) ==
    [class |-> m.class,
     batches |-> IF m.class = "B"
                 THEN [i \in DOMAIN m.record_batches |-> m.record_batches[i].batch_number]
                 ELSE <<>>]

\* reference_digest: the reference to a path, if there is one.
ReferenceTo(m, path) == {r \in References(m) : r.path = path}

\* Selection::parse
ParseSelection(selection) ==
    /\ IsInjective(selection.batches)
    /\ (selection.class = "B") <=> (selection.batches # <<>>)
-----------------------------------------------------------------------------
(* Requests.  A job holds its permit until its closure ends, also when the *)
(* client has gone.                                                        *)

UnderWay == {c \in Clients : job[c].pc # "idle"}

Exporting == {e \in Exporters : exporter[e].pc # "idle"}

\* The bound on concurrency; with no permit left a request is refused anyway.
MayStart == Cardinality(UnderWay) + Cardinality(Exporting) < Active

Database == <<tsa_status, disclosures>>

Failed(reason) == [failure |-> reason]

Object(request, bytes) == [object |-> bytes, request |-> request]

\* The job ends, and its permit returns.
Release(c) ==
    /\ job' = [job EXCEPT ![c] = Idle]
    /\ slots' = slots + 1

Finish(c, response) == Release(c) /\ answer' = {response}

\* The job goes on to its next transaction.
Continue(c, state) ==
    /\ job' = [job EXCEPT ![c] = state]
    /\ answer' = {}
    /\ UNCHANGED slots

\* Answered before any row is read: nothing changes.
Refuse(failures) ==
    /\ failures # {}
    /\ answer' = {}
    /\ UNCHANGED <<job, slots>>

\* database_job takes a permit or answers at once.
DatabaseJob(c, request, pc) ==
    IF slots = 0
    THEN Refuse({"capacity"})
    ELSE /\ job' = [job EXCEPT ![c] = [pc |-> pc, request |-> request]]
         /\ slots' = slots - 1
         /\ answer' = {}

\* generate, up to its job.
StartGenerate(c) ==
    \E request \in GenerateRequests :
        IF Authorize(request) # {} THEN Refuse(Authorize(request))
        ELSE IF ~ParseSelection(request.selection) THEN Refuse({"invalid"})
        ELSE IF ~Permits(GrantOf(request), request.selection.class,
                         Range(request.selection.batches))
        THEN Refuse({"denied"})
        ELSE DatabaseJob(c, request, "view")

\* current_object, up to its job.
StartCurrent(c) ==
    \E request \in CurrentRequests :
        IF Authorize(request) # {} THEN Refuse(Authorize(request))
        ELSE IF ~GrantOf(request).read_segments THEN Refuse({"denied"})
        ELSE DatabaseJob(c, request, "current")

\* bundle_object, up to its job.  A client names a digest some client was
\* handed, and any path.
StartObject(c) ==
    \E request \in ObjectRequests, manifest \in DOMAIN disclosures, path \in ObjectPaths :
        IF Authorize(request) # {} THEN Refuse(Authorize(request))
        ELSE IF GrantOf(request).classes = {} THEN Refuse({"denied"})
        ELSE DatabaseJob(c, request @@ [manifest |-> manifest, path |-> path], "lookup")

\* Idle clients and exporters are alike: the first of them starts.
FirstIdle(x, state) == x = CHOOSE y \in DOMAIN state : state[y].pc = "idle"

Start(c) ==
    /\ job[c].pc = "idle" /\ FirstIdle(c, job)
    /\ MayStart
    /\ StartGenerate(c) \/ StartCurrent(c) \/ StartObject(c)
    /\ UNCHANGED <<Database, exporter, published>>

\* The job of current_object: one transaction.
Current(c) ==
    LET request == job[c].request
        n == request.segment
        view == AnchorView(n)
    IN  /\ job[c].pc = "current"
        /\ Finish(c, IF n \notin Segments THEN Failed("absent")
                     ELSE IF ~AnchorConsistent(n) THEN Failed("integrity")
                     ELSE IF request.path = ManifestPath THEN Object(request, view.manifest)
                     ELSE IF request.path = ResponsePath /\ view.tsa = "pending"
                     THEN Failed("pending")
                     ELSE IF request.path = ResponsePath /\ view.tsa = "unavailable"
                     THEN Failed("timestamp")
                     ELSE IF request.path \notin DOMAIN view.files THEN Failed("absent")
                     ELSE Object(request, view.files[request.path]))
        /\ UNCHANGED <<Database, exporter, published>>

\* The selection is checked against the artifact before the builder runs.
SelectionFits(selection, count) ==
    selection.class = "B" =>
        /\ Cardinality(Range(selection.batches)) < count
        /\ \A b \in Range(selection.batches) : b < count

\* generate, first transaction: anchor_view, then the selection's range.
View(c) ==
    LET request == job[c].request
        n == request.segment
    IN  /\ job[c].pc = "view"
        /\ IF n \notin Segments THEN Finish(c, Failed("absent"))
           ELSE IF ~AnchorConsistent(n) THEN Finish(c, Failed("integrity"))
           ELSE IF ~SelectionFits(request.selection, Len(Artifact[n].segment.batch_roots))
           THEN Finish(c, Failed("invalid"))
           ELSE Continue(c, [job[c] EXCEPT !.pc = "prepare"])
        /\ UNCHANGED <<Database, exporter, published>>

\* generate, second transaction: prepare_snapshot.
Prepare(c) ==
    LET request == job[c].request
        n == request.segment
        exports == Export(n, request.selection)
    IN  /\ job[c].pc = "prepare"
        /\ IF tsa_status[n] # "verified"
           THEN Finish(c, Failed(IF tsa_status[n] = "queued" THEN "pending" ELSE "timestamp"))
           ELSE IF exports = {} THEN Finish(c, Failed("integrity"))
           ELSE Continue(c, [pc |-> "store", export |-> CHOOSE x \in exports : TRUE])
        /\ UNCHANGED <<Database, exporter, published>>

\* Fault: the object rows are left to a later transaction.
InsertManifestOnly(export) ==
    disclosures' = IF export.manifest \in DOMAIN disclosures THEN disclosures
                   ELSE disclosures @@ (export.manifest :> <<>>)

\* The rows the third transaction leaves: the manifest and, if it is new, its objects.
InsertDisclosure(export) ==
    disclosures' = IF export.manifest \in DOMAIN disclosures THEN disclosures
                   ELSE disclosures @@ (export.manifest :> export.files)

\* generate, third transaction.
Store(c) ==
    LET export == job[c].export
    IN  /\ job[c].pc = "store"
        /\ InsertDisclosure(export)
        /\ Finish(c, [stored |-> export.manifest])
        /\ UNCHANGED <<tsa_status, exporter, published>>

\* Fault: the stored manifest's selection is not held against the grant.
LookupUnchecked(c) ==
    LET request == job[c].request
        m == request.manifest.manifest
    IN  /\ job[c].pc = "lookup"
        /\ IF m.segment_number # request.segment THEN Finish(c, Failed("absent"))
           ELSE IF request.path = ManifestPath
           THEN Finish(c, Object(request, request.manifest))
           ELSE IF ReferenceTo(m, request.path) = {}
           THEN Finish(c, Failed("absent"))
           ELSE Continue(c, [job[c] EXCEPT !.pc = "fetch"])
        /\ UNCHANGED <<Database, exporter, published>>

\* bundle_object, first query: the manifest row and the grant.
Lookup(c) ==
    LET request == job[c].request
        m == request.manifest.manifest
        selection == ManifestSelection(m)
    IN  /\ job[c].pc = "lookup"
        /\ IF m.segment_number # request.segment THEN Finish(c, Failed("absent"))
           ELSE IF ~ParseSelection(selection) THEN Finish(c, Failed("integrity"))
           ELSE IF ~Permits(GrantOf(request), selection.class, Range(selection.batches))
           THEN Finish(c, Failed("denied"))
           ELSE IF request.path = ManifestPath
           THEN Finish(c, Object(request, request.manifest))
           ELSE IF ReferenceTo(m, request.path) = {}
           THEN Finish(c, Failed("absent"))
           ELSE Continue(c, [job[c] EXCEPT !.pc = "fetch"])
        /\ UNCHANGED <<Database, exporter, published>>

\* bundle_object, second query: the object row and its digest.
Fetch(c) ==
    LET request == job[c].request
        rows == disclosures[request.manifest]
        expected == CHOOSE r \in ReferenceTo(request.manifest.manifest, request.path) : TRUE
    IN  /\ job[c].pc = "fetch"
        /\ Finish(c, IF Matches(rows, expected) THEN Object(request, rows[request.path])
                     ELSE Failed("integrity"))
        /\ UNCHANGED <<Database, exporter, published>>

\* The third transaction commits, and the connection fails before the
\* acknowledgement: the client is told storage is unavailable.
StoreUnseen(c) ==
    /\ job[c].pc = "store"
    /\ InsertDisclosure(job[c].export)
    /\ Release(c)
    /\ answer' = {}
    /\ UNCHANGED <<tsa_status, exporter, published>>

\* Fault: the permit is not tied to the closure.
JobFailsWithPermit(c) ==
    /\ c \in UnderWay
    /\ answer' = {}
    /\ job' = [job EXCEPT ![c] = Idle]
    /\ UNCHANGED <<Database, slots, exporter, published>>

\* A statement fails and its transaction is rolled back, or the closure panics
\* and spawn_blocking reports it.  Either way the permit is dropped.
JobFails(c) ==
    /\ c \in UnderWay
    /\ Release(c)
    /\ answer' = {}
    /\ UNCHANGED <<Database, exporter, published>>
-----------------------------------------------------------------------------
(* The exporter. *)

\* validate_destination, in a parent directory that exists.
ValidDestination == published = {}

\* export_snapshot: the destination, then the material.
StartExport(e) ==
    /\ exporter[e].pc = "idle" /\ FirstIdle(e, exporter)
    /\ MayStart
    /\ ValidDestination
    /\ \E selection \in ExportSelections :
        /\ tsa_status[selection.segment] = "verified"
        /\ \E export \in Export(selection.segment, selection) :
            exporter' = [exporter EXCEPT ![e] =
                [pc |-> "stage", staged |-> <<>>, durable |-> FALSE, left |-> Bundle(export)]]
    /\ answer' = {}
    /\ UNCHANGED <<Database, slots, job, published>>

\* publish_directory: one file after another, the manifest last, each synced.
NextPath(left) ==
    IF DOMAIN left = {ManifestPath} THEN ManifestPath
    ELSE CHOOSE p \in DOMAIN left \ {ManifestPath} : TRUE

Stage(e) ==
    LET x == exporter[e]
        path == NextPath(x.left)
    IN  /\ x.pc = "stage"
        /\ x.left # <<>>
        /\ exporter' = [exporter EXCEPT
                ![e].staged = @ @@ (path :> x.left[path]),
                ![e].left = Restrict(@, DOMAIN @ \ {path})]
        /\ answer' = {}
        /\ UNCHANGED <<Database, slots, job, published>>

\* Fault: the staged directory entries are not synced.
SyncNothing(e) ==
    /\ exporter[e].pc = "stage"
    /\ exporter[e].left = <<>>
    /\ exporter' = [exporter EXCEPT ![e].pc = "rename"]
    /\ answer' = {}
    /\ UNCHANGED <<Database, slots, job, published>>

\* set_serving_permissions and sync_directories
SyncDirectories(e) ==
    /\ exporter[e].pc = "stage"
    /\ exporter[e].left = <<>>
    /\ exporter' = [exporter EXCEPT ![e].pc = "rename", ![e].durable = TRUE]
    /\ answer' = {}
    /\ UNCHANGED <<Database, slots, job, published>>

Publication(e) ==
    [files |-> exporter[e].staged, durable |-> exporter[e].durable, synced |-> FALSE]

\* Fault: a plain rename over what is there.
RenameOver(e) ==
    /\ exporter[e].pc = "rename"
    /\ published' = {Publication(e)}
    /\ exporter' = [exporter EXCEPT ![e] = [pc |-> "sync"]]
    /\ answer' = {}
    /\ UNCHANGED <<Database, slots, job>>

\* renameat2 with RENAME_NOREPLACE; an existing destination is an error.
Rename(e) ==
    /\ exporter[e].pc = "rename"
    /\ IF published = {}
       THEN /\ published' = {Publication(e)}
            /\ exporter' = [exporter EXCEPT ![e] = [pc |-> "sync"]]
       ELSE /\ exporter' = [exporter EXCEPT ![e] = Idle]
            /\ UNCHANGED published
    /\ answer' = {}
    /\ UNCHANGED <<Database, slots, job>>

\* The parent directory is synced; an error here comes after the publication.
SyncParent(e) ==
    /\ exporter[e].pc = "sync"
    /\ exporter' = [exporter EXCEPT ![e] = Idle]
    /\ \/ published' = {[p EXCEPT !.synced = TRUE] : p \in published}
       \/ UNCHANGED published
    /\ answer' = {}
    /\ UNCHANGED <<Database, slots, job>>

\* An error before the rename, or a killed exporter: the private staging
\* directory never becomes the destination.
ExportFails(e) ==
    /\ exporter[e].pc \in {"stage", "rename", "sync"}
    /\ exporter' = [exporter EXCEPT ![e] = Idle]
    /\ answer' = {}
    /\ UNCHANGED <<Database, slots, job, published>>
-----------------------------------------------------------------------------
(* The environment. *)

\* The timestamp worker settles a queued row.
Settle(n) ==
    /\ tsa_status[n] = "queued"
    /\ \E status \in {"verified", "failed"} : tsa_status' = [tsa_status EXCEPT ![n] = status]
    /\ answer' = {}
    /\ UNCHANGED <<disclosures, slots, job, exporter, published>>

\* The machine stops and comes back.  Committed rows survive; what was renamed
\* survives as far as it was synced.
Crash ==
    /\ slots' = Slots
    /\ job' = [c \in Clients |-> Idle]
    /\ answer' = {}
    /\ exporter' = [e \in Exporters |-> Idle]
    /\ \/ published' = {[p EXCEPT !.files = IF p.durable THEN @ ELSE <<>>] : p \in published}
       \/ published' = {p \in published : p.synced}
    /\ UNCHANGED Database

Serve(c) ==
    \/ Current(c) \/ View(c) \/ Prepare(c) \/ Store(c) \/ Lookup(c) \/ Fetch(c)

Publish(e) ==
    \/ StartExport(e) \/ Stage(e) \/ SyncDirectories(e) \/ Rename(e) \/ SyncParent(e)
    \/ ExportFails(e)

Next ==
    \/ \E c \in Clients : Start(c) \/ Serve(c) \/ StoreUnseen(c) \/ JobFails(c)
    \/ \E e \in Exporters : Publish(e)
    \/ \E n \in Segments : Settle(n)
    \/ Crash

Spec == Init /\ [][Next]_vars

\* A blocking job runs on: PostgreSQL answers or the connection fails.
FairSpec == Spec /\ \A c \in Clients : WF_vars(Serve(c))
-----------------------------------------------------------------------------
\* The grant lets its holder have the records of a batch.
Entitled(grant, batch) ==
    \/ "A" \in grant.classes
    \/ "B" \in grant.classes /\ (grant.all \/ batch \in grant.batches)

\* A record leaves through the service only to a holder whose grant for this
\* ledger covers its batch, whoever had the bundle generated, and it is the
\* record sealed at that place (Grant::permits, bundle_object).
ReleasedWithinGrant ==
    \A a \in answer :
        ("object" \in DOMAIN a /\ Holds(a.object, "record")) =>
            LET request == a.request
                place == request.path
            IN  /\ Entitled(GrantOf(request), place[2])
                /\ a.object.record
                     = Batch(SealedRecords[request.segment], BatchRecordLimit, place[2])[place[3]]

VerifierPolicy ==
    [scope |-> {}, batches |-> {}, require_claimed_scope |-> TRUE, tsa |-> {Trust}]

\* Every stored disclosure, and whatever stands at the export destination, is
\* a complete bundle that the evidence verifier accepts at the scope its class
\* claims: through concurrent generation, a timestamp that arrives between two
\* transactions of a job, failures, and crashes between the exporter's steps.
DisclosedBundlesVerify ==
    LET accepted(dir) ==
            LET verdict == VerifyBundle(dir, VerifierPolicy, Now)
            IN  /\ verdict.overall = "success"
                /\ verdict.scope = ClaimedScope(dir[ManifestPath].manifest.class)
    IN  /\ \A m \in DOMAIN disclosures : accepted(Bundle([manifest |-> m, files |-> disclosures[m]]))
        /\ \A p \in published : ManifestPath \in DOMAIN p.files /\ accepted(p.files)

\* The comment on Failure::from says a builder rejection indicates incomplete
\* or inconsistent storage: over consistent rows no request is answered
\* "integrity", neither when it generates a bundle nor when it reads one.
IntegrityMeansCorruption ==
    \A a \in answer : "failure" \in DOMAIN a => a.failure # "integrity"

\* An exhausted pool of permits recovers: jobs that fail, panic or lose their
\* client give their permit back (database_job).
SlotsReturn == (slots = 0) ~> (slots > 0)

\* A published snapshot is immutable: no exporter ever replaces what stands at
\* the destination, however many race for it (publish_directory).
NeverReplaced ==
    [][\A p \in published, q \in published' : p.durable => q.files = p.files]_published
=============================================================================
