------------------------------ MODULE MCTools -------------------------------
(***************************************************************************)
(* Tools with a signer below an intermediate that is revoked, responses at *)
(* and around every boundary, and proofs of every form.                    *)
(***************************************************************************)
EXTENDS Tools

Certificate(subject, issuer, serial, from, to) ==
    [subject |-> subject, issuer |-> issuer, serial |-> serial, not_before |-> from, not_after |-> to]

Crl(issuer, revoked) ==
    [issuer |-> issuer, kind |-> "base", this_update |-> 0, next_update |-> {5}, revoked |-> revoked]

Signer == Certificate("signer", "ca", 7, 1, 3)

\* The intermediate is revoked from the given second on.
Trusting(revoked) ==
    [oid |-> "oid", signer |-> Signer, skew |-> 1,
     archive |-> [anchors |-> {Certificate("root", "root", 1, 0, 9)},
                  intermediates |-> {Certificate("ca", "root", 2, 0, 9)},
                  crls |-> {Crl("ca", {}), Crl("root", {[serial |-> 2, date |-> revoked]})}]]

\* The last four do not load: no anchor, a CRL too many, without an end, a delta.
MCTrusts ==
    {Trusting(3), Trusting(4),
     [Trusting(4) EXCEPT !.archive.anchors = {}],
     [Trusting(4) EXCEPT !.archive.crls = @ \cup {Crl("other", {})}],
     [Trusting(4) EXCEPT !.archive.crls = {[crl EXCEPT !.next_update = {}] : crl \in @}],
     [Trusting(4) EXCEPT !.archive.crls = {[crl EXCEPT !.kind = "delta"] : crl \in @}]}

Answer(gen_time) ==
    [form |-> "wellformed", status |-> 0, policy_oid |-> "oid", imprint |-> "digest",
     signer |-> Signer, gen_time |-> gen_time, nonce |-> {}, attributes |-> {Signer},
     signed |-> TRUE, size |-> 1]

\* The first and the last valid second, half a second to either side, the
\* permitted skew and more; then everything else that may be wrong.
MCResponses ==
    {Answer(t) : t \in {1, 2, 3, 5, 6, 7}}
        \cup {[Answer(4) EXCEPT !.form = "malformed"], [Answer(4) EXCEPT !.imprint = "other"],
              [Answer(4) EXCEPT !.signed = FALSE], [Answer(4) EXCEPT !.attributes = {}],
              [Answer(4) EXCEPT !.size = 3]}

Hashed(hash, form, digest, tokens) ==
    [hash |-> hash, form |-> form, digest |-> digest, tokens |-> tokens]

Proof(form, digest, tokens) == Hashed("sha256", form, digest, tokens)

MCProofs ==
    {Proof("stub", "a", <<>>), Proof("placeholder", "a", <<>>), Proof("other", "a", <<>>),
     Hashed("sha1", "detached", "b", <<"bitcoin">>)}
        \cup {Proof("detached", "a", tokens) : tokens \in
                {<<"pending">>, <<"sha256", "bitcoin">>, <<"append", "bitcoin">>,
                 <<"more", "pending", "bitcoin">>, <<"more", "append", "pending", "pending">>,
                 <<"more", "pending">>, <<"append", "append", "pending">>,
                 <<"sha256", "sha256", "sha256", "pending">>, <<"pending", "pending">>,
                 <<"foreign">>, <<>>}}

MCOptions ==
    [allow_placeholder : BOOLEAN, expected : {{}, {"a"}, {"b"}}, binary : {TRUE}]
        \cup {[allow_placeholder |-> FALSE, expected |-> {}, binary |-> FALSE]}

MCSidecars == [sha256 : {"a", "b"}, names : SUBSET {"artifact", "proof"}]
=============================================================================
