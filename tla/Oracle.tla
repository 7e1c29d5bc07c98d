------------------------------- MODULE Oracle -------------------------------
(***************************************************************************)
(* mister-core: the Rust policy oracle.  Each guard yields a verdict or    *)
(* "none"; the first one that has a verdict decides, and the advisory      *)
(* verdicts of policy providers are composed with the result.              *)
(***************************************************************************)
EXTENDS Policy

\* ifc::check_flow on the join of the labels: the trust of the sink decides
\* for secret and for restricted data.
sink_trust_for_verb(verb) ==
    IF verb \in {"net_local", "net_allowlisted", "push_origin"} THEN "verified_internal"
    ELSE IF verb \in EgressVerbs \cup {"run_ephemeral", "mcp_unapproved", "mcp_network_unapproved",
                     "mcp_binary_drift", "mcp_credential_leak", "mcp_injection_detected"}
         THEN "untrusted"
    ELSE "trusted"

check_flow(labels, sink) ==
    (\E x \in labels : x.sensitivity \in {"secret", "restricted"})
        => sink \in {"trusted", "verified_internal"}

session_preconditions(r, l) ==
    IF r.denyAll \/ r.tripwire THEN "deny"
    ELSE IF r.verb = "delegate" /\ ~l.delegation THEN "deny"
    ELSE IF r.verb = "delegate" /\ r.untrustedRead THEN "ask"
    ELSE "none"

preapproval_guards(r) ==
    IF \/ r.posture /\ r.verb = "stage_write"
       \/ r.sensitive /\ r.verb = "read_ref"
       \/ r.verb \in (ShellVerbs \ {"run_ephemeral"}) \cup McpGateVerbs
    THEN "ask" ELSE "none"

\* Data derived from a secret: ask on the way to trusted sinks, deny to
\* others; a forbidden verb is denied either way.
derived_secret_sink(r, l) ==
    IF ~HasDerivedSecret(r) THEN "none"
    ELSE IF r.verb \in EgressVerbs THEN "deny"
    ELSE IF r.verb \in {"stage_write", "commit", "push_origin", "net_allowlisted"}
         THEN IF r.verb \in l.forbidden THEN "deny" ELSE "ask"
    ELSE "none"

\* Mutant: the secret wall is dropped from the network guardrails.
network_without_secret(r, l) ==
    IF r.verb \notin {"net_external", "dns_lookup"} THEN "none"
    ELSE IF r.verb \in l.forbidden \/ Untrusted(r) THEN "deny" ELSE "ask"

network_guardrails(r, l) ==
    IF r.verb \notin {"net_external", "dns_lookup"} THEN "none"
    ELSE IF r.secret \/ r.verb \in l.forbidden \/ Untrusted(r) THEN "deny" ELSE "ask"

forbidden_verb(r, l) == IF r.verb \in l.forbidden THEN "deny" ELSE "none"

secret_session_guards(r) ==
    IF ~r.secret THEN "none"
    ELSE IF r.verb \in {"net_external", "push_remote"} THEN "deny"
    ELSE IF r.verb = "push_origin" THEN "ask"
    ELSE IF r.verb \in {"net_local", "net_allowlisted"} THEN "allow"
    ELSE "none"

untrusted_publish_guardrails(r) ==
    IF Untrusted(r) /\ r.verb = "push_remote" THEN "deny"
    ELSE IF Untrusted(r) /\ r.verb = "push_origin" THEN "ask"
    ELSE "none"

delegation_guardrails(r, l) ==
    IF r.verb # "delegate" THEN "none"
    ELSE IF r.secret THEN "deny"
    ELSE IF r.untrustedRead \/ r.verb \notin l.allowed \cup l.ask \cup l.forbidden THEN "ask"
    ELSE "none"

\* What the lease says: ask verbs, allowed verbs after the flow check, and
\* verbs the lease does not mention.
lease_verdict(r, l) ==
    IF r.verb \in l.ask THEN "ask"
    ELSE IF ~check_flow(EffectiveLabels(r), sink_trust_for_verb(r.verb)) THEN "deny"
    ELSE IF r.verb \in l.allowed THEN "allow" ELSE "ask"

evaluate_inner(r, l) ==
    session_preconditions(r, l)
        ?? preapproval_guards(r)
        ?? derived_secret_sink(r, l)
        ?? network_guardrails(r, l)
        ?? forbidden_verb(r, l)
        ?? secret_session_guards(r)
        ?? untrusted_publish_guardrails(r)
        ?? delegation_guardrails(r, l)
        ?? lease_verdict(r, l)

\* Verbs of the everyday workflow, which providers cannot make noisy while
\* the session is clean.
is_clean_developer_workflow(r) ==
    ~r.secret /\ ~r.wasSecret /\ r.verb \in CodingVerbs \cup {"net_local"}

\* Mutant: a provider's deny is taken over as a deny.
compose_mandating(r, base) ==
    IF base = "allow" /\ ~is_clean_developer_workflow(r) /\ "deny" \in r.advice THEN "deny"
    ELSE IF base = "allow" /\ ~is_clean_developer_workflow(r) /\ "ask" \in r.advice THEN "ask"
    ELSE base

\* Providers can turn an allow into an ask and nothing else.
compose_policy_verdicts(r, base) ==
    IF base = "allow" /\ ~is_clean_developer_workflow(r) /\ r.advice \cap {"ask", "deny"} # {}
    THEN "ask" ELSE base

evaluate(r, l) == compose_policy_verdicts(r, evaluate_inner(r, l))
=============================================================================
