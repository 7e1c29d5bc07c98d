------------------------------ MODULE Fallback ------------------------------
(***************************************************************************)
(* pkg/core localEvaluate: the Go rules that decide when the mister-core   *)
(* binary is not installed.                                                *)
(***************************************************************************)
EXTENDS Policy

\* Unlike the oracle's check, untrusted data may not reach an untrusted sink
\* either; other sinks than these count as trusted.
deniesFlowToVerb(labels, verb) ==
    /\ verb \in EgressVerbs
    /\ \E x \in labels : x.sensitivity \in {"secret", "restricted"} \/ x.trust = "untrusted"

localEvaluatePreflight(r) ==
    IF r.denyAll THEN "deny"
    ELSE IF HasDerivedSecret(r) /\ r.verb \in EgressVerbs THEN "deny"
    ELSE IF \/ HasDerivedSecret(r)
               /\ r.verb \in {"stage_write", "commit", "push_origin", "net_allowlisted"}
            \/ r.posture /\ r.verb = "stage_write"
            \/ r.sensitive /\ r.verb = "read_ref"
         THEN "ask"
    ELSE "none"

\* Mutant: the turn-scoped signal is not looked at on the fallback path.
networkWithoutTurnSignal(r, l) ==
    IF r.verb \in EgressVerbs
    THEN IF \/ deniesFlowToVerb(EffectiveLabels(r), r.verb) \/ r.secret \/ r.untrustedRead
            \/ r.verb \in l.forbidden \ {"push_remote"}
         THEN "deny" ELSE "ask"
    ELSE IF r.verb = "push_origin" /\ (r.secret \/ r.wasSecret \/ r.untrustedRead) THEN "ask"
    ELSE IF r.verb = "net_allowlisted" THEN "ask"
    ELSE "none"

\* Of the forbidden verbs of the lease only net_external and dns_lookup are
\* looked at.
localEvaluateNetwork(r, l) ==
    IF r.verb \in EgressVerbs
    THEN IF \/ deniesFlowToVerb(EffectiveLabels(r), r.verb) \/ r.secret \/ Untrusted(r)
            \/ r.verb \in l.forbidden \ {"push_remote"}
         THEN "deny" ELSE "ask"
    ELSE IF r.verb = "push_origin" /\ (r.secret \/ r.wasSecret \/ Untrusted(r)) THEN "ask"
    ELSE IF r.verb = "net_allowlisted" THEN "ask"
    ELSE "none"

localEvaluateDelegation(r, l) ==
    IF r.verb # "delegate" THEN "none"
    ELSE IF r.secret THEN "deny"
    ELSE IF r.untrustedRead THEN "ask"
    ELSE IF l.delegation THEN "allow" ELSE "deny"

\* Detection signals are stricter than the oracle: any sensitive or untrusted
\* label denies.
detectionVerbDenies(labels) ==
    \E x \in labels : x.sensitivity \in {"secret", "restricted"} \/ x.trust = "untrusted"

localEvaluateCommandRisk(r) ==
    IF r.verb \in ShellVerbs \cup McpGateVerbs THEN "ask"
    ELSE IF r.verb \notin DetectionVerbs THEN "none"
    ELSE IF r.verb = "mcp_credential_leak" \/ detectionVerbDenies(EffectiveLabels(r)) THEN "deny"
    ELSE "ask"

localEvaluateBase(r, l) ==
    localEvaluatePreflight(r)
        ?? localEvaluateNetwork(r, l)
        ?? localEvaluateDelegation(r, l)
        ?? localEvaluateCommandRisk(r)
        ?? (IF deniesFlowToVerb(EffectiveLabels(r), r.verb) THEN "deny" ELSE "allow")

isLocalCleanDeveloperWorkflow(r) ==
    ~r.secret /\ ~r.wasSecret /\ r.verb \in CodingVerbs \cup {"net_local"}

composeLocalPolicyVerdicts(r, base) ==
    IF base = "allow" /\ ~isLocalCleanDeveloperWorkflow(r) /\ r.advice \cap {"ask", "deny"} # {}
    THEN "ask" ELSE base

localEvaluate(r, l) == composeLocalPolicyVerdicts(r, localEvaluateBase(r, l))
=============================================================================
