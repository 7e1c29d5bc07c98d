------------------------------- MODULE Policy -------------------------------
(***************************************************************************)
(* Vocabulary of a policy request: verbs, labels, verdicts, leases, and    *)
(* the request that the hooks build from a tool call and the session.      *)
(* Targets, reasons and risk tiers are left out: no verdict depends on     *)
(* them once the verb and the labels are known.                            *)
(***************************************************************************)
EXTENDS Integers

CodingVerbs == {"read_ref", "stage_write", "execute_dry_run", "run_tests", "commit",
                "list_files", "search_code"}
NetworkVerbs == {"net_local", "net_allowlisted", "net_external", "dns_lookup"}
PushVerbs == {"push_origin", "push_remote"}
ShellVerbs == {"run_ephemeral", "dangerous_shell", "env_read", "persistence", "sudo",
               "delete_posture", "sir_self"}
McpGateVerbs == {"mcp_unapproved", "mcp_network_unapproved", "mcp_onboarding", "mcp_binary_drift"}
DetectionVerbs == {"mcp_credential_leak", "mcp_injection_detected", "credential_detected",
                   "elicitation_harvest"}
Verbs == CodingVerbs \cup NetworkVerbs \cup PushVerbs \cup ShellVerbs \cup McpGateVerbs
         \cup DetectionVerbs \cup {"delegate"}

\* Verbs whose data leaves the machine for a place nobody approved.
EgressVerbs == {"net_external", "dns_lookup", "push_remote"}

Sensitivities == {"public", "internal", "restricted", "secret"}
Trusts == {"trusted", "verified_internal", "verified_origin", "untrusted"}
Labels == [sensitivity : Sensitivities, trust : Trusts]

Verdicts == {"allow", "ask", "deny"}
Rank(v) == IF v = "allow" THEN 0 ELSE IF v = "ask" THEN 1 ELSE 2
NotLooser(v, w) == Rank(v) >= Rank(w)

\* The first of two guards that has an opinion.
a ?? b == IF a = "none" THEN b ELSE a

Leases == [allowed : SUBSET Verbs, ask : SUBSET Verbs, forbidden : SUBSET Verbs,
           delegation : BOOLEAN]

DefaultLease ==
    [allowed |-> CodingVerbs \cup {"net_local", "push_origin", "delegate"},
     ask |-> {"push_remote", "net_allowlisted", "run_ephemeral", "dangerous_shell", "mcp_unapproved"},
     forbidden |-> {},
     delegation |-> TRUE]

\* The strict and managed profiles of `sir policy`.
StrictLease ==
    [allowed |-> DefaultLease.allowed \ {"push_origin", "delegate"},
     ask |-> DefaultLease.ask \cup {"push_origin", "delegate"},
     forbidden |-> {"net_external", "dns_lookup"},
     delegation |-> FALSE]

\* A request over a set of label sets and a set of sets of provider verdicts.
\* The hooks never set the tripwire flag.
RequestsOver(labelSets, advice) ==
    [verb : Verbs, posture : BOOLEAN, sensitive : BOOLEAN, tripwire : {FALSE},
     labels : labelSets, derived : labelSets,
     secret : BOOLEAN, wasSecret : BOOLEAN, untrustedRead : BOOLEAN, untrustedTurn : BOOLEAN,
     denyAll : BOOLEAN, advice : advice]

Requests == RequestsOver(SUBSET Labels, SUBSET Verdicts)

Untrusted(r) == r.untrustedRead \/ r.untrustedTurn
EffectiveLabels(r) == r.labels \cup r.derived
HasDerivedSecret(r) == \E x \in r.derived : x.sensitivity = "secret"
=============================================================================
