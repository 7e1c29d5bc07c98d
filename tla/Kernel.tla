------------------------------- MODULE Kernel -------------------------------
(***************************************************************************)
(* The v2 decision kernel as a pure function, twice: pkg/kernel in Go and  *)
(* sir-core in Rust.  What the port repeats branch by branch is one        *)
(* operator here; where the two were written apart each has its own.       *)
(*                                                                         *)
(* A signal is [valid, rel, pre, type, sens, agent, mark, scope]: mark is  *)
(* the pattern its display string hits, or "none".  An input is            *)
(* [mode, flags, signals, taint, caps, real, scoped, resolved, advice].    *)
(***************************************************************************)
EXTENDS Naturals, Sequences, FiniteSets, FiniteSetsExt

Verdicts == <<"allow", "ask", "deny">>
Strictness(v) == CHOOSE i \in DOMAIN Verdicts : Verdicts[i] = v

\* Signals of a wrong schema, or without an id or a kind, are dropped (Go).
Usable(s) == s.valid
NormalizeSignals(sigs) ==
    LET kept   == {i \in DOMAIN sigs : Usable(sigs[i])}
        Nth(k) == CHOOSE i \in kept : Cardinality({j \in kept : j <= i}) = k
    IN  [k \in 1..Cardinality(kept) |-> sigs[Nth(k)]]

hasSignal(sigs, rel) == \E i \in DOMAIN sigs : sigs[i].rel = rel
hasPreExec(sigs, rels) == \E i \in DOMAIN sigs : sigs[i].pre /\ sigs[i].rel \in rels
AnyReliability == {"declared_intent", "mediated_action", "observed_runtime", "enforced_boundary", "advisory_signal"}

-----------------------------------------------------------------------------
(***************************************************************************)
(* Attribution.                                                            *)
(***************************************************************************)
AttributionConfidence(sigs) ==
    IF hasSignal(sigs, "enforced_boundary") THEN "high"
    ELSE IF hasSignal(sigs, "mediated_action") \/ hasSignal(sigs, "declared_intent") THEN "medium"
    ELSE IF hasSignal(sigs, "observed_runtime") THEN "low"
    ELSE "unknown"

Typed(s) == s.type # "none"
PrimaryActionType(sigs) ==
    LET typed == {i \in DOMAIN sigs : Typed(sigs[i])}
    IN  IF typed = {} THEN "unknown" ELSE sigs[Min(typed)].type

Rank == [low |-> 0, medium |-> 1, high |-> 2, external_network |-> 2, credential |-> 3]

\* Go: the first signal of the highest rank; an unranked sensitivity counts
\* for nothing.
PrimarySensitivity(sigs) ==
    LET ranked == {i \in DOMAIN sigs : sigs[i].sens \in DOMAIN Rank}
        top    == {i \in ranked : \A j \in ranked : Rank[sigs[j].sens] <= Rank[sigs[i].sens]}
    IN  IF top = {} THEN "low" ELSE sigs[Min(top)].sens

rank(sens) == IF sens \in DOMAIN Rank THEN Rank[sens] ELSE 0

\* Mutant: the table of the port has no entry for a network target.
primary_sensitivity_flat(sigs) ==
    LET r(i) == IF sigs[i].sens = "external_network" THEN 0 ELSE rank(sigs[i].sens)
        top  == {i \in DOMAIN sigs : \A j \in DOMAIN sigs : r(j) <= r(i)}
    IN  IF top = {} THEN "low" ELSE sigs[Max(top)].sens

\* Rust: max_by_key keeps the last of the highest rank, and anything it does
\* not know has rank 0.
primary_sensitivity(sigs) ==
    LET top == {i \in DOMAIN sigs : \A j \in DOMAIN sigs : rank(sigs[j].sens) <= rank(sigs[i].sens)}
    IN  IF top = {} THEN "low" ELSE sigs[Max(top)].sens

ComputeSpoofingRisk(flags, sigs) ==
    IF "span_forged" \in flags THEN "high"
    ELSE IF hasSignal(sigs, "enforced_boundary") THEN "none"
    ELSE IF flags \cap {"span_stripped", "detached_child", "hook_missing"} # {}
         THEN IF hasSignal(sigs, "observed_runtime") THEN "medium" ELSE "high"
    ELSE IF hasSignal(sigs, "declared_intent") \/ hasSignal(sigs, "mediated_action") THEN "low" ELSE "high"

-----------------------------------------------------------------------------
(***************************************************************************)
(* Enforceability: what the mode and its providers can really prevent.     *)
(***************************************************************************)
providerCan(caps) == caps \cap {"block", "contain"} # {}
actionEnforced(scoped, type) == scoped = {} \/ type \in scoped

\* A severed span leaves what the runtime sensor saw.
Residue(sigs) == IF hasSignal(sigs, "observed_runtime") THEN "detects" ELSE "blind"

AnalyzeEnforceability(in, sigs) ==
    IF "effect_unavailable" \in in.flags
    THEN IF "fail_closed" \in in.flags THEN "enforces" ELSE "detects"
    ELSE CASE in.mode \in {"contained", "managed"} ->
                IF \/ hasSignal(sigs, "enforced_boundary")
                   \/ providerCan(in.caps) /\ in.real /\ actionEnforced(in.scoped, PrimaryActionType(sigs))
                THEN "enforces" ELSE "detects"
           [] in.mode = "mediated" ->
                IF in.flags \cap {"span_stripped", "detached_child"} # {} THEN Residue(sigs)
                ELSE IF hasPreExec(sigs, AnyReliability) /\ (in.real \/ hasSignal(sigs, "enforced_boundary"))
                THEN "enforces" ELSE "detects"
           [] in.mode = "hook_gate" ->
                IF in.flags \cap {"hook_missing", "span_stripped", "span_forged", "detached_child"} # {} THEN Residue(sigs)
                ELSE IF hasPreExec(sigs, {"declared_intent"}) THEN "enforces" ELSE "detects"
           [] in.mode = "os_observed" -> Residue(sigs)
           [] in.mode \in {"observe", "advise"} -> IF sigs # <<>> THEN "detects" ELSE "blind"
           [] OTHER -> "blind"

-----------------------------------------------------------------------------
(***************************************************************************)
(* Labels and rules.                                                       *)
(***************************************************************************)
Marks == [dangerous |-> "dangerous_shell", cicd |-> "cicd_edit", githook |-> "git_hook_tamper",
          sirconf |-> "sir_config_tamper"]

\* Labelize, the four Apply...Label passes and the resolved actor.
Labelize(type, sens, sigs, resolved) ==
    {l \in {"credential_access"} : sens = "credential"} \cup
    {l \in {"external_egress"} : sens = "external_network"} \cup
    {l \in {"shell_execution"} : type = "shell_exec"} \cup
    {l \in {"file_mutation"} : type = "file_write"} \cup
    {l \in {"ai_agent_actor"} : resolved \/ \E i \in DOMAIN sigs : sigs[i].agent} \cup
    {Marks[sigs[i].mark] : i \in {i \in DOMAIN sigs : sigs[i].mark \in DOMAIN Marks}}

initialPolicies ==
    <<"deny-agent-credential-read", "deny-secret-to-egress", "ask-external-egress", "ask-dangerous-shell",
      "ask-new-mcp-server", "ask-cicd-edit", "ask-git-hook-tamper", "deny-sir-config-tamper">>
DenyRules == {1, 2, 8}

\* Go: the MCP rule also matches the action type.
Needs == <<{"ai_agent_actor", "credential_access"}, {"credential_access", "external_egress"}, {"external_egress"},
           {"shell_execution", "dangerous_shell"}, {"new_mcp_server"}, {"cicd_edit"}, {"git_hook_tamper"},
           {"sir_config_tamper"}>>
matches(type, labels) ==
    {i \in DOMAIN Needs : Needs[i] \subseteq labels \/ (initialPolicies[i] = "ask-new-mcp-server" /\ type = "mcp_trust")}

\* Rust: labels only.
rule_matches(labels) == {i \in DOMAIN Needs : Needs[i] \subseteq labels}

CrossAction(taint, labels) == "credential_access" \in taint /\ "external_egress" \in labels

\* The rules in order, up to and including the first deny.
EvaluatePolicy(hits, labels, taint) ==
    LET denies == hits \cap DenyRules
        kept   == IF denies = {} THEN hits ELSE {i \in hits : i <= Min(denies)}
    IN  IF CrossAction(taint, labels)
        THEN [verdict |-> "deny", rules |-> {"deny-secret-to-egress"}]
        ELSE [verdict |-> IF denies # {} THEN "deny" ELSE IF hits # {} THEN "ask" ELSE "allow",
              rules |-> {initialPolicies[i] : i \in kept}]

applyLowConfidenceEscalation(verdict, attribution, sens) ==
    IF verdict = "allow" /\ attribution \in {"low", "unknown"} /\ sens \in {"credential", "high", "critical"}
    THEN "ask" ELSE verdict

cleanDeveloperWorkflowActions ==
    {"file_read", "file_write", "file_list", "run_tests", "search_code", "vcs_status", "vcs_diff", "vcs_commit"}
isCleanDeveloperWorkflow(taint, type) ==
    "credential_access" \notin taint /\ type \in cleanDeveloperWorkflowActions

\* An advisory ask or deny (advice holds the verdicts marked advisory) turns an allow into an ask, unless the floor holds.
composePolicyVerdicts(advice, verdict, taint, type) ==
    IF /\ verdict = "allow" /\ ~isCleanDeveloperWorkflow(taint, type)
       /\ \E v \in advice : v \in {"ask", "deny"}
    THEN "ask" ELSE verdict

EffectsOf(verdict) ==
    {"record"} \cup {e \in {"block"} : verdict = "deny"} \cup {e \in {"prompt"} : verdict = "ask"}

\* The decision-time downgrade notice: block is required and cannot happen.
ModeCanBlock(mode) == mode \in {"hook_gate", "mediated", "contained", "managed"}
UnavailableRequiredEffects(mode, effects) == {e \in effects \cap {"block"} : ~ModeCanBlock(mode)}

resolveDecisionClass(verdict, enf) ==
    CASE verdict = "deny" -> "deny_now"
      [] verdict = "ask" -> IF enf = "enforces" THEN "block_and_wait" ELSE "record_post_hoc"
      [] OTHER -> "proceed_and_reconcile"

computeNewTaint(sens) == {l \in {"credential_access"} : sens = "credential"}

\* The pipeline both engines share once the signals are read.
Decide(in, sigs, type, sens, hits, labels) ==
    LET policy  == EvaluatePolicy(hits, labels, in.taint)
        attr    == AttributionConfidence(sigs)
        low     == applyLowConfidenceEscalation(policy.verdict, attr, sens)
        verdict == composePolicyVerdicts(in.advice, low, in.taint, type)
        enf     == AnalyzeEnforceability(in, sigs)
    IN  [verdict |-> verdict, class |-> resolveDecisionClass(verdict, enf), enf |-> enf, attr |-> attr,
         spoof |-> ComputeSpoofingRisk(in.flags, sigs),
         rules |-> policy.rules \cup {r \in {"low-confidence-escalation"} : low # policy.verdict}
                                \cup {r \in {"policy"} : verdict # low},
         effects |-> EffectsOf(verdict), taint |-> computeNewTaint(sens), type |-> type]

\* Go.
Evaluate(in) ==
    LET sigs   == NormalizeSignals(in.signals)
        type   == PrimaryActionType(sigs)
        sens   == PrimarySensitivity(sigs)
        labels == Labelize(type, sens, sigs, in.resolved)
    IN  Decide(in, sigs, type, sens, matches(type, labels), labels)

\* Rust: every signal of the request, whatever its schema.
evaluate(in) ==
    LET sigs   == in.signals
        type   == PrimaryActionType(sigs)
        sens   == primary_sensitivity(sigs)
        labels == Labelize(type, sens, sigs, in.resolved)
    IN  Decide(in, sigs, type, sens, rule_matches(labels), labels)

-----------------------------------------------------------------------------
(***************************************************************************)
(* Evidence and friction.                                                  *)
(***************************************************************************)
\* Mutant: a verdict that was given is a verdict that was used.
usedWhenGiven(v, final, base) == v # "allow"

providerVerdictWasUsed(v, final, base) == base = "allow" /\ final = "ask" /\ v \in {"ask", "deny"}

BuildProviderPolicyEvidence(advice, final, base) == {v \in advice : providerVerdictWasUsed(v, final, base)}

DeveloperWorkflowFloorEvidence(taint, type, advice, base, final) ==
    IF advice = {} THEN "none"
    ELSE IF base = "allow" /\ final = "allow" /\ isCleanDeveloperWorkflow(taint, type) THEN "protected"
    ELSE "not_applicable"

MaxPromptsPerWindow == 3

\* The answer for a scope that was asked n times within the window.
CheckFriction(verdict, n) == IF verdict = "ask" /\ n >= MaxPromptsPerWindow THEN "deny" ELSE verdict

\* The first scope any signal carries, dropped signals included.
Scoped(s) == s.scope # "none"
TaintScopeFromSignals(sigs) ==
    LET scoped == {i \in DOMAIN sigs : Scoped(sigs[i])}
    IN  IF scoped = {} THEN "global" ELSE sigs[Min(scoped)].scope

modeActiveProviders(mode) ==
    CASE mode = "hook_gate" -> {"hook", "none"}
      [] mode = "os_observed" -> {"sensor", "none"}
      [] mode = "mediated" -> {"runner", "sensor", "none"}
      [] OTHER -> {"hook", "sensor", "runner", "none"}

\* checkConformance: every signal's provider is one the mode deploys.
conformanceIssues(in) == {i \in DOMAIN in.signals : in.signals[i].provider \notin modeActiveProviders(in.mode)}

scoreRank == [enforces |-> 3, detects |-> 2, blind |-> 1]

-----------------------------------------------------------------------------
(***************************************************************************)
(* `sir policy explain` and `sir policy test`: the verbs of the hooks put  *)
(* in the kernel's words, and a signal made up for the request             *)
(* [action, taint, agent].                                                 *)
(***************************************************************************)
verbOfAction ==
    [vcs_push |-> "push_origin", vcs_commit |-> "commit", file_read |-> "read_ref", file_write |-> "stage_write",
     network_connect |-> "net_external", network_fetch |-> "net_external"]
actionForPolicyProvider(a) == IF a \in DOMAIN verbOfAction THEN verbOfAction[a] ELSE a

actionForKernel(a) ==
    CASE a \in {"push_origin", "push_remote"} -> "vcs_push"
      [] a = "commit" -> "vcs_commit"
      [] a = "read_ref" -> "file_read"
      [] a = "stage_write" -> "file_write"
      [] a = "list_files" -> "file_list"
      [] a \in {"net_external", "net_allowlisted", "net_local"} -> "network_connect"
      [] OTHER -> a

sensitivityForPolicyRequest(req) ==
    LET a == actionForKernel(req.action)
    IN  IF a \in {"network_connect", "network_fetch", "dns_lookup"} \/ (a = "vcs_push" /\ "credential_access" \in req.taint)
        THEN "external_network" ELSE "low"

\* The floor once more, for display.
isExplainFloored(taint, action) ==
    /\ "credential_access" \notin taint
    /\ action \in {"file_read", "file_write", "file_list", "run_tests", "search_code", "vcs_status", "vcs_diff", "vcs_commit"}

policySignal(req) ==
    [valid |-> TRUE, rel |-> "declared_intent", pre |-> TRUE, type |-> actionForKernel(req.action),
     sens |-> sensitivityForPolicyRequest(req), agent |-> req.agent, mark |-> "none", scope |-> "none"]
evaluatePolicyRequest(req, advice) ==
    Evaluate([mode |-> "hook_gate", flags |-> {}, signals |-> <<policySignal(req)>>, taint |-> req.taint, caps |-> {},
              real |-> FALSE, scoped |-> {}, resolved |-> FALSE, advice |-> advice])
=============================================================================
