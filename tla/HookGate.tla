------------------------------ MODULE HookGate ------------------------------
(***************************************************************************)
(* The hooks around a tool call.  PreToolUse judges it: a fixed sequence   *)
(* of gates, each of which may answer, then the policy oracle, then the    *)
(* transport rules (thinking guard, observe mode).  The developer approves *)
(* or declines what was asked, the host runs what was cleared, PostToolUse *)
(* reads the output and updates the session.  Several calls are under way  *)
(* at once.  Each hook holds the session lock, so it is one step.  Between *)
(* them the developer prompts, waits, approves, declassifies and unlocks.  *)
(***************************************************************************)
EXTENDS Oracle, SessionState

CONSTANTS
    Scenarios       \* by name: profiles of the session, intents of the agent, grants the
                    \* developer may give, whether a server elicits answers, and bounds
                    \* on the tool calls, on `sir approve` and on turns

\* A shell command is opaque, or rewrites a sensitive git setting, only if
\* its verb is a harmless one: the verb of a pipeline is the riskiest of its
\* parts, an interpreter that reads its program from a pipe ranks above a
\* commit, and riskier verbs are left to their own gates.  The Agent tool
\* delegates; a sub-agent is started by its own event.
ASSUME IntentAssumption ==
    \A n \in DOMAIN Scenarios : \A i \in Scenarios[n].intents :
        /\ DOMAIN i = {"tool", "verb", "file", "server", "verbatim", "shape"}
        /\ i.verb \in Verbs
        /\ i.shape = "opaque" => i.verb \in CodingVerbs \ {"stage_write", "commit"}
        /\ i.shape = "git_config" => i.verb \in CodingVerbs \ {"stage_write"}
        /\ i.tool \in {"Agent", "Subagent"} => i.verb = "delegate" /\ i.shape = "plain"

ASSUME GrantAssumption == \A n \in DOMAIN Scenarios : Scenarios[n].grants \subseteq Grants

\* What some properties need, and the instances keep to.  A call sends data,
\* or does something that an earlier gate asks about, and not both: no command
\* also installs a package that is not in the lockfile, MCP calls are not read
\* as commands (the option for that is off), and no lease runs packages
\* unasked.
SendsAlone ==
    \A n \in DOMAIN Scenarios :
        /\ \A i \in Scenarios[n].intents :
              i.verb \in EgressVerbs => i.tool # "mcp" /\ i.shape # "install_new"
        /\ \A p \in Scenarios[n].profiles : "run_ephemeral" \notin p.lease.allowed

VARIABLES
    scenario,       \* which of the scenarios this session is
    profile,        \* profile of the lease
    leased,         \* the lease approves the host of net_external calls, for a while
    session,        \* the session record on disk
    calls,          \* what became of each tool call
    seen            \* history, which no hook reads: what really happened

vars == <<scenario, profile, leased, session, calls, seen>>

-----------------------------------------------------------------------------
(***************************************************************************)
(* Profiles and tool calls.                                                *)
(***************************************************************************)
PersonalProfile ==
    [lease |-> DefaultLease, denyRaw |-> TRUE, reuse |-> TRUE, silentHosts |-> TRUE,
     autoHosts |-> TRUE, narrowEnv |-> TRUE, quietMcp |-> TRUE,
     scoped |-> TRUE, provider |-> "none", observe |-> FALSE, thinking |-> FALSE]

\* A lease written before the friction options existed keeps them off.
UpgradedProfile ==
    [PersonalProfile EXCEPT !.denyRaw = FALSE, !.reuse = FALSE, !.silentHosts = FALSE,
                            !.autoHosts = FALSE, !.narrowEnv = FALSE, !.quietMcp = FALSE]

StrictProfile == [UpgradedProfile EXCEPT !.lease = StrictLease, !.denyRaw = TRUE]

\* Options of a profile: observe-only rollout, an agent in extended thinking,
\* MCP servers without a capability scope, an authoritative policy provider
\* and what it says ("failing": no usable answer).
Observing(p) == [p EXCEPT !.observe = TRUE]
Thinking(p) == [p EXCEPT !.thinking = TRUE]
Unscoped(p) == [p EXCEPT !.scoped = FALSE]
Authoritative(p, says) == [p EXCEPT !.provider = says]

\* A tool call: file is the file it reads, writes or carries ("env" holds
\* credentials, "pkg" is vendored code); verbatim says that its arguments
\* spell out a credential; shape is what the gates see in it beyond its verb.
Shapes == {"plain", "opaque", "tunnel", "own_state", "git_config", "off_scope", "drifted",
           "fresh", "install_new", "install_locked", "safe_env"}

Intent(tool, verb, file) ==
    [tool |-> tool, verb |-> verb, file |-> file, server |-> "none",
     verbatim |-> FALSE, shape |-> "plain"]
MCPCall(m, file) == [Intent("mcp", "execute_dry_run", file) EXCEPT !.server = m]
Verbatim(i) == [i EXCEPT !.verbatim = TRUE]
Shaped(i, shape) == [i EXCEPT !.shape = shape]

\* MapToolToIntent looks at the lease: a request to a host that was approved
\* meanwhile is another verb.
MapToolToIntent(i) ==
    IF leased /\ i.verb = "net_external" THEN [i EXCEPT !.verb = "net_allowlisted"]
    ELSE IF leased /\ i.verb = "mcp_network_unapproved" THEN [i EXCEPT !.verb = "execute_dry_run"]
    ELSE i

IsSensitive(i) == i.verb = "read_ref" /\ i.file = "env"
SensitiveTarget(i) == (i.tool = "Read" /\ IsSensitive(i)) \/ (i.tool = "Bash" /\ i.verb = "env_read")
CopiesSecret(i) == i.tool = "Bash" /\ i.verb = "execute_dry_run" /\ i.file = "env"

labelsForEvaluation(i) ==
    IF i.verb \in {"read_ref", "stage_write"} /\ i.file = "env" THEN secretReadLineageLabel
    ELSE IF i.tool = "mcp" \/ i.file = "pkg"
         THEN [sensitivity |-> "public", trust |-> "verified_origin"]
    ELSE IF i.tool = "Agent" THEN [sensitivity |-> "public", trust |-> "verified_internal"]
    ELSE [sensitivity |-> "public", trust |-> "trusted"]

derivedLabelsForIntent(s, i) ==
    IF i.file \in Files /\ i.verb \in {"stage_write", "commit", "net_allowlisted"} \cup PushVerbs \cup EgressVerbs
    THEN s.lineage[i.file] ELSE {}

buildCoreRequest(s, i) ==
    [verb |-> i.verb, posture |-> FALSE, sensitive |-> IsSensitive(i), tripwire |-> FALSE,
     labels |-> {labelsForEvaluation(i)}, derived |-> derivedLabelsForIntent(s, i),
     secret |-> s.secret, wasSecret |-> s.ever,
     untrustedRead |-> s.untrustedRead, untrustedTurn |-> s.untrustedTurn,
     denyAll |-> s.denyAll, advice |-> {}]

\* Mutant: the signal of the turn is left out.
autoLeaseSafeContextPerSession(s) ==
    /\ ~s.secret /\ ~s.alert /\ ~s.untrustedRead
    /\ s.posture = "normal" /\ s.tainted = {}

autoLeaseSafeContext(s) ==
    /\ ~s.secret /\ ~s.alert /\ ~s.untrustedRead /\ ~s.untrustedTurn
    /\ s.posture = "normal" /\ s.tainted = {}

delegationRequiresApproval(s) ==
    ~s.secret /\ (s.alert \/ s.posture # "normal" \/ s.tainted # {})

-----------------------------------------------------------------------------
(***************************************************************************)
(* The gates of evaluatePayload, in the order of the code.  The last one   *)
(* is the policy oracle, which always answers.                             *)
(***************************************************************************)
\* Mutant: the policy provider is asked before sir's own floors.
GatesDelegating ==
    <<"deny_all", "policy", "opaque", "leak", "dns_tunnel", "sir_state", "sir_self", "git_config",
      "raw_read", "mcp_credential", "mcp_scope", "tainted_server", "delegation_deny",
      "delegation_ask", "tainted_input", "mcp_drift", "mcp_onboarding", "install">>

Gates == <<"deny_all", "opaque", "leak", "dns_tunnel", "sir_state", "sir_self", "git_config",
           "raw_read", "mcp_credential", "mcp_scope", "tainted_server", "delegation_deny",
           "delegation_ask", "tainted_input", "mcp_drift", "mcp_onboarding", "install", "policy">>

DenyingGates == {"deny_all", "leak", "dns_tunnel", "sir_state", "raw_read", "mcp_credential",
                 "delegation_deny"}

\* What observe mode may not turn into an allow.  The deny-all guard answers
\* before observe mode is looked at.
FloorGates == {"deny_all", "leak", "dns_tunnel", "sir_state", "sir_self", "mcp_credential"}

\* Gates that save the session themselves, that repeat a pending injection
\* alert to the developer, and that append to the ledger.
SavingGates == Range(Gates)
                 \ {"opaque", "leak", "dns_tunnel", "sir_state", "sir_self", "git_config"}
WarningGates == {"mcp_scope", "delegation_deny", "delegation_ask", "tainted_input", "mcp_drift",
                 "mcp_onboarding", "policy"}
LoggingGates == Range(Gates) \ {"deny_all", "tainted_server", "tainted_input", "install"}

OutboundVerbs == {"net_external", "net_allowlisted", "dns_lookup", "push_origin", "push_remote",
                  "stage_write", "commit"}

outboundSecretLeak(s, i) == i.verbatim /\ i.verb \in OutboundVerbs /\ s.fingerprints

evaluateRawSecretReadGate(p, s, i) ==
    p.denyRaw /\ IsSensitive(i) /\ ~HasApprovalGrant(s, "read_ref")

evaluateDelegationHardDeny(p, s, i) == i.verb = "delegate" /\ (s.secret \/ ~p.lease.delegation)

\* A call outside the capability scope of its server, which a grant covers.
OffScope(p, i) == i.tool = "mcp" /\ p.scoped /\ i.shape = "off_scope"
ScopeGranted(p, s, i) == OffScope(p, i) /\ HasApprovalGrant(s, "mcp_scope")

\* A silent call of an approved MCP server, which drift and onboarding ask
\* about.
SilentMCP(i) == i.tool = "mcp" /\ i.verb = "execute_dry_run"

evaluateMCPBinaryDrift(p, s, i) ==
    /\ SilentMCP(i) /\ i.shape = "drifted"
    /\ ~(p.reuse /\ autoLeaseSafeContext(s) /\ i.server \in s.reusable)

mcpOnboardingHeightened(p, s) == s.secret \/ s.alert \/ ~p.scoped
onboardingHeightenedFloor == 3

evaluateMCPOnboarding(p, s, i) ==
    LET heightened == mcpOnboardingHeightened(p, s) IN
    /\ SilentMCP(i) /\ i.shape = "fresh"
    /\ ~(p.quietMcp /\ ~heightened /\ autoLeaseSafeContext(s))
    /\ \/ s.onboarded[i.server] = 0
       \/ heightened /\ s.onboarded[i.server] < onboardingHeightenedFloor

\* Which gates would answer, if it came to them.
Fires(p, s, i, alerted) ==
    [deny_all |-> s.denyAll,
     opaque |-> i.shape = "opaque",
     leak |-> outboundSecretLeak(s, i),
     dns_tunnel |-> i.shape = "tunnel",
     sir_state |-> i.shape = "own_state",
     sir_self |-> i.verb = "sir_self",
     git_config |-> i.shape = "git_config",
     raw_read |-> evaluateRawSecretReadGate(p, s, i),
     mcp_credential |-> i.tool = "mcp" /\ i.verbatim,
     mcp_scope |-> OffScope(p, i) /\ ~ScopeGranted(p, s, i),
     tainted_server |-> i.tool = "mcp" /\ i.server \in s.tainted \ s.acked,
     delegation_deny |-> evaluateDelegationHardDeny(p, s, i),
     delegation_ask |-> i.verb = "delegate" /\ (alerted \/ delegationRequiresApproval(s)),
     tainted_input |-> i.tool = "mcp" /\ i.file \in Files
                         /\ \E x \in s.lineage[i.file] : x.sensitivity = "secret",
     mcp_drift |-> evaluateMCPBinaryDrift(p, s, i),
     mcp_onboarding |-> evaluateMCPOnboarding(p, s, i),
     install |-> i.shape = "install_new",
     policy |-> TRUE]

FiringGate(p, s, i, alerted) ==
    LET fires == Fires(p, s, i, alerted) IN Gates[Min({k \in 1..Len(Gates) : fires[Gates[k]]})]

\* evaluatePolicy: an authoritative provider replaces the oracle's verdict;
\* without a usable answer from it the call is held.
evaluatePolicy(p, s, i) ==
    IF p.provider = "none" THEN evaluate(buildCoreRequest(s, i), p.lease)
    ELSE IF p.provider = "failing" THEN "ask" ELSE p.provider

\* Mutant: the seal only closes on a usable answer of the provider.
AuthoritativeGranted(p) == p.provider \notin {"none", "failing"}

\* A provider's verdict is final, and so is the hold without one.
AuthoritativeActive(p) == p.provider # "none"

\* Approvals that are reused within the session: pushes and ephemeral runs.
ReuseVerbs == PushVerbs \cup {"run_ephemeral"}

\* What the convenience rules make of an ask of the oracle's: it is settled
\* by a manual grant, by a rule of the profile that a clean session earns, or
\* by an approval earlier in the session; otherwise the ask is marked as
\* waiting for an observed approval.
Settle(p, s, i) ==
    LET v == evaluatePolicy(p, s, i)
        open == v = "ask" /\ ~AuthoritativeActive(p)
        granted == open /\ HasApprovalGrant(s, i.verb)
        clean == open /\ ~granted /\ autoLeaseSafeContext(s)
        silent == clean /\ \/ i.verb = "net_allowlisted" /\ p.silentHosts
                           \/ i.verb = "mcp_network_unapproved" /\ p.quietMcp
                                 /\ ~mcpOnboardingHeightened(p, s)
                           \/ i.verb = "env_read" /\ p.narrowEnv /\ i.shape = "safe_env"
        reuse == clean /\ i.verb \in ReuseVerbs /\ p.reuse
    IN  [verdict |-> IF granted \/ silent \/ (reuse /\ i.verb \in s.reusable) THEN "allow" ELSE v,
         granted |-> granted,
         state |-> IF granted THEN ConsumeApprovalGrant(s, i.verb)
                   ELSE IF reuse /\ i.verb \notin s.reusable THEN MarkPendingReuse(s, i.verb)
                   ELSE s]

\* An asked request to a host waits for an observed approval, which leases
\* the host.
AutoLeaseable == {"net_external", "mcp_network_unapproved"}
maybeMarkAutoLeasePending(p, s, i, v) ==
    IF p.autoHosts /\ v = "ask" /\ i.verb \in AutoLeaseable /\ autoLeaseSafeContext(s)
    THEN MarkPendingAutoLease(s) ELSE s

\* Mutant: observe mode keeps nothing enforced.
isNeverExfilFloor(s, i) == FALSE

isSecretExfilFloor(s, i) ==
    i.verb \in EgressVerbs /\ (s.secret \/ labelsForEvaluation(i).sensitivity = "secret")

\* applyCoreEvaluationResult: an allowed sensitive read makes the session
\* secret, an allowed or asked use of external content marks it.
applyCoreEvaluationResult(s, i, v) ==
    LET marked == IF v = "allow" /\ IsSensitive(i) THEN MarkSecretSession(s) ELSE s
    IN  IF v # "deny" /\ labelsForEvaluation(i).trust = "verified_origin"
        THEN [marked EXCEPT !.untrustedRead = TRUE] ELSE marked

overlayPendingInjectionWarning(v, alerted) == IF alerted /\ v = "allow" THEN "ask" ELSE v

\* The gates that a call with a granted scope comes to afterwards.
GatesAfterScope == {"tainted_server", "delegation_deny", "delegation_ask", "tainted_input", "mcp_drift",
                    "mcp_onboarding", "install", "policy"}
UsesScope(g, p, s, i) == ScopeGranted(p, s, i) /\ g \in GatesAfterScope

\* The session that reaches a gate: a scope grant was used up on the way to
\* the later ones, and an install remembers the sentinel files.
Reaching(g, p, s, i) ==
    LET scoped == IF UsesScope(g, p, s, i) THEN ConsumeApprovalGrant(s, "mcp_scope") ELSE s
    IN  IF i.shape \in {"install_new", "install_locked"} /\ g \in {"install", "policy"}
        THEN SetPendingInstall(scoped) ELSE scoped

\* The session after a gate has answered.
StateAfter(g, p, s, i, v) ==
    IF g = "policy" THEN maybeMarkAutoLeasePending(p, applyCoreEvaluationResult(Settle(p, s, i).state, i, v), i, v)
    ELSE IF g = "raw_read" THEN AttachLineageLabelsToPath(s, "env", {secretReadLineageLabel})
    ELSE IF g = "mcp_drift" /\ p.reuse /\ autoLeaseSafeContext(s) THEN MarkPendingReuse(s, i.server)
    ELSE IF g = "mcp_onboarding" THEN BumpMCPOnboardingCall(s, i.server)
    ELSE s

\* The answer of one gate.  The ledger records the verdict before the
\* overlay.
AnswerOf(g, p, s, i, alerted) ==
    LET settled == Settle(p, s, i)
        v == IF g = "policy" THEN settled.verdict
             ELSE IF g \in DenyingGates THEN "deny" ELSE "ask"
    IN  [gate |-> g, logged |-> v,
         verdict |-> IF g \in WarningGates THEN overlayPendingInjectionWarning(v, alerted) ELSE v,
         floor |-> \/ g \in FloorGates
                   \/ g = "policy" /\ (AuthoritativeActive(p) \/ (v = "deny" /\ isSecretExfilFloor(s, i))),
         granted |-> g = "policy" /\ settled.granted,
         state |-> StateAfter(g, p, s, i, v)]

Judge(p, s, i, alerted) ==
    LET g == FiringGate(p, s, i, alerted) IN AnswerOf(g, p, Reaching(g, p, s, i), i, alerted)

\* applyThinkingGuard, then applyObserveMode.
applyThinkingGuard(p, v) == IF p.thinking /\ v = "ask" THEN "deny" ELSE v
applyObserveMode(p, v, floor) == IF p.observe /\ ~floor THEN "allow" ELSE v
Wire(p, a) == applyObserveMode(p, applyThinkingGuard(p, a.verdict), a.floor)

\* What reaches the ledger: nothing, a decision, or a would-be decision.
Recorded(p, a) ==
    IF a.gate \notin LoggingGates THEN <<"none", a.logged>>
    ELSE <<IF p.observe /\ (~a.floor \/ a.gate = "sir_self") /\ a.gate # "mcp_scope"
           THEN "would" ELSE "did",
           applyThinkingGuard(p, a.logged)>>

-----------------------------------------------------------------------------
(***************************************************************************)
(* PostToolUse.                                                            *)
(***************************************************************************)
\* What a call can lead to: no output, nothing of note, values that only the
\* fingerprint scanner knows, a credential, injected instructions of two
\* severities, or an install that rewrote a sentinel file.
Outputs(i) ==
    IF i.tool = "mcp" THEN {"empty", "clean", "credential", "suspicious", "injection"}
    ELSE IF SensitiveTarget(i) THEN {"clean", "keyed", "credential"}
    ELSE IF i.shape \in {"install_new", "install_locked"} THEN {"clean", "mutated"}
    ELSE IF i.tool \in {"Read", "Bash"} THEN {"clean", "credential"}
    ELSE {"clean"}

\* Secret material enters the context: the label is evidence for this turn,
\* and the session becomes secret if it is not.
TakeInSecret(s, label) ==
    LET noted == RecordLineageEvidence(s, label)
    IN  IF s.secret THEN noted ELSE MarkSecretSession(noted)

\* Reads by the Read tool, and environment dumps; a file read by a shell
\* command is only noticed by its output.
recordSensitiveRead(s, i) ==
    IF SensitiveTarget(i) THEN TakeInSecret(s, secretReadLineageLabel) ELSE s

outputCredentialAnalysis(s, i, out) ==
    IF out = "credential" /\ i.tool # "mcp" THEN TakeInSecret(s, secretReadLineageLabel) ELSE s

\* Mutant: the labels stay on the source of the copy.
propagateNothing(s, i) ==
    IF CopiesSecret(i) THEN AttachLineageLabelsToPath(s, "env", {secretReadLineageLabel}) ELSE s

propagateBashLineageMutation(s, i) ==
    IF CopiesSecret(i)
    THEN LET seeded == AttachLineageLabelsToPath(s, "env", {secretReadLineageLabel})
         IN  AttachLineageLabelsToPath(seeded, "out", seeded.lineage["env"])
    ELSE s

MCPOutputAnalysis(s, i, out) ==
    LET m == i.server
        taken == IF out = "credential" THEN TakeInSecret(s, credentialMCPLineageLabel) ELSE s
        flagged == [AddTaintedMCPServer(RecordLineageEvidence(s, taintedMCPLineageLabel), m)
                        EXCEPT !.untrustedRead = TRUE]
    IN  IF i.tool # "mcp" \/ out = "empty" THEN s
        ELSE IF out = "injection" THEN [RaisePosture(flagged, "critical") EXCEPT !.alert = TRUE]
        ELSE IF out = "suspicious" THEN RaisePosture(flagged, "elevated")
        ELSE AcknowledgeTaintedMCPServer(taken, m)

captureSecretFingerprints(s, i, out) ==
    IF out = "credential" \/ (out = "keyed" /\ SensitiveTarget(i))
    THEN [s EXCEPT !.fingerprints = TRUE] ELSE s

\* Mutant: only a detected injection counts as untrusted content.
markNothing(s, i, out) == s

isUntrustedContentTool(i) == i.tool \in {"mcp", "WebFetch"}
markUntrustedContent(s, i, out) ==
    IF isUntrustedContentTool(i) /\ out # "empty" THEN [s EXCEPT !.untrustedTurn = TRUE] ELSE s

attachLineageToWriteTarget(s, i) ==
    IF i.tool = "Write" THEN AttachActiveEvidenceToPath(s, i.file) ELSE s

\* A pending install is compared and forgotten after any shell command.
checkPendingInstall(s, i) == IF i.tool = "Bash" THEN ClearPendingInstall(s) ELSE s

\* What suppresses the lease of a host and the reuse of approvals.
AlertFired(s, i, out) ==
    out \in {"credential", "suspicious", "injection"} \/ (out = "mutated" /\ s.pendingInstall)

promoteSessionApprovalsOnPost(p, s, i) ==
    LET key == IF i.tool = "mcp" THEN i.server ELSE i.verb
    IN  IF key \in Servers \cup ReuseVerbs /\ p.reuse /\ autoLeaseSafeContext(s)
        THEN PromotePendingReuse(s, key) ELSE s

\* postEvaluatePayload up to the rules that widen something.  The integrity
\* checks of the hook files are in module SessionStore.
Analysed(s, i, out) ==
    LET s1 == propagateBashLineageMutation(outputCredentialAnalysis(recordSensitiveRead(s, i), i, out), i)
        s2 == captureSecretFingerprints(MCPOutputAnalysis(checkPendingInstall(s1, i), i, out), i, out)
    IN  attachLineageToWriteTarget(markUntrustedContent(s2, i, out), i)

\* A host that was asked about, and that a request reached, is leased.
applyAutoLeaseOnApproval(p, s, i) ==
    p.autoHosts /\ autoLeaseSafeContext(s) /\ i.verb \in AutoLeaseable /\ s.pendingHost

AfterRun(p, s, i, out) ==
    LET after == Analysed(s, i, out) IN
    IF AlertFired(s, i, out) THEN after
    ELSE promoteSessionApprovalsOnPost(p,
            IF applyAutoLeaseOnApproval(p, after, i) THEN ConsumePendingAutoLease(after) ELSE after, i)

-----------------------------------------------------------------------------
(***************************************************************************)
(* History: what a property holds the hooks to.                            *)
(***************************************************************************)
History ==
    [exposed : BOOLEAN,             \* a secret entered the context in this turn
     fingerprinted : BOOLEAN,       \* secret values were recognised since the last unlock
     ingested : BOOLEAN,            \* an MCP server answered in this turn
     owed : BOOLEAN,                \* an injection alert the developer has not been shown
     dirty : SUBSET Files,          \* files that secret data was written to
     consent : SUBSET Servers,      \* servers the developer said yes to since they turned
     ranDenied : BOOLEAN,           \* the host ran a call that was denied, and no flood
                                    \* of denials had pushed its id out of the ring
     given : Nat, used : Nat]

Nothing ==
    [exposed |-> FALSE, fingerprinted |-> FALSE, ingested |-> FALSE, owed |-> FALSE,
     dirty |-> {}, consent |-> {}, ranDenied |-> FALSE, given |-> 0, used |-> 0]

TurnOver(h) == [h EXCEPT !.exposed = FALSE, !.ingested = FALSE]

\* The facts a call was judged under.
Facts(h, s, i) ==
    {f \in {"exposed", "fingerprinted", "ingested", "dirty", "alert", "ranDenied"} :
        \/ f = "exposed" /\ h.exposed
        \/ f = "fingerprinted" /\ h.fingerprinted
        \/ f = "ingested" /\ h.ingested
        \/ f = "dirty" /\ i.file \in h.dirty
        \/ f = "alert" /\ s.alert
        \/ f = "ranDenied" /\ h.ranDenied}

\* History of a call that ran.
Ran(h, i, out) ==
    LET secret == out = "credential" \/ (SensitiveTarget(i) /\ i.shape # "safe_env")
        hostile == out \in {"injection", "suspicious"}
    IN
    [h EXCEPT !.exposed = @ \/ secret,
              !.fingerprinted = @ \/ out = "credential" \/ (out = "keyed" /\ SensitiveTarget(i)),
              !.ingested = @ \/ (isUntrustedContentTool(i) /\ out # "empty"),
              !.owed = @ \/ out = "injection",
              !.dirty = @ \cup (IF CopiesSecret(i) THEN {"out"} ELSE {})
                          \cup (IF i.tool = "Write" /\ h.exposed THEN {i.file} \cap Files ELSE {}),
              !.consent = IF hostile THEN @ \ {i.server} ELSE @]

\* How many one-time grants a judgement relied on.
GrantsRelied(p, s, i, a) ==
    (IF a.granted /\ UsesOneTime(Reaching(a.gate, p, s, i), i.verb) THEN 1 ELSE 0)
    + (IF UsesScope(a.gate, p, s, i) /\ UsesOneTime(s, "mcp_scope") THEN 1 ELSE 0)

-----------------------------------------------------------------------------
New == [stage |-> "new"]
Done == [stage |-> "done"]
Judged(stage, i, verb, wire, gate, recorded, facts, granted) ==
    [stage |-> stage, intent |-> i, verb |-> verb, wire |-> wire, gate |-> gate,
     recorded |-> recorded, facts |-> facts, granted |-> granted]
StageOf(wire) == IF wire = "allow" THEN "cleared" ELSE IF wire = "ask" THEN "asked" ELSE "blocked"
Open == {c \in CallIds : calls[c].stage \in {"asked", "cleared", "blocked"}}

\* The bound on tool calls is one of the scenario.
CanStart(c) ==
    calls[c] = New /\ Cardinality({d \in CallIds : calls[d] # New}) < Scenarios[scenario].calls

Init ==
    /\ scenario \in DOMAIN Scenarios
    /\ profile \in Scenarios[scenario].profiles
    /\ leased = FALSE
    /\ session = NewState
    /\ calls = [c \in CallIds |-> New]
    /\ seen = Nothing

\* PreToolUse.  An injection alert is consumed, and the session saved, before
\* any gate but deny-all; a denied id is remembered, and the session saved,
\* at the end.  An answer that did neither leaves the file as it was.
PreToolUse(c) ==
    /\ CanStart(c)
    /\ \E raw \in {x \in Scenarios[scenario].intents : x.tool # "Subagent"} :
        LET i == MapToolToIntent(raw)
            turned == MaybeAdvanceTurn(session)
            alerted == turned.alert /\ ~turned.denyAll
            s == [turned EXCEPT !.alert = @ /\ ~alerted]
            a == Judge(profile, s, i, alerted)
            wire == Wire(profile, a)
            h == IF turned.turn # session.turn THEN TurnOver(seen) ELSE seen
        IN  /\ session' = IF wire = "deny" THEN RecordDeniedToolUse(a.state, c)
                          ELSE IF alerted \/ a.gate \in SavingGates THEN a.state
                          ELSE session
            /\ calls' = [calls EXCEPT ![c] =
                            Judged(StageOf(wire), raw, i.verb, wire, a.gate, Recorded(profile, a),
                                   Facts(h, turned, i), a.granted)]
            /\ seen' = [h EXCEPT !.owed = @ /\ ~(alerted /\ a.gate \in WarningGates),
                                 !.used = @ + GrantsRelied(profile, s, i, a)]
    /\ UNCHANGED <<scenario, profile, leased>>

SubagentVerdict(p, s, dangerous) ==
    IF s.denyAll \/ ~p.lease.delegation \/ s.secret THEN "deny"
    ELSE IF delegationRequiresApproval(s) \/ (s.untrustedRead /\ dangerous) THEN "ask" ELSE "allow"

\* SubagentStart: the session is read and not changed, the turn is not
\* advanced, observe mode does not apply, and deny-all is not logged.
SubagentStart(c) ==
    /\ CanStart(c)
    /\ \E i \in {x \in Scenarios[scenario].intents : x.tool = "Subagent"}, dangerous \in BOOLEAN :
        LET v == SubagentVerdict(profile, session, dangerous)
            wire == applyThinkingGuard(profile, v)
        IN  calls' = [calls EXCEPT ![c] =
                        Judged(StageOf(wire), i, i.verb, wire, "subagent",
                               <<IF session.denyAll THEN "none" ELSE "did", wire>>,
                               Facts(seen, session, i), FALSE)]
    /\ UNCHANGED <<scenario, profile, leased, session, seen>>

\* The developer says yes to what was asked.
Approve(c) ==
    /\ calls[c].stage = "asked"
    /\ calls' = [calls EXCEPT ![c].stage = "cleared"]
    /\ seen' = [seen EXCEPT !.consent = @ \cup ({calls[c].intent.server} \cap Servers)]
    /\ UNCHANGED <<scenario, profile, leased, session>>

\* The developer says no, the call fails before it runs, or the host heeds a
\* deny: no PostToolUse follows.
Drop(c) ==
    /\ c \in Open
    /\ calls' = [calls EXCEPT ![c] = Done]
    /\ UNCHANGED <<scenario, profile, leased, session, seen>>

\* PostToolUse, for a call that was cleared, or for one that was denied and
\* that the host ran all the same.
PostToolUse(c) ==
    /\ calls[c].stage \in {"cleared", "blocked"}
    /\ calls[c].intent.tool # "Subagent"
    /\ LET i == MapToolToIntent(calls[c].intent) IN
       \E out \in Outputs(i) :
        /\ calls' = [calls EXCEPT ![c] = Done]
        /\ IF session.denyAll
           THEN UNCHANGED <<session, leased, seen>>
           ELSE IF WasToolUseDenied(session, c)
           THEN /\ session' = [session EXCEPT !.denyAll = TRUE]
                /\ seen' = [seen EXCEPT !.ranDenied = TRUE]
                /\ UNCHANGED leased
           ELSE /\ session' = AfterRun(profile, session, i, out)
                /\ leased' = (leased \/ (/\ ~AlertFired(session, i, out)
                                        /\ applyAutoLeaseOnApproval(profile, Analysed(session, i, out), i)))
                /\ seen' = IF calls[c].wire = "deny" /\ Len(session.denied) < MaxDenied
                           THEN [seen EXCEPT !.ranDenied = TRUE]
                           ELSE Ran(seen, i, out)
        /\ UNCHANGED <<scenario, profile>>

\* UserPromptSubmit.
UserPrompt ==
    /\ session.turn < Scenarios[scenario].turns
    /\ session' = AdvanceTurnByHook(session)
    /\ seen' = TurnOver(seen)
    /\ UNCHANGED <<scenario, profile, leased, calls>>

\* Thirty seconds pass without a tool call.
TimePasses ==
    /\ session.last = "recent" /\ session.turn < Scenarios[scenario].turns
    /\ session' = [session EXCEPT !.last = "old"]
    /\ UNCHANGED <<scenario, profile, leased, calls, seen>>

\* The Elicitation hook meets a question that fishes for credentials.
Elicitation ==
    /\ Scenarios[scenario].elicits
    /\ session' = RaisePosture(session, "elevated")
    /\ UNCHANGED <<scenario, profile, leased, calls, seen>>

\* `sir approve`.
SirApprove(g) ==
    /\ seen.given < Scenarios[scenario].approvals
    /\ session' = AddApprovalGrant(session, g)
    /\ seen' = [seen EXCEPT !.given = @ + 1]
    /\ UNCHANGED <<scenario, profile, leased, calls>>

\* A one-time grant runs out fifteen minutes after it was given.
GrantExpires ==
    /\ \E k \in 1..Len(session.grants) :
          session.grants[k].scope = "once" /\ session' = DropGrant(session, k)
    /\ UNCHANGED <<scenario, profile, leased, calls, seen>>

\* The mark of a host that was asked about goes stale after ten minutes, the
\* lease of a host after fifteen.
HostExpires ==
    \/ session.pendingHost /\ session' = ConsumePendingAutoLease(session) /\ UNCHANGED <<scenario, profile, leased, calls, seen>>
    \/ leased /\ leased' = FALSE /\ UNCHANGED <<scenario, profile, session, calls, seen>>

\* `sir unlock`, which does nothing when there is nothing to lift.
HasTransientRestrictions(s) ==
    \/ s.secret \/ s.ever \/ s.untrustedRead \/ s.untrustedTurn \/ s.fingerprints \/ s.alert
    \/ s.posture # "normal" \/ s.tainted # {}

Unlock ==
    /\ HasTransientRestrictions(session)
    /\ session' = ClearTransientRestrictions(session)
    /\ seen' = [seen EXCEPT !.exposed = FALSE, !.fingerprinted = FALSE,
                            !.ingested = FALSE, !.owed = FALSE]
    /\ UNCHANGED <<scenario, profile, leased, calls>>

\* `sir declassify` of a file that carries lineage.
Declassify(f) ==
    /\ session.lineage[f] # {}
    /\ session' = DeclassifyPath(session, f)
    /\ seen' = [seen EXCEPT !.dirty = @ \ {f}]
    /\ UNCHANGED <<scenario, profile, leased, calls>>

Next ==
    \/ \E c \in CallIds :
          \/ PreToolUse(c) \/ SubagentStart(c)
          \/ Approve(c) \/ Drop(c) \/ PostToolUse(c)
    \/ UserPrompt \/ TimePasses \/ Elicitation \/ GrantExpires \/ HostExpires \/ Unlock
    \/ \E g \in Scenarios[scenario].grants : SirApprove(g)
    \/ \E f \in Files : Declassify(f)

Spec == Init /\ [][Next]_vars

-----------------------------------------------------------------------------
(***************************************************************************)
(* Properties.  An open call is one that was judged and has not ended; its *)
(* facts are what was true when it was judged.                             *)
(***************************************************************************)
Enforcing == ~profile.observe

\* sir itself decides: no authoritative provider replaces its policy verdict.
Native == profile.provider = "none"
Outside(c) == calls[c].verb \in EgressVerbs

\* Every variable has its type, the ring of denied ids keeps its bound, and
\* the stage of a call fits its verdict.
TypeOK ==
    /\ profile \in Scenarios[scenario].profiles /\ leased \in BOOLEAN
    /\ session \in States /\ Len(session.denied) <= MaxDenied
    /\ seen \in History
    /\ \A c \in CallIds :
          \/ calls[c] \in {New, Done}
          \/ /\ calls[c].intent \in Scenarios[scenario].intents
             /\ calls[c].wire \in Verdicts
             /\ \/ calls[c].stage = StageOf(calls[c].wire)
                \/ calls[c].stage = "cleared" /\ calls[c].wire = "ask"

\* Once the Read tool delivered a secret in this turn, every call that sends
\* data to an unapproved place is denied on the wire, in observe mode too,
\* and no sub-agent gets it, by the Agent tool or by a SubagentStart
\* (recordSensitiveTargetFromPostPayload, isSecretExfilFloor, SubagentStart).
SecretFloorHolds ==
    \A c \in Open : Native /\ "exposed" \in calls[c].facts =>
        /\ Outside(c) => calls[c].wire = "deny"
        /\ Enforcing /\ calls[c].intent.tool \in {"Agent", "Subagent"} => calls[c].wire = "deny"

\* The asks that the rules of a profile settle in a clean session, whatever
\* the file that goes out: requests to approved hosts, and pushes to origin
\* after an approved one.
Spared(p) == (IF p.silentHosts THEN {"net_allowlisted"} ELSE {}) \cup (IF p.reuse THEN {"push_origin"} ELSE {})

\* A file that secret data was copied or written to stays gated in every
\* later turn: unapproved places are denied, and commits, pushes to origin,
\* approved hosts and further writes are never silent, but for the asks that
\* the profile spares (DerivedFileLineage, derived_secret_sink).
DerivedStaysGated ==
    \A c \in Open : Native /\ Enforcing /\ "dirty" \in calls[c].facts =>
        /\ Outside(c) => calls[c].wire = "deny"
        /\ /\ calls[c].verb \in {"commit", "push_origin", "net_allowlisted", "stage_write"} \ Spared(profile)
           /\ ~calls[c].granted
           => calls[c].wire # "allow"

\* Foreign content steers nothing past the developer.  In the turn in which
\* an MCP server answered, nothing goes to an unapproved place, and nothing
\* to origin in silence; the first call judged after an injection was
\* detected is never silent, whichever of the calls under way it is; and what
\* was approved earlier, or is silent in a clean session, is asked again
\* (MarkUntrustedContentThisTurn, overlayPendingInjectionWarning,
\* autoLeaseSafeContext around the convenience rules).
ForeignStaysGated ==
    \A c \in Open : Native /\ Enforcing =>
        /\ "ingested" \in calls[c].facts =>
              /\ Outside(c) => calls[c].wire = "deny"
              /\ calls[c].verb = "push_origin" /\ ~calls[c].granted => calls[c].wire # "allow"
        /\ "alert" \in calls[c].facts /\ calls[c].intent.tool # "Subagent" => calls[c].wire # "allow"
        /\ /\ calls[c].facts \cap {"exposed", "ingested"} # {}
           /\ ~calls[c].granted
           /\ calls[c].verb \in {"run_ephemeral", "push_remote", "env_read", "mcp_network_unapproved"}
           => calls[c].wire # "allow"

\* A host is not leased in a turn in which a secret or foreign content came
\* in, whichever of the requests under way brings the lease
\* (applyAutoLeaseOnApproval after the analysis of the output).
LeaseOnlyWhenClean ==
    [][leased' /\ ~leased => ~seen'.exposed /\ ~seen'.ingested]_vars

\* What an authoritative provider holds for the developer stays held: no
\* grant, profile rule, earlier approval or observe mode settles it, also when
\* the provider gave no usable answer (evaluatePolicy, the seal around the
\* convenience rules).
ProviderAskSurvives ==
    \A c \in Open :
        calls[c].gate = "policy" /\ profile.provider \in {"ask", "failing"} => calls[c].wire # "allow"

\* sir's own floors hold whatever an authoritative provider says, in observe
\* mode too: commands that change sir are asked, writes to its state and DNS
\* tunnels are denied, and a secret value that was recognised on its way in
\* does not leave verbatim, in any later turn until `sir unlock` (the gates
\* before evaluatePolicy, captureSecretFingerprints, outboundSecretLeak).
FloorsNotDelegable ==
    \A c \in Open :
        /\ calls[c].verb = "sir_self" => calls[c].wire # "allow"
        /\ calls[c].intent.shape \in {"own_state", "tunnel"} => calls[c].wire = "deny"
        /\ "fingerprinted" \in calls[c].facts /\ calls[c].intent.verbatim
              /\ calls[c].verb \in OutboundVerbs => calls[c].wire = "deny"

\* A deny stands.  A denied call that the host ran locks the session down for
\* good, as long as the ring remembers its id: every call judged afterwards is
\* denied, in observe mode too; and a deny in the ledger that is not marked as
\* hypothetical was enforced, but for the one that the scope gate appends
\* without a look at observe mode (RecordDeniedToolUse, WasToolUseDenied,
\* SetDenyAll, recordedDecisionFor).
DeniedRunLocksDown ==
    /\ seen.ranDenied => session.denyAll
    /\ \A c \in Open :
          /\ "ranDenied" \in calls[c].facts => calls[c].wire = "deny"
          /\ calls[c].recorded = <<"did", "deny">> /\ (Enforcing \/ calls[c].gate # "mcp_scope") => calls[c].wire = "deny"

\* One-time approvals let through at most as many calls as were given,
\* however many are under way (ConsumeApprovalGrant).
GrantOnce == seen.used <= seen.given

-----------------------------------------------------------------------------
(***************************************************************************)
(* What comments and documents of the repository say.                      *)
(***************************************************************************)
\* "ClearPendingInjectionAlert clears the injection alert after PreToolUse
\* has shown it" (session_posture.go).
AlertShown == seen.owed => session.alert

\* An acknowledged server is one that "the developer already chose to keep
\* using" (session_posture.go, AcknowledgeTaintedMCPServer).
AckMeansApproved == session.acked \subseteq seen.consent

\* The exfiltration floor holds in observe mode "while the session carries
\* secret context or the target is secret-derived" (isSecretExfilFloor).
ObserveKeepsFloor ==
    \A c \in Open : "dirty" \in calls[c].facts /\ Outside(c) => calls[c].wire = "deny"
=============================================================================
