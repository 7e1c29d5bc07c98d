----------------------------- MODULE KernelRun -----------------------------
(***************************************************************************)
(* The kernel's users: kernel.Process, which keeps the taint and friction  *)
(* of its scopes; `sir kernel replay`, which writes the kernel's ledger;   *)
(* `sir harness run`, which compares the engines and the two tiers; and    *)
(* the tools of a provider's author, `sir policy explain`, `sir provider   *)
(* test` and `sir provider verify-containment`.                            *)
(***************************************************************************)
EXTENDS Kernel, ProviderWire

CONSTANTS
    Calls,          \* inputs of Process
    Cases,          \* cases of the harness
    Replayed,       \* cases of a replay
    Live,           \* what asking the policy providers may meet: [reg, ps], the registry and their processes
    EffectReplies,  \* what asking the effect providers for their capabilities may meet: sets of processes
    Requests,       \* requests of `sir policy explain`
    Advices,        \* and the provider's processes it may consult
    Tried,          \* providers under test: [kind, fixture, manifest, caps, reply, declared]
    Replays,        \* `sir kernel replay` processes
    MaxCalls, MaxEntries

\* Inputs carry a list of signals, providers print lines.
ASSUME InputsAssumption ==
    \A in \in Calls \cup Cases \cup Replayed :
        /\ in.signals \in Seq(Elements(in.signals))
        /\ {"signals", "taint", "caps", "resolved", "advice"} \subseteq DOMAIN in
ASSUME TriedAssumption ==
    \A t \in Tried :
        /\ t.caps.out \in Seq(Elements(t.caps.out)) /\ t.reply.out \in Seq(Elements(t.reply.out))
        /\ \A d \in Elements(t.reply.out) : d.says \in Seq(Elements(d.says))

VARIABLES
    use,            \* what is running
    taint,          \* globalTaint: labels by scope
    prompts,        \* globalFriction: asks of the current window by scope
    read,           \* history: scopes in which a usable signal told of a credential
    calls,
    last,           \* the last decision of Process
    report,         \* what the harness or an author's tool reported
    replay,
    ledger          \* ~/.sir/v2/ledger.jsonl

kernelVars == <<use, taint, prompts, read, calls, last, report, replay, ledger>>

Scopes == {"global"} \cup UNION {{in.signals[i].scope : i \in DOMAIN in.signals} : in \in Calls}
None == [on |-> FALSE]
genesisHash == 0
NewReplay == [pc |-> "start", live |-> FALSE, caps |-> {}, in |-> None, failures |-> {}, advice |-> {}, out |-> None, base |-> "none", prev |-> genesisHash]

KernelInit ==
    /\ use \in {"process", "tools", "replay"}
    /\ taint = [s \in Scopes |-> {}] /\ prompts = [s \in Scopes |-> 0]
    /\ read = {} /\ calls = 0 /\ last = None /\ report = None
    /\ replay = [r \in Replays |-> NewReplay]
    /\ ledger = <<>>

-----------------------------------------------------------------------------
(***************************************************************************)
(* kernel.Process.                                                         *)
(***************************************************************************)
collectSessionTaint(scope) == taint[scope]

\* Mutant: what a weak signal saw taints nothing, as in PersistTaint.
TaintIfConfident(scope, out) ==
    IF out.attr \in {"low", "unknown"} THEN taint ELSE [taint EXCEPT ![scope] = @ \cup out.taint]

Taint(scope, out) == [taint EXCEPT ![scope] = @ \cup out.taint]

\* Process hands Evaluate no provider context; an escalated ask is not
\* counted as another prompt.
Process(in) ==
    LET scope   == TaintScopeFromSignals(in.signals)
        out     == Evaluate([in EXCEPT !.taint = collectSessionTaint(scope)])
        verdict == CheckFriction(out.verdict, prompts[scope])
    IN  /\ use = "process" /\ calls < MaxCalls
        /\ calls' = calls + 1
        /\ taint' = Taint(scope, out)
        /\ prompts' = [prompts EXCEPT ![scope] = IF verdict = "ask" THEN @ + 1 ELSE @]
        /\ read' = IF \E i \in DOMAIN in.signals : Usable(in.signals[i]) /\ in.signals[i].sens = "credential"
                   THEN read \cup {scope} ELSE read
        /\ last' = [on |-> TRUE, scope |-> scope, in |-> in, verdict |-> verdict,
                    tainted |-> scope \in read,
                    downgrade |-> UnavailableRequiredEffects(in.mode, out.effects)]
        /\ UNCHANGED <<use, report, replay, ledger>>

\* Ten minutes later.
WindowPasses(scope) ==
    /\ use = "process" /\ prompts[scope] > 0
    /\ prompts' = [prompts EXCEPT ![scope] = 0]
    /\ UNCHANGED <<use, taint, read, calls, last, report, replay, ledger>>

-----------------------------------------------------------------------------
(***************************************************************************)
(* The harness and the author's tools.  Their inputs are independent: one  *)
(* report per behaviour.                                                   *)
(***************************************************************************)
Report(r) ==
    /\ report' = [r EXCEPT !.on = TRUE]
    /\ UNCHANGED <<use, taint, prompts, read, calls, last, replay, ledger>>

\* scoreCase takes the signals as they are.
scoreCase(in) == AnalyzeEnforceability(in, in.signals)

\* evalWithRust hands the port every field of the case; a port that is not
\* installed, or that fails, ends the command.
evalWithRust(in) == evaluate(in)

\* Fixtures no deployment of their mode could emit are refused.
runParityCheck(in) ==
    /\ conformanceIssues(in) = {}
    /\ Report([on |-> FALSE, tool |-> "parity", in |-> in, go |-> Evaluate(in), rust |-> evalWithRust(in)])

\* The capture is the case as an adapter sees it, who knows of no evasion.
runCaptureTier(in) ==
    LET fixture == scoreRank[scoreCase(in)]
        capture == scoreRank[scoreCase([in EXCEPT !.flags = {}])]
    IN  Report([on |-> FALSE, tool |-> "capture", in |-> in,
                status |-> IF capture < fixture THEN "REGRESSION" ELSE IF capture > fixture THEN "optimism" ELSE "ok"])

\* What explain prints of a verdict it was told of, or of the provider it
\* asked: a failed or silent one leaves the native decision.
cmdPolicyExplain(req, p) ==
    LET advice   == invokePolicy(p).says
        base     == evaluatePolicyRequest(req, {}).verdict
        floored  == base = "allow" /\ isExplainFloored(req.taint, actionForKernel(req.action))
        composed == evaluatePolicyRequest(req, advice).verdict
    IN  Report([on |-> FALSE, tool |-> "explain", req |-> req, advice |-> advice, final |-> composed, base |-> base,
                why |-> IF advice = {} THEN "native"
                        ELSE IF composed # base THEN "escalated"
                        ELSE IF floored THEN "suppressed"
                        ELSE IF base # "allow" THEN "cannot" ELSE "no change"])

\* `sir provider test` on a manifest without issues.
TestProvider(t) ==
    /\ manifestIssues(t.manifest) = {} /\ t.caps.end # "hang" /\ t.reply.end # "hang"
    /\ Report([on |-> FALSE, tool |-> "test", t |-> t,
               passed |-> cmdProviderTest(t.kind, t.fixture, t.caps, t.reply, t.declared)])

\* The capture that verify-containment writes for a provider that proved
\* itself, with the outcome it expects of it.
containmentCapture ==
    [mode |-> "contained", flags |-> {}, taint |-> {}, caps |-> {"contain", "record"}, real |-> TRUE, scoped |-> {},
     resolved |-> FALSE, advice |-> {},
     signals |-> <<[valid |-> TRUE, rel |-> "declared_intent", pre |-> TRUE, type |-> "network_connect",
                    sens |-> "external_network", agent |-> TRUE, mark |-> "none", scope |-> "none"]>>]
containmentExpected == [enf |-> "enforces", verdict |-> "ask"]

cmdProviderVerifyContainment(t) ==
    /\ manifestIssues(t.manifest) = {} /\ t.kind = "effect"
    /\ Report([on |-> FALSE, tool |-> "verify", t |-> t,
               wrote |-> IF VerifyContainment(t.reply) THEN {Evaluate(containmentCapture)} ELSE {}])

-----------------------------------------------------------------------------
(***************************************************************************)
(* The replay: per case evaluate, then read the last hash, then append.    *)
(***************************************************************************)
\* collectProviderCapabilities, once: no deadline, so a provider that hangs
\* is waited for.
Start(r, live, effects) ==
    /\ use = "replay" /\ replay[r].pc = "start"
    /\ live \/ effects = {}
    /\ \A p \in effects : p.end # "hang"
    /\ replay' = [replay EXCEPT ![r] = [@ EXCEPT !.pc = "case", !.live = live,
                                                !.caps = UNION {mergeProviderCapabilities(p) : p \in effects}]]
    /\ UNCHANGED <<use, taint, prompts, read, calls, last, report, ledger>>

\* The live verdicts, and the evidence of the providers that gave none.
collectLivePolicyVerdicts(l) ==
    [says |-> UNION {invokePolicy(p).says : p \in l.ps},
     failures |-> (UNION {{invokePolicy(p).failed} : p \in l.ps} \ {"none"})
                  \cup {f \in {"failed"} : l.reg = "damaged"} \cup {f \in {"disabled"} : l.reg = "disabled"}]

\* With --use-providers the live verdicts replace the fixture's, even by
\* none, and live capabilities if there are any.  The base verdict is
\* computed again without advice, and only when there is some.
EvaluateCase(r, in, engine, l) ==
    LET d       == replay[r]
        got     == collectLivePolicyVerdicts(l)
        advice  == IF d.live THEN got.says ELSE in.advice
        asked   == [in EXCEPT !.advice = advice, !.caps = IF d.live /\ d.caps # {} THEN d.caps ELSE @]
        eval(i) == IF engine = "rust" THEN evalWithRust(i) ELSE Evaluate(i)
    IN  /\ d.pc = "case" /\ Len(ledger) < MaxEntries
        /\ replay' = [replay EXCEPT ![r] =
             [@ EXCEPT !.pc = "decided", !.in = in, !.advice = advice, !.out = eval(asked),
                       !.failures = IF d.live THEN got.failures ELSE {},
                       !.base = IF advice = {} THEN "none" ELSE eval([asked EXCEPT !.advice = {}]).verdict]]
        /\ UNCHANGED <<use, taint, prompts, read, calls, last, report, ledger>>

\* The port is missing or fails: the replay ends with what it has written.
RustFails(r) ==
    /\ replay[r].pc = "case"
    /\ replay' = [replay EXCEPT ![r] = [NewReplay EXCEPT !.pc = "ended"]]
    /\ UNCHANGED <<use, taint, prompts, read, calls, last, report, ledger>>

lastHash == IF ledger = <<>> THEN genesisHash ELSE Len(ledger)

ReadLast(r) ==
    /\ replay[r].pc = "decided"
    /\ replay' = [replay EXCEPT ![r].pc = "append", ![r].prev = lastHash]
    /\ UNCHANGED <<use, taint, prompts, read, calls, last, report, ledger>>

\* No lock is held since ReadLast: the entry names the hash that was last then.
AppendEntry(r) ==
    LET d == replay[r]
    IN  /\ d.pc = "append"
        /\ ledger' = Append(ledger, [prev |-> d.prev, verdict |-> d.out.verdict, base |-> d.base,
                                     used |-> BuildProviderPolicyEvidence(d.advice, d.out.verdict, d.base),
                                     given |-> d.advice, failures |-> d.failures, in |-> d.in, live |-> d.live,
                                     floor |-> DeveloperWorkflowFloorEvidence(d.in.taint, d.out.type, d.advice,
                                                                              d.base, d.out.verdict)])
        /\ replay' = [replay EXCEPT ![r] = [NewReplay EXCEPT !.pc = "case", !.live = d.live, !.caps = d.caps]]
        /\ UNCHANGED <<use, taint, prompts, read, calls, last, report>>

KernelNext ==
    \/ \E in \in Calls : Process(in)
    \/ \E s \in Scopes : WindowPasses(s)
    \/ /\ use = "tools" /\ ~report.on
       /\ \/ \E in \in Cases : runParityCheck(in) \/ runCaptureTier(in)
          \/ \E req \in Requests, p \in Advices : cmdPolicyExplain(req, p)
          \/ \E t \in Tried : TestProvider(t) \/ cmdProviderVerifyContainment(t)
    \/ \E r \in Replays, live \in BOOLEAN, effects \in EffectReplies : Start(r, live, effects)
    \/ \E r \in Replays, in \in Replayed, engine \in {"go", "rust"}, l \in Live : EvaluateCase(r, in, engine, l)
    \/ \E r \in Replays : RustFails(r) \/ ReadLast(r) \/ AppendEntry(r)

KernelSpec == KernelInit /\ [][KernelNext]_kernelVars

-----------------------------------------------------------------------------
(***************************************************************************)
(* Properties.                                                             *)
(***************************************************************************)
Sensitivities(in) == {in.signals[i].sens : i \in DOMAIN in.signals}
Agree(go, rust) == \A f \in {"verdict", "class", "enf", "attr", "spoof", "rules", "effects", "taint"} : go[f] = rust[f]

\* The two engines agree on every parity field of every conformant case
\* (kernel.go: "Both implementations must agree on the six parity fields").
\* They do not.
EnginesAgree == report.on /\ report.tool = "parity" => Agree(report.go, report.rust)

\* The cases the two engines read alike: signals of the right schema,
\* sensitivities both rank, no tie between the two of rank 2, and no
\* mcp_trust action.
ReadAlike(in) ==
    /\ \A i \in DOMAIN in.signals : in.signals[i].valid /\ in.signals[i].type # "mcp_trust"
    /\ "critical" \notin Sensitivities(in)
    /\ ~({"high", "external_network"} \subseteq Sensitivities(in))

\* The port is exact where the inputs are read alike: no combination of mode,
\* flags, signals, taint, capability and advice tells the engines apart.
EnginesAgreeUntied == report.on /\ report.tool = "parity" /\ ReadAlike(report.in) => Agree(report.go, report.rust)

\* Whatever was asked in between, whatever the mode and however weak the
\* signal that saw it: after a credential was read in a scope, Process denies
\* every later action of that scope whose target is the external network.
TaintedEgressDenied ==
    last.on /\ last.tainted /\ PrimarySensitivity(NormalizeSignals(last.in.signals)) = "external_network"
        => last.verdict = "deny"

Raising == {"ask", "deny"}

LedgerTruthful ==
    \A n \in DOMAIN ledger :
        LET e == ledger[n]
        IN  /\ e.given # {} => (e.used # {} <=> e.verdict # e.base)
            /\ e.floor = "protected" => /\ e.given # {} /\ e.verdict = "allow" /\ e.base = "allow"
                                        /\ "credential_access" \notin e.in.taint
            /\ e.verdict = "allow" /\ e.base = "allow" /\ e.given \cap Raising # {} => e.floor = "protected"
            /\ e.given # {} => Strictness(e.verdict) >= Strictness(e.base)
            /\ e.given = {} /\ ReadAlike(e.in) => e.verdict = Evaluate([e.in EXCEPT !.advice = {}]).verdict

ExplainAgrees ==
    report.on /\ report.tool = "explain" /\ report.advice # {}
        => /\ (report.why = "suppressed") <=>
                 DeveloperWorkflowFloorEvidence(report.req.taint, actionForKernel(report.req.action), report.advice,
                                                report.base, report.final) = "protected"
           /\ (report.why = "escalated") <=> BuildProviderPolicyEvidence(report.advice, report.final, report.base) # {}

\* sir's account of the providers is true.  In the ledger one is marked used
\* exactly when the decision differs from the one without providers; advice to
\* raise an allow is either followed or on record as held off by the floor, and
\* the floor is never claimed for a verdict that is not an unmoved allow, nor
\* after a credential was read (that it is claimed for advice that wanted
\* nothing raised too, see ClaimedWhereNeeded);
\* explain, which keeps a copy of that floor, gives the reason the replay of
\* the same request would record (BuildProviderPolicyEvidence,
\* DeveloperWorkflowFloorEvidence, isExplainFloored).
EvidenceTruthful == LedgerTruthful /\ ExplainAgrees

\* The floor is said to have protected an action from escalation only where a
\* provider asked for one (provider_evidence.go:48, "describes whether the
\* clean developer workflow floor suppressed advisory provider escalation").
\* It is not so: advice of nothing but allow is recorded that way too.
ClaimedWhereNeeded ==
    \A n \in DOMAIN ledger : ledger[n].floor = "protected" => ledger[n].given \cap Raising # {}

\* A provider that passes `sir provider test` and prints one line per request
\* is understood by the hooks: the reply that was tested gives the hook
\* exactly its verdict, its risk level or its status.  A source of signals is
\* asked for none of them, and its fixtures are events.
TestedIsUnderstood ==
    report.on /\ report.tool = "test" /\ report.passed /\ report.t.kind # "signal"
        /\ Len(report.t.caps.out) = 1 /\ Len(report.t.reply.out) = 1
    => LET p == report.t.reply
               v == p.out[1].says[1]
           IN  CASE report.t.fixture = "policy" -> invokePolicy(p) = [failed |-> "none", says |-> {v}]
                 [] report.t.fixture = "advisory" -> InvokeAdvisory(p) = [failed |-> "none", level |-> v]
                 [] report.t.fixture = "effect" -> InvokeEffect(p) = [failed |-> FALSE, status |-> v]
                 [] OTHER -> TRUE

=============================================================================
