---------------------------- MODULE ProviderWire ----------------------------
(***************************************************************************)
(* What sir makes of a provider's process.  sir writes one request to its  *)
(* stdin and reads what it leaves behind:                                  *)
(*   end     how it ended: "ok", "hang" (killed at the deadline where the  *)
(*           caller sets one), "exit" (non-zero) or "missing"              *)
(*   stderr  "none", or what its stderr complains of                       *)
(*   out     the documents it printed, one per line                        *)
(* A document is [json, schema, says, advisory, id, rel, timing]: whether  *)
(* it is JSON and of the schema asked for, and the values it carries; says *)
(* is a tuple, of several values for an array of verdicts.  rel and timing *)
(* matter for signals only.                                                *)
(***************************************************************************)
EXTENDS Naturals, Sequences, FiniteSets

Doc(schema, says) ==
    [json |-> TRUE, schema |-> schema, says |-> says, advisory |-> TRUE, id |-> "same",
     rel |-> "declared_intent", timing |-> "pre_exec"]
Garbage == [Doc("none", <<>>) EXCEPT !.json = FALSE]
Ran(out) == [end |-> "ok", stderr |-> "none", out |-> out]

Elements(s) == {s[i] : i \in DOMAIN s}

-----------------------------------------------------------------------------
(***************************************************************************)
(* pkg/provider: the run-time side.                                        *)
(***************************************************************************)
\* runProviderWithStderr: the error of the process itself.
runProvider(p) ==
    CASE p.end = "hang" -> "timeout"
      [] p.end = "missing" -> "unavailable"
      [] p.end = "exit" -> "failed"
      [] OTHER -> "none"

Whole(p) == Len(p.out) = 1 /\ p.out[1].json

\* Silence on stdout is an answer, unless stderr says otherwise.
emptyOutputProviderError(p) == p.stderr

\* Mutant: a complaint on stderr spoils a verdict that was printed.
CallErrorNoisy(p) ==
    IF runProvider(p) # "none" THEN runProvider(p)
    ELSE IF p.stderr # "none" THEN p.stderr
    ELSE IF p.out # <<>> /\ ~Whole(p) THEN "invalid_output" ELSE "none"

\* The error of a call whose quiet is allowed; two documents are no JSON.
CallError(p) ==
    IF runProvider(p) # "none" THEN runProvider(p)
    ELSE IF p.out = <<>> THEN emptyOutputProviderError(p)
    ELSE IF ~Whole(p) THEN "invalid_output" ELSE "none"

validVerdicts == {"allow", "ask", "deny"}
\* Anything that is no verdict is dropped; the schema is not looked at.
toVerdicts(docs) == (UNION {Elements(docs[i].says) : i \in DOMAIN docs}) \cap validVerdicts

invokePolicy(p) ==
    LET err == CallError(p)
    IN  [failed |-> err, says |-> IF err = "none" THEN toVerdicts(p.out) ELSE {}]

validRisks == {"low", "medium", "high", "critical"}
normalizeRiskLevel(level) == IF level \in validRisks THEN level ELSE "low"

\* A single object, not an array.
Single(p) == Whole(p) /\ Len(p.out[1].says) = 1

InvokeAdvisory(p) ==
    LET err == IF CallError(p) = "none" /\ p.out # <<>> /\ ~Single(p) THEN "invalid_output" ELSE CallError(p)
    IN  [failed |-> err, level |-> IF err # "none" \/ p.out = <<>> THEN "none" ELSE normalizeRiskLevel(p.out[1].says[1])]

\* An effect must be answered; its answer is taken as it is.
InvokeEffect(p) ==
    IF runProvider(p) = "none" /\ Single(p) THEN [failed |-> FALSE, status |-> p.out[1].says[1]]
    ELSE [failed |-> TRUE, status |-> "failed"]

VerifyContainment(p) == runProvider(p) = "none" /\ Whole(p) /\ p.out[1].says = <<"verified">>

\* HealthCheck with a deadline, queryProviderCapabilities without one.
HealthCheck(p) == runProvider(p) = "none" /\ Whole(p) /\ p.out[1].schema = "capabilities"
queryProviderCapabilities(p) == p.end # "hang" /\ HealthCheck(p)

\* mergeProviderCapabilities: the effects it says it can bring about.
mergeProviderCapabilities(p) == IF queryProviderCapabilities(p) THEN Elements(p.out[1].says) ELSE {}

-----------------------------------------------------------------------------
(***************************************************************************)
(* `sir provider test`: the same provider is sent the capabilities request *)
(* and a fixture in one process, and its second line is judged.            *)
(***************************************************************************)
\* The second line of both answers, or no document at all.
roundTripProvider(caps, reply) ==
    LET lines == caps.out \o reply.out
    IN  IF caps.end = "ok" /\ reply.end = "ok" /\ Len(lines) >= 2 THEN lines[2] ELSE Garbage

testPolicyFixture(d) ==
    d.json /\ Len(d.says) = 1 /\ d.schema = "policy" /\ d.says[1] \in validVerdicts /\ d.advisory

testAdvisoryFixture(d) ==
    d.json /\ Len(d.says) = 1 /\ d.schema = "advisory" /\ d.says[1] \in validRisks /\ d.advisory

validEffectStatuses == {"applied", "unavailable", "failed", "not_supported"}
testEffectFixture(d) ==
    d.json /\ Len(d.says) = 1 /\ d.schema = "effect" /\ d.id = "same" /\ d.says[1] \in validEffectStatuses

validReliabilities ==
    {"declared_intent", "mediated_action", "observed_runtime", "enforced_boundary", "advisory_signal",
     "user_decision", "admin_policy"}
validTimings == {"pre_exec", "during_exec", "post_exec", "unknown"}
\* A signal claims no more than its manifest declares.
testSignalFixture(d, declared) ==
    /\ d.json /\ d.schema = "signal" /\ d.id # "none"
    /\ d.rel \in validReliabilities /\ d.timing \in validTimings
    /\ declared.rel = {} \/ d.rel \in declared.rel
    /\ declared.timing = {} \/ d.timing \in declared.timing

\* A manifest as loadAndValidateManifest reads it from disk.
manifestIssues(m) ==
    {f \in {"schema", "kind", "protocol", "entrypoint", "capabilities", "enforcement", "fixture"} : ~m[f]}

\* The fixture's schema chooses the test; one no test knows passes unread.
cmdProviderTest(kind, fixture, caps, reply, declared) ==
    LET d == roundTripProvider(caps, reply)
    IN  /\ queryProviderCapabilities(caps)
        /\ CASE kind = "signal" -> testSignalFixture(d, declared)
             [] fixture = "effect" -> testEffectFixture(d)
             [] fixture = "policy" -> testPolicyFixture(d)
             [] fixture = "advisory" -> testAdvisoryFixture(d)
             [] OTHER -> TRUE
=============================================================================
