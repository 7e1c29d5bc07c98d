----------------------------- MODULE CoreProofs -----------------------------
(***************************************************************************)
(* Theorems about core.Evaluate, for every request (every set of labels)   *)
(* and, except for the parity of the two engines, every lease.             *)
(***************************************************************************)
EXTENDS Core, TLAPS

-----------------------------------------------------------------------------
(***************************************************************************)
(* The policy oracle, for every request and every lease.                   *)
(***************************************************************************)
\* The oracle always comes to a verdict: the lease decides when no guard does.
LEMMA OracleDecides ==
    ASSUME NEW r, NEW l
    PROVE  evaluate_inner(r, l) \in Verdicts /\ evaluate(r, l) \in Verdicts
<1>1. lease_verdict(r, l) \in Verdicts
  BY DEF lease_verdict, Verdicts
<1>2. evaluate_inner(r, l) \in Verdicts
  BY <1>1 DEF evaluate_inner, ??, session_preconditions, preapproval_guards, derived_secret_sink,
     network_guardrails, forbidden_verb, secret_session_guards, untrusted_publish_guardrails,
     delegation_guardrails, Verdicts
<1>3. QED
  BY <1>2 DEF evaluate, compose_policy_verdicts, Verdicts

\* Egress of a secret session or of derived secrets: the oracle denies.
LEMMA OracleKeepsSecrets ==
    ASSUME NEW r, NEW l,
           r.secret \/ HasDerivedSecret(r), r.verb \in EgressVerbs
    PROVE  evaluate(r, l) = "deny"
<1>1. session_preconditions(r, l) \in {"none", "deny"}
  BY DEF session_preconditions, EgressVerbs
<1>2. preapproval_guards(r) = "none"
  BY DEF preapproval_guards, ShellVerbs, McpGateVerbs, EgressVerbs
<1>3. CASE HasDerivedSecret(r)
  <2>1. derived_secret_sink(r, l) = "deny"
    BY <1>3 DEF derived_secret_sink
  <2>2. evaluate_inner(r, l) = "deny"
    BY <1>1, <1>2, <2>1 DEF evaluate_inner, ??
  <2>3. QED
    BY <2>2 DEF evaluate, compose_policy_verdicts
<1>4. CASE ~HasDerivedSecret(r) /\ r.secret
  <2>1. derived_secret_sink(r, l) = "none"
    BY <1>4 DEF derived_secret_sink
  <2>2. \/ network_guardrails(r, l) = "deny"
        \/ /\ network_guardrails(r, l) = "none"
           /\ forbidden_verb(r, l) \in {"none", "deny"}
           /\ secret_session_guards(r) = "deny"
    BY <1>4 DEF network_guardrails, forbidden_verb, secret_session_guards, EgressVerbs
  <2>3. evaluate_inner(r, l) = "deny"
    BY <1>1, <1>2, <2>1, <2>2 DEF evaluate_inner, ??
  <2>4. QED
    BY <2>3 DEF evaluate, compose_policy_verdicts
<1>5. QED
  BY <1>3, <1>4

-----------------------------------------------------------------------------
(***************************************************************************)
(* The fallback, and the two together.                                     *)
(***************************************************************************)
\* The fallback always comes to a verdict, as the oracle does.
LEMMA FallbackDecides ==
    ASSUME NEW r \in Requests, NEW l \in Leases
    PROVE  localEvaluateBase(r, l) \in Verdicts /\ localEvaluate(r, l) \in Verdicts
<1>1. localEvaluateBase(r, l) \in Verdicts
  BY DEF localEvaluateBase, ??, localEvaluatePreflight, localEvaluateNetwork,
     localEvaluateDelegation, localEvaluateCommandRisk, Verdicts
<1>2. QED
  BY <1>1 DEF localEvaluate, composeLocalPolicyVerdicts, Verdicts

\* Egress of a secret session or of derived secrets: the fallback denies.
LEMMA FallbackKeepsSecrets ==
    ASSUME NEW r \in Requests, NEW l \in Leases,
           r.secret \/ HasDerivedSecret(r), r.verb \in EgressVerbs
    PROVE  localEvaluate(r, l) = "deny"
<1>1. \/ localEvaluatePreflight(r) = "deny"
      \/ localEvaluatePreflight(r) = "none" /\ localEvaluateNetwork(r, l) = "deny"
  BY DEF localEvaluatePreflight, localEvaluateNetwork, EgressVerbs
<1>2. localEvaluateBase(r, l) = "deny"
  BY <1>1 DEF localEvaluateBase, ??
<1>3. QED
  BY <1>2 DEF localEvaluate, composeLocalPolicyVerdicts

\* Under the default lease the fallback is no looser than the oracle before
\* the providers' advice is composed.
LEMMA BaseParity ==
    ASSUME NEW r \in Requests
    PROVE  NotLooser(localEvaluateBase(r, DefaultLease), evaluate_inner(r, DefaultLease))
<1> DEFINE go == localEvaluateBase(r, DefaultLease)
           rust == evaluate_inner(r, DefaultLease)
<1>0. r.verb \in Verbs /\ DefaultLease \in Leases
  BY DEF Requests, RequestsOver, DefaultLease, Leases, Verbs, CodingVerbs, NetworkVerbs, PushVerbs,
     ShellVerbs, McpGateVerbs, DetectionVerbs
<1>t. r.tripwire = FALSE
  BY DEF Requests, RequestsOver
<1>1. go \in Verdicts /\ rust \in Verdicts
  BY <1>0, OracleDecides, FallbackDecides
<1>2. go = "deny" \/ rust = "allow" \/ (go = "ask" /\ rust = "ask")
  <2>1. CASE r.denyAll
    BY <2>1 DEF localEvaluateBase, localEvaluatePreflight, ??
  <2>2. CASE ~r.denyAll /\ r.verb \in EgressVerbs
    <3>1. go = "deny" \/ (~HasDerivedSecret(r) /\ ~r.secret /\ ~Untrusted(r) /\ go = "ask")
      BY <2>2 DEF localEvaluateBase, localEvaluatePreflight, localEvaluateNetwork, ??, EgressVerbs
    <3>2. ~HasDerivedSecret(r) /\ ~r.secret /\ ~Untrusted(r) => rust \in {"ask", "allow"}
      BY <2>2, <1>t DEF evaluate_inner, session_preconditions, preapproval_guards,
         derived_secret_sink, network_guardrails, forbidden_verb, secret_session_guards,
         untrusted_publish_guardrails, delegation_guardrails, lease_verdict, DefaultLease, ??,
         EgressVerbs, ShellVerbs, McpGateVerbs
    <3>3. QED
      BY <3>1, <3>2
  <2>3. CASE ~r.denyAll /\ r.verb \in ShellVerbs \cup McpGateVerbs
    <3>1. go = "ask"
      BY <2>3 DEF localEvaluateBase, localEvaluatePreflight, localEvaluateNetwork,
         localEvaluateDelegation, localEvaluateCommandRisk, ??, EgressVerbs, ShellVerbs, McpGateVerbs
    <3>2. rust = "ask"
      <4>1. session_preconditions(r, DefaultLease) = "none"
        BY <2>3, <1>t DEF session_preconditions, ShellVerbs, McpGateVerbs
      <4>2. CASE r.verb # "run_ephemeral"
        BY <2>3, <4>1, <4>2 DEF evaluate_inner, preapproval_guards, ??
      <4>3. CASE r.verb = "run_ephemeral"
        BY <4>1, <4>3 DEF evaluate_inner, preapproval_guards, derived_secret_sink, network_guardrails,
           forbidden_verb, secret_session_guards, untrusted_publish_guardrails, delegation_guardrails,
           lease_verdict, DefaultLease, ??, EgressVerbs, ShellVerbs, McpGateVerbs
      <4> QED BY <4>2, <4>3
    <3>3. QED
      BY <3>1, <3>2
  <2>4. CASE ~r.denyAll /\ r.verb \in DetectionVerbs
    <3>1. go = "deny" \/ (go = "ask" /\ r.verb # "mcp_credential_leak"
                          /\ ~detectionVerbDenies(EffectiveLabels(r)))
      BY <2>4 DEF localEvaluateBase, localEvaluatePreflight, localEvaluateNetwork,
         localEvaluateDelegation, localEvaluateCommandRisk, ??, EgressVerbs, ShellVerbs,
         McpGateVerbs, DetectionVerbs
    <3>2. ~detectionVerbDenies(EffectiveLabels(r)) => rust = "ask"
      <4>1. ~detectionVerbDenies(EffectiveLabels(r))
              => check_flow(EffectiveLabels(r), sink_trust_for_verb(r.verb))
        BY DEF detectionVerbDenies, check_flow
      <4>2. QED
        BY <4>1, <2>4, <1>t DEF evaluate_inner, session_preconditions,
           preapproval_guards, derived_secret_sink, network_guardrails, forbidden_verb,
           secret_session_guards, untrusted_publish_guardrails, delegation_guardrails,
           lease_verdict, DefaultLease, ??, EgressVerbs, ShellVerbs, McpGateVerbs, DetectionVerbs,
           CodingVerbs
    <3>3. QED
      BY <3>1, <3>2
  <2>5. CASE ~r.denyAll /\ r.verb \in CodingVerbs \cup {"net_local"}
    <3>1. go = "ask" \/ (go = "allow" /\ ~(r.posture /\ r.verb = "stage_write")
                         /\ ~(r.sensitive /\ r.verb = "read_ref")
                         /\ ~(HasDerivedSecret(r) /\ r.verb \in {"stage_write", "commit"}))
      BY <2>5 DEF localEvaluateBase, localEvaluatePreflight, localEvaluateNetwork,
         localEvaluateDelegation, localEvaluateCommandRisk, deniesFlowToVerb, ??, EgressVerbs,
         ShellVerbs, McpGateVerbs, DetectionVerbs, CodingVerbs
    <3>2. check_flow(EffectiveLabels(r), sink_trust_for_verb(r.verb))
      BY <2>5 DEF check_flow, sink_trust_for_verb, EgressVerbs, CodingVerbs
    <3>g. /\ session_preconditions(r, DefaultLease) = "none"
          /\ network_guardrails(r, DefaultLease) = "none"
          /\ forbidden_verb(r, DefaultLease) = "none"
          /\ secret_session_guards(r) \in {"none", "allow"}
          /\ untrusted_publish_guardrails(r) = "none"
          /\ delegation_guardrails(r, DefaultLease) = "none"
      BY <2>5, <1>t DEF session_preconditions, network_guardrails, forbidden_verb,
         secret_session_guards, untrusted_publish_guardrails, delegation_guardrails, DefaultLease,
         CodingVerbs
    <3>l. lease_verdict(r, DefaultLease) = "allow"
      BY <2>5, <3>2 DEF lease_verdict, DefaultLease, CodingVerbs
    <3>p. preapproval_guards(r) \in {"none", "ask"}
      BY DEF preapproval_guards
    <3>d. derived_secret_sink(r, DefaultLease) \in {"none", "ask"}
      BY <2>5 DEF derived_secret_sink, DefaultLease, EgressVerbs, CodingVerbs
    <3>3. rust = "ask" \/ rust = "allow"
      BY <3>g, <3>l, <3>p, <3>d DEF evaluate_inner, ??
    <3>4. go = "allow" => rust = "allow"
      <4>1. go = "allow" => preapproval_guards(r) = "none"
        BY <2>5, <3>1 DEF preapproval_guards, CodingVerbs, ShellVerbs, McpGateVerbs
      <4>2. go = "allow" => derived_secret_sink(r, DefaultLease) = "none"
        BY <2>5, <3>1 DEF derived_secret_sink, EgressVerbs, CodingVerbs
      <4>3. QED
        BY <4>1, <4>2, <3>g, <3>l DEF evaluate_inner, ??
    <3>5. QED
      BY <3>1, <3>3, <3>4
  <2>6. CASE ~r.denyAll /\ r.verb \in {"push_origin", "net_allowlisted"}
    <3>1. go = "ask" \/ (go = "allow" /\ r.verb = "push_origin" /\ ~HasDerivedSecret(r)
                         /\ ~r.secret /\ ~Untrusted(r))
      BY <2>6 DEF localEvaluateBase, localEvaluatePreflight, localEvaluateNetwork,
         localEvaluateDelegation, localEvaluateCommandRisk, deniesFlowToVerb, ??, EgressVerbs,
         ShellVerbs, McpGateVerbs, DetectionVerbs
    <3>2. check_flow(EffectiveLabels(r), sink_trust_for_verb(r.verb))
      BY <2>6 DEF check_flow, sink_trust_for_verb
    <3>3. rust = "ask" \/ rust = "allow"
      BY <2>6, <3>2, <1>t DEF evaluate_inner, session_preconditions,
         preapproval_guards, derived_secret_sink, network_guardrails, forbidden_verb,
         secret_session_guards, untrusted_publish_guardrails, delegation_guardrails,
         lease_verdict, DefaultLease, ??, EgressVerbs, ShellVerbs, McpGateVerbs
    <3>4. go = "allow" => rust = "allow"
      BY <2>6, <3>1, <3>2, <1>t DEF evaluate_inner, session_preconditions,
         preapproval_guards, derived_secret_sink, network_guardrails, forbidden_verb,
         secret_session_guards, untrusted_publish_guardrails, delegation_guardrails,
         lease_verdict, DefaultLease, ??, EgressVerbs, ShellVerbs, McpGateVerbs
    <3>5. QED
      BY <3>1, <3>3, <3>4
  <2>7. CASE ~r.denyAll /\ r.verb = "delegate"
    <3>1. go = IF r.secret THEN "deny" ELSE IF r.untrustedRead THEN "ask" ELSE "allow"
      BY <2>7 DEF localEvaluateBase, localEvaluatePreflight, localEvaluateNetwork,
         localEvaluateDelegation, ??, EgressVerbs, DefaultLease
    <3>2. check_flow(EffectiveLabels(r), sink_trust_for_verb(r.verb))
      BY <2>7 DEF check_flow, sink_trust_for_verb, EgressVerbs
    <3>3. ~r.secret => rust = IF r.untrustedRead THEN "ask" ELSE "allow"
      BY <2>7, <3>2, <1>t DEF evaluate_inner, session_preconditions,
         preapproval_guards, derived_secret_sink, network_guardrails, forbidden_verb,
         secret_session_guards, untrusted_publish_guardrails, delegation_guardrails,
         lease_verdict, DefaultLease, ??, EgressVerbs, ShellVerbs, McpGateVerbs
    <3>4. QED
      BY <3>1, <3>3
  <2>8. QED
    BY <1>0, <2>1, <2>2, <2>3, <2>4, <2>5, <2>6, <2>7
    DEF Verbs, NetworkVerbs, PushVerbs, EgressVerbs
<1>3. QED
  BY <1>1, <1>2 DEF NotLooser, Rank, Verdicts

\* The same with the advice: both engines compose it in the same way.
LEMMA Parity ==
    ASSUME NEW r \in Requests
    PROVE  NotLooser(localEvaluate(r, DefaultLease), evaluate(r, DefaultLease))
<1>1. DefaultLease \in Leases
  BY DEF DefaultLease, Leases, Verbs, CodingVerbs, NetworkVerbs, PushVerbs, ShellVerbs,
     McpGateVerbs, DetectionVerbs
<1>2. /\ localEvaluateBase(r, DefaultLease) \in Verdicts
      /\ evaluate_inner(r, DefaultLease) \in Verdicts
  BY <1>1, OracleDecides, FallbackDecides
<1>3. QED
  BY <1>2, BaseParity DEF localEvaluate, evaluate, composeLocalPolicyVerdicts,
     compose_policy_verdicts, isLocalCleanDeveloperWorkflow, is_clean_developer_workflow,
     NotLooser, Rank, Verdicts

\* The last answer is the engine's answer to the last request: neither the
\* binary nor the lease changes under a hook process.
Answered == call.answered => call.verdict = Evaluate(binary, call.request, profile)

CoreInv == TypeOK /\ Answered

\* Judging a call: the answer is a verdict, and it is the engine's.
LEMMA JudgeKeeps == ASSUME CoreInv, Judge PROVE CoreInv'
<1>1. PICK r \in RequestSet : call' = Answer(r, Evaluate(binary, r, profile))
  BY DEF Judge
<1>2. r \in Requests /\ profile \in Leases
  BY RequestsAssumption, ProfilesAssumption DEF CoreInv, TypeOK
<1>3. Evaluate(binary, r, profile) \in Verdicts
  BY <1>2, OracleDecides, FallbackDecides DEF Evaluate, Verdicts, CoreInv, TypeOK
<1>4. binary' = binary /\ profile' = profile
  BY DEF Judge
<1>5. call'.request = r /\ call'.verdict = Evaluate(binary, r, profile)
  BY <1>1 DEF Answer
<1>6. TypeOK'
  BY <1>1, <1>3, <1>4 DEF CoreInv, TypeOK, Answer
<1>7. Answered'
  BY <1>4, <1>5 DEF Answered
<1> QED BY <1>6, <1>7 DEF CoreInv

\* Nothing else happens while an answer is out.
LEMMA BetweenCallsKeeps ==
    ASSUME CoreInv,
           \/ Exit
           \/ \E b \in Binaries : ChangeBinary(b)
           \/ \E l \in Profiles : ChangeProfile(l)
    PROVE  CoreInv'
<1>1. ~call'.answered /\ (call' = NoCall \/ call' = call)
  BY DEF Exit, ChangeBinary, ChangeProfile, NoCall
<1>2. binary' \in Binaries /\ profile' \in Profiles
  BY DEF Exit, ChangeBinary, ChangeProfile, CoreInv, TypeOK
<1> QED BY <1>1, <1>2 DEF CoreInv, TypeOK, Answered

\* The invariant of the policy client holds in every behaviour.
LEMMA CoreInvHolds == Spec => []CoreInv
<1>1. ASSUME Init PROVE CoreInv
  BY <1>1 DEF Init, CoreInv, TypeOK, Answered, NoCall
<1>2. ASSUME CoreInv, UNCHANGED vars PROVE CoreInv'
  BY <1>2 DEF vars, CoreInv, TypeOK, Answered
<1>3. CoreInv /\ [Next]_vars => CoreInv'
  BY <1>2, JudgeKeeps, BetweenCallsKeeps DEF Next
<1> QED BY <1>1, <1>3, PTL DEF Spec

\* Whatever happens to the binary and to the lease, every call is answered
\* with one of the three verdicts: no combination of guards, lease and
\* engine leaves a request undecided.
THEOREM CoreTypes == Spec => []TypeOK
<1>1. CoreInv => TypeOK
  BY DEF CoreInv
<1> QED BY <1>1, CoreInvHolds, PTL

\* For every lease, every request and every state of the binary: a session
\* that holds a secret, or a call whose data derives from one, is denied
\* egress to unapproved destinations.
THEOREM SecretsStayIn == Spec => []SecretStaysIn
<1>1. TypeOK /\ Answered => SecretStaysIn
  <2> SUFFICES ASSUME TypeOK, Answered, call.answered,
                      call.request.secret \/ HasDerivedSecret(call.request),
                      call.request.verb \in EgressVerbs
               PROVE  call.verdict = "deny"
    BY DEF SecretStaysIn
  <2>1. call # NoCall
    BY DEF NoCall
  <2>2. call.request \in Requests /\ profile \in Leases
    BY <2>1, RequestsAssumption, ProfilesAssumption DEF TypeOK
  <2>3. /\ evaluate(call.request, profile) = "deny"
        /\ localEvaluate(call.request, profile) = "deny"
    BY <2>2, OracleKeepsSecrets, FallbackKeepsSecrets
  <2>4. QED
    BY <2>3 DEF Answered, Evaluate
<1>2. QED
  BY <1>1, CoreInvHolds, PTL DEF CoreInv

\* While the default lease is in force, no state of the mister-core binary
\* gives a verdict looser than the oracle's.  (With the strict lease this
\* does not hold: see the run core_strict_fallback.)
THEOREM FallbackParity == Spec => []DefaultLeaseParity
<1>1. TypeOK /\ Answered => DefaultLeaseParity
  <2> SUFFICES ASSUME TypeOK, Answered, call.answered, profile = DefaultLease
               PROVE  NotLooser(call.verdict, evaluate(call.request, profile))
    BY DEF DefaultLeaseParity
  <2>1. call # NoCall
    BY DEF NoCall
  <2>2. call.request \in Requests /\ profile \in Leases
    BY <2>1, RequestsAssumption, ProfilesAssumption DEF TypeOK
  <2>3. evaluate(call.request, profile) \in Verdicts
    BY <2>2, OracleDecides
  <2>4. NotLooser(localEvaluate(call.request, profile), evaluate(call.request, profile))
    BY <2>2, Parity
  <2>5. QED
    BY <2>3, <2>4 DEF Answered, Evaluate, NotLooser, Rank, Verdicts
<1>2. QED
  BY <1>1, CoreInvHolds, PTL DEF CoreInv

\* What the engines look at before the advice does not contain it.
LEMMA BareVerdict ==
    ASSUME NEW r \in Requests, NEW l \in Leases
    PROVE  LET bare == [r EXCEPT !.advice = {}]
           IN  /\ bare \in Requests
               /\ evaluate(bare, l) = evaluate_inner(r, l)
               /\ localEvaluate(bare, l) = localEvaluateBase(r, l)
<1> DEFINE bare == [r EXCEPT !.advice = {}]
<1>1. bare \in Requests BY DEF Requests, RequestsOver
<1>2. /\ bare.verb = r.verb /\ bare.posture = r.posture /\ bare.sensitive = r.sensitive
      /\ bare.tripwire = r.tripwire /\ bare.denyAll = r.denyAll /\ bare.advice = {}
      /\ bare.secret = r.secret /\ bare.wasSecret = r.wasSecret
      /\ bare.untrustedRead = r.untrustedRead /\ bare.untrustedTurn = r.untrustedTurn
      /\ bare.labels = r.labels /\ bare.derived = r.derived
  BY DEF Requests, RequestsOver
<1>3. /\ Untrusted(bare) <=> Untrusted(r)
      /\ EffectiveLabels(bare) = EffectiveLabels(r)
      /\ HasDerivedSecret(bare) <=> HasDerivedSecret(r)
  BY <1>2 DEF Untrusted, EffectiveLabels, HasDerivedSecret
<1> HIDE DEF bare
<1>4. /\ session_preconditions(bare, l) = session_preconditions(r, l)
      /\ preapproval_guards(bare) = preapproval_guards(r)
      /\ derived_secret_sink(bare, l) = derived_secret_sink(r, l)
      /\ network_guardrails(bare, l) = network_guardrails(r, l)
      /\ forbidden_verb(bare, l) = forbidden_verb(r, l)
      /\ secret_session_guards(bare) = secret_session_guards(r)
      /\ untrusted_publish_guardrails(bare) = untrusted_publish_guardrails(r)
      /\ delegation_guardrails(bare, l) = delegation_guardrails(r, l)
      /\ lease_verdict(bare, l) = lease_verdict(r, l)
  BY <1>2, <1>3 DEF session_preconditions, preapproval_guards, derived_secret_sink, network_guardrails,
     forbidden_verb, secret_session_guards, untrusted_publish_guardrails, delegation_guardrails, lease_verdict
<1>5. evaluate(bare, l) = evaluate_inner(r, l)
  BY <1>2, <1>4 DEF evaluate, compose_policy_verdicts, evaluate_inner
<1>6. /\ localEvaluatePreflight(bare) = localEvaluatePreflight(r)
      /\ localEvaluateNetwork(bare, l) = localEvaluateNetwork(r, l)
      /\ localEvaluateDelegation(bare, l) = localEvaluateDelegation(r, l)
      /\ localEvaluateCommandRisk(bare) = localEvaluateCommandRisk(r)
  BY <1>2, <1>3 DEF localEvaluatePreflight, localEvaluateNetwork, localEvaluateDelegation, localEvaluateCommandRisk
<1>7. localEvaluate(bare, l) = localEvaluateBase(r, l)
  BY <1>2, <1>3, <1>6 DEF localEvaluate, composeLocalPolicyVerdicts, localEvaluateBase
<1> QED BY <1>1, <1>5, <1>7 DEF bare

\* For every lease, every request and every state of the binary, the advice
\* of policy providers turns an allow into an ask outside the everyday
\* workflow, and changes nothing else (compose_policy_verdicts).
THEOREM AdviceIsAdvice == Spec => []AdviceOnlyAsks
<1>1. TypeOK /\ Answered => AdviceOnlyAsks
  <2> SUFFICES ASSUME TypeOK, Answered, call.answered
               PROVE  LET bare == Evaluate(binary, [call.request EXCEPT !.advice = {}], profile)
                      IN  \/ call.verdict = bare
                          \/ /\ bare = "allow" /\ call.verdict = "ask"
                             /\ ~is_clean_developer_workflow(call.request)
    BY DEF AdviceOnlyAsks
  <2> DEFINE r == call.request
  <2>1. r \in Requests /\ profile \in Leases
    BY RequestsAssumption, ProfilesAssumption DEF TypeOK, NoCall
  <2>2. CASE binary = "installed"
    BY <2>1, <2>2, BareVerdict DEF Answered, Evaluate, evaluate, compose_policy_verdicts
  <2>3. CASE binary = "missing"
    BY <2>1, <2>3, BareVerdict DEF Answered, Evaluate, localEvaluate, composeLocalPolicyVerdicts,
       isLocalCleanDeveloperWorkflow, is_clean_developer_workflow
  <2>4. CASE binary \notin {"installed", "missing"} BY <2>4 DEF Answered, Evaluate
  <2> QED BY <2>2, <2>3, <2>4
<1> QED BY <1>1, CoreInvHolds, PTL DEF CoreInv
=============================================================================
