--------------------------- MODULE HookGateProofs ---------------------------
(***************************************************************************)
(* Proofs about the hooks around a tool call, for every set of call ids,   *)
(* servers and scenarios and every capacity of the ring of denied ids.     *)
(* Each property says of an open call how it was judged, and follows from  *)
(* the verdict of the first gate that fired; what the gates look at is in  *)
(* the session, which an inductive invariant ties to what really happened. *)
(***************************************************************************)
EXTENDS HookGate, FiniteSetTheorems, TLAPS

-----------------------------------------------------------------------------
(***************************************************************************)
(* The policy oracle, for every request and every lease.                   *)
(***************************************************************************)
\* The oracle always comes to a verdict: the lease decides when no guard does.
LEMMA OracleDecides ==
    ASSUME NEW r, NEW l
    PROVE  evaluate_inner(r, l) \in Verdicts /\ evaluate(r, l) \in Verdicts
<1>1. lease_verdict(r, l) \in Verdicts
  BY DEF lease_verdict, Verdicts
<1>2. evaluate_inner(r, l) \in Verdicts
  BY <1>1 DEF evaluate_inner, ??, session_preconditions, preapproval_guards, derived_secret_sink,
     network_guardrails, forbidden_verb, secret_session_guards, untrusted_publish_guardrails,
     delegation_guardrails, Verdicts
<1>3. QED
  BY <1>2 DEF evaluate, compose_policy_verdicts, Verdicts

\* Egress of a secret session or of derived secrets: the oracle denies.
LEMMA OracleKeepsSecrets ==
    ASSUME NEW r, NEW l,
           r.secret \/ HasDerivedSecret(r), r.verb \in EgressVerbs
    PROVE  evaluate(r, l) = "deny"
<1>1. session_preconditions(r, l) \in {"none", "deny"}
  BY DEF session_preconditions, EgressVerbs
<1>2. preapproval_guards(r) = "none"
  BY DEF preapproval_guards, ShellVerbs, McpGateVerbs, EgressVerbs
<1>3. CASE HasDerivedSecret(r)
  <2>1. derived_secret_sink(r, l) = "deny"
    BY <1>3 DEF derived_secret_sink
  <2>2. evaluate_inner(r, l) = "deny"
    BY <1>1, <1>2, <2>1 DEF evaluate_inner, ??
  <2>3. QED
    BY <2>2 DEF evaluate, compose_policy_verdicts
<1>4. CASE ~HasDerivedSecret(r) /\ r.secret
  <2>1. derived_secret_sink(r, l) = "none"
    BY <1>4 DEF derived_secret_sink
  <2>2. \/ network_guardrails(r, l) = "deny"
        \/ /\ network_guardrails(r, l) = "none"
           /\ forbidden_verb(r, l) \in {"none", "deny"}
           /\ secret_session_guards(r) = "deny"
    BY <1>4 DEF network_guardrails, forbidden_verb, secret_session_guards, EgressVerbs
  <2>3. evaluate_inner(r, l) = "deny"
    BY <1>1, <1>2, <2>1, <2>2 DEF evaluate_inner, ??
  <2>4. QED
    BY <2>3 DEF evaluate, compose_policy_verdicts
<1>5. QED
  BY <1>3, <1>4

\* Egress under the influence of foreign content: the oracle denies.
LEMMA OracleKeepsForeign ==
    ASSUME NEW r, NEW l, Untrusted(r), r.verb \in EgressVerbs
    PROVE  evaluate(r, l) = "deny"
<1>1. session_preconditions(r, l) \in {"none", "deny"}
  BY DEF session_preconditions, EgressVerbs
<1>2. preapproval_guards(r) = "none"
  BY DEF preapproval_guards, ShellVerbs, McpGateVerbs, EgressVerbs
<1>3. derived_secret_sink(r, l) \in {"none", "deny"}
  BY DEF derived_secret_sink
<1>4. \/ network_guardrails(r, l) = "deny"
      \/ /\ network_guardrails(r, l) = "none"
         /\ forbidden_verb(r, l) \in {"none", "deny"}
         /\ secret_session_guards(r) \in {"none", "deny"}
         /\ untrusted_publish_guardrails(r) = "deny"
  BY DEF network_guardrails, forbidden_verb, secret_session_guards, untrusted_publish_guardrails,
     EgressVerbs
<1>5. evaluate_inner(r, l) = "deny"
  BY <1>1, <1>2, <1>3, <1>4 DEF evaluate_inner, ??
<1>6. QED
  BY <1>5 DEF evaluate, compose_policy_verdicts

\* What the oracle never allows outright: secrets on the way to a trusted
\* place, a push to origin under foreign influence, an environment dump, an
\* MCP call with an unapproved host, and a package run that no lease allows.
LEMMA OracleAsks ==
    ASSUME NEW r, NEW l,
           \/ HasDerivedSecret(r) /\ r.verb \in {"stage_write", "commit", "push_origin", "net_allowlisted"}
           \/ Untrusted(r) /\ r.verb = "push_origin"
           \/ r.verb \in {"env_read", "mcp_network_unapproved"}
           \/ r.verb = "run_ephemeral" /\ r.verb \notin l.allowed
    PROVE  evaluate(r, l) \in {"ask", "deny"}
<1> DEFINE Opinion == {"none", "ask", "deny"}
<1>1. session_preconditions(r, l) \in Opinion /\ preapproval_guards(r) \in Opinion
      /\ derived_secret_sink(r, l) \in Opinion /\ network_guardrails(r, l) \in Opinion
      /\ forbidden_verb(r, l) \in Opinion /\ untrusted_publish_guardrails(r) \in Opinion
      /\ delegation_guardrails(r, l) \in Opinion
  BY DEF session_preconditions, preapproval_guards, derived_secret_sink, network_guardrails,
     forbidden_verb, untrusted_publish_guardrails, delegation_guardrails
<1>2. CASE HasDerivedSecret(r) /\ r.verb \in {"stage_write", "commit", "push_origin", "net_allowlisted"}
  <2>1. derived_secret_sink(r, l) # "none"
    BY <1>2 DEF derived_secret_sink, EgressVerbs
  <2>2. evaluate_inner(r, l) \in {"ask", "deny"}
    BY <1>1, <2>1 DEF evaluate_inner, ??
  <2>3. QED
    BY <2>2 DEF evaluate, compose_policy_verdicts
<1>3. CASE Untrusted(r) /\ r.verb = "push_origin"
  <2>1. secret_session_guards(r) \in Opinion /\ untrusted_publish_guardrails(r) # "none"
    BY <1>3 DEF secret_session_guards, untrusted_publish_guardrails
  <2>2. evaluate_inner(r, l) \in {"ask", "deny"}
    BY <1>1, <2>1 DEF evaluate_inner, ??
  <2>3. QED
    BY <2>2 DEF evaluate, compose_policy_verdicts
<1>4. CASE r.verb \in {"env_read", "mcp_network_unapproved"}
  <2>1. preapproval_guards(r) # "none"
    BY <1>4 DEF preapproval_guards, ShellVerbs, McpGateVerbs
  <2>2. evaluate_inner(r, l) \in {"ask", "deny"}
    BY <1>1, <2>1 DEF evaluate_inner, ??
  <2>3. QED
    BY <2>2 DEF evaluate, compose_policy_verdicts
<1>5. CASE r.verb = "run_ephemeral" /\ r.verb \notin l.allowed
  <2>1. secret_session_guards(r) = "none" /\ lease_verdict(r, l) \in {"ask", "deny"}
    BY <1>5 DEF secret_session_guards, lease_verdict
  <2>2. evaluate_inner(r, l) \in {"ask", "deny"}
    BY <1>1, <2>1 DEF evaluate_inner, ??
  <2>3. QED
    BY <2>2 DEF evaluate, compose_policy_verdicts
<1>6. QED
  BY <1>2, <1>3, <1>4, <1>5

-----------------------------------------------------------------------------
(***************************************************************************)
(* The least element of a set of numbers, from the library's fact that the *)
(* strict subsets of finite sets are well-founded.                         *)
(***************************************************************************)
\* Min returns the smallest element of a nonempty set of natural numbers.
LEMMA LeastElement ==
    ASSUME NEW T \in SUBSET Nat, T # {}
    PROVE  Min(T) \in T /\ \A y \in T : Min(T) <= y
<1> DEFINE UpTo(n) == 0..n
           Segments == {UpTo(n) : n \in T}
<1>1. \A n \in Nat : UpTo(n) \subseteq Nat /\ IsFiniteSet(UpTo(n))
  BY FS_Interval
<1>2. Segments \subseteq FiniteSubsetsOf(Nat) /\ Segments # {}
  BY <1>1 DEF FiniteSubsetsOf
<1>3. PICK z \in Segments : \A y \in Segments : ~(<<y, z>> \in StrictSubsetOrdering(Nat))
  BY <1>2, FS_StrictSubsetOrderingWellFounded, WFMin, Zenon
<1>4. PICK n \in T : z = UpTo(n)
  BY <1>3
<1>5. ASSUME NEW m \in T, m < n PROVE FALSE
  <2>1. n \in UpTo(n) /\ n \notin UpTo(m)
    BY <1>5
  <2>2. UpTo(m) \subseteq UpTo(n) /\ UpTo(m) \subseteq Nat /\ UpTo(n) \subseteq Nat
    BY <1>5
  <2>3. <<UpTo(m), UpTo(n)>> \in StrictSubsetOrdering(Nat)
    BY <2>1, <2>2 DEF StrictSubsetOrdering
  <2>4. QED
    BY <1>3, <1>4, <2>3
<1>6. \A y \in T : n <= y
  BY <1>5
<1>7. QED
  BY <1>6 DEF Min

-----------------------------------------------------------------------------
(***************************************************************************)
(* The first gate that fires.                                              *)
(***************************************************************************)
GateNames == {"deny_all", "opaque", "leak", "dns_tunnel", "sir_state", "sir_self", "git_config",
              "raw_read", "mcp_credential", "mcp_scope", "tainted_server", "delegation_deny",
              "delegation_ask", "tainted_input", "mcp_drift", "mcp_onboarding", "install", "policy"}

\* Gates lists each gate once, and the oracle last.
LEMMA GateOrder ==
    /\ Len(Gates) = 18 /\ Range(Gates) = GateNames
    /\ Gates[1] = "deny_all" /\ Gates[2] = "opaque" /\ Gates[3] = "leak"
    /\ Gates[4] = "dns_tunnel" /\ Gates[5] = "sir_state" /\ Gates[6] = "sir_self"
    /\ Gates[7] = "git_config" /\ Gates[8] = "raw_read" /\ Gates[9] = "mcp_credential"
    /\ Gates[10] = "mcp_scope" /\ Gates[11] = "tainted_server" /\ Gates[12] = "delegation_deny"
    /\ Gates[13] = "delegation_ask" /\ Gates[14] = "tainted_input" /\ Gates[15] = "mcp_drift"
    /\ Gates[16] = "mcp_onboarding" /\ Gates[17] = "install" /\ Gates[18] = "policy"
<1>1. /\ Len(Gates) = 18 /\ DOMAIN Gates = 1..18
      /\ Gates[1] = "deny_all" /\ Gates[2] = "opaque" /\ Gates[3] = "leak"
      /\ Gates[4] = "dns_tunnel" /\ Gates[5] = "sir_state" /\ Gates[6] = "sir_self"
      /\ Gates[7] = "git_config" /\ Gates[8] = "raw_read" /\ Gates[9] = "mcp_credential"
      /\ Gates[10] = "mcp_scope" /\ Gates[11] = "tainted_server" /\ Gates[12] = "delegation_deny"
      /\ Gates[13] = "delegation_ask" /\ Gates[14] = "tainted_input" /\ Gates[15] = "mcp_drift"
      /\ Gates[16] = "mcp_onboarding" /\ Gates[17] = "install" /\ Gates[18] = "policy"
  BY DEF Gates
<1>2. \A k \in 1..18 : k \in {1,2,3,4,5,6,7,8,9,10,11,12,13,14,15,16,17,18}
  OBVIOUS
<1>3. Range(Gates) \subseteq GateNames
  BY <1>1, <1>2 DEF Range, GateNames
<1>4. GateNames \subseteq Range(Gates)
  BY <1>1 DEF Range, GateNames
<1>5. QED
  BY <1>1, <1>3, <1>4

\* The gate that answers fires, and no earlier one does: if the j-th gate
\* fires, the answer comes from one of the first j.
LEMMA FirstGate ==
    ASSUME NEW p, NEW s, NEW i, NEW alerted,
           NEW j \in 1..18, Fires(p, s, i, alerted)[Gates[j]]
    PROVE  \E k \in 1..j : /\ FiringGate(p, s, i, alerted) = Gates[k]
                           /\ Fires(p, s, i, alerted)[Gates[k]]
<1> DEFINE T == {k \in 1..Len(Gates) : Fires(p, s, i, alerted)[Gates[k]]}
<1>1. T \subseteq Nat /\ j \in T
  BY GateOrder
<1>2. Min(T) \in T /\ Min(T) <= j
  BY <1>1, LeastElement
<1>3. FiringGate(p, s, i, alerted) = Gates[Min(T)]
  BY DEF FiringGate
<1>4. Min(T) \in 1..j /\ Fires(p, s, i, alerted)[Gates[Min(T)]]
  <2>1. Min(T) \in 1..Len(Gates) /\ Fires(p, s, i, alerted)[Gates[Min(T)]]
    BY <1>2, Zenon
  <2>2. QED
    BY <1>2, <2>1
<1> HIDE DEF T
<1>5. QED
  BY <1>3, <1>4

\* Some gate always answers: the oracle, if no other does.
LEMMA SomeGate ==
    ASSUME NEW p, NEW s, NEW i, NEW alerted
    PROVE  /\ FiringGate(p, s, i, alerted) \in GateNames
           /\ Fires(p, s, i, alerted)[FiringGate(p, s, i, alerted)]
<1>1. Fires(p, s, i, alerted)[Gates[18]]
  BY GateOrder DEF Fires
<1>2. PICK k \in 1..18 : /\ FiringGate(p, s, i, alerted) = Gates[k]
                         /\ Fires(p, s, i, alerted)[Gates[k]]
  BY <1>1, FirstGate
<1>3. DOMAIN Gates = 1..18
  BY DEF Gates
<1>4. QED
  BY <1>2, <1>3, GateOrder DEF Range

-----------------------------------------------------------------------------
(***************************************************************************)
(* What the methods of the session keep.                                   *)
(***************************************************************************)
Fields == {"secret", "ever", "turn", "apprTurn", "byHook", "last", "untrustedRead", "untrustedTurn",
           "fingerprints", "evidence", "lineage", "posture", "tainted", "acked", "alert", "denyAll",
           "denied", "grants", "pendingReuse", "reusable", "pendingHost", "pendingInstall", "onboarded"}

\* A session record, as far as the proofs look into it.
Formed(s) ==
    /\ DOMAIN s = Fields /\ DOMAIN s.lineage = Files
    /\ s.turn \in Nat /\ s.grants \in Seq(Grants)

\* Within a turn t forgets nothing that s knows.
Kept(s, t) ==
    /\ Formed(t)
    /\ t.denyAll = s.denyAll /\ t.denied = s.denied /\ t.turn = s.turn
    /\ s.secret => t.secret
    /\ s.untrustedTurn => t.untrustedTurn
    /\ s.fingerprints => t.fingerprints
    /\ s.evidence \subseteq t.evidence
    /\ \A f \in Files : s.lineage[f] \subseteq t.lineage[f]

\* A session keeps what it knows through a sequence of updates that do.
LEMMA KeptThrough ==
    ASSUME NEW s, NEW t, NEW u, Kept(s, t), Kept(t, u)
    PROVE  Kept(s, u)
BY DEF Kept

\* A well-formed session keeps what it knows when nothing happens.
LEMMA KeptItself ==
    ASSUME NEW s, Formed(s)
    PROVE  Kept(s, s)
BY DEF Kept

\* What is kept is kept in a well-formed session.
LEMMA KeptIsFormed ==
    ASSUME NEW s, NEW t, Kept(s, t)
    PROVE  Formed(t)
BY DEF Kept

\* The marks and notes a gate may leave in the session.
LEMMA MarksKeep ==
    ASSUME NEW s, Formed(s)
    PROVE  /\ Kept(s, MarkSecretSession(s)) /\ MarkSecretSession(s).grants = s.grants
           /\ Kept(s, SetPendingInstall(s)) /\ SetPendingInstall(s).grants = s.grants
           /\ Kept(s, MarkPendingAutoLease(s)) /\ MarkPendingAutoLease(s).grants = s.grants
           /\ \A r : Kept(s, MarkPendingReuse(s, r)) /\ MarkPendingReuse(s, r).grants = s.grants
           /\ \A m : Kept(s, BumpMCPOnboardingCall(s, m)) /\ BumpMCPOnboardingCall(s, m).grants = s.grants
           /\ \A f, labels : /\ Kept(s, AttachLineageLabelsToPath(s, f, labels))
                             /\ AttachLineageLabelsToPath(s, f, labels).grants = s.grants
           /\ Kept(s, [s EXCEPT !.untrustedRead = TRUE])
           /\ [s EXCEPT !.untrustedRead = TRUE].grants = s.grants
<1> USE DEF Kept, Formed, Fields
<1>1. Kept(s, MarkSecretSession(s)) /\ MarkSecretSession(s).grants = s.grants
  BY DEF MarkSecretSession
<1>2. Kept(s, SetPendingInstall(s)) /\ SetPendingInstall(s).grants = s.grants
  BY DEF SetPendingInstall
<1>3. Kept(s, MarkPendingAutoLease(s)) /\ MarkPendingAutoLease(s).grants = s.grants
  BY DEF MarkPendingAutoLease
<1>4. \A r : Kept(s, MarkPendingReuse(s, r)) /\ MarkPendingReuse(s, r).grants = s.grants
  BY DEF MarkPendingReuse
<1>5. \A m : Kept(s, BumpMCPOnboardingCall(s, m)) /\ BumpMCPOnboardingCall(s, m).grants = s.grants
  BY DEF BumpMCPOnboardingCall
<1>6. \A f, labels : /\ Kept(s, AttachLineageLabelsToPath(s, f, labels))
                     /\ AttachLineageLabelsToPath(s, f, labels).grants = s.grants
  BY DEF AttachLineageLabelsToPath
<1>7. Kept(s, [s EXCEPT !.untrustedRead = TRUE]) /\ [s EXCEPT !.untrustedRead = TRUE].grants = s.grants
  OBVIOUS
<1>8. QED
  BY ONLY <1>1, <1>2, <1>3, <1>4, <1>5, <1>6, <1>7

\* Taking out a grant leaves one less.
LEMMA DropOne ==
    ASSUME NEW s, Formed(s), NEW k \in 1..Len(s.grants)
    PROVE  /\ Kept(s, DropGrant(s, k))
           /\ Len(DropGrant(s, k).grants) = Len(s.grants) - 1
<1> DEFINE before == SubSeq(s.grants, 1, k - 1)
           after == SubSeq(s.grants, k + 1, Len(s.grants))
<1>1. /\ RemoveAt(s.grants, k) \in Seq(Grants)
      /\ Len(RemoveAt(s.grants, k)) = Len(s.grants) - 1
  <2>1. s.grants \in Seq(Grants) /\ Len(s.grants) \in Nat
    BY DEF Formed
  <2>2. before \in Seq(Grants) /\ Len(before) = k - 1
    BY <2>1
  <2>3. after \in Seq(Grants) /\ Len(after) = Len(s.grants) - k
    BY <2>1
  <2>4. RemoveAt(s.grants, k) = before \o after
    BY DEF RemoveAt
  <2> HIDE DEF before, after
  <2>5. QED
    BY <2>1, <2>2, <2>3, <2>4
<1>2. /\ DropGrant(s, k).grants = RemoveAt(s.grants, k)
      /\ Kept(s, DropGrant(s, k))
  BY <1>1 DEF DropGrant, Kept, Formed, Fields
<1>3. QED
  BY <1>1, <1>2

\* A matching grant is found, and it goes if it is a one-time grant.
LEMMA ConsumeOne ==
    ASSUME NEW s, Formed(s), NEW verb, HasApprovalGrant(s, verb)
    PROVE  /\ Kept(s, ConsumeApprovalGrant(s, verb))
           /\ UsesOneTime(s, verb)
                 => Len(ConsumeApprovalGrant(s, verb).grants) = Len(s.grants) - 1
           /\ ~UsesOneTime(s, verb)
                 => Len(ConsumeApprovalGrant(s, verb).grants) = Len(s.grants)
<1> DEFINE T == {j \in 1..Len(s.grants) : s.grants[j].verb = verb}
<1>1. T \in SUBSET Nat /\ T # {}
  BY DEF Formed, HasApprovalGrant, Range
<1>2. Min(T) \in 1..Len(s.grants)
  <2>1. Min(T) \in T
    BY <1>1, LeastElement
  <2>2. QED
    BY <2>1, Zenon
<1>3. CASE UsesOneTime(s, verb)
  <2>1. ConsumeApprovalGrant(s, verb) = DropGrant(s, Min(T))
    BY <1>3, Zenon DEF UsesOneTime, ConsumeApprovalGrant
  <2>2. QED
    BY <1>2, <1>3, <2>1, DropOne
<1>4. CASE ~UsesOneTime(s, verb)
  <2>1. ConsumeApprovalGrant(s, verb) = s
    BY <1>4, Zenon DEF UsesOneTime, ConsumeApprovalGrant
  <2>2. QED
    BY <1>4, <2>1, KeptItself
<1>5. QED
  BY <1>3, <1>4

-----------------------------------------------------------------------------
(***************************************************************************)
(* What a judgement leaves in the session.                                 *)
(***************************************************************************)
\* The way to a gate keeps the session, but for a one-time scope grant.
LEMMA ReachingKeeps ==
    ASSUME NEW g, NEW p, NEW s, NEW i, Formed(s)
    PROVE  /\ Kept(s, Reaching(g, p, s, i))
           /\ UsesScope(g, p, s, i) /\ UsesOneTime(s, "mcp_scope")
                 => Len(Reaching(g, p, s, i).grants) = Len(s.grants) - 1
           /\ ~(UsesScope(g, p, s, i) /\ UsesOneTime(s, "mcp_scope"))
                 => Len(Reaching(g, p, s, i).grants) = Len(s.grants)
<1> DEFINE scoped == IF UsesScope(g, p, s, i) THEN ConsumeApprovalGrant(s, "mcp_scope") ELSE s
<1>1. /\ Kept(s, scoped)
      /\ UsesScope(g, p, s, i) /\ UsesOneTime(s, "mcp_scope") => Len(scoped.grants) = Len(s.grants) - 1
      /\ ~(UsesScope(g, p, s, i) /\ UsesOneTime(s, "mcp_scope")) => Len(scoped.grants) = Len(s.grants)
  <2>1. CASE UsesScope(g, p, s, i)
    <3>1. HasApprovalGrant(s, "mcp_scope")
      BY <2>1 DEF UsesScope, ScopeGranted
    <3>2. QED
      BY <2>1, <3>1, ConsumeOne
  <2>2. CASE ~UsesScope(g, p, s, i)
    BY <2>2, KeptItself
  <2>3. QED
    BY <2>1, <2>2
<1>2. Reaching(g, p, s, i) = scoped \/ Reaching(g, p, s, i) = SetPendingInstall(scoped)
  BY Zenon DEF Reaching
<1> HIDE DEF scoped
<1>3. Formed(scoped)
  BY <1>1, KeptIsFormed
<1>4. /\ Kept(scoped, SetPendingInstall(scoped))
      /\ SetPendingInstall(scoped).grants = scoped.grants
  BY <1>3, MarksKeep, Zenon
<1>5. Kept(s, Reaching(g, p, s, i)) /\ Reaching(g, p, s, i).grants = scoped.grants
  BY <1>1, <1>2, <1>4, KeptThrough
<1>6. QED
  BY <1>1, <1>5

\* The convenience rules use up at most the grant they rely on.
LEMMA SettleKeeps ==
    ASSUME NEW p, NEW s, NEW i, Formed(s)
    PROVE  LET a == Settle(p, s, i) IN
           /\ Kept(s, a.state)
           /\ a.granted /\ UsesOneTime(s, i.verb) => Len(a.state.grants) = Len(s.grants) - 1
           /\ ~(a.granted /\ UsesOneTime(s, i.verb)) => Len(a.state.grants) = Len(s.grants)
<1>1. CASE Settle(p, s, i).granted
  <2>1. HasApprovalGrant(s, i.verb) /\ Settle(p, s, i).state = ConsumeApprovalGrant(s, i.verb)
    BY <1>1 DEF Settle
  <2>2. QED
    BY <1>1, <2>1, ConsumeOne
<1>2. CASE ~Settle(p, s, i).granted
  <2>1. \/ Settle(p, s, i).state = s
        \/ Settle(p, s, i).state = MarkPendingReuse(s, i.verb)
    BY <1>2 DEF Settle
  <2>2. QED
    <3>1. /\ Kept(s, s) /\ Kept(s, MarkPendingReuse(s, i.verb))
          /\ MarkPendingReuse(s, i.verb).grants = s.grants
      BY MarksKeep, KeptItself, Zenon
    <3>2. Kept(s, Settle(p, s, i).state) /\ Settle(p, s, i).state.grants = s.grants
      BY <2>1, <3>1
    <3>3. QED
      BY <1>2, <3>2
<1>3. QED
  BY <1>1, <1>2

\* A gate that answers keeps the session, but for the grant it relies on.
LEMMA AnswerKeeps ==
    ASSUME NEW g, NEW p, NEW s, NEW i, NEW alerted, Formed(s)
    PROVE  LET a == AnswerOf(g, p, s, i, alerted) IN
           /\ Kept(s, a.state)
           /\ a.granted /\ UsesOneTime(s, i.verb) => Len(a.state.grants) = Len(s.grants) - 1
           /\ ~(a.granted /\ UsesOneTime(s, i.verb)) => Len(a.state.grants) = Len(s.grants)
<1> DEFINE settled == Settle(p, s, i)
           v == IF g = "policy" THEN settled.verdict
                ELSE IF g \in DenyingGates THEN "deny" ELSE "ask"
           a == AnswerOf(g, p, s, i, alerted)
<1>1. a.state = StateAfter(g, p, s, i, v) /\ (a.granted <=> g = "policy" /\ settled.granted)
  BY DEF AnswerOf
<1> HIDE DEF v, settled, a
<1>2. CASE g = "policy"
  <2> DEFINE t == settled.state
             marked == IF v = "allow" /\ IsSensitive(i) THEN MarkSecretSession(t) ELSE t
             applied == applyCoreEvaluationResult(t, i, v)
  <2>1. Kept(s, t) /\ Formed(t)
    BY SettleKeeps, KeptIsFormed DEF settled
  <2>2. marked = t \/ marked = MarkSecretSession(t)
    BY Zenon
  <2>3. applied = marked \/ applied = [marked EXCEPT !.untrustedRead = TRUE]
    BY Zenon DEF applyCoreEvaluationResult
  <2> HIDE DEF marked, t, applied
  <2>4. Kept(t, marked) /\ marked.grants = t.grants /\ Formed(marked)
    BY <2>1, <2>2, MarksKeep, KeptItself, KeptIsFormed, Zenon
  <2>5. Kept(marked, applied) /\ applied.grants = marked.grants /\ Formed(applied)
    BY <2>3, <2>4, MarksKeep, KeptItself, KeptIsFormed, Zenon
  <2>6. a.state = maybeMarkAutoLeasePending(p, applied, i, v)
    BY <1>1, <1>2 DEF StateAfter, applied, t, settled
  <2>7. a.state = applied \/ a.state = MarkPendingAutoLease(applied)
    BY <2>6, Zenon DEF maybeMarkAutoLeasePending
  <2>8. Kept(applied, a.state) /\ a.state.grants = applied.grants
    BY <2>5, <2>7, MarksKeep, KeptItself, Zenon
  <2>9. Kept(s, a.state)
    BY <2>1, <2>4, <2>5, <2>8, KeptThrough
  <2>10. a.state.grants = t.grants /\ (a.granted <=> settled.granted)
    BY <1>1, <1>2, <2>4, <2>5, <2>8
  <2>11. /\ settled.granted /\ UsesOneTime(s, i.verb) => Len(t.grants) = Len(s.grants) - 1
         /\ ~(settled.granted /\ UsesOneTime(s, i.verb)) => Len(t.grants) = Len(s.grants)
    BY SettleKeeps DEF settled, t
  <2>12. /\ a.granted /\ UsesOneTime(s, i.verb) => Len(a.state.grants) = Len(s.grants) - 1
         /\ ~(a.granted /\ UsesOneTime(s, i.verb)) => Len(a.state.grants) = Len(s.grants)
    BY <2>10, <2>11
  <2>13. QED
    BY <2>9, <2>12 DEF a
<1>3. CASE g # "policy"
  <2>1. \/ a.state = s
        \/ \E f, labels : a.state = AttachLineageLabelsToPath(s, f, labels)
        \/ \E r : a.state = MarkPendingReuse(s, r)
        \/ \E m : a.state = BumpMCPOnboardingCall(s, m)
    BY <1>1, <1>3, Zenon DEF StateAfter
  <2>2. Kept(s, a.state) /\ a.state.grants = s.grants
    <3>1. /\ Kept(s, s)
          /\ \A f, labels : /\ Kept(s, AttachLineageLabelsToPath(s, f, labels))
                            /\ AttachLineageLabelsToPath(s, f, labels).grants = s.grants
          /\ \A r : Kept(s, MarkPendingReuse(s, r)) /\ MarkPendingReuse(s, r).grants = s.grants
          /\ \A m : Kept(s, BumpMCPOnboardingCall(s, m)) /\ BumpMCPOnboardingCall(s, m).grants = s.grants
      BY MarksKeep, KeptItself, Zenon
    <3>2. QED
      BY <2>1, <3>1
  <2>3. ~a.granted
    BY <1>1, <1>3
  <2>4. QED
    BY <2>2, <2>3 DEF a
<1>4. QED
  BY <1>2, <1>3

\* A judgement keeps the session, but for the grants it relies on; and only
\* gates that save the session rely on any.
LEMMA JudgeKeeps ==
    ASSUME NEW p, NEW s, NEW i, NEW alerted, Formed(s)
    PROVE  LET a == Judge(p, s, i, alerted) IN
           /\ a = AnswerOf(a.gate, p, Reaching(a.gate, p, s, i), i, alerted)
           /\ a.gate = FiringGate(p, s, i, alerted)
           /\ Kept(s, a.state)
           /\ GrantsRelied(p, s, i, a) \in Nat
           /\ Len(a.state.grants) = Len(s.grants) - GrantsRelied(p, s, i, a)
           /\ a.gate \notin SavingGates => GrantsRelied(p, s, i, a) = 0
<1> DEFINE g == FiringGate(p, s, i, alerted)
           t == Reaching(g, p, s, i)
           a == AnswerOf(g, p, t, i, alerted)
           policyGrant == a.granted /\ UsesOneTime(t, i.verb)
           scopeGrant == UsesScope(g, p, s, i) /\ UsesOneTime(s, "mcp_scope")
<1>1. Judge(p, s, i, alerted) = a
  BY DEF Judge
<1> HIDE DEF g
<1>2. a.gate = g
  BY DEF AnswerOf
<1>3. /\ Kept(s, t) /\ Formed(t)
      /\ scopeGrant => Len(t.grants) = Len(s.grants) - 1
      /\ ~scopeGrant => Len(t.grants) = Len(s.grants)
  BY ReachingKeeps, KeptIsFormed
<1>4. /\ Kept(t, a.state)
      /\ policyGrant => Len(a.state.grants) = Len(t.grants) - 1
      /\ ~policyGrant => Len(a.state.grants) = Len(t.grants)
  <2> HIDE DEF t
  <2>1. Formed(t)
    BY <1>3
  <2>2. QED
    BY <2>1, AnswerKeeps
<1>5. GrantsRelied(p, s, i, a) = (IF policyGrant THEN 1 ELSE 0) + (IF scopeGrant THEN 1 ELSE 0)
  BY <1>2, Zenon DEF GrantsRelied
<1>6. g \notin SavingGates => ~policyGrant /\ ~scopeGrant
  <2>1. {"policy"} \cup GatesAfterScope \subseteq SavingGates
    BY GateOrder DEF GatesAfterScope, SavingGates, GateNames
  <2>2. a.granted => g = "policy"
    BY DEF AnswerOf
  <2>3. UsesScope(g, p, s, i) => g \in GatesAfterScope
    BY DEF UsesScope
  <2>4. QED
    BY <2>1, <2>2, <2>3
<1> HIDE DEF t, a, policyGrant, scopeGrant
<1>7. Kept(s, a.state)
  BY <1>3, <1>4, KeptThrough
<1>8. Len(s.grants) \in Nat
  BY DEF Formed
<1>9. /\ GrantsRelied(p, s, i, a) \in Nat
      /\ Len(a.state.grants) = Len(s.grants) - GrantsRelied(p, s, i, a)
      /\ g \notin SavingGates => GrantsRelied(p, s, i, a) = 0
  <2>1. CASE policyGrant /\ scopeGrant
    BY <1>3, <1>4, <1>5, <1>6, <1>8, <2>1
  <2>2. CASE policyGrant /\ ~scopeGrant
    BY <1>3, <1>4, <1>5, <1>6, <1>8, <2>2
  <2>3. CASE ~policyGrant /\ scopeGrant
    BY <1>3, <1>4, <1>5, <1>6, <1>8, <2>3
  <2>4. CASE ~policyGrant /\ ~scopeGrant
    BY <1>3, <1>4, <1>5, <1>6, <1>8, <2>4
  <2>5. QED
    BY <2>1, <2>2, <2>3, <2>4
<1>10. a = AnswerOf(a.gate, p, Reaching(a.gate, p, s, i), i, alerted)
  BY <1>2 DEF a, t
<1>11. QED
  BY <1>1, <1>2, <1>7, <1>9, <1>10 DEF g

-----------------------------------------------------------------------------
(***************************************************************************)
(* The verdict of a gate on the wire and in the ledger.                    *)
(***************************************************************************)
\* A gate that denies as a floor denies on the wire, whatever the mode.
LEMMA FloorGateDenies ==
    ASSUME NEW g \in {"deny_all", "leak", "dns_tunnel", "sir_state", "mcp_credential"},
           NEW p, NEW s, NEW i, NEW alerted
    PROVE  Wire(p, AnswerOf(g, p, s, i, alerted)) = "deny"
BY DEF AnswerOf, Wire, applyObserveMode, applyThinkingGuard, DenyingGates, FloorGates, WarningGates

\* No gate but the oracle allows anything, and the question about sir's own
\* commands stays one in observe mode.
LEMMA EarlyGateHolds ==
    ASSUME NEW g, NEW p, NEW s, NEW i, NEW alerted,
           g # "policy", g = "sir_self" \/ ~p.observe
    PROVE  /\ Wire(p, AnswerOf(g, p, s, i, alerted)) # "allow"
           /\ g \in DenyingGates => Wire(p, AnswerOf(g, p, s, i, alerted)) = "deny"
BY DEF AnswerOf, Wire, applyObserveMode, applyThinkingGuard, DenyingGates, FloorGates, WarningGates,
   overlayPendingInjectionWarning

\* A deny in the ledger that is not marked as hypothetical was enforced, but
\* for the scope gate's in observe mode.
LEMMA LedgerMatchesWire ==
    ASSUME NEW g, NEW p, NEW s, NEW i, NEW alerted,
           Recorded(p, AnswerOf(g, p, s, i, alerted)) = <<"did", "deny">>,
           ~p.observe \/ g # "mcp_scope"
    PROVE  Wire(p, AnswerOf(g, p, s, i, alerted)) = "deny"
<1> DEFINE a == AnswerOf(g, p, s, i, alerted)
<1>1. a.gate = g /\ (a.verdict = a.logged \/ (a.logged = "allow" /\ a.verdict = "ask"))
  BY DEF AnswerOf, overlayPendingInjectionWarning
<1> HIDE DEF a
<1>2. applyThinkingGuard(p, a.logged) = "deny" /\ (p.observe => a.floor)
  BY <1>1 DEF Recorded, a
<1>3. a.verdict = a.logged
  BY <1>1, <1>2 DEF applyThinkingGuard
<1>4. QED
  BY <1>2, <1>3 DEF Wire, applyObserveMode, a

\* What the policy gate answers is the verdict of the oracle or the provider,
\* unless a convenience rule settled an ask of the oracle's.
LEMMA PolicyAnswer ==
    ASSUME NEW p, NEW s, NEW i, NEW alerted
    PROVE  LET a == AnswerOf("policy", p, s, i, alerted)
               v == evaluatePolicy(p, s, i) IN
           /\ v = "deny" /\ (isSecretExfilFloor(s, i) \/ ~p.observe) => Wire(p, a) = "deny"
           /\ v = "ask" /\ AuthoritativeActive(p) => Wire(p, a) # "allow"
           /\ v \in Verdicts /\ alerted /\ ~p.observe => Wire(p, a) # "allow"
           /\ /\ v \in {"ask", "deny"} /\ ~a.granted /\ ~p.observe
              /\ \/ ~autoLeaseSafeContext(s)
                 \/ i.verb \in {"commit", "stage_write"}
                 \/ i.verb = "net_allowlisted" /\ ~p.silentHosts
                 \/ i.verb = "push_origin" /\ ~p.reuse
              => Wire(p, a) # "allow"
<1> DEFINE settled == Settle(p, s, i)
           v == evaluatePolicy(p, s, i)
           a == AnswerOf("policy", p, s, i, alerted)
<1>1. /\ a.verdict = overlayPendingInjectionWarning(settled.verdict, alerted)
      /\ a.floor <=> (AuthoritativeActive(p) \/ (settled.verdict = "deny" /\ isSecretExfilFloor(s, i)))
      /\ a.granted <=> settled.granted
  BY DEF AnswerOf, FloorGates, WarningGates
<1>2. settled.verdict \in {v, "allow"}
  BY DEF Settle
<1>3. v # "ask" \/ AuthoritativeActive(p) => settled.verdict = v
  BY DEF Settle
<1>4. /\ ~settled.granted
      /\ \/ ~autoLeaseSafeContext(s)
         \/ i.verb \in {"commit", "stage_write"}
         \/ i.verb = "net_allowlisted" /\ ~p.silentHosts
         \/ i.verb = "push_origin" /\ ~p.reuse
      => settled.verdict = v
  BY DEF Settle, ReuseVerbs, PushVerbs
<1> HIDE DEF settled, v, a
<1>5. v = "deny" /\ (isSecretExfilFloor(s, i) \/ ~p.observe) => Wire(p, a) = "deny"
  BY <1>1, <1>3 DEF Wire, applyObserveMode, applyThinkingGuard, overlayPendingInjectionWarning
<1>6. v = "ask" /\ AuthoritativeActive(p) => Wire(p, a) # "allow"
  BY <1>1, <1>3 DEF Wire, applyObserveMode, applyThinkingGuard, overlayPendingInjectionWarning
<1>7. v \in Verdicts /\ alerted /\ ~p.observe => Wire(p, a) # "allow"
  BY <1>1, <1>2 DEF Wire, applyObserveMode, applyThinkingGuard, overlayPendingInjectionWarning, Verdicts
<1>8. v \in {"ask", "deny"} /\ settled.verdict = v /\ ~p.observe => Wire(p, a) # "allow"
  BY <1>1 DEF Wire, applyObserveMode, applyThinkingGuard, overlayPendingInjectionWarning
<1>9. QED
  BY <1>1, <1>4, <1>5, <1>6, <1>7, <1>8 DEF settled, v, a

-----------------------------------------------------------------------------
(***************************************************************************)
(* Which gate answers.                                                     *)
(***************************************************************************)
\* A verb that changes on the way, because of a lease, changes into one that
\* no other gate looks at; the rest of a call is as the agent made it.
LEMMA MappedIntent ==
    ASSUME NEW n \in DOMAIN Scenarios, NEW raw \in Scenarios[n].intents
    PROVE  LET i == MapToolToIntent(raw) IN
           /\ i.tool = raw.tool /\ i.file = raw.file /\ i.server = raw.server
           /\ i.verbatim = raw.verbatim /\ i.shape = raw.shape
           /\ \/ i.verb = raw.verb
              \/ raw.verb = "net_external" /\ i.verb = "net_allowlisted"
              \/ raw.verb = "mcp_network_unapproved" /\ i.verb = "execute_dry_run"
           /\ i.shape = "opaque" => i.verb \in CodingVerbs \ {"stage_write", "commit"}
           /\ i.shape = "git_config" => i.verb \in CodingVerbs \ {"stage_write"}
           /\ i.tool \in {"Agent", "Subagent"} => i.verb = "delegate" /\ i.shape = "plain"
<1>1. DOMAIN raw = {"tool", "verb", "file", "server", "verbatim", "shape"}
  BY IntentAssumption
<1>2. /\ raw.shape = "opaque" => raw.verb \in CodingVerbs \ {"stage_write", "commit"}
      /\ raw.shape = "git_config" => raw.verb \in CodingVerbs \ {"stage_write"}
      /\ raw.tool \in {"Agent", "Subagent"} => raw.verb = "delegate" /\ raw.shape = "plain"
  BY IntentAssumption
<1>3. QED
  BY <1>1, <1>2 DEF MapToolToIntent, CodingVerbs

\* sir's own floors come before everything that asks, but for opaque commands.
LEMMA FloorsFirst ==
    ASSUME NEW p, NEW s, NEW i, NEW alerted
    PROVE  LET g == FiringGate(p, s, i, alerted) IN
           /\ s.denyAll => g = "deny_all"
           /\ i.shape # "opaque" =>
                /\ outboundSecretLeak(s, i) => g \in {"deny_all", "leak"}
                /\ i.shape = "tunnel" => g \in {"deny_all", "leak", "dns_tunnel"}
                /\ i.shape = "own_state" => g \in {"deny_all", "leak", "dns_tunnel", "sir_state"}
                /\ i.verb = "sir_self" => g \in {"deny_all", "leak", "dns_tunnel", "sir_state", "sir_self"}
<1> DEFINE g == FiringGate(p, s, i, alerted)
           fires == Fires(p, s, i, alerted)
<1>1. /\ fires["deny_all"] <=> s.denyAll
      /\ fires["opaque"] <=> i.shape = "opaque"
      /\ fires["leak"] <=> outboundSecretLeak(s, i)
      /\ fires["dns_tunnel"] <=> i.shape = "tunnel"
      /\ fires["sir_state"] <=> i.shape = "own_state"
      /\ fires["sir_self"] <=> i.verb = "sir_self"
  BY DEF Fires
<1> HIDE DEF g, fires
<1>2. ASSUME NEW j \in 1..18, fires[Gates[j]]
      PROVE  \E k \in 1..j : g = Gates[k] /\ fires[Gates[k]]
  BY <1>2, FirstGate DEF g, fires
<1>3. s.denyAll => g = "deny_all"
  <2>1. s.denyAll => \E k \in 1..1 : g = Gates[k]
    BY <1>1, <1>2, GateOrder
  <2>2. QED
    BY <2>1, GateOrder
<1>4. i.shape # "opaque" /\ outboundSecretLeak(s, i) => g \in {"deny_all", "leak"}
  <2>1. outboundSecretLeak(s, i) => \E k \in 1..3 : g = Gates[k] /\ fires[Gates[k]]
    BY <1>1, <1>2, GateOrder
  <2>2. QED
    BY <1>1, <2>1, GateOrder
<1>5. i.shape # "opaque" /\ i.shape = "tunnel" => g \in {"deny_all", "leak", "dns_tunnel"}
  <2>1. i.shape = "tunnel" => \E k \in 1..4 : g = Gates[k] /\ fires[Gates[k]]
    BY <1>1, <1>2, GateOrder
  <2>2. QED
    BY <1>1, <2>1, GateOrder
<1>6. i.shape # "opaque" /\ i.shape = "own_state" => g \in {"deny_all", "leak", "dns_tunnel", "sir_state"}
  <2>1. i.shape = "own_state" => \E k \in 1..5 : g = Gates[k] /\ fires[Gates[k]]
    BY <1>1, <1>2, GateOrder
  <2>2. QED
    BY <1>1, <2>1, GateOrder
<1>7. i.shape # "opaque" /\ i.verb = "sir_self"
        => g \in {"deny_all", "leak", "dns_tunnel", "sir_state", "sir_self"}
  <2>1. i.verb = "sir_self" => \E k \in 1..6 : g = Gates[k] /\ fires[Gates[k]]
    BY <1>1, <1>2, GateOrder
  <2>2. QED
    BY <1>1, <2>1, GateOrder
<1>8. QED
  BY <1>3, <1>4, <1>5, <1>6, <1>7 DEF g

\* A call that sends data somewhere unapproved, and does nothing else that a
\* gate asks about, is judged by a floor or by the policy.
LEMMA SendingGate ==
    ASSUME NEW p, NEW s, NEW i, NEW alerted,
           i.verb \in EgressVerbs, i.shape \notin {"opaque", "git_config", "install_new"}, i.tool # "mcp"
    PROVE  FiringGate(p, s, i, alerted) \in {"deny_all", "leak", "dns_tunnel", "sir_state", "policy"}
<1> DEFINE g == FiringGate(p, s, i, alerted)
           fires == Fires(p, s, i, alerted)
<1>1. g \in GateNames /\ fires[g]
  BY SomeGate
<1>2. /\ ~fires["opaque"] /\ ~fires["sir_self"] /\ ~fires["git_config"] /\ ~fires["raw_read"]
      /\ ~fires["mcp_credential"] /\ ~fires["mcp_scope"] /\ ~fires["tainted_server"]
      /\ ~fires["delegation_deny"] /\ ~fires["delegation_ask"] /\ ~fires["tainted_input"]
      /\ ~fires["mcp_drift"] /\ ~fires["mcp_onboarding"] /\ ~fires["install"]
  BY DEF Fires, EgressVerbs, evaluateRawSecretReadGate, IsSensitive, OffScope, evaluateDelegationHardDeny,
     evaluateMCPBinaryDrift, evaluateMCPOnboarding, SilentMCP
<1> HIDE DEF g, fires
<1>3. g \in {"deny_all", "leak", "dns_tunnel", "sir_state", "policy"}
  BY <1>1, <1>2 DEF GateNames
<1>4. QED
  BY <1>3 DEF g

\* A delegation in a secret session is judged by a gate that denies.
LEMMA DelegatingGate ==
    ASSUME NEW p, NEW s, NEW i, NEW alerted,
           i.verb = "delegate", i.shape = "plain", i.tool = "Agent", s.secret
    PROVE  FiringGate(p, s, i, alerted) \in {"deny_all", "delegation_deny"}
<1> DEFINE g == FiringGate(p, s, i, alerted)
           fires == Fires(p, s, i, alerted)
<1>1. fires["delegation_deny"]
  BY DEF Fires, evaluateDelegationHardDeny
<1>2. PICK k \in 1..12 : g = Gates[k] /\ fires[Gates[k]]
  <2>1. fires[Gates[12]]
    BY <1>1, GateOrder
  <2>2. QED
    BY <2>1, FirstGate
<1>3. /\ ~fires["opaque"] /\ ~fires["leak"] /\ ~fires["dns_tunnel"] /\ ~fires["sir_state"]
      /\ ~fires["sir_self"] /\ ~fires["git_config"] /\ ~fires["raw_read"]
      /\ ~fires["mcp_credential"] /\ ~fires["mcp_scope"] /\ ~fires["tainted_server"]
  BY DEF Fires, outboundSecretLeak, OutboundVerbs, evaluateRawSecretReadGate, IsSensitive, OffScope
<1> HIDE DEF g, fires
<1>4. k \in {1, 2, 3, 4, 5, 6, 7, 8, 9, 10, 11, 12}
  OBVIOUS
<1>5. g \in {"deny_all", "delegation_deny"}
  BY <1>2, <1>3, <1>4, GateOrder
<1>6. QED
  BY <1>5 DEF g

-----------------------------------------------------------------------------
(***************************************************************************)
(* The inductive invariant.                                                *)
(***************************************************************************)
HasSecret(labels) == \E x \in labels : x.sensitivity = "secret"

\* What really happened is known to the session: a secret that came in, the
\* files that secrets went to, foreign content, a deny that was ignored; and
\* grants are given before they are used.
Agree(s, h) ==
    /\ DOMAIN h = {"exposed", "fingerprinted", "ingested", "owed", "dirty", "consent",
                   "ranDenied", "given", "used"}
    /\ h.exposed => s.secret /\ HasSecret(s.evidence)
    /\ h.fingerprinted => s.fingerprints
    /\ h.ingested => s.untrustedTurn
    /\ \A f \in h.dirty : f \in Files /\ HasSecret(s.lineage[f])
    /\ h.ranDenied => s.denyAll
    /\ h.given \in Nat /\ h.used \in Nat /\ h.used + Len(s.grants) <= h.given

JudgedFields == {"stage", "intent", "verb", "wire", "gate", "recorded", "facts", "granted"}

\* What the properties say of one judged call.
FloorHeld(p, r) ==
    /\ r.gate = "policy" /\ p.provider \in {"ask", "failing"} => r.wire # "allow"
    /\ r.verb = "sir_self" => r.wire # "allow"
    /\ r.intent.shape \in {"own_state", "tunnel"} => r.wire = "deny"
    /\ "fingerprinted" \in r.facts /\ r.intent.verbatim /\ r.verb \in OutboundVerbs => r.wire = "deny"
    /\ "ranDenied" \in r.facts => r.wire = "deny"
    /\ r.recorded = <<"did", "deny">> /\ (~p.observe \/ r.gate # "mcp_scope") => r.wire = "deny"

SecretHeld(p, r) ==
    p.provider = "none" /\ "exposed" \in r.facts =>
        /\ r.verb \in EgressVerbs => r.wire = "deny"
        /\ ~p.observe /\ r.intent.tool \in {"Agent", "Subagent"} => r.wire = "deny"

DerivedHeld(p, r) ==
    p.provider = "none" /\ ~p.observe /\ "dirty" \in r.facts =>
        /\ r.verb \in EgressVerbs => r.wire = "deny"
        /\ /\ r.verb \in {"commit", "push_origin", "net_allowlisted", "stage_write"} \ Spared(p)
           /\ ~r.granted
           => r.wire # "allow"

ForeignHeld(p, r) ==
    p.provider = "none" /\ ~p.observe =>
        /\ "ingested" \in r.facts =>
              /\ r.verb \in EgressVerbs => r.wire = "deny"
              /\ r.verb = "push_origin" /\ ~r.granted => r.wire # "allow"
        /\ "alert" \in r.facts /\ r.intent.tool # "Subagent" => r.wire # "allow"
        /\ /\ r.facts \cap {"exposed", "ingested"} # {}
           /\ ~r.granted
           /\ r.verb \in {"run_ephemeral", "push_remote", "env_read", "mcp_network_unapproved"}
           => r.wire # "allow"

Upheld(p, r) ==
    /\ DOMAIN r = JudgedFields
    /\ FloorHeld(p, r)
    /\ SendsAlone => SecretHeld(p, r) /\ DerivedHeld(p, r) /\ ForeignHeld(p, r)

\* The id of a denied call is in the ring, unless the ring is full.
Remembered(s, c) == c \in Range(s.denied) \/ Len(s.denied) = MaxDenied

GateInv ==
    /\ scenario \in DOMAIN Scenarios /\ profile \in Scenarios[scenario].profiles
    /\ Formed(session) /\ Agree(session, seen)
    /\ session.denied \in Seq(CallIds) /\ Len(session.denied) <= MaxDenied
    /\ DOMAIN calls = CallIds
    /\ \A c \in CallIds :
          \/ calls[c] = New \/ calls[c] = Done
          \/ /\ Upheld(profile, calls[c])
             /\ calls[c].intent \in Scenarios[scenario].intents
             /\ calls[c].wire = "deny" /\ calls[c].intent.tool # "Subagent" => Remembered(session, c)

-----------------------------------------------------------------------------
(***************************************************************************)
(* PreToolUse judges as the properties say.                                *)
(***************************************************************************)
\* The call of n that PreToolUse judges with a session t and a history h that
\* agree.
LEMMA JudgedUpheld ==
    ASSUME NEW n \in DOMAIN Scenarios, NEW p \in Scenarios[n].profiles,
           NEW raw \in Scenarios[n].intents, raw.tool # "Subagent",
           NEW t, Formed(t), NEW h, Agree(t, h)
    PROVE  LET i == MapToolToIntent(raw)
               alerted == t.alert /\ ~t.denyAll
               s == [t EXCEPT !.alert = @ /\ ~alerted]
               a == Judge(p, s, i, alerted)
           IN  Upheld(p, Judged(StageOf(Wire(p, a)), raw, i.verb, Wire(p, a), a.gate, Recorded(p, a),
                                Facts(h, t, i), a.granted))
<1> DEFINE i == MapToolToIntent(raw)
           alerted == t.alert /\ ~t.denyAll
           s == [t EXCEPT !.alert = @ /\ ~alerted]
           g == FiringGate(p, s, i, alerted)
           u == Reaching(g, p, s, i)
           a == AnswerOf(g, p, u, i, alerted)
           wire == Wire(p, a)
           facts == Facts(h, t, i)
           r == Judged(StageOf(wire), raw, i.verb, wire, g, Recorded(p, a), facts, a.granted)
\* The session that reaches the gate still knows what t knew.
<1>1. /\ i.tool = raw.tool /\ i.file = raw.file /\ i.verbatim = raw.verbatim /\ i.shape = raw.shape
      /\ \/ i.verb = raw.verb
         \/ raw.verb = "net_external" /\ i.verb = "net_allowlisted"
         \/ raw.verb = "mcp_network_unapproved" /\ i.verb = "execute_dry_run"
      /\ i.shape = "opaque" => i.verb \in CodingVerbs \ {"stage_write", "commit"}
      /\ i.shape = "git_config" => i.verb \in CodingVerbs \ {"stage_write"}
      /\ i.tool \in {"Agent", "Subagent"} => i.verb = "delegate" /\ i.shape = "plain"
  BY MappedIntent
<1>2. /\ Formed(s) /\ s.denyAll = t.denyAll /\ s.secret = t.secret
      /\ s.fingerprints = t.fingerprints /\ s.untrustedTurn = t.untrustedTurn
      /\ s.lineage = t.lineage
  BY DEF Formed, Fields
<1>3. /\ "exposed" \in facts => s.secret
      /\ "fingerprinted" \in facts => s.fingerprints
      /\ "ingested" \in facts => s.untrustedTurn
      /\ "dirty" \in facts => i.file \in Files /\ HasSecret(s.lineage[i.file])
      /\ "ranDenied" \in facts => s.denyAll
      /\ "alert" \in facts => t.alert
  BY <1>2 DEF Agree, Facts
<1>4. Judge(p, s, i, alerted) = a /\ a.gate = g /\ g \in GateNames
  BY SomeGate DEF Judge, AnswerOf
<1> HIDE DEF i, s, g, facts
<1>5. /\ s.secret => u.secret
      /\ s.untrustedTurn => u.untrustedTurn
      /\ i.file \in Files => s.lineage[i.file] \subseteq u.lineage[i.file]
  BY <1>2, ReachingKeeps DEF Kept
<1>6. /\ s.denyAll => g = "deny_all"
      /\ i.shape # "opaque" =>
           /\ outboundSecretLeak(s, i) => g \in {"deny_all", "leak"}
           /\ i.shape = "tunnel" => g \in {"deny_all", "leak", "dns_tunnel"}
           /\ i.shape = "own_state" => g \in {"deny_all", "leak", "dns_tunnel", "sir_state"}
           /\ i.verb = "sir_self" => g \in {"deny_all", "leak", "dns_tunnel", "sir_state", "sir_self"}
  BY FloorsFirst DEF g
<1> HIDE DEF u
<1>7. g \in {"deny_all", "leak", "dns_tunnel", "sir_state", "mcp_credential"} => wire = "deny"
  BY FloorGateDenies
<1>8. /\ g = "sir_self" => wire # "allow"
      /\ g # "policy" /\ ~p.observe => wire # "allow"
      /\ g = "delegation_deny" /\ ~p.observe => wire = "deny"
  BY EarlyGateHolds DEF DenyingGates
<1>9. Recorded(p, a) = <<"did", "deny">> /\ (~p.observe \/ g # "mcp_scope") => wire = "deny"
  BY LedgerMatchesWire
<1>10. g = "policy" =>
         LET v == evaluatePolicy(p, u, i) IN
         /\ v = "deny" /\ (isSecretExfilFloor(u, i) \/ ~p.observe) => wire = "deny"
         /\ v = "ask" /\ AuthoritativeActive(p) => wire # "allow"
         /\ v \in Verdicts /\ alerted /\ ~p.observe => wire # "allow"
         /\ /\ v \in {"ask", "deny"} /\ ~a.granted /\ ~p.observe
            /\ \/ ~autoLeaseSafeContext(u)
               \/ i.verb \in {"commit", "stage_write"}
               \/ i.verb = "net_allowlisted" /\ ~p.silentHosts
               \/ i.verb = "push_origin" /\ ~p.reuse
            => wire # "allow"
  BY PolicyAnswer
<1>11. /\ DOMAIN r = JudgedFields /\ r.intent = raw /\ r.verb = i.verb /\ r.wire = wire /\ r.gate = g
       /\ r.recorded = Recorded(p, a) /\ r.facts = facts /\ r.granted = a.granted
  BY DEF Judged, JudgedFields
<1> DEFINE granted == a.granted
<1> HIDE DEF wire, a, r, alerted
<1>12. FloorHeld(p, r)
  <2>1. g = "policy" /\ p.provider \in {"ask", "failing"} => wire # "allow"
    BY <1>10 DEF evaluatePolicy, AuthoritativeActive
  <2>2. i.verb = "sir_self" => wire # "allow"
    BY <1>1, <1>6, <1>7, <1>8 DEF CodingVerbs
  <2>3. raw.shape \in {"own_state", "tunnel"} => wire = "deny"
    BY <1>1, <1>6, <1>7
  <2>4. "fingerprinted" \in facts /\ raw.verbatim /\ i.verb \in OutboundVerbs => wire = "deny"
    BY <1>1, <1>3, <1>6, <1>7 DEF outboundSecretLeak, OutboundVerbs, CodingVerbs
  <2>5. "ranDenied" \in facts => wire = "deny"
    BY <1>3, <1>6, <1>7
  <2>6. QED
    BY <1>9, <1>11, <2>1, <2>2, <2>3, <2>4, <2>5 DEF FloorHeld
<1> DEFINE q == buildCoreRequest(u, i)
<1>13. /\ q.verb = i.verb /\ (q.secret <=> u.secret) /\ (u.untrustedTurn => Untrusted(q))
       /\ p.provider = "none" => evaluatePolicy(p, u, i) = evaluate(q, p.lease)
  BY DEF buildCoreRequest, Untrusted, evaluatePolicy
<1>14. "dirty" \in facts /\ i.verb \in {"stage_write", "commit", "net_allowlisted"} \cup PushVerbs \cup EgressVerbs
         => HasDerivedSecret(q)
  BY <1>3, <1>5 DEF buildCoreRequest, derivedLabelsForIntent, HasDerivedSecret, HasSecret
<1> HIDE DEF q
<1>15. ASSUME SendsAlone, i.verb \in EgressVerbs
       PROVE  g \in {"deny_all", "leak", "dns_tunnel", "sir_state", "policy"}
  <2>1. raw.verb = i.verb
    BY <1>1, <1>15 DEF EgressVerbs
  <2>2. i.tool # "mcp" /\ i.shape # "install_new"
    BY <1>1, <1>15, <2>1 DEF SendsAlone
  <2>3. i.shape \notin {"opaque", "git_config"}
    BY <1>1, <1>15 DEF EgressVerbs, CodingVerbs
  <2>4. QED
    BY <1>15, <2>2, <2>3, SendingGate DEF g
<1>16. SendsAlone => SecretHeld(p, r)
  <2>1. ASSUME SendsAlone, p.provider = "none", "exposed" \in facts, i.verb \in EgressVerbs
        PROVE  wire = "deny"
    <3>1. q.secret /\ u.secret
      BY <1>3, <1>5, <1>13, <2>1
    <3>2. evaluatePolicy(p, u, i) = "deny"
      BY <1>13, <2>1, <3>1, OracleKeepsSecrets
    <3>3. isSecretExfilFloor(u, i)
      BY <2>1, <3>1 DEF isSecretExfilFloor
    <3>4. QED
      BY <1>7, <1>10, <1>15, <2>1, <3>2, <3>3
  <2>2. ASSUME "exposed" \in facts, ~p.observe, raw.tool = "Agent"
        PROVE  wire = "deny"
    <3>1. g \in {"deny_all", "delegation_deny"}
      BY <1>1, <1>3, <2>2, DelegatingGate DEF g
    <3>2. QED
      BY <1>7, <1>8, <2>2, <3>1
  <2>3. QED
    BY <1>11, <2>1, <2>2 DEF SecretHeld
<1>17. SendsAlone => DerivedHeld(p, r)
  <2>1. ASSUME SendsAlone, p.provider = "none", ~p.observe, "dirty" \in facts, i.verb \in EgressVerbs
        PROVE  wire = "deny"
    <3>1. evaluatePolicy(p, u, i) = "deny"
      BY <1>13, <1>14, <2>1, OracleKeepsSecrets
    <3>2. QED
      BY <1>7, <1>10, <1>15, <2>1, <3>1
  <2>2. ASSUME p.provider = "none", ~p.observe, "dirty" \in facts, ~granted,
               i.verb \in {"commit", "push_origin", "net_allowlisted", "stage_write"} \ Spared(p)
        PROVE  wire # "allow"
    <3>1. HasDerivedSecret(q)
      BY <1>14, <2>2 DEF PushVerbs
    <3>2. evaluatePolicy(p, u, i) \in {"ask", "deny"}
      BY <1>13, <2>2, <3>1, OracleAsks
    <3>3. \/ i.verb \in {"commit", "stage_write"}
          \/ i.verb = "net_allowlisted" /\ ~p.silentHosts
          \/ i.verb = "push_origin" /\ ~p.reuse
      BY <2>2 DEF Spared
    <3>4. QED
      BY <1>8, <1>10, <2>2, <3>2, <3>3
  <2>3. QED
    BY <1>11, <2>1, <2>2 DEF DerivedHeld
<1>18. SendsAlone => ForeignHeld(p, r)
  <2>1. ASSUME SendsAlone, p.provider = "none", ~p.observe, "ingested" \in facts, i.verb \in EgressVerbs
        PROVE  wire = "deny"
    <3>1. evaluatePolicy(p, u, i) = "deny"
      BY <1>3, <1>5, <1>13, <2>1, OracleKeepsForeign
    <3>2. QED
      BY <1>7, <1>10, <1>15, <2>1, <3>1
  <2>2. facts \cap {"exposed", "ingested"} # {} => ~autoLeaseSafeContext(u)
    BY <1>3, <1>5 DEF autoLeaseSafeContext
  <2>3. ASSUME p.provider = "none", ~p.observe, "ingested" \in facts, i.verb = "push_origin", ~granted
        PROVE  wire # "allow"
    <3>1. evaluatePolicy(p, u, i) \in {"ask", "deny"}
      BY <1>3, <1>5, <1>13, <2>3, OracleAsks
    <3>2. QED
      BY <1>8, <1>10, <2>2, <2>3, <3>1
  <2>4. ASSUME p.provider = "none", ~p.observe, "alert" \in facts
        PROVE  wire # "allow"
    <3>1. CASE t.denyAll
      BY <1>2, <1>6, <1>7, <3>1
    <3>2. CASE ~t.denyAll
      <4>1. alerted
        BY <1>3, <2>4, <3>2 DEF alerted
      <4>2. evaluatePolicy(p, u, i) \in Verdicts
        BY <1>13, <2>4, OracleDecides
      <4>3. QED
        BY <1>8, <1>10, <2>4, <4>1, <4>2
    <3>3. QED
      BY <3>1, <3>2
  <2>5. ASSUME SendsAlone, p.provider = "none", ~p.observe, ~granted,
               facts \cap {"exposed", "ingested"} # {},
               i.verb \in {"run_ephemeral", "push_remote", "env_read", "mcp_network_unapproved"}
        PROVE  wire # "allow"
    <3>1. CASE i.verb = "push_remote"
      <4>1. wire = "deny"
        <5>1. CASE "exposed" \in facts
          <6>1. evaluatePolicy(p, u, i) = "deny"
            BY <1>3, <1>5, <1>13, <2>5, <3>1, <5>1, OracleKeepsSecrets DEF EgressVerbs
          <6>2. QED
            BY <1>7, <1>10, <1>15, <2>5, <3>1, <6>1 DEF EgressVerbs
        <5>2. CASE "ingested" \in facts
          BY <2>1, <2>5, <3>1, <5>2 DEF EgressVerbs
        <5>3. QED
          BY <2>5, <5>1, <5>2
      <4>2. QED
        BY <4>1
    <3>2. CASE i.verb # "push_remote"
      <4>1. "run_ephemeral" \notin p.lease.allowed
        BY <2>5 DEF SendsAlone
      <4>2. evaluatePolicy(p, u, i) \in {"ask", "deny"}
        BY <1>13, <2>5, <3>2, <4>1, OracleAsks
      <4>3. QED
        BY <1>8, <1>10, <2>2, <2>5, <4>2
    <3>3. QED
      BY <3>1, <3>2
  <2>6. QED
    BY <1>11, <2>1, <2>3, <2>4, <2>5 DEF ForeignHeld
<1>19. Upheld(p, r)
  BY <1>11, <1>12, <1>16, <1>17, <1>18 DEF Upheld
<1>20. QED
  BY <1>4, <1>19 DEF r, wire, a, u, g, facts, s, alerted, i

-----------------------------------------------------------------------------
(***************************************************************************)
(* PostToolUse takes in what happened.                                     *)
(***************************************************************************)
\* Marks that PostToolUse leaves, and the ones it takes away.
LEMMA NotesKeep ==
    ASSUME NEW s, Formed(s)
    PROVE  /\ \A x : Kept(s, RecordLineageEvidence(s, x)) /\ RecordLineageEvidence(s, x).grants = s.grants
           /\ \A m : Kept(s, AddTaintedMCPServer(s, m)) /\ AddTaintedMCPServer(s, m).grants = s.grants
           /\ \A m : /\ Kept(s, AcknowledgeTaintedMCPServer(s, m))
                     /\ AcknowledgeTaintedMCPServer(s, m).grants = s.grants
           /\ \A l : Kept(s, RaisePosture(s, l)) /\ RaisePosture(s, l).grants = s.grants
           /\ Kept(s, [s EXCEPT !.alert = TRUE]) /\ [s EXCEPT !.alert = TRUE].grants = s.grants
           /\ Kept(s, ClearPendingInstall(s)) /\ ClearPendingInstall(s).grants = s.grants
           /\ Kept(s, ConsumePendingAutoLease(s)) /\ ConsumePendingAutoLease(s).grants = s.grants
           /\ \A r : Kept(s, PromotePendingReuse(s, r)) /\ PromotePendingReuse(s, r).grants = s.grants
           /\ Kept(s, [s EXCEPT !.fingerprints = TRUE]) /\ [s EXCEPT !.fingerprints = TRUE].grants = s.grants
           /\ Kept(s, [s EXCEPT !.untrustedTurn = TRUE]) /\ [s EXCEPT !.untrustedTurn = TRUE].grants = s.grants
           /\ \A f : Kept(s, AttachActiveEvidenceToPath(s, f)) /\ AttachActiveEvidenceToPath(s, f).grants = s.grants
<1> USE DEF Kept, Formed, Fields
<1>1. \A x : Kept(s, RecordLineageEvidence(s, x)) /\ RecordLineageEvidence(s, x).grants = s.grants
  BY DEF RecordLineageEvidence
<1>2. \A m : Kept(s, AddTaintedMCPServer(s, m)) /\ AddTaintedMCPServer(s, m).grants = s.grants
  BY DEF AddTaintedMCPServer
<1>3. \A m : /\ Kept(s, AcknowledgeTaintedMCPServer(s, m))
             /\ AcknowledgeTaintedMCPServer(s, m).grants = s.grants
  BY DEF AcknowledgeTaintedMCPServer
<1>4. \A l : Kept(s, RaisePosture(s, l)) /\ RaisePosture(s, l).grants = s.grants
  BY DEF RaisePosture
<1>5. Kept(s, [s EXCEPT !.alert = TRUE]) /\ [s EXCEPT !.alert = TRUE].grants = s.grants
  OBVIOUS
<1>6. Kept(s, ClearPendingInstall(s)) /\ ClearPendingInstall(s).grants = s.grants
  BY DEF ClearPendingInstall
<1>7. Kept(s, ConsumePendingAutoLease(s)) /\ ConsumePendingAutoLease(s).grants = s.grants
  BY DEF ConsumePendingAutoLease
<1>8. \A r : Kept(s, PromotePendingReuse(s, r)) /\ PromotePendingReuse(s, r).grants = s.grants
  BY DEF PromotePendingReuse
<1>9. Kept(s, [s EXCEPT !.fingerprints = TRUE]) /\ [s EXCEPT !.fingerprints = TRUE].grants = s.grants
  OBVIOUS
<1>10. Kept(s, [s EXCEPT !.untrustedTurn = TRUE]) /\ [s EXCEPT !.untrustedTurn = TRUE].grants = s.grants
  OBVIOUS
<1>11. \A f : Kept(s, AttachActiveEvidenceToPath(s, f)) /\ AttachActiveEvidenceToPath(s, f).grants = s.grants
  BY DEF AttachActiveEvidenceToPath
<1>12. QED
  BY ONLY <1>1, <1>2, <1>3, <1>4, <1>5, <1>6, <1>7, <1>8, <1>9, <1>10, <1>11

\* One update after another: nothing is forgotten and the grants stay.
Onward(s, t) == Kept(s, t) /\ t.grants = s.grants

\* Updates that forget nothing compose.
LEMMA OnwardThrough ==
    /\ \A s, t, u : Onward(s, t) /\ Onward(t, u) => Onward(s, u)
    /\ \A s, t : Onward(s, t) => Formed(t) /\ Kept(s, t) /\ t.grants = s.grants
    /\ \A s : Formed(s) => Onward(s, s)
BY DEF Onward, Kept

\* A secret that is taken in makes the session secret and leaves evidence.
LEMMA TakenIn ==
    ASSUME NEW s, Formed(s), NEW x
    PROVE  LET t == TakeInSecret(s, x) IN
           Onward(s, t) /\ t.secret /\ (x.sensitivity = "secret" => HasSecret(t.evidence))
<1> DEFINE noted == RecordLineageEvidence(s, x)
           t == TakeInSecret(s, x)
<1>1. Onward(s, noted) /\ Formed(noted)
  <2>1. Kept(s, noted) /\ noted.grants = s.grants
    BY NotesKeep, Zenon
  <2>2. QED
    BY <2>1, KeptIsFormed DEF Onward
<1>2. (noted.secret <=> s.secret) /\ x \in noted.evidence
  BY DEF RecordLineageEvidence, Formed, Fields
<1> HIDE DEF noted
<1>3. Onward(noted, MarkSecretSession(noted)) /\ MarkSecretSession(noted).secret
  <2>1. Kept(noted, MarkSecretSession(noted)) /\ MarkSecretSession(noted).grants = noted.grants
    BY <1>1, MarksKeep, Zenon
  <2>2. MarkSecretSession(noted).secret
    BY <1>1 DEF MarkSecretSession, Formed, Fields
  <2>3. QED
    BY <2>1, <2>2 DEF Onward
<1>4. t = IF s.secret THEN noted ELSE MarkSecretSession(noted)
  BY DEF TakeInSecret, noted
<1> HIDE DEF t
<1>5. Onward(s, t) /\ t.secret /\ x \in t.evidence
  <2>1. CASE s.secret
    BY <1>1, <1>2, <1>4, <2>1
  <2>2. CASE ~s.secret
    BY <1>1, <1>2, <1>3, <1>4, <2>2, OnwardThrough DEF Onward, Kept
  <2>3. QED
    BY <2>1, <2>2
<1>6. QED
  BY <1>5 DEF t, HasSecret

\* What each step of the analysis keeps and adds.
LEMMA SecretsNoticed ==
    ASSUME NEW s, Formed(s), NEW i, NEW out
    PROVE  /\ LET t == recordSensitiveRead(s, i) IN
              Onward(s, t) /\ (SensitiveTarget(i) => t.secret /\ HasSecret(t.evidence))
           /\ LET t == outputCredentialAnalysis(s, i, out) IN
              Onward(s, t) /\ (out = "credential" /\ i.tool # "mcp" => t.secret /\ HasSecret(t.evidence))
<1> DEFINE taken == TakeInSecret(s, secretReadLineageLabel)
<1>1. secretReadLineageLabel.sensitivity = "secret"
  BY DEF secretReadLineageLabel
<1>2. Onward(s, taken) /\ taken.secret /\ HasSecret(taken.evidence)
  BY <1>1, TakenIn
<1>3. Onward(s, s)
  BY OnwardThrough
<1> HIDE DEF taken
<1>4. recordSensitiveRead(s, i) = IF SensitiveTarget(i) THEN taken ELSE s
  BY DEF recordSensitiveRead, taken
<1>5. outputCredentialAnalysis(s, i, out) = IF out = "credential" /\ i.tool # "mcp" THEN taken ELSE s
  BY DEF outputCredentialAnalysis, taken
<1>6. QED
  BY <1>2, <1>3, <1>4, <1>5

\* A command that copies a secret file labels its target as secret
\* (propagateBashLineageMutation).
LEMMA CopyNoticed ==
    ASSUME NEW s, Formed(s), NEW i
    PROVE  LET t == propagateBashLineageMutation(s, i) IN
           Onward(s, t) /\ (CopiesSecret(i) => HasSecret(t.lineage["out"]))
<1> DEFINE seeded == AttachLineageLabelsToPath(s, "env", {secretReadLineageLabel})
           copied == AttachLineageLabelsToPath(seeded, "out", seeded.lineage["env"])
<1> USE OnwardThrough
<1>1. ASSUME NEW t, Formed(t), NEW f, NEW labels PROVE Onward(t, AttachLineageLabelsToPath(t, f, labels))
  BY <1>1, MarksKeep, Zenon DEF Onward
<1>2. Onward(s, seeded) /\ Formed(seeded)
  BY <1>1
<1>3. secretReadLineageLabel \in seeded.lineage["env"]
  BY DEF AttachLineageLabelsToPath, Formed, Fields, Files
<1> HIDE DEF seeded
<1>4. Onward(seeded, copied)
  BY <1>1, <1>2
<1>5. secretReadLineageLabel \in copied.lineage["out"]
  BY <1>2, <1>3 DEF AttachLineageLabelsToPath, Formed, Fields, Files
<1>6. secretReadLineageLabel.sensitivity = "secret"
  BY DEF secretReadLineageLabel
<1>7. propagateBashLineageMutation(s, i) = IF CopiesSecret(i) THEN copied ELSE s
  BY DEF propagateBashLineageMutation, seeded
<1> HIDE DEF copied
<1>8. Onward(s, copied) /\ Onward(s, s) /\ HasSecret(copied.lineage["out"])
  BY <1>2, <1>4, <1>5, <1>6 DEF HasSecret
<1>9. QED
  BY <1>7, <1>8

\* The analysis of an MCP server's answer forgets nothing, and a credential in
\* it makes the session secret (MCPOutputAnalysis).
LEMMA AnswerNoticed ==
    ASSUME NEW s, Formed(s), NEW i, NEW out
    PROVE  LET t == MCPOutputAnalysis(s, i, out) IN
           /\ Onward(s, t)
           /\ out = "credential" /\ i.tool = "mcp" => t.secret /\ HasSecret(t.evidence)
<1> DEFINE m == i.server
           took == TakeInSecret(s, credentialMCPLineageLabel)
           taken == IF out = "credential" THEN took ELSE s
           noted == RecordLineageEvidence(s, taintedMCPLineageLabel)
           listed == AddTaintedMCPServer(noted, m)
           flagged == [listed EXCEPT !.untrustedRead = TRUE]
           critical == RaisePosture(flagged, "critical")
           t == MCPOutputAnalysis(s, i, out)
<1>1. Onward(s, took) /\ took.secret /\ HasSecret(took.evidence)
  <2>1. credentialMCPLineageLabel.sensitivity = "secret"
    BY DEF credentialMCPLineageLabel
  <2>2. QED
    BY <2>1, TakenIn
<1>2. Onward(s, noted)
  BY NotesKeep, Zenon DEF Onward
<1> HIDE DEF noted, took
<1>3. Onward(s, listed)
  <2>1. Onward(noted, listed)
    BY <1>2, OnwardThrough, NotesKeep, Zenon DEF Onward
  <2>2. QED
    BY <1>2, <2>1, OnwardThrough
<1> HIDE DEF listed
<1>4. Onward(s, flagged)
  <2>1. Onward(listed, flagged)
    BY <1>3, OnwardThrough, MarksKeep, Zenon DEF Onward
  <2>2. QED
    BY <1>3, <2>1, OnwardThrough
<1> HIDE DEF flagged
<1>5. Onward(s, critical) /\ Onward(s, RaisePosture(flagged, "elevated"))
  <2>1. Onward(flagged, critical) /\ Onward(flagged, RaisePosture(flagged, "elevated"))
    BY <1>4, OnwardThrough, NotesKeep, Zenon DEF Onward
  <2>2. QED
    BY <1>4, <2>1, OnwardThrough
<1> HIDE DEF critical
<1>6. Onward(s, [critical EXCEPT !.alert = TRUE])
  <2>1. Onward(critical, [critical EXCEPT !.alert = TRUE])
    BY <1>5, OnwardThrough, NotesKeep, Zenon DEF Onward
  <2>2. QED
    BY <1>5, <2>1, OnwardThrough
<1>7. Onward(s, taken) /\ Onward(s, s) /\ Formed(taken)
  BY <1>1, OnwardThrough
<1>8. out = "credential" => taken.secret /\ HasSecret(taken.evidence)
  BY <1>1
<1> HIDE DEF taken
<1>9. Onward(taken, AcknowledgeTaintedMCPServer(taken, m))
  BY <1>7, NotesKeep, Zenon DEF Onward
<1>10. /\ Onward(s, AcknowledgeTaintedMCPServer(taken, m))
       /\ out = "credential" => /\ AcknowledgeTaintedMCPServer(taken, m).secret
                                /\ HasSecret(AcknowledgeTaintedMCPServer(taken, m).evidence)
  BY <1>7, <1>8, <1>9, OnwardThrough DEF HasSecret, Onward, Kept
<1>11. t = IF i.tool # "mcp" \/ out = "empty" THEN s
           ELSE IF out = "injection" THEN [critical EXCEPT !.alert = TRUE]
           ELSE IF out = "suspicious" THEN RaisePosture(flagged, "elevated")
           ELSE AcknowledgeTaintedMCPServer(taken, m)
  BY DEF MCPOutputAnalysis, critical, flagged, listed, noted, taken, took
<1>12. QED
  BY <1>5, <1>6, <1>7, <1>10, <1>11

\* The other steps of the analysis forget nothing: fingerprints are captured,
\* foreign content is marked, and a written file inherits the evidence of the
\* turn.
LEMMA RestNoticed ==
    ASSUME NEW s, Formed(s), NEW i, NEW out
    PROVE  /\ Onward(s, checkPendingInstall(s, i))
           /\ LET t == captureSecretFingerprints(s, i, out) IN
              /\ Onward(s, t)
              /\ out = "credential" \/ (out = "keyed" /\ SensitiveTarget(i)) => t.fingerprints
           /\ LET t == markUntrustedContent(s, i, out) IN
              Onward(s, t) /\ (isUntrustedContentTool(i) /\ out # "empty" => t.untrustedTurn)
           /\ LET t == attachLineageToWriteTarget(s, i) IN
              /\ Onward(s, t)
              /\ i.tool = "Write" /\ i.file \in Files => s.evidence \subseteq t.lineage[i.file]
<1>1. /\ Onward(s, s) /\ Onward(s, ClearPendingInstall(s))
      /\ Onward(s, [s EXCEPT !.fingerprints = TRUE])
      /\ Onward(s, [s EXCEPT !.untrustedTurn = TRUE])
      /\ Onward(s, AttachActiveEvidenceToPath(s, i.file))
  <2>1. Onward(s, s)
    BY OnwardThrough
  <2>2. Onward(s, ClearPendingInstall(s))
    BY NotesKeep, Zenon DEF Onward
  <2>3. Onward(s, [s EXCEPT !.fingerprints = TRUE])
    BY NotesKeep, Zenon DEF Onward
  <2>4. Onward(s, [s EXCEPT !.untrustedTurn = TRUE])
    BY NotesKeep, Zenon DEF Onward
  <2>5. Onward(s, AttachActiveEvidenceToPath(s, i.file))
    BY NotesKeep, Zenon DEF Onward
  <2>6. QED
    BY <2>1, <2>2, <2>3, <2>4, <2>5
<1>2. /\ [s EXCEPT !.fingerprints = TRUE].fingerprints
      /\ [s EXCEPT !.untrustedTurn = TRUE].untrustedTurn
      /\ i.file \in Files => s.evidence \subseteq AttachActiveEvidenceToPath(s, i.file).lineage[i.file]
  BY DEF Formed, Fields, AttachActiveEvidenceToPath
<1>3. Onward(s, checkPendingInstall(s, i))
  BY <1>1 DEF checkPendingInstall
<1>4. LET t == captureSecretFingerprints(s, i, out) IN
      /\ Onward(s, t)
      /\ out = "credential" \/ (out = "keyed" /\ SensitiveTarget(i)) => t.fingerprints
  BY <1>1, <1>2 DEF captureSecretFingerprints
<1>5. LET t == markUntrustedContent(s, i, out) IN
      Onward(s, t) /\ (isUntrustedContentTool(i) /\ out # "empty" => t.untrustedTurn)
  BY <1>1, <1>2 DEF markUntrustedContent
<1>6. LET t == attachLineageToWriteTarget(s, i) IN
      /\ Onward(s, t)
      /\ i.tool = "Write" /\ i.file \in Files => s.evidence \subseteq t.lineage[i.file]
  BY <1>1, <1>2 DEF attachLineageToWriteTarget
<1>7. QED
  BY <1>3, <1>4, <1>5, <1>6

\* The analysis of an output leaves a session that agrees with what happened,
\* and so do the rules that widen something afterwards.
LEMMA AnalysisAgrees ==
    ASSUME NEW s, Formed(s), NEW h, Agree(s, h), NEW i, NEW out
    PROVE  LET t == Analysed(s, i, out) IN Onward(s, t) /\ Agree(t, Ran(h, i, out))
<1> DEFINE a1 == recordSensitiveRead(s, i)
           a2 == outputCredentialAnalysis(a1, i, out)
           s1 == propagateBashLineageMutation(a2, i)
           b1 == checkPendingInstall(s1, i)
           b2 == MCPOutputAnalysis(b1, i, out)
           s2 == captureSecretFingerprints(b2, i, out)
           m == markUntrustedContent(s2, i, out)
           t == attachLineageToWriteTarget(m, i)
           r == Ran(h, i, out)
<1> USE OnwardThrough
<1>1. Onward(s, a1) /\ (SensitiveTarget(i) => a1.secret /\ HasSecret(a1.evidence))
  BY SecretsNoticed
<1>2. t = Analysed(s, i, out)
  BY DEF Analysed
<1> HIDE DEF a1
<1>3. Onward(a1, a2) /\ (out = "credential" /\ i.tool # "mcp" => a2.secret /\ HasSecret(a2.evidence))
  BY <1>1, SecretsNoticed
<1> HIDE DEF a2
<1>4. Onward(a2, s1) /\ (CopiesSecret(i) => HasSecret(s1.lineage["out"]))
  BY <1>3, CopyNoticed
<1> HIDE DEF s1
<1>5. Onward(s1, b1)
  BY <1>4, RestNoticed
<1> HIDE DEF b1
<1>6. Onward(b1, b2) /\ (out = "credential" /\ i.tool = "mcp" => b2.secret /\ HasSecret(b2.evidence))
  BY <1>5, AnswerNoticed
<1> HIDE DEF b2
<1>7. /\ Onward(b2, s2)
      /\ out = "credential" \/ (out = "keyed" /\ SensitiveTarget(i)) => s2.fingerprints
  BY <1>6, RestNoticed
<1> HIDE DEF s2
<1>8. Onward(s2, m) /\ (isUntrustedContentTool(i) /\ out # "empty" => m.untrustedTurn)
  BY <1>7, RestNoticed
<1> HIDE DEF m
<1>9. Onward(m, t) /\ (i.tool = "Write" /\ i.file \in Files => m.evidence \subseteq t.lineage[i.file])
  BY <1>8, RestNoticed
<1> HIDE DEF t
<1>10. Onward(s, m) /\ Onward(s, t)
  BY <1>1, <1>3, <1>4, <1>5, <1>6, <1>7, <1>8, <1>9
<1>11. Onward(a1, t) /\ Onward(a2, t) /\ Onward(s1, t) /\ Onward(b2, t) /\ Onward(s2, t) /\ Onward(m, t)
  BY <1>3, <1>4, <1>5, <1>6, <1>7, <1>8, <1>9
\* What went into an earlier state is still in the last one.
<1>12. ASSUME NEW x, NEW y, Onward(x, y)
       PROVE  /\ x.secret => y.secret
              /\ HasSecret(x.evidence) => HasSecret(y.evidence)
              /\ x.fingerprints => y.fingerprints
              /\ x.untrustedTurn => y.untrustedTurn
              /\ \A f \in Files : HasSecret(x.lineage[f]) => HasSecret(y.lineage[f])
              /\ y.denyAll = x.denyAll /\ y.grants = x.grants
  BY <1>12 DEF Onward, Kept, HasSecret
<1>13. /\ DOMAIN r = DOMAIN h
       /\ r.exposed => h.exposed \/ out = "credential" \/ SensitiveTarget(i)
       /\ r.fingerprinted => h.fingerprinted \/ out = "credential" \/ (out = "keyed" /\ SensitiveTarget(i))
       /\ r.ingested => h.ingested \/ (isUntrustedContentTool(i) /\ out # "empty")
       /\ \A f \in r.dirty : \/ f \in h.dirty
                             \/ CopiesSecret(i) /\ f = "out"
                             \/ i.tool = "Write" /\ h.exposed /\ f = i.file /\ f \in Files
       /\ r.ranDenied = h.ranDenied /\ r.given = h.given /\ r.used = h.used
  BY DEF Agree, Ran
<1> HIDE DEF r
<1>14. r.exposed => t.secret /\ HasSecret(t.evidence)
  BY <1>1, <1>3, <1>6, <1>10, <1>11, <1>12, <1>13 DEF Agree
<1>15. r.fingerprinted => t.fingerprints
  BY <1>7, <1>10, <1>11, <1>12, <1>13 DEF Agree
<1>16. r.ingested => t.untrustedTurn
  BY <1>8, <1>10, <1>11, <1>12, <1>13 DEF Agree
<1>17. ASSUME NEW f \in r.dirty PROVE f \in Files /\ HasSecret(t.lineage[f])
  <2>1. CASE f \in h.dirty
    BY <1>10, <1>12, <2>1 DEF Agree
  <2>2. CASE CopiesSecret(i) /\ f = "out"
    BY <1>4, <1>11, <1>12, <2>2 DEF Files
  <2>3. CASE i.tool = "Write" /\ h.exposed /\ f = i.file /\ f \in Files
    <3>1. HasSecret(m.evidence)
      BY <1>10, <1>12, <2>3 DEF Agree
    <3>2. QED
      BY <1>9, <2>3, <3>1 DEF HasSecret
  <2>4. QED
    BY <1>13, <2>1, <2>2, <2>3
<1>18. /\ r.ranDenied => t.denyAll
       /\ r.given \in Nat /\ r.used \in Nat /\ r.used + Len(t.grants) <= r.given
  BY <1>10, <1>12, <1>13 DEF Agree
<1>19. Agree(t, r)
  BY <1>13, <1>14, <1>15, <1>16, <1>17, <1>18 DEF Agree
<1>20. QED
  BY <1>2, <1>10, <1>19 DEF r

\* The whole of PostToolUse for a call that ran, with the rules that widen
\* something, leaves a session that agrees with what happened.
LEMMA AfterRunAgrees ==
    ASSUME NEW p, NEW s, Formed(s), NEW h, Agree(s, h), NEW i, NEW out
    PROVE  LET t == AfterRun(p, s, i, out) IN Onward(s, t) /\ Agree(t, Ran(h, i, out))
<1> DEFINE after == Analysed(s, i, out)
           widened == IF applyAutoLeaseOnApproval(p, after, i) THEN ConsumePendingAutoLease(after) ELSE after
           t == AfterRun(p, s, i, out)
<1> USE OnwardThrough
<1>1. Onward(s, after) /\ Agree(after, Ran(h, i, out))
  BY AnalysisAgrees
<1>2. t = after \/ t = promoteSessionApprovalsOnPost(p, widened, i)
  BY DEF AfterRun
<1> HIDE DEF after
<1>3. Onward(after, widened)
  <2>1. Onward(after, ConsumePendingAutoLease(after)) /\ Onward(after, after)
    <3>1. Formed(after)
      BY <1>1
    <3>2. Onward(after, ConsumePendingAutoLease(after))
      BY <3>1, NotesKeep, Zenon DEF Onward
    <3>3. QED
      BY <3>1, <3>2
  <2>2. QED
    BY <2>1
<1> HIDE DEF widened
<1>4. Onward(widened, promoteSessionApprovalsOnPost(p, widened, i))
  <2>1. Formed(widened)
    BY <1>3
  <2>2. \A k : Onward(widened, PromotePendingReuse(widened, k))
    BY <2>1, NotesKeep, Zenon DEF Onward
  <2>3. QED
    BY <2>1, <2>2 DEF promoteSessionApprovalsOnPost
<1> HIDE DEF t
<1>5. Onward(after, t) /\ Onward(s, t)
  BY <1>1, <1>2, <1>3, <1>4
<1>6. Agree(t, Ran(h, i, out))
  BY <1>1, <1>5 DEF Agree, Onward, Kept, HasSecret
<1>7. QED
  BY <1>5, <1>6 DEF t

-----------------------------------------------------------------------------
(***************************************************************************)
(* The ring of denied ids.                                                 *)
(***************************************************************************)
\* A denied id is in the ring afterwards, and the others stay there while
\* the ring is not full.
LEMMA RingRemembers ==
    ASSUME NEW s, Formed(s), s.denied \in Seq(CallIds), Len(s.denied) <= MaxDenied, NEW c \in CallIds
    PROVE  LET t == RecordDeniedToolUse(s, c) IN
           /\ Formed(t) /\ t.denied \in Seq(CallIds) /\ Len(t.denied) <= MaxDenied
           /\ Remembered(t, c)
           /\ \A d : Remembered(s, d) => Remembered(t, d)
           /\ t.denyAll = s.denyAll /\ t.grants = s.grants
           /\ t.secret = s.secret /\ t.untrustedTurn = s.untrustedTurn
           /\ t.fingerprints = s.fingerprints /\ t.evidence = s.evidence /\ t.lineage = s.lineage
<1> DEFINE ring == IF c \in Range(s.denied) THEN s.denied ELSE Append(s.denied, c)
           tail == SubSeq(ring, Len(ring) - MaxDenied + 1, Len(ring))
           kept == IF Len(ring) > MaxDenied THEN tail ELSE ring
           t == RecordDeniedToolUse(s, c)
<1>1. t = [s EXCEPT !.denied = kept]
  BY DEF RecordDeniedToolUse
<1>2. /\ ring \in Seq(CallIds) /\ Len(ring) \in {Len(s.denied), Len(s.denied) + 1}
      /\ c \in Range(ring) /\ Range(s.denied) \subseteq Range(ring)
  <2>1. CASE c \in Range(s.denied)
    BY <2>1
  <2>2. CASE c \notin Range(s.denied)
    <3>1. ring = Append(s.denied, c)
      BY <2>2
    <3>2. /\ Append(s.denied, c) \in Seq(CallIds) /\ Len(Append(s.denied, c)) = Len(s.denied) + 1
          /\ \A k \in 1..Len(s.denied) : Append(s.denied, c)[k] = s.denied[k]
          /\ Append(s.denied, c)[Len(s.denied) + 1] = c
      OBVIOUS
    <3>3. DOMAIN s.denied = 1..Len(s.denied) /\ DOMAIN Append(s.denied, c) = 1..(Len(s.denied) + 1)
      BY <3>2
    <3>4. Len(s.denied) \in Nat
      OBVIOUS
    <3> HIDE DEF ring
    <3>5. QED
      BY <3>1, <3>2, <3>3, <3>4 DEF Range
  <2>3. QED
    BY <2>1, <2>2
<1> HIDE DEF ring
<1>3. CASE Len(ring) > MaxDenied
  <2>1. tail \in Seq(CallIds) /\ Len(tail) = MaxDenied
    BY <1>2, <1>3, RingAssumption
  <2> HIDE DEF tail
  <2>2. t.denied = tail /\ kept = tail
    BY <1>1, <1>3 DEF Formed, Fields
  <2>3. \A d : Remembered(t, d)
    BY <2>1, <2>2 DEF Remembered
  <2>4. QED
    BY <1>1, <2>1, <2>2, <2>3, RingAssumption DEF Formed, Fields
<1>4. CASE ~(Len(ring) > MaxDenied)
  <2>1. t.denied = ring /\ kept = ring
    BY <1>1, <1>4 DEF Formed, Fields
  <2>2. Remembered(t, c)
    BY <1>2, <2>1 DEF Remembered
  <2>3. \A d : Remembered(s, d) => Remembered(t, d)
    BY <1>2, <1>4, <2>1, RingAssumption DEF Remembered
  <2>4. Len(ring) <= MaxDenied
    BY <1>2, <1>4, RingAssumption
  <2>5. QED
    BY <1>1, <1>2, <2>1, <2>2, <2>3, <2>4 DEF Formed, Fields
<1>5. QED
  BY <1>3, <1>4

-----------------------------------------------------------------------------
(***************************************************************************)
(* The invariant is inductive.                                             *)
(***************************************************************************)
\* A turn takes the secret of the old one with it, and what happened in it.
LEMMA TurnAgrees ==
    ASSUME NEW s, Formed(s), NEW h, Agree(s, h)
    PROVE  /\ Formed(NewTurn(s)) /\ Agree(NewTurn(s), TurnOver(h))
           /\ NewTurn(s).denied = s.denied /\ NewTurn(s).grants = s.grants
           /\ NewTurn(s).denyAll = s.denyAll /\ NewTurn(s).turn # s.turn
BY DEF NewTurn, Formed, Fields, Agree, TurnOver, HasSecret

\* A turn that PreToolUse or UserPromptSubmit begins keeps the agreement.
LEMMA AdvanceAgrees ==
    ASSUME NEW s, Formed(s), NEW h, Agree(s, h)
    PROVE  LET t == MaybeAdvanceTurn(s) IN
           /\ Formed(t) /\ Agree(t, IF t.turn # s.turn THEN TurnOver(h) ELSE h)
           /\ t.denied = s.denied /\ t.grants = s.grants /\ t.denyAll = s.denyAll
<1> DEFINE t == MaybeAdvanceTurn(s)
           new == NewTurn(s)
<1>1. /\ Formed(new) /\ Agree(new, TurnOver(h))
      /\ new.denied = s.denied /\ new.grants = s.grants
      /\ new.denyAll = s.denyAll /\ new.turn # s.turn
  BY TurnAgrees
<1>2. t = IF s.byHook THEN [s EXCEPT !.byHook = FALSE, !.last = "recent"]
          ELSE IF s.last = "old" THEN [new EXCEPT !.last = "recent"]
          ELSE [s EXCEPT !.last = "recent"]
  BY DEF MaybeAdvanceTurn
<1> HIDE DEF t, new
<1>3. CASE ~s.byHook /\ s.last = "old"
  <2>1. t = [new EXCEPT !.last = "recent"]
    BY <1>2, <1>3
  <2>2. Formed(t) /\ t.turn # s.turn /\ t.denied = s.denied /\ t.grants = s.grants /\ t.denyAll = s.denyAll
    BY <1>1, <2>1 DEF Formed, Fields
  <2>3. Agree(t, TurnOver(h))
    BY <1>1, <2>1 DEF Agree, Formed, Fields
  <2>4. QED
    BY <2>2, <2>3 DEF t
<1>4. CASE ~(~s.byHook /\ s.last = "old")
  <2>1. t = [s EXCEPT !.byHook = FALSE, !.last = "recent"] \/ t = [s EXCEPT !.last = "recent"]
    BY <1>2, <1>4
  <2>2. Formed(t) /\ t.turn = s.turn /\ t.denied = s.denied /\ t.grants = s.grants /\ t.denyAll = s.denyAll
    BY <2>1 DEF Formed, Fields
  <2>3. Agree(t, h)
    BY <2>1 DEF Agree, Formed, Fields
  <2>4. QED
    BY <2>2, <2>3 DEF t
<1>5. QED
  BY <1>3, <1>4

\* A session that keeps what it knew still agrees, when every grant that went
\* is counted.
LEMMA KeptAgrees ==
    ASSUME NEW s, NEW h, Agree(s, h), NEW t, Kept(s, t), NEW k,
           DOMAIN k = DOMAIN h, k.exposed => h.exposed, k.fingerprinted => h.fingerprinted,
           k.ingested => h.ingested, k.dirty = h.dirty, k.ranDenied = h.ranDenied,
           k.given = h.given, k.used \in Nat, k.used + Len(t.grants) <= k.given
    PROVE  Agree(t, k)
BY DEF Agree, Kept, HasSecret

\* Judged ids stay remembered, and calls keep what was said of them.
LEMMA CallsStay ==
    ASSUME GateInv, scenario' = scenario, profile' = profile, calls' = calls,
           Formed(session'), Agree(session', seen'), session'.denied = session.denied
    PROVE  GateInv'
BY DEF GateInv, Remembered

\* The invariant holds in the initial states.
LEMMA GateInit ==
    Init => GateInv
<1> SUFFICES ASSUME Init PROVE GateInv
  OBVIOUS
<1>1. Formed(session)
  BY DEF Init, NewState, Formed, Fields
<1>2. Agree(session, seen)
  BY DEF Init, NewState, Nothing, Agree
<1>3. session.denied = <<>> /\ Len(session.denied) <= MaxDenied
  BY RingAssumption DEF Init, NewState
<1>4. QED
  BY <1>1, <1>2, <1>3 DEF Init, GateInv

\* PreToolUse keeps the invariant: the call it judged is upheld, the session
\* still agrees with history, and a denied id is remembered.
LEMMA PreToolUseKeeps ==
    ASSUME GateInv, NEW c \in CallIds, PreToolUse(c)
    PROVE  GateInv'
<1>1. PICK raw \in {x \in Scenarios[scenario].intents : x.tool # "Subagent"} :
        LET i == MapToolToIntent(raw)
            turned == MaybeAdvanceTurn(session)
            alerted == turned.alert /\ ~turned.denyAll
            s == [turned EXCEPT !.alert = @ /\ ~alerted]
            a == Judge(profile, s, i, alerted)
            wire == Wire(profile, a)
            h == IF turned.turn # session.turn THEN TurnOver(seen) ELSE seen
        IN  /\ session' = IF wire = "deny" THEN RecordDeniedToolUse(a.state, c)
                          ELSE IF alerted \/ a.gate \in SavingGates THEN a.state
                          ELSE session
            /\ calls' = [calls EXCEPT ![c] =
                            Judged(StageOf(wire), raw, i.verb, wire, a.gate, Recorded(profile, a),
                                   Facts(h, turned, i), a.granted)]
            /\ seen' = [h EXCEPT !.owed = @ /\ ~(alerted /\ a.gate \in WarningGates),
                                 !.used = @ + GrantsRelied(profile, s, i, a)]
  BY DEF PreToolUse
<1> DEFINE i == MapToolToIntent(raw)
           turned == MaybeAdvanceTurn(session)
           alerted == turned.alert /\ ~turned.denyAll
           s == [turned EXCEPT !.alert = @ /\ ~alerted]
           a == Judge(profile, s, i, alerted)
           wire == Wire(profile, a)
           h == IF turned.turn # session.turn THEN TurnOver(seen) ELSE seen
           relied == GrantsRelied(profile, s, i, a)
           r == Judged(StageOf(wire), raw, i.verb, wire, a.gate, Recorded(profile, a),
                       Facts(h, turned, i), a.granted)
<1>2. scenario' = scenario /\ profile' = profile
  BY DEF PreToolUse
<1>3. /\ raw \in Scenarios[scenario].intents /\ raw.tool # "Subagent"
      /\ scenario \in DOMAIN Scenarios /\ profile \in Scenarios[scenario].profiles
      /\ Formed(session) /\ Agree(session, seen)
  BY DEF GateInv
<1>4. /\ Formed(turned) /\ Agree(turned, h)
      /\ turned.denied = session.denied /\ turned.grants = session.grants
      /\ turned.denyAll = session.denyAll
  BY <1>3, AdvanceAgrees
<1>5. Upheld(profile, r)
  <2> HIDE DEF turned, h
  <2>1. QED
    BY <1>3, <1>4, JudgedUpheld
<1>6. r.intent = raw /\ r.wire = wire
  BY DEF Judged
<1> HIDE DEF turned, h
<1>7. Kept(turned, s) /\ s.grants = turned.grants /\ Formed(s)
  BY <1>4 DEF Formed, Fields, Kept
<1> HIDE DEF s
<1>8. /\ Kept(s, a.state) /\ relied \in Nat /\ Len(a.state.grants) = Len(s.grants) - relied
      /\ a.gate \notin SavingGates => relied = 0
  BY <1>7, JudgeKeeps
<1> HIDE DEF a, wire, r, relied, alerted
<1>9. /\ session' = IF wire = "deny" THEN RecordDeniedToolUse(a.state, c)
                    ELSE IF alerted \/ a.gate \in SavingGates THEN a.state ELSE session
      /\ calls' = [calls EXCEPT ![c] = r]
      /\ seen' = [h EXCEPT !.owed = @ /\ ~(alerted /\ a.gate \in WarningGates), !.used = @ + relied]
  BY <1>1 DEF r, relied, wire, a, s, alerted, h, turned, i
<1> DEFINE t == a.state
<1>10. Kept(turned, t) /\ Formed(t) /\ t.denied = session.denied
  BY <1>4, <1>7, <1>8, KeptThrough, KeptIsFormed DEF Kept
<1>11. /\ DOMAIN seen' = DOMAIN h /\ seen'.exposed = h.exposed /\ seen'.fingerprinted = h.fingerprinted
       /\ seen'.ingested = h.ingested /\ seen'.dirty = h.dirty /\ seen'.ranDenied = h.ranDenied
       /\ seen'.given = h.given /\ seen'.used = h.used + relied
  BY <1>4, <1>9 DEF Agree
<1>12. Agree(t, seen')
  <2>1. seen'.used \in Nat /\ seen'.used + Len(t.grants) <= seen'.given
    <3>1. h.used \in Nat /\ h.given \in Nat /\ h.used + Len(turned.grants) <= h.given
      BY <1>4 DEF Agree
    <3>2. Len(turned.grants) \in Nat /\ Len(s.grants) = Len(turned.grants)
      BY <1>4, <1>7 DEF Formed
    <3>3. Len(t.grants) \in Nat
      BY <1>10 DEF Formed
    <3> HIDE DEF t
    <3>4. Len(t.grants) = Len(s.grants) - relied
      BY <1>8 DEF t
    <3>5. QED
      BY <1>8, <1>11, <3>1, <3>2, <3>3, <3>4
  <2>2. QED
    BY <1>4, <1>10, <1>11, <2>1, KeptAgrees
<1> HIDE DEF t
<1>13. session.denied \in Seq(CallIds) /\ Len(session.denied) <= MaxDenied
  BY DEF GateInv
<1>14. /\ Formed(session') /\ Agree(session', seen')
       /\ session'.denied \in Seq(CallIds) /\ Len(session'.denied) <= MaxDenied
       /\ \A d : Remembered(session, d) => Remembered(session', d)
       /\ wire = "deny" => Remembered(session', c)
  <2>1. CASE wire = "deny"
    <3>1. session' = RecordDeniedToolUse(t, c)
      BY <1>9, <2>1 DEF t
    <3>2. /\ Formed(session') /\ session'.denied \in Seq(CallIds) /\ Len(session'.denied) <= MaxDenied
          /\ Remembered(session', c)
          /\ \A d : Remembered(t, d) => Remembered(session', d)
          /\ session'.denyAll = t.denyAll /\ session'.grants = t.grants
          /\ session'.secret = t.secret /\ session'.untrustedTurn = t.untrustedTurn
          /\ session'.fingerprints = t.fingerprints /\ session'.evidence = t.evidence
          /\ session'.lineage = t.lineage
      BY <1>10, <1>13, <3>1, RingRemembers
    <3>3. Agree(session', seen')
      BY <1>12, <3>2 DEF Agree
    <3>4. \A d : Remembered(session, d) => Remembered(t, d)
      BY <1>10 DEF Remembered
    <3>5. QED
      BY <3>2, <3>3, <3>4
  <2>2. CASE wire # "deny" /\ (alerted \/ a.gate \in SavingGates)
    <3>1. session' = t
      BY <1>9, <2>2 DEF t
    <3>2. QED
      BY <1>10, <1>12, <1>13, <2>2, <3>1 DEF Remembered
  <2>3. CASE wire # "deny" /\ ~(alerted \/ a.gate \in SavingGates)
    <3>1. session' = session /\ relied = 0
      BY <1>8, <1>9, <2>3
    <3>2. /\ (h.exposed => seen.exposed) /\ (h.fingerprinted => seen.fingerprinted)
          /\ (h.ingested => seen.ingested) /\ h.dirty = seen.dirty /\ h.ranDenied = seen.ranDenied
          /\ h.given = seen.given /\ h.used = seen.used /\ DOMAIN h = DOMAIN seen
      BY <1>3 DEF h, TurnOver, Agree
    <3>3. Kept(session, session)
      BY <1>3, KeptItself
    <3>4. seen'.used \in Nat /\ seen'.used + Len(session.grants) <= seen'.given
      <4>1. seen.used \in Nat /\ seen.used + Len(session.grants) <= seen.given
        BY <1>3 DEF Agree
      <4>2. seen'.used = seen.used /\ seen'.given = seen.given
        BY <1>11, <3>1, <3>2, <4>1
      <4>3. QED
        BY <4>1, <4>2
    <3>5. Agree(session, seen')
      <4>1. /\ DOMAIN seen' = DOMAIN seen /\ (seen'.exposed => seen.exposed)
            /\ (seen'.fingerprinted => seen.fingerprinted) /\ (seen'.ingested => seen.ingested)
            /\ seen'.dirty = seen.dirty /\ seen'.ranDenied = seen.ranDenied /\ seen'.given = seen.given
        BY <1>11, <3>2
      <4>2. QED
        BY <1>3, <3>3, <3>4, <4>1, KeptAgrees
    <3>6. QED
      BY <1>3, <1>13, <2>3, <3>1, <3>5
  <2>4. QED
    BY <2>1, <2>2, <2>3
<1>15. QED
  BY <1>2, <1>3, <1>5, <1>6, <1>9, <1>14 DEF GateInv

\* A sub-agent is judged by the session as it is.
LEMMA SubagentStartKeeps ==
    ASSUME GateInv, NEW c \in CallIds, SubagentStart(c)
    PROVE  GateInv'
<1>1. PICK i \in {x \in Scenarios[scenario].intents : x.tool = "Subagent"}, dangerous \in BOOLEAN :
        LET v == SubagentVerdict(profile, session, dangerous)
            wire == applyThinkingGuard(profile, v)
        IN  calls' = [calls EXCEPT ![c] =
                        Judged(StageOf(wire), i, i.verb, wire, "subagent",
                               <<IF session.denyAll THEN "none" ELSE "did", wire>>,
                               Facts(seen, session, i), FALSE)]
  BY DEF SubagentStart
<1> DEFINE v == SubagentVerdict(profile, session, dangerous)
           wire == applyThinkingGuard(profile, v)
           facts == Facts(seen, session, i)
           recorded == <<IF session.denyAll THEN "none" ELSE "did", wire>>
           r == Judged(StageOf(wire), i, i.verb, wire, "subagent", recorded, facts, FALSE)
<1>2. /\ scenario' = scenario /\ profile' = profile /\ session' = session /\ seen' = seen
      /\ calls' = [calls EXCEPT ![c] = r]
  BY <1>1 DEF SubagentStart
<1>3. i \in Scenarios[scenario].intents /\ scenario \in DOMAIN Scenarios /\ i.tool = "Subagent"
  BY DEF GateInv
<1>4. i.verb = "delegate" /\ i.shape = "plain"
  BY <1>3, IntentAssumption
<1>5. /\ "ranDenied" \in facts => session.denyAll
      /\ "exposed" \in facts => session.secret
  BY DEF GateInv, Agree, Facts
<1>6. session.denyAll \/ session.secret => wire = "deny"
  BY DEF SubagentVerdict, applyThinkingGuard
<1>7. recorded = <<"did", "deny">> => wire = "deny"
  OBVIOUS
<1>8. /\ DOMAIN r = JudgedFields /\ r.intent = i /\ r.verb = i.verb /\ r.wire = wire
      /\ r.gate = "subagent" /\ r.recorded = recorded /\ r.facts = facts
  BY DEF Judged, JudgedFields
<1> HIDE DEF v, wire, facts, recorded, r
<1>9. Upheld(profile, r)
  <2>1. FloorHeld(profile, r)
    BY <1>4, <1>5, <1>6, <1>7, <1>8 DEF FloorHeld, OutboundVerbs
  <2>2. SecretHeld(profile, r)
    BY <1>4, <1>5, <1>6, <1>8 DEF SecretHeld, EgressVerbs
  <2>3. DerivedHeld(profile, r)
    BY <1>4, <1>8 DEF DerivedHeld, EgressVerbs
  <2>4. ForeignHeld(profile, r)
    BY <1>3, <1>4, <1>8 DEF ForeignHeld, EgressVerbs
  <2>5. QED
    BY <1>8, <2>1, <2>2, <2>3, <2>4 DEF Upheld
<1>10. QED
  BY <1>2, <1>3, <1>8, <1>9 DEF GateInv, Remembered

\* Stages change, verdicts do not.
LEMMA ApproveKeeps ==
    ASSUME GateInv, NEW c \in CallIds, Approve(c)
    PROVE  GateInv'
<1> DEFINE r == [calls[c] EXCEPT !.stage = "cleared"]
<1>1. /\ scenario' = scenario /\ profile' = profile /\ session' = session
      /\ calls' = [calls EXCEPT ![c] = r]
      /\ seen' = [seen EXCEPT !.consent = @ \cup ({calls[c].intent.server} \cap Servers)]
  BY DEF Approve
<1>2. calls[c] # New /\ calls[c] # Done
  BY DEF Approve, New, Done
<1>3. Upheld(profile, calls[c]) /\ calls[c].intent \in Scenarios[scenario].intents
  BY <1>2 DEF GateInv
<1>4. /\ DOMAIN r = JudgedFields /\ r.intent = calls[c].intent /\ r.verb = calls[c].verb
      /\ r.wire = calls[c].wire /\ r.gate = calls[c].gate /\ r.recorded = calls[c].recorded
      /\ r.facts = calls[c].facts /\ r.granted = calls[c].granted
  BY <1>3 DEF Upheld, JudgedFields
<1> HIDE DEF r
<1>5. Upheld(profile, r)
  BY <1>3, <1>4 DEF Upheld, FloorHeld, SecretHeld, DerivedHeld, ForeignHeld
<1>6. Agree(session, seen')
  BY <1>1 DEF GateInv, Agree
<1>7. QED
  BY <1>1, <1>2, <1>3, <1>4, <1>5, <1>6 DEF GateInv, Remembered

\* A call that ends without a PostToolUse keeps the invariant.
LEMMA DropKeeps ==
    ASSUME GateInv, NEW c \in CallIds, Drop(c)
    PROVE  GateInv'
BY DEF GateInv, Drop, Remembered

\* A denied call whose id the ring remembers locks the session down when it
\* runs; every other call is analysed.
LEMMA PostToolUseKeeps ==
    ASSUME GateInv, NEW c \in CallIds, PostToolUse(c)
    PROVE  GateInv'
<1> DEFINE i == MapToolToIntent(calls[c].intent)
<1>1. /\ scenario' = scenario /\ profile' = profile
      /\ calls' = [calls EXCEPT ![c] = Done]
  BY DEF PostToolUse
<1>2. /\ Formed(session) /\ Agree(session, seen)
      /\ session.denied \in Seq(CallIds) /\ Len(session.denied) <= MaxDenied
  BY DEF GateInv
<1>3. calls[c].wire = "deny" => Remembered(session, c)
  <2>1. calls[c] # New /\ calls[c] # Done /\ calls[c].intent.tool # "Subagent"
    BY DEF PostToolUse, New, Done
  <2>2. QED
    BY <2>1 DEF GateInv
<1>4. Formed(session') /\ Agree(session', seen') /\ session'.denied = session.denied
  <2>1. PICK out \in Outputs(i) :
          IF session.denyAll
          THEN UNCHANGED <<session, leased, seen>>
          ELSE IF WasToolUseDenied(session, c)
          THEN /\ session' = [session EXCEPT !.denyAll = TRUE]
               /\ seen' = [seen EXCEPT !.ranDenied = TRUE]
               /\ UNCHANGED leased
          ELSE /\ session' = AfterRun(profile, session, i, out)
               /\ seen' = IF calls[c].wire = "deny" /\ Len(session.denied) < MaxDenied
                          THEN [seen EXCEPT !.ranDenied = TRUE]
                          ELSE Ran(seen, i, out)
    BY DEF PostToolUse
  <2> HIDE DEF i
  <2>2. CASE session.denyAll
    BY <1>2, <2>1, <2>2
  <2>3. CASE ~session.denyAll /\ WasToolUseDenied(session, c)
    <3>1. session' = [session EXCEPT !.denyAll = TRUE] /\ seen' = [seen EXCEPT !.ranDenied = TRUE]
      BY <2>1, <2>3
    <3>2. Formed(session') /\ session'.denied = session.denied
      BY <1>2, <3>1 DEF Formed, Fields
    <3>3. Agree(session', seen')
      BY <1>2, <3>1 DEF Agree, Formed, Fields
    <3>4. QED
      BY <3>2, <3>3
  <2>4. CASE ~session.denyAll /\ ~WasToolUseDenied(session, c)
    <3>1. ~(calls[c].wire = "deny" /\ Len(session.denied) < MaxDenied)
      <4>1. c \notin Range(session.denied)
        BY <2>4 DEF WasToolUseDenied
      <4>2. QED
        BY <1>3, <4>1, RingAssumption DEF Remembered
    <3>2. session' = AfterRun(profile, session, i, out) /\ seen' = Ran(seen, i, out)
      BY <2>1, <2>4, <3>1
    <3>3. Onward(session, session') /\ Agree(session', seen')
      BY <1>2, <3>2, AfterRunAgrees
    <3>4. QED
      BY <3>3 DEF Onward, Kept
  <2>5. QED
    BY <2>2, <2>3, <2>4
<1>5. QED
  BY <1>1, <1>2, <1>4 DEF GateInv, Remembered

\* The steps between the hooks change the session and leave the calls alone.
LEMMA OtherStepsKeep ==
    ASSUME GateInv,
           \/ UserPrompt \/ TimePasses \/ Elicitation \/ GrantExpires \/ HostExpires \/ Unlock
           \/ \E g \in Scenarios[scenario].grants : SirApprove(g)
           \/ \E f \in Files : Declassify(f)
    PROVE  GateInv'
<1>1. Formed(session) /\ Agree(session, seen) /\ scenario \in DOMAIN Scenarios
  BY DEF GateInv
<1>2. scenario' = scenario /\ profile' = profile /\ calls' = calls
  BY DEF UserPrompt, TimePasses, Elicitation, GrantExpires, HostExpires, Unlock, SirApprove, Declassify
<1>3. CASE UserPrompt
  <2> DEFINE new == NewTurn(session)
  <2>1. /\ Formed(new) /\ Agree(new, TurnOver(seen)) /\ new.denied = session.denied
    BY <1>1, TurnAgrees
  <2> HIDE DEF new
  <2>2. session' = [new EXCEPT !.byHook = TRUE] /\ seen' = TurnOver(seen)
    BY <1>3 DEF UserPrompt, AdvanceTurnByHook, new
  <2>3. Formed(session') /\ session'.denied = session.denied
    BY <2>1, <2>2 DEF Formed, Fields
  <2>4. Agree(session', seen')
    BY <2>1, <2>2 DEF Agree, Formed, Fields
  <2>5. QED
    BY <1>2, <2>3, <2>4, CallsStay
<1>4. CASE TimePasses
  <2>1. session' = [session EXCEPT !.last = "old"] /\ seen' = seen
    BY <1>4 DEF TimePasses
  <2>2. Formed(session') /\ session'.denied = session.denied
    BY <1>1, <2>1 DEF Formed, Fields
  <2>3. Agree(session', seen')
    BY <1>1, <2>1 DEF Agree, Formed, Fields
  <2>4. QED
    BY <1>2, <2>2, <2>3, CallsStay
<1>5. CASE Elicitation
  <2>1. session' = RaisePosture(session, "elevated") /\ seen' = seen
    BY <1>5 DEF Elicitation
  <2>2. Formed(session') /\ session'.denied = session.denied
    BY <1>1, <2>1 DEF Formed, Fields, RaisePosture
  <2>3. Agree(session', seen')
    BY <1>1, <2>1 DEF Agree, Formed, Fields, RaisePosture
  <2>4. QED
    BY <1>2, <2>2, <2>3, CallsStay
<1>6. CASE GrantExpires
  <2>1. PICK k \in 1..Len(session.grants) : session' = DropGrant(session, k)
    BY <1>6 DEF GrantExpires
  <2>2. seen' = seen
    BY <1>6 DEF GrantExpires
  <2>3. Kept(session, session') /\ Len(session'.grants) = Len(session.grants) - 1
    BY <1>1, <2>1, DropOne
  <2>4. Formed(session') /\ session'.denied = session.denied
    BY <2>3 DEF Kept
  <2>5. Agree(session', seen')
    <3>1. /\ seen.used \in Nat /\ seen.given \in Nat /\ seen.used + Len(session.grants) <= seen.given
          /\ Len(session.grants) \in Nat
      BY <1>1 DEF Agree, Formed
    <3>2. seen.used + Len(session'.grants) <= seen.given
      BY <2>3, <3>1
    <3>3. QED
      BY <1>1, <2>2, <2>3, <3>1, <3>2, KeptAgrees
  <2>6. QED
    BY <1>2, <2>4, <2>5, CallsStay
<1>7. CASE HostExpires
  <2>1. seen' = seen /\ (session' = session \/ session' = [session EXCEPT !.pendingHost = FALSE])
    BY <1>7 DEF HostExpires, ConsumePendingAutoLease
  <2>2. Formed(session') /\ session'.denied = session.denied
    BY <1>1, <2>1 DEF Formed, Fields
  <2>3. Agree(session', seen')
    BY <1>1, <2>1 DEF Agree, Formed, Fields
  <2>4. QED
    BY <1>2, <2>2, <2>3, CallsStay
<1>8. CASE Unlock
  <2>1. /\ session' = ClearTransientRestrictions(session)
        /\ seen' = [seen EXCEPT !.exposed = FALSE, !.fingerprinted = FALSE, !.ingested = FALSE, !.owed = FALSE]
    BY <1>8 DEF Unlock
  <2>2. Formed(session') /\ session'.denied = session.denied
    BY <1>1, <2>1 DEF Formed, Fields, ClearTransientRestrictions
  <2>3. Agree(session', seen')
    BY <1>1, <2>1 DEF Agree, Formed, Fields, ClearTransientRestrictions
  <2>4. QED
    BY <1>2, <2>2, <2>3, CallsStay
<1>9. ASSUME NEW g \in Scenarios[scenario].grants, SirApprove(g) PROVE GateInv'
  <2>1. /\ session' = [session EXCEPT !.grants = Append(@, g)]
        /\ seen' = [seen EXCEPT !.given = @ + 1]
    BY <1>9 DEF SirApprove, AddApprovalGrant
  <2>2. g \in Grants
    BY <1>1, <1>9, GrantAssumption
  <2>3. Append(session.grants, g) \in Seq(Grants) /\ Len(Append(session.grants, g)) = Len(session.grants) + 1
    BY <1>1, <2>2 DEF Formed
  <2>4. Formed(session') /\ session'.denied = session.denied /\ session'.grants = Append(session.grants, g)
    BY <1>1, <2>1, <2>3 DEF Formed, Fields
  <2>5. Agree(session', seen')
    <3>1. seen'.used = seen.used /\ seen'.given = seen.given + 1 /\ seen.used \in Nat /\ seen.given \in Nat
      BY <1>1, <2>1 DEF Agree
    <3>2. seen.used + Len(session.grants) <= seen.given /\ Len(session.grants) \in Nat
      BY <1>1 DEF Agree, Formed
    <3>3. seen'.given \in Nat /\ seen'.used \in Nat /\ seen'.used + Len(session'.grants) <= seen'.given
      BY <2>3, <2>4, <3>1, <3>2
    <3>4. QED
      BY <1>1, <2>1, <3>3 DEF Agree, Formed, Fields
  <2>6. QED
    BY <1>2, <2>4, <2>5, CallsStay
<1>10. ASSUME NEW f \in Files, Declassify(f) PROVE GateInv'
  <2>1. /\ session' = [session EXCEPT !.lineage[f] = {}]
        /\ seen' = [seen EXCEPT !.dirty = @ \ {f}]
    BY <1>10 DEF Declassify, DeclassifyPath
  <2>2. Formed(session') /\ session'.denied = session.denied
    BY <1>1, <2>1 DEF Formed, Fields
  <2>3. Agree(session', seen')
    BY <1>1, <2>1 DEF Agree, Formed, Fields
  <2>4. QED
    BY <1>2, <2>2, <2>3, CallsStay
<1>11. QED
  BY <1>3, <1>4, <1>5, <1>6, <1>7, <1>8, <1>9, <1>10

\* GateInv holds in every state of every behaviour.
LEMMA GateInvariant ==
    Spec => []GateInv
<1>1. GateInv /\ [Next]_vars => GateInv'
  <2> SUFFICES ASSUME GateInv, [Next]_vars PROVE GateInv'
    OBVIOUS
  <2>1. CASE \E c \in CallIds : \/ PreToolUse(c) \/ SubagentStart(c)
                                \/ Approve(c) \/ Drop(c) \/ PostToolUse(c)
    BY <2>1, PreToolUseKeeps, SubagentStartKeeps, ApproveKeeps, DropKeeps, PostToolUseKeeps
  <2>2. CASE \/ UserPrompt \/ TimePasses \/ Elicitation \/ GrantExpires \/ HostExpires \/ Unlock
             \/ \E g \in Scenarios[scenario].grants : SirApprove(g)
             \/ \E f \in Files : Declassify(f)
    BY <2>2, OtherStepsKeep
  <2>3. CASE UNCHANGED vars
    BY <2>3, CallsStay DEF vars, GateInv
  <2>4. QED
    BY <2>1, <2>2, <2>3 DEF Next
<1>2. QED
  BY <1>1, GateInit, PTL DEF Spec

-----------------------------------------------------------------------------
(***************************************************************************)
(* What follows from the invariant.                                        *)
(***************************************************************************)
\* An open call is one that was judged: it has the fields of a judgement, and
\* what GateInv says of it holds.
LEMMA OpenUpheld ==
    ASSUME GateInv, NEW c \in Open
    PROVE  Upheld(profile, calls[c])
BY DEF GateInv, Open, New, Done

\* One-time approvals let through at most as many calls as were given,
\* however many calls and kinds of grants there are (ConsumeApprovalGrant).
THEOREM GrantsCoverUses ==
    Spec => []GrantOnce
<1>1. GateInv => GrantOnce
  <2> SUFFICES ASSUME GateInv PROVE GrantOnce
    OBVIOUS
  <2>1. Formed(session) /\ Agree(session, seen)
    BY DEF GateInv
  <2>2. Len(session.grants) \in Nat
    BY <2>1 DEF Formed
  <2>3. QED
    BY <2>1, <2>2 DEF Agree, GrantOnce
<1>2. QED
  BY <1>1, GateInvariant, PTL

\* A deny stands, for every number of calls under way and every length of the
\* ring: a denied call that ran locks the session down, and a deny in the
\* ledger was enforced (RecordDeniedToolUse, WasToolUseDenied, SetDenyAll).
THEOREM DenyStands ==
    Spec => []DeniedRunLocksDown
<1>1. GateInv => DeniedRunLocksDown
  <2> SUFFICES ASSUME GateInv PROVE DeniedRunLocksDown
    OBVIOUS
  <2>1. seen.ranDenied => session.denyAll
    BY DEF GateInv, Agree
  <2>2. \A c \in Open : FloorHeld(profile, calls[c])
    BY OpenUpheld DEF Upheld
  <2>3. QED
    BY <2>1, <2>2 DEF DeniedRunLocksDown, FloorHeld, Enforcing
<1>2. QED
  BY <1>1, GateInvariant, PTL

\* What an authoritative provider holds stays held, whatever the grants, the
\* profile and the session are (evaluatePolicy, the seal around the
\* convenience rules).
THEOREM ProviderHolds ==
    Spec => []ProviderAskSurvives
<1>1. GateInv => ProviderAskSurvives
  <2> SUFFICES ASSUME GateInv PROVE ProviderAskSurvives
    OBVIOUS
  <2>1. \A c \in Open : FloorHeld(profile, calls[c])
    BY OpenUpheld DEF Upheld
  <2>2. QED
    BY <2>1 DEF ProviderAskSurvives, FloorHeld
<1>2. QED
  BY <1>1, GateInvariant, PTL

\* sir's own floors hold under every profile, every intent and every provider
\* (the gates before evaluatePolicy, outboundSecretLeak).
THEOREM FloorsHold ==
    Spec => []FloorsNotDelegable
<1>1. GateInv => FloorsNotDelegable
  <2> SUFFICES ASSUME GateInv PROVE FloorsNotDelegable
    OBVIOUS
  <2>1. \A c \in Open : FloorHeld(profile, calls[c])
    BY OpenUpheld DEF Upheld
  <2>2. QED
    BY <2>1 DEF FloorsNotDelegable, FloorHeld
<1>2. QED
  BY <1>1, GateInvariant, PTL

\* After a secret was read nothing leaves in the same turn, whatever the
\* intents, the profiles and the interleaving (isSecretExfilFloor, the secret
\* session in the oracle, SubagentStart).
THEOREM SecretsStayGated ==
    ASSUME SendsAlone
    PROVE  Spec => []SecretFloorHolds
<1>1. GateInv => SecretFloorHolds
  <2> SUFFICES ASSUME GateInv PROVE SecretFloorHolds
    OBVIOUS
  <2>1. \A c \in Open : SecretHeld(profile, calls[c])
    BY OpenUpheld, SendsAlone DEF Upheld
  <2>2. QED
    BY <2>1 DEF SecretFloorHolds, SecretHeld, Native, Enforcing, Outside
<1>2. QED
  BY <1>1, GateInvariant, PTL

\* A file that a secret went to stays gated in every later turn, however many
\* files and turns there are (DerivedFileLineage, derived_secret_sink).
THEOREM DerivedStaysIn ==
    ASSUME SendsAlone
    PROVE  Spec => []DerivedStaysGated
<1>1. GateInv => DerivedStaysGated
  <2> SUFFICES ASSUME GateInv PROVE DerivedStaysGated
    OBVIOUS
  <2>1. \A c \in Open : DerivedHeld(profile, calls[c])
    BY OpenUpheld, SendsAlone DEF Upheld
  <2>2. QED
    BY <2>1 DEF DerivedStaysGated, DerivedHeld, Native, Enforcing, Outside
<1>2. QED
  BY <1>1, GateInvariant, PTL

\* Foreign content steers nothing past the developer, whatever servers,
\* intents and calls there are (MarkUntrustedContentThisTurn,
\* overlayPendingInjectionWarning, autoLeaseSafeContext).
THEOREM ForeignIsAsked ==
    ASSUME SendsAlone
    PROVE  Spec => []ForeignStaysGated
<1>1. GateInv => ForeignStaysGated
  <2> SUFFICES ASSUME GateInv PROVE ForeignStaysGated
    OBVIOUS
  <2>1. \A c \in Open : ForeignHeld(profile, calls[c])
    BY OpenUpheld, SendsAlone DEF Upheld
  <2>2. QED
    BY <2>1 DEF ForeignStaysGated, ForeignHeld, Native, Enforcing, Outside
<1>2. QED
  BY <1>1, GateInvariant, PTL

\* Only a PostToolUse leases a host, and only after the analysis of the
\* output: a lease never begins in a turn in which a secret or foreign content
\* came in (applyAutoLeaseOnApproval).
THEOREM LeasesAreClean ==
    Spec => LeaseOnlyWhenClean
<1>1. GateInv /\ [Next]_vars => [leased' /\ ~leased => ~seen'.exposed /\ ~seen'.ingested]_vars
  <2> SUFFICES ASSUME GateInv, Next, leased', ~leased
               PROVE  ~seen'.exposed /\ ~seen'.ingested
    OBVIOUS
  <2>1. PICK c \in CallIds : PostToolUse(c)
    BY DEF Next, PreToolUse, SubagentStart, Approve, Drop, UserPrompt, TimePasses, Elicitation,
           GrantExpires, HostExpires, Unlock, SirApprove, Declassify
  <2> DEFINE i == MapToolToIntent(calls[c].intent)
  <2>2. PICK out \in Outputs(i) :
          /\ ~session.denyAll /\ ~WasToolUseDenied(session, c)
          /\ applyAutoLeaseOnApproval(profile, Analysed(session, i, out), i)
          /\ seen' = IF calls[c].wire = "deny" /\ Len(session.denied) < MaxDenied
                     THEN [seen EXCEPT !.ranDenied = TRUE]
                     ELSE Ran(seen, i, out)
    BY <2>1 DEF PostToolUse
  <2> HIDE DEF i
  <2>3. calls[c].wire = "deny" => Remembered(session, c)
    <3>1. calls[c] # New /\ calls[c] # Done /\ calls[c].intent.tool # "Subagent"
      BY <2>1 DEF PostToolUse, New, Done
    <3>2. QED
      BY <3>1 DEF GateInv
  <2>4. c \notin Range(session.denied)
    BY <2>2 DEF WasToolUseDenied
  <2>5. seen' = Ran(seen, i, out)
    BY <2>2, <2>3, <2>4, RingAssumption DEF Remembered
  <2>6. Agree(Analysed(session, i, out), seen')
    BY <2>5, AnalysisAgrees DEF GateInv
  <2>7. ~Analysed(session, i, out).secret /\ ~Analysed(session, i, out).untrustedTurn
    BY <2>2 DEF applyAutoLeaseOnApproval, autoLeaseSafeContext
  <2>8. QED
    BY <2>6, <2>7 DEF Agree
<1>2. QED
  BY <1>1, GateInvariant, PTL DEF Spec, LeaseOnlyWhenClean
=============================================================================
