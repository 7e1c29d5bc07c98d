-------------------------------- MODULE Core --------------------------------
(***************************************************************************)
(* core.Evaluate: one policy question per tool call.  mister-core answers  *)
(* when it is installed; the Go fallback answers when it is not; a binary  *)
(* that was modified, fails or answers nonsense denies.  The binary and    *)
(* the lease profile can change between two calls.                         *)
(***************************************************************************)
EXTENDS Oracle, Fallback

CONSTANTS
    Profiles,       \* leases the developer switches between
    RequestSet      \* requests the hooks send

ASSUME ProfilesAssumption == Profiles # {} /\ Profiles \subseteq Leases
ASSUME RequestsAssumption == RequestSet \subseteq Requests

VARIABLES
    binary,         \* state of the mister-core binary
    profile,        \* the lease in force
    call            \* the last question and its answer

vars == <<binary, profile, call>>

Binaries == {"installed", "missing", "modified", "failing", "garbled"}
NoCall == [answered |-> FALSE]
Answer(r, v) == [answered |-> TRUE, request |-> r, verdict |-> v]

Evaluate(b, r, l) ==
    IF b = "installed" THEN evaluate(r, l)
    ELSE IF b = "missing" THEN localEvaluate(r, l)
    ELSE "deny"

Init ==
    /\ binary \in Binaries
    /\ profile \in Profiles
    /\ call = NoCall

\* A tool call is judged.
Judge ==
    /\ ~call.answered
    /\ \E r \in RequestSet : call' = Answer(r, Evaluate(binary, r, profile))
    /\ UNCHANGED <<binary, profile>>

\* The hook process exits; what it asked is forgotten.
Exit ==
    /\ call.answered
    /\ call' = NoCall
    /\ UNCHANGED <<binary, profile>>

\* mister-core is installed, removed, replaced or broken.
ChangeBinary(b) ==
    /\ ~call.answered
    /\ binary' = b
    /\ UNCHANGED <<profile, call>>

\* `sir policy` puts another profile in force.
ChangeProfile(l) ==
    /\ ~call.answered
    /\ profile' = l
    /\ UNCHANGED <<binary, call>>

Next ==
    \/ Judge \/ Exit
    \/ \E b \in Binaries : ChangeBinary(b)
    \/ \E l \in Profiles : ChangeProfile(l)

Spec == Init /\ [][Next]_vars

-----------------------------------------------------------------------------
(***************************************************************************)
(* Properties.                                                             *)
(***************************************************************************)
\* Every variable has its type; an answer is one of the three verdicts.
TypeOK ==
    /\ binary \in Binaries
    /\ profile \in Profiles
    /\ \/ call = NoCall
       \/ call.request \in RequestSet /\ call.verdict \in Verdicts
          /\ call = Answer(call.request, call.verdict)

\* With the default lease, whatever state the binary is in, a call gets a
\* verdict no looser than the oracle's: losing mister-core loosens nothing
\* (localEvaluate mirrors the oracle, Evaluate fails closed on the rest).
DefaultLeaseParity ==
    call.answered /\ profile = DefaultLease
        => NotLooser(call.verdict, evaluate(call.request, profile))

\* "The Go layer may only be stricter, never looser" (contributing.md): the
\* same in every profile.
NoLooserThanOracle ==
    call.answered => NotLooser(call.verdict, evaluate(call.request, profile))

\* While the session holds a secret, or the data of the call derives from
\* one, nothing may leave for an unapproved destination: network_guardrails,
\* secret_session_guards and derived_secret_sink of the oracle and their
\* counterparts in the fallback agree on deny, in every profile.
SecretStaysIn ==
    call.answered /\ (call.request.secret \/ HasDerivedSecret(call.request))
        /\ call.request.verb \in EgressVerbs
        => call.verdict = "deny"

\* Without the providers' advice the verdict would be the same, or it would
\* be an allow that the advice turned into an ask outside the everyday
\* workflow (compose_policy_verdicts, composeLocalPolicyVerdicts).
AdviceOnlyAsks ==
    call.answered =>
        LET bare == Evaluate(binary, [call.request EXCEPT !.advice = {}], profile)
        IN  \/ call.verdict = bare
            \/ bare = "allow" /\ call.verdict = "ask" /\ ~is_clean_developer_workflow(call.request)
=============================================================================
