---------------------------- MODULE SessionState ----------------------------
(***************************************************************************)
(* pkg/session State: the security state of one session and the methods    *)
(* the hooks and the CLI mutate it with.  Timestamps are kept as what they *)
(* are compared for; the methods run under the session lock, so each is    *)
(* one step (module SessionStore shows that).  MarkSecretSessionWithScope  *)
(* has no caller outside the tests: a secret session is always turn-scoped.*)
(***************************************************************************)
EXTENDS Policy, SequencesExt

CONSTANTS
    CallIds,        \* tool_use_ids
    Servers,        \* approved MCP servers
    Reusables,      \* what an approval is reused for: remotes and ephemeral packages,
                    \* named by their verb, and servers whose binary changed
    MaxDenied       \* capacity of the ring of denied tool_use_ids (256 in the code)

ASSUME RingAssumption == MaxDenied \in Nat \ {0}

Files == {"env", "out"}         \* a credentials file, and a file the agent writes
SecretLabels == {x \in Labels : x.sensitivity = "secret"}
secretReadLineageLabel == [sensitivity |-> "secret", trust |-> "trusted"]
credentialMCPLineageLabel == [sensitivity |-> "secret", trust |-> "untrusted"]
taintedMCPLineageLabel == [sensitivity |-> "internal", trust |-> "untrusted"]
LineageLabels == {secretReadLineageLabel, credentialMCPLineageLabel, taintedMCPLineageLabel}

Postures == {"normal", "elevated", "critical"}
Grants == [verb : {"read_ref", "push_remote", "net_external", "mcp_scope"}, scope : {"once", "session"}]

States ==
    [secret : BOOLEAN, ever : BOOLEAN, turn : Nat, apprTurn : Nat, byHook : BOOLEAN,
     last : {"never", "recent", "old"},
     untrustedRead : BOOLEAN, untrustedTurn : BOOLEAN, fingerprints : BOOLEAN,
     evidence : SUBSET LineageLabels, lineage : [Files -> SUBSET LineageLabels],
     posture : Postures, tainted : SUBSET Servers, acked : SUBSET Servers, alert : BOOLEAN,
     denyAll : BOOLEAN, denied : Seq(CallIds), grants : Seq(Grants),
     pendingReuse : SUBSET Reusables, reusable : SUBSET Reusables,
     pendingHost : BOOLEAN, pendingInstall : BOOLEAN, onboarded : [Servers -> Nat]]

NewState ==
    [secret |-> FALSE, ever |-> FALSE, turn |-> 0, apprTurn |-> 0, byHook |-> FALSE,
     last |-> "never",
     untrustedRead |-> FALSE, untrustedTurn |-> FALSE, fingerprints |-> FALSE,
     evidence |-> {}, lineage |-> [f \in Files |-> {}],
     posture |-> "normal", tainted |-> {}, acked |-> {}, alert |-> FALSE,
     denyAll |-> FALSE, denied |-> <<>>, grants |-> <<>>,
     pendingReuse |-> {}, reusable |-> {},
     pendingHost |-> FALSE, pendingInstall |-> FALSE, onboarded |-> [m \in Servers |-> 0]]

MarkSecretSession(s) ==
    [s EXCEPT !.secret = TRUE, !.ever = TRUE, !.apprTurn = s.turn]

\* A new turn: the evidence and the weak signal of the old one go, and a
\* secret approved in an older turn is downgraded to the high-water mark.
NewTurn(s) ==
    LET expired == s.secret /\ s.turn + 1 > s.apprTurn IN
    [s EXCEPT !.turn = @ + 1, !.evidence = {}, !.untrustedTurn = FALSE,
              !.ever = @ \/ expired, !.secret = @ /\ ~expired,
              !.apprTurn = IF expired THEN 0 ELSE @]

\* PreToolUse: thirty seconds without a tool call start a new turn, unless
\* the last boundary was announced by UserPromptSubmit.
MaybeAdvanceTurn(s) ==
    IF s.byHook THEN [s EXCEPT !.byHook = FALSE, !.last = "recent"]
    ELSE IF s.last = "old" THEN [NewTurn(s) EXCEPT !.last = "recent"]
    ELSE [s EXCEPT !.last = "recent"]

AdvanceTurnByHook(s) == [NewTurn(s) EXCEPT !.byHook = TRUE]

RecordLineageEvidence(s, label) == [s EXCEPT !.evidence = @ \cup {label}]
AttachActiveEvidenceToPath(s, f) == [s EXCEPT !.lineage[f] = @ \cup s.evidence]
AttachLineageLabelsToPath(s, f, labels) == [s EXCEPT !.lineage[f] = @ \cup labels]
DeclassifyPath(s, f) == [s EXCEPT !.lineage[f] = {}]

RaisePosture(s, level) ==
    [s EXCEPT !.posture = IF @ = "critical" \/ (@ = "elevated" /\ level = "normal") THEN @ ELSE level]

AddTaintedMCPServer(s, m) == [s EXCEPT !.tainted = @ \cup {m}, !.acked = @ \ {m}]
AcknowledgeTaintedMCPServer(s, m) == [s EXCEPT !.acked = @ \cup ({m} \cap s.tainted)]

WasToolUseDenied(s, c) == c \in Range(s.denied)

\* Mutant: the id is not remembered.
RecordNothing(s, c) == s

RecordDeniedToolUse(s, c) ==
    LET ring == IF c \in Range(s.denied) THEN s.denied ELSE Append(s.denied, c)
    IN  [s EXCEPT !.denied =
            IF Len(ring) > MaxDenied THEN SubSeq(ring, Len(ring) - MaxDenied + 1, Len(ring)) ELSE ring]

HasApprovalGrant(s, verb) == \E g \in Range(s.grants) : g.verb = verb
AddApprovalGrant(s, g) == [s EXCEPT !.grants = Append(@, g)]

DropGrant(s, k) == [s EXCEPT !.grants = RemoveAt(@, k)]

\* Mutant: a grant is looked up and not used up.
ConsumeNothing(s, verb) == s

\* The first matching grant is used: a one-time grant goes, a session-wide
\* one stays.
ConsumeApprovalGrant(s, verb) ==
    LET k == Min({j \in 1..Len(s.grants) : s.grants[j].verb = verb})
    IN  IF s.grants[k].scope = "once" THEN DropGrant(s, k) ELSE s
UsesOneTime(s, verb) ==
    LET k == Min({j \in 1..Len(s.grants) : s.grants[j].verb = verb}) IN s.grants[k].scope = "once"

\* The three pairs of methods for remotes, ephemeral packages and changed
\* MCP binaries: an ask is marked, and a run that is seen redeems the mark.
MarkPendingReuse(s, r) == [s EXCEPT !.pendingReuse = @ \cup {r}]
PromotePendingReuse(s, r) ==
    [s EXCEPT !.pendingReuse = @ \ {r}, !.reusable = @ \cup ({r} \cap s.pendingReuse)]

MarkPendingAutoLease(s) == [s EXCEPT !.pendingHost = TRUE]
ConsumePendingAutoLease(s) == [s EXCEPT !.pendingHost = FALSE]

BumpMCPOnboardingCall(s, m) == [s EXCEPT !.onboarded[m] = @ + 1]
SetPendingInstall(s) == [s EXCEPT !.pendingInstall = TRUE]
ClearPendingInstall(s) == [s EXCEPT !.pendingInstall = FALSE]

ClearTransientRestrictions(s) ==
    [s EXCEPT !.secret = FALSE, !.ever = FALSE, !.apprTurn = 0, !.untrustedRead = FALSE,
              !.untrustedTurn = FALSE, !.fingerprints = FALSE, !.alert = FALSE,
              !.posture = "normal", !.tainted = {}, !.acked = {}]
=============================================================================
