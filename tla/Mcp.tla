-------------------------------- MODULE Mcp --------------------------------
(***************************************************************************)
(* Trust in MCP servers: the agents' config files that name them, the part *)
(* of the lease that says which are approved and what was pinned of them,  *)
(* the `sir mcp` and `sir install` commands, and the gates a call passes.  *)
(*                                                                         *)
(* A version of a server's binary, or of the tools it lists, is a number;  *)
(* 0 stands for none (the empty hash).                                     *)
(***************************************************************************)
EXTENDS Naturals, FiniteSets

CONSTANTS
    Servers,
    Explicit,       \* servers of a project section of a global config
    Launchers,      \* servers started by npx, uvx, ...: no stable binary
    Files,          \* the agents' config files, in the order they are rewritten
    FileOf,         \* server -> the file that may name it
    Versions,       \* versions of a binary and of a tool list
    Strict,         \* mcp_trust_posture
    Reuse,          \* lease.ReuseSessionApprovals
    Quiet,          \* servers with a capability scope, under lease.QuietMCPFriction
    Commands,       \* number of `sir` invocations, in the order they start
    Ops,            \* what they may be asked: [op, name]
    MaxCalls,       \* bound: calls of the agent
    MaxEdits        \* bound: changes of the world

ASSUME McpAssumption ==
    /\ Explicit \cup Quiet \subseteq Servers /\ Files \in Nat /\ FileOf \in [Servers -> 1..Files] /\ 0 \notin Versions
    /\ \A o \in Ops : /\ o.op \in {"approve", "revoke", "scan", "wrap", "install"}
                      /\ o.op \in {"approve", "revoke"} => o.name \in Servers

VARIABLES
    config,         \* file -> [ok, entry: server -> "absent" | "raw" | "wrapped" | "twice"]
    server,         \* server -> [bin, tools]
    lease,          \* [approved, rec, discovered]
    session,        \* drift acknowledgments: [pending, acked]
    cmd,
    call,           \* the agent's call
    edits, calls,
    history         \* [confirmed, shown, slipped]: approved by the operator, binaries
                    \* the operator was shown, binaries pinned that a review did not show

trust == <<config, server, lease, session, cmd, call, edits, calls, history>>

NoRec == [here |-> FALSE, pin |-> 0, wrap |-> FALSE, tools |-> 0, captured |-> FALSE]
NotFound == [here |-> FALSE, wrap |-> FALSE]
NoCall == [pc |-> "none", server |-> "none", bin |-> 0, silent |-> FALSE, pinned |-> FALSE, checked |-> FALSE]
NewCmd == [pc |-> "new", op |-> "none", name |-> "none", plan |-> {}, lease |-> <<>>, probes |-> <<>>, seen |-> 0,
           file |-> 1, doc |-> <<>>]

TrustInit ==
    /\ config = [f \in 1..Files |-> [ok |-> TRUE, entry |-> [s \in Servers |-> IF FileOf[s] = f THEN "raw" ELSE "absent"]]]
    /\ server = [s \in Servers |-> [bin |-> 1, tools |-> 1]]
    /\ lease = [approved |-> {}, rec |-> [s \in Servers |-> NoRec], discovered |-> [s \in Servers |-> NotFound]]
    /\ session = [pending |-> [s \in Servers |-> 0], acked |-> [s \in Servers |-> 0]]
    /\ cmd = [c \in 1..Commands |-> NewCmd]
    /\ call = NoCall
    /\ edits = 0 /\ calls = 0
    /\ history = [confirmed |-> {}, shown |-> {}, slipped |-> {}]

-----------------------------------------------------------------------------
(***************************************************************************)
(* Discovery, hashes and rewrites.                                         *)
(***************************************************************************)
entryOf(s) == config[FileOf[s]].entry[s]

\* Files that cannot be parsed are skipped with a warning.
DiscoverInventory == {s \in Servers : config[FileOf[s]].ok /\ entryOf(s) # "absent"}
ApprovedServerNames == DiscoverInventory
\* Mutant: every discovered server is eligible for the refresh.
AutoApprovedAll == DiscoverInventory

AutoApprovedServerNames == DiscoverInventory \ Explicit

ClassifyProxy(entry) == entry \in {"wrapped", "twice"}
PlanProxyRewrites == {s \in DiscoverInventory : ~ClassifyProxy(entryOf(s))}

\* What a stat and hash of a server's command may bring.  A launcher, a wrapped
\* entry (whose command is sir itself) and a file that is gone have no hash; a
\* file that is there may be unreadable.  HashCommand brings the same.
StatCommand(s, wrap) ==
    IF s \in Launchers \/ wrap \/ server[s].bin = 0 THEN {[ok |-> TRUE, hash |-> 0]}
    ELSE {[ok |-> TRUE, hash |-> server[s].bin], [ok |-> FALSE, hash |-> 0]}

\* What a probe of tools/list may bring: the tools, or 0 for a failure.
probeToolSchema(s) == {0} \cup {v \in {server[s].tools} : s \in DiscoverInventory}

\* Mutant: the plan is trusted.
rewritePlanned(s, entry) ==
    CASE entry = "absent" -> "absent"
      [] entry = "wrapped" -> "twice"
      [] OTHER -> "wrapped"

\* Rewriting re-reads the entry: what was wrapped meanwhile is left alone.
rewriteEntry(s, entry) ==
    CASE entry = "absent" -> "absent"
      [] ClassifyProxy(entry) -> entry
      [] OTHER -> "wrapped"

classifyScan(pinned, live) ==
    IF pinned = 0 THEN "capture" ELSE IF pinned = live THEN "ok" ELSE "drift"

\* A failed probe leaves the result's outcome at its zero value: capture.
outcome(pinned, live) == IF live = 0 THEN "capture" ELSE classifyScan(pinned, live)

-----------------------------------------------------------------------------
(***************************************************************************)
(* What the commands make of a lease.                                      *)
(***************************************************************************)
RemoveApproved(l, s) == [l EXCEPT !.approved = @ \ {s}, !.rec[s] = NoRec]

Approve(l, s, tools, hash) ==
    [l EXCEPT !.approved = @ \cup {s},
              !.rec[s] = [here |-> TRUE, pin |-> hash, wrap |-> l.discovered[s].wrap,
                          tools |-> tools, captured |-> tools # 0],
              !.discovered[s] = NotFound]

\* Pins and revocations of one scan, as the snapshot it loaded judged them.
Scanned(l, seen, probes) ==
    LET is(s, o) == s \in DOMAIN probes /\ outcome(seen.rec[s].tools, probes[s]) = o
    IN  [l EXCEPT !.approved = {s \in @ : ~is(s, "drift")},
                  !.rec = [s \in Servers |-> IF is(s, "drift") THEN NoRec
                                             ELSE IF is(s, "capture")
                                                  THEN [l.rec[s] EXCEPT !.here = TRUE, !.tools = probes[s], !.captured = TRUE]
                                             ELSE l.rec[s]]]

\* The lease install writes: in strict posture approvals are carried over
\* and new servers wait; otherwise everything found is approved.
Installed(l) ==
    LET carried == l.approved \cap ApprovedServerNames
    IN  IF ApprovedServerNames = {} THEN l
        ELSE IF ~Strict THEN [l EXCEPT !.approved = ApprovedServerNames]
        ELSE [approved |-> carried,
              rec |-> [s \in Servers |-> IF s \in carried THEN l.rec[s] ELSE NoRec],
              discovered |-> [s \in Servers |-> IF s \in ApprovedServerNames \ carried
                                                THEN [here |-> TRUE, wrap |-> ClassifyProxy(entryOf(s))] ELSE NotFound]]

\* autoApproveDiscoveredMCPServers: every hook, whatever the posture.
autoApprove(l) == [l EXCEPT !.approved = @ \cup AutoApprovedServerNames]

-----------------------------------------------------------------------------
(***************************************************************************)
(* The commands.                                                           *)
(***************************************************************************)
Finish(c) == cmd' = [cmd EXCEPT ![c] = [NewCmd EXCEPT !.pc = "done"]]

\* What has nothing to do ends at once.
Idle(o) ==
    CASE o.op = "approve" -> ~lease.discovered[o.name].here
      [] o.op = "revoke" -> o.name \notin lease.approved
      [] o.op = "scan" -> lease.approved = {}
      [] o.op = "wrap" -> PlanProxyRewrites = {}
      [] OTHER -> FALSE

\* The lease and the inventory are read without a lock.
Begin(c) ==
    \E o \in Ops :
        /\ cmd[c].pc = "new" /\ \A b \in 1..(c - 1) : cmd[b].pc # "new"
        /\ IF Idle(o) THEN Finish(c)
           ELSE cmd' = [cmd EXCEPT ![c] =
                    [@ EXCEPT !.pc = "read", !.op = o.op, !.name = o.name,
                              !.plan = IF o.op \in {"wrap", "install"} THEN PlanProxyRewrites ELSE {},
                              !.lease = CASE o.op = "install" -> Installed(lease)
                                          [] o.op \in {"approve", "scan"} -> lease
                                          [] OTHER -> cmd[c].lease]]
        /\ UNCHANGED <<config, server, lease, session, call, edits, calls, history>>

\* Approval and scan spawn the servers and read their tools.
Targets(c) == IF cmd[c].op = "scan" THEN cmd[c].lease.approved \cap DiscoverInventory ELSE {cmd[c].name}
Probe(c) ==
    /\ cmd[c].pc = "read" /\ cmd[c].op \in {"approve", "scan"}
    /\ \E probes \in [Targets(c) -> Versions \cup {0}] :
          /\ \A s \in Targets(c) : probes[s] \in probeToolSchema(s)
          /\ cmd' = [cmd EXCEPT ![c].pc = IF cmd[c].op = "approve" THEN "review" ELSE "update", ![c].probes = probes]
    /\ UNCHANGED <<config, server, lease, session, call, edits, calls, history>>

\* The review screen prints the hash of the command, or that there is none,
\* and the operator is asked.
Review(c) ==
    LET s == cmd[c].name
    IN  /\ cmd[c].pc = "review"
        /\ \E r \in StatCommand(s, cmd[c].lease.discovered[s].wrap) :
              /\ cmd' = [cmd EXCEPT ![c].pc = "update", ![c].seen = r.hash]
              /\ history' = IF r.hash # 0 THEN [history EXCEPT !.shown = @ \cup {<<s, r.hash>>}] ELSE history
        /\ UNCHANGED <<config, server, lease, session, call, edits, calls>>

\* The operator says no to an approval, a wrap or an installation.
Decline(c) ==
    /\ \/ cmd[c].pc = "update" /\ cmd[c].op = "approve"
       \/ cmd[c].pc = "read" /\ cmd[c].op \in {"wrap", "install"}
    /\ Finish(c)
    /\ UNCHANGED <<config, server, lease, session, call, edits, calls, history>>

\* updateProjectLeaseAndSessionBaseline: load, change and save under the lock.
\* What is pinned is hashed now, after the answer; without a hash, nothing is.
UpdateApprove(c) ==
    LET s == cmd[c].name
        found == cmd[c].lease.discovered[s]
    IN  /\ cmd[c].pc = "update" /\ cmd[c].op = "approve"
        /\ \E r \in StatCommand(s, found.wrap) :
              /\ lease' = Approve([lease EXCEPT !.discovered[s] = found], s, cmd[c].probes[s], r.hash)
              /\ history' = [history EXCEPT !.confirmed = @ \cup {s},
                                            !.slipped = @ \cup ({<<s, r.hash>>} \ {<<s, 0>>, <<s, cmd[c].seen>>})]
        /\ Finish(c)
        /\ UNCHANGED <<config, server, session, call, edits, calls>>

UpdateScan(c) ==
    /\ cmd[c].pc = "update" /\ cmd[c].op = "scan"
    /\ lease' = Scanned(lease, cmd[c].lease, cmd[c].probes)
    /\ Finish(c)
    /\ UNCHANGED <<config, server, session, call, edits, calls, history>>

UpdateRevoke(c) ==
    /\ cmd[c].pc = "read" /\ cmd[c].op = "revoke"
    /\ lease' = RemoveApproved(lease, cmd[c].name)
    /\ Finish(c)
    /\ UNCHANGED <<config, server, session, call, edits, calls, history>>

\* RewriteDiscoveredServers, one file after the other: read ...
ReadDoc(c) ==
    LET f == cmd[c].file
    IN  /\ cmd[c].pc = "read" /\ cmd[c].op \in {"wrap", "install"} /\ f <= Files
        /\ cmd' = [cmd EXCEPT ![c] =
              IF {s \in cmd[c].plan : FileOf[s] = f} = {} THEN [@ EXCEPT !.file = f + 1]
              ELSE IF ~config[f].ok THEN [NewCmd EXCEPT !.pc = "done"]
              ELSE [@ EXCEPT !.pc = "write", !.doc = config[f].entry]]
        /\ UNCHANGED <<config, server, lease, session, call, edits, calls, history>>

\* ... and write what was read, changed.
WriteDoc(c) ==
    LET f == cmd[c].file
        doc == [s \in Servers |-> IF s \in cmd[c].plan THEN rewriteEntry(s, cmd[c].doc[s]) ELSE cmd[c].doc[s]]
    IN  /\ cmd[c].pc = "write"
        /\ config' = IF doc = cmd[c].doc THEN config ELSE [config EXCEPT ![f] = [ok |-> TRUE, entry |-> doc]]
        /\ cmd' = [cmd EXCEPT ![c] = [@ EXCEPT !.pc = "read", !.file = f + 1, !.doc = <<>>]]
        /\ UNCHANGED <<server, lease, session, call, edits, calls, history>>

\* Install saves the lease it computed before its prompt, and starts a new
\* session.
SaveLease(c) ==
    /\ cmd[c].pc = "read" /\ cmd[c].file > Files
    /\ IF cmd[c].op = "install"
       THEN /\ lease' = cmd[c].lease
            /\ session' = [pending |-> [s \in Servers |-> 0], acked |-> [s \in Servers |-> 0]]
       ELSE UNCHANGED <<lease, session>>
    /\ Finish(c)
    /\ UNCHANGED <<config, server, call, edits, calls, history>>

-----------------------------------------------------------------------------
(***************************************************************************)
(* A call: PreToolUse, the operator's answer, PostToolUse.  Each hook holds*)
(* the session lock.                                                       *)
(***************************************************************************)
\* What a call of an approved server is mapped to: a URL of a host that is not
\* approved among its arguments, or none.
Verbs == {"execute_dry_run", "mcp_network_unapproved"}

\* evaluateMCPBinaryDrift, for a stat r: one that failed is no drift.
Drifted(r, rec) == rec.pin # 0 /\ r.ok /\ r.hash # rec.pin

\* Mutant: an acknowledgment stands for the server, whatever its binary.
AcknowledgedOnce(s, hash) == Reuse /\ session.acked[s] # 0

Acknowledged(s, hash) == Reuse /\ hash # 0 /\ session.acked[s] = hash

\* The drift gate looks at dry-run calls; the ask about a host is spared a
\* server of Quiet.  safe: autoLeaseSafeContext, which is HookGate's.
PreToolUse(s) ==
    LET l == autoApprove(lease)
        known == s \in l.approved
    IN  /\ call.pc = "none" /\ calls < MaxCalls
        /\ lease' = l
        /\ \E verb \in Verbs, safe \in BOOLEAN, r \in StatCommand(s, l.rec[s].wrap) :
              LET gated == known /\ verb = "execute_dry_run"
                  drift == gated /\ Drifted(r, l.rec[s]) /\ ~(safe /\ Acknowledged(s, r.hash))
                  silent == known /\ IF gated THEN ~drift ELSE safe /\ s \in Quiet
              IN  /\ session' = IF drift /\ Reuse /\ safe /\ r.hash # 0
                                THEN [session EXCEPT !.pending[s] = r.hash] ELSE session
                  /\ call' = [pc |-> IF silent THEN "run" ELSE "asked", server |-> s, bin |-> server[s].bin,
                              silent |-> silent, pinned |-> l.rec[s].pin # 0, checked |-> gated /\ r.ok]
                  /\ history' = IF drift THEN [history EXCEPT !.shown = @ \cup {<<s, r.hash>>}] ELSE history
        /\ calls' = calls + 1
        /\ UNCHANGED <<config, server, cmd, edits>>

Answer(yes) ==
    /\ call.pc = "asked"
    /\ call' = IF yes THEN [call EXCEPT !.pc = "run"] ELSE NoCall
    /\ UNCHANGED <<config, server, lease, session, cmd, edits, calls, history>>

\* promoteSessionApprovalsOnPost: the tool ran, so its ask was approved.  Only
\* in a safe context, which an MCP call that printed something is not.
PostToolUse ==
    LET s == call.server
    IN  /\ call.pc = "run"
        /\ lease' = autoApprove(lease)
        /\ \/ /\ Reuse /\ session.pending[s] # 0
              /\ session' = [pending |-> [session.pending EXCEPT ![s] = 0],
                             acked |-> [session.acked EXCEPT ![s] = session.pending[s]]]
           \/ UNCHANGED session
        /\ call' = NoCall
        /\ UNCHANGED <<config, server, cmd, edits, calls, history>>

-----------------------------------------------------------------------------
(***************************************************************************)
(* The world: new binaries, new tools, edited and damaged config files.    *)
(***************************************************************************)
Edit ==
    /\ edits < MaxEdits
    /\ edits' = edits + 1
    /\ \/ \E s \in Servers \ Launchers, v \in Versions \cup {0} : v # server[s].bin /\ server' = [server EXCEPT ![s].bin = v] /\ UNCHANGED config
       \/ \E s \in Servers, v \in Versions : v > server[s].tools /\ server' = [server EXCEPT ![s].tools = v] /\ UNCHANGED config
       \/ \E s \in Servers, e \in {"raw", "absent"} :
             e # entryOf(s) /\ config' = [config EXCEPT ![FileOf[s]].entry[s] = e] /\ UNCHANGED server
       \/ \E f \in 1..Files : config[f].ok /\ config' = [config EXCEPT ![f].ok = FALSE] /\ UNCHANGED server
    /\ UNCHANGED <<lease, session, cmd, call, calls, history>>

TrustNext ==
    \/ \E c \in 1..Commands :
          \/ Begin(c) \/ Probe(c) \/ Review(c) \/ Decline(c) \/ UpdateApprove(c) \/ UpdateScan(c) \/ UpdateRevoke(c)
          \/ ReadDoc(c) \/ WriteDoc(c) \/ SaveLease(c)
    \/ \E s \in Servers : PreToolUse(s)
    \/ \E yes \in BOOLEAN : Answer(yes)
    \/ PostToolUse
    \/ Edit

-----------------------------------------------------------------------------
(***************************************************************************)
(* Properties.                                                             *)
(***************************************************************************)
\* In strict posture a server that needs an explicit approval has one: no
\* refresh by a hook, no re-install and no save of an old copy puts it into
\* the lease unless an operator ran `sir mcp approve` for it.
ExplicitNeedsApproval == Strict => lease.approved \cap Explicit \subseteq history.confirmed

\* When the drift gate checked a call to a server whose own binary is pinned
\* and let it go without a question, it found a binary the operator has been
\* shown, at the review or by a drift question, or one that replaced it between
\* that review and the pin; whatever was swapped, restored, acknowledged or
\* saved from an old copy of the lease since.
NoUnseenSwap ==
    call.silent /\ call.pinned /\ call.checked => <<call.server, call.bin>> \in history.shown \cup history.slipped

\* What approval pins is what its review showed ("Show a single review screen
\* with provenance so the user can see what they are approving",
\* mcp_approve.go).  It is hashed again after the answer.
PinsWereShown == history.slipped = {}

\* A swapped binary is not reached in silence whatever the call's verb: the
\* verbs the drift gate leaves to others "already surfaced a more specific
\* concern" (evaluateMCPBinaryDrift).  The ask about a host is spared a server
\* of Quiet, and a binary that cannot be read counts as no drift.
DriftSurfaced == call.silent /\ call.pinned => <<call.server, call.bin>> \in history.shown \cup history.slipped

\* Wraps and installs in parallel, on plans that are old by the time they
\* are carried out, never put a proxy around a proxy.
WrappedOnce == \A f \in 1..Files, s \in Servers : config[f].entry[s] # "twice"

\* "Probe failures change nothing — a transient launch error must not
\* silently drop a pin" (cmdMCPScan).  It does: a record that says its tools
\* were captured holds no digest.
ProbeKeepsPin == \A s \in Servers : lease.rec[s].captured => lease.rec[s].tools # 0
=============================================================================
