----------------------------- MODULE MCHookGate -----------------------------
(***************************************************************************)
(* TLC instances of HookGate: scenarios and call ids.                       *)
(***************************************************************************)
EXTENDS HookGate, TLC

CONSTANTS c1, c2, c3, m1

ReadSecret == Intent("Read", "read_ref", "env")
ReadPackage == Intent("Read", "read_ref", "pkg")
WriteFile == Intent("Write", "stage_write", "out")
CopyEnv == Intent("Bash", "execute_dry_run", "env")
Commit == Intent("Bash", "commit", "out")
PushOrigin == Intent("Bash", "push_origin", "out")
PushRemote == Intent("Bash", "push_remote", "out")
Upload == Intent("Bash", "net_external", "out")
UploadAllowed == Intent("Bash", "net_allowlisted", "out")
Curl == Intent("Bash", "net_external", "none")
PipeToShell == Shaped(Intent("Bash", "execute_dry_run", "none"), "opaque")
Tunnel == Shaped(Intent("Bash", "dns_lookup", "none"), "tunnel")
WriteOwnState == Shaped(Intent("Write", "stage_write", "none"), "own_state")
GitConfig == Shaped(Intent("Bash", "execute_dry_run", "none"), "git_config")
NewPackage == Shaped(Intent("Bash", "execute_dry_run", "none"), "install_new")
Npx == Intent("Bash", "run_ephemeral", "none")
Fetch == Intent("WebFetch", "net_external", "none")
DumpEnv == Intent("Bash", "env_read", "none")
PrintPath == Shaped(DumpEnv, "safe_env")
MCPNetCall == [MCPCall(m1, "none") EXCEPT !.verb = "mcp_network_unapproved"]
SirCommand == Intent("Bash", "sir_self", "none")
Delegate == Intent("Agent", "delegate", "none")
Subagent == Intent("Subagent", "delegate", "none")

MCCalls == {c1, c2, c3}
MCServers == {m1}
MCReusables == {"push_origin", "push_remote", "run_ephemeral", m1}
Interchangeable == Permutations(CallIds)

Scenario(profiles, intents) ==
    [profiles |-> profiles, intents |-> intents, grants |-> {},
     elicits |-> FALSE, calls |-> 3, approvals |-> 0, turns |-> 1]

TwoTurns(s) == [s EXCEPT !.turns = 2]
TwoCalls(s) == [s EXCEPT !.calls = 2]

\* Secrets: reading one and every way out, and the files they get into, by
\* the Write tool after a read or by a command that copies.
Secrets == TwoTurns(Scenario({UpgradedProfile, Observing(PersonalProfile)},
                             {ReadSecret, Curl, Verbatim(Curl), Delegate, Subagent}))
Written == TwoTurns(Scenario({UpgradedProfile}, {ReadSecret, WriteFile, PushOrigin, Upload}))
Copied == TwoTurns(TwoCalls(Scenario({UpgradedProfile, PersonalProfile},
                                     {CopyEnv, WriteFile, Commit, PushOrigin, PushRemote, Upload, UploadAllowed})))

\* Foreign content: an MCP server that may turn hostile, and the rules that
\* spare the developer prompts.
Mcp == Scenario({PersonalProfile},
                {MCPCall(m1, "none"), MCPCall(m1, "out"), Verbatim(MCPCall(m1, "none")),
                 WriteFile, Curl, PushOrigin})
Friction == [TwoCalls(Scenario({PersonalProfile}, {MCPNetCall, Npx, Fetch, PrintPath, Delegate}))
                 EXCEPT !.elicits = TRUE]

\* Approvals: one-time grants, and an authoritative policy provider.
Once(verb) == [verb |-> verb, scope |-> "once"]
Grant == [TwoCalls(Scenario({PersonalProfile, StrictProfile}, {ReadSecret, PushRemote}))
              EXCEPT !.grants = {Once("read_ref"), Once("push_remote")}, !.approvals = 2]
Provider ==
    [TwoCalls(Scenario({Authoritative(Thinking(Unscoped(PersonalProfile)), "ask"),
               Authoritative(Observing(PersonalProfile), "failing"),
               Authoritative(Observing(PersonalProfile), "allow")},
              {ReadPackage, PipeToShell, UploadAllowed, Verbatim(Curl), Npx, DumpEnv, NewPackage, GitConfig, Tunnel,
               SirCommand, WriteOwnState}
                  \cup {Shaped(MCPCall(m1, "none"), shape) : shape \in {"fresh", "off_scope", "drifted"}}))
         EXCEPT !.grants = {Once("mcp_scope")}, !.approvals = 1]

MCScenarios ==
    [secrets |-> Secrets, written |-> Written, copied |-> Copied, mcp |-> Mcp, friction |-> Friction,
     grants |-> Grant, provider |-> Provider]

ASSUME SendsAloneHolds == SendsAlone
=============================================================================
