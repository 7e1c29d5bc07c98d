---------------------------- MODULE McpServers -----------------------------
(***************************************************************************)
(* MCP servers as a whole: the trust in them (Mcp) and the proxy one runs  *)
(* under (McpProxy).  The two share the config entry only, which the agent *)
(* reads when it launches the server; the steps of a launched proxy are    *)
(* explored from there on their own.                                       *)
(***************************************************************************)
EXTENDS Mcp, McpProxy

vars == <<trust, proxy>>

Init == TrustInit /\ ProxyInit

\* The agent launches a server whose entry is wrapped.
Launchable ==
    /\ edits = 0 /\ calls = 0 /\ \A c \in 1..Commands : cmd[c].pc \in {"new", "done"}
    /\ \E s \in Servers : ClassifyProxy(entryOf(s))

Next ==
    \/ px.pc = "off" /\ TrustNext /\ UNCHANGED proxy
    \/ (px.pc # "off" \/ Launchable) /\ ProxyNext /\ UNCHANGED trust

\* The proxy's goroutines run; what the server does is up to it.
Fairness == WF_vars(UNCHANGED trust /\ (Scan \/ Eof)) /\ WF_vars(UNCHANGED trust /\ Forward)
            /\ WF_vars(UNCHANGED trust /\ (Wait \/ ForwarderDone \/ Leave))

Spec == Init /\ [][Next]_vars /\ Fairness
=============================================================================
