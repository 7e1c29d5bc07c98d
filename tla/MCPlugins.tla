----------------------------- MODULE MCPlugins -----------------------------
EXTENDS Plugins

(***************************************************************************)
(* The registry and the hooks.                                             *)
(***************************************************************************)
Policy(says) == Ran(<<Doc("policy", says)>>)
MCKind == [a |-> "policy", b |-> "policy", e |-> "effect", x |-> "export", r |-> "advisory"]
MCNames == DOMAIN MCKind

Cmd(op, name, other) == [op |-> op, name |-> name, other |-> other, onfail |-> "deny"]
MCOps ==
    {Cmd("authoritative", "a", "a"), [Cmd("authoritative", "b", "b") EXCEPT !.onfail = "ask"],
     Cmd("swap", "a", "b"), Cmd("status", "a", "a"), Cmd("uninstall", "a", "a"),
     Cmd("install", "a", "a"), Cmd("advisory", "a", "a"), Cmd("disable", "e", "e"), Cmd("use", "a", "a"),
     Cmd("enable", "e", "e"), Cmd("configure", "b", "b"), Cmd("with_provider", "a", "a")}
MCReplies ==
    {Policy(says) : says \in {<<"allow">>, <<"ask">>, <<"deny">>, <<"typo">>, <<"allow", "typo">>, <<"allow", "deny">>}}
    \cup {Ran(<<>>), Ran(<<Garbage>>), [Ran(<<>>) EXCEPT !.stderr = "failed"], [Ran(<<>>) EXCEPT !.end = "hang"],
          [Policy(<<"allow">>) EXCEPT !.end = "exit"]}
MCAssessments == {Ran(<<Doc("advisory", <<r>>)>>) : r \in {"low", "severe", "critical"}} \cup {Ran(<<>>)}
MCNatives == [h1 |-> {"allow", "workflow", "ask", "deny"}]
MCHooks == {"h1"}

(***************************************************************************)
(* The kernel and its tools.                                               *)
(***************************************************************************)
Sig(rel, type, sens, mark) ==
    [valid |-> TRUE, rel |-> rel, pre |-> rel # "observed_runtime", type |-> type, sens |-> sens,
     agent |-> FALSE, mark |-> mark, scope |-> "s1",
     provider |-> IF rel = "observed_runtime" THEN "sensor" ELSE IF rel = "mediated_action" THEN "runner" ELSE "none"]
In(mode, sigs) ==
    [mode |-> mode, flags |-> {}, signals |-> sigs, taint |-> {}, caps |-> {}, real |-> FALSE, scoped |-> {},
     resolved |-> FALSE, advice |-> {}]

\* The first signal of a case varies most; the second brings a sensitivity.
Firsts ==
    {Sig("declared_intent", "file_read", s, m) : s \in {"none", "credential", "external_network", "high"},
                                                 m \in {"none", "githook", "sirconf"}}
    \cup {Sig("observed_runtime", t, s, "none") : t \in {"shell_exec", "network_connect"},
                                                  s \in {"credential", "external_network", "medium", "critical"}}
    \cup {Sig("enforced_boundary", "shell_exec", "external_network", "dangerous"),
          Sig("mediated_action", "mcp_trust", "low", "none"),
          [Sig("declared_intent", "vcs_push", "low", "cicd") EXCEPT !.agent = TRUE],
          [Sig("declared_intent", "vcs_push", "external_network", "none") EXCEPT !.valid = FALSE]}
Seconds == {Sig("observed_runtime", "none", s, "none") : s \in {"high", "external_network", "credential", "low"}}
SignalSets == {<<>>} \cup {<<a>> : a \in Firsts} \cup {<<a, b>> : a \in Firsts, b \in Seconds}

MCCases ==
    {[In(m, s) EXCEPT !.flags = f, !.caps = c, !.real = c # {}, !.taint = t, !.advice = v, !.resolved = v = {}] :
        m \in {"hook_gate", "os_observed", "mediated", "contained"}, s \in SignalSets,
        f \in {{}, {"span_stripped"}, {"effect_unavailable", "fail_closed"}},
        c \in {{}, {"contain"}}, t \in {{}, {"credential_access"}}, v \in {{}, {"deny"}}}

At(scope, in) == [in EXCEPT !.signals = [i \in DOMAIN @ |-> [@[i] EXCEPT !.scope = scope]]]
MCCalls ==
    {At(s, In("os_observed", <<Sig("observed_runtime", "shell_exec", x, "none")>>)) :
        s \in {"s1", "s2"}, x \in {"credential", "external_network", "low"}}
    \cup {At("s1", In("hook_gate", <<Sig("declared_intent", "file_write", "medium", "cicd")>>)),
          At("s2", In("hook_gate", <<[Sig("declared_intent", "file_read", "credential", "none") EXCEPT !.valid = FALSE],
                                     Sig("declared_intent", "file_read", "high", "none")>>)),
          At("none", In("hook_gate", <<Sig("declared_intent", "file_read", "credential", "none"),
                                       Sig("observed_runtime", "none", "external_network", "none")>>))}

\* A replay without --use-providers takes the fixture's advice.
MCReplayed ==
    {[In("hook_gate", <<Sig("declared_intent", y, "low", "none")>>) EXCEPT !.taint = t, !.advice = v] :
        y \in {"file_read", "vcs_push"}, t \in {{}, {"credential_access"}}, v \in {{"ask"}}}
    \cup {In("os_observed", <<Sig("observed_runtime", "vcs_push", "external_network", "none")>>)}

Hang == [end |-> "hang", stderr |-> "none", out |-> <<>>]
Complains(what) == [Ran(<<>>) EXCEPT !.stderr = what]
PolicyProcesses ==
    {Policy(<<"allow">>), Policy(<<"ask">>), Policy(<<"allow", "deny">>), Policy(<<"typo">>), Ran(<<>>), Hang,
     Complains("unavailable"), Ran(<<Garbage>>)}
MCLive ==
    {[reg |-> "ok", ps |-> ps] : ps \in {{Policy(<<"allow", "typo">>)}, {Policy(<<"deny">>), Hang}, {Complains("failed")}}}
    \cup {[reg |-> r, ps |-> {}] : r \in {"damaged", "disabled"}}

Caps(says) == Ran(<<Doc("capabilities", says)>>)
MCEffectReplies == {{}, {Caps(<<"block", "contain">>)}, {Ran(<<Doc("other", <<"block">>)>>), Hang}}

MCRequests ==
    {[action |-> a, taint |-> t, agent |-> g] :
        a \in {"commit", "vcs_commit", "push_origin", "net_external", "dns_lookup", "list_files", "vcs_diff", "mcp_trust"},
        t \in {{}, {"credential_access"}}, g \in BOOLEAN}

Good == [f \in {"schema", "kind", "protocol", "entrypoint", "capabilities", "enforcement", "fixture"} |-> TRUE]
Declared == [rel |-> {"declared_intent"}, timing |-> {}]
Values == {"allow", "deny", "typo", "critical", "severe", "applied", "verified"}
Lines ==
    {<<>>, <<Garbage>>} \cup {<<Doc(s, <<v>>)>> : s \in {"policy", "advisory", "effect"}, v \in Values}
    \cup {<<Doc("policy", <<"ask", "deny">>)>>, <<Doc("policy", <<"ask">>), Garbage>>,
          <<[Doc("policy", <<"ask">>) EXCEPT !.advisory = FALSE]>>, <<[Doc("effect", <<"failed">>) EXCEPT !.id = "other"]>>,
          <<[Doc("signal", <<>>) EXCEPT !.rel = "enforced_boundary"]>>, <<Doc("signal", <<>>)>>}
MCTried ==
    {[kind |-> k, fixture |-> k, manifest |-> [Good EXCEPT !.fixture = f], caps |-> c,
      reply |-> [end |-> e, stderr |-> x, out |-> o], declared |-> Declared] :
        k \in {"policy", "advisory", "effect", "signal"}, f \in BOOLEAN,
        c \in {Caps(<<"block">>), Ran(<<Garbage>>)}, e \in {"ok", "exit", "hang"}, x \in {"none", "failed"}, o \in Lines}
=============================================================================
