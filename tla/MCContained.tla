---------------------------- MODULE MCContained ----------------------------
(***************************************************************************)
(* TLC instance of Contained.                                              *)
(***************************************************************************)
EXTENDS Contained, TLC

CONSTANTS r1, r2, c1, c2

MCNames == {"localhost", "api", "host", "down"}
MCLoopback == {"localhost"}
Lo == [ip |-> "lo", v6 |-> FALSE, lo |-> TRUE]
A4 == [ip |-> "a4", v6 |-> FALSE, lo |-> FALSE]
A6 == [ip |-> "a6", v6 |-> TRUE, lo |-> FALSE]
B4 == [ip |-> "b4", v6 |-> FALSE, lo |-> FALSE]
B6 == [ip |-> "b6", v6 |-> TRUE, lo |-> FALSE]
MCAddresses == {Lo, A4, A6, B4, B6}

Dir == [name |-> "config", under |-> "none"]
State == [name |-> "state", under |-> "none"]
Hooks == [name |-> "hooks", under |-> "config"]
Mcp == [name |-> "mcp", under |-> "none"]
Linked == [name |-> "linked", under |-> "none"]
MCSubpaths == {Dir, State}
MCLiterals == {Hooks, Mcp}

Entry(n, p) == [name |-> n, port |-> p]
Req(k, n, f, p) == [kind |-> k, host |-> [name |-> n, form |-> f], port |-> p]
Resolving(h, d) ==
    [n \in MCNames |-> IF n = "localhost" THEN {Lo} ELSE IF n = "api" THEN {A4} ELSE IF n = "host" THEN h ELSE d]

Base == [runs |-> {r1}, conns |-> {}, mode |-> "darwin", requests |-> {}, direct |-> {},
         hellos |-> {"none", "api", "down"},
         lease |-> {Entry("localhost", "none")}, agentHosts |-> {Entry("api", "443")}, extra |-> {Entry("host", "none")},
         dns |-> Resolving({A4}, {}), later |-> Resolving({B4}, {B4}), ip6 |-> "works",
         existing |-> {Dir, State, Mcp, Linked}, links |-> (Mcp :> Linked), seed |-> "clean",
         saves |-> {"clean", "secret", "unreadable"}]

\* Launches of one project that overlap, die and come back.
Launches == [Base EXCEPT !.runs = {r1, r2}, !.later = Base.dns]
LinuxLaunches == [Launches EXCEPT !.mode = "linux_offline"]
\* Two connections through the proxy while hooks change the session.
Proxied == [Base EXCEPT !.conns = {c1, c2}, !.hellos = {"none"},
              !.requests = {Req("connect", "host", "spelled", "443"), Req("http", "host", "plain", "80")}]
\* One connection of every kind, with names that are and are not allowed.
Spelled == [Base EXCEPT !.conns = {c1},
              !.requests = {Req("connect", "localhost", "plain", "8080"), Req("connect", "host", "plain", "443"),
                            Req("socks", "host", "smuggled", "443"), Req("socks", "host", "plain", "443")}]
\* Sockets in the namespace.
Direct == [Base EXCEPT !.conns = {c1}, !.mode = "linux_allowlist",
             !.dns = Resolving({A4, A6}, {}),
             !.direct = {[addr |-> a, port |-> p] : a \in MCAddresses, p \in {"443", "8080"}}]
Unguarded == [Direct EXCEPT !.existing = {Dir, State}, !.links = <<>>]
Unfiltered == [Direct EXCEPT !.ip6 = "absent"]
Failing == [Direct EXCEPT !.ip6 = "fails"]

MCWorlds == [launches |-> Launches, linux |-> LinuxLaunches,
             proxied |-> Proxied, spelled |-> Spelled, direct |-> Direct, unguarded |-> Unguarded, unfiltered |-> Unfiltered,
             failing |-> Failing]

Unresolved == [Proxied EXCEPT !.conns = {c1}, !.extra = {Entry("down", "443")},
                              !.requests = {Req("connect", "down", "plain", "443")}]
UnresolvedWorld == [unresolved |-> Unresolved]
=============================================================================
