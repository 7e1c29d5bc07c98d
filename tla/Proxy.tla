------------------------------- MODULE Proxy -------------------------------
(***************************************************************************)
(* What `sir run` lets a contained agent reach (pkg/runtime): the list of  *)
(* exact destinations, the pins of the local proxy, the gate that mirrors  *)
(* the hooks' floors, and the packet filter of the Linux namespace.        *)
(* Handlers as operators; Contained.tla has the state.                     *)
(*                                                                         *)
(* A host is a name and the form it is spelled in: "plain", "spelled"      *)
(* (upper case, trailing dot, URL) or "smuggled" (bytes no host name has). *)
(* An address is [ip, v6, lo], lo for the loopback device.  An entry       *)
(* without a port has port "none".                                         *)
(***************************************************************************)
EXTENDS FiniteSets

CONSTANTS Names, Loopback, Addresses
ASSUME LoopbackAssumption == Loopback \subseteq Names
ASSUME AddressAssumption == \A a \in Addresses : a.v6 \in BOOLEAN /\ a.lo \in BOOLEAN

\* ip6tables on the machine: not there, there and working, there but failing
\* (a kernel without the IPv6 filter).
IPv6Filters == {"absent", "works", "fails"}

AnyPort == "*"
defaultExternalDestinationPorts == {"22", "80", "443"}
Postures == {"absent", "clean", "was_secret", "locked", "secret", "untrusted", "unreadable"}

-----------------------------------------------------------------------------
(***************************************************************************)
(* Exact destinations.                                                     *)
(***************************************************************************)
\* NormalizeProxyHost undoes spelling; a smuggled name stays what it is.
NormalizeProxyHost(h) == IF h.form = "spelled" THEN [h EXCEPT !.form = "plain"] ELSE h
safeProxyHost(h) == h.form = "plain"
isLoopbackRuntimeHost(h) == safeProxyHost(h) /\ h.name \in Loopback

expandRuntimeDestinations(e) ==
    IF e.port # "none" THEN {<<e.name, e.port>>}
    ELSE {e.name} \X (IF e.name \in Loopback THEN {AnyPort} ELSE defaultExternalDestinationPorts)

buildRuntimeAllowlist(entries) == UNION {expandRuntimeDestinations(e) : e \in entries}
HostsOf(list) == {d[1] : d \in list}

Allows(list, h, port) ==
    safeProxyHost(h) /\ (<<h.name, AnyPort>> \in list \/ <<h.name, port>> \in list)

\* The lease, the agent's own hosts and --allow-host, merged at launch.
buildRuntimeAllowlistForProject(lease, agentHosts, extra) ==
    buildRuntimeAllowlist(lease \cup agentHosts \cup extra)

-----------------------------------------------------------------------------
(***************************************************************************)
(* The local proxy (macOS).                                                *)
(***************************************************************************)
\* seedAllowlist pins every host to the addresses it has at launch; a host
\* that does not resolve is skipped and has no pin.
seedAllowlist(list, dns) == [n \in HostsOf(list) |-> dns[n]]

\* Mutant: the name is resolved again for every connection.
dialTargetsFresh(pins, dns, h) == dns[h.name]

\* The addresses tried for an allowed host: its pins, else whatever the
\* dialer resolves the name to now.
allowedDialTargets(pins, dns, h) == IF pins[h.name] # {} THEN pins[h.name] ELSE dns[h.name]

\* The negotiated TLS name must be the CONNECT host or allowed itself; a
\* hello without one passes.
sniAllowed(list, sni, h, port) ==
    \/ sni = "none" \/ sni = h.name
    \/ Allows(list, [name |-> sni, form |-> "plain"], port)

\* postureGate.evaluate: the hard floors of the hook layer and nothing else.
PostureDenies(posture) == posture \in {"locked", "secret", "untrusted", "unreadable"}

\* Mutant: the file is read once.
FreshOnce(cache, mtime, posture) == cache.known

\* The cached answer serves while the file keeps the time it was read with.
Fresh(cache, mtime, posture) == cache.known /\ posture # "absent" /\ cache.mtime = mtime
Unread == [known |-> FALSE, mtime |-> 0, deny |-> FALSE]
Remember(mtime, posture) == [known |-> TRUE, mtime |-> mtime, deny |-> PostureDenies(posture)]

-----------------------------------------------------------------------------
(***************************************************************************)
(* The network namespace (Linux).                                          *)
(***************************************************************************)
\* Every allowed host at its addresses, wildcard ports left out.
resolveRuntimeDestinations(list, dns) ==
    UNION {dns[d[1]] \X {d[2]} : d \in {d \in list : d[2] # AnyPort}}

ResolveFails(list, dns) == \E d \in list : dns[d[1]] = {}

\* ensureLinuxIPv6Filtering: IPv6 destinations need ip6tables.
\* It is looked for, not tried.
ensureLinuxIPv6Filtering(resolved, ip6) == ip6 # "absent" \/ \A d \in resolved : ~d[1].v6

\* The rules of the bootstrap script.  Each family drops by default once the
\* script has set its policy: IPv4 when there are IPv4 destinations (a failing
\* iptables ends the script), IPv6 when ip6tables is there and does not fail:
\* its failure is tolerated (`|| true`) and leaves IPv6 open.
FilterAccepts(resolved, ip6, addr, port) ==
    \/ addr.lo
    \/ <<addr, port>> \in resolved
    \/ IF addr.v6 THEN resolved = {} \/ ip6 # "works" ELSE \A d \in resolved : d[1].v6

-----------------------------------------------------------------------------
(***************************************************************************)
(* Write guards: a path is [name, under], under the directory it lies in   *)
(* or "none".                                                              *)
(***************************************************************************)
\* A guarded path stands for itself and for the file it is a link to.
runGuardTargets(links, p) == {p} \cup {links[q] : q \in DOMAIN links \cap {p}}
runProtectedWriteGuardsForAgent(links, paths) == UNION {runGuardTargets(links, p) : p \in paths}

\* Mutant: only the directories are required.
missingSubpathsOnly(subpaths, literals, existing) == subpaths \ existing

\* What has to be on disk before a Linux launch: every guarded directory,
\* and every guarded file that no existing guarded directory covers.
linuxMissingGuardTargets(subpaths, literals, existing) ==
    (subpaths \ existing) \cup {p \in literals \ existing : p.under \notin {q.name : q \in subpaths \cap existing}}

\* bind_readonly skips what does not exist.
ReadOnly(subpaths, literals, existing) ==
    LET bound == (subpaths \cup literals) \cap existing
    IN  bound \cup {p \in literals : p.under \in {q.name : q \in bound \cap subpaths}}

\* The macOS profile denies writes whether the path exists or not.
BuildDarwinProfile(subpaths, literals) == subpaths \cup literals
=============================================================================
