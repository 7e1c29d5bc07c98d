----------------------------- MODULE Contained -----------------------------
(***************************************************************************)
(* `sir run`: launchers that start an agent inside a boundary, describe it *)
(* in runtime.json, keep a heartbeat, clean up after it, and prune what a  *)
(* dead launcher left; and the connections the agent makes meanwhile.      *)
(* One project, several launches of it at the same time.                   *)
(***************************************************************************)
EXTENDS Proxy, Naturals

CONSTANTS
    Worlds,         \* records by name: runs, conns, mode, requests, direct, hellos,
                    \* lease, agentHosts, extra, dns, later, ip6, existing, links, seed, saves
    Subpaths,       \* guarded directories
    Literals,       \* guarded files
    MaxWrites       \* bound on the hooks' saves of the shadow session

ASSUME WritesAssumption == MaxWrites \in Nat
ASSUME WorldsAssumption ==
    \A n \in DOMAIN Worlds :
        /\ Worlds[n].seed \in Postures /\ Worlds[n].saves \subseteq Postures
        /\ DOMAIN Worlds[n].links \subseteq Subpaths \cup Literals
        /\ \A e \in Worlds[n].lease \cup Worlds[n].agentHosts \cup Worlds[n].extra : e.name \in Names
        /\ {Worlds[n].dns, Worlds[n].later} \subseteq [Names -> SUBSET Addresses]
        /\ \A q \in Worlds[n].direct : q.addr \in Addresses
        /\ Worlds[n].ip6 \in IPv6Filters

AllRuns == UNION {Worlds[w].runs : w \in DOMAIN Worlds}
AllConns == UNION {Worlds[w].conns : w \in DOMAIN Worlds}
NoDesc == [run |-> "none", beat |-> "none"]
NoRun == "none"
ASSUME RunsAssumption == NoRun \notin AllRuns

VARIABLES
    world,
    desc,           \* runtime.json
    receipt,        \* the run of runtime-last.json
    run,            \* the launchers
    conn,           \* the connections of contained agents
    dns             \* what names resolve to now

vars == <<world, desc, receipt, run, conn, dns>>

W == Worlds[world]
Idle == [pc |-> "idle", agent |-> "none", left |-> FALSE, seen |-> NoDesc, beat |-> NoDesc,
         shadow |-> "removed", mtime |-> 0, list |-> {}, pins |-> <<>>, resolved |-> {},
         readonly |-> {}, cache |-> Unread]
NoConn == [pc |-> "new", run |-> NoRun, kind |-> "none", host |-> "none", port |-> "none", addr |-> {},
           gate |-> "off", stat |-> 0, tainted |-> FALSE]

Linux == W.mode # "darwin"
Up == {"started", "released", "running", "exited", "reaped", "recorded", "removed"}
LauncherAlive(r) == run[r].pc \notin {"idle", "done", "dead"}
AgentAlive(r) == run[r].agent \in {"waiting", "running"}
runtimeProcessAlive(d) == LauncherAlive(d.run) \/ AgentAlive(d.run)

\* InspectRuntimeContainment.
Health(d) ==
    IF d = NoDesc THEN IF receipt = NoRun THEN "none" ELSE "inactive"
    ELSE IF run[d.run].shadow = "removed" \/ d.beat = "expired" THEN "stale"
    ELSE IF Linux THEN "active" ELSE "degraded"

Init ==
    /\ world \in DOMAIN Worlds
    /\ desc = NoDesc /\ receipt = NoRun
    /\ run = [r \in AllRuns |-> Idle]
    /\ conn = [c \in AllConns |-> NoConn]
    /\ dns = W.dns

Move(r, pc) == [run EXCEPT ![r].pc = pc]
Hang(r) == [c \in AllConns |-> IF conn[c].run = r /\ conn[c].pc \notin {"blocked", "torn", "sent"}
                                 THEN [conn[c] EXCEPT !.pc = "closed", !.gate = "off", !.stat = 0] ELSE conn[c]]

-----------------------------------------------------------------------------
(***************************************************************************)
(* The launcher.                                                           *)
(***************************************************************************)
\* Mutant: an expired heartbeat is proof enough.
PrunableExpired(d) == Health(d) = "stale"

\* A stale descriptor is pruned unless it only missed heartbeats and one of
\* its processes is alive.
Prunable(d) ==
    /\ Health(d) = "stale"
    /\ ~(run[d.run].shadow # "removed" /\ runtimeProcessAlive(d))

\* PruneStaleRuntimeContainment looks at the descriptor ...
Inspect(r) ==
    /\ run[r].pc = "idle"
    /\ run' = [run EXCEPT ![r].seen = desc,
                          ![r].pc = IF desc # NoDesc /\ Prunable(desc) THEN "pruning" ELSE "pruned"]
    /\ UNCHANGED <<world, desc, receipt, conn, dns>>

\* ... and removes the shadow state it names and whatever descriptor is
\* there by then.
Prune(r) ==
    /\ run[r].pc = "pruning"
    /\ run' = [run EXCEPT ![run[r].seen.run].shadow = "removed", ![r].pc = "pruned", ![r].seen = NoDesc]
    /\ desc' = NoDesc
    /\ UNCHANGED <<world, receipt, conn, dns>>

\* Everything before the agent is started: the destinations, the shadow
\* state, the guards, and the proxy or the plan of the namespace.  What is
\* missing aborts the launch.
Prepare(r) ==
    LET list == buildRuntimeAllowlistForProject(W.lease, W.agentHosts, W.extra)
        subpaths == runProtectedWriteGuardsForAgent(W.links, Subpaths)
        literals == runProtectedWriteGuardsForAgent(W.links, Literals)
        named == IF W.mode = "linux_allowlist" THEN list ELSE {}
        fails == \/ Linux /\ linuxMissingGuardTargets(subpaths, literals, W.existing) # {}
                 \/ ResolveFails(named, dns)
                 \/ ~ensureLinuxIPv6Filtering(resolveRuntimeDestinations(named, dns), W.ip6)
    IN  /\ run[r].pc = "pruned"
        /\ run' = IF fails THEN Move(r, "done")
                  ELSE [run EXCEPT ![r] =
                        [@ EXCEPT !.pc = "prepared", !.seen = NoDesc, !.shadow = W.seed,
                         !.list = IF Linux THEN {} ELSE list,
                         !.pins = IF Linux THEN <<>> ELSE seedAllowlist(list, dns),
                         !.resolved = resolveRuntimeDestinations(named, dns),
                         !.readonly = IF Linux THEN ReadOnly(subpaths, literals, W.existing)
                                      ELSE BuildDarwinProfile(subpaths, literals)]]
        /\ UNCHANGED <<world, desc, receipt, conn, dns>>

\* The Linux agent waits for the ready file; the macOS agent runs at once.
StartAgent(r) ==
    /\ run[r].pc = "prepared"
    /\ run' = [run EXCEPT ![r].pc = "started", ![r].agent = IF Linux THEN "waiting" ELSE "running"]
    /\ UNCHANGED <<world, desc, receipt, conn, dns>>

\* The child's pid is known, its network is up: the ready file is written.
Release(r) ==
    /\ run[r].pc = "started" /\ Linux /\ run[r].agent = "waiting"
    /\ run' = [run EXCEPT ![r].pc = "released", ![r].agent = "running"]
    /\ UNCHANGED <<world, desc, receipt, conn, dns>>

\* persistRuntimeContainment; the heartbeat starts.
Persist(r) ==
    /\ run[r].pc = IF Linux THEN "released" ELSE "started"
    /\ desc' = [run |-> r, beat |-> "fresh"]
    /\ run' = Move(r, "running")
    /\ UNCHANGED <<world, receipt, conn, dns>>

\* A launch that fails half-way kills what it started and leaves no trace.
Abort(r) ==
    /\ run[r].pc \in {"prepared", "started", "released"}
    /\ run' = [run EXCEPT ![r].pc = "done", ![r].agent = "gone", ![r].shadow = "removed"]
    /\ conn' = Hang(r)
    /\ UNCHANGED <<world, desc, receipt, dns>>

\* TouchRuntimeContainment reads the descriptor ...
Touch(r) ==
    /\ run[r].pc \in {"running", "exited", "reaped", "recorded", "removed"}
    /\ run[r].beat = NoDesc /\ desc # NoDesc
    /\ run' = [run EXCEPT ![r].beat = desc]
    /\ UNCHANGED <<world, desc, receipt, conn, dns>>

\* ... and writes it back with a new time.
TouchSave(r) ==
    /\ run[r].beat # NoDesc
    /\ desc' = [run[r].beat EXCEPT !.beat = "fresh"]
    /\ run' = [run EXCEPT ![r].beat = NoDesc]
    /\ UNCHANGED <<world, receipt, conn, dns>>

\* Twenty seconds without a heartbeat, because the launcher died or the
\* machine slept.
BeatExpires ==
    /\ desc.beat = "fresh"
    /\ desc' = [desc EXCEPT !.beat = "expired"]
    /\ UNCHANGED <<world, receipt, run, conn, dns>>

\* The agent ends; it may leave processes behind.
AgentExits(r) ==
    /\ run[r].agent = "running" /\ run[r].pc \in {"running", "dead"}
    /\ \E left \in (IF Linux THEN BOOLEAN ELSE {FALSE}) :
          run' = [run EXCEPT ![r].agent = "gone", ![r].left = left,
                             ![r].pc = IF @ = "running" THEN "exited" ELSE @]
    /\ conn' = Hang(r)
    /\ UNCHANGED <<world, desc, receipt, dns>>

\* linuxTerminateAdoptedChildren kills and reaps until nothing is left, or
\* gives up after two seconds; then the descriptor stays.
Reap(r) ==
    /\ run[r].pc = "exited"
    /\ \/ run' = [run EXCEPT ![r].pc = "reaped", ![r].left = FALSE]
       \/ run[r].left /\ run' = Move(r, "removed")
    /\ UNCHANGED <<world, desc, receipt, conn, dns>>

\* finalizeRuntimeContainment: the receipt is written, or that fails ...
SaveReceipt(r) ==
    /\ run[r].pc = "reaped"
    /\ receipt' \in {receipt, r}
    /\ run' = Move(r, "recorded")
    /\ UNCHANGED <<world, desc, conn, dns>>

\* ... and the descriptor removed, or that fails.
RemoveDescriptor(r) ==
    /\ run[r].pc = "recorded"
    /\ desc' \in {desc, NoDesc}
    /\ run' = Move(r, "removed")
    /\ UNCHANGED <<world, receipt, conn, dns>>

\* Mutant: the shadow state stays behind.
LeaveShadow(r) ==
    /\ run[r].pc = "removed" /\ run[r].beat = NoDesc
    /\ run' = Move(r, "done")
    /\ conn' = Hang(r)
    /\ UNCHANGED <<world, desc, receipt, dns>>

\* The deferred clean-up: the heartbeat ends with the write it is in, the
\* proxy closes, the shadow state is removed.
Leave(r) ==
    /\ run[r].pc = "removed" /\ run[r].beat = NoDesc
    /\ run' = [run EXCEPT ![r].pc = "done", ![r].shadow = "removed"]
    /\ conn' = Hang(r)
    /\ UNCHANGED <<world, desc, receipt, dns>>

\* The launcher is killed: its heartbeat and its proxy are gone, the rest stays.
Killed(r) ==
    /\ LauncherAlive(r)
    /\ run' = [run EXCEPT ![r].pc = "dead", ![r].beat = NoDesc]
    /\ conn' = Hang(r)
    /\ UNCHANGED <<world, desc, receipt, dns>>

-----------------------------------------------------------------------------
(***************************************************************************)
(* The contained agent.                                                    *)
(***************************************************************************)
\* A hook of the contained session saves the shadow session.
HookSaves(r) ==
    /\ run[r].agent = "running" /\ LauncherAlive(r) /\ W.conns # {}
    /\ run[r].mtime < MaxWrites
    /\ \E p \in W.saves \ {run[r].shadow} :
          /\ run' = [run EXCEPT ![r].shadow = p, ![r].mtime = @ + 1]
          /\ conn' = [c \in AllConns |-> IF conn[c].run = r /\ ~PostureDenies(p)
                                           THEN [conn[c] EXCEPT !.tainted = FALSE] ELSE conn[c]]
    /\ UNCHANGED <<world, desc, receipt, dns>>

\* A name gets other addresses.
DnsChanges ==
    /\ dns = W.dns /\ W.later # W.dns
    /\ dns' = W.later
    /\ UNCHANGED <<world, desc, receipt, run, conn>>

SetConn(c, rec) == conn' = [conn EXCEPT ![c] = rec] /\ UNCHANGED <<world, desc, receipt, dns>>
\* taintBlocksExternal leaves this machine's own hosts alone.
Gated(h) == ~isLoopbackRuntimeHost(h)

\* A request the proxy has parsed: the allowlist first, then the gate unless
\* the host is this machine.
Admit(c, r, kind) ==
    /\ conn[c].pc = "new" /\ run[r].pc \in Up /\ run[r].agent = "running" /\ ~Linux
    /\ \E q \in {q \in W.requests : q.kind = kind} :
          LET h == NormalizeProxyHost(q.host)
          IN  SetConn(c, [conn[c] EXCEPT !.run = r, !.kind = q.kind, !.host = h, !.port = q.port,
                           !.tainted = PostureDenies(run[r].shadow),
                           !.pc = IF ~Allows(run[r].list, h, q.port) THEN "blocked"
                                  ELSE IF Gated(h) THEN "gating" ELSE "cleared",
                           !.gate = IF Allows(run[r].list, h, q.port) /\ Gated(h) THEN "ask" ELSE "off"])
    /\ UNCHANGED run

serveHTTP(c, r) == Admit(c, r, "http")
serveConnect(c, r) == Admit(c, r, "connect")
\* The handshake comes first; one that fails, or takes too long, ends the connection.
serveSOCKSConn(c, r) ==
    \/ Admit(c, r, "socks")
    \/ /\ conn[c].pc = "new" /\ run[r].pc \in Up /\ run[r].agent = "running" /\ ~Linux
       /\ \E q \in W.requests : q.kind = "socks"
       /\ SetConn(c, [conn[c] EXCEPT !.run = r, !.pc = "closed"]) /\ UNCHANGED run

\* What the gate's answer does to the connection it was asked for.
Answered(c, deny) ==
    [conn[c] EXCEPT !.stat = 0,
        !.pc = IF deny THEN (IF @ = "gating" THEN "blocked" ELSE "torn")
               ELSE (IF @ = "gating" THEN "cleared" ELSE @),
        !.gate = IF conn[c].pc = "gating" \/ deny THEN "off" ELSE "watch"]

\* externalEgressDenied, under its mutex: the file's time, then either the
\* cached answer ...
GateStat(c) ==
    LET r == conn[c].run
    IN  /\ conn[c].gate \in {"ask", "watch"} /\ \A d \in AllConns : conn[d].gate # "read"
        /\ \/ /\ Fresh(run[r].cache, run[r].mtime, run[r].shadow)
              /\ SetConn(c, Answered(c, run[r].cache.deny))
           \/ /\ ~Fresh(run[r].cache, run[r].mtime, run[r].shadow)
              /\ SetConn(c, [conn[c] EXCEPT !.gate = "read", !.stat = run[r].mtime])
        /\ UNCHANGED run

\* ... or the file.
GateLoad(c) ==
    LET r == conn[c].run
    IN  /\ conn[c].gate = "read"
        /\ run' = [run EXCEPT ![r].cache = Remember(conn[c].stat, run[r].shadow)]
        /\ SetConn(c, Answered(c, PostureDenies(run[r].shadow)))

\* dialAllowedTarget: one of the targets answers, or none does.  A plain
\* HTTP request is sent at once; from here the watcher of a tunnel keeps
\* asking the gate.
Dial(c) ==
    LET r == conn[c].run
        targets == allowedDialTargets(run[r].pins, dns, conn[c].host)
    IN  /\ conn[c].pc = "cleared"
        /\ \/ \E a \in targets :
                 SetConn(c, [conn[c] EXCEPT !.pc = IF conn[c].kind = "http" THEN "sent" ELSE "open", !.addr = {a},
                              !.gate = IF Gated(conn[c].host) /\ conn[c].kind # "http" THEN "watch" ELSE "off"])
           \/ SetConn(c, [conn[c] EXCEPT !.pc = "closed"])
        /\ UNCHANGED run

\* enforceSNI on the client's hello; then both directions flow.
Hello(c) ==
    LET r == conn[c].run
    IN  /\ conn[c].pc = "open"
        /\ \E sni \in W.hellos :
              IF sniAllowed(run[r].list, sni, conn[c].host, conn[c].port)
              THEN SetConn(c, [conn[c] EXCEPT !.pc = "piping"])
              ELSE conn[c].gate # "read" /\ SetConn(c, [conn[c] EXCEPT !.pc = "blocked", !.gate = "off"])
        /\ UNCHANGED run

\* The client or the server closes.
Close(c) ==
    /\ conn[c].pc \in {"open", "piping"} /\ conn[c].gate # "read"
    /\ SetConn(c, [conn[c] EXCEPT !.pc = "closed", !.gate = "off"])
    /\ UNCHANGED run

\* Inside the Linux namespace sockets are opened directly; the filter decides.
Connect(c, r) ==
    /\ conn[c].pc = "new" /\ run[r].agent = "running" /\ LauncherAlive(r)
    /\ W.mode = "linux_allowlist"
    /\ \E q \in W.direct :
          SetConn(c, [conn[c] EXCEPT !.run = r, !.addr = {q.addr}, !.port = q.port,
                       !.pc = IF FilterAccepts(run[r].resolved, W.ip6, q.addr, q.port) THEN "direct" ELSE "blocked"])
    /\ UNCHANGED run

-----------------------------------------------------------------------------
Launcher(r) ==
    \/ Inspect(r) \/ Prune(r) \/ Prepare(r) \/ StartAgent(r) \/ Release(r) \/ Persist(r) \/ Abort(r)
    \/ Touch(r) \/ TouchSave(r) \/ AgentExits(r) \/ Reap(r) \/ SaveReceipt(r) \/ RemoveDescriptor(r)
    \/ Leave(r) \/ Killed(r) \/ HookSaves(r)

Next ==
    \/ \E r \in W.runs : Launcher(r) \/ \E c \in W.conns : serveHTTP(c, r) \/ serveConnect(c, r) \/ serveSOCKSConn(c, r) \/ Connect(c, r)
    \/ \E c \in W.conns : GateStat(c) \/ GateLoad(c) \/ Dial(c) \/ Hello(c) \/ Close(c)
    \/ BeatExpires \/ DnsChanges

\* The watcher of a tunnel runs every second, and reading a file ends.
Watching(c) == GateStat(c) \/ GateLoad(c)
Spec == Init /\ [][Next]_vars /\ \A c \in AllConns : WF_vars(Watching(c))

-----------------------------------------------------------------------------
(***************************************************************************)
(* Properties.                                                             *)
(***************************************************************************)
Reached == {"open", "piping", "sent"}

\* Every variable has its type.
TypeOK ==
    /\ desc = NoDesc \/ (desc.run \in W.runs /\ desc.beat \in {"fresh", "expired"})
    /\ receipt \in W.runs \cup {NoRun}
    /\ \A r \in W.runs : run[r].shadow \in Postures \cup {"removed"} /\ run[r].mtime \in 0..MaxWrites
    /\ \A c \in W.conns : conn[c].gate \in {"off", "ask", "watch", "read"}

\* The state an agent's hooks work on is not removed while it runs:
\* no launch of the same project takes it for a dead one, however long the
\* machine slept (PruneStaleRuntimeContainment, runtimeProcessAlive).
LiveShadowKept == \A r \in W.runs : AgentAlive(r) => run[r].shadow # "removed"

\* A launch that ended by itself is never reported as a boundary in force,
\* even when its last heartbeat came after its descriptor was removed
\* (finalizeRuntimeContainment, startRuntimeHeartbeat, InspectRuntimeContainment).
NoGhostBoundary ==
    desc # NoDesc /\ run[desc.run].pc = "done" => Health(desc) = "stale"

\* While an agent runs, no guarded path is writable, and no file a guarded
\* path is a link to: what the Linux script skips because it does not exist
\* was required to exist or lies in a guarded directory (runGuardTargets,
\* linuxMissingGuardTargets, bind_readonly).
GuardsHold ==
    \A r \in W.runs : AgentAlive(r) =>
        Subpaths \cup Literals \cup {W.links[p] : p \in DOMAIN W.links} \subseteq run[r].readonly

\* No connection is let out to the network if the session was at a hard
\* floor all the while it was checked: the cached answer is never older than
\* the file (externalEgressDenied).
FloorStopsNewEgress == \A c \in W.conns : conn[c].pc = "cleared" /\ conn[c].tainted
                          => isLoopbackRuntimeHost(conn[c].host)

\* A host that had an address at launch is reached at that address only,
\* whatever its name resolves to later; and a direct socket that leaves a
\* Linux namespace reaches exact destinations only, in every address family
\* that has one, unless ip6tables is there and fails: the script goes on
\* without it (seedAllowlist, allowedDialTargets, ensureLinuxIPv6Filtering,
\* linuxContainmentAllowlistScript).
PinsHold ==
    \A c \in W.conns :
        LET r == run[conn[c].run] IN
        /\ conn[c].pc \in Reached /\ r.pins[conn[c].host.name] # {}
              => conn[c].addr \subseteq r.pins[conn[c].host.name]
        /\ conn[c].pc = "direct" => \A a \in conn[c].addr :
              (\E d \in r.resolved : d[1].v6 = a.v6) /\ ~a.lo /\ ~(a.v6 /\ W.ip6 = "fails")
                 => <<a, conn[c].port>> \in r.resolved

\* An agent with IPv6 destinations is started only if IPv6 is filtered.
\* Not so where ip6tables fails: the launch looks for the program, and the script
\* tolerates its errors.
IPv6Filtered ==
    \A c \in W.conns : conn[c].pc = "direct" => \A a \in conn[c].addr :
        a.v6 /\ ~a.lo /\ (\E d \in run[conn[c].run].resolved : d[1].v6)
           => <<a, conn[c].port>> \in run[conn[c].run].resolved

\* "skipping unresolvable host ... the proxy will deny connections to it"
\* (seedAllowlist): a host without an address at launch is not reached.
UnresolvedDenied ==
    \A c \in W.conns : conn[c].pc \in Reached => run[conn[c].run].pins[conn[c].host.name] # {}

\* A tunnel opened while the session was clean does not outlive a floor: it
\* is closed, or the floor is lifted first (watchTaintTeardown).
FloorTearsDown ==
    \A c \in AllConns :
        (conn[c].pc \in {"open", "piping"} /\ conn[c].gate # "off" /\ PostureDenies(run[conn[c].run].shadow))
            ~> (conn[c].pc \notin {"open", "piping"} \/ ~PostureDenies(run[conn[c].run].shadow))
=============================================================================
