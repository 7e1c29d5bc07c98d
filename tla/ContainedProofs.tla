-------------------------- MODULE ContainedProofs --------------------------
(***************************************************************************)
(* Proofs about `sir run`, for any number of launchers of one project, any *)
(* connections, any lists, guards and names: the boundary an agent runs in *)
(* is complete when it starts and stays in force until it ends, whatever   *)
(* the other launchers prune, and what the proxy lets out it checked.      *)
(***************************************************************************)
EXTENDS Contained, TLAPS

Descs == [run : AllRuns, beat : {"fresh", "expired"}] \cup {NoDesc}
Resolvers == [Names -> SUBSET Addresses]
ListOf(n) == buildRuntimeAllowlistForProject(Worlds[n].lease, Worlds[n].agentHosts, Worlds[n].extra)
Lists == {ListOf(n) : n \in DOMAIN Worlds} \cup {{}}
PinMaps == (UNION {[S -> SUBSET Addresses] : S \in SUBSET Names}) \cup {<<>>}
Resolutions == {resolveRuntimeDestinations(l, d) : l \in Lists, d \in Resolvers} \cup {{}}
SubpathsOf(n) == runProtectedWriteGuardsForAgent(Worlds[n].links, Subpaths)
LiteralsOf(n) == runProtectedWriteGuardsForAgent(Worlds[n].links, Literals)
Guards ==
    {ReadOnly(SubpathsOf(n), LiteralsOf(n), Worlds[n].existing) : n \in DOMAIN Worlds}
        \cup {BuildDarwinProfile(SubpathsOf(n), LiteralsOf(n)) : n \in DOMAIN Worlds} \cup {{}}
Pcs == {"idle", "pruning", "pruned", "prepared", "started", "released", "running", "exited", "reaped",
        "recorded", "removed", "done", "dead"}
RunRecords ==
    [pc : Pcs, agent : {"none", "waiting", "running", "gone"}, left : BOOLEAN, seen : Descs, beat : Descs,
     shadow : Postures \cup {"removed"}, mtime : 0..MaxWrites, list : Lists, pins : PinMaps, resolved : Resolutions,
     readonly : Guards, cache : [known : BOOLEAN, mtime : Nat, deny : BOOLEAN]]

AllRequests == UNION {Worlds[n].requests : n \in DOMAIN Worlds}
AllDirect == UNION {Worlds[n].direct : n \in DOMAIN Worlds}
Kinds == {q.kind : q \in AllRequests} \cup {"none"}
Hosts == {NormalizeProxyHost(q.host) : q \in AllRequests} \cup {"none"}
Ports == {q.port : q \in AllRequests \cup AllDirect} \cup {"none"}
Busy == {"gating", "cleared", "open", "piping"}
ConnRecords ==
    [pc : Busy \cup {"new", "blocked", "torn", "sent", "closed", "direct"}, run : AllRuns \cup {NoRun},
     kind : Kinds, host : Hosts, port : Ports, addr : SUBSET Addresses,
     gate : {"off", "ask", "watch", "read"}, stat : 0..MaxWrites, tainted : BOOLEAN]

Types ==
    /\ world \in DOMAIN Worlds
    /\ desc \in Descs
    /\ receipt \in AllRuns \cup {NoRun}
    /\ run \in [AllRuns -> RunRecords]
    /\ conn \in [AllConns -> ConnRecords]
    /\ dns \in Resolvers

-----------------------------------------------------------------------------
(***************************************************************************)
(* The invariant.                                                          *)
(***************************************************************************)
Before == {"idle", "pruning", "pruned"}
After == {"exited", "reaped", "recorded", "removed"}

\* An agent that was once started, and one that is over.
Begun(q) == q \in W.runs /\ run[q].agent \in {"running", "gone"}
Gone(q) == q \in W.runs /\ run[q].agent = "gone"
Live(q) == run[q].agent = "running" /\ LauncherAlive(q)

\* How far a launcher is tells how far its agent is.
Stage(r) ==
    /\ run[r].pc \in Before => run[r].agent = "none" /\ run[r].shadow = "removed"
    /\ run[r].pc = "prepared" => run[r].agent = "none"
    /\ run[r].agent \in {"none", "waiting"} => run[r].cache = Unread
    /\ run[r].pc = "started" => run[r].agent = IF Linux THEN "waiting" ELSE "running"
    /\ run[r].pc \in {"released", "running"} => run[r].agent = "running"
    /\ run[r].pc \in After => run[r].agent = "gone"
    /\ run[r].pc = "done" => run[r].agent \in {"none", "gone"} /\ run[r].shadow = "removed"

\* The boundary of an agent that runs or is about to.
Boundary(r) ==
    run[r].pc = "prepared" \/ AgentAlive(r) =>
        /\ run[r].shadow # "removed"
        /\ Subpaths \cup Literals \cup {W.links[p] : p \in DOMAIN W.links} \subseteq run[r].readonly

\* Descriptors are of agents that were started, and nothing is pruned that is
\* not over.
Descriptors(r) ==
    /\ run[r].pc = "pruning" => run[r].seen # NoDesc /\ Gone(run[r].seen.run)
    /\ run[r].beat # NoDesc => Begun(run[r].beat.run)

\* The cached answer of the gate is not older than its time says.
Cached(r) ==
    /\ run[r].cache.known => run[r].cache.mtime <= run[r].mtime
    /\ run[r].cache.known /\ run[r].cache.mtime = run[r].mtime /\ Live(r)
          => run[r].cache.deny = PostureDenies(run[r].shadow)

\* The lists of a launch hang together.
Listed(r) ==
    /\ Linux => run[r].list = {}
    /\ DOMAIN run[r].pins = HostsOf(run[r].list) \/ run[r].list = {}
    /\ W.ip6 # "absent" \/ \A d \in run[r].resolved : ~d[1].v6

RunOK(r) == Stage(r) /\ Boundary(r) /\ Descriptors(r) /\ Cached(r) /\ Listed(r)

\* A connection belongs to a launch whose agent was started; one under way to
\* an agent that runs and to a launcher that is alive.
Owned(c) ==
    /\ conn[c].pc = "new" => conn[c].run = NoRun
    /\ conn[c].pc # "new" => conn[c].run \in AllRuns /\ run[conn[c].run].agent # "none"
    /\ conn[c].pc \in Busy => Live(conn[c].run)
    /\ conn[c].gate # "off" => conn[c].pc \in Busy \ {"cleared"}
    /\ conn[c].gate = "read" => conn[c].stat <= run[conn[c].run].mtime

\* What was checked about it.
Checked(c) ==
    /\ conn[c].pc \in {"gating", "cleared"} => Allows(run[conn[c].run].list, conn[c].host, conn[c].port)
    /\ conn[c].pc = "gating" /\ conn[c].tainted => PostureDenies(run[conn[c].run].shadow)
    /\ conn[c].pc = "cleared" /\ conn[c].tainted => isLoopbackRuntimeHost(conn[c].host)

Pinned(c) ==
    LET r == run[conn[c].run] IN
    /\ conn[c].pc \in Reached /\ r.pins[conn[c].host.name] # {}
          => conn[c].addr \subseteq r.pins[conn[c].host.name]
    /\ conn[c].pc = "direct" => \A a \in conn[c].addr :
          (\E d \in r.resolved : d[1].v6 = a.v6) /\ ~a.lo /\ ~(a.v6 /\ W.ip6 = "fails")
             => <<a, conn[c].port>> \in r.resolved

ConnOK(c) == Owned(c) /\ Checked(c) /\ Pinned(c)

DescOK == desc # NoDesc => Begun(desc.run)
ReceiptOK == receipt \in W.runs \cup {NoRun}

BoundaryInv ==
    /\ Types /\ DescOK /\ ReceiptOK
    /\ \A r \in AllRuns : RunOK(r)
    /\ \A c \in AllConns : ConnOK(c)

-----------------------------------------------------------------------------
(***************************************************************************)
(* The lists and guards of a launch.                                       *)
(***************************************************************************)
\* Every host of a list is a name.
LEMMA ListNames ==
    ASSUME NEW l \in Lists
    PROVE  HostsOf(l) \subseteq Names
<1>1. CASE l = {}
  BY <1>1 DEF HostsOf
<1>2. ASSUME NEW n \in DOMAIN Worlds, l = ListOf(n) PROVE HostsOf(l) \subseteq Names
  <2>1. SUFFICES ASSUME NEW d \in l PROVE d[1] \in Names
    BY DEF HostsOf
  <2>2. PICK e \in Worlds[n].lease \cup Worlds[n].agentHosts \cup Worlds[n].extra : d \in expandRuntimeDestinations(e)
    BY <1>2 DEF ListOf, buildRuntimeAllowlistForProject, buildRuntimeAllowlist
  <2>3. d[1] = e.name
    BY <2>2 DEF expandRuntimeDestinations
  <2>4. QED
    BY <2>2, <2>3, WorldsAssumption
<1>3. QED
  BY <1>1, <1>2 DEF Lists

\* What can be written read-only is: whatever the script skips was required to
\* exist, or lies in a guarded directory.
LEMMA GuardsComplete ==
    ASSUME NEW s, NEW l, NEW e, linuxMissingGuardTargets(s, l, e) = {}
    PROVE  s \cup l \subseteq ReadOnly(s, l, e)
<1>1. s \subseteq e
  BY DEF linuxMissingGuardTargets
<1>2. ASSUME NEW p \in l, p \notin e PROVE p.under \in {q.name : q \in s \cap e}
  BY <1>2 DEF linuxMissingGuardTargets
<1>3. s \cap e \subseteq ((s \cup l) \cap e) \cap s
  OBVIOUS
<1>4. ASSUME NEW p \in l PROVE p \in ReadOnly(s, l, e)
  <2>1. CASE p \in e
    BY <2>1 DEF ReadOnly
  <2>2. CASE p \notin e
    BY <1>2, <1>3, <2>2 DEF ReadOnly
  <2>3. QED
    BY <2>1, <2>2
<1>5. QED
  BY <1>1, <1>4 DEF ReadOnly

\* The guards of a launch are its paths and the files they are links to.
LEMMA GuardTargets ==
    ASSUME NEW n \in DOMAIN Worlds
    PROVE  Subpaths \cup Literals \cup {Worlds[n].links[p] : p \in DOMAIN Worlds[n].links}
              \subseteq SubpathsOf(n) \cup LiteralsOf(n)
<1>1. ASSUME NEW X, NEW p \in X
      PROVE  runGuardTargets(Worlds[n].links, p) \subseteq runProtectedWriteGuardsForAgent(Worlds[n].links, X)
  BY <1>1 DEF runProtectedWriteGuardsForAgent
<1>2. \A p : p \in runGuardTargets(Worlds[n].links, p)
  BY DEF runGuardTargets
<1>3. \A p \in DOMAIN Worlds[n].links : Worlds[n].links[p] \in runGuardTargets(Worlds[n].links, p)
  BY DEF runGuardTargets
<1>4. DOMAIN Worlds[n].links \subseteq Subpaths \cup Literals
  BY WorldsAssumption
<1>5. \A p \in Subpaths : runGuardTargets(Worlds[n].links, p) \subseteq SubpathsOf(n)
  BY <1>1 DEF SubpathsOf
<1>6. \A p \in Literals : runGuardTargets(Worlds[n].links, p) \subseteq LiteralsOf(n)
  BY <1>1 DEF LiteralsOf
<1>7. QED
  BY <1>2, <1>3, <1>4, <1>5, <1>6

-----------------------------------------------------------------------------
(***************************************************************************)
(* What a step of one launcher leaves alone.                               *)
(***************************************************************************)
\* An agent never goes back, and its launch keeps its lists.
Onward(q) ==
    /\ run[q].agent # "none" => /\ run'[q].agent # "none" /\ run'[q].list = run[q].list
                                /\ run'[q].pins = run[q].pins /\ run'[q].resolved = run[q].resolved
    /\ run[q].agent \in {"running", "gone"} => run'[q].agent \in {"running", "gone"}
    /\ run[q].agent = "gone" => run'[q].agent = "gone"

\* An agent that runs still does, on the same session.
Steady(q) ==
    Live(q) => Live(q)' /\ run'[q].shadow = run[q].shadow /\ run'[q].mtime = run[q].mtime

LocalOK(r) == Stage(r) /\ Boundary(r) /\ Cached(r) /\ Listed(r)

\* What was started or is over stays so.
LEMMA BegunStays ==
    ASSUME world' = world, NEW q, Onward(q)
    PROVE  (Begun(q) => Begun(q)') /\ (Gone(q) => Gone(q)')
BY DEF Onward, Begun, Gone, W

\* A launch nobody touched is as it was.
LEMMA UntouchedRun ==
    ASSUME world' = world, NEW q, run'[q] = run[q], RunOK(q), \A s \in W.runs : Onward(s)
    PROVE  RunOK(q)'
<1>1. Stage(q)' /\ Boundary(q)' /\ Cached(q)' /\ Listed(q)'
  BY DEF RunOK, Stage, Boundary, Cached, Listed, Live, LauncherAlive, AgentAlive, W, Linux
<1>2. Descriptors(q)'
  <2>1. \A s \in W.runs : (Begun(s) => Begun(s)') /\ (Gone(s) => Gone(s)')
    BY BegunStays
  <2>2. (run[q].pc = "pruning" => Gone(run[q].seen.run)') /\ (run[q].beat # NoDesc => Begun(run[q].beat.run)')
    BY <2>1 DEF RunOK, Descriptors, Begun, Gone
  <2>3. QED
    BY <2>2 DEF RunOK, Descriptors, Begun, Gone, W
<1>3. QED
  BY <1>1, <1>2 DEF RunOK

\* A connection nobody touched, of a launch that goes on.
LEMMA UntouchedConn ==
    ASSUME world' = world, NEW c, conn'[c] = conn[c], ConnOK(c),
           conn[c].pc # "new" => Onward(conn[c].run), conn[c].pc \in Busy => Steady(conn[c].run)
    PROVE  ConnOK(c)'
<1> DEFINE q == conn[c].run
<1>1. Owned(c)'
  BY DEF ConnOK, Owned, Onward, Steady, Live, Busy
<1>2. Checked(c)'
  BY DEF ConnOK, Owned, Checked, Onward, Steady, Busy
<1>3. Pinned(c)'
  BY DEF ConnOK, Owned, Pinned, Onward, Reached, W
<1>4. QED
  BY <1>1, <1>2, <1>3 DEF ConnOK

\* The connections of a launch that ends are closed.
LEMMA HungConn ==
    ASSUME Types, world' = world, NEW c \in AllConns, NEW r \in W.runs, conn' = Hang(r), ConnOK(c),
           \A q \in AllRuns : Onward(q), \A q \in AllRuns \ {r} : Steady(q)
    PROVE  ConnOK(c)'
<1>1. CASE conn[c].run = r /\ conn[c].pc \notin {"blocked", "torn", "sent"}
  <2>1. conn'[c] = [conn[c] EXCEPT !.pc = "closed", !.gate = "off", !.stat = 0]
    BY <1>1 DEF Hang
  <2>2. conn'[c].pc = "closed" /\ conn'[c].gate = "off" /\ conn'[c].run = r
    BY <1>1, <2>1 DEF Types, ConnRecords
  <2>3. CASE conn[c].pc # "new"
    BY <1>1, <2>2, <2>3 DEF ConnOK, Owned, Checked, Pinned, Onward, Reached, Busy, Types, AllRuns, W
  <2>4. QED
    BY <1>1, <2>3, RunsAssumption DEF ConnOK, Owned, AllRuns, W, Types
<1>2. CASE ~(conn[c].run = r /\ conn[c].pc \notin {"blocked", "torn", "sent"})
  <2>1. conn'[c] = conn[c]
    BY <1>2 DEF Hang
  <2>2. conn[c].pc # "new" => Onward(conn[c].run)
    BY DEF ConnOK, Owned
  <2>3. conn[c].pc \in Busy => conn[c].run \in AllRuns \ {r}
    BY <1>2 DEF ConnOK, Owned, Busy
  <2>4. QED
    BY <2>1, <2>2, <2>3, UntouchedConn
<1>3. QED
  BY <1>1, <1>2

\* A step of one launcher keeps the invariant when it keeps its own part, and
\* the connections theirs.
LEMMA OneRunKeeps ==
    ASSUME BoundaryInv, world' = world, dns' = dns, NEW r \in AllRuns, NEW x \in RunRecords,
           run' = [run EXCEPT ![r] = x], Onward(r), LocalOK(r)',
           x.pc # "pruning" \/ (x.seen # NoDesc /\ Gone(x.seen.run)),
           x.beat \in {NoDesc, run[r].beat, desc},
           desc' \in {desc, NoDesc} \/ (desc' \in Descs /\ DescOK'),
           receipt' = receipt \/ (receipt' = r /\ r \in W.runs),
           conn' \in [AllConns -> ConnRecords], \A c \in AllConns : ConnOK(c)'
    PROVE  BoundaryInv'
<1>1. Types
  BY DEF BoundaryInv
<1>2. run'[r] = x /\ \A q \in AllRuns \ {r} : run'[q] = run[q]
  BY <1>1 DEF Types
<1>3. \A q \in AllRuns : Onward(q)
  BY <1>2 DEF Onward
<1>5. Types'
  <2>1. run' \in [AllRuns -> RunRecords]
    BY <1>1 DEF Types
  <2>3. desc' \in Descs
    BY <1>1 DEF Types, Descs
  <2>4. QED
    BY <1>1, <2>1, <2>3 DEF Types
<1>6. \A s \in W.runs : Onward(s) /\ (Begun(s) => Begun(s)') /\ (Gone(s) => Gone(s)')
  BY <1>1, <1>3, BegunStays DEF AllRuns, Types, W
<1>7. DescOK'
  <2>1. CASE desc' = NoDesc
    BY <2>1 DEF DescOK
  <2>2. CASE desc' = desc /\ desc # NoDesc
    <3>1. Begun(desc.run) /\ desc.run \in W.runs
      BY <2>2 DEF BoundaryInv, DescOK, Begun
    <3>2. Begun(desc.run)'
      BY <1>6, <2>2, <3>1 DEF Begun
    <3>3. QED
      BY <3>2 DEF DescOK
  <2>3. QED
    BY <2>1, <2>2
<1>8. ReceiptOK'
  BY DEF BoundaryInv, ReceiptOK, W
<1>9. ASSUME NEW q \in AllRuns PROVE RunOK(q)'
  <2>1. CASE q # r
    BY <1>2, <1>6, <2>1, UntouchedRun DEF BoundaryInv
  <2>2. CASE q = r
    <3>1. Descriptors(r)'
      <4>1. (x.pc = "pruning" => x.seen # NoDesc /\ Gone(x.seen.run)')
        BY <1>6 DEF Gone
      <4>2. x.beat # NoDesc => Begun(x.beat.run)
        BY <1>1 DEF BoundaryInv, DescOK, RunOK, Descriptors
      <4>3. x.beat # NoDesc => Begun(x.beat.run)'
        BY <1>6, <4>2 DEF Begun
      <4>4. QED
        BY <1>2, <4>1, <4>3 DEF Descriptors, Gone, Begun
    <3>2. QED
      BY <2>2, <3>1 DEF RunOK, LocalOK
  <2>3. QED
    BY <2>1, <2>2
<1>11. QED
  BY <1>5, <1>7, <1>8, <1>9 DEF BoundaryInv

\* Its own connections are closed or it is steady.
LEMMA OneRunMoves ==
    ASSUME BoundaryInv, world' = world, dns' = dns, NEW r \in W.runs, NEW x \in RunRecords,
           run' = [run EXCEPT ![r] = x], Onward(r), LocalOK(r)',
           x.pc # "pruning" \/ (x.seen # NoDesc /\ Gone(x.seen.run)),
           x.beat \in {NoDesc, run[r].beat, desc},
           desc' \in {desc, NoDesc} \/ (desc' \in Descs /\ DescOK'),
           receipt' \in {receipt, r},
           conn' = Hang(r) \/ (conn' = conn /\ Steady(r))
    PROVE  BoundaryInv'
<1>1. r \in AllRuns /\ Types
  BY DEF BoundaryInv, Types, AllRuns, W
<1>2. run'[r] = x /\ \A q \in AllRuns \ {r} : run'[q] = run[q]
  BY <1>1 DEF Types
<1>3. \A q \in AllRuns : Onward(q)
  BY <1>2 DEF Onward
<1>4. \A q \in AllRuns \ {r} : Steady(q)
  BY <1>2 DEF Steady, Live, LauncherAlive
<1>5. Hang(r) \in [AllConns -> ConnRecords]
  <2>1. ASSUME NEW c \in AllConns PROVE [conn[c] EXCEPT !.pc = "closed", !.gate = "off", !.stat = 0] \in ConnRecords
    <3>1. conn[c] \in ConnRecords /\ 0 \in 0..MaxWrites
      BY <1>1, WritesAssumption DEF Types
    <3>2. QED
      BY <3>1 DEF ConnRecords
  <2>2. QED
      BY <1>1, <2>1 DEF Types, Hang
<1>6. ASSUME NEW c \in AllConns PROVE ConnOK(c)'
  <2>1. CASE conn' = Hang(r)
    BY <1>1, <1>3, <1>4, <2>1, HungConn DEF BoundaryInv
  <2>2. CASE conn' = conn /\ Steady(r)
    BY <1>3, <1>4, <2>2, UntouchedConn DEF BoundaryInv, ConnOK, Owned, Busy
  <2>3. QED
    BY <2>1, <2>2
<1>7. conn' \in [AllConns -> ConnRecords]
  BY <1>1, <1>5 DEF Types
<1>8. QED
  BY <1>1, <1>6, <1>7, OneRunKeeps

-----------------------------------------------------------------------------
(***************************************************************************)
(* The steps of a launcher.                                                *)
(***************************************************************************)
\* What only Prepare, Abort, Leave, Prune and the hooks change.
Kept(r, x) ==
    /\ x.shadow = run[r].shadow /\ x.mtime = run[r].mtime /\ x.list = run[r].list /\ x.pins = run[r].pins
    /\ x.resolved = run[r].resolved /\ x.readonly = run[r].readonly /\ x.cache = run[r].cache

\* The order in which a launcher and its agent move on.
Moves(r, p, a) ==
    /\ \/ p = run[r].pc
       \/ p \in {"pruning", "pruned"} /\ run[r].pc \in Before
       \/ p = "done" /\ run[r].pc \in Before
       \/ p = "started" /\ run[r].pc = "prepared" /\ a = IF Linux THEN "waiting" ELSE "running"
       \/ p \in {"released", "running"} /\ a = "running"
       \/ p \in After /\ a = "gone"
       \/ p = "dead"
    /\ run[r].pc \in {"done", "dead"} => p = run[r].pc
    /\ \/ a = run[r].agent /\ (run[r].pc = "prepared" => p \in {"prepared", "dead"})
       \/ run[r].pc = "prepared" /\ p = "started"
       \/ run[r].agent = "waiting" /\ a = "running" /\ p = "released"
       \/ run[r].agent = "running" /\ a = "gone" /\ p \in {"exited", "dead"}

\* A launcher that moves on keeps the invariant.
LEMMA StageMoves ==
    ASSUME BoundaryInv, world' = world, dns' = dns, NEW r \in W.runs, NEW x \in RunRecords,
           run' = [run EXCEPT ![r] = x], Kept(r, x), Moves(r, x.pc, x.agent),
           x.pc = "pruning" => x.seen # NoDesc /\ Gone(x.seen.run),
           x.beat \in {NoDesc, run[r].beat, desc},
           desc' \in {desc, NoDesc} \/ (desc' \in Descs /\ DescOK'),
           receipt' \in {receipt, r},
           conn' = Hang(r) \/ (conn' = conn /\ (Live(r) => x.agent = "running" /\ x.pc \notin {"idle", "done", "dead"}))
    PROVE  BoundaryInv'
<1>1. r \in AllRuns /\ Types /\ RunOK(r) /\ run[r] \in RunRecords
  BY DEF BoundaryInv, Types, AllRuns, W
<1>2. run'[r] = x
  BY <1>1 DEF Types
<1>3. x.agent \in {"none", "waiting", "running", "gone"}
  BY DEF RunRecords
<1>4. Onward(r)
  BY <1>1, <1>2 DEF Onward, RunOK, Stage, Kept, Moves
<1>5. Stage(r)'
  <2>1. CASE x.pc = run[r].pc
    BY <1>1, <1>2, <2>1 DEF RunOK, Stage, Kept, Moves, Linux, W, Before, After
  <2>2. CASE x.pc # run[r].pc /\ x.pc \in Before \cup {"done"}
    BY <1>1, <1>2, <2>2 DEF RunOK, Stage, Kept, Moves, Before, After
  <2>3. CASE x.pc # run[r].pc /\ x.pc \notin Before \cup {"done"}
    BY <1>1, <1>2, <2>3 DEF RunOK, Stage, Kept, Moves, Linux, W, Before, After
  <2>4. QED
    BY <2>1, <2>2, <2>3
<1>6. Boundary(r)'
  <2>1. x.pc = "prepared" \/ x.agent \in {"waiting", "running"} => run[r].pc = "prepared" \/ AgentAlive(r)
    BY <1>1 DEF RunOK, Stage, AgentAlive, Moves, Before, After
  <2>2. W' = W
    BY DEF W
  <2>3. QED
    BY <1>1, <1>2, <2>1, <2>2 DEF RunOK, Boundary, AgentAlive, Kept
<1>7. Cached(r)'
  BY <1>1, <1>2, <1>3 DEF RunOK, Stage, Cached, Live, LauncherAlive, Kept, Moves, Before, Unread
<1>8. Listed(r)'
  BY <1>1, <1>2 DEF RunOK, Listed, Linux, W, Kept
<1>9. conn' = Hang(r) \/ (conn' = conn /\ Steady(r))
  BY <1>2 DEF Steady, Live, LauncherAlive, Kept
<1>10. LocalOK(r)'
  BY <1>5, <1>6, <1>7, <1>8 DEF LocalOK
<1>11. QED
  BY <1>4, <1>9, <1>10, OneRunMoves

\* Every step in which a launcher only moves on.
LEMMA LauncherMoves ==
    ASSUME BoundaryInv, NEW r \in W.runs,
           \/ Inspect(r) \/ StartAgent(r) \/ Release(r) \/ Persist(r) \/ Touch(r) \/ TouchSave(r) \/ AgentExits(r)
           \/ Reap(r) \/ SaveReceipt(r) \/ RemoveDescriptor(r) \/ Killed(r)
    PROVE  BoundaryInv'
<1> DEFINE d == run[r]
<1>0. /\ r \in AllRuns /\ Types /\ RunOK(r) /\ d \in RunRecords
      /\ desc \in Descs /\ d.beat \in Descs /\ d.seen \in Descs /\ (desc # NoDesc => Begun(desc.run))
  BY DEF BoundaryInv, DescOK, Types, RunRecords, AllRuns, W
<1>1. CASE Inspect(r)
  <2> DEFINE p == IF desc # NoDesc /\ Prunable(desc) THEN "pruning" ELSE "pruned"
             x == [d EXCEPT !.seen = desc, !.pc = p]
  <2>1. x \in RunRecords /\ Kept(r, x) /\ x.pc = p /\ x.agent = d.agent /\ x.seen = desc /\ x.beat = d.beat
    BY <1>0 DEF RunRecords, Kept, Pcs
  <2>2. run' = [run EXCEPT ![r] = x] /\ UNCHANGED <<world, desc, receipt, conn, dns>> /\ d.pc = "idle"
    BY <1>0, <1>1 DEF Inspect, Types
  <2>3. d.agent = "none"
    BY <1>0, <2>2 DEF RunOK, Stage, Before
  <2>4. Moves(r, x.pc, x.agent)
    BY <2>1, <2>2, <2>3 DEF Moves, Before
  <2>5. ASSUME desc # NoDesc, Prunable(desc) PROVE Gone(desc.run)
    <3>1. Begun(desc.run) /\ RunOK(desc.run)
      BY <1>0, <2>5 DEF BoundaryInv, Begun, AllRuns, W, Types
    <3>2. run[desc.run].shadow = "removed" \/ ~AgentAlive(desc.run)
      BY <2>5 DEF Prunable, runtimeProcessAlive
    <3>3. ~AgentAlive(desc.run)
      BY <3>1, <3>2 DEF RunOK, Boundary
    <3>4. QED
      BY <3>1, <3>3 DEF Begun, Gone, AgentAlive
  <2>6. x.pc = "pruning" => x.seen # NoDesc /\ Gone(x.seen.run)
    BY <2>1, <2>5
  <2>7. ~Live(r)
    BY <2>3 DEF Live
  <2> HIDE DEF x, p
  <2>8. QED
    BY <2>1, <2>2, <2>4, <2>6, <2>7, StageMoves
<1>2. CASE StartAgent(r)
  <2> DEFINE a == IF Linux THEN "waiting" ELSE "running"
             x == [d EXCEPT !.pc = "started", !.agent = a]
  <2>1. x \in RunRecords /\ Kept(r, x) /\ x.pc = "started" /\ x.agent = a /\ x.beat = d.beat
    BY <1>0 DEF RunRecords, Kept, Pcs
  <2>2. run' = [run EXCEPT ![r] = x] /\ UNCHANGED <<world, desc, receipt, conn, dns>> /\ d.pc = "prepared"
    BY <1>0, <1>2 DEF StartAgent, Types
  <2>3. d.agent = "none"
    BY <1>0, <2>2 DEF RunOK, Stage
  <2>4. Moves(r, x.pc, x.agent) /\ ~Live(r)
    BY <2>1, <2>2, <2>3 DEF Moves, Before, After, Live
  <2> HIDE DEF x, a
  <2>5. QED
    BY <2>1, <2>2, <2>4, StageMoves
<1>3. CASE Release(r)
  <2> DEFINE x == [d EXCEPT !.pc = "released", !.agent = "running"]
  <2>1. x \in RunRecords /\ Kept(r, x) /\ x.pc = "released" /\ x.agent = "running" /\ x.beat = d.beat
    BY <1>0 DEF RunRecords, Kept, Pcs
  <2>2. run' = [run EXCEPT ![r] = x] /\ UNCHANGED <<world, desc, receipt, conn, dns>> /\ d.pc = "started" /\ d.agent = "waiting"
    BY <1>0, <1>3 DEF Release, Types
  <2>3. Moves(r, x.pc, x.agent)
    BY <2>1, <2>2 DEF Moves, Before, After
  <2> HIDE DEF x
  <2>4. QED
    BY <2>1, <2>2, <2>3, StageMoves
<1>4. CASE Persist(r)
  <2> DEFINE x == [d EXCEPT !.pc = "running"]
  <2>1. x \in RunRecords /\ Kept(r, x) /\ x.pc = "running" /\ x.agent = d.agent /\ x.beat = d.beat
    BY <1>0 DEF RunRecords, Kept, Pcs
  <2>2. /\ run' = [run EXCEPT ![r] = x] /\ UNCHANGED <<world, receipt, conn, dns>>
        /\ d.pc = IF Linux THEN "released" ELSE "started"
        /\ desc' = [run |-> r, beat |-> "fresh"]
    BY <1>0, <1>4 DEF Persist, Move, Types
  <2>3. d.agent = "running"
    BY <1>0, <2>2 DEF RunOK, Stage
  <2>4. Moves(r, x.pc, x.agent)
    BY <2>1, <2>2, <2>3 DEF Moves, Before, After
  <2>5. run'[r] = x
    BY <1>0, <2>2 DEF Types
  <2> HIDE DEF x
  <2>6. desc' \in Descs /\ DescOK'
    BY <1>0, <2>1, <2>2, <2>3, <2>5 DEF Descs, DescOK, Begun, W
  <2>7. QED
    BY <2>1, <2>2, <2>3, <2>4, <2>6, StageMoves
<1>5. CASE Touch(r)
  <2> DEFINE x == [d EXCEPT !.beat = desc]
  <2>1. x \in RunRecords /\ Kept(r, x) /\ x.pc = d.pc /\ x.agent = d.agent /\ x.beat = desc
    BY <1>0 DEF RunRecords, Kept, Pcs
  <2>2. run' = [run EXCEPT ![r] = x] /\ UNCHANGED <<world, desc, receipt, conn, dns>> /\ d.pc \in {"running"} \cup After
    BY <1>0, <1>5 DEF Touch, Types, After
  <2>3. Moves(r, x.pc, x.agent)
    BY <2>1, <2>2 DEF Moves, Before, After
  <2> HIDE DEF x
  <2>4. QED
    BY <2>1, <2>2, <2>3, StageMoves DEF Live, After
<1>6. CASE TouchSave(r)
  <2> DEFINE x == [d EXCEPT !.beat = NoDesc]
  <2>1. x \in RunRecords /\ Kept(r, x) /\ x.pc = d.pc /\ x.agent = d.agent /\ x.beat = NoDesc /\ x.seen = d.seen
    BY <1>0 DEF RunRecords, Kept, Descs
  <2>2. /\ run' = [run EXCEPT ![r] = x] /\ UNCHANGED <<world, receipt, conn, dns>>
        /\ d.beat # NoDesc /\ desc' = [d.beat EXCEPT !.beat = "fresh"]
    BY <1>0, <1>6 DEF TouchSave, Types
  <2>3. Moves(r, x.pc, x.agent) /\ (Live(r) => x.agent = "running" /\ x.pc \notin {"idle", "done", "dead"})
    BY <1>0, <2>1 DEF Moves, Live, LauncherAlive, RunOK, Stage
  <2>4. Begun(d.beat.run)
    BY <1>0, <2>2 DEF RunOK, Descriptors
  <2>5. \A s \in AllRuns : run'[s].agent = run[s].agent
    BY <1>0, <2>1, <2>2 DEF Types
  <2>6. desc' \in Descs /\ desc'.run = d.beat.run /\ d.beat.run \in AllRuns
    BY <1>0, <2>2 DEF Descs
  <2>7. DescOK'
    BY <1>0, <2>2, <2>4, <2>5, <2>6 DEF DescOK, Begun, W
  <2>8. x.pc = "pruning" => x.seen # NoDesc /\ Gone(x.seen.run)
    BY <1>0, <2>1 DEF RunOK, Descriptors
  <2> HIDE DEF x
  <2>9. QED
    BY <2>1, <2>2, <2>3, <2>6, <2>7, <2>8, StageMoves
<1>7. CASE AgentExits(r)
  <2>1. PICK left \in BOOLEAN : run' = [run EXCEPT ![r].agent = "gone", ![r].left = left,
                                                   ![r].pc = IF @ = "running" THEN "exited" ELSE @]
    BY <1>7 DEF AgentExits
  <2> DEFINE p == IF d.pc = "running" THEN "exited" ELSE d.pc
             x == [d EXCEPT !.agent = "gone", !.left = left, !.pc = p]
  <2>2. x \in RunRecords /\ Kept(r, x) /\ x.pc = p /\ x.agent = "gone" /\ x.beat = d.beat
    BY <1>0 DEF RunRecords, Kept, Pcs
  <2>3. /\ run' = [run EXCEPT ![r] = x] /\ UNCHANGED <<world, desc, receipt, dns>> /\ conn' = Hang(r)
        /\ d.agent = "running" /\ d.pc \in {"running", "dead"}
    BY <1>0, <1>7, <2>1 DEF AgentExits, Types
  <2>4. Moves(r, x.pc, x.agent) /\ x.pc # "pruning"
    BY <2>2, <2>3 DEF Moves, Before, After
  <2> HIDE DEF x, p
  <2>5. QED
    BY <2>2, <2>3, <2>4, StageMoves
<1>8. ASSUME NEW p \in {"reaped", "recorded", "removed"}, NEW x \in RunRecords, d.pc \in After,
             x.pc = p, x.agent = d.agent, x.beat = d.beat, Kept(r, x),
             run' = [run EXCEPT ![r] = x], desc' \in {desc, NoDesc}, receipt' \in {receipt, r},
             UNCHANGED <<world, conn, dns>>
      PROVE  BoundaryInv'
  <2>1. d.agent = "gone"
    BY <1>0, <1>8 DEF RunOK, Stage
  <2>2. Moves(r, x.pc, x.agent) /\ ~Live(r) /\ x.pc # "pruning"
    BY <1>8, <2>1 DEF Moves, After, Live
  <2>3. QED
    BY <1>8, <2>2, StageMoves
<1>9. CASE Reap(r)
  <2>1. PICK p \in {"reaped", "removed"}, left \in {d.left, FALSE} : run' = [run EXCEPT ![r] = [d EXCEPT !.pc = p, !.left = left]]
    <3>1. CASE run' = [run EXCEPT ![r].pc = "reaped", ![r].left = FALSE]
      <4>1. run' = [run EXCEPT ![r] = [d EXCEPT !.pc = "reaped", !.left = FALSE]]
        BY <1>0, <3>1 DEF Types
      <4>2. QED
        BY <4>1
    <3>2. CASE run' = Move(r, "removed")
      <4>1. run' = [run EXCEPT ![r] = [d EXCEPT !.pc = "removed"]]
        BY <1>0, <3>2 DEF Types, Move
      <4>2. [d EXCEPT !.pc = "removed", !.left = d.left] = [d EXCEPT !.pc = "removed"]
        BY <1>0 DEF RunRecords
      <4>3. QED
        BY <4>1, <4>2
    <3>3. QED
      BY <1>9, <3>1, <3>2 DEF Reap
  <2> DEFINE x == [d EXCEPT !.pc = p, !.left = left]
  <2>2. x \in RunRecords /\ Kept(r, x) /\ x.pc = p /\ x.agent = d.agent /\ x.beat = d.beat
    BY <1>0 DEF RunRecords, Kept, Pcs
  <2>3. d.pc \in After /\ UNCHANGED <<world, desc, receipt, conn, dns>> /\ run' = [run EXCEPT ![r] = x]
    BY <1>9, <2>1 DEF Reap, After
  <2> HIDE DEF x
  <2>4. QED
    BY <1>8, <2>2, <2>3
<1>10. CASE SaveReceipt(r) \/ RemoveDescriptor(r)
  <2>1. PICK p \in {"recorded", "removed"} : run' = Move(r, p)
    BY <1>10 DEF SaveReceipt, RemoveDescriptor
  <2> DEFINE x == [d EXCEPT !.pc = p]
  <2>2. x \in RunRecords /\ Kept(r, x) /\ x.pc = p /\ x.agent = d.agent /\ x.beat = d.beat
    BY <1>0 DEF RunRecords, Kept, Pcs
  <2>3. /\ d.pc \in After /\ UNCHANGED <<world, conn, dns>> /\ run' = [run EXCEPT ![r] = x]
        /\ desc' \in {desc, NoDesc} /\ receipt' \in {receipt, r}
    BY <1>0, <1>10, <2>1 DEF SaveReceipt, RemoveDescriptor, After, Move, Types
  <2> HIDE DEF x
  <2>4. QED
    BY <1>8, <2>2, <2>3
<1>11. CASE Killed(r)
  <2> DEFINE x == [d EXCEPT !.pc = "dead", !.beat = NoDesc]
  <2>1. x \in RunRecords /\ Kept(r, x) /\ x.pc = "dead" /\ x.agent = d.agent /\ x.beat = NoDesc
    BY <1>0 DEF RunRecords, Kept, Pcs, Descs
  <2>2. /\ run' = [run EXCEPT ![r] = x] /\ UNCHANGED <<world, desc, receipt, dns>> /\ conn' = Hang(r)
        /\ d.pc \notin {"idle", "done", "dead"}
    BY <1>0, <1>11 DEF Killed, LauncherAlive, Types
  <2>3. Moves(r, x.pc, x.agent)
    BY <2>1, <2>2 DEF Moves
  <2> HIDE DEF x
  <2>4. QED
    BY <2>1, <2>2, <2>3, StageMoves
<1>12. QED
  BY <1>1, <1>2, <1>3, <1>4, <1>5, <1>6, <1>7, <1>9, <1>10, <1>11

\* Prepare builds a complete boundary or aborts the launch.
LEMMA PrepareKeeps ==
    ASSUME BoundaryInv, NEW r \in W.runs, Prepare(r)
    PROVE  BoundaryInv'
<1> DEFINE d == run[r]
           list == ListOf(world)
           named == IF W.mode = "linux_allowlist" THEN list ELSE {}
           resolved == resolveRuntimeDestinations(named, dns)
           subpaths == SubpathsOf(world)
           literals == LiteralsOf(world)
           fails == \/ Linux /\ linuxMissingGuardTargets(subpaths, literals, W.existing) # {}
                    \/ ResolveFails(named, dns) \/ ~ensureLinuxIPv6Filtering(resolved, W.ip6)
           readonly == IF Linux THEN ReadOnly(subpaths, literals, W.existing) ELSE BuildDarwinProfile(subpaths, literals)
           pins == IF Linux THEN <<>> ELSE seedAllowlist(list, dns)
           y == [d EXCEPT !.pc = "prepared", !.seen = NoDesc, !.shadow = W.seed, !.list = IF Linux THEN {} ELSE list,
                          !.pins = pins, !.resolved = resolved, !.readonly = readonly]
<1>0. /\ r \in AllRuns /\ Types /\ RunOK(r) /\ d \in RunRecords /\ world \in DOMAIN Worlds /\ dns \in Resolvers
  BY DEF BoundaryInv, Types, AllRuns, W
<1>1. /\ d.pc = "pruned" /\ UNCHANGED <<world, desc, receipt, conn, dns>>
      /\ run' = IF fails THEN Move(r, "done") ELSE [run EXCEPT ![r] = y]
  BY DEF Prepare, ListOf, SubpathsOf, LiteralsOf, W
<1>2. d.agent = "none" /\ d.shadow = "removed" /\ d.cache = Unread
  BY <1>0, <1>1 DEF RunOK, Stage, Before
<1>3. CASE fails
  <2> DEFINE x == [d EXCEPT !.pc = "done"]
  <2>1. x \in RunRecords /\ Kept(r, x) /\ x.pc = "done" /\ x.agent = "none" /\ x.beat = d.beat
    BY <1>0, <1>2 DEF RunRecords, Kept, Pcs
  <2>2. run' = [run EXCEPT ![r] = x]
    BY <1>0, <1>1, <1>3 DEF Move, Types
  <2>3. Moves(r, x.pc, x.agent) /\ ~Live(r)
    BY <1>1, <1>2, <2>1 DEF Moves, Before, Live
  <2> HIDE DEF x, fails, y
  <2>4. QED
    BY <1>1, <2>1, <2>2, <2>3, StageMoves
<1>4. CASE ~fails
  <2>1. list \in Lists /\ {} \in Lists /\ HostsOf(list) \subseteq Names /\ named \in Lists
    <3>1. list \in Lists /\ {} \in Lists
      BY <1>0 DEF Lists
    <3>2. QED
      BY <3>1, ListNames
  <2>2. pins \in PinMaps /\ (~Linux => DOMAIN pins = HostsOf(list))
    <3>1. CASE Linux
      BY <3>1 DEF PinMaps
    <3>2. CASE ~Linux
      <4>1. seedAllowlist(list, dns) \in [HostsOf(list) -> SUBSET Addresses]
        BY <1>0, <2>1 DEF seedAllowlist, Resolvers
      <4>2. QED
        BY <2>1, <3>2, <4>1 DEF PinMaps
    <3>3. QED
      BY <3>1, <3>2
  <2>3. resolved \in Resolutions
    BY <1>0, <2>1 DEF Resolutions
  <2>4. readonly \in Guards
    BY <1>0 DEF Guards, W
  <2>5. W.seed \in Postures /\ W.seed # "removed"
    BY <1>0, WorldsAssumption DEF W, Postures
  <2>6. W.ip6 # "absent" \/ \A e \in resolved : ~e[1].v6
    BY <1>4 DEF ensureLinuxIPv6Filtering
  <2>7. subpaths \cup literals \subseteq readonly
    BY <1>4, GuardsComplete DEF BuildDarwinProfile
  <2>8. Subpaths \cup Literals \cup {W.links[p] : p \in DOMAIN W.links} \subseteq readonly
    BY <1>0, <2>7, GuardTargets DEF W
  <2> HIDE DEF list, named, resolved, subpaths, literals, fails, readonly, pins
  <2>9. y \in RunRecords
    BY <1>0, <2>1, <2>2, <2>3, <2>4, <2>5 DEF RunRecords, Pcs, Descs
  <2>10. /\ y.pc = "prepared" /\ y.agent = "none" /\ y.shadow = W.seed /\ y.list = (IF Linux THEN {} ELSE list)
         /\ y.pins = pins /\ y.resolved = resolved /\ y.readonly = readonly /\ y.cache = Unread /\ y.beat = d.beat
    BY <1>0, <1>2 DEF RunRecords
  <2> HIDE DEF y
  <2>11. run' = [run EXCEPT ![r] = y] /\ run'[r] = y
    BY <1>0, <1>1, <1>4 DEF Types
  <2>12. W' = W /\ (Linux <=> Linux')
    BY <1>1 DEF W, Linux
  <2>13. Stage(r)'
    BY <2>10, <2>11 DEF Stage, Before, After
  <2>14. Boundary(r)'
    BY <2>5, <2>8, <2>10, <2>11, <2>12 DEF Boundary
  <2>15. Cached(r)'
    BY <2>10, <2>11 DEF Cached, Unread
  <2>16. Listed(r)'
    BY <2>2, <2>6, <2>10, <2>11, <2>12 DEF Listed
  <2>17. Onward(r) /\ Steady(r)
    BY <1>2 DEF Onward, Steady, Live
  <2>18. LocalOK(r)'
    BY <2>13, <2>14, <2>15, <2>16 DEF LocalOK
  <2>19. QED
    BY <1>1, <2>9, <2>10, <2>11, <2>17, <2>18, OneRunMoves
<1>5. QED
  BY <1>3, <1>4

\* A launch that ends removes its session state, and its connections with it.
LEMMA EndKeeps ==
    ASSUME BoundaryInv, NEW r \in W.runs, Abort(r) \/ Leave(r)
    PROVE  BoundaryInv'
<1> DEFINE d == run[r]
           x == [d EXCEPT !.pc = "done", !.agent = "gone", !.shadow = "removed"]
<1>0. r \in AllRuns /\ Types /\ RunOK(r) /\ d \in RunRecords
  BY DEF BoundaryInv, Types, AllRuns, W
<1>1. /\ x \in RunRecords /\ x.pc = "done" /\ x.agent = "gone" /\ x.shadow = "removed" /\ x.list = d.list
      /\ x.pins = d.pins /\ x.resolved = d.resolved /\ x.cache = d.cache /\ x.mtime = d.mtime /\ x.beat = d.beat
  BY <1>0 DEF RunRecords, Pcs
<1>2. run' = [run EXCEPT ![r] = x] /\ conn' = Hang(r) /\ UNCHANGED <<world, desc, receipt, dns>>
  <2>1. CASE Abort(r)
    BY <1>0, <2>1 DEF Abort, Types
  <2>2. CASE Leave(r)
    <3>1. d.agent = "gone"
      BY <1>0, <2>2 DEF Leave, RunOK, Stage, After
    <3>2. [d EXCEPT !.pc = "done", !.shadow = "removed"] = x
      BY <1>0, <3>1 DEF RunRecords
    <3>3. QED
      BY <1>0, <2>2, <3>2 DEF Leave, Types
  <2>3. QED
    BY <2>1, <2>2
<1> HIDE DEF x
<1>3. run'[r] = x
  BY <1>0, <1>2 DEF Types
<1>4. Stage(r)' /\ Boundary(r)' /\ Cached(r)'
  BY <1>0, <1>1, <1>3 DEF RunOK, Stage, Boundary, Cached, AgentAlive, Live, Before, After
<1>5. Listed(r)'
  BY <1>0, <1>1, <1>2, <1>3 DEF RunOK, Listed, Linux, W
<1>6. Onward(r)
  BY <1>1, <1>3 DEF Onward
<1>7. LocalOK(r)'
  BY <1>4, <1>5 DEF LocalOK
<1>8. QED
  BY <1>1, <1>2, <1>6, <1>7, OneRunMoves

\* Pruning removes the state of an agent that is over, whichever descriptor
\* is there by then.
LEMMA PruneKeeps ==
    ASSUME BoundaryInv, NEW r \in W.runs, Prune(r)
    PROVE  BoundaryInv'
<1>a. PICK s : s = run[r].seen.run
  OBVIOUS
<1>b. PICK x : x = [run[r] EXCEPT !.pc = "pruned", !.seen = NoDesc]
  OBVIOUS
<1>c. PICK y : y = [run[s] EXCEPT !.shadow = "removed"]
  OBVIOUS
<1>0. r \in AllRuns /\ Types /\ RunOK(r) /\ run[r] \in RunRecords /\ run[r].pc = "pruning"
  BY DEF BoundaryInv, Types, AllRuns, W, Prune
<1>1. run[r].agent = "none" /\ Gone(s)
  BY <1>a, <1>0 DEF RunOK, Stage, Descriptors, Before
<1>2. s \in AllRuns /\ s # r /\ run[s] \in RunRecords /\ RunOK(s) /\ run[s].agent = "gone"
  BY <1>0, <1>1 DEF BoundaryInv, Gone, Types, AllRuns, W
<1>3. /\ x \in RunRecords /\ x.pc = "pruned" /\ x.agent = "none" /\ x.beat = run[r].beat /\ x.list = run[r].list
      /\ x.pins = run[r].pins /\ x.resolved = run[r].resolved /\ x.cache = run[r].cache /\ x.mtime = run[r].mtime
      /\ x.shadow = run[r].shadow
  BY <1>b, <1>0, <1>1 DEF RunRecords, Pcs, Descs
<1>4. /\ y \in RunRecords /\ y.pc = run[s].pc /\ y.agent = "gone" /\ y.shadow = "removed" /\ y.beat = run[s].beat
      /\ y.seen = run[s].seen /\ y.list = run[s].list /\ y.pins = run[s].pins /\ y.resolved = run[s].resolved
      /\ y.cache = run[s].cache /\ y.mtime = run[s].mtime
  BY <1>c, <1>2 DEF RunRecords
<1>5. /\ run' \in [AllRuns -> RunRecords] /\ run'[r] = x /\ run'[s] = y
      /\ \A q \in AllRuns \ {r, s} : run'[q] = run[q]
      /\ desc' = NoDesc /\ UNCHANGED <<world, receipt, conn, dns>>
  <2>1. run' = [[run EXCEPT ![s] = y] EXCEPT ![r] = x]
    BY <1>a, <1>b, <1>c, <1>0, <1>2 DEF Prune, Types
  <2>2. run' \in [AllRuns -> RunRecords]
    BY <1>0, <1>2, <1>3, <1>4, <2>1 DEF Types
  <2>3. run'[r] = x /\ run'[s] = y /\ \A q \in AllRuns \ {r, s} : run'[q] = run[q]
    BY <1>0, <1>2, <2>1 DEF Types
  <2>4. QED
    BY <2>2, <2>3 DEF Prune
<1>6. \A q \in AllRuns : Onward(q) /\ Steady(q)
  BY <1>1, <1>2, <1>3, <1>4, <1>5 DEF Onward, Steady, Live, LauncherAlive
<1>7. Types' /\ DescOK' /\ ReceiptOK'
  BY <1>0, <1>5 DEF BoundaryInv, Types, Descs, DescOK, ReceiptOK, W
<1>8. \A q \in W.runs : Onward(q) /\ (Begun(q) => Begun(q)') /\ (Gone(q) => Gone(q)')
  BY <1>0, <1>5, <1>6, BegunStays DEF AllRuns, Types, W
<1>9. RunOK(r)'
  <2>1. Stage(r)' /\ Boundary(r)' /\ Cached(r)'
    BY <1>0, <1>1, <1>3, <1>5 DEF RunOK, Stage, Boundary, Cached, AgentAlive, Live, Before, After
  <2>2. Listed(r)'
    BY <1>0, <1>3, <1>5 DEF RunOK, Listed, Linux, W
  <2>3. x.beat # NoDesc => Begun(x.beat.run)'
    BY <1>0, <1>3, <1>8 DEF RunOK, Descriptors, Begun
  <2>4. Descriptors(r)'
    BY <1>3, <1>5, <2>3 DEF Descriptors, Begun
  <2>5. QED
    BY <2>1, <2>2, <2>4 DEF RunOK
<1>10. RunOK(s)'
  <2>1. Stage(s)' /\ Boundary(s)' /\ Cached(s)'
    BY <1>2, <1>4, <1>5 DEF RunOK, Stage, Boundary, Cached, AgentAlive, Live, Before, After
  <2>2. Listed(s)'
    BY <1>2, <1>4, <1>5 DEF RunOK, Listed, Linux, W
  <2>3. (y.beat # NoDesc => Begun(y.beat.run)') /\ y.pc # "pruning"
    BY <1>2, <1>4, <1>8 DEF RunOK, Stage, Descriptors, Begun, Before
  <2>4. Descriptors(s)'
    BY <1>5, <2>3 DEF Descriptors, Begun
  <2>5. QED
    BY <2>1, <2>2, <2>4 DEF RunOK
<1>11. ASSUME NEW q \in AllRuns \ {r, s} PROVE RunOK(q)'
  BY <1>5, <1>8, <1>11, UntouchedRun DEF BoundaryInv
<1>12. ASSUME NEW c \in AllConns PROVE ConnOK(c)'
  BY <1>5, <1>6, <1>12, UntouchedConn DEF BoundaryInv, ConnOK, Owned, Busy
<1>13. QED
  BY <1>7, <1>9, <1>10, <1>11, <1>12 DEF BoundaryInv

-----------------------------------------------------------------------------
(***************************************************************************)
(* Hooks and connections.                                                  *)
(***************************************************************************)
\* A hook saves the session: connections under way forget the floor if the
\* floor was lifted, and the cached answer is no longer current.
LEMMA HookSavesKeeps ==
    ASSUME BoundaryInv, NEW r \in W.runs, HookSaves(r)
    PROVE  BoundaryInv'
<1>0. r \in AllRuns /\ Types /\ RunOK(r) /\ run[r] \in RunRecords /\ world \in DOMAIN Worlds
  BY DEF BoundaryInv, Types, AllRuns, W
<1>1. PICK p \in W.saves :
        /\ run' = [run EXCEPT ![r].shadow = p, ![r].mtime = @ + 1]
        /\ conn' = [c \in AllConns |-> IF conn[c].run = r /\ ~PostureDenies(p)
                                         THEN [conn[c] EXCEPT !.tainted = FALSE] ELSE conn[c]]
  BY DEF HookSaves
<1>2. PICK x : x = [run[r] EXCEPT !.shadow = p, !.mtime = run[r].mtime + 1]
  OBVIOUS
<1>3. /\ run[r].agent = "running" /\ LauncherAlive(r) /\ run[r].mtime < MaxWrites
      /\ UNCHANGED <<world, desc, receipt, dns>>
  BY DEF HookSaves
<1>4. p \in Postures /\ p # "removed"
  BY <1>0, WorldsAssumption DEF W, Postures
<1>5. run[r].mtime + 1 \in 0..MaxWrites /\ run[r].mtime \in 0..MaxWrites /\ run[r].cache.mtime \in Nat
  BY <1>0, <1>3, WritesAssumption DEF RunRecords
<1>6. /\ x \in RunRecords /\ x.pc = run[r].pc /\ x.agent = "running" /\ x.shadow = p /\ x.beat = run[r].beat
      /\ x.seen = run[r].seen /\ x.list = run[r].list /\ x.pins = run[r].pins /\ x.resolved = run[r].resolved
      /\ x.readonly = run[r].readonly /\ x.cache = run[r].cache /\ x.mtime = run[r].mtime + 1
  BY <1>0, <1>2, <1>3, <1>4, <1>5 DEF RunRecords
<1>7. run' = [run EXCEPT ![r] = x] /\ run'[r] = x /\ \A q \in AllRuns \ {r} : run'[q] = run[q]
  BY <1>0, <1>1, <1>2 DEF Types
<1>8. W' = W /\ (Linux <=> Linux')
  BY <1>3 DEF W, Linux
<1>9. Stage(r)'
  BY <1>0, <1>3, <1>6, <1>7, <1>8 DEF RunOK, Stage, LauncherAlive, Before, After
<1>10. Boundary(r)'
  BY <1>0, <1>3, <1>4, <1>6, <1>7, <1>8 DEF RunOK, Boundary, AgentAlive
<1>11. Cached(r)'
  BY <1>0, <1>5, <1>6, <1>7 DEF RunOK, Cached
<1>12. Listed(r)'
  BY <1>0, <1>6, <1>7, <1>8 DEF RunOK, Listed
<1>13. Onward(r) /\ LocalOK(r)'
  BY <1>3, <1>6, <1>7, <1>9, <1>10, <1>11, <1>12 DEF Onward, LocalOK
<1>14. ASSUME NEW c \in AllConns PROVE conn'[c] \in ConnRecords /\ ConnOK(c)'
  <2>1. conn[c] \in ConnRecords /\ ConnOK(c)
    BY <1>0 DEF BoundaryInv, Types
  <2>2. CASE conn[c].run # r
    <3>1. conn'[c] = conn[c]
      BY <1>1, <2>2
    <3>2. conn[c].pc # "new" => Onward(conn[c].run) /\ Steady(conn[c].run)
      <4>1. ASSUME conn[c].pc # "new" PROVE run'[conn[c].run] = run[conn[c].run]
        BY <1>7, <2>1, <2>2, <4>1 DEF ConnOK, Owned
      <4>2. QED
        BY <3>1, <4>1 DEF Onward, Steady, Live, LauncherAlive
    <3>3. QED
      BY <1>3, <2>1, <3>1, <3>2, UntouchedConn DEF Busy
  <2>3. CASE conn[c].run = r
    <3>1. /\ conn'[c] \in ConnRecords /\ conn'[c].pc = conn[c].pc /\ conn'[c].run = r /\ conn'[c].host = conn[c].host
          /\ conn'[c].port = conn[c].port /\ conn'[c].addr = conn[c].addr /\ conn'[c].gate = conn[c].gate
          /\ conn'[c].stat = conn[c].stat /\ (conn'[c].tainted => conn[c].tainted /\ PostureDenies(p))
      <4>1. conn'[c] = IF ~PostureDenies(p) THEN [conn[c] EXCEPT !.tainted = FALSE] ELSE conn[c]
        BY <1>1, <2>3
      <4>2. QED
        BY <2>1, <2>3, <4>1 DEF ConnRecords
    <3>2. conn[c].stat \in 0..MaxWrites
      BY <2>1 DEF ConnRecords
    <3>3. Owned(c)'
      BY <1>3, <1>5, <1>6, <1>7, <2>1, <2>3, <3>1, <3>2 DEF ConnOK, Owned, Live, LauncherAlive
    <3>4. Checked(c)'
      BY <1>6, <1>7, <2>1, <2>3, <3>1 DEF ConnOK, Checked
    <3>5. Pinned(c)'
      BY <1>6, <1>7, <1>8, <2>1, <2>3, <3>1 DEF ConnOK, Pinned
    <3>6. QED
      BY <3>1, <3>3, <3>4, <3>5 DEF ConnOK
  <2>4. QED
    BY <2>2, <2>3
<1>15. conn' \in [AllConns -> ConnRecords]
  BY <1>1, <1>14
<1>16. x.pc # "pruning"
  BY <1>0, <1>3, <1>6 DEF RunOK, Stage, Before
<1>17. QED
  BY <1>0, <1>3, <1>6, <1>7, <1>13, <1>14, <1>15, <1>16, OneRunKeeps

\* A step of one connection keeps the invariant when it keeps its own part.
LEMMA OneConnMoves ==
    ASSUME BoundaryInv, UNCHANGED <<world, desc, receipt, run, dns>>, NEW c \in AllConns, NEW y \in ConnRecords,
           conn' = [conn EXCEPT ![c] = y], ConnOK(c)'
    PROVE  BoundaryInv'
<1>1. Types
  BY DEF BoundaryInv
<1>2. conn' \in [AllConns -> ConnRecords] /\ \A e \in AllConns \ {c} : conn'[e] = conn[e]
  BY <1>1 DEF Types
<1>3. \A q : Onward(q) /\ Steady(q)
  BY DEF Onward, Steady, Live, LauncherAlive
<1>4. ASSUME NEW e \in AllConns PROVE ConnOK(e)'
  BY <1>2, <1>3, UntouchedConn DEF BoundaryInv
<1>5. ASSUME NEW q \in AllRuns PROVE RunOK(q)'
  BY <1>3, UntouchedRun DEF BoundaryInv
<1>6. Types' /\ DescOK' /\ ReceiptOK'
  BY <1>1, <1>2 DEF BoundaryInv, Types, DescOK, ReceiptOK, Begun, W
<1>7. QED
  BY <1>4, <1>5, <1>6 DEF BoundaryInv

\* The proxy admits a request to a launch that is up.
LEMMA AdmitKeeps ==
    ASSUME BoundaryInv, NEW c \in W.conns, NEW r \in W.runs, serveHTTP(c, r) \/ serveConnect(c, r) \/ serveSOCKSConn(c, r)
    PROVE  BoundaryInv'
<1>0. /\ r \in AllRuns /\ Types /\ RunOK(r) /\ c \in AllConns /\ conn[c] \in ConnRecords /\ ConnOK(c)
      /\ world \in DOMAIN Worlds
  BY DEF BoundaryInv, Types, AllRuns, AllConns, W
<1>1. /\ conn[c].pc = "new" /\ run[r].pc \in Up /\ run[r].agent = "running"
      /\ UNCHANGED <<world, desc, receipt, run, dns>>
  BY DEF serveHTTP, serveConnect, serveSOCKSConn, Admit, SetConn
<1>2. Live(r) /\ conn[c].gate = "off" /\ r \in W.runs
  BY <1>0, <1>1 DEF Live, LauncherAlive, Up, ConnOK, Owned, Busy
<1>3. CASE conn' = [conn EXCEPT ![c] = [conn[c] EXCEPT !.run = r, !.pc = "closed"]]
  <2>1. PICK y : y = [conn[c] EXCEPT !.run = r, !.pc = "closed"]
    OBVIOUS
  <2>2. y \in ConnRecords /\ y.pc = "closed" /\ y.run = r /\ y.gate = "off"
    BY <1>0, <1>2, <2>1 DEF ConnRecords
  <2>3. conn'[c] = y /\ conn' = [conn EXCEPT ![c] = y]
    BY <1>0, <1>3, <2>1 DEF Types
  <2>4. ConnOK(c)'
    BY <1>0, <1>1, <2>2, <2>3 DEF ConnOK, Owned, Checked, Pinned, Busy, Reached
  <2>5. QED
    BY <1>0, <1>1, <2>2, <2>3, <2>4, OneConnMoves
<1>4. ASSUME NEW kind, Admit(c, r, kind) PROVE BoundaryInv'
  <2>1. PICK q \in {q \in W.requests : q.kind = kind} :
          LET h == NormalizeProxyHost(q.host)
          IN  SetConn(c, [conn[c] EXCEPT !.run = r, !.kind = q.kind, !.host = h, !.port = q.port,
                           !.tainted = PostureDenies(run[r].shadow),
                           !.pc = IF ~Allows(run[r].list, h, q.port) THEN "blocked"
                                  ELSE IF Gated(h) THEN "gating" ELSE "cleared",
                           !.gate = IF Allows(run[r].list, h, q.port) /\ Gated(h) THEN "ask" ELSE "off"])
    BY <1>4 DEF Admit
  <2> DEFINE h == NormalizeProxyHost(q.host)
             allowed == Allows(run[r].list, h, q.port)
             pc == IF ~allowed THEN "blocked" ELSE IF Gated(h) THEN "gating" ELSE "cleared"
             gate == IF allowed /\ Gated(h) THEN "ask" ELSE "off"
  <2>2. PICK y : y = [conn[c] EXCEPT !.run = r, !.kind = q.kind, !.host = h, !.port = q.port,
                                     !.tainted = PostureDenies(run[r].shadow), !.pc = pc, !.gate = gate]
    OBVIOUS
  <2>3. q \in AllRequests
    BY <1>0 DEF AllRequests, W
  <2>4. h \in Hosts /\ q.kind \in Kinds /\ q.port \in Ports /\ PostureDenies(run[r].shadow) \in BOOLEAN
    BY <2>3 DEF PostureDenies, Hosts, Kinds, Ports
  <2>5. pc \in {"blocked", "gating", "cleared"} /\ gate \in {"ask", "off"} /\ (pc = "gating" <=> gate = "ask")
        /\ (pc \in {"gating", "cleared"} => allowed) /\ (pc = "cleared" => isLoopbackRuntimeHost(h))
    BY DEF Gated
  <2>6. conn' = [conn EXCEPT ![c] = y]
    BY <2>1, <2>2 DEF SetConn
  <2> HIDE DEF pc, gate, h
  <2>7. y \in ConnRecords
    BY <1>0, <2>2, <2>4, <2>5 DEF ConnRecords, Busy
  <2>8. /\ y.pc = pc /\ y.gate = gate /\ y.run = r /\ y.host = h /\ y.port = q.port
        /\ y.tainted = PostureDenies(run[r].shadow)
    BY <1>0, <2>2 DEF ConnRecords
  <2>9. conn'[c] = y
    BY <1>0, <2>6 DEF Types
  <2>10. Owned(c)'
    BY <1>0, <1>1, <1>2, <2>5, <2>8, <2>9 DEF Owned, Busy, Live, LauncherAlive
  <2>11. Checked(c)' /\ Pinned(c)'
    BY <1>0, <1>1, <2>5, <2>8, <2>9 DEF Checked, Pinned, Reached
  <2>12. QED
    BY <1>0, <1>1, <2>6, <2>7, <2>10, <2>11, OneConnMoves DEF ConnOK
<1>5. QED
  BY <1>3, <1>4 DEF serveHTTP, serveConnect, serveSOCKSConn, SetConn

\* What the gate's answer leaves of a connection: one that waited for it is
\* let through only by a no to the question whether egress is denied.
LEMMA AnswerKeeps ==
    ASSUME BoundaryInv, NEW c \in AllConns, conn[c].gate # "off", NEW deny \in BOOLEAN,
           conn[c].pc = "gating" /\ conn[c].tainted => deny
    PROVE  LET y == Answered(c, deny)
           IN  /\ y \in ConnRecords /\ y.run = conn[c].run /\ y.host = conn[c].host /\ y.port = conn[c].port
               /\ y.addr = conn[c].addr /\ y.tainted = conn[c].tainted
               /\ y.gate \in {"off", "watch"}
               /\ \/ y.pc \in {"blocked", "torn"} /\ y.gate = "off"
                  \/ y.pc = "cleared" /\ y.gate = "off" /\ conn[c].pc = "gating" /\ ~conn[c].tainted
                  \/ y.pc = conn[c].pc /\ y.pc \in {"open", "piping"}
<1>1. conn[c] \in ConnRecords /\ conn[c].pc \in Busy \ {"cleared"} /\ 0 \in 0..MaxWrites
  BY WritesAssumption DEF BoundaryInv, Types, ConnOK, Owned
<1> DEFINE pc == IF deny THEN (IF conn[c].pc = "gating" THEN "blocked" ELSE "torn")
                 ELSE (IF conn[c].pc = "gating" THEN "cleared" ELSE conn[c].pc)
           gate == IF conn[c].pc = "gating" \/ deny THEN "off" ELSE "watch"
<1>2. Answered(c, deny) = [conn[c] EXCEPT !.stat = 0, !.pc = pc, !.gate = gate]
  BY <1>1 DEF Answered, ConnRecords
<1>3. pc \in Busy \cup {"blocked", "torn"} /\ gate \in {"off", "watch"}
  BY <1>1 DEF Busy
<1> HIDE DEF pc, gate
<1>4. /\ Answered(c, deny) \in ConnRecords /\ Answered(c, deny).pc = pc /\ Answered(c, deny).gate = gate
      /\ Answered(c, deny).run = conn[c].run /\ Answered(c, deny).host = conn[c].host
      /\ Answered(c, deny).port = conn[c].port /\ Answered(c, deny).addr = conn[c].addr
      /\ Answered(c, deny).tainted = conn[c].tainted
  BY <1>1, <1>2, <1>3 DEF ConnRecords
<1>5. QED
  BY <1>1, <1>3, <1>4 DEF pc, gate, Busy

\* The answered connection keeps its part.
LEMMA AnsweredOK ==
    ASSUME BoundaryInv, NEW c \in AllConns, conn[c].gate # "off", NEW deny \in BOOLEAN, NEW q \in AllRuns, q = conn[c].run,
           conn[c].pc = "gating" /\ conn[c].tainted => deny, NEW y, y = Answered(c, deny), conn'[c] = y,
           run'[q].pc = run[q].pc, run'[q].agent = run[q].agent, run'[q].list = run[q].list,
           run'[q].pins = run[q].pins, run'[q].resolved = run[q].resolved
    PROVE  y \in ConnRecords /\ ConnOK(c)'
<1>1. /\ y \in ConnRecords /\ y.run = q /\ y.host = conn[c].host /\ y.port = conn[c].port
      /\ y.addr = conn[c].addr /\ y.tainted = conn[c].tainted /\ y.gate \in {"off", "watch"}
      /\ \/ y.pc \in {"blocked", "torn"} /\ y.gate = "off"
         \/ y.pc = "cleared" /\ y.gate = "off" /\ conn[c].pc = "gating" /\ ~conn[c].tainted
         \/ y.pc = conn[c].pc /\ y.pc \in {"open", "piping"}
  BY AnswerKeeps
<1>2. ConnOK(c) /\ Live(q) /\ conn[c].pc # "new"
  BY DEF BoundaryInv, ConnOK, Owned, Busy
<1>3. Owned(c)'
  BY <1>1, <1>2 DEF Owned, Live, LauncherAlive, Busy
<1>4. Checked(c)' /\ Pinned(c)'
  BY <1>1, <1>2 DEF ConnOK, Checked, Pinned, Reached
<1>5. QED
  BY <1>1, <1>3, <1>4 DEF ConnOK

\* The gate answers from its cache, looks at the file, or reads it.
LEMMA GateKeeps ==
    ASSUME BoundaryInv, NEW c \in W.conns, GateStat(c) \/ GateLoad(c)
    PROVE  BoundaryInv'
<1>a. PICK r : r = conn[c].run
  OBVIOUS
<1>0. /\ Types /\ c \in AllConns /\ conn[c] \in ConnRecords /\ ConnOK(c) /\ world \in DOMAIN Worlds
      /\ conn[c].gate \in {"ask", "watch", "read"} /\ UNCHANGED <<world, desc, receipt, dns>>
  BY DEF BoundaryInv, Types, AllConns, W, GateStat, GateLoad, SetConn
<1>1. r \in AllRuns /\ Live(r) /\ run[r] \in RunRecords /\ RunOK(r)
  BY <1>a, <1>0 DEF ConnOK, Owned, Busy, Types, BoundaryInv
<1>2. CASE GateStat(c)
  <2>1. run' = run /\ \/ Fresh(run[r].cache, run[r].mtime, run[r].shadow)
                         /\ SetConn(c, Answered(c, run[r].cache.deny))
                      \/ SetConn(c, [conn[c] EXCEPT !.gate = "read", !.stat = run[r].mtime])
    BY <1>a, <1>2 DEF GateStat
  <2>2. CASE /\ Fresh(run[r].cache, run[r].mtime, run[r].shadow)
             /\ SetConn(c, Answered(c, run[r].cache.deny))
    <3>1. run[r].cache.deny \in BOOLEAN /\ run[r].cache.deny = PostureDenies(run[r].shadow)
      BY <1>1, <2>2 DEF RunRecords, Fresh, RunOK, Cached
    <3>2. conn[c].pc = "gating" /\ conn[c].tainted => run[r].cache.deny
      BY <1>a, <1>0, <3>1 DEF ConnOK, Checked
    <3>3. PICK y : y = Answered(c, run[r].cache.deny)
      OBVIOUS
    <3>4. conn' = [conn EXCEPT ![c] = y] /\ conn'[c] = y
      BY <1>0, <2>2, <3>3 DEF SetConn, Types
    <3>5. y \in ConnRecords /\ ConnOK(c)'
      BY <1>a, <1>0, <1>1, <2>1, <3>1, <3>2, <3>3, <3>4, AnsweredOK
    <3>6. QED
      BY <1>0, <2>1, <3>4, <3>5, OneConnMoves
  <2>3. CASE SetConn(c, [conn[c] EXCEPT !.gate = "read", !.stat = run[r].mtime])
    <3>1. PICK y : y = [conn[c] EXCEPT !.gate = "read", !.stat = run[r].mtime]
      OBVIOUS
    <3>2. run[r].mtime \in 0..MaxWrites
      BY <1>1 DEF RunRecords
    <3>3. /\ y \in ConnRecords /\ y.pc = conn[c].pc /\ y.run = r /\ y.host = conn[c].host /\ y.port = conn[c].port
          /\ y.addr = conn[c].addr /\ y.tainted = conn[c].tainted /\ y.gate = "read" /\ y.stat = run[r].mtime
      BY <1>a, <1>0, <3>1, <3>2 DEF ConnRecords
    <3>4. conn' = [conn EXCEPT ![c] = y] /\ conn'[c] = y
      BY <1>0, <2>3, <3>1 DEF SetConn, Types
    <3>5. Owned(c)'
      BY <1>a, <1>0, <1>1, <2>1, <3>2, <3>3, <3>4, WritesAssumption DEF ConnOK, Owned, Live, LauncherAlive
    <3>6. Checked(c)' /\ Pinned(c)'
      <4>1. /\ conn'[c].pc = conn[c].pc /\ conn'[c].run = conn[c].run /\ conn'[c].host = conn[c].host
            /\ conn'[c].port = conn[c].port /\ conn'[c].addr = conn[c].addr /\ conn'[c].tainted = conn[c].tainted
        BY <1>a, <3>3, <3>4
      <4>2. run' = run /\ W' = W
        BY <1>0, <2>1 DEF W
      <4>3. Checked(c)'
        BY <1>0, <4>1, <4>2 DEF ConnOK, Checked
      <4>4. Pinned(c)'
        BY <1>0, <4>1, <4>2 DEF ConnOK, Pinned
      <4>5. QED
        BY <4>3, <4>4
    <3>7. QED
      BY <1>0, <2>1, <3>3, <3>4, <3>5, <3>6, OneConnMoves DEF ConnOK
  <2>4. QED
    BY <2>1, <2>2, <2>3
<1>3. CASE GateLoad(c)
  <2> DEFINE deny == PostureDenies(run[r].shadow)
             cache == [known |-> TRUE, mtime |-> conn[c].stat, deny |-> deny]
  <2>1. PICK x, y : x = [run[r] EXCEPT !.cache = cache] /\ y = Answered(c, deny)
    OBVIOUS
  <2>2. deny \in BOOLEAN /\ conn[c].stat \in Nat /\ conn[c].stat <= run[r].mtime
    BY <1>a, <1>0, <1>3, WritesAssumption DEF PostureDenies, ConnRecords, ConnOK, Owned, GateLoad
  <2>3. run' = [run EXCEPT ![r] = x] /\ conn' = [conn EXCEPT ![c] = y]
    BY <1>a, <1>0, <1>1, <1>3, <2>1 DEF GateLoad, SetConn, Remember, Types
  <2>4. /\ x \in RunRecords /\ x.pc = run[r].pc /\ x.agent = run[r].agent /\ x.shadow = run[r].shadow
        /\ x.beat = run[r].beat /\ x.seen = run[r].seen /\ x.list = run[r].list /\ x.pins = run[r].pins
        /\ x.resolved = run[r].resolved /\ x.readonly = run[r].readonly /\ x.mtime = run[r].mtime
        /\ x.cache.known /\ x.cache.mtime = conn[c].stat /\ x.cache.deny = deny
    BY <1>1, <2>1, <2>2 DEF RunRecords
  <2>5. run'[r] = x /\ conn'[c] = y /\ (\A q \in AllRuns \ {r} : run'[q] = run[q])
        /\ \A e \in AllConns \ {c} : conn'[e] = conn[e]
    BY <1>0, <1>1, <2>3 DEF Types
  <2>6. conn[c].pc = "gating" /\ conn[c].tainted => deny
    BY <1>a, <1>0 DEF ConnOK, Checked
  <2>7. y \in ConnRecords /\ ConnOK(c)'
    <3>1. /\ run'[r].pc = run[r].pc /\ run'[r].agent = run[r].agent /\ run'[r].list = run[r].list
          /\ run'[r].pins = run[r].pins /\ run'[r].resolved = run[r].resolved
      BY <2>4, <2>5
    <3>2. PICK b \in BOOLEAN : b = deny
      BY <2>2
    <3>3. y = Answered(c, b) /\ conn'[c] = y /\ conn[c].gate # "off" /\ (conn[c].pc = "gating" /\ conn[c].tainted => b)
      BY <1>0, <2>1, <2>5, <2>6, <3>2
    <3> HIDE DEF deny, cache
    <3>4. QED
      BY <1>a, <1>0, <1>1, <3>1, <3>2, <3>3, AnsweredOK
  <2> HIDE DEF deny, cache
  <2>8. W' = W /\ (Linux <=> Linux')
    BY <1>0 DEF W, Linux
  <2>9. Stage(r)' /\ Boundary(r)'
    BY <1>1, <2>4, <2>5, <2>8 DEF RunOK, Stage, Boundary, AgentAlive, Live
  <2>10. Cached(r)' /\ Listed(r)'
    BY <1>1, <2>2, <2>4, <2>5, <2>8 DEF RunOK, Cached, Listed, deny
  <2>11. \A q \in AllRuns : Onward(q) /\ Steady(q)
    BY <2>4, <2>5 DEF Onward, Steady, Live, LauncherAlive
  <2>12. ASSUME NEW e \in AllConns PROVE ConnOK(e)'
    BY <1>0, <2>5, <2>7, <2>11, UntouchedConn DEF BoundaryInv, ConnOK, Owned, Busy
  <2>13. conn' \in [AllConns -> ConnRecords]
    BY <1>0, <2>3, <2>7 DEF Types
  <2>14. x.pc # "pruning"
    BY <1>1, <2>4 DEF RunOK, Stage, Before, Live
  <2>15. QED
    BY <1>0, <2>3, <2>4, <2>9, <2>10, <2>11, <2>12, <2>13, <2>14, <1>1, OneRunKeeps DEF LocalOK
<1>4. QED
  BY <1>2, <1>3

\* The proxy dials the pins of the host it allowed.
LEMMA DialKeeps ==
    ASSUME BoundaryInv, NEW c \in W.conns, Dial(c)
    PROVE  BoundaryInv'
<1>a. PICK r : r = conn[c].run
  OBVIOUS
<1>b. PICK name : name = conn[c].host.name
  OBVIOUS
<1>0. /\ Types /\ c \in AllConns /\ conn[c] \in ConnRecords /\ ConnOK(c) /\ world \in DOMAIN Worlds
      /\ conn[c].pc = "cleared" /\ conn[c].gate = "off" /\ UNCHANGED <<world, desc, receipt, dns, run>>
  BY DEF BoundaryInv, Types, AllConns, W, Dial, SetConn, ConnOK, Owned
<1>1. r \in AllRuns /\ Live(r) /\ run[r] \in RunRecords /\ RunOK(r)
  BY <1>a, <1>0 DEF ConnOK, Owned, Busy, Types, BoundaryInv
<1>2. CASE SetConn(c, [conn[c] EXCEPT !.pc = "closed"])
  <2>1. PICK y : y = [conn[c] EXCEPT !.pc = "closed"]
    OBVIOUS
  <2>2. y \in ConnRecords /\ y.pc = "closed" /\ y.run = r /\ y.gate = "off"
    BY <1>a, <1>0, <2>1 DEF ConnRecords
  <2>3. conn' = [conn EXCEPT ![c] = y] /\ conn'[c] = y
    BY <1>0, <1>2, <2>1 DEF SetConn, Types
  <2>4. ConnOK(c)'
    BY <1>0, <1>1, <2>2, <2>3 DEF ConnOK, Owned, Checked, Pinned, Busy, Reached, Live
  <2>5. QED
    BY <1>0, <2>2, <2>3, <2>4, OneConnMoves
<1>3. ASSUME NEW a \in allowedDialTargets(run[r].pins, dns, conn[c].host),
             SetConn(c, [conn[c] EXCEPT !.pc = IF conn[c].kind = "http" THEN "sent" ELSE "open", !.addr = {a},
                          !.gate = IF Gated(conn[c].host) /\ conn[c].kind # "http" THEN "watch" ELSE "off"])
      PROVE  BoundaryInv'
  <2>1. Allows(run[r].list, conn[c].host, conn[c].port)
    BY <1>a, <1>0 DEF ConnOK, Checked
  <2>2. name \in HostsOf(run[r].list)
    <3>1. PICK d \in run[r].list : d[1] = name
      BY <1>b, <2>1 DEF Allows
    <3>2. QED
      BY <3>1 DEF HostsOf
  <2>3. name \in DOMAIN run[r].pins /\ name \in Names
    <3>1. run[r].list \in Lists /\ run[r].list # {}
      BY <1>1, <2>2 DEF RunRecords, HostsOf
    <3>2. QED
      BY <1>1, <2>2, <3>1, ListNames DEF RunOK, Listed
  <2>4. run[r].pins[name] \subseteq Addresses
    <3>1. run[r].pins \in PinMaps /\ run[r].pins # <<>>
      BY <1>1, <2>3 DEF RunRecords
    <3>2. QED
      BY <2>3, <3>1 DEF PinMaps
  <2>5. dns[name] \subseteq Addresses
    BY <1>0, <2>3 DEF Types, Resolvers
  <2>6. a \in Addresses /\ (run[r].pins[name] # {} => a \in run[r].pins[name])
    BY <1>b, <1>3, <2>4, <2>5 DEF allowedDialTargets
  <2> DEFINE pc == IF conn[c].kind = "http" THEN "sent" ELSE "open"
             gate == IF Gated(conn[c].host) /\ conn[c].kind # "http" THEN "watch" ELSE "off"
  <2>7. pc \in {"sent", "open"} /\ gate \in {"watch", "off"} /\ (gate = "watch" => pc = "open")
    OBVIOUS
  <2>8. PICK y : y = [conn[c] EXCEPT !.pc = pc, !.addr = {a}, !.gate = gate]
    OBVIOUS
  <2>9. conn' = [conn EXCEPT ![c] = y] /\ conn'[c] = y
    BY <1>0, <1>3, <2>8 DEF SetConn, Types
  <2> HIDE DEF pc, gate
  <2>10. /\ y \in ConnRecords /\ y.pc = pc /\ y.gate = gate /\ y.run = r /\ y.addr = {a} /\ y.host.name = name
    BY <1>a, <1>b, <1>0, <2>6, <2>7, <2>8 DEF ConnRecords, Busy
  <2>11. Owned(c)' /\ Checked(c)'
    BY <1>0, <1>1, <2>7, <2>9, <2>10 DEF Owned, Checked, Busy, Live, LauncherAlive
  <2>12. Pinned(c)'
    BY <1>0, <1>1, <2>6, <2>7, <2>9, <2>10 DEF Pinned, Reached
  <2>13. QED
    BY <1>0, <2>9, <2>10, <2>11, <2>12, OneConnMoves DEF ConnOK
<1>4. QED
  BY <1>a, <1>2, <1>3 DEF Dial

\* The hello, and the end of a connection.
LEMMA HelloCloseKeeps ==
    ASSUME BoundaryInv, NEW c \in W.conns, Hello(c) \/ Close(c)
    PROVE  BoundaryInv'
<1>a. PICK r : r = conn[c].run
  OBVIOUS
<1>0. /\ Types /\ c \in AllConns /\ conn[c] \in ConnRecords /\ ConnOK(c) /\ conn[c].pc \in {"open", "piping"}
      /\ UNCHANGED <<world, desc, receipt, dns, run>>
  BY DEF BoundaryInv, Types, AllConns, W, Hello, Close, SetConn
<1>1. r \in AllRuns /\ Live(r)
  BY <1>a, <1>0 DEF ConnOK, Owned, Busy
<1>2. CASE SetConn(c, [conn[c] EXCEPT !.pc = "piping"])
  <2>1. PICK y : y = [conn[c] EXCEPT !.pc = "piping"]
    OBVIOUS
  <2>2. /\ y \in ConnRecords /\ y.pc = "piping" /\ y.run = r /\ y.gate = conn[c].gate /\ y.stat = conn[c].stat
        /\ y.addr = conn[c].addr /\ y.host = conn[c].host
    BY <1>a, <1>0, <2>1 DEF ConnRecords, Busy
  <2>3. conn' = [conn EXCEPT ![c] = y] /\ conn'[c] = y
    BY <1>0, <1>2, <2>1 DEF SetConn, Types
  <2>4. ConnOK(c)'
    BY <1>a, <1>0, <1>1, <2>2, <2>3 DEF ConnOK, Owned, Checked, Pinned, Busy, Reached, Live, LauncherAlive
  <2>5. QED
    BY <1>0, <2>2, <2>3, <2>4, OneConnMoves
<1>3. ASSUME NEW pc \in {"blocked", "closed"}, SetConn(c, [conn[c] EXCEPT !.pc = pc, !.gate = "off"])
      PROVE  BoundaryInv'
  <2>1. PICK y : y = [conn[c] EXCEPT !.pc = pc, !.gate = "off"]
    OBVIOUS
  <2>2. y \in ConnRecords /\ y.pc = pc /\ y.run = r /\ y.gate = "off"
    BY <1>a, <1>0, <2>1 DEF ConnRecords
  <2>3. conn' = [conn EXCEPT ![c] = y] /\ conn'[c] = y
    BY <1>0, <1>3, <2>1 DEF SetConn, Types
  <2>4. ConnOK(c)'
    BY <1>0, <1>1, <2>2, <2>3 DEF ConnOK, Owned, Checked, Pinned, Busy, Reached, Live
  <2>5. QED
    BY <1>0, <2>2, <2>3, <2>4, OneConnMoves
<1>4. QED
  BY <1>2, <1>3 DEF Hello, Close

\* A direct socket reaches what the filter accepts: each family drops by
\* default as soon as one destination of it is known, if ip6tables works.
LEMMA ConnectKeeps ==
    ASSUME BoundaryInv, NEW c \in W.conns, NEW r \in W.runs, Connect(c, r)
    PROVE  BoundaryInv'
<1>0. /\ r \in AllRuns /\ Types /\ RunOK(r) /\ c \in AllConns /\ conn[c] \in ConnRecords /\ ConnOK(c)
      /\ world \in DOMAIN Worlds
      /\ conn[c].pc = "new" /\ run[r].agent = "running" /\ UNCHANGED <<world, desc, receipt, dns, run>>
  BY DEF BoundaryInv, Types, AllRuns, AllConns, W, Connect, SetConn
<1>1. PICK q \in W.direct :
        SetConn(c, [conn[c] EXCEPT !.run = r, !.addr = {q.addr}, !.port = q.port,
                     !.pc = IF FilterAccepts(run[r].resolved, W.ip6, q.addr, q.port) THEN "direct" ELSE "blocked"])
  BY DEF Connect
<1> DEFINE pc == IF FilterAccepts(run[r].resolved, W.ip6, q.addr, q.port) THEN "direct" ELSE "blocked"
<1>2. q.addr \in Addresses /\ q.addr.v6 \in BOOLEAN /\ q.port \in Ports
  <2>1. q.addr \in Addresses
    BY <1>0, WorldsAssumption DEF W
  <2>2. q \in AllDirect
    BY <1>0 DEF AllDirect, W
  <2>3. QED
    BY <2>1, <2>2, AddressAssumption DEF Ports
<1>3. pc \in {"direct", "blocked"}
  OBVIOUS
<1>4. ASSUME pc = "direct", NEW d \in run[r].resolved, d[1].v6 = q.addr.v6, ~q.addr.lo,
             ~(q.addr.v6 /\ W.ip6 = "fails")
      PROVE  <<q.addr, q.port>> \in run[r].resolved
  <2>1. W.ip6 \in {"absent", "works", "fails"}
    BY <1>0, WorldsAssumption DEF W, IPv6Filters
  <2>2. FilterAccepts(run[r].resolved, W.ip6, q.addr, q.port)
    BY <1>4
  <2>3. QED
    BY <1>0, <1>2, <1>4, <2>1, <2>2 DEF FilterAccepts, RunOK, Listed
<1>5. PICK y : y = [conn[c] EXCEPT !.run = r, !.addr = {q.addr}, !.port = q.port, !.pc = pc]
  OBVIOUS
<1>6. conn' = [conn EXCEPT ![c] = y] /\ conn'[c] = y
  BY <1>0, <1>1, <1>5 DEF SetConn, Types
<1> HIDE DEF pc
<1>7. y \in ConnRecords /\ y.pc = pc /\ y.run = r /\ y.addr = {q.addr} /\ y.port = q.port /\ y.gate = "off"
  BY <1>0, <1>2, <1>3, <1>5 DEF ConnRecords, ConnOK, Owned, Busy
<1>8. Owned(c)' /\ Checked(c)'
  BY <1>0, <1>3, <1>6, <1>7 DEF Owned, Checked, Busy
<1>9. Pinned(c)'
  BY <1>0, <1>3, <1>4, <1>6, <1>7 DEF Pinned, Reached, W
<1>10. QED
  BY <1>0, <1>6, <1>7, <1>8, <1>9, OneConnMoves DEF ConnOK

-----------------------------------------------------------------------------
(***************************************************************************)
(* The theorems.                                                           *)
(***************************************************************************)
\* No launch has begun.
LEMMA BoundaryInit == Init => BoundaryInv
<1> SUFFICES ASSUME Init PROVE BoundaryInv
  OBVIOUS
<1>1. Idle \in RunRecords
  BY WritesAssumption DEF Idle, RunRecords, Pcs, Descs, Lists, PinMaps, Resolutions, Guards, Unread
<1>2. NoConn \in ConnRecords
  BY WritesAssumption DEF NoConn, ConnRecords, Kinds, Hosts, Ports, Busy
<1>3. W.dns \in Resolvers
  BY WorldsAssumption DEF Init, W, Resolvers
<1>4. Types
  BY <1>1, <1>2, <1>3 DEF Init, Types, Descs
<1>5. ASSUME NEW r \in AllRuns PROVE RunOK(r)
  BY DEF Init, Idle, RunOK, Stage, Boundary, Descriptors, Cached, Listed, AgentAlive, Unread, Before, After
<1>6. ASSUME NEW c \in AllConns PROVE ConnOK(c)
  BY DEF Init, NoConn, ConnOK, Owned, Checked, Pinned, Busy, Reached
<1>7. DescOK /\ ReceiptOK
  BY DEF Init, DescOK, ReceiptOK
<1>8. QED
  BY <1>4, <1>5, <1>6, <1>7 DEF BoundaryInv

\* Time and names change nothing that is relied on.
LEMMA WorldKeeps ==
    ASSUME BoundaryInv, BeatExpires \/ DnsChanges \/ UNCHANGED vars
    PROVE  BoundaryInv'
<1>1. UNCHANGED <<world, run, conn, receipt>> /\ Types
  BY DEF BeatExpires, DnsChanges, vars, BoundaryInv
<1>2. Types' /\ DescOK'
  <2>1. CASE BeatExpires
    <3>1. desc \in [run : AllRuns, beat : {"fresh", "expired"}] /\ desc # NoDesc
      BY <1>1, <2>1 DEF BeatExpires, Types, Descs, NoDesc
    <3>2. desc' \in Descs /\ desc'.run = desc.run
      BY <2>1, <3>1 DEF BeatExpires, Descs
    <3>3. QED
      BY <1>1, <2>1, <3>1, <3>2 DEF BeatExpires, BoundaryInv, Types, DescOK, Begun, W
  <2>2. CASE DnsChanges
    <3>1. W.later \in Resolvers
      BY <1>1, WorldsAssumption DEF Types, W, Resolvers
    <3>2. QED
      BY <1>1, <2>2, <3>1 DEF DnsChanges, BoundaryInv, Types, DescOK, Begun, W
  <2>3. CASE UNCHANGED vars
    BY <1>1, <2>3 DEF vars, BoundaryInv, Types, DescOK, Begun, W
  <2>4. QED
    BY <2>1, <2>2, <2>3
<1>3. \A q : Onward(q) /\ Steady(q)
  BY <1>1 DEF Onward, Steady, Live, LauncherAlive
<1>4. ASSUME NEW q \in AllRuns PROVE RunOK(q)'
  BY <1>1, <1>3, UntouchedRun DEF BoundaryInv
<1>5. ASSUME NEW c \in AllConns PROVE ConnOK(c)'
  BY <1>1, <1>3, UntouchedConn DEF BoundaryInv
<1>6. ReceiptOK'
  BY <1>1 DEF BoundaryInv, ReceiptOK, W
<1>7. QED
  BY <1>2, <1>4, <1>5, <1>6 DEF BoundaryInv

\* The invariant holds of every behaviour.
LEMMA BoundaryInvariant == Spec => []BoundaryInv
<1>1. ASSUME BoundaryInv, [Next]_vars PROVE BoundaryInv'
  BY <1>1, LauncherMoves, PrepareKeeps, EndKeeps, PruneKeeps, HookSavesKeeps, AdmitKeeps, GateKeeps, DialKeeps,
     HelloCloseKeeps, ConnectKeeps, WorldKeeps DEF Next, Launcher
<1>2. QED
  BY <1>1, BoundaryInit, PTL DEF Spec

\* The variables of `sir run` have their types.
THEOREM ContainedTypes == Spec => []TypeOK
<1>1. BoundaryInv => TypeOK
  <2> SUFFICES ASSUME BoundaryInv PROVE TypeOK
    OBVIOUS
  <2>1. Types /\ W.runs \subseteq AllRuns /\ W.conns \subseteq AllConns
    BY DEF BoundaryInv, Types, W, AllRuns, AllConns
  <2>2. desc = NoDesc \/ (desc.run \in W.runs /\ desc.beat \in {"fresh", "expired"})
    BY <2>1 DEF BoundaryInv, DescOK, Begun, Types, Descs
  <2>3. \A r \in W.runs : run[r] \in RunRecords
    BY <2>1 DEF Types
  <2>4. \A c \in W.conns : conn[c] \in ConnRecords
    BY <2>1 DEF Types
  <2>5. QED
    BY <2>2, <2>3, <2>4 DEF BoundaryInv, ReceiptOK, TypeOK, RunRecords, ConnRecords
<1>2. QED
  BY <1>1, BoundaryInvariant, PTL

\* The session state of an agent that runs is never removed, by its own
\* launch or by the pruning of another (PruneStaleRuntimeContainment).
THEOREM LiveShadowsStay == Spec => []LiveShadowKept
<1>1. BoundaryInv => LiveShadowKept
  BY DEF BoundaryInv, Types, RunOK, Boundary, LiveShadowKept, AllRuns, W
<1>2. QED
  BY <1>1, BoundaryInvariant, PTL

\* A launch that is over is never reported as a boundary in force, whenever
\* its last heartbeat was written (InspectRuntimeContainment).
THEOREM GhostsAreStale == Spec => []NoGhostBoundary
<1>1. BoundaryInv => NoGhostBoundary
  BY DEF BoundaryInv, Types, DescOK, Begun, RunOK, Stage, NoGhostBoundary, Health, AllRuns, W
<1>2. QED
  BY <1>1, BoundaryInvariant, PTL

\* While an agent runs no guarded path is writable, and no file a guarded path
\* is a link to (linuxMissingGuardTargets, bind_readonly).
THEOREM GuardsAreComplete == Spec => []GuardsHold
<1>1. BoundaryInv => GuardsHold
  BY DEF BoundaryInv, Types, RunOK, Boundary, GuardsHold, AllRuns, W
<1>2. QED
  BY <1>1, BoundaryInvariant, PTL

\* No new connection gets out while the session is at a floor: the cached
\* answer is as old as the file it was read from (externalEgressDenied).
THEOREM FloorsStopEgress == Spec => []FloorStopsNewEgress
<1>1. BoundaryInv => FloorStopsNewEgress
  BY DEF BoundaryInv, Types, ConnOK, Checked, FloorStopsNewEgress, AllConns, W
<1>2. QED
  BY <1>1, BoundaryInvariant, PTL

\* A pinned host is reached at its pins only, and a direct socket that leaves the
\* namespace reaches exact destinations in every family that has one, IPv6 where
\* ip6tables does not fail (allowedDialTargets, linuxContainmentAllowlistScript).
THEOREM PinsAreKept == Spec => []PinsHold
<1>1. BoundaryInv => PinsHold
  BY DEF BoundaryInv, Types, ConnOK, Pinned, PinsHold, AllConns, W
<1>2. QED
  BY <1>1, BoundaryInvariant, PTL
=============================================================================
