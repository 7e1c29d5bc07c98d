----------------------------- MODULE McpProofs -----------------------------
(***************************************************************************)
(* Proofs about MCP servers, for any set of servers and config files, any  *)
(* number of commands that interleave, and any number of calls and edits:  *)
(* what the lease, an old copy of it, the acknowledgments and the config   *)
(* files may hold, and that a proxy leaves nothing of its server's stderr  *)
(* unread.                                                                 *)
(***************************************************************************)
EXTENDS McpServers, TLAPS

Numbers == Versions \cup {0, 1}
EntryStates == {"absent", "raw", "wrapped"}
Docs == [ok : BOOLEAN, entry : [Servers -> EntryStates]]
Recs == [here : BOOLEAN, pin : Numbers, wrap : BOOLEAN, tools : Numbers, captured : BOOLEAN]
Leases == [approved : SUBSET Servers, rec : [Servers -> Recs], discovered : [Servers -> [here : BOOLEAN, wrap : BOOLEAN]]]
Acks == [pending : [Servers -> Numbers], acked : [Servers -> Numbers]]
Histories ==
    [confirmed : SUBSET Servers, shown : SUBSET (Servers \X Numbers), slipped : SUBSET (Servers \X Numbers)]
OpNames == {"approve", "revoke", "scan", "wrap", "install"}
CmdRecords ==
    [pc : {"new", "read", "review", "update", "write", "done"}, op : OpNames \cup {"none"}, name : {o.name : o \in Ops} \cup {"none"},
     plan : SUBSET Servers, lease : Leases \cup {<<>>}, probes : (UNION {[T -> Numbers] : T \in SUBSET Servers}) \cup {<<>>},
     seen : Numbers, file : Nat \ {0}, doc : [Servers -> EntryStates] \cup {<<>>}]
CallRecords ==
    [pc : {"none", "asked", "run"}, server : Servers \cup {"none"}, bin : Numbers, silent : BOOLEAN, pinned : BOOLEAN,
     checked : BOOLEAN]

\* The operator has seen every version a function of servers names.
Seen(f, h) == \A s \in Servers : f[s] # 0 => <<s, f[s]>> \in h.shown

\* What may be trusted of a lease, given what the operator confirmed and was
\* shown: its explicit servers and the binaries it pins, but for those that
\* slipped in between a review and its pin.
Vetted(l, h) ==
    /\ Strict => l.approved \cap Explicit \subseteq h.confirmed
    /\ \A s \in Servers : l.rec[s].pin # 0 => <<s, l.rec[s].pin>> \in h.shown \cup h.slipped

\* A command under way: the copy of the lease that install will save is as
\* vetted as the lease, the hash a review has shown was shown, and a file's
\* contents read for a rewrite hold no doubly wrapped entry.
Sound(r, h) ==
    /\ r.pc \in {"read", "review", "update", "write"} =>
          /\ r.op \in OpNames
          /\ r.op \in {"approve", "revoke"} => r.name \in Servers
          /\ r.op \in {"approve", "scan", "install"} => r.lease \in Leases
          /\ r.op = "install" => Vetted(r.lease, h)
    /\ r.pc \in {"review", "update"} => r.probes \in UNION {[T -> Numbers] : T \in SUBSET Servers}
    /\ r.pc = "review" => r.op = "approve"
    /\ r.pc \in {"review", "update"} /\ r.op = "approve" => r.name \in DOMAIN r.probes
    /\ r.pc = "update" /\ r.op = "approve" /\ r.seen # 0 => <<r.name, r.seen>> \in h.shown
    /\ r.pc = "write" => r.file \in 1..Files /\ r.doc \in [Servers -> EntryStates] /\ r.op \in {"wrap", "install"}

TrustTypes ==
    /\ config \in [1..Files -> Docs] /\ server \in [Servers -> [bin : Numbers, tools : Numbers]]
    /\ lease \in Leases /\ session \in Acks /\ history \in Histories /\ call \in CallRecords
    /\ cmd \in [1..Commands -> CmdRecords]
    /\ call.pc # "none" => call.server \in Servers

TrustInv ==
    /\ TrustTypes
    /\ Vetted(lease, history)
    /\ Seen(session.pending, history) /\ Seen(session.acked, history)
    /\ \A c \in 1..Commands : Sound(cmd[c], history)
    /\ NoUnseenSwap

\* The proxy: every piece is in the pipe or was passed on, a reader that saw
\* the end of the file left nobody who could write, and one that never
\* started has nothing to read.
ProxyRecords ==
    [pc : {"off", "running", "stopping", "draining", "exited"}, mode : Modes, assessed : Modes,
     reader : {"off", "reading", "done"}, forwarder : {"off", "waiting", "done", "killed", "escalated"}, forwarded : {0, 1}]
ProxyInv ==
    /\ px \in ProxyRecords /\ group \in [child : BOOLEAN, orphan : BOOLEAN]
    /\ pipe \in Nat /\ told \in Nat /\ written = told + pipe
    /\ px.pc = "off" => px.reader = "off"
    /\ px.reader = "off" => pipe = 0
    /\ px.reader = "done" => pipe = 0 /\ ~group.child /\ ~group.orphan
    /\ px.pc = "exited" /\ px.forwarder = "done" => px.reader # "reading"

-----------------------------------------------------------------------------
(***************************************************************************)
(* The proxy.                                                              *)
(***************************************************************************)
\* The modes of the sandbox are known ones.
LEMMA ModesKnown ==
    ASSUME NEW os, NEW spec, NEW tool
    PROVE  ModeOf(os, spec, tool) \in Modes /\ AssessProxyRuntime(os, spec, tool) \in Modes
<1>1. darwinSandboxProfile(spec) \in Modes BY DEF darwinSandboxProfile, Modes
<1> QED BY <1>1 DEF ModeOf, AssessProxyRuntime, Modes

\* The steps of the server and its children keep the invariant of the proxy.
LEMMA ServerSteps == ProxyInv /\ (Write \/ Fork \/ ChildEnds \/ OrphanEnds) => ProxyInv'
<1> HAVE ProxyInv /\ (Write \/ Fork \/ ChildEnds \/ OrphanEnds)
<1>1. CASE Write BY <1>1 DEF ProxyInv, ProxyRecords, Write
<1>2. CASE Fork \/ ChildEnds \/ OrphanEnds BY <1>2 DEF ProxyInv, ProxyRecords, Fork, ChildEnds, OrphanEnds
<1> QED BY <1>1, <1>2

\* Every step of the proxy keeps its invariant.
LEMMA ProxyKeeps == ProxyInv /\ ProxyNext => ProxyInv'
<1> HAVE ProxyInv /\ ProxyNext
<1> USE DEF ProxyInv, ProxyRecords
<1>1. CASE Launch
  <2>1. PICK os \in Systems, spec \in Specs, tool \in BOOLEAN, piped \in BOOLEAN, started \in BOOLEAN :
            /\ px' = [pc |-> IF started THEN "running" ELSE "exited", mode |-> ModeOf(os, spec, tool),
                      assessed |-> AssessProxyRuntime(os, spec, tool),
                      reader |-> IF piped /\ started THEN "reading" ELSE "off",
                      forwarder |-> IF started THEN "waiting" ELSE "off", forwarded |-> 0]
            /\ group' = [child |-> started, orphan |-> FALSE]
    BY <1>1 DEF Launch
  <2>2. px' \in ProxyRecords BY <2>1, ModesKnown
  <2>3. px.reader = "off" /\ UNCHANGED <<pipe, told, written>> BY <1>1 DEF Launch
  <2>4. group' \in [child : BOOLEAN, orphan : BOOLEAN] BY <2>1
  <2> QED BY <2>1, <2>2, <2>3, <2>4
<1>2. CASE Write \/ Fork \/ ChildEnds \/ OrphanEnds BY <1>2, ServerSteps
<1>3. CASE Scan BY <1>3 DEF Scan
<1>4. CASE Eof BY <1>4 DEF Eof
<1>5. CASE Interrupt BY <1>5 DEF Interrupt
<1>6. CASE Forward
  <2>1. UNCHANGED <<pipe, told, written>> BY <1>6 DEF Forward
  <2>2. CASE px.forwarded = 0
    <3>1. px' = [px EXCEPT !.forwarded = 1] BY <1>6, <2>2 DEF Forward
    <3>2. group' \in Signalled(killProcessGroup(-1)) BY <1>6, <2>2 DEF Forward
    <3>3. group' \in [child : BOOLEAN, orphan : BOOLEAN] /\ (group'.child => group.child) /\ (group'.orphan => group.orphan)
      BY <3>2 DEF Signalled
    <3>4. px' \in ProxyRecords /\ px'.reader = px.reader /\ px'.pc = px.pc /\ px'.forwarder = px.forwarder BY <3>1
    <3>5. px.reader = "done" => ~group'.child /\ ~group'.orphan BY <3>3
    <3> HIDE DEF ProxyRecords
    <3> QED BY <2>1, <3>3, <3>4, <3>5
  <2>3. CASE px.forwarded # 0
    <3>1. px' = [px EXCEPT !.pc = "exited", !.forwarder = "escalated"] /\ group' = Killed(killProcessGroup(-1))
      BY <1>6, <2>3 DEF Forward
    <3>2. group' \in [child : BOOLEAN, orphan : BOOLEAN] BY <3>1 DEF Killed
    <3>3. (group'.child => group.child) /\ (group'.orphan => group.orphan) BY <3>1 DEF Killed
    <3>4. px' \in ProxyRecords /\ px'.reader = px.reader /\ px'.pc = "exited" /\ px'.forwarder = "escalated" BY <3>1
    <3> QED BY <2>1, <3>2, <3>3, <3>4
  <2> QED BY <2>2, <2>3
<1>7. CASE Wait \/ ForwarderDone BY <1>7 DEF Wait, ForwarderDone
<1>8. CASE Leave
  <2>1. px' = [px EXCEPT !.pc = "exited"] /\ px.reader # "reading" /\ UNCHANGED <<pipe, told, written>>
    BY <1>8 DEF Leave
  <2>2. group' \in Signalled(Reached(-1)) BY <1>8 DEF Leave
  <2>3. group' \in [child : BOOLEAN, orphan : BOOLEAN] /\ (group'.child => group.child) /\ (group'.orphan => group.orphan)
    BY <2>2 DEF Signalled
  <2>4. px' \in ProxyRecords /\ px'.reader = px.reader /\ px'.pc = "exited" BY <2>1
  <2>5. px.reader = "done" => ~group'.child /\ ~group'.orphan BY <2>3
  <2> HIDE DEF ProxyRecords
  <2> QED BY <2>1, <2>3, <2>4, <2>5
<1> QED BY <1>1, <1>2, <1>3, <1>4, <1>5, <1>6, <1>7, <1>8 DEF ProxyNext

\* The invariant of the proxy holds in the initial states.
LEMMA ProxyStarts == ProxyInit => ProxyInv
BY DEF ProxyInit, ProxyInv, ProxyRecords, Modes

\* However the server and the processes it leaves behind write, fork and end,
\* and however its interrupts fall, a proxy that leaves in the ordinary way
\* has read and passed on all they wrote (runProxyChild waits for
\* scanStderrForCredentials before it returns).
THEOREM NothingUnread == Spec => []StderrScanned
<1>1. ProxyInv => StderrScanned BY DEF ProxyInv, ProxyRecords, StderrScanned
<1>2. Init => ProxyInv BY ProxyStarts DEF Init
<1>3. ProxyInv /\ [Next]_vars => ProxyInv'
  <2>1. ProxyInv /\ UNCHANGED proxy => ProxyInv' BY DEF ProxyInv, proxy
  <2> QED BY <2>1, ProxyKeeps DEF Next, vars
<1> QED BY <1>1, <1>2, <1>3, PTL DEF Spec

-----------------------------------------------------------------------------
(***************************************************************************)
(* What the commands make of a lease.                                      *)
(***************************************************************************)
Grows(h, more) ==
    h.confirmed \subseteq more.confirmed /\ h.shown \subseteq more.shown /\ h.slipped \subseteq more.slipped

\* What was vetted stays vetted when the developer sees and confirms more.
LEMMA VettedGrows ==
    ASSUME NEW h, NEW more, Grows(h, more)
    PROVE  /\ \A l : Vetted(l, h) => Vetted(l, more)
           /\ \A f : Seen(f, h) => Seen(f, more)
           /\ \A r : Sound(r, h) => Sound(r, more)
<1>1. \A l : Vetted(l, h) => Vetted(l, more) BY DEF Grows, Vetted
<1>2. \A f : Seen(f, h) => Seen(f, more) BY DEF Grows, Seen
<1>3. h.shown \subseteq more.shown BY DEF Grows
<1> QED BY <1>1, <1>2, <1>3 DEF Sound

\* A lease with no approval and no pin the other does not have.
LEMMA VettedLess ==
    ASSUME NEW l, NEW h, Vetted(l, h), NEW m, Strict => m.approved \cap Explicit \subseteq l.approved,
           \A s \in Servers : m.rec[s].pin # 0 => m.rec[s].pin = l.rec[s].pin
    PROVE  Vetted(m, h)
BY DEF Vetted

\* What a stat of the command of a server returns is its binary, or nothing.
LEMMA NumbersOfServers ==
    ASSUME TrustTypes, NEW s \in Servers, NEW wrap, NEW r \in StatCommand(s, wrap)
    PROVE  /\ r.hash \in {0, server[s].bin} /\ server[s].bin \in Numbers /\ r.hash \in Numbers
           /\ r.hash # 0 => r.hash = server[s].bin
<1>0. 0 \in Numbers BY DEF Numbers
<1>1. server[s].bin \in Numbers BY DEF TrustTypes
<1>2. r \in {[ok |-> TRUE, hash |-> 0], [ok |-> TRUE, hash |-> server[s].bin], [ok |-> FALSE, hash |-> 0]}
  BY DEF StatCommand
<1>3. r.hash \in {0, server[s].bin} BY <1>2
<1> QED BY <1>0, <1>1, <1>3

\* Revoking an approval leaves a vetted lease (RemoveApproved).
LEMMA RemoveVetted ==
    ASSUME NEW l \in Leases, NEW h, Vetted(l, h), NEW s \in Servers
    PROVE  RemoveApproved(l, s) \in Leases /\ Vetted(RemoveApproved(l, s), h)
<1> DEFINE m == RemoveApproved(l, s)
<1>1. NoRec \in Recs BY DEF NoRec, Recs, Numbers
<1>2. m = [l EXCEPT !.approved = l.approved \ {s}, !.rec = [l.rec EXCEPT ![s] = NoRec]] BY DEF RemoveApproved, Leases
<1>3. m \in Leases BY <1>1, <1>2 DEF Leases
<1>4. m.approved \subseteq l.approved /\ m.rec = [l.rec EXCEPT ![s] = NoRec] BY <1>2 DEF Leases
<1>5. \A t \in Servers : m.rec[t].pin # 0 => m.rec[t].pin = l.rec[t].pin BY <1>4 DEF NoRec, Leases
<1> QED BY <1>3, <1>4, <1>5, VettedLess

\* Approving a server that was confirmed, and whose binary was shown or slipped
\* in, leaves a vetted lease (Approve).
LEMMA ApproveVetted ==
    ASSUME NEW l \in Leases, NEW h, Vetted(l, h), NEW s \in Servers, NEW tools \in Numbers, NEW hash \in Numbers,
           s \in h.confirmed, hash # 0 => <<s, hash>> \in h.shown \cup h.slipped
    PROVE  Approve(l, s, tools, hash) \in Leases /\ Vetted(Approve(l, s, tools, hash), h)
<1> DEFINE wrap == l.discovered[s].wrap
           new == [here |-> TRUE, pin |-> hash, wrap |-> wrap, tools |-> tools, captured |-> tools # 0]
           m == Approve(l, s, tools, hash)
<1>1. wrap \in BOOLEAN BY DEF Leases
<1>2. new \in Recs BY <1>1 DEF Recs
<1>3. m = [l EXCEPT !.approved = l.approved \cup {s}, !.rec = [l.rec EXCEPT ![s] = new],
                    !.discovered = [l.discovered EXCEPT ![s] = NotFound]]
  BY DEF Approve
<1>4. NotFound \in [here : BOOLEAN, wrap : BOOLEAN] BY DEF NotFound
<1>5. m \in Leases
  <2> HIDE DEF new, m
  <2> QED BY <1>2, <1>3, <1>4 DEF Leases
<1>6. m.rec[s].pin # 0 => <<s, m.rec[s].pin>> \in h.shown \cup h.slipped
  <2>1. m.rec[s].pin = hash BY <1>3 DEF Leases
  <2> QED BY <2>1
<1>7. \A t \in Servers \ {s} : m.rec[t] = l.rec[t] BY <1>3 DEF Leases
<1>8. Strict => m.approved \cap Explicit \subseteq h.confirmed BY <1>3 DEF Vetted
<1> QED BY <1>5, <1>6, <1>7, <1>8 DEF Vetted

\* A scan, which revokes what drifted and records what it saw first, leaves a
\* vetted lease.
LEMMA ScannedVetted ==
    ASSUME NEW l \in Leases, NEW h, Vetted(l, h), NEW seen, NEW T \in SUBSET Servers, NEW probes \in [T -> Numbers]
    PROVE  Scanned(l, seen, probes) \in Leases /\ Vetted(Scanned(l, seen, probes), h)
<1> DEFINE is(s, o) == s \in T /\ outcome(seen.rec[s].tools, probes[s]) = o
           rec == [s \in Servers |-> IF is(s, "drift") THEN NoRec
                                     ELSE IF is(s, "capture")
                                          THEN [l.rec[s] EXCEPT !.here = TRUE, !.tools = probes[s], !.captured = TRUE]
                                     ELSE l.rec[s]]
           m == Scanned(l, seen, probes)
<1>1. NoRec \in Recs BY DEF NoRec, Recs, Numbers
<1>2. m = [l EXCEPT !.approved = {s \in l.approved : ~is(s, "drift")}, !.rec = rec] BY DEF Scanned
<1>3. ASSUME NEW s \in Servers PROVE rec[s] \in Recs /\ (rec[s].pin # 0 => rec[s].pin = l.rec[s].pin)
  <2> HIDE DEF is
  <2>1. l.rec[s] \in Recs BY DEF Leases
  <2>2. is(s, "capture") => probes[s] \in Numbers BY DEF is
  <2>3. CASE is(s, "drift") BY <1>1, <2>3 DEF NoRec
  <2>4. CASE ~is(s, "drift") /\ is(s, "capture") BY <2>1, <2>2, <2>4 DEF Recs
  <2>5. CASE ~is(s, "drift") /\ ~is(s, "capture") BY <2>1, <2>5
  <2> QED BY <2>3, <2>4, <2>5
<1> HIDE DEF is, rec
<1>4. rec \in [Servers -> Recs] BY <1>3 DEF rec
<1>5. m \in Leases BY <1>2, <1>4 DEF Leases
<1>6. m.rec = rec /\ m.approved \subseteq l.approved BY <1>2 DEF Leases
<1> QED BY <1>3, <1>5, <1>6, VettedLess

\* An install, which carries the approvals over, leaves a vetted lease.
LEMMA InstalledVetted ==
    ASSUME NEW l \in Leases, NEW h, Vetted(l, h)
    PROVE  Installed(l) \in Leases /\ Vetted(Installed(l), h)
<1> DEFINE carried == l.approved \cap ApprovedServerNames
           m == Installed(l)
<1>1. CASE ApprovedServerNames = {} BY <1>1 DEF Installed
<1>2. CASE ApprovedServerNames # {} /\ ~Strict
  <2>1. m = [l EXCEPT !.approved = ApprovedServerNames] BY <1>2 DEF Installed
  <2>2. ApprovedServerNames \subseteq Servers BY DEF ApprovedServerNames, DiscoverInventory
  <2>3. m \in Leases /\ m.rec = l.rec BY <2>1, <2>2 DEF Leases
  <2> QED BY <1>2, <2>3, VettedLess
<1>3. CASE ApprovedServerNames # {} /\ Strict
  <2> DEFINE rec == [s \in Servers |-> IF s \in carried THEN l.rec[s] ELSE NoRec]
             found == [s \in Servers |-> IF s \in ApprovedServerNames \ carried
                                         THEN [here |-> TRUE, wrap |-> ClassifyProxy(entryOf(s))] ELSE NotFound]
  <2>1. m = [approved |-> carried, rec |-> rec, discovered |-> found] BY <1>3 DEF Installed
  <2>2. NoRec \in Recs BY DEF NoRec, Recs, Numbers
  <2>3. rec \in [Servers -> Recs] BY <2>2 DEF Leases
  <2>4. found \in [Servers -> [here : BOOLEAN, wrap : BOOLEAN]] BY DEF NotFound, ClassifyProxy
  <2>5. carried \in SUBSET Servers BY DEF Leases
  <2> HIDE DEF found
  <2>6. m \in Leases BY <2>1, <2>3, <2>4, <2>5 DEF Leases
  <2>7. \A s \in Servers : m.rec[s].pin # 0 => m.rec[s].pin = l.rec[s].pin BY <2>1 DEF NoRec
  <2>8. m.approved \subseteq l.approved BY <2>1
  <2> QED BY <2>6, <2>7, <2>8, VettedLess
<1> QED BY <1>1, <1>2, <1>3

\* A hook's refresh leaves the explicit servers out.
LEMMA AutoVetted ==
    ASSUME NEW l \in Leases, NEW h, Vetted(l, h)
    PROVE  autoApprove(l) \in Leases /\ Vetted(autoApprove(l), h) /\ autoApprove(l).rec = l.rec
<1>1. AutoApprovedServerNames \subseteq Servers /\ AutoApprovedServerNames \cap Explicit = {}
  BY DEF AutoApprovedServerNames, DiscoverInventory
<1>2. autoApprove(l) = [l EXCEPT !.approved = l.approved \cup AutoApprovedServerNames] BY DEF autoApprove
<1>3. autoApprove(l) \in Leases /\ autoApprove(l).rec = l.rec BY <1>1, <1>2 DEF Leases
<1>4. autoApprove(l).approved \cap Explicit \subseteq l.approved BY <1>1, <1>2 DEF Leases
<1> QED BY <1>3, <1>4, VettedLess

-----------------------------------------------------------------------------
(***************************************************************************)
(* The commands.  A command changes its own record, and of the rest only   *)
(* what its step says.                                                     *)
(***************************************************************************)
\* A step of a command that leaves a sound record, a vetted lease and
\* acknowledgments of what was shown keeps the invariant.
LEMMA CommandMoves ==
    ASSUME TrustInv, NEW c \in 1..Commands, NEW r \in CmdRecords, cmd' = [cmd EXCEPT ![c] = r], Sound(r, history'),
           UNCHANGED <<server, call>>, config' \in [1..Files -> Docs],
           lease' \in Leases, Vetted(lease', history'), history' \in Histories, Grows(history, history'),
           session' \in Acks, Seen(session'.pending, history'), Seen(session'.acked, history')
    PROVE  TrustInv'
<1>1. TrustTypes' BY DEF TrustInv, TrustTypes
<1>2. \A d \in 1..Commands : Sound(cmd'[d], history')
  <2>1. \A d \in 1..Commands : Sound(cmd[d], history') BY VettedGrows DEF TrustInv
  <2> QED BY <2>1 DEF TrustInv, TrustTypes
<1>3. NoUnseenSwap' BY DEF TrustInv, NoUnseenSwap, Grows
<1> QED BY <1>1, <1>2, <1>3 DEF TrustInv

\* A step that changes nothing but the command's own record.
LEMMA OnlyCommand ==
    ASSUME TrustInv, NEW c \in 1..Commands, NEW r \in CmdRecords, cmd' = [cmd EXCEPT ![c] = r], Sound(r, history),
           UNCHANGED <<config, server, lease, session, call, history>>
    PROVE  TrustInv'
<1>1. Grows(history, history') BY DEF Grows
<1> QED BY <1>1, CommandMoves DEF TrustInv, TrustTypes

\* A command that ended is sound, whatever was shown and confirmed.
LEMMA FinishSound == [NewCmd EXCEPT !.pc = "done"] \in CmdRecords /\ \A h : Sound([NewCmd EXCEPT !.pc = "done"], h)
<1>1. NewCmd \in CmdRecords BY DEF NewCmd, CmdRecords, Numbers
<1>2. [NewCmd EXCEPT !.pc = "done"] \in CmdRecords /\ [NewCmd EXCEPT !.pc = "done"].pc = "done" BY <1>1 DEF CmdRecords
<1> QED BY <1>2 DEF Sound

\* A command that ends and leaves a lease behind.
LEMMA CommandEnds ==
    ASSUME TrustInv, NEW c \in 1..Commands, Finish(c), UNCHANGED <<server, call, config, session>>,
           lease' \in Leases, Vetted(lease', history'), history' \in Histories, Grows(history, history')
    PROVE  TrustInv'
<1>1. session' \in Acks /\ Seen(session'.pending, history') /\ Seen(session'.acked, history')
  BY VettedGrows DEF TrustInv, TrustTypes
<1>2. config' \in [1..Files -> Docs] BY DEF TrustInv, TrustTypes
<1>3. cmd' = [cmd EXCEPT ![c] = [NewCmd EXCEPT !.pc = "done"]] BY DEF Finish
<1> QED BY <1>1, <1>2, <1>3, FinishSound, CommandMoves

\* A command that starts keeps the invariant of trust.
LEMMA BeginKeeps == ASSUME TrustInv, NEW c \in 1..Commands, Begin(c) PROVE TrustInv'
<1>1. PICK o \in Ops :
          /\ cmd[c].pc = "new"
          /\ IF Idle(o) THEN Finish(c)
             ELSE cmd' = [cmd EXCEPT ![c] =
                      [cmd[c] EXCEPT !.pc = "read", !.op = o.op, !.name = o.name,
                                     !.plan = IF o.op \in {"wrap", "install"} THEN PlanProxyRewrites ELSE {},
                                     !.lease = CASE o.op = "install" -> Installed(lease)
                                                 [] o.op \in {"approve", "scan"} -> lease
                                                 [] OTHER -> cmd[c].lease]]
  BY DEF Begin
<1>2. UNCHANGED <<config, server, lease, session, call, history>> BY DEF Begin
<1>3. CASE Idle(o)
  <2>1. Grows(history, history') BY <1>2 DEF Grows
  <2> QED BY <1>1, <1>2, <1>3, <2>1, CommandEnds DEF TrustInv, TrustTypes
<1>4. CASE ~Idle(o)
  <2> DEFINE plan == IF o.op \in {"wrap", "install"} THEN PlanProxyRewrites ELSE {}
             l == CASE o.op = "install" -> Installed(lease) [] o.op \in {"approve", "scan"} -> lease [] OTHER -> cmd[c].lease
             r == [cmd[c] EXCEPT !.pc = "read", !.op = o.op, !.name = o.name, !.plan = plan, !.lease = l]
  <2>1. cmd' = [cmd EXCEPT ![c] = r] BY <1>1, <1>4
  <2>2. cmd[c] \in CmdRecords /\ lease \in Leases /\ Vetted(lease, history) BY DEF TrustInv, TrustTypes
  <2>3. plan \in SUBSET Servers BY DEF PlanProxyRewrites, DiscoverInventory
  <2>4. o.op \in OpNames /\ (o.op \in {"approve", "revoke"} => o.name \in Servers) BY McpAssumption DEF OpNames
  <2>5. Installed(lease) \in Leases /\ Vetted(Installed(lease), history) BY <2>2, InstalledVetted
  <2>6. cmd[c].lease \in Leases \cup {<<>>} BY <2>2 DEF CmdRecords
  <2>7. /\ l \in Leases \cup {<<>>} /\ (o.op \in {"approve", "scan", "install"} => l \in Leases)
        /\ o.op = "install" => Vetted(l, history)
    BY <2>2, <2>4, <2>5, <2>6 DEF OpNames
  <2> HIDE DEF l, plan
  <2>8. r \in CmdRecords BY <2>2, <2>3, <2>4, <2>7 DEF CmdRecords
  <2>9. r.pc = "read" /\ r.op = o.op /\ r.name = o.name /\ r.lease = l BY <2>2 DEF CmdRecords
  <2> HIDE DEF r
  <2>10. Sound(r, history) BY <2>4, <2>7, <2>9 DEF Sound
  <2> QED BY <1>2, <2>1, <2>8, <2>10, OnlyCommand
<1> QED BY <1>3, <1>4

\* A probe of the servers keeps it.
LEMMA ProbeKeeps == ASSUME TrustInv, NEW c \in 1..Commands, Probe(c) PROVE TrustInv'
<1> DEFINE old == cmd[c]
<1>1. old \in CmdRecords /\ Sound(old, history) /\ old.pc = "read" /\ old.op \in {"approve", "scan"}
  BY DEF TrustInv, TrustTypes, Probe
<1>2. PICK probes \in [Targets(c) -> Versions \cup {0}] :
          cmd' = [cmd EXCEPT ![c].pc = IF old.op = "approve" THEN "review" ELSE "update", ![c].probes = probes]
  BY DEF Probe
<1>3. UNCHANGED <<config, server, lease, session, call, history>> BY DEF Probe
<1> DEFINE pc == IF old.op = "approve" THEN "review" ELSE "update"
           r == [old EXCEPT !.pc = pc, !.probes = probes]
<1>4. Targets(c) \in SUBSET Servers /\ (old.op = "approve" => old.name \in Targets(c))
  BY <1>1 DEF Targets, DiscoverInventory, Sound
<1>5. probes \in [Targets(c) -> Numbers] BY DEF Numbers
<1>6. probes \in UNION {[T -> Numbers] : T \in SUBSET Servers} BY <1>4, <1>5
<1>7. r \in CmdRecords BY <1>1, <1>6 DEF CmdRecords
<1>8. r.pc = pc /\ r.op = old.op /\ r.name = old.name /\ r.lease = old.lease /\ r.probes = probes
  BY <1>1 DEF CmdRecords
<1>9. cmd' = [cmd EXCEPT ![c] = r] BY <1>2 DEF TrustInv, TrustTypes
<1> HIDE DEF r
<1>10. Sound(r, history) BY <1>1, <1>4, <1>5, <1>6, <1>8 DEF Sound
<1> QED BY <1>3, <1>7, <1>9, <1>10, OnlyCommand

\* A review, which shows what it hashed, keeps it.
LEMMA ReviewKeeps == ASSUME TrustInv, NEW c \in 1..Commands, Review(c) PROVE TrustInv'
<1> DEFINE old == cmd[c]
           s == old.name
<1>1. old \in CmdRecords /\ Sound(old, history) /\ old.pc = "review" /\ TrustTypes /\ history \in Histories
  BY DEF TrustInv, TrustTypes, Review
<1>2. PICK r \in StatCommand(s, old.lease.discovered[s].wrap) :
          /\ cmd' = [cmd EXCEPT ![c].pc = "update", ![c].seen = r.hash]
          /\ history' = IF r.hash # 0 THEN [history EXCEPT !.shown = history.shown \cup {<<s, r.hash>>}] ELSE history
  BY DEF Review
<1>3. UNCHANGED <<config, server, lease, session, call>> BY DEF Review
<1>4. old.op = "approve" /\ s \in Servers BY <1>1 DEF Sound
<1>5. r.hash \in Numbers BY <1>1, <1>4, NumbersOfServers
<1> DEFINE new == [old EXCEPT !.pc = "update", !.seen = r.hash]
<1>6. cmd' = [cmd EXCEPT ![c] = new] BY <1>2 DEF TrustTypes, TrustInv
<1>7. new \in CmdRecords BY <1>1, <1>5 DEF CmdRecords
<1>8. /\ new.pc = "update" /\ new.op = old.op /\ new.name = s /\ new.lease = old.lease /\ new.probes = old.probes
      /\ new.seen = r.hash
  BY <1>1 DEF CmdRecords
<1> HIDE DEF new, s
<1>9. /\ history' \in Histories /\ Grows(history, history') /\ (r.hash # 0 => <<s, r.hash>> \in history'.shown)
  <2>1. <<s, r.hash>> \in Servers \X Numbers BY <1>4, <1>5
  <2> QED BY <1>1, <1>2, <2>1 DEF Histories, Grows
<1>10. Sound(new, history') BY <1>1, <1>4, <1>8, <1>9 DEF Sound, s
<1>11. Vetted(lease', history') /\ Seen(session'.pending, history') /\ Seen(session'.acked, history')
  BY <1>3, <1>9, VettedGrows DEF TrustInv
<1> QED BY <1>3, <1>6, <1>7, <1>9, <1>10, <1>11, CommandMoves DEF TrustInv, TrustTypes

\* A declined confirmation keeps it.
LEMMA DeclineKeeps == ASSUME TrustInv, NEW c \in 1..Commands, Decline(c) PROVE TrustInv'
<1>1. Finish(c) /\ UNCHANGED <<config, server, lease, session, call, history>> BY DEF Decline
<1>2. Grows(history, history') BY <1>1 DEF Grows
<1> QED BY <1>1, <1>2, CommandEnds DEF TrustInv, TrustTypes

\* An approval that is saved keeps it.
LEMMA UpdateApproveKeeps == ASSUME TrustInv, NEW c \in 1..Commands, UpdateApprove(c) PROVE TrustInv'
<1> DEFINE s == cmd[c].name
           found == cmd[c].lease.discovered[s]
           l == [lease EXCEPT !.discovered[s] = found]
<1>1. Finish(c) /\ UNCHANGED <<config, server, session, call>> BY DEF UpdateApprove
<1>2. PICK r \in StatCommand(s, found.wrap) :
          /\ lease' = Approve(l, s, cmd[c].probes[s], r.hash)
          /\ history' = [history EXCEPT !.confirmed = history.confirmed \cup {s},
                           !.slipped = history.slipped \cup ({<<s, r.hash>>} \ {<<s, 0>>, <<s, cmd[c].seen>>})]
  BY DEF UpdateApprove
<1>3. cmd[c] \in CmdRecords /\ Sound(cmd[c], history) /\ cmd[c].pc = "update" /\ cmd[c].op = "approve"
  BY DEF TrustInv, TrustTypes, UpdateApprove
<1>4. s \in Servers /\ cmd[c].lease \in Leases /\ s \in DOMAIN cmd[c].probes
  BY <1>3 DEF Sound
<1>5. cmd[c].probes[s] \in Numbers
  <2>1. PICK T \in SUBSET Servers : cmd[c].probes \in [T -> Numbers] BY <1>3 DEF Sound
  <2> QED BY <1>4, <2>1
<1>6. lease \in Leases /\ Vetted(lease, history) /\ history \in Histories /\ TrustTypes BY DEF TrustInv, TrustTypes
<1>7. l = [lease EXCEPT !.discovered = [lease.discovered EXCEPT ![s] = found]] OBVIOUS
<1>8. l \in Leases /\ l.approved = lease.approved /\ l.rec = lease.rec BY <1>4, <1>6, <1>7 DEF Leases
<1>9. r.hash \in Numbers BY <1>4, <1>6, NumbersOfServers
<1> DEFINE new == {<<s, r.hash>>} \ {<<s, 0>>, <<s, cmd[c].seen>>}
<1>10. cmd[c].seen # 0 => <<s, cmd[c].seen>> \in history.shown BY <1>3 DEF Sound
<1> HIDE DEF s
<1>11. /\ history' \in Histories /\ Grows(history, history') /\ s \in history'.confirmed
       /\ r.hash # 0 => <<s, r.hash>> \in history'.shown \cup history'.slipped
  <2>1. new \subseteq Servers \X Numbers /\ (r.hash # 0 => r.hash = cmd[c].seen \/ <<s, r.hash>> \in new)
    BY <1>4, <1>9
  <2> HIDE DEF new
  <2>2. history' = [history EXCEPT !.confirmed = history.confirmed \cup {s}, !.slipped = history.slipped \cup new]
    BY <1>2 DEF new
  <2>3. /\ history'.confirmed = history.confirmed \cup {s} /\ history'.shown = history.shown
        /\ history'.slipped = history.slipped \cup new
    BY <1>6, <2>2 DEF Histories
  <2>4. history' \in Histories BY <1>4, <1>6, <2>1, <2>2 DEF Histories
  <2> QED BY <1>10, <2>1, <2>3, <2>4 DEF Grows
<1> HIDE DEF l, new
<1>12. Vetted(l, history) BY <1>6, <1>8 DEF Vetted
<1>13. Vetted(l, history') BY <1>11, <1>12, VettedGrows
<1>14. lease' \in Leases /\ Vetted(lease', history')
  BY <1>2, <1>4, <1>5, <1>8, <1>9, <1>11, <1>13, ApproveVetted
<1> QED BY <1>1, <1>11, <1>14, CommandEnds

\* A scan that is saved keeps it.
LEMMA UpdateScanKeeps == ASSUME TrustInv, NEW c \in 1..Commands, UpdateScan(c) PROVE TrustInv'
<1>1. /\ Finish(c) /\ UNCHANGED <<config, server, session, call, history>> /\ cmd[c].pc = "update"
      /\ lease' = Scanned(lease, cmd[c].lease, cmd[c].probes)
  BY DEF UpdateScan
<1>2. PICK T \in SUBSET Servers : cmd[c].probes \in [T -> Numbers] BY <1>1 DEF TrustInv, Sound
<1>3. lease' \in Leases /\ Vetted(lease', history) BY <1>1, <1>2, ScannedVetted DEF TrustInv, TrustTypes
<1>4. Grows(history, history') /\ history' \in Histories BY <1>1 DEF Grows, TrustInv, TrustTypes
<1> QED BY <1>1, <1>3, <1>4, CommandEnds

\* A revocation that is saved keeps it.
LEMMA UpdateRevokeKeeps == ASSUME TrustInv, NEW c \in 1..Commands, UpdateRevoke(c) PROVE TrustInv'
<1>1. /\ Finish(c) /\ UNCHANGED <<config, server, session, call, history>> /\ cmd[c].pc = "read" /\ cmd[c].op = "revoke"
      /\ lease' = RemoveApproved(lease, cmd[c].name)
  BY DEF UpdateRevoke
<1>2. cmd[c].name \in Servers BY <1>1 DEF TrustInv, Sound
<1>3. lease' \in Leases /\ Vetted(lease', history) BY <1>1, <1>2, RemoveVetted DEF TrustInv, TrustTypes
<1>4. Grows(history, history') /\ history' \in Histories BY <1>1 DEF Grows, TrustInv, TrustTypes
<1> QED BY <1>1, <1>3, <1>4, CommandEnds

\* Reading a client configuration keeps it.
LEMMA ReadDocKeeps == ASSUME TrustInv, NEW c \in 1..Commands, ReadDoc(c) PROVE TrustInv'
<1> DEFINE old == cmd[c]
           f == old.file
<1>1. old \in CmdRecords /\ Sound(old, history) /\ config \in [1..Files -> Docs] BY DEF TrustInv, TrustTypes
<1>2. /\ old.pc = "read" /\ old.op \in {"wrap", "install"} /\ f <= Files
      /\ UNCHANGED <<config, server, lease, session, call, history>>
  BY DEF ReadDoc
<1>3. f \in 1..Files BY <1>1, <1>2, McpAssumption DEF CmdRecords
<1>4. CASE cmd' = [cmd EXCEPT ![c] = [old EXCEPT !.file = f + 1]]
  <2> DEFINE r == [old EXCEPT !.file = f + 1]
  <2>1. r \in CmdRecords BY <1>1, <1>3 DEF CmdRecords
  <2>2. r.pc = "read" /\ r.op = old.op /\ r.name = old.name /\ r.lease = old.lease BY <1>1, <1>2 DEF CmdRecords
  <2> HIDE DEF r
  <2>3. Sound(r, history) BY <1>1, <1>2, <2>2 DEF Sound
  <2> QED BY <1>2, <1>4, <2>1, <2>3, OnlyCommand DEF r
<1>5. CASE cmd' = [cmd EXCEPT ![c] = [NewCmd EXCEPT !.pc = "done"]]
  BY <1>2, <1>5, FinishSound, OnlyCommand
<1>6. CASE cmd' = [cmd EXCEPT ![c] = [old EXCEPT !.pc = "write", !.doc = config[f].entry]]
  <2> DEFINE r == [old EXCEPT !.pc = "write", !.doc = config[f].entry]
  <2>1. config[f].entry \in [Servers -> EntryStates] BY <1>1, <1>3 DEF Docs
  <2>2. r \in CmdRecords BY <1>1, <2>1 DEF CmdRecords
  <2>3. /\ r.pc = "write" /\ r.op = old.op /\ r.name = old.name /\ r.lease = old.lease /\ r.file = f
        /\ r.doc = config[f].entry
    BY <1>1 DEF CmdRecords
  <2> HIDE DEF r
  <2>4. Sound(r, history) BY <1>1, <1>2, <1>3, <2>1, <2>3 DEF Sound
  <2> QED BY <1>2, <1>6, <2>2, <2>4, OnlyCommand DEF r
<1> QED BY <1>4, <1>5, <1>6 DEF ReadDoc

\* A rewrite looks at the entry it read: one proxy, never two.
LEMMA RewriteOnce == \A s, e : e \in EntryStates => rewriteEntry(s, e) \in EntryStates
BY DEF EntryStates, rewriteEntry, ClassifyProxy

\* Writing a client configuration back keeps it.
LEMMA WriteDocKeeps == ASSUME TrustInv, NEW c \in 1..Commands, WriteDoc(c) PROVE TrustInv'
<1> DEFINE old == cmd[c]
           f == old.file
           doc == [s \in Servers |-> IF s \in old.plan THEN rewriteEntry(s, old.doc[s]) ELSE old.doc[s]]
           r == [old EXCEPT !.pc = "read", !.file = f + 1, !.doc = <<>>]
<1>1. old \in CmdRecords /\ Sound(old, history) /\ old.pc = "write" BY DEF TrustInv, TrustTypes, WriteDoc
<1>2. /\ config' = IF doc = old.doc THEN config ELSE [config EXCEPT ![f] = [ok |-> TRUE, entry |-> doc]]
      /\ cmd' = [cmd EXCEPT ![c] = r] /\ UNCHANGED <<server, lease, session, call, history>>
  BY DEF WriteDoc
<1>3. f \in 1..Files /\ old.doc \in [Servers -> EntryStates] /\ old.op \in {"wrap", "install"} BY <1>1 DEF Sound
<1>4. doc \in [Servers -> EntryStates]
  <2>1. ASSUME NEW s \in Servers PROVE doc[s] \in EntryStates
    <3>1. old.doc[s] \in EntryStates BY <1>3
    <3> QED BY <3>1, RewriteOnce
  <2> QED BY <2>1
<1> HIDE DEF doc
<1>5. config' \in [1..Files -> Docs] BY <1>2, <1>4 DEF TrustInv, TrustTypes, Docs
<1>6. r \in CmdRecords
  <2>1. f + 1 \in Nat \ {0} BY <1>1 DEF CmdRecords
  <2> HIDE DEF f
  <2> QED BY <1>1, <2>1 DEF CmdRecords
<1>7. r.pc = "read" /\ r.op = old.op /\ r.name = old.name /\ r.lease = old.lease BY <1>1 DEF CmdRecords
<1> HIDE DEF r
<1>8. Sound(r, history) BY <1>1, <1>3, <1>7 DEF Sound
<1>9. Grows(history, history') BY <1>2 DEF Grows
<1> QED BY <1>2, <1>5, <1>6, <1>8, <1>9, CommandMoves DEF TrustInv, TrustTypes

\* Saving a whole lease keeps it.
LEMMA SaveLeaseKeeps == ASSUME TrustInv, NEW c \in 1..Commands, SaveLease(c) PROVE TrustInv'
<1>1. Finish(c) /\ cmd[c].pc = "read" /\ UNCHANGED <<config, server, call, history>> BY DEF SaveLease
<1>2. Grows(history, history') BY <1>1 DEF Grows
<1>3. CASE cmd[c].op = "install"
  <2>1. /\ lease' = cmd[c].lease
        /\ session' = [pending |-> [s \in Servers |-> 0], acked |-> [s \in Servers |-> 0]]
    BY <1>3 DEF SaveLease
  <2>2. lease' \in Leases /\ Vetted(lease', history) BY <1>1, <1>3, <2>1 DEF TrustInv, Sound
  <2>3. session' \in Acks BY <2>1 DEF Acks, Numbers
  <2>4. Seen(session'.pending, history) /\ Seen(session'.acked, history) BY <2>1 DEF Seen
  <2>5. cmd' = [cmd EXCEPT ![c] = [NewCmd EXCEPT !.pc = "done"]] BY <1>1 DEF Finish
  <2> QED BY <1>1, <1>2, <2>2, <2>3, <2>4, <2>5, FinishSound, CommandMoves DEF TrustInv, TrustTypes
<1>4. CASE cmd[c].op # "install"
  <2>1. UNCHANGED <<lease, session>> BY <1>4 DEF SaveLease
  <2> QED BY <1>1, <1>2, <2>1, CommandEnds DEF TrustInv, TrustTypes
<1> QED BY <1>3, <1>4

-----------------------------------------------------------------------------
(***************************************************************************)
(* Calls, and the world.                                                   *)
(***************************************************************************)
\* A checked call without a question finds a binary that is pinned, and so was
\* shown or slipped in, or that was acknowledged, and so was shown.
LEMMA PreToolUseKeeps == ASSUME TrustInv, NEW s \in Servers, PreToolUse(s) PROVE TrustInv'
<1> DEFINE l == autoApprove(lease)
           bin == server[s].bin
           known == s \in l.approved
<1>1. lease' = l /\ UNCHANGED <<config, server, cmd>> BY DEF PreToolUse
<1>2. PICK verb \in Verbs, safe \in BOOLEAN, r \in StatCommand(s, l.rec[s].wrap) :
        LET gated == known /\ verb = "execute_dry_run"
            drift == gated /\ Drifted(r, l.rec[s]) /\ ~(safe /\ Acknowledged(s, r.hash))
            silent == known /\ IF gated THEN ~drift ELSE safe /\ s \in Quiet
        IN  /\ session' = IF drift /\ Reuse /\ safe /\ r.hash # 0
                          THEN [session EXCEPT !.pending[s] = r.hash] ELSE session
            /\ call' = [pc |-> IF silent THEN "run" ELSE "asked", server |-> s, bin |-> bin,
                        silent |-> silent, pinned |-> l.rec[s].pin # 0, checked |-> gated /\ r.ok]
            /\ history' = IF drift THEN [history EXCEPT !.shown = history.shown \cup {<<s, r.hash>>}] ELSE history
  BY DEF PreToolUse
<1> DEFINE gated == known /\ verb = "execute_dry_run"
           drift == gated /\ Drifted(r, l.rec[s]) /\ ~(safe /\ Acknowledged(s, r.hash))
           silent == known /\ IF gated THEN ~drift ELSE safe /\ s \in Quiet
           checked == gated /\ r.ok
           pinned == l.rec[s].pin # 0
<1>3. /\ session' = IF drift /\ Reuse /\ safe /\ r.hash # 0 THEN [session EXCEPT !.pending[s] = r.hash] ELSE session
      /\ call' = [pc |-> IF silent THEN "run" ELSE "asked", server |-> s, bin |-> bin,
                  silent |-> silent, pinned |-> pinned, checked |-> checked]
      /\ history' = IF drift THEN [history EXCEPT !.shown = history.shown \cup {<<s, r.hash>>}] ELSE history
  BY <1>2
<1>4. TrustTypes /\ Vetted(lease, history) /\ Seen(session.pending, history) /\ Seen(session.acked, history)
  BY DEF TrustInv
<1>5. /\ bin \in Numbers /\ r.hash \in Numbers
      /\ r.hash # 0 => r.hash = bin
  BY <1>4, NumbersOfServers
<1>6. lease' \in Leases /\ Vetted(l, history) /\ l.rec = lease.rec BY <1>1, <1>4, AutoVetted DEF TrustTypes
<1>7. silent /\ checked /\ pinned => <<s, bin>> \in history.shown \cup history.slipped
  <2> SUFFICES ASSUME silent, checked, pinned PROVE <<s, bin>> \in history.shown \cup history.slipped
    OBVIOUS
  <2>1. ~drift BY DEF silent
  <2>2. CASE Drifted(r, l.rec[s])
    <3>1. r.hash # 0 /\ session.acked[s] = r.hash BY <2>1, <2>2 DEF Acknowledged
    <3> QED BY <1>4, <1>5, <3>1 DEF Seen
  <2>3. CASE ~Drifted(r, l.rec[s])
    <3>1. l.rec[s].pin = r.hash /\ r.hash # 0 BY <2>3 DEF Drifted
    <3> QED BY <1>5, <1>6, <3>1 DEF Vetted
  <2> QED BY <2>2, <2>3
<1>8. known \in BOOLEAN /\ silent \in BOOLEAN /\ pinned \in BOOLEAN /\ checked \in BOOLEAN
  BY <1>5
<1>9. <<s, r.hash>> \in Servers \X Numbers BY <1>5
<1> HIDE DEF l, gated, drift, silent, bin, known, checked, pinned
<1>10. call' \in CallRecords /\ call'.server = s /\ call'.bin = bin /\ call'.silent = silent /\ call'.pinned = pinned
       /\ call'.checked = checked
  BY <1>3, <1>5, <1>8 DEF CallRecords
<1>11. history' \in Histories /\ Grows(history, history') /\ (drift => <<s, r.hash>> \in history'.shown)
  <2>1. history \in Histories BY <1>4 DEF TrustTypes
  <2> QED BY <1>3, <1>9, <2>1 DEF Histories, Grows
<1>12. session' \in Acks BY <1>3, <1>4, <1>5 DEF TrustTypes, Acks
<1>13. Vetted(lease', history') BY <1>1, <1>6, <1>11, VettedGrows
<1>14. Seen(session'.pending, history') /\ Seen(session'.acked, history')
  <2>1. Seen(session.pending, history') /\ Seen(session.acked, history') BY <1>4, <1>11, VettedGrows
  <2>2. CASE session' = session BY <2>1, <2>2
  <2>3. CASE drift /\ session' = [session EXCEPT !.pending[s] = r.hash]
    <3>1. session'.acked = session.acked /\ session'.pending = [session.pending EXCEPT ![s] = r.hash]
      BY <1>4, <2>3 DEF TrustTypes, Acks
    <3> QED BY <1>4, <1>11, <2>1, <2>3, <3>1 DEF Seen, TrustTypes, Acks
  <2> QED BY <1>3, <2>2, <2>3
<1>15. NoUnseenSwap' BY <1>7, <1>10, <1>11 DEF NoUnseenSwap, Grows
<1>16. \A c \in 1..Commands : Sound(cmd[c], history') BY <1>11, VettedGrows DEF TrustInv
<1>17. TrustTypes' BY <1>1, <1>4, <1>6, <1>10, <1>11, <1>12 DEF TrustTypes
<1> QED BY <1>1, <1>13, <1>14, <1>15, <1>16, <1>17 DEF TrustInv

\* The absent call is a call record and was not silent.
LEMMA NoCallFits == NoCall \in CallRecords /\ ~NoCall.silent /\ NoCall.pc = "none"
BY DEF NoCall, CallRecords, Numbers

\* The developer's answer to an asked call keeps it.
LEMMA AnswerKeeps == ASSUME TrustInv, NEW yes \in BOOLEAN, Answer(yes) PROVE TrustInv'
<1>1. UNCHANGED <<config, server, lease, session, cmd, history>> BY DEF Answer
<1>2. call \in CallRecords BY DEF TrustInv, TrustTypes
<1>3. call' = [call EXCEPT !.pc = "run"] \/ call' = NoCall BY DEF Answer
<1>4. call' \in CallRecords BY <1>2, <1>3, NoCallFits DEF CallRecords
<1>5. NoUnseenSwap'
  <2>1. CASE call' = NoCall BY <2>1, NoCallFits DEF NoUnseenSwap
  <2>2. CASE call' = [call EXCEPT !.pc = "run"] BY <1>1, <1>2, <2>2 DEF NoUnseenSwap, TrustInv, CallRecords
  <2> QED BY <1>3, <2>1, <2>2
<1>6. call'.pc # "none" => call'.server \in Servers
  <2>1. call.pc = "asked" BY DEF Answer
  <2> QED BY <1>2, <1>3, <2>1 DEF TrustInv, TrustTypes, NoCall, CallRecords
<1> QED BY <1>1, <1>4, <1>5, <1>6 DEF TrustInv, TrustTypes

\* The end of a call keeps it.
LEMMA PostToolUseKeeps == ASSUME TrustInv, PostToolUse PROVE TrustInv'
<1> DEFINE s == call.server
<1>1. /\ lease' = autoApprove(lease) /\ call' = NoCall /\ UNCHANGED <<config, server, cmd, history>>
      /\ \/ session' = [pending |-> [session.pending EXCEPT ![s] = 0],
                        acked |-> [session.acked EXCEPT ![s] = session.pending[s]]]
         \/ session' = session
  BY DEF PostToolUse
<1>2. lease' \in Leases /\ Vetted(lease', history) BY <1>1, AutoVetted DEF TrustInv, TrustTypes
<1>3. session \in Acks /\ Seen(session.pending, history) /\ Seen(session.acked, history) BY DEF TrustInv, TrustTypes
<1> HIDE DEF s
<1>4. s \in Servers BY DEF s, TrustInv, TrustTypes, PostToolUse
<1>5. session' \in Acks BY <1>1, <1>3, <1>4 DEF Acks, Numbers
<1>6. Seen(session'.pending, history) /\ Seen(session'.acked, history) BY <1>1, <1>3, <1>4 DEF Seen, Acks
<1>7. NoUnseenSwap' BY <1>1, NoCallFits DEF NoUnseenSwap
<1> QED BY <1>1, <1>2, <1>5, <1>6, <1>7, NoCallFits DEF TrustInv, TrustTypes

\* An edit of a configuration from outside keeps it.
LEMMA EditKeeps == ASSUME TrustInv, Edit PROVE TrustInv'
<1>1. UNCHANGED <<lease, session, cmd, call, history>> BY DEF Edit
<1>2. server \in [Servers -> [bin : Numbers, tools : Numbers]] /\ config \in [1..Files -> Docs] BY DEF TrustInv, TrustTypes
<1>3. server' \in [Servers -> [bin : Numbers, tools : Numbers]] /\ config' \in [1..Files -> Docs]
  <2>1. CASE \E s \in Servers \ Launchers, v \in Versions \cup {0} : server' = [server EXCEPT ![s].bin = v] /\ UNCHANGED config
    BY <1>2, <2>1 DEF Numbers
  <2>2. CASE \E s \in Servers, v \in Versions : server' = [server EXCEPT ![s].tools = v] /\ UNCHANGED config
    BY <1>2, <2>2 DEF Numbers
  <2>3. CASE \E s \in Servers, e \in {"raw", "absent"} : config' = [config EXCEPT ![FileOf[s]].entry[s] = e] /\ UNCHANGED server
    <3>1. PICK s \in Servers, e \in {"raw", "absent"} : config' = [config EXCEPT ![FileOf[s]].entry[s] = e] /\ UNCHANGED server
      BY <2>3
    <3>2. FileOf[s] \in 1..Files BY McpAssumption
    <3> DEFINE old == config[FileOf[s]]
               doc == [old EXCEPT !.entry = [old.entry EXCEPT ![s] = e]]
    <3>3. doc \in Docs BY <1>2, <3>2 DEF Docs, EntryStates
    <3>4. config' = [config EXCEPT ![FileOf[s]] = doc] BY <3>1
    <3> QED BY <1>2, <3>1, <3>2, <3>3, <3>4
  <2>4. CASE \E f \in 1..Files : config' = [config EXCEPT ![f].ok = FALSE] /\ UNCHANGED server
    BY <1>2, <2>4 DEF Docs
  <2> QED BY <2>1, <2>2, <2>3, <2>4 DEF Edit
<1>4. NoUnseenSwap' BY <1>1 DEF TrustInv, NoUnseenSwap
<1> QED BY <1>1, <1>3, <1>4 DEF TrustInv, TrustTypes

\* Every step keeps the invariant of trust.
LEMMA TrustKeeps == TrustInv /\ TrustNext => TrustInv'
<1> HAVE TrustInv /\ TrustNext
<1>1. ASSUME NEW c \in 1..Commands,
             Begin(c) \/ Probe(c) \/ Review(c) \/ Decline(c) \/ UpdateApprove(c) \/ UpdateScan(c) \/ UpdateRevoke(c)
               \/ ReadDoc(c) \/ WriteDoc(c) \/ SaveLease(c)
      PROVE  TrustInv'
  BY <1>1, BeginKeeps, ProbeKeeps, ReviewKeeps, DeclineKeeps, UpdateApproveKeeps, UpdateScanKeeps, UpdateRevokeKeeps, ReadDocKeeps,
     WriteDocKeeps, SaveLeaseKeeps
<1>2. ASSUME NEW s \in Servers, PreToolUse(s) PROVE TrustInv' BY <1>2, PreToolUseKeeps
<1>3. ASSUME NEW yes \in BOOLEAN, Answer(yes) PROVE TrustInv' BY <1>3, AnswerKeeps
<1> QED BY <1>1, <1>2, <1>3, PostToolUseKeeps, EditKeeps DEF TrustNext

\* The invariant of trust holds in the initial states.
LEMMA TrustStarts == TrustInit => TrustInv
<1> HAVE TrustInit
<1>1. config \in [1..Files -> Docs] BY DEF TrustInit, Docs, EntryStates
<1>2. server \in [Servers -> [bin : Numbers, tools : Numbers]] BY DEF TrustInit, Numbers
<1>3. lease \in Leases /\ Vetted(lease, history)
  BY DEF TrustInit, Leases, Recs, NoRec, NotFound, Numbers, Vetted
<1>4. session \in Acks /\ Seen(session.pending, history) /\ Seen(session.acked, history)
  BY DEF TrustInit, Acks, Numbers, Seen
<1>5. history \in Histories BY DEF TrustInit, Histories
<1>6. NewCmd \in CmdRecords /\ NewCmd.pc = "new" BY DEF NewCmd, CmdRecords, Numbers
<1>7. cmd \in [1..Commands -> CmdRecords] /\ \A c \in 1..Commands : Sound(cmd[c], history)
  BY <1>6 DEF TrustInit, Sound
<1>8. call \in CallRecords /\ NoUnseenSwap /\ call.pc = "none" BY NoCallFits DEF TrustInit, NoUnseenSwap
<1> QED BY <1>1, <1>2, <1>3, <1>4, <1>5, <1>7, <1>8 DEF TrustInv, TrustTypes

\* The invariant of trust holds in every behaviour.
LEMMA TrustHolds == Spec => []TrustInv
<1>1. Init => TrustInv BY TrustStarts DEF Init
<1>2. TrustInv /\ [Next]_vars => TrustInv'
  <2>1. TrustInv /\ UNCHANGED trust => TrustInv'
    BY DEF TrustInv, TrustTypes, trust, NoUnseenSwap
  <2> QED BY <2>1, TrustKeeps DEF Next, vars
<1> QED BY <1>1, <1>2, PTL DEF Spec

\* In strict posture no interleaving of hooks' refreshes, scans, revocations,
\* installs that save a lease computed before their prompt, and edits of the
\* config files approves a server of the explicit kind: only a confirmed
\* `sir mcp approve` does (AutoApprovedServerNames, runInstall).
THEOREM ApprovalIsExplicit == Spec => []ExplicitNeedsApproval
<1>1. TrustInv => ExplicitNeedsApproval BY DEF TrustInv, Vetted, ExplicitNeedsApproval
<1> QED BY <1>1, TrustHolds, PTL

\* A silent call to a server with a pinned binary reaches a binary that was
\* shown to the operator: a pin comes from an approval, an acknowledgment
\* from a drift question, and both name the version (evaluateMCPBinaryDrift,
\* promoteSessionApprovalsOnPost), however often binaries are swapped and
\* restored and whatever old leases are saved.
THEOREM SwapsAreSeen == Spec => []NoUnseenSwap
<1>1. TrustInv => NoUnseenSwap BY DEF TrustInv
<1> QED BY <1>1, TrustHolds, PTL

\* However many wraps and installs work on outdated plans, no entry is
\* wrapped twice: the rewrite classifies the entry it re-reads
\* (RewriteDiscoveredServers).
THEOREM NeverWrappedTwice == Spec => []WrappedOnce
<1>1. TrustInv => WrappedOnce BY DEF TrustInv, TrustTypes, Docs, EntryStates, WrappedOnce
<1> QED BY <1>1, TrustHolds, PTL
=============================================================================
