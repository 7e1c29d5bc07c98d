------------------------------ MODULE HookFiles ------------------------------
(***************************************************************************)
(* The hook files of the host agents: machine-wide settings files in which *)
(* `sir install` writes sir's hook commands, which every project's session *)
(* watches, and which the agents, the developer and sir itself all write.  *)
(* A canonical copy (or the managed policy) says what the managed part of  *)
(* a file should be; each session keeps a hash of every posture file and   *)
(* one hash over all hook files.  A check reads, compares, restores,       *)
(* records and saves in separate steps under the session lock of its own   *)
(* project; nothing serialises the checks of two projects, or a check and  *)
(* an install, on the files they share.                                    *)
(***************************************************************************)
EXTENDS Integers, Sequences, FiniteSets, SequencesExt

CONSTANTS
    Worlds,         \* the machines to look at, see MCHookFiles
    Sir             \* the commands sir registers, one per version of its hooks

\* What a machine consists of.
ASSUME WorldsAssumption ==
    \A x \in Worlds :
        /\ IsFiniteSet(x.projects) /\ x.running \subseteq x.projects /\ x.leased \subseteq x.projects
        /\ x.faulty \in BOOLEAN              \* whether sir's own writes may fail
        /\ DOMAIN x.files = x.hookfiles \cup x.plain
        /\ x.enabled \subseteq x.hookfiles
        /\ DOMAIN x.max = {"edits", "commands", "deaths"} /\ x.max.deaths \in Nat

\* A machine starts in order: what is installed parses, and where a policy
\* pins the hooks of a file, which no session runs without, it has them.
ASSUME OrderAssumption ==
    \A x \in Worlds : \A f \in x.hookfiles :
        /\ x.files[f].is = "absent" => x.files[f].hooks = <<>>
        /\ f \in x.installed => x.files[f].is = "ok"
        /\ x.managed /\ f \in DOMAIN x.policy => x.files[f].is = "ok" /\ x.files[f].hooks = x.policy[f]

VARIABLES
    w,              \* the machine
    leased,         \* the projects whose lease.json loads
    file,           \* the posture files on disk
    canonical,      \* sir's backup of the managed part of each hook file
    session,        \* the session of each project
    proc,           \* the hook process that holds each project's session lock
    inst,           \* the install or uninstall command under way
    hist            \* what has happened, for the properties
vars == <<w, leased, file, canonical, session, proc, inst, hist>>

Projects == w.projects
HookFiles == w.hookfiles
Posture == w.hookfiles \cup w.plain

\* Bounds of each machine: edits by agents and the developer, runs of install
\* and uninstall, and processes killed half-way.
MaxEdits == w.max.edits
MaxCommands == w.max.commands
MaxDeaths == w.max.deaths

-----------------------------------------------------------------------------
(* Contents.  The managed part is a sequence of groups of commands; `rest` *)
(* stands for every other setting of the file.                             *)

Absent == [is |-> "absent", hooks |-> <<>>, rest |-> FALSE]
Garbled == [is |-> "garbled", hooks |-> <<>>, rest |-> FALSE]
Settings(hooks, rest) == [is |-> "ok", hooks |-> hooks, rest |-> rest]

isSirHookCommand(c) == c \in Sir
Commands(hooks) == FlattenSeq(hooks)

\* Mutant: the filter drops a whole group for one command.
filterGroups(hooks) == SelectSeq(hooks, LAMBDA g : \A i \in DOMAIN g : ~isSirHookCommand(g[i]))

\* The elements of s at the positions in T, in their order.
Selected(s, T) ==
    LET Nth(k) == CHOOSE i \in T : Cardinality({j \in T : j <= i}) = k
    IN  [k \in 1..Cardinality(T) |-> s[Nth(k)]]

\* Removes sir's commands, and the groups that hold nothing else.
filterSirHookEntries(hooks) ==
    LET groups == [i \in DOMAIN hooks |-> Selected(hooks[i], {n \in DOMAIN hooks[i] : ~isSirHookCommand(hooks[i][n])})]
    IN  Selected(groups, {i \in DOMAIN groups : groups[i] # <<>>})

generatedHooksConfigForAgent(v) == << <<v>> >>

\* What a hash distinguishes: the managed part, or all of a file that does
\* not parse.  The other settings of a hook file are left out on purpose.
hashSentinelFile(f) == [is |-> file[f].is, hooks |-> file[f].hooks]
Parsed(hooks) == [is |-> "ok", hooks |-> hooks]
HashSentinelFiles == [f \in Posture |-> hashSentinelFile(f)]

NoHash == [known |-> FALSE, of |-> <<>>]
hashHookChunks(chunks) ==
    IF \A f \in HookFiles : chunks[f].is = "absent" THEN NoHash
    ELSE [known |-> TRUE, of |-> chunks]
HashGlobalHooksFile == hashHookChunks([f \in HookFiles |-> hashSentinelFile(f)])

-----------------------------------------------------------------------------
(* Baselines.                                                              *)

managedHookBaseline(f) ==
    IF w.managed THEN [here |-> f \in DOMAIN w.policy, hooks |-> IF f \in DOMAIN w.policy THEN w.policy[f] ELSE <<>>]
    ELSE canonical[f]

\* A hook file that a managed policy does not cover is an error.
verifyManagedHookCoverage(f) == ~w.managed \/ file[f].is = "absent"

BaselineAvailable == \A f \in HookFiles : managedHookBaseline(f).here \/ verifyManagedHookCoverage(f)

DetectChangedGlobalHooksStrict ==
    {f \in HookFiles : managedHookBaseline(f).here /\ hashSentinelFile(f) # Parsed(managedHookBaseline(f).hooks)}

ManagedGlobalHooksHash ==
    hashHookChunks([f \in HookFiles |->
        IF managedHookBaseline(f).here THEN Parsed(managedHookBaseline(f).hooks) ELSE [is |-> "absent", hooks |-> <<>>]])

\* The hash a new session starts from.
BaselineHash ==
    IF ~w.managed THEN HashGlobalHooksFile
    ELSE IF BaselineAvailable THEN ManagedGlobalHooksHash ELSE NoHash

NoSession == [here |-> FALSE, posture |-> [f \in Posture |-> [is |-> "absent", hooks |-> <<>>]],
              global |-> NoHash, deny |-> "none"]
NewState == [here |-> TRUE, posture |-> HashSentinelFiles, global |-> BaselineHash, deny |-> "none"]

CompareSentinelHashes(before, after) == {f \in Posture : before[f] # after[f]}

\* What AutoRestoreAgentHookFile leaves of a file: the managed part from the
\* baseline, the other settings if they still parse.
Restored(f) == Settings(managedHookBaseline(f).hooks, file[f].is = "ok" /\ file[f].rest)

-----------------------------------------------------------------------------
Free == [kind |-> "none", at |-> "idle", st |-> NoSession, todo |-> {}, saw |-> <<>>, cur |-> "none",
         now |-> NoHash, restored |-> {}, undid |-> 0, again |-> {}]
NoInstall == [at |-> "idle", command |-> "none", todo |-> {}, read |-> Absent, v |-> "none",
              home |-> "none", walk |-> {}, rebaseline |-> TRUE]
Quiet == [edits |-> 0, commands |-> 0, deaths |-> 0, untraced |-> [f \in HookFiles |-> 0],
          unlogged |-> [f \in HookFiles |-> 0], due |-> {}, other |-> {}, passed |-> {}, excused |-> FALSE]

Init ==
    /\ w \in Worlds
    /\ leased = w.leased
    /\ file = w.files
    /\ canonical = [f \in HookFiles |->
                      IF f \in w.installed THEN [here |-> TRUE, hooks |-> w.files[f].hooks]
                      ELSE [here |-> FALSE, hooks |-> <<>>]]
    /\ session = [p \in Projects |-> IF p \in w.running THEN NewState ELSE NoSession]
    /\ proc = [p \in Projects |-> Free]
    /\ inst = NoInstall
    /\ hist = Quiet

-----------------------------------------------------------------------------
(* The world around sir.                                                   *)

\* Notes that a file or its baseline was written after a process restored it.
Rewritten(f) == [p \in Projects |-> [proc[p] EXCEPT !.again = @ \cup (proc[p].restored \cap {f})]]

\* An agent's shell command or the developer's editor writes a posture file:
\* a file may change in any way, settings other than hooks included.
Edit(f, c) ==
    /\ hist.edits < MaxEdits
    /\ c # file[f]
    /\ file' = [file EXCEPT ![f] = c]
    /\ proc' = Rewritten(f)
    /\ hist' = [hist EXCEPT !.edits = @ + 1]
    /\ UNCHANGED <<w, leased, canonical, session, inst>>

\* A lockdown for a cause other than hook files: a lease or a session file
\* changed outside sir.
LockOther(p) ==
    /\ proc[p].at = "idle"
    /\ w.others
    /\ session[p].here /\ session[p].deny = "none"
    /\ session' = [session EXCEPT ![p].deny = "other"]
    /\ hist' = [hist EXCEPT !.other = @ \cup {p}]
    /\ UNCHANGED <<w, leased, file, canonical, proc, inst>>

-----------------------------------------------------------------------------
(* Hook processes.                                                         *)

Start(p, kind) ==
    /\ proc[p].at = "idle"
    /\ session[p].here
    /\ kind = "bash" => session[p].deny = "none"
    /\ proc' = [proc EXCEPT ![p] = [Free EXCEPT !.kind = kind, !.at = "look", !.st = session[p]]]
    /\ UNCHANGED <<w, leased, file, canonical, session, inst, hist>>

\* EvaluateConfigChange only raises alerts on posture drift; the session-end
\* sweep only looks at posture drift and saves nothing when there is none.
Look(p) ==
    LET drift == CompareSentinelHashes(proc[p].st.posture, HashSentinelFiles)
        hooks == drift \cap HookFiles
        kind  == proc[p].kind
        seen  == [proc[p] EXCEPT !.todo = hooks, !.saw = HashSentinelFiles]
    IN  /\ proc[p].at = "look"
        /\ \/ /\ kind = "config" \/ (kind = "bash" /\ hooks = {})
              /\ proc' = [proc EXCEPT ![p].at = "hash"]
           \/ /\ kind = "sweep" /\ drift = {}
              /\ proc' = [proc EXCEPT ![p] = Free]
           \/ /\ kind = "sweep" /\ drift # {} /\ hooks = {}
              /\ proc' = [proc EXCEPT ![p] = [seen EXCEPT !.at = "rehash"]]
           \/ /\ kind # "config" /\ hooks # {}
              /\ proc' = [proc EXCEPT ![p] = [seen EXCEPT !.at = "restore"]]
        /\ UNCHANGED <<w, leased, file, canonical, session, inst, hist>>

\* DetectGlobalHookIntegrityDrift, first half: the hash of the files as they
\* are now.
HashGlobal(p) ==
    LET now == HashGlobalHooksFile IN
    /\ proc[p].at = "hash"
    /\ proc' = [proc EXCEPT ![p].now = now,
                            ![p].at = IF proc[p].st.global.known /\ now # proc[p].st.global THEN "detect" ELSE "save"]
    /\ UNCHANGED <<w, leased, file, canonical, session, inst, hist>>

\* Second half: which files differ from their baseline.  When none does, the
\* hash taken before is adopted.
Detect(p) ==
    LET changed == DetectChangedGlobalHooksStrict IN
    /\ proc[p].at = "detect"
    /\ \/ /\ ~BaselineAvailable
          /\ proc' = [proc EXCEPT ![p].at = "save", ![p].st.deny = "hooks"]
          /\ hist' = [hist EXCEPT !.due = @ \cup {p}]
       \/ /\ BaselineAvailable /\ changed = {} /\ proc[p].now.known
          /\ proc' = [proc EXCEPT ![p].at = "save", ![p].st.global = proc[p].now]
          /\ UNCHANGED hist
       \/ /\ BaselineAvailable /\ (changed # {} \/ ~proc[p].now.known)
          /\ proc' = [proc EXCEPT ![p].at = "restore", ![p].todo = changed]
          /\ UNCHANGED hist
    /\ UNCHANGED <<w, leased, file, canonical, session, inst>>

\* AutoRestoreAgentHookFile fails when there is no baseline for the file.
Restore(p, f) ==
    /\ proc[p].at = "restore" /\ f \in proc[p].todo
    /\ IF managedHookBaseline(f).here
       THEN LET undid == IF hashSentinelFile(f) # Parsed(Restored(f).hooks) THEN 1 ELSE 0 IN
            /\ file' = [file EXCEPT ![f] = Restored(f)]
            /\ proc' = [Rewritten(f) EXCEPT ![p].at = "record", ![p].cur = f, ![p].undid = undid,
                                            ![p].restored = @ \cup {f}]
            /\ hist' = [hist EXCEPT !.untraced[f] = @ + undid, !.excused = @ \/ (undid = 1 /\ inst.at # "idle")]
       ELSE /\ proc' = [proc EXCEPT ![p].at = "record", ![p].cur = f]
            /\ UNCHANGED <<file, hist>>
    /\ UNCHANGED <<w, leased, canonical, session, inst>>

\* Mutant: only the last file of several is recorded.
RecordLast(p) ==
    LET f == proc[p].cur IN
    /\ proc[p].at = "record"
    /\ proc' = [proc EXCEPT ![p].at = "restore", ![p].todo = @ \ {f}, ![p].cur = "none", ![p].undid = 0]
    /\ hist' = IF proc[p].todo = {f} THEN [hist EXCEPT !.untraced[f] = @ - proc[p].undid, !.due = @ \cup {p}] ELSE hist
    /\ UNCHANGED <<w, leased, file, canonical, session, inst>>

\* The ledger entry of one restored file.  When it cannot be written the
\* error is printed, and the check goes on to the lockdown.
Record(p) ==
    LET f == proc[p].cur IN
    /\ proc[p].at = "record"
    /\ proc' = [proc EXCEPT ![p].at = "restore", ![p].todo = @ \ {f}, ![p].cur = "none", ![p].undid = 0]
    /\ \/ hist' = [hist EXCEPT !.untraced[f] = @ - proc[p].undid, !.due = @ \cup {p}]
       \/ /\ w.faulty
          /\ hist' = [hist EXCEPT !.unlogged[f] = @ + proc[p].undid, !.due = @ \cup {p}]
    /\ UNCHANGED <<w, leased, file, canonical, session, inst>>

\* SetDenyAll after the last file: whatever reason was there is overwritten.
SetDenyAll(p) ==
    /\ proc[p].at = "restore" /\ proc[p].todo = {}
    /\ proc' = [proc EXCEPT ![p].st.deny = "hooks", ![p].at = IF proc[p].kind = "sweep" THEN "rehash" ELSE "save"]
    /\ UNCHANGED <<w, leased, file, canonical, session, inst, hist>>

\* Mutant: the sweep rehashes every file that drifted.
Rehashed(p) == CompareSentinelHashes(proc[p].st.posture, proc[p].saw)

\* The files whose hash the sweep renews: those it put back, and the drifted
\* files that are not hook files.
Renewed(p) == proc[p].restored \cup (CompareSentinelHashes(proc[p].st.posture, proc[p].saw) \ HookFiles)

Rehash(p) ==
    /\ proc[p].at = "rehash"
    /\ proc' = [proc EXCEPT ![p].at = "save",
                            ![p].st.posture = [f \in Posture |-> IF f \in Renewed(p) THEN hashSentinelFile(f) ELSE @[f]]]
    /\ UNCHANGED <<w, leased, file, canonical, session, inst, hist>>

\* A save that fails is printed or ends the hook with an error; the session
\* file stays as it was, and a lockdown that was to be in it is lost.
Save(p) ==
    /\ proc[p].at = "save"
    /\ proc' = [proc EXCEPT ![p] = Free]
    /\ \/ /\ session' = [session EXCEPT ![p] = proc[p].st]
          /\ UNCHANGED hist
       \/ /\ w.faulty
          /\ hist' = [hist EXCEPT !.due = IF session[p].deny = "none" THEN @ \ {p} ELSE @]
          /\ UNCHANGED session
    /\ UNCHANGED <<w, leased, file, canonical, inst>>

\* PostToolUse of a Write or Edit of a posture file the user approved.
RebaselineAfterWrite(p) ==
    /\ proc[p].at = "idle"
    /\ session[p].here /\ session[p].deny = "none"
    /\ session' = [session EXCEPT ![p].posture = HashSentinelFiles]
    /\ UNCHANGED <<w, leased, file, canonical, proc, inst, hist>>

\* SubagentStart: drift in a file that matters to the running agent locks
\* the session down and restores nothing.
SubagentStart(p) ==
    /\ proc[p].at = "idle"
    /\ session[p].here /\ session[p].deny = "none"
    /\ CompareSentinelHashes(session[p].posture, HashSentinelFiles) \cap w.critical # {}
    /\ session' = [session EXCEPT ![p].deny = "hooks"]
    /\ UNCHANGED <<w, leased, file, canonical, proc, inst, hist>>

\* BootstrapSessionBaseline: the first hook of a project without a session.
\* It creates a session and no lease.
Bootstrap(p) ==
    /\ proc[p].at = "idle"
    /\ ~session[p].here
    /\ proc' = [proc EXCEPT ![p] = [Free EXCEPT !.kind = "boot", !.at = "save", !.st = NewState]]
    /\ UNCHANGED <<w, leased, file, canonical, session, inst, hist>>

Die(p) ==
    /\ hist.deaths < MaxDeaths
    /\ proc[p].at # "idle"
    /\ proc' = [proc EXCEPT ![p] = Free]
    /\ hist' = [hist EXCEPT !.deaths = @ + 1]
    /\ UNCHANGED <<w, leased, file, canonical, session, inst>>

-----------------------------------------------------------------------------
(* sir install and sir uninstall.                                          *)

\* The agents to install for: the explicit one, the remembered ones, the
\* ones ticked, or by default all that are detected and enabled.
resolveAgentSelection(explicit, remembered, ticked) ==
    LET enabled == w.enabled IN
    CASE explicit # {}                                -> IF explicit \subseteq enabled THEN explicit ELSE {}
      [] explicit = {} /\ remembered \cap enabled # {} -> remembered \cap enabled
      [] OTHER                                        -> IF ticked = {} THEN enabled ELSE ticked \cap enabled

\* A managed policy refuses an install whose hooks it does not pin.
validateGeneratedHooksPolicy(f, v) ==
    w.managed => f \in DOMAIN w.policy /\ w.policy[f] = generatedHooksConfigForAgent(v)

StartInstall(p, v, chosen, rebaseline) ==
    /\ inst.at = "idle" /\ hist.commands < MaxCommands
    /\ chosen # {} /\ \A f \in chosen : validateGeneratedHooksPolicy(f, v)
    /\ inst' = [NoInstall EXCEPT !.at = "read", !.command = "install", !.todo = chosen, !.v = v,
                                 !.home = p, !.rebaseline = rebaseline]
    /\ hist' = [hist EXCEPT !.commands = @ + 1, !.excused = @ \/ ~rebaseline]
    /\ UNCHANGED <<w, leased, file, canonical, session, proc>>

StartUninstall ==
    /\ inst.at = "idle" /\ hist.commands < MaxCommands
    /\ inst' = [NoInstall EXCEPT !.at = "read", !.command = "uninstall", !.todo = HookFiles]
    /\ hist' = [hist EXCEPT !.commands = @ + 1, !.excused = TRUE]
    /\ UNCHANGED <<w, leased, file, canonical, session, proc>>

\* installForAgent and uninstallForAgent read the file whose turn it is ...
ReadConfig(f) ==
    /\ inst.at = "read" /\ f \in inst.todo
    /\ inst' = [inst EXCEPT !.at = "write", !.read = file[f], !.walk = {f}]
    /\ UNCHANGED <<w, leased, file, canonical, session, proc, hist>>

\* ... and write what they make of it.  Install keeps the other settings of
\* a file that parses; uninstall leaves alone one that does not, or that has
\* no command of sir's.
Merged(v, c) ==
    Settings(generatedHooksConfigForAgent(v) \o filterSirHookEntries(c.hooks), c.is = "ok" /\ c.rest)
Removable(c) == c.is = "ok" /\ \E i \in DOMAIN Commands(c.hooks) : isSirHookCommand(Commands(c.hooks)[i])

WriteConfig(f) ==
    LET c == inst.read IN
    /\ inst.at = "write" /\ f \in inst.walk
    /\ \/ /\ inst.command = "install"
          /\ file' = [file EXCEPT ![f] = Merged(inst.v, c)]
          /\ inst' = [inst EXCEPT !.at = "backup"]
       \/ /\ inst.command = "uninstall"
          /\ file' = [file EXCEPT ![f] =
                        IF Removable(c) THEN Settings(filterSirHookEntries(c.hooks), c.rest) ELSE @]
          /\ inst' = IF inst.todo = {f} THEN NoInstall
                     ELSE [inst EXCEPT !.at = "read", !.todo = @ \ {f}, !.walk = {}]
    /\ proc' = Rewritten(f)
    /\ UNCHANGED <<w, leased, canonical, session, hist>>

\* The canonical copy is taken from the bytes just written.
WriteCanonical(f) ==
    /\ inst.at = "backup" /\ f \in inst.walk
    /\ canonical' = [canonical EXCEPT ![f] = [here |-> TRUE, hooks |-> Merged(inst.v, inst.read).hooks]]
    /\ inst' = [inst EXCEPT !.at = IF inst.todo = {f} THEN "session" ELSE "read", !.todo = @ \ {f}, !.walk = {}]
    /\ proc' = Rewritten(f)
    /\ UNCHANGED <<w, leased, file, session, hist>>

\* For the project it is run in, install writes the lease, and SessionStart a
\* new session, without its lock.
SessionStart ==
    LET p == inst.home IN
    /\ inst.at = "session"
    /\ session' = [session EXCEPT ![p] = NewState]
    /\ inst' = IF inst.rebaseline THEN [inst EXCEPT !.at = "rebaseline", !.walk = Projects] ELSE NoInstall
    /\ leased' = leased \cup {p}
    /\ hist' = [hist EXCEPT !.due = @ \ {p}, !.other = @ \ {p}, !.passed = @ \ {p}]
    /\ UNCHANGED <<w, file, canonical, proc>>

isHookInducedDenyReason(deny) == deny = "hooks"

\* Mutant: the pass clears the lockdown and keeps old hashes.
RebaselinedLightly(st) ==
    [st EXCEPT !.deny = IF isHookInducedDenyReason(@) THEN "none" ELSE @]

\* rebaselineProject on one session.
Rebaselined(st) ==
    [st EXCEPT !.posture = HashSentinelFiles,
               !.global = IF HashGlobalHooksFile.known THEN HashGlobalHooksFile ELSE @,
               !.deny = IF isHookInducedDenyReason(@) THEN "none" ELSE @]

\* RebaselineAllProjects visits a project that has a session file and a lease
\* under its session lock.  It skips a session without a lease, or whose
\* recorded root or update fails, and passes over a project without a session.
Rebaseline(p) ==
    LET next == IF inst.walk = {p} THEN NoInstall ELSE [inst EXCEPT !.walk = @ \ {p}] IN
    /\ inst.at = "rebaseline" /\ p \in inst.walk
    /\ \/ /\ session[p].here /\ p \in leased /\ proc[p].at = "idle"
          /\ session' = [session EXCEPT ![p] = Rebaselined(@)]
          /\ hist' = [hist EXCEPT !.due = IF isHookInducedDenyReason(session[p].deny) THEN @ \ {p} ELSE @,
                                  !.passed = @ \ {p}]
       \/ /\ session[p].here /\ (p \notin leased \/ w.faulty)
          /\ hist' = [hist EXCEPT !.passed = @ \cup {p}]
          /\ UNCHANGED session
       \/ /\ ~session[p].here
          /\ hist' = [hist EXCEPT !.excused = @ \/ proc[p].at # "idle"]
          /\ UNCHANGED session
    /\ inst' = next
    /\ UNCHANGED <<w, leased, file, canonical, proc>>

InstallDies ==
    /\ hist.deaths < MaxDeaths
    /\ inst.at # "idle"
    /\ inst' = NoInstall
    /\ hist' = [hist EXCEPT !.deaths = @ + 1]
    /\ UNCHANGED <<w, leased, file, canonical, session, proc>>

-----------------------------------------------------------------------------
HookStep(p) ==
    \/ \E kind \in w.kinds : Start(p, kind)
    \/ Look(p) \/ HashGlobal(p) \/ Detect(p)
    \/ \E f \in proc[p].todo : Restore(p, f)
    \/ Record(p) \/ SetDenyAll(p) \/ Rehash(p) \/ Save(p)
    \/ RebaselineAfterWrite(p) \/ SubagentStart(p) \/ Bootstrap(p)
    \/ Die(p)

CommandStep ==
    \/ \E p \in Projects, v \in Sir, rebaseline \in BOOLEAN :
          \E explicit \in w.explicit, ticked \in SUBSET w.enabled :
             StartInstall(p, v, resolveAgentSelection(explicit, {}, ticked), rebaseline)
    \/ StartUninstall
    \/ \E f \in HookFiles : ReadConfig(f) \/ WriteConfig(f) \/ WriteCanonical(f)
    \/ SessionStart
    \/ \E p \in Projects : Rebaseline(p)
    \/ InstallDies

Next ==
    \/ \E f \in Posture : \E c \in w.edits : Edit(f, c)
    \/ \E p \in Projects : LockOther(p) \/ HookStep(p)
    \/ CommandStep

Spec == Init /\ [][Next]_vars

-----------------------------------------------------------------------------
(* Properties.                                                             *)

\* Unless a process was killed on the way, every edit of a hook file that sir
\* undid is on a ledger but for the entries that could not be written, and
\* the session that undid it is locked down, until an install lifts it, but
\* for the sessions that could not be saved.  The file is put back before
\* the entry is written, and the entry before the session is saved: a failed
\* entry alone leaves the lockdown, a failed save alone leaves the entry, and
\* only both together leave an edit without an answer
\* (handlePostureIntegrityDrift, handleGlobalHookIntegrityDrift,
\* EvaluateConfigChange, handleSessionTerminalHookTamper).  `sir doctor`,
\* which also lifts a lockdown, is not in this module.
UndoneIsAnswered ==
    hist.deaths = 0 =>
        /\ \A f \in HookFiles :
              hist.untraced[f] <= hist.unlogged[f]
                                    + Cardinality({p \in Projects : proc[p].at = "record" /\ proc[p].cur = f})
        /\ \A p \in hist.due : session[p].deny # "none" \/ proc[p].at # "idle"

\* "A last-turn tamper cannot be blessed by a session-end rebaseline": the
\* sweep never stores the content it found drifted as the new baseline of a
\* hook file, unless that content is the baseline, or the file or its
\* baseline was written again after the restore
\* (runSessionTerminalPostureSweep).
SweepNeverBlesses ==
    [][\A p \in Projects : proc[p].at = "rehash" /\ proc'[p].at = "save" =>
          \A f \in HookFiles :
             LET was == proc[p].st.posture[f]  is == proc'[p].st.posture[f] IN
             is # was /\ is = proc[p].saw[f] =>
                 f \in proc[p].again \/ is = Parsed(managedHookBaseline(f).hooks)]_vars

\* Installing, upgrading and using sir never locks a session down by itself:
\* once an install is over, a session is locked for its hook files only if
\* somebody else changed one, a process was killed, sir was uninstalled or
\* told not to rebaseline, a check undid the install while it was under way,
\* a session was being created while it walked past, or the last pass that
\* saw the session skipped it, as it does every session a hook created in a
\* project without a lease (installForAgent, RebaselineAllProjects).
NoFalseAlarm ==
    inst.at = "idle" /\ hist.edits = 0 /\ hist.deaths = 0 /\ ~hist.excused =>
        \A p \in Projects \ hist.passed : session[p].deny # "hooks" \/ proc[p].at # "idle"

UserCommands(hooks) == SelectSeq(Commands(hooks), LAMBDA c : ~isSirHookCommand(c))
SirCommands(hooks) == SelectSeq(Commands(hooks), isSirHookCommand)

\* Writing sir's hooks into a settings file that parses, or out of it, keeps
\* the developer's own commands in order and every other setting, and leaves
\* exactly one copy of sir's commands, or none (installForAgent,
\* uninstallForAgent), when the file is what they read.
DeveloperHooksKept ==
    [][\A f \in HookFiles :
          inst.at = "write" /\ inst'.at # "write" /\ f \in inst.walk /\ inst.read = file[f] /\ file[f].is = "ok"
          /\ hist.deaths' = hist.deaths =>
             /\ UserCommands(file'[f].hooks) = UserCommands(file[f].hooks)
             /\ file'[f].rest = file[f].rest
             /\ SirCommands(file'[f].hooks) = IF inst.command = "install" THEN <<inst.v>> ELSE <<>>]_vars

\* "Other denies (secret-session, runtime containment, etc.) are preserved"
\* by the rebaseline of an install (RebaselineAllProjects).
OtherDenyPreserved == \A p \in hist.other : session[p].deny # "none"

\* A hash adopted without an alert is the hash of files that agree with
\* their baselines: "no per-agent subtree drift, so the stored hash is
\* stale" (EvaluateConfigChange, handleGlobalHookIntegrityDrift).
AdoptedIsClean ==
    [][\A p \in Projects : proc[p].at = "detect" /\ proc'[p].at = "save" /\ proc'[p].st.deny = proc[p].st.deny =>
          \A f \in HookFiles : managedHookBaseline(f).here =>
              proc[p].now.of[f] = Parsed(managedHookBaseline(f).hooks)]_vars

\* "sir installed successfully": an install that ran to its end with nobody
\* else writing the file has left its hooks there (runInstall).
InstallLands ==
    [][\A f \in HookFiles : inst.at = "rebaseline" /\ inst'.at = "idle" /\ f \in w.enabled
          /\ hist'.edits = 0 /\ hist'.deaths = 0 => SirCommands(file'[f].hooks) = <<inst.v>>]_vars

\* "sir hooks removed": a file from which uninstall took sir's hooks does
\* not get them back until the next install (cmdUninstall).
UninstallSticks ==
    [][\A f \in HookFiles : hist.commands = 1 /\ hist.excused /\ inst.at = "idle" /\ hist.edits = 0
          /\ SirCommands(file[f].hooks) = <<>> =>
              SirCommands(file'[f].hooks) = <<>> \/ inst'.at # "idle"]_vars
=============================================================================
