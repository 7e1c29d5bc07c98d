---------------------------- MODULE SessionStore ----------------------------
(***************************************************************************)
(* session.json and the files whose hashes it keeps as baselines           *)
(* (lease.json, the agents' hook files).  Hook processes and sir commands  *)
(* lock session.json.lock, load, mutate and save through a temporary file  *)
(* and a rename.  Two commands do not: `sir install` saves the project's   *)
(* lease and a fresh session without the lock before it rebaselines under  *)
(* it; `sir doctor` loads without the lock and later overwrites the fields *)
(* it repaired.  Any process may die at any step: the kernel then drops    *)
(* its flock.                                                              *)
(*                                                                         *)
(* The content of the session is abstracted to the mutations it holds      *)
(* (marks: one per process, standing for a grant, a taint, a turn, ...),   *)
(* the reason of its deny-all, the baselines and whether SessionHash seals *)
(* it.  A baseline is the empty set when it was never recorded.            *)
(***************************************************************************)
EXTENDS FiniteSets

CONSTANTS
    Hooks,          \* hook processes
    Clis,           \* `sir approve`, `sir allow-host`, `sir install`
    Doctors,        \* `sir doctor`
    NoProc,         \* nobody holds the lock
    Entries,        \* what a lease can be widened with (hosts, MCP servers)
    Foreigners      \* files something other than sir may edit

Procs == Hooks \cup Clis \cup Doctors
Files == {"session", "lease", "hooks"}

ASSUME ProcsAssumption ==
    /\ NoProc \notin Procs
    /\ Hooks \cap Clis = {} /\ Doctors \cap (Hooks \cup Clis) = {}
ASSUME ForeignersAssumption == Foreigners \subseteq Files

VARIABLES
    session,        \* session.json
    lease,          \* lease.json: the entries it approves
    hookFile,       \* the agents' hook files: "installed" or "edited"
    lock,           \* holder of session.json.lock
    pc, op,         \* where each process is, in which operation
    local,          \* the state a process loaded
    held,           \* the lease a hook has in memory
    before,         \* lease.json as the operation found it
    edited,         \* the files something other than sir has edited
    torn,           \* a process died or failed with lease.json ahead of its baseline,
                    \* or overlapped an install that was saving both
    lost            \* what an install replaced under an operation, if one did

vars == <<session, lease, hookFile, lock, pc, op, local, held, before, edited, torn, lost>>

HookReasons == {"hooks"}
OtherReasons == {"session", "lease"}
Reasons == HookReasons \cup OtherReasons

\* A process at these places has a state that it will save; at Replacing it is
\* an install between its saves of the lease and of the fresh session; at
\* Resting it has nothing in its hands.
Working == {"sync", "syncTemp", "loaded", "dirty", "dirtyTemp"}
Replacing == {"leased", "fresh", "freshTemp"}
Resting == {"idle", "files", "refreshed"}
Places == Working \cup Replacing \cup Resting \cup {"locked", "lease", "repair", "repaired"}

States == [marks : SUBSET Procs, deny : Reasons \cup {"none"}, sealed : BOOLEAN,
           leaseHash : {{}} \cup {{l} : l \in SUBSET Entries},
           hookHash : SUBSET {"installed", "edited"}]
Absent == [marks |-> {}, deny |-> "absent"]
\* Operations.  "lifecycle" stands for the hooks that load the session if it is
\* there, change it and save it (prompt, instructions); "raise" for elicitation,
\* which starts a session when there is none.
HookOps == {"pre", "post", "lifecycle", "raise"}
CliOps == {"approve", "allow", "install"}
LeaseOps == {"pre", "post", "raise"}
Ops == HookOps \cup CliOps \cup {"doctor", "mint"}

OpsOf(p) == IF p \in Hooks THEN HookOps ELSE IF p \in Clis THEN CliOps ELSE {"doctor"}

-----------------------------------------------------------------------------
(***************************************************************************)
(* The state operations of pkg/session and pkg/hooks/lifecycle.            *)
(***************************************************************************)
NewState ==
    [marks |-> {}, deny |-> "none", sealed |-> FALSE, leaseHash |-> {}, hookHash |-> {}]

SessionStart ==
    [marks |-> {}, deny |-> "none", sealed |-> FALSE, leaseHash |-> {lease}, hookHash |-> {hookFile}]

Baselined(s) == [s EXCEPT !.leaseHash = {lease}, !.hookHash = {hookFile}]
SetDenyAll(s, reason) == [s EXCEPT !.deny = reason]
Mark(s, p) == [s EXCEPT !.marks = @ \cup {p}]
Sealed(s) == [s EXCEPT !.sealed = TRUE]
Contents == [exists |-> session # Absent, marks |-> session.marks,
             deny |-> IF session = Absent THEN "none" ELSE session.deny]

\* Mutant: a baseline that was never recorded counts as a mismatch.
VerifyLeaseStrict(s) == s.leaseHash = {lease}

\* A baseline that was never recorded is not checked.
VerifyLeaseIntegrity(s) == s.leaseHash \subseteq {lease}

\* PreToolUse: session, deny-all and lease guards, then the evaluation.
PreEvaluate(s, p) ==
    CASE ~s.sealed -> SetDenyAll(s, "session")
      [] s.sealed /\ s.deny # "none" -> s
      [] s.sealed /\ s.deny = "none" /\ ~VerifyLeaseIntegrity(s) -> SetDenyAll(s, "lease")
      [] OTHER -> Mark(s, p)

\* PostToolUse of a Bash call: an edited hook file locks the session down, a
\* hook file that is as installed becomes the baseline.
HookDrift(s) == s.hookHash # {} /\ s.hookHash # {hookFile}

PostEvaluate(s, p) ==
    CASE ~s.sealed -> SetDenyAll(s, "session")
      [] s.sealed /\ s.deny # "none" -> s
      [] s.sealed /\ s.deny = "none" /\ HookDrift(s) /\ hookFile = "edited" ->
           SetDenyAll(Mark(s, p), "hooks")
      [] s.sealed /\ s.deny = "none" /\ HookDrift(s) /\ hookFile = "installed" ->
           [Mark(s, p) EXCEPT !.hookHash = {hookFile}]
      [] OTHER -> Mark(s, p)

\* Mutant: the reason of the lockdown is not looked at.
RebaselineLiftingAll(s) == SetDenyAll(Baselined(s), "none")

\* `sir install`: only a lockdown caused by hook files is lifted.
RebaselineProject(s) ==
    IF s.deny \in HookReasons THEN SetDenyAll(Baselined(s), "none") ELSE Baselined(s)

RunOp(o, s, p) ==
    CASE o = "pre" -> PreEvaluate(s, p)
      [] o = "post" -> PostEvaluate(s, p)
      [] o = "install" -> RebaselineProject(s)
      [] o = "allow" -> [s EXCEPT !.leaseHash = {lease}]
      [] OTHER -> Mark(s, p)

-----------------------------------------------------------------------------
Init ==
    /\ session = Absent
    /\ lease = {}
    /\ hookFile = "installed"
    /\ lock = NoProc
    /\ pc = [p \in Procs |-> "idle"]
    /\ op = [p \in Procs |-> "none"]
    /\ local = [p \in Procs |-> Absent]
    /\ held = [p \in Procs |-> {}]
    /\ before = [p \in Procs |-> {}]
    /\ edited = {}
    /\ torn = FALSE
    /\ lost = {}

Goto(p, l) == pc' = [pc EXCEPT ![p] = l]

\* The process is done: flock is dropped and what it held is forgotten.
Leave(p) ==
    /\ lock' = IF lock = p THEN NoProc ELSE lock
    /\ pc' = [pc EXCEPT ![p] = "idle"]
    /\ op' = [op EXCEPT ![p] = "none"]
    /\ local' = [local EXCEPT ![p] = Absent]
    /\ held' = [held EXCEPT ![p] = {}]
    /\ before' = [before EXCEPT ![p] = {}]
    /\ lost' = IF lock = p THEN {} ELSE lost

\* lease.json is not what the session's baseline says.
Ahead(s, l) == s # Absent /\ s.leaseHash # {} /\ s.leaseHash # {l}

-----------------------------------------------------------------------------
\* What takes the lock: a hook or command at its start, and an install for the
\* rebaseline, after its work without the lock.
Begins(p, o) ==
    \/ pc[p] = "idle" /\ o \in OpsOf(p) \ {"doctor", "install"}
    \/ pc[p] \in {"files", "refreshed"} /\ o = "install"

\* Mutant: the lock is taken in a mode that does not exclude other holders.
AcquireShared(p, o) ==
    /\ Begins(p, o)
    /\ lock' = p
    /\ op' = [op EXCEPT ![p] = o]
    /\ Goto(p, "locked")
    /\ torn' = (torn \/ \E q \in Procs : pc[q] \in Replacing)
    /\ UNCHANGED <<session, lease, hookFile, local, held, before, edited, lost>>

\* WithSessionLock.
Acquire(p, o) ==
    /\ Begins(p, o)
    /\ lock = NoProc
    /\ lock' = p
    /\ op' = [op EXCEPT ![p] = o]
    /\ Goto(p, "locked")
    /\ torn' = (torn \/ \E q \in Procs : pc[q] \in Replacing)
    /\ UNCHANGED <<session, lease, hookFile, local, held, before, edited, lost>>

\* loadLeaseWithMetadata: MCP servers found in the agents' configuration are
\* added to lease.json and saved before the session is read.
LoadLease(p) ==
    /\ pc[p] = "locked" /\ op[p] \in LeaseOps
    /\ before' = [before EXCEPT ![p] = lease]
    /\ \/ UNCHANGED lease
       \/ \E e \in Entries \ lease : lease' = lease \cup {e}
    /\ held' = [held EXCEPT ![p] = lease']
    /\ Goto(p, "lease")
    /\ UNCHANGED <<session, hookFile, lock, op, local, edited, torn, lost>>

\* `sir allow-host`, `sir trust`: lease.json is widened and saved, then the
\* session's baseline follows it.
AllowEntry(p, e) ==
    /\ pc[p] = "locked" /\ op[p] = "allow"
    /\ lease' = lease \cup {e}
    /\ IF session = Absent
       THEN Leave(p)
       ELSE /\ before' = [before EXCEPT ![p] = lease]
            /\ local' = [local EXCEPT ![p] = session]
            /\ Goto(p, "loaded")
            /\ UNCHANGED <<lock, op, held, lost>>
    /\ UNCHANGED <<session, hookFile, edited, torn>>

ReadyToLoad(p) ==
    \/ pc[p] = "lease"
    \/ pc[p] = "locked" /\ op[p] \in {"lifecycle", "approve", "install"}

\* There is no session: PreToolUse and elicitation start one, `sir approve`
\* makes one without baselines, the rest has nothing to do.
LoadMissing(p) ==
    /\ ReadyToLoad(p)
    /\ session = Absent
    /\ CASE op[p] \in {"pre", "raise"} ->
              /\ local' = [local EXCEPT ![p] = SessionStart]
              /\ Goto(p, "sync")
              /\ UNCHANGED <<lock, op, held, before, lost>>
         [] op[p] = "approve" ->
              /\ local' = [local EXCEPT ![p] = NewState]
              /\ Goto(p, "loaded")
              /\ UNCHANGED <<lock, op, held, before, lost>>
         [] OTHER -> Leave(p)
    /\ UNCHANGED <<session, lease, hookFile, edited, torn>>

\* RebaselineAllProjects skips a project whose lease.json does not load.
RebaselineSkips(p) ==
    /\ pc[p] = "locked" /\ op[p] = "install"
    /\ "lease" \in edited
    /\ Leave(p)
    /\ UNCHANGED <<session, lease, hookFile, edited, torn>>

\* syncSessionLeaseHashAfterSirRefresh applies: this hook widened the lease
\* and the session's baseline was the lease it found.
RefreshedBySir(p) ==
    op[p] \in LeaseOps /\ held[p] # before[p] /\ session.leaseHash = {before[p]}

\* Load, and the save of a refreshed lease hash that precedes everything else.
LoadSession(p) ==
    /\ ReadyToLoad(p)
    /\ session # Absent
    /\ IF RefreshedBySir(p)
       THEN local' = [local EXCEPT ![p] = [session EXCEPT !.leaseHash = {held[p]}]] /\ Goto(p, "sync")
       ELSE local' = [local EXCEPT ![p] = session] /\ Goto(p, "loaded")
    /\ UNCHANGED <<session, lease, hookFile, lock, op, held, before, edited, torn, lost>>

\* The body of the operation.  A PostToolUse that finds an edited hook file
\* tries to restore it from the canonical copy.
Run(p) ==
    /\ pc[p] = "loaded"
    /\ local' = [local EXCEPT ![p] = RunOp(op[p], local[p], p)]
    /\ IF op[p] = "post" /\ local'[p].deny = "hooks" /\ local[p].deny = "none"
       THEN hookFile' \in {hookFile, "installed"}
       ELSE UNCHANGED hookFile
    /\ Goto(p, "dirty")
    /\ UNCHANGED <<session, lease, lock, op, held, before, edited, torn, lost>>

\* A PostToolUse that leases the host of an approved request
\* (mintAutoHostLease): the lease is saved, then the session with the new
\* baseline, then the rest of the hook goes on.  What is saved is the lease the
\* hook has in memory, whatever the file holds by now.
Mint(p, e) ==
    LET s == PostEvaluate(local[p], p) IN
    /\ pc[p] = "loaded" /\ op[p] = "post" /\ s.sealed /\ s.deny = "none"
    /\ lease' = held[p] \cup {e}
    /\ held' = [held EXCEPT ![p] = lease']
    /\ before' = [before EXCEPT ![p] = lease]
    /\ local' = [local EXCEPT ![p] = [s EXCEPT !.leaseHash = {lease'}]]
    /\ op' = [op EXCEPT ![p] = "mint"]
    /\ Goto(p, "sync")
    /\ UNCHANGED <<session, hookFile, lock, edited, torn, lost>>

\* The save inside mintAutoHostLease fails: the lease is rolled back, if that
\* works, and the hook goes on to its own save with the new baseline.
MintSaveFails(p) ==
    /\ pc[p] = "sync" /\ op[p] = "mint"
    /\ lease' \in {lease, before[p]}
    /\ torn' = (torn \/ Ahead(local[p], lease'))
    /\ Goto(p, "loaded")
    /\ UNCHANGED <<session, hookFile, lock, op, local, held, before, edited, lost>>

\* saveTo, first half: the sealed state goes to a temporary file of its own.
WriteTemp(p) ==
    /\ \/ pc[p] = "sync" /\ Goto(p, "syncTemp")
       \/ pc[p] = "dirty" /\ Goto(p, "dirtyTemp")
       \/ pc[p] = "fresh" /\ Goto(p, "freshTemp")
    /\ UNCHANGED <<session, lease, hookFile, lock, op, local, held, before, edited, torn, lost>>

\* saveTo, second half.  The save of a refreshed baseline is followed by the
\* operation itself, the operation's own save by the release of the lock.
Rename(p) ==
    /\ pc[p] \in {"syncTemp", "dirtyTemp"}
    /\ session' = Sealed(local[p])
    /\ IF pc[p] = "syncTemp"
       THEN /\ local' = [local EXCEPT ![p] = Sealed(@)]
            /\ lost' = {}
            /\ Goto(p, "loaded")
            /\ UNCHANGED <<lock, op, held, before>>
       ELSE Leave(p)
    /\ UNCHANGED <<lease, hookFile, edited, torn>>

\* The temporary file cannot be written: the operation ends without a save.
\* allow rolls lease.json back, which can fail as well.
SaveFails(p) ==
    /\ pc[p] \in {"sync", "dirty", "fresh"} /\ <<pc[p], op[p]>> # <<"sync", "mint">>
    /\ lease' \in IF op[p] = "allow" THEN {lease, before[p]} ELSE {lease}
    /\ Leave(p)
    /\ torn' = (torn \/ Ahead(session, lease'))
    /\ UNCHANGED <<session, hookFile, edited>>

\* The process dies (host timeout, kill): the kernel drops its flock.
Crash(p) ==
    /\ pc[p] # "idle"
    /\ Leave(p)
    /\ torn' = (torn \/ Ahead(session, lease))
    /\ UNCHANGED <<session, lease, hookFile, edited>>

-----------------------------------------------------------------------------
(***************************************************************************)
(* `sir install` up to the rebaseline, all of it without the session lock. *)
(***************************************************************************)
\* installForAgent writes the agents' hook files.  An install run in another
\* project goes on to this project's rebaseline.
InstallFiles(p) ==
    /\ p \in Clis /\ pc[p] = "idle"
    /\ hookFile' = "installed"
    /\ op' = [op EXCEPT ![p] = "install"]
    /\ Goto(p, "files")
    /\ UNCHANGED <<session, lease, lock, local, held, before, edited, torn, lost>>

\* l.Save: the lease that was read, or made, before the prompt, with the MCP
\* servers discovered then.
InstallLease(p) ==
    /\ pc[p] = "files"
    /\ lease' \in SUBSET Entries
    /\ Goto(p, "leased")
    /\ torn' = (torn \/ \E q \in Procs \ {p} : pc[q] \notin Resting)
    /\ UNCHANGED <<session, hookFile, lock, op, local, held, before, edited, lost>>

\* hooks.SessionStart: a fresh state with the files of now as baselines,
InstallFresh(p) ==
    /\ pc[p] = "leased"
    /\ local' = [local EXCEPT ![p] = SessionStart]
    /\ Goto(p, "fresh")
    /\ UNCHANGED <<session, lease, hookFile, lock, op, held, before, edited, torn, lost>>

\* which replaces session.json, whatever it holds and whoever works on it.
InstallSave(p) ==
    /\ pc[p] = "freshTemp"
    /\ session' = Sealed(local[p])
    /\ lost' = IF lost = {} /\ \E q \in Procs : lock = q /\ pc[q] \in Working THEN {Contents} ELSE lost
    /\ local' = [local EXCEPT ![p] = Absent]
    /\ Goto(p, "refreshed")
    /\ UNCHANGED <<lease, hookFile, lock, op, held, before, edited, torn>>

\* Nothing is rebaselined: --no-rebaseline, or no state directory to visit.
InstallEnds(p) ==
    /\ pc[p] \in {"files", "refreshed"}
    /\ Leave(p)
    /\ UNCHANGED <<session, lease, hookFile, edited, torn>>

-----------------------------------------------------------------------------
(***************************************************************************)
(* `sir doctor` reads session.json without the lock.  op "recover" is a    *)
(* doctor that saw a lockdown.                                             *)
(***************************************************************************)
DoctorLoad(d) ==
    /\ pc[d] = "idle"
    /\ IF session = Absent
       THEN local' = [local EXCEPT ![d] = SessionStart] /\ Goto(d, "dirty")
       ELSE local' = [local EXCEPT ![d] = session] /\ Goto(d, "repair")
    /\ op' = [op EXCEPT ![d] = IF session.deny \in Reasons THEN "recover" ELSE "doctor"]
    /\ UNCHANGED <<session, lease, hookFile, lock, held, before, edited, torn, lost>>

\* runDoctorRepairs on the copy: deny-all is cleared; a changed lease becomes
\* the baseline, after a confirmation when deny-all was set; edited hook files
\* are restored when the developer confirms.
DoctorRepair(d) ==
    /\ pc[d] = "repair"
    /\ \E leaseHash \in IF op[d] = "recover" THEN {{lease}, local[d].leaseHash} ELSE {{lease}},
          restore \in IF HookDrift(local[d]) THEN BOOLEAN ELSE {FALSE} :
         /\ local' = [local EXCEPT ![d].deny = "none", ![d].leaseHash = leaseHash,
                                   ![d].hookHash = IF restore THEN {"installed"} ELSE @]
         /\ hookFile' = IF restore THEN "installed" ELSE hookFile
    /\ Goto(d, "repaired")
    /\ UNCHANGED <<session, lease, lock, op, held, before, edited, torn, lost>>

\* Mutant: doctor saves the copy it loaded before the repairs.
DoctorMergeStale(d) ==
    /\ pc[d] = "repaired"
    /\ lock = NoProc
    /\ lock' = d
    /\ Goto(d, "dirty")
    /\ UNCHANGED <<session, lease, hookFile, op, local, held, before, edited, torn, lost>>

\* saveDoctorState: Update overwrites the repaired fields of whatever session
\* is there by now.
DoctorMerge(d) ==
    /\ pc[d] = "repaired"
    /\ lock = NoProc
    /\ lock' = d
    /\ local' = [local EXCEPT ![d].marks = session.marks, ![d].sealed = session.sealed]
    /\ Goto(d, "dirty")
    /\ UNCHANGED <<session, lease, hookFile, op, held, before, edited, torn, lost>>

-----------------------------------------------------------------------------
(***************************************************************************)
(* Something other than sir writes one of the files.                       *)
(***************************************************************************)
EditSession ==
    /\ "session" \in Foreigners /\ session # Absent
    /\ \E m \in SUBSET session.marks, d \in {session.deny, "none"} :
         session' = [session EXCEPT !.marks = m, !.deny = d, !.sealed = FALSE]
    /\ edited' = edited \cup {"session"}
    /\ UNCHANGED <<lease, hookFile, lock, pc, op, local, held, before, torn, lost>>

EditLease ==
    /\ "lease" \in Foreigners
    /\ lease' \in (SUBSET Entries) \ {lease}
    /\ edited' = edited \cup {"lease"}
    /\ UNCHANGED <<session, hookFile, lock, pc, op, local, held, before, torn, lost>>

EditHooks ==
    /\ "hooks" \in Foreigners
    /\ hookFile' = "edited"
    /\ edited' = edited \cup {"hooks"}
    /\ UNCHANGED <<session, lease, lock, pc, op, local, held, before, torn, lost>>

Next ==
    \/ \E p \in Procs, o \in Ops : Acquire(p, o)
    \/ \E p \in Procs : LoadLease(p) \/ LoadMissing(p) \/ LoadSession(p) \/ Run(p)
    \/ \E p \in Procs, e \in Entries : AllowEntry(p, e) \/ Mint(p, e)
    \/ \E p \in Procs : WriteTemp(p) \/ Rename(p) \/ SaveFails(p) \/ MintSaveFails(p) \/ Crash(p)
    \/ \E p \in Procs : InstallFiles(p) \/ InstallLease(p) \/ InstallFresh(p) \/ InstallSave(p)
                          \/ InstallEnds(p) \/ RebaselineSkips(p)
    \/ \E d \in Doctors : DoctorLoad(d) \/ DoctorRepair(d) \/ DoctorMerge(d)
    \/ EditSession \/ EditLease \/ EditHooks

Spec == Init /\ [][Next]_vars

-----------------------------------------------------------------------------
(***************************************************************************)
(* Properties.                                                             *)
(***************************************************************************)
\* Every variable has its type; in particular session.json is absent or a
\* complete state at every instant, also for readers without the lock.
TypeOK ==
    /\ session \in States \cup {Absent}
    /\ lease \in SUBSET Entries
    /\ hookFile \in {"installed", "edited"}
    /\ lock \in Procs \cup {NoProc}
    /\ pc \in [Procs -> Places]
    /\ op \in [Procs -> Ops \cup {"none", "recover"}]
    /\ local \in [Procs -> States \cup {Absent}]
    /\ held \in [Procs -> SUBSET Entries]
    /\ before \in [Procs -> SUBSET Entries]
    /\ edited \subseteq Files
    /\ torn \in BOOLEAN
    /\ lost \in {{}} \cup {{c} : c \in [exists : BOOLEAN, marks : SUBSET Procs, deny : Reasons \cup {"none"}]}

\* The store implements the atomic one: every hook and command takes effect
\* as one read-modify-write of the state its predecessor left, crashes and
\* failed saves included (WithSessionLock around Load, mutate, Save), and
\* beside an install as one of the state that the install's fresh session
\* replaced under it (SessionStart without the lock).
Atomic == INSTANCE AtomicSession WITH
    Procs <- Procs, exists <- session # Absent, marks <- session.marks,
    deny <- IF session = Absent THEN "none" ELSE session.deny, lost <- lost
AtomicUpdates == Atomic!Spec

\* sir's own lease writes never lock the developer out: while no file was
\* edited behind sir, no process died or failed between saving the lease and
\* saving the session, and no hook or command overlapped an install's saves
\* of the lease and the fresh session, there is no deny-all, and the lease
\* baseline agrees with lease.json whenever nobody holds the lock and no
\* install is between these saves.
NoSpuriousLockdown ==
    session # Absent /\ edited = {} /\ ~torn =>
        /\ session.deny = "none"
        /\ lock = NoProc /\ (\A p \in Procs : pc[p] \notin Replacing) => session.leaseHash \subseteq {lease}

\* A lockdown ends only through a step of `sir install`, its rebaseline (for a
\* hook-file reason) or its fresh session (for any reason), or through a
\* doctor that saw it.
LockdownSticky ==
    [][session # Absent /\ session.deny # "none" /\ session'.deny = "none" =>
         \/ \E p \in Clis : op[p] = "install" /\ pc'[p] # pc[p]
                             /\ (session.deny \in HookReasons \/ pc[p] = "freshTemp")
         \/ \E d \in Doctors : op[d] = "recover"]_vars

\* A save by the holder of the lock keeps every mutation of the state it
\* replaces, also a doctor's, whose repairs were made on an older copy
\* (saveDoctorState goes through Update).
LockedSaveKeeps ==
    [][\A p \in Procs :
         lock = p /\ pc[p] \in {"syncTemp", "dirtyTemp"} /\ pc'[p] # pc[p]
            /\ session # Absent /\ session' # session
            => session.marks \subseteq session'.marks]_vars
=============================================================================
