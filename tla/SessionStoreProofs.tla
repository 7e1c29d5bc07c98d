------------------------- MODULE SessionStoreProofs -------------------------
(***************************************************************************)
(* Proofs about SessionStore, for any number of hooks, commands and        *)
(* doctors, any lease and any files that others edit.                      *)
(***************************************************************************)
EXTENDS SessionStore, TLAPS

-----------------------------------------------------------------------------
(***************************************************************************)
(* Types and the lock.                                                     *)
(***************************************************************************)
\* The places of a process that holds the lock, and those of an install.
Inside == Working \cup {"locked", "lease"}
Installs == Replacing \cup {"files", "refreshed"}

\* What a process has loaded is a state; doctors never take the session away.
\* A hook or command holds the lock from the time it asks for it to its last
\* step; a doctor that is about to save either holds it, or found no session
\* and is about to save a fresh one.
Loaded ==
    /\ \A p \in Procs : pc[p] \in Working \cup {"repair", "repaired"} => local[p] \in States
    /\ \A d \in Doctors :
          /\ pc[d] \in {"idle", "repair", "repaired", "dirty", "dirtyTemp"}
          /\ pc[d] \in {"repair", "repaired"} => session # Absent

\* An install works without the lock until the rebaseline, on a fresh state.
Installing ==
    \A p \in Procs :
        /\ pc[p] \in Installs => p \in Clis /\ op[p] = "install"
        /\ pc[p] \in {"fresh", "freshTemp"} =>
              local[p] \in States /\ local[p].marks = {} /\ local[p].deny = "none"

Locked ==
    /\ \A p \in Hooks \cup Clis : pc[p] \in Inside => lock = p
    /\ \A p \in Procs : lock = p => pc[p] \in Inside
    /\ \A d \in Doctors : pc[d] \in {"dirty", "dirtyTemp"} /\ lock # d => local[d].marks = {}

\* The mutations of the session are in the copy of whoever holds the lock.
Current ==
    \A p \in Procs : lock = p /\ pc[p] \in Working /\ session # Absent => session.marks \subseteq local[p].marks

StoreInv == TypeOK /\ Loaded /\ Installing /\ Locked /\ Current

\* Absent is not a state.
LEMMA NotAbsent == Absent \notin States
BY DEF Absent, States, Reasons, HookReasons, OtherReasons

\* The operations on a state give states.
LEMMA FreshTypes ==
    ASSUME TypeOK
    PROVE  NewState \in States /\ SessionStart \in States /\ NewState.marks = {} /\ SessionStart.marks = {}
           /\ NewState.deny = "none" /\ SessionStart.deny = "none"
BY DEF TypeOK, NewState, SessionStart, States

\* The updates of a state give states, and change what they say.
LEMMA UpdateTypes ==
    ASSUME TypeOK, NEW s \in States, NEW p \in Procs
    PROVE  /\ Mark(s, p) \in States /\ Mark(s, p) = [s EXCEPT !.marks = s.marks \cup {p}]
           /\ \A r \in Reasons \cup {"none"} : SetDenyAll(s, r) \in States
           /\ Baselined(s) \in States
           /\ [s EXCEPT !.leaseHash = {lease}] \in States
           /\ [s EXCEPT !.hookHash = {hookFile}] \in States
           /\ Sealed(s) \in States
BY DEF TypeOK, States, Mark, SetDenyAll, Baselined, Sealed

\* What the hooks' operations make of a state is a state that holds at least
\* the mutations it held, and at most that of the process besides.
LEMMA RunTypes ==
    ASSUME TypeOK, NEW s \in States, NEW p \in Procs, NEW o
    PROVE  LET t == RunOp(o, s, p) IN t \in States /\ (t.marks = s.marks \/ t.marks = s.marks \cup {p})
<1> USE UpdateTypes
<1>1. \A r \in Reasons \cup {"none"} : SetDenyAll(s, r).marks = s.marks
  BY DEF SetDenyAll, States
<1>2. Baselined(s).marks = s.marks /\ Mark(s, p).marks = s.marks \cup {p}
  BY DEF Baselined, Mark, States
<1>3. \A r \in Reasons \cup {"none"} : /\ SetDenyAll(Baselined(s), r) \in States
                                      /\ SetDenyAll(Baselined(s), r).marks = s.marks
                                      /\ SetDenyAll(Mark(s, p), r) \in States
                                      /\ SetDenyAll(Mark(s, p), r).marks = s.marks \cup {p}
  <2>1. Baselined(s) \in States /\ Mark(s, p) \in States
    OBVIOUS
  <2>2. ASSUME NEW u \in States, NEW r \in Reasons \cup {"none"}
        PROVE  SetDenyAll(u, r) \in States /\ SetDenyAll(u, r).marks = u.marks
    BY DEF SetDenyAll, States
  <2>3. QED
    BY <1>2, <2>1, <2>2
<1>4. LET t == PreEvaluate(s, p) IN t \in States /\ (t.marks = s.marks \/ t.marks = s.marks \cup {p})
  BY <1>1, <1>2, Zenon DEF PreEvaluate, Reasons, OtherReasons
<1>5. LET t == PostEvaluate(s, p) IN t \in States /\ (t.marks = s.marks \/ t.marks = s.marks \cup {p})
  <2>1. /\ [Mark(s, p) EXCEPT !.hookHash = {hookFile}] \in States
        /\ [Mark(s, p) EXCEPT !.hookHash = {hookFile}].marks = s.marks \cup {p}
    BY DEF States, TypeOK, Mark
  <2>2. "session" \in Reasons /\ "hooks" \in Reasons /\ s.sealed \in BOOLEAN
    BY DEF Reasons, OtherReasons, HookReasons, States
  <2>3. CASE ~s.sealed
    BY <1>1, <2>2, <2>3 DEF PostEvaluate
  <2>4. CASE s.sealed
    BY <1>1, <1>2, <1>3, <2>1, <2>2, <2>4 DEF PostEvaluate
  <2>5. QED
    BY <2>2, <2>3, <2>4
<1>6. LET t == RebaselineProject(s) IN t \in States /\ (t.marks = s.marks \/ t.marks = s.marks \cup {p})
  BY <1>2, <1>3 DEF RebaselineProject
<1>7. [s EXCEPT !.leaseHash = {lease}] \in States /\ [s EXCEPT !.leaseHash = {lease}].marks = s.marks
  BY DEF States, TypeOK
<1>8. QED
  BY <1>2, <1>4, <1>5, <1>6, <1>7 DEF RunOp

-----------------------------------------------------------------------------
(***************************************************************************)
(* The types are kept.                                                     *)
(***************************************************************************)
\* A process leaves: it holds nothing afterwards.
LEMMA LeaveTypes ==
    ASSUME TypeOK, NEW p \in Procs, Leave(p)
    PROVE  /\ lock' \in Procs \cup {NoProc}
           /\ pc' \in [Procs -> Places] /\ pc' = [pc EXCEPT ![p] = "idle"]
           /\ op' \in [Procs -> Ops \cup {"none", "recover"}]
           /\ local' \in [Procs -> States \cup {Absent}]
           /\ held' \in [Procs -> SUBSET Entries] /\ before' \in [Procs -> SUBSET Entries]
           /\ lost' \in {lost, {}}
           /\ \A q \in Procs \ {p} : pc'[q] = pc[q] /\ local'[q] = local[q]
           /\ pc'[p] = "idle"
BY DEF TypeOK, Leave, Places, Working, Replacing, Resting

\* A process moves on with what it has.
LEMMA MoveTypes ==
    ASSUME TypeOK, Loaded, NEW p \in Procs, NEW l \in Places, Goto(p, l), NEW s \in States \cup {Absent},
           local' = [local EXCEPT ![p] = s],
           l \in Working \cup {"repair", "repaired"} => s \in States,
           p \in Doctors => l \in {"idle", "repair", "repaired", "dirty", "dirtyTemp"},
           l \in {"repair", "repaired"} => session' # Absent,
           session # Absent => session' # Absent
    PROVE  /\ pc' \in [Procs -> Places]
           /\ local' \in [Procs -> States \cup {Absent}]
           /\ Loaded'
           /\ \A q \in Procs \ {p} : pc'[q] = pc[q] /\ local'[q] = local[q]
           /\ pc'[p] = l /\ local'[p] = s
BY DEF TypeOK, Loaded, Goto, Places, Working, Replacing, Resting, Procs

\* A process that leaves keeps what the others have.
LEMMA LeaveLoaded ==
    ASSUME TypeOK, Loaded, NEW p \in Procs, Leave(p), session # Absent => session' # Absent
    PROVE  Loaded'
BY LeaveTypes DEF Loaded, Procs, Places, Working, Replacing, Resting

\* Every step keeps the types and what was loaded.
LEMMA TypesKeep ==
    ASSUME TypeOK, Loaded, Installing, Next
    PROVE  TypeOK' /\ Loaded'
<1> USE ProcsAssumption
<1>1. ASSUME NEW p \in Procs, NEW o \in Ops, Acquire(p, o) PROVE TypeOK' /\ Loaded'
  <2>1. p \notin Doctors
    BY <1>1 DEF Acquire, Begins, OpsOf, Procs, Loaded
  <2>2. QED
    BY <1>1, <2>1 DEF Acquire, Goto, TypeOK, Loaded, Procs, Places, Working, Replacing, Resting
<1>2. ASSUME NEW p \in Procs, LoadLease(p) PROVE TypeOK' /\ Loaded'
  <2>1. p \notin Doctors
    BY <1>2 DEF LoadLease, Loaded
  <2>2. lease' \in SUBSET Entries
    BY <1>2 DEF LoadLease, TypeOK
  <2>3. QED
    BY <1>2, <2>1, <2>2 DEF LoadLease, Goto, TypeOK, Loaded, Procs, Places, Working, Replacing, Resting
<1>3. ASSUME NEW p \in Procs, LoadMissing(p) PROVE TypeOK' /\ Loaded'
  <2>1. p \notin Doctors
    BY <1>3 DEF LoadMissing, ReadyToLoad, Loaded
  <2>2. UNCHANGED <<session, lease, hookFile, edited, torn>>
    BY <1>3 DEF LoadMissing
  <2>3. CASE Leave(p)
    BY <2>2, <2>3, LeaveTypes, LeaveLoaded DEF TypeOK, Places, Working, Replacing, Resting
  <2>4. CASE /\ UNCHANGED <<lock, op, held, before, lost>>
             /\ \E s \in {SessionStart, NewState} : local' = [local EXCEPT ![p] = s]
             /\ \E l \in {"sync", "loaded"} : Goto(p, l)
    <3>1. PICK s \in {SessionStart, NewState}, l \in {"sync", "loaded"} :
             local' = [local EXCEPT ![p] = s] /\ Goto(p, l)
      BY <2>4
    <3>2. s \in States /\ l \in Places
      BY FreshTypes DEF Places, Working, Replacing, Resting
    <3>3. pc' \in [Procs -> Places] /\ local' \in [Procs -> States \cup {Absent}] /\ Loaded'
      BY <2>1, <2>2, <3>1, <3>2, MoveTypes
    <3>4. QED
      BY <2>2, <2>4, <3>3 DEF TypeOK, Places, Working, Replacing, Resting
  <2>5. QED
    BY <1>3, <2>3, <2>4 DEF LoadMissing
<1>4. ASSUME NEW p \in Procs, LoadSession(p) PROVE TypeOK' /\ Loaded'
  <2>1. p \notin Doctors
    BY <1>4 DEF LoadSession, ReadyToLoad, Loaded
  <2>2. UNCHANGED <<session, lease, hookFile, lock, op, held, before, edited, torn, lost>> /\ session \in States
    BY <1>4 DEF LoadSession, TypeOK
  <2>3. [session EXCEPT !.leaseHash = {held[p]}] \in States
    BY <2>2 DEF States, TypeOK
  <2>4. PICK s \in States, l \in {"sync", "loaded"} : local' = [local EXCEPT ![p] = s] /\ Goto(p, l)
    BY <1>4, <2>2, <2>3 DEF LoadSession
  <2>5. l \in Places
    BY DEF Places, Working, Replacing, Resting
  <2>6. pc' \in [Procs -> Places] /\ local' \in [Procs -> States \cup {Absent}] /\ Loaded'
    BY <2>1, <2>2, <2>4, <2>5, MoveTypes
  <2>7. QED
    BY <2>2, <2>6 DEF TypeOK, Places, Working, Replacing, Resting
<1>5. ASSUME NEW p \in Procs, Run(p) PROVE TypeOK' /\ Loaded'
  <2>1. p \notin Doctors /\ local[p] \in States
    BY <1>5 DEF Run, Loaded, Working
  <2>2. UNCHANGED <<session, lease, lock, op, held, before, edited, torn, lost>> /\ Goto(p, "dirty")
    BY <1>5 DEF Run
  <2>3. local' = [local EXCEPT ![p] = RunOp(op[p], local[p], p)] /\ RunOp(op[p], local[p], p) \in States
    BY <1>5, <2>1, RunTypes DEF Run
  <2>4. hookFile' \in {"installed", "edited"}
    BY <1>5 DEF Run, TypeOK
  <2>5. "dirty" \in Places
    BY DEF Places, Working, Replacing, Resting
  <2>6. pc' \in [Procs -> Places] /\ local' \in [Procs -> States \cup {Absent}] /\ Loaded'
    BY <2>1, <2>2, <2>3, <2>5, MoveTypes
  <2>7. QED
    BY <2>2, <2>4, <2>6 DEF TypeOK, Places, Working, Replacing, Resting
<1>6. ASSUME NEW p \in Procs, NEW e \in Entries, AllowEntry(p, e) PROVE TypeOK' /\ Loaded'
  <2>1. p \notin Doctors
    BY <1>6 DEF AllowEntry, Loaded
  <2>2. UNCHANGED <<session, hookFile, edited, torn>> /\ lease' \in SUBSET Entries
    BY <1>6 DEF AllowEntry, TypeOK
  <2>3. CASE Leave(p)
    BY <2>2, <2>3, LeaveTypes, LeaveLoaded DEF TypeOK, Places, Working, Replacing, Resting
  <2>4. CASE /\ session # Absent
             /\ before' = [before EXCEPT ![p] = lease]
             /\ local' = [local EXCEPT ![p] = session]
             /\ Goto(p, "loaded")
             /\ UNCHANGED <<lock, op, held, lost>>
    <3>1. session \in States /\ "loaded" \in Places
      BY <2>4 DEF TypeOK, Places, Working, Replacing, Resting
    <3>2. pc' \in [Procs -> Places] /\ local' \in [Procs -> States \cup {Absent}] /\ Loaded'
      BY <2>1, <2>2, <2>4, <3>1, MoveTypes
    <3>3. QED
      BY <2>2, <2>4, <3>2 DEF TypeOK, Places, Working, Replacing, Resting
  <2>5. QED
    BY <1>6, <2>3, <2>4 DEF AllowEntry
<1>7. ASSUME NEW p \in Procs, NEW e \in Entries, Mint(p, e) PROVE TypeOK' /\ Loaded'
  <2> DEFINE s == PostEvaluate(local[p], p)
             t == [s EXCEPT !.leaseHash = {lease'}]
  <2>1. p \notin Doctors /\ local[p] \in States
    BY <1>7 DEF Mint, Loaded, Working
  <2>2. UNCHANGED <<session, hookFile, lock, edited, torn, lost>> /\ Goto(p, "sync")
    BY <1>7 DEF Mint
  <2>3. lease' \in SUBSET Entries
    BY <1>7 DEF Mint, TypeOK
  <2>4. s \in States
    <3>1. RunOp("post", local[p], p) = s
      BY DEF RunOp
    <3>2. QED
      BY <2>1, <3>1, RunTypes
  <2> HIDE DEF s
  <2>5. t \in States
    BY <2>3, <2>4 DEF States
  <2>6. local' = [local EXCEPT ![p] = t]
    BY <1>7 DEF Mint, s
  <2>7. /\ held' \in [Procs -> SUBSET Entries] /\ before' \in [Procs -> SUBSET Entries]
        /\ op' \in [Procs -> Ops \cup {"none", "recover"}]
    BY <1>7, <2>3 DEF Mint, TypeOK, Ops
  <2> HIDE DEF t
  <2>8. "sync" \in Places
    BY DEF Places, Working, Replacing, Resting
  <2>9. pc' \in [Procs -> Places] /\ local' \in [Procs -> States \cup {Absent}] /\ Loaded'
    BY <2>1, <2>2, <2>5, <2>6, <2>8, MoveTypes
  <2>10. QED
    BY <2>2, <2>3, <2>7, <2>9 DEF TypeOK, Places, Working, Replacing, Resting
<1>8. ASSUME NEW p \in Procs, WriteTemp(p) PROVE TypeOK' /\ Loaded'
  BY <1>8 DEF WriteTemp, Goto, TypeOK, Loaded, Procs, Places, Working, Replacing, Resting
<1>9. ASSUME NEW p \in Procs, Rename(p) PROVE TypeOK' /\ Loaded'
  <2>1. local[p] \in States /\ UNCHANGED <<lease, hookFile, edited, torn>> /\ session' = Sealed(local[p])
    BY <1>9 DEF Rename, Loaded, Working
  <2>2. session' \in States /\ session' # Absent
    BY <2>1, UpdateTypes, NotAbsent
  <2>3. CASE Leave(p)
    BY <2>1, <2>2, <2>3, LeaveTypes, LeaveLoaded DEF TypeOK, Places, Working, Replacing, Resting
  <2>4. CASE /\ pc[p] = "syncTemp" /\ local' = [local EXCEPT ![p] = Sealed(local[p])]
             /\ Goto(p, "loaded") /\ UNCHANGED <<lock, op, held, before>> /\ lost' = {}
    <3>1. p \notin Doctors /\ "loaded" \in Places
      BY <2>4 DEF Loaded, Places, Working, Replacing, Resting
    <3>2. pc' \in [Procs -> Places] /\ local' \in [Procs -> States \cup {Absent}] /\ Loaded'
      BY <2>1, <2>2, <2>4, <3>1, MoveTypes
    <3>3. QED
      BY <2>1, <2>2, <2>4, <3>2 DEF TypeOK, Places, Working, Replacing, Resting
  <2>5. QED
    BY <1>9, <2>3, <2>4 DEF Rename
<1>10. ASSUME NEW p \in Procs, SaveFails(p) PROVE TypeOK' /\ Loaded'
  <2>1. UNCHANGED <<session, hookFile, edited>> /\ Leave(p) /\ lease' \in SUBSET Entries /\ torn' \in BOOLEAN
    BY <1>10 DEF SaveFails, TypeOK, Ahead
  <2>2. QED
    BY <2>1, LeaveTypes, LeaveLoaded DEF TypeOK, Places, Working, Replacing, Resting
<1>11. ASSUME NEW p \in Procs, MintSaveFails(p) PROVE TypeOK' /\ Loaded'
  <2>1. lease' \in SUBSET Entries /\ torn' \in BOOLEAN /\ p \notin Doctors
    BY <1>11 DEF MintSaveFails, TypeOK, Ahead, Loaded
  <2>2. QED
    BY <1>11, <2>1 DEF MintSaveFails, TypeOK, Loaded, Goto, Places, Working, Replacing, Resting
<1>12. ASSUME NEW p \in Procs, Crash(p) PROVE TypeOK' /\ Loaded'
  <2>1. UNCHANGED <<session, lease, hookFile, edited>> /\ Leave(p) /\ torn' \in BOOLEAN
    BY <1>12 DEF Crash, TypeOK, Ahead
  <2>2. QED
    BY <2>1, LeaveTypes, LeaveLoaded DEF TypeOK, Places, Working, Replacing, Resting
<1>13. ASSUME NEW d \in Doctors, DoctorLoad(d) PROVE TypeOK' /\ Loaded'
  <2>1. d \in Procs /\ UNCHANGED <<session, lease, hookFile, lock, held, before, edited, torn, lost>>
    BY <1>13 DEF DoctorLoad, Procs
  <2>2. PICK s \in States, l \in {"dirty", "repair"} :
           local' = [local EXCEPT ![d] = s] /\ Goto(d, l) /\ (l = "repair" => session # Absent)
    BY <1>13, FreshTypes DEF DoctorLoad, TypeOK
  <2>3. l \in Places /\ op' \in [Procs -> Ops \cup {"none", "recover"}]
    BY <1>13 DEF Places, DoctorLoad, TypeOK, Ops, Working, Replacing, Resting
  <2>4. pc' \in [Procs -> Places] /\ local' \in [Procs -> States \cup {Absent}] /\ Loaded'
    BY <2>1, <2>2, <2>3, MoveTypes
  <2>5. QED
    BY <2>1, <2>3, <2>4 DEF TypeOK, Places, Working, Replacing, Resting
<1>14. ASSUME NEW d \in Doctors, DoctorRepair(d) PROVE TypeOK' /\ Loaded'
  <2>1. d \in Procs /\ UNCHANGED <<session, lease, lock, op, held, before, edited, torn, lost>> /\ Goto(d, "repaired")
    BY <1>14 DEF DoctorRepair, Procs
  <2>2. local[d] \in States /\ session # Absent
    BY <1>14, <2>1 DEF DoctorRepair, Loaded
  <2>3. PICK h \in {{lease}, local[d].leaseHash}, k \in {{"installed"}, local[d].hookHash} :
           local' = [local EXCEPT ![d] = [local[d] EXCEPT !.deny = "none", !.leaseHash = h, !.hookHash = k]]
    <3>1. PICK h \in IF op[d] = "recover" THEN {{lease}, local[d].leaseHash} ELSE {{lease}},
               restore \in IF HookDrift(local[d]) THEN BOOLEAN ELSE {FALSE} :
            local' = [local EXCEPT ![d].deny = "none", ![d].leaseHash = h,
                                   ![d].hookHash = IF restore THEN {"installed"} ELSE @]
      BY <1>14 DEF DoctorRepair
    <3>2. local' = [local EXCEPT ![d] = [local[d] EXCEPT !.deny = "none", !.leaseHash = h,
                                            !.hookHash = IF restore THEN {"installed"} ELSE local[d].hookHash]]
      BY <2>1, <2>2, <3>1 DEF TypeOK, States
    <3>3. QED
      BY <3>2
  <2>4. [local[d] EXCEPT !.deny = "none", !.leaseHash = h, !.hookHash = k] \in States
    BY <2>2, <2>3 DEF States, TypeOK
  <2>5. hookFile' \in {"installed", "edited"} /\ "repaired" \in Places
    BY <1>14 DEF DoctorRepair, TypeOK, Places, Working, Replacing, Resting
  <2>6. pc' \in [Procs -> Places] /\ local' \in [Procs -> States \cup {Absent}] /\ Loaded'
    BY <2>1, <2>2, <2>3, <2>4, <2>5, MoveTypes
  <2>7. QED
    BY <2>1, <2>5, <2>6 DEF TypeOK, Places, Working, Replacing, Resting
<1>15. ASSUME NEW d \in Doctors, DoctorMerge(d) PROVE TypeOK' /\ Loaded'
  <2>1. d \in Procs /\ UNCHANGED <<session, lease, hookFile, op, held, before, edited, torn, lost>> /\ Goto(d, "dirty") /\ lock' = d
    BY <1>15 DEF DoctorMerge, Procs
  <2>2. local[d] \in States /\ session \in States
    BY <1>15, <2>1 DEF DoctorMerge, Loaded, TypeOK
  <2>3. local' = [local EXCEPT ![d] = [local[d] EXCEPT !.marks = session.marks, !.sealed = session.sealed]]
    BY <1>15, <2>1, <2>2 DEF DoctorMerge, TypeOK, States
  <2>4. [local[d] EXCEPT !.marks = session.marks, !.sealed = session.sealed] \in States /\ "dirty" \in Places
    BY <2>2 DEF States, Places, Working, Replacing, Resting
  <2>5. pc' \in [Procs -> Places] /\ local' \in [Procs -> States \cup {Absent}] /\ Loaded'
    BY <2>1, <2>3, <2>4, MoveTypes
  <2>6. QED
    BY <2>1, <2>5 DEF TypeOK, Places, Working, Replacing, Resting
<1>16. ASSUME EditSession \/ EditLease \/ EditHooks PROVE TypeOK' /\ Loaded'
  <2>1. CASE EditSession
    <3>1. session \in States /\ UNCHANGED <<lease, hookFile, lock, pc, op, local, held, before, torn, lost>>
             /\ edited' = edited \cup {"session"}
      BY <2>1 DEF EditSession, TypeOK
    <3>2. session' \in States
      BY <2>1, <3>1 DEF EditSession, States
    <3>3. session' # Absent
      BY <3>2, NotAbsent
    <3>4. QED
      BY <3>1, <3>2, <3>3 DEF TypeOK, Loaded, Files
  <2>2. CASE EditLease
    BY <2>2 DEF EditLease, TypeOK, Loaded, Files
  <2>3. CASE EditHooks
    BY <2>3 DEF EditHooks, TypeOK, Loaded, Files
  <2>4. QED
    BY <1>16, <2>1, <2>2, <2>3
<1>17. ASSUME NEW p \in Procs, InstallFiles(p) \/ InstallLease(p) PROVE TypeOK' /\ Loaded'
  <2>1. PICK l \in {"files", "leased"} : Goto(p, l) /\ UNCHANGED <<session, lock, local, held, before, edited, lost>>
    BY <1>17 DEF InstallFiles, InstallLease
  <2>2. p \notin Doctors
    BY <1>17 DEF InstallFiles, InstallLease, Loaded
  <2>3. /\ lease' \in SUBSET Entries /\ hookFile' \in {"installed", "edited"} /\ torn' \in BOOLEAN
        /\ op' \in [Procs -> Ops \cup {"none", "recover"}]
    BY <1>17 DEF InstallFiles, InstallLease, TypeOK, Ops, CliOps
  <2>4. Loaded' /\ pc' \in [Procs -> Places]
    BY <2>1, <2>2 DEF Goto, TypeOK, Loaded, Places, Working, Replacing, Resting
  <2>5. QED
    BY <2>1, <2>3, <2>4 DEF TypeOK
<1>18. ASSUME NEW p \in Procs, InstallFresh(p) PROVE TypeOK' /\ Loaded'
  <2>1. p \notin Doctors /\ UNCHANGED <<session, lease, hookFile, lock, op, held, before, edited, torn, lost>>
    BY <1>18 DEF InstallFresh, Loaded
  <2>2. SessionStart \in States /\ "fresh" \in Places
    BY FreshTypes DEF Places, Working, Replacing, Resting
  <2>3. pc' \in [Procs -> Places] /\ local' \in [Procs -> States \cup {Absent}] /\ Loaded'
    BY <1>18, <2>1, <2>2, MoveTypes DEF InstallFresh
  <2>4. QED
    BY <2>1, <2>3 DEF TypeOK
<1>19. ASSUME NEW p \in Procs, Installing, InstallSave(p) PROVE TypeOK' /\ Loaded'
  <2>1. p \notin Doctors /\ UNCHANGED <<lease, hookFile, lock, op, held, before, edited, torn>>
    BY <1>19 DEF InstallSave, Loaded
  <2>2. local[p] \in States /\ session' = Sealed(local[p])
    BY <1>19 DEF InstallSave, Installing
  <2>3. session' \in States /\ session' # Absent
    BY <2>2, UpdateTypes, NotAbsent
  <2>4. pc' \in [Procs -> Places] /\ local' \in [Procs -> States \cup {Absent}] /\ Loaded'
    BY <1>19, <2>1, <2>3, MoveTypes DEF InstallSave, Places, Working, Replacing, Resting
  <2>5. Contents \in [exists : BOOLEAN, marks : SUBSET Procs, deny : Reasons \cup {"none"}]
    BY DEF Contents, TypeOK, States, Absent
  <2>6. lost' \in {lost, {Contents}}
    BY <1>19 DEF InstallSave
  <2>7. QED
    BY <2>1, <2>3, <2>4, <2>5, <2>6 DEF TypeOK
<1>20. ASSUME NEW p \in Procs, InstallEnds(p) \/ RebaselineSkips(p) PROVE TypeOK' /\ Loaded'
  <2>1. UNCHANGED <<session, lease, hookFile, edited, torn>> /\ Leave(p)
    BY <1>20 DEF InstallEnds, RebaselineSkips
  <2>2. QED
    BY <2>1, LeaveTypes, LeaveLoaded DEF TypeOK
<1>21. QED
  BY <1>1, <1>2, <1>3, <1>4, <1>5, <1>6, <1>7, <1>8, <1>9, <1>10, <1>11, <1>12, <1>13, <1>14, <1>15, <1>16,
     <1>17, <1>18, <1>19, <1>20 DEF Next

\* A step that takes no process to a place of an install keeps what installs
\* have, when it leaves the other processes alone.
LEMMA OthersInstall ==
    ASSUME TypeOK, Installing, NEW p \in Procs,
           \A q \in Procs \ {p} : pc'[q] = pc[q] /\ op'[q] = op[q] /\ local'[q] = local[q],
           pc'[p] \notin Installs
    PROVE  Installing'
BY DEF Installing, Installs, Replacing

\* Every step keeps what installs have.
LEMMA InstallsKeep ==
    ASSUME TypeOK, Loaded, Installing, Next
    PROVE  Installing'
<1>1. ASSUME NEW p \in Procs, Leave(p) PROVE Installing'
  <2>1. pc'[p] = "idle" /\ \A q \in Procs \ {p} : pc'[q] = pc[q] /\ op'[q] = op[q] /\ local'[q] = local[q]
    BY <1>1 DEF Leave, TypeOK
  <2>2. QED
    BY <2>1, OthersInstall DEF Installs, Replacing
<1>2. ASSUME NEW p \in Procs, NEW l \in Places \ Installs, NEW s, NEW o,
             pc' = [pc EXCEPT ![p] = l], op' = [op EXCEPT ![p] = o], local' = [local EXCEPT ![p] = s]
      PROVE  Installing'
  <2>1. pc'[p] = l /\ \A q \in Procs \ {p} : pc'[q] = pc[q] /\ op'[q] = op[q] /\ local'[q] = local[q]
    BY <1>2 DEF TypeOK
  <2>2. QED
    BY <2>1, OthersInstall
<1>3. ASSUME NEW p \in Procs PROVE op = [op EXCEPT ![p] = op[p]] /\ local = [local EXCEPT ![p] = local[p]]
  BY DEF TypeOK
<1>4. {"locked", "lease", "repair", "repaired"} \cup Working \subseteq Places \ Installs
  BY DEF Places, Working, Replacing, Resting, Installs
<1>5. ASSUME NEW p \in Procs, NEW o \in Ops, Acquire(p, o) PROVE Installing'
  BY <1>2, <1>3, <1>4, <1>5 DEF Acquire, Goto
<1>6. ASSUME NEW p \in Procs, LoadLease(p) PROVE Installing'
  BY <1>2, <1>3, <1>4, <1>6 DEF LoadLease, Goto
<1>7. ASSUME NEW p \in Procs, LoadMissing(p) PROVE Installing'
  BY <1>1, <1>2, <1>3, <1>4, <1>7 DEF LoadMissing, Goto, Working
<1>8. ASSUME NEW p \in Procs, LoadSession(p) PROVE Installing'
  BY <1>2, <1>3, <1>4, <1>8 DEF LoadSession, Goto, Working
<1>9. ASSUME NEW p \in Procs, Run(p) PROVE Installing'
  BY <1>2, <1>3, <1>4, <1>9 DEF Run, Goto, Working
<1>10. ASSUME NEW p \in Procs, NEW e \in Entries, AllowEntry(p, e) PROVE Installing'
  BY <1>1, <1>2, <1>3, <1>4, <1>10 DEF AllowEntry, Goto, Working
<1>11. ASSUME NEW p \in Procs, NEW e \in Entries, Mint(p, e) PROVE Installing'
  BY <1>2, <1>4, <1>11 DEF Mint, Goto, Working
<1>12. ASSUME NEW p \in Procs, WriteTemp(p) PROVE Installing'
  <2>1. CASE pc[p] = "fresh"
    <3>1. pc' = [pc EXCEPT ![p] = "freshTemp"] /\ UNCHANGED <<op, local>>
      BY <1>12, <2>1 DEF WriteTemp, Goto
    <3>2. QED
      BY <2>1, <3>1 DEF TypeOK, Installing, Installs, Replacing
  <2>2. CASE pc[p] # "fresh"
    BY <1>2, <1>3, <1>4, <1>12, <2>2 DEF WriteTemp, Goto, Working
  <2>3. QED
    BY <2>1, <2>2
<1>13. ASSUME NEW p \in Procs, Rename(p) PROVE Installing'
  BY <1>1, <1>2, <1>3, <1>4, <1>13 DEF Rename, Goto, Working
<1>14. ASSUME NEW p \in Procs, SaveFails(p) \/ Crash(p) \/ InstallEnds(p) \/ RebaselineSkips(p) PROVE Installing'
  BY <1>1, <1>14 DEF SaveFails, Crash, InstallEnds, RebaselineSkips
<1>15. ASSUME NEW p \in Procs, MintSaveFails(p) PROVE Installing'
  BY <1>2, <1>3, <1>4, <1>15 DEF MintSaveFails, Goto, Working
<1>16. ASSUME NEW p \in Procs, InstallFiles(p) PROVE Installing'
  BY <1>16 DEF InstallFiles, Goto, Installing, TypeOK, Installs, Replacing
<1>17. ASSUME NEW p \in Procs, InstallLease(p) PROVE Installing'
  BY <1>17 DEF InstallLease, Goto, Installing, TypeOK, Installs, Replacing
<1>18. ASSUME NEW p \in Procs, InstallFresh(p) PROVE Installing'
  <2>1. /\ pc' = [pc EXCEPT ![p] = "fresh"] /\ op' = op /\ local' = [local EXCEPT ![p] = SessionStart]
        /\ pc[p] = "leased"
    BY <1>18 DEF InstallFresh, Goto
  <2>2. SessionStart \in States /\ SessionStart.marks = {} /\ SessionStart.deny = "none"
    BY FreshTypes
  <2>3. QED
    BY <2>1, <2>2 DEF Installing, TypeOK, Installs, Replacing
<1>19. ASSUME NEW p \in Procs, InstallSave(p) PROVE Installing'
  BY <1>19 DEF InstallSave, Goto, Installing, TypeOK, Installs, Replacing
<1>20. ASSUME NEW d \in Doctors, DoctorLoad(d) PROVE Installing'
  BY <1>2, <1>4, <1>20 DEF DoctorLoad, Goto, Working, Procs
<1>21. ASSUME NEW d \in Doctors, DoctorRepair(d) PROVE Installing'
  <2>1. /\ d \in Procs /\ pc' = [pc EXCEPT ![d] = "repaired"] /\ op' = op
        /\ \A q \in Procs \ {d} : local'[q] = local[q]
    BY <1>21 DEF DoctorRepair, Goto, Procs, TypeOK
  <2>2. QED
    BY <2>1, OthersInstall DEF TypeOK, Installs, Replacing
<1>22. ASSUME NEW d \in Doctors, DoctorMerge(d) PROVE Installing'
  <2>1. /\ d \in Procs /\ pc' = [pc EXCEPT ![d] = "dirty"] /\ op' = op
        /\ \A q \in Procs \ {d} : local'[q] = local[q]
    BY <1>22 DEF DoctorMerge, Goto, Procs, TypeOK
  <2>2. QED
    BY <2>1, OthersInstall DEF TypeOK, Installs, Replacing
<1>23. ASSUME EditSession \/ EditLease \/ EditHooks PROVE Installing'
  BY <1>23 DEF EditSession, EditLease, EditHooks, Installing
<1>24. QED
  BY <1>5, <1>6, <1>7, <1>8, <1>9, <1>10, <1>11, <1>12, <1>13, <1>14, <1>15, <1>16, <1>17, <1>18, <1>19, <1>20,
     <1>21, <1>22, <1>23 DEF Next

-----------------------------------------------------------------------------
(***************************************************************************)
(* What the lock protects.                                                 *)
(***************************************************************************)
\* A process that leaves gives the lock back if it held it, and whoever holds
\* it afterwards still has the mutations of the session.
LEMMA LeaveLocked ==
    ASSUME StoreInv, NEW p \in Procs, Leave(p), session' = session \/ session'.marks = {} \/ lock = p
    PROVE  Locked' /\ Current'
<1> USE ProcsAssumption
<1>1. /\ pc' = [pc EXCEPT ![p] = "idle"] /\ local' = [local EXCEPT ![p] = Absent]
      /\ lock' = IF lock = p THEN NoProc ELSE lock
  BY DEF Leave
<1>2. Locked'
  BY <1>1 DEF StoreInv, TypeOK, Locked, Procs, Inside, Working
<1>3. ASSUME NEW q \in Procs, lock' = q, pc'[q] \in Working, session' # Absent
      PROVE  session'.marks \subseteq local'[q].marks
  <2>1. lock = q /\ q # p
    BY <1>1, <1>3
  <2>2. pc[q] \in Working /\ local'[q] = local[q]
    BY <1>1, <1>3, <2>1 DEF StoreInv, TypeOK
  <2>3. CASE session' = session
    BY <1>3, <2>1, <2>2, <2>3 DEF StoreInv, Current
  <2>4. CASE session'.marks = {}
    BY <2>4
  <2>5. QED
    BY <2>1, <2>3, <2>4
<1>4. QED
  BY <1>2, <1>3 DEF Current

\* A process that holds the lock moves on with a copy that holds the mutations
\* of the session.
LEMMA MoveLocked ==
    ASSUME StoreInv, NEW p \in Procs, lock = p, lock' = lock, NEW l \in Places, Goto(p, l),
           l \in Inside, session' = session,
           \A q \in Procs \ {p} : local'[q] = local[q],
           l \in Working /\ session # Absent => session.marks \subseteq local'[p].marks
    PROVE  Locked' /\ Current'
<1> USE ProcsAssumption
<1>1. pc' = [pc EXCEPT ![p] = l]
  BY DEF Goto
<1>2. Locked'
  BY <1>1 DEF StoreInv, TypeOK, Locked, Procs, Inside, Working
<1>3. Current'
  BY <1>1 DEF StoreInv, TypeOK, Current
<1>4. QED
  BY <1>2, <1>3

\* Whoever is at work on the session holds the lock, but for a doctor that
\* found no session.
LEMMA WorkerHolds ==
    ASSUME StoreInv, NEW p \in Procs, pc[p] \in Inside, p \notin Doctors
    PROVE  lock = p
BY DEF StoreInv, Locked, Procs

\* An install that moves on without the lock, and without it replaces the
\* session by a fresh one, leaves the lock's discipline alone.
LEMMA UnlockedMoves ==
    ASSUME StoreInv, NEW p \in Procs, p \notin Doctors, pc[p] \notin Inside, lock' = lock,
           NEW l \in Places \ Inside, Goto(p, l), \A q \in Procs \ {p} : local'[q] = local[q],
           session' = session \/ session'.marks = {}
    PROVE  Locked' /\ Current'
<1> USE ProcsAssumption
<1>1. pc' = [pc EXCEPT ![p] = l] /\ lock # p
  BY DEF Goto, StoreInv, Locked
<1>2. Locked'
  BY <1>1 DEF StoreInv, TypeOK, Locked, Procs, Inside, Working
<1>3. ASSUME NEW q \in Procs, lock' = q, pc'[q] \in Working, session' # Absent
      PROVE  session'.marks \subseteq local'[q].marks
  <2>1. q # p /\ pc[q] = pc'[q] /\ local'[q] = local[q] /\ lock = q
    BY <1>1, <1>3 DEF StoreInv, TypeOK
  <2>2. CASE session' = session
    BY <1>3, <2>1, <2>2 DEF StoreInv, Current
  <2>3. CASE session'.marks = {}
    BY <2>3
  <2>4. QED
    BY <2>2, <2>3
<1>4. QED
  BY <1>2, <1>3 DEF Current

\* Every step keeps the lock's discipline, and the copy of its holder current.
LEMMA LockedKeep ==
    ASSUME StoreInv, Next
    PROVE  Locked' /\ Current'
<1> USE ProcsAssumption
<1>0. TypeOK /\ Loaded /\ Locked /\ Current
  BY DEF StoreInv
<1>1. ASSUME NEW p \in Procs, NEW o \in Ops, Acquire(p, o) PROVE Locked' /\ Current'
  <2>1. p \notin Doctors
    BY <1>0, <1>1 DEF Acquire, Begins, OpsOf, Procs, Loaded
  <2>2. /\ lock = NoProc /\ lock' = p /\ pc' = [pc EXCEPT ![p] = "locked"]
        /\ UNCHANGED <<session, local>>
    BY <1>1 DEF Acquire, Goto
  <2>3. Locked'
    BY <1>0, <2>1, <2>2 DEF Locked, TypeOK, Procs, Inside, Working
  <2>4. Current'
    BY <1>0, <2>2 DEF Current, TypeOK, Working
  <2>5. QED
    BY <2>3, <2>4
<1>2. ASSUME NEW p \in Procs, LoadLease(p) PROVE Locked' /\ Current'
  <2>1. lock = p
    BY <1>0, <1>2, WorkerHolds DEF LoadLease, Loaded, Inside, Working
  <2>2. QED
    BY <1>2, <2>1, MoveLocked DEF LoadLease, Places, Working, Inside
<1>3. ASSUME NEW p \in Procs, LoadMissing(p) PROVE Locked' /\ Current'
  <2>1. lock = p /\ session' = session
    BY <1>0, <1>3, WorkerHolds DEF LoadMissing, ReadyToLoad, Loaded, Inside, Working
  <2>2. CASE Leave(p)
    BY <2>1, <2>2, LeaveLocked
  <2>3. CASE /\ UNCHANGED lock
             /\ \E s : local' = [local EXCEPT ![p] = s]
             /\ \E l \in {"sync", "loaded"} : Goto(p, l)
    BY <1>0, <1>3, <2>1, <2>3, MoveLocked DEF LoadMissing, Places, TypeOK, Inside, Working
  <2>4. QED
    BY <1>3, <2>2, <2>3 DEF LoadMissing
<1>4. ASSUME NEW p \in Procs, LoadSession(p) PROVE Locked' /\ Current'
  <2>1. lock = p
    BY <1>0, <1>4, WorkerHolds DEF LoadSession, ReadyToLoad, Loaded, Inside, Working
  <2>2. session \in States /\ UNCHANGED <<session, lock>>
    BY <1>0, <1>4 DEF LoadSession, TypeOK
  <2>3. PICK s \in {session, [session EXCEPT !.leaseHash = {held[p]}]}, l \in {"sync", "loaded"} :
           local' = [local EXCEPT ![p] = s] /\ Goto(p, l)
    BY <1>4 DEF LoadSession
  <2>4. local'[p] = s /\ \A q \in Procs \ {p} : local'[q] = local[q]
    BY <1>0, <2>3 DEF TypeOK
  <2>5. s.marks = session.marks
    BY <2>2, <2>3 DEF States
  <2>6. QED
    BY <2>1, <2>2, <2>3, <2>4, <2>5, MoveLocked DEF Places, Working, Replacing, Resting, Inside
<1>5. ASSUME NEW p \in Procs, Run(p) PROVE Locked' /\ Current'
  <2>1. lock = p
    BY <1>0, <1>5, WorkerHolds DEF Run, Loaded, Inside, Working
  <2>2. local[p] \in States /\ UNCHANGED <<session, lock>> /\ Goto(p, "dirty")
    BY <1>0, <1>5 DEF Run, Loaded, Working
  <2>3. local'[p] = RunOp(op[p], local[p], p) /\ \A q \in Procs \ {p} : local'[q] = local[q]
    BY <1>0, <1>5 DEF Run, TypeOK
  <2>4. local[p].marks \subseteq local'[p].marks
    BY <1>0, <2>2, <2>3, RunTypes
  <2>5. session # Absent => session.marks \subseteq local[p].marks
    BY <1>0, <1>5, <2>1 DEF Run, Current, Working
  <2>6. QED
    BY <2>1, <2>2, <2>3, <2>4, <2>5, MoveLocked DEF Places, Working, Replacing, Resting, Inside
<1>6. ASSUME NEW p \in Procs, NEW e \in Entries, AllowEntry(p, e) PROVE Locked' /\ Current'
  <2>1. lock = p /\ session' = session
    BY <1>0, <1>6, WorkerHolds DEF AllowEntry, Loaded, Inside, Working
  <2>2. CASE Leave(p)
    BY <2>1, <2>2, LeaveLocked
  <2>3. CASE local' = [local EXCEPT ![p] = session] /\ Goto(p, "loaded") /\ UNCHANGED lock
    BY <1>0, <2>1, <2>3, MoveLocked DEF Places, TypeOK, Inside, Working
  <2>4. QED
    BY <1>6, <2>2, <2>3 DEF AllowEntry
<1>7. ASSUME NEW p \in Procs, NEW e \in Entries, Mint(p, e) PROVE Locked' /\ Current'
  <2> DEFINE s == PostEvaluate(local[p], p)
  <2>1. lock = p
    BY <1>0, <1>7, WorkerHolds DEF Mint, Loaded, Inside, Working
  <2>2. local[p] \in States /\ UNCHANGED <<session, lock>> /\ Goto(p, "sync")
    BY <1>0, <1>7 DEF Mint, Loaded, Working
  <2>3. s \in States /\ local[p].marks \subseteq s.marks
    <3>1. RunOp("post", local[p], p) = s
      BY DEF RunOp
    <3>2. QED
      BY <1>0, <2>2, <3>1, RunTypes
  <2>4. local' = [local EXCEPT ![p] = [s EXCEPT !.leaseHash = {lease'}]]
    BY <1>7 DEF Mint
  <2> HIDE DEF s
  <2>5. local'[p].marks = s.marks /\ \A q \in Procs \ {p} : local'[q] = local[q]
    BY <1>0, <2>3, <2>4 DEF TypeOK, States
  <2>6. session # Absent => session.marks \subseteq local[p].marks
    BY <1>0, <1>7, <2>1 DEF Mint, Current, Working
  <2>7. QED
    BY <2>1, <2>2, <2>3, <2>5, <2>6, MoveLocked DEF Places, Working, Replacing, Resting, Inside
<1>8. ASSUME NEW p \in Procs, WriteTemp(p) PROVE Locked' /\ Current'
  <2>1. CASE pc[p] = "fresh"
    <3>1. p \notin Doctors /\ "freshTemp" \in Places \ Inside /\ "fresh" \notin Inside
      BY <1>0, <2>1 DEF Loaded, Inside, Places, Working, Replacing
    <3>2. Goto(p, "freshTemp") /\ session' = session /\ lock' = lock /\ \A q \in Procs \ {p} : local'[q] = local[q]
      BY <1>8, <2>1 DEF WriteTemp
    <3>3. QED
      BY <2>1, <3>1, <3>2, UnlockedMoves
  <2>2. CASE pc[p] # "fresh"
    <3>1. PICK l \in {"syncTemp", "dirtyTemp"} :
             /\ pc' = [pc EXCEPT ![p] = l] /\ UNCHANGED <<session, lock, local>>
             /\ pc[p] = IF l = "syncTemp" THEN "sync" ELSE "dirty"
      BY <1>8, <2>2 DEF WriteTemp, Goto
    <3>2. \A q \in Procs : /\ pc'[q] \in Inside <=> pc[q] \in Inside
                           /\ pc'[q] \in Working <=> pc[q] \in Working
                           /\ pc'[q] \in {"dirty", "dirtyTemp"} <=> pc[q] \in {"dirty", "dirtyTemp"}
      BY <1>0, <3>1 DEF TypeOK, Inside, Working
    <3>3. Locked'
      BY <1>0, <3>1, <3>2 DEF Locked, Procs
    <3>4. Current'
      BY <1>0, <3>1, <3>2 DEF Current
    <3>5. QED
      BY <3>3, <3>4
  <2>3. QED
    BY <2>1, <2>2
<1>9. ASSUME NEW p \in Procs, Rename(p) PROVE Locked' /\ Current'
  <2>1. local[p] \in States /\ session' = Sealed(local[p])
    BY <1>0, <1>9 DEF Rename, Loaded, Working
  <2>2. session'.marks = local[p].marks
    BY <2>1 DEF Sealed, States
  <2>3. CASE Leave(p)
    <3>1. lock = p \/ local[p].marks = {}
      BY <1>0, <1>9, WorkerHolds DEF Rename, Loaded, Locked, Inside, Working
    <3>2. QED
      BY <2>2, <2>3, <3>1, LeaveLocked
  <2>4. CASE /\ pc[p] = "syncTemp" /\ local' = [local EXCEPT ![p] = Sealed(local[p])]
             /\ Goto(p, "loaded") /\ UNCHANGED lock
    <3>1. lock = p
      BY <1>0, <2>4, WorkerHolds DEF Loaded, Inside, Working
    <3>2. pc' = [pc EXCEPT ![p] = "loaded"] /\ lock' = p
      BY <2>4, <3>1 DEF Goto
    <3>3. local'[p] = session'
      BY <1>0, <2>1, <2>4 DEF TypeOK
    <3>4. Locked'
      BY <1>0, <2>4, <3>1, <3>2 DEF Locked, TypeOK, Procs, Inside, Working
    <3>5. Current'
      BY <3>2, <3>3 DEF Current
    <3>6. QED
      BY <3>4, <3>5
  <2>5. QED
    BY <1>9, <2>3, <2>4 DEF Rename
<1>10. ASSUME NEW p \in Procs, SaveFails(p) \/ Crash(p) PROVE Locked' /\ Current'
  BY <1>10, LeaveLocked DEF SaveFails, Crash
<1>11. ASSUME NEW p \in Procs, MintSaveFails(p) PROVE Locked' /\ Current'
  <2>1. lock = p
    BY <1>0, <1>11, WorkerHolds DEF MintSaveFails, Loaded, Inside, Working
  <2>2. session # Absent => session.marks \subseteq local[p].marks
    BY <1>0, <1>11, <2>1 DEF MintSaveFails, Current, Working
  <2>3. QED
    BY <1>11, <2>1, <2>2, MoveLocked DEF MintSaveFails, Places, Working, Replacing, Resting, Inside
<1>12. ASSUME NEW d \in Doctors, DoctorLoad(d) PROVE Locked' /\ Current'
  <2>1. d \in Procs /\ UNCHANGED <<session, lock>> /\ pc[d] = "idle" /\ lock # d
    BY <1>0, <1>12 DEF DoctorLoad, Procs, Locked, Inside, Working
  <2>2. PICK s \in {session, SessionStart}, l \in {"dirty", "repair"} :
           /\ local' = [local EXCEPT ![d] = s] /\ pc' = [pc EXCEPT ![d] = l]
           /\ l = "dirty" => s.marks = {}
    BY <1>12 DEF DoctorLoad, Goto, SessionStart
  <2>3. Locked'
    BY <1>0, <2>1, <2>2 DEF Locked, TypeOK, Procs, Inside, Working
  <2>4. Current'
    BY <1>0, <2>1, <2>2 DEF Current, TypeOK, Working
  <2>5. QED
    BY <2>3, <2>4
<1>13. ASSUME NEW d \in Doctors, DoctorRepair(d) PROVE Locked' /\ Current'
  <2>1. d \in Procs /\ UNCHANGED <<session, lock>> /\ pc[d] = "repair" /\ lock # d
    BY <1>0, <1>13 DEF DoctorRepair, Procs, Locked, Inside, Working
  <2>2. pc' = [pc EXCEPT ![d] = "repaired"] /\ \A q \in Procs \ {d} : local'[q] = local[q]
    BY <1>0, <1>13 DEF DoctorRepair, Goto, TypeOK
  <2>3. Locked'
    BY <1>0, <2>1, <2>2 DEF Locked, TypeOK, Procs, Inside, Working
  <2>4. Current'
    BY <1>0, <2>1, <2>2 DEF Current, TypeOK, Working
  <2>5. QED
    BY <2>3, <2>4
<1>14. ASSUME NEW d \in Doctors, DoctorMerge(d) PROVE Locked' /\ Current'
  <2>1. /\ d \in Procs /\ UNCHANGED session /\ pc' = [pc EXCEPT ![d] = "dirty"]
        /\ lock = NoProc /\ lock' = d
        /\ local' = [local EXCEPT ![d].marks = session.marks, ![d].sealed = session.sealed]
    BY <1>14 DEF DoctorMerge, Procs, Goto
  <2>2. local[d] \in States
    BY <1>0, <1>14, <2>1 DEF DoctorMerge, Loaded
  <2>3. local'[d].marks = session.marks /\ \A q \in Procs \ {d} : local'[q] = local[q]
    BY <1>0, <2>1, <2>2 DEF TypeOK, States
  <2>4. Locked'
    BY <1>0, <2>1, <2>3 DEF Locked, TypeOK, Procs, Inside, Working
  <2>5. Current'
    BY <2>1, <2>3 DEF Current
  <2>6. QED
    BY <2>4, <2>5
<1>15. ASSUME EditSession \/ EditLease \/ EditHooks PROVE Locked' /\ Current'
  <2>1. UNCHANGED <<lock, pc, local>>
    BY <1>15 DEF EditSession, EditLease, EditHooks
  <2>2. session' = session \/ (session # Absent /\ session'.marks \subseteq session.marks)
    BY <1>0, <1>15 DEF EditSession, EditLease, EditHooks, TypeOK, States
  <2>3. QED
    BY <1>0, <2>1, <2>2 DEF Locked, Current
<1>16. ASSUME NEW p \in Procs, InstallFiles(p) \/ InstallLease(p) \/ InstallFresh(p) PROVE Locked' /\ Current'
  <2>1. PICK l \in {"files", "leased", "fresh"} : Goto(p, l)
    BY <1>16 DEF InstallFiles, InstallLease, InstallFresh
  <2>2. /\ pc[p] \in {"idle", "files", "leased"} /\ UNCHANGED <<session, lock>>
        /\ \A q \in Procs \ {p} : local'[q] = local[q]
    BY <1>0, <1>16 DEF InstallFiles, InstallLease, InstallFresh, TypeOK
  <2>3. p \notin Doctors
    BY <1>0, <1>16 DEF InstallFiles, InstallLease, InstallFresh, Loaded
  <2>4. l \in Places \ Inside /\ pc[p] \notin Inside
    BY <2>2 DEF Places, Replacing, Resting, Inside, Working
  <2>5. QED
    BY <2>1, <2>2, <2>3, <2>4, UnlockedMoves
<1>17. ASSUME NEW p \in Procs, InstallSave(p) PROVE Locked' /\ Current'
  <2>1. /\ pc[p] = "freshTemp" /\ Goto(p, "refreshed") /\ UNCHANGED lock /\ session' = Sealed(local[p])
        /\ \A q \in Procs \ {p} : local'[q] = local[q]
    BY <1>0, <1>17 DEF InstallSave, TypeOK
  <2>2. local[p] \in States /\ local[p].marks = {}
    BY <2>1 DEF StoreInv, Installing
  <2>3. session'.marks = {}
    BY <2>1, <2>2 DEF Sealed, States
  <2>4. p \notin Doctors /\ "refreshed" \in Places \ Inside /\ "freshTemp" \notin Inside
    BY <1>0, <2>1 DEF Loaded, Places, Replacing, Resting, Inside, Working
  <2>5. QED
    BY <2>1, <2>3, <2>4, UnlockedMoves
<1>18. ASSUME NEW p \in Procs, InstallEnds(p) \/ RebaselineSkips(p) PROVE Locked' /\ Current'
  BY <1>18, LeaveLocked DEF InstallEnds, RebaselineSkips
<1>19. QED
  BY <1>16, <1>17, <1>18, <1>1, <1>2, <1>3, <1>4, <1>5, <1>6, <1>7, <1>8, <1>9, <1>10, <1>11, <1>12, <1>13, <1>14, <1>15 DEF Next

\* The strengthened invariant holds in every behaviour, whoever runs and
\* whatever others edit.
LEMMA StoreInvariant ==
    Spec => []StoreInv
<1>1. Init => StoreInv
  <2> SUFFICES ASSUME Init PROVE StoreInv
    OBVIOUS
  <2>1. TypeOK
    BY DEF Init, TypeOK, Places, Resting
  <2>2. Loaded /\ Installing /\ Locked /\ Current
    BY ProcsAssumption DEF Init, Loaded, Installing, Installs, Replacing, Locked, Current, Procs, Inside, Working
  <2>3. QED
    BY <2>1, <2>2 DEF StoreInv
<1>2. StoreInv /\ [Next]_vars => StoreInv'
  <2> SUFFICES ASSUME StoreInv, [Next]_vars PROVE StoreInv'
    OBVIOUS
  <2>1. CASE Next
    BY <2>1, TypesKeep, InstallsKeep, LockedKeep DEF StoreInv
  <2>2. CASE UNCHANGED vars
    BY <2>2 DEF vars, StoreInv, TypeOK, Loaded, Installing, Locked, Current
  <2>3. QED
    BY <2>1, <2>2
<1>3. QED
  BY <1>1, <1>2, PTL DEF Spec

\* Only the second half of a save and an edit by others change session.json.
LEMMA OnlySaves ==
    ASSUME Next, session' # session
    PROVE  EditSession \/ \E p \in Procs : Rename(p) \/ InstallSave(p)
<1>1. ASSUME NEW p \in Procs, NEW o \in Ops, Acquire(p, o) PROVE FALSE
  BY <1>1 DEF Acquire
<1>2. ASSUME NEW p \in Procs, LoadLease(p) \/ LoadMissing(p) \/ LoadSession(p) \/ Run(p) PROVE FALSE
  BY <1>2 DEF LoadLease, LoadMissing, LoadSession, Run
<1>3. ASSUME NEW p \in Procs, NEW e \in Entries, AllowEntry(p, e) \/ Mint(p, e) PROVE FALSE
  BY <1>3 DEF AllowEntry, Mint
<1>4. ASSUME NEW p \in Procs, WriteTemp(p) \/ SaveFails(p) \/ MintSaveFails(p) \/ Crash(p) PROVE FALSE
  BY <1>4 DEF WriteTemp, SaveFails, MintSaveFails, Crash
<1>5. ASSUME NEW p \in Procs,
             InstallFiles(p) \/ InstallLease(p) \/ InstallFresh(p) \/ InstallEnds(p) \/ RebaselineSkips(p)
      PROVE  FALSE
  BY <1>5 DEF InstallFiles, InstallLease, InstallFresh, InstallEnds, RebaselineSkips
<1>6. ASSUME NEW d \in Doctors, DoctorLoad(d) \/ DoctorRepair(d) \/ DoctorMerge(d) PROVE FALSE
  BY <1>6 DEF DoctorLoad, DoctorRepair, DoctorMerge
<1>7. ASSUME EditLease \/ EditHooks PROVE FALSE
  BY <1>7 DEF EditLease, EditHooks
<1>8. QED
  BY <1>1, <1>2, <1>3, <1>4, <1>5, <1>6, <1>7 DEF Next

\* A save under the lock keeps every mutation of the state it replaces, for
\* any number of hooks, commands and doctors and whatever others edit
\* (WithSessionLock, saveDoctorState through Update).
THEOREM SavesKeep ==
    Spec => LockedSaveKeeps
<1>1. StoreInv /\ [Next]_vars =>
        [\A p \in Procs :
           lock = p /\ pc[p] \in {"syncTemp", "dirtyTemp"} /\ pc'[p] # pc[p]
              /\ session # Absent /\ session' # session
              => session.marks \subseteq session'.marks]_vars
  <2> SUFFICES ASSUME StoreInv, Next, NEW p \in Procs,
                      lock = p, pc[p] \in {"syncTemp", "dirtyTemp"}, pc'[p] # pc[p],
                      session # Absent, session' # session
               PROVE  session.marks \subseteq session'.marks
    BY DEF vars
  <2>1. TypeOK /\ Loaded /\ Current
    BY DEF StoreInv
  <2>2. Rename(p)
    <3>1. ASSUME NEW q \in Procs, q # p, Rename(q) PROVE pc'[p] = pc[p]
      BY <2>1, <3>1 DEF Rename, Leave, Goto, TypeOK
    <3>2. \E q \in Procs : Rename(q)
      <4>1. ASSUME NEW q \in Procs, InstallSave(q) PROVE FALSE
        BY <2>1, <4>1 DEF InstallSave, Goto, TypeOK
      <4>2. QED
        BY <4>1, OnlySaves DEF EditSession
    <3>3. QED
      BY <3>1, <3>2
  <2>3. local[p] \in States /\ session' = Sealed(local[p])
    BY <2>1, <2>2 DEF Rename, Loaded, Working
  <2>4. session'.marks = local[p].marks
    BY <2>3 DEF Sealed, States
  <2>5. QED
    BY <2>1, <2>4 DEF Current, Working
<1>2. QED
  BY <1>1, StoreInvariant, PTL DEF Spec, LockedSaveKeeps

-----------------------------------------------------------------------------
(***************************************************************************)
(* The store implements AtomicSession.  From here on there is no doctor,   *)
(* which reads without the lock, and nobody but sir writes session.json:   *)
(* with either of them the refinement does not hold.                       *)
(***************************************************************************)
\* The state that the operation at work applies to.
Bases == IF lost = {} THEN {Contents} ELSE lost

\* The copy of a process at work differs from that state by at most one step
\* of AtomicSession, and by none before the operation ran.  A lease that was
\* minted is in the copy together with the mutation of the hook.
Planned(p) ==
    LET t == local[p]
    IN  \A b \in Bases :
        /\ ~b.exists =>
              /\ t.deny = "none" /\ t.marks \in {{}, {p}} /\ op[p] \in {"pre", "raise", "approve"}
              /\ pc[p] = "loaded" => op[p] = "approve" /\ t.marks = {}
        /\ b.exists =>
              /\ t.marks \in {b.marks, b.marks \cup {p}}
              /\ pc[p] \in {"dirty", "dirtyTemp"} =>
                    \/ t.deny = b.deny \/ t.deny \in Reasons
                    \/ t.deny = "none" /\ b.deny \in HookReasons /\ t.marks = b.marks /\ op[p] = "install"
              /\ pc[p] \in {"sync", "syncTemp", "loaded"} =>
                    t.deny = b.deny /\ (op[p] # "mint" => t.marks = b.marks)

\* What an install replaced is remembered as long as somebody is at work on it;
\* until then the session is the fresh one.
Plans ==
    /\ \A p \in Procs : op[p] = "install" => p \in Clis
    /\ \A p \in Procs : pc[p] \in Working => Planned(p)
    /\ lost # {} => /\ \E p \in Procs : lock = p /\ pc[p] \in Working
                    /\ session # Absent /\ session.deny = "none"

AtomicInv == StoreInv /\ Plans

\* What an operation does to the reason of a lockdown: nothing, it sets one, or
\* it is an install that lifts one for which hook files are the reason.
LEMMA RunDeny ==
    ASSUME TypeOK, NEW s \in States, NEW p \in Procs, NEW o
    PROVE  LET t == RunOp(o, s, p) IN
           \/ t.deny = s.deny \/ t.deny \in Reasons
           \/ t.deny = "none" /\ s.deny \in HookReasons /\ t.marks = s.marks /\ o = "install"
<1>1. /\ Mark(s, p) \in States /\ Mark(s, p).deny = s.deny
      /\ Baselined(s) \in States /\ Baselined(s).deny = s.deny /\ Baselined(s).marks = s.marks
  BY UpdateTypes DEF Mark, Baselined, States
<1>2. ASSUME NEW u \in States, NEW r \in Reasons \cup {"none"}
      PROVE  SetDenyAll(u, r).deny = r /\ SetDenyAll(u, r).marks = u.marks
  BY DEF SetDenyAll, States
<1>3. {"session", "lease", "hooks"} \subseteq Reasons /\ s.sealed \in BOOLEAN /\ "none" \notin Reasons
  BY DEF Reasons, OtherReasons, HookReasons, States
<1>4. LET t == PreEvaluate(s, p) IN t.deny = s.deny \/ t.deny \in Reasons
  BY <1>1, <1>2, <1>3 DEF PreEvaluate
<1>5. LET t == PostEvaluate(s, p) IN t.deny = s.deny \/ t.deny \in Reasons
  <2>1. [Mark(s, p) EXCEPT !.hookHash = {hookFile}].deny = s.deny
    BY <1>1 DEF States
  <2>2. CASE ~s.sealed
    BY <1>2, <1>3, <2>2 DEF PostEvaluate
  <2>3. CASE s.sealed
    BY <1>1, <1>2, <1>3, <2>1, <2>3 DEF PostEvaluate
  <2>4. QED
    BY <1>3, <2>2, <2>3
<1>6. LET t == RebaselineProject(s) IN
      t.deny = s.deny \/ (t.deny = "none" /\ s.deny \in HookReasons /\ t.marks = s.marks)
  BY <1>1, <1>2 DEF RebaselineProject
<1>7. [s EXCEPT !.leaseHash = {lease}].deny = s.deny
  BY DEF States
<1>8. QED
  BY <1>1, <1>4, <1>5, <1>6, <1>7 DEF RunOp

\* Without doctors only one process is inside the lock.
LEMMA Alone ==
    ASSUME StoreInv, Doctors = {}, NEW p \in Procs, pc[p] \in Inside
    PROVE  lock = p /\ \A q \in Procs \ {p} : pc[q] \notin Inside
BY WorkerHolds

\* A step of the process inside the lock keeps the plans when it keeps its own.
LEMMA PlanKept ==
    ASSUME AtomicInv, Doctors = {}, NEW p \in Procs, pc[p] \in Inside, lock' = lock,
           \A q \in Procs \ {p} : pc'[q] = pc[q] /\ op'[q] = op[q],
           lost' \in {lost, {}}, session' = session \/ lost' = {},
           pc[p] \in Working => pc'[p] \in Working,
           op'[p] = "install" => op[p] = "install", pc'[p] \in Working => Planned(p)'
    PROVE  Plans'
<1>1. lock = p /\ \A q \in Procs \ {p} : pc'[q] \notin Inside /\ op'[q] = op[q]
  BY Alone DEF AtomicInv
<1>2. \A q \in Procs : op'[q] = "install" => q \in Clis
  BY <1>1 DEF AtomicInv, Plans
<1>3. \A q \in Procs : pc'[q] \in Working => Planned(q)'
  BY <1>1 DEF Inside
<1>4. lost' # {} => lock' = p /\ pc'[p] \in Working /\ session' # Absent /\ session'.deny = "none"
  BY <1>1 DEF AtomicInv, Plans
<1>5. QED
  BY <1>2, <1>3, <1>4 DEF Plans

\* Before the process inside the lock has loaded anything, nothing is lost.
LEMMA NothingLost ==
    ASSUME AtomicInv, Doctors = {}, NEW p \in Procs, pc[p] \in {"locked", "lease"}
    PROVE  lost = {} /\ Bases = {Contents} /\ pc[p] \in Inside /\ pc[p] \notin Working
<1>1. pc[p] \in Inside /\ pc[p] \notin Working
  BY DEF Inside, Working
<1>2. lock = p
  BY <1>1, Alone DEF AtomicInv
<1>3. QED
  BY <1>1, <1>2 DEF AtomicInv, Plans, Bases

\* A process outside the lock that stays there keeps the plans, when what the
\* operation at work applies to stays the same.
LEMMA PlanAside ==
    ASSUME AtomicInv, Doctors = {}, NEW p \in Procs, pc[p] \notin Inside, pc'[p] \notin Inside, lock' = lock,
           \A q \in Procs \ {p} : pc'[q] = pc[q] /\ op'[q] = op[q] /\ local'[q] = local[q],
           op'[p] = "install" => p \in Clis,
           \A q \in Procs : pc[q] \in Working => Bases' = Bases,
           \/ session' = session /\ lost' = lost
           \/ /\ session' # Absent /\ session'.deny = "none"
              /\ lost' # {} => \E q \in Procs : lock = q /\ pc[q] \in Working
    PROVE  Plans'
<1>1. \A q \in Procs : pc'[q] \in Working => q # p /\ pc[q] \in Working
  BY DEF Inside
<1>2. ASSUME NEW q \in Procs, pc'[q] \in Working PROVE Planned(q)'
  <2>1. q # p /\ pc[q] \in Working /\ Planned(q) /\ Bases' = Bases
    BY <1>1, <1>2 DEF AtomicInv, Plans
  <2>2. pc'[q] = pc[q] /\ op'[q] = op[q] /\ local'[q] = local[q]
    BY <2>1
  <2>3. QED
    BY <2>1, <2>2 DEF Planned
<1>3. \A q \in Procs : op'[q] = "install" => q \in Clis
  BY DEF AtomicInv, Plans
<1>4. lost' # {} => /\ \E q \in Procs : lock' = q /\ pc'[q] \in Working
                   /\ session' # Absent /\ session'.deny = "none"
  <2>1. \A q \in Procs : pc[q] \in Working => q # p /\ pc'[q] = pc[q]
    BY DEF Inside
  <2>2. QED
    BY <2>1 DEF AtomicInv, Plans
<1>5. QED
  BY <1>2, <1>3, <1>4 DEF Plans

\* A process that leaves without a save has no plan.
LEMMA PlanDropped ==
    ASSUME AtomicInv, Doctors = {}, NEW p \in Procs, Leave(p), session' = session \/ lock = p
    PROVE  Plans'
<1>1. /\ pc'[p] = "idle" /\ op'[p] = "none"
      /\ \A q \in Procs \ {p} : pc'[q] = pc[q] /\ op'[q] = op[q] /\ local'[q] = local[q]
  BY DEF Leave, AtomicInv, StoreInv, TypeOK
<1>2. pc'[p] \notin Inside
  BY <1>1 DEF Inside, Working
<1>3. CASE lock = p
  <2>1. lost' = {} /\ \A q \in Procs \ {p} : pc'[q] \notin Working
    <3>1. pc[p] \in Inside
      BY <1>3 DEF AtomicInv, StoreInv, Locked
    <3>2. QED
      BY <1>1, <1>3, <3>1, Alone DEF Leave, AtomicInv, Inside
  <2>2. QED
    BY <1>1, <1>2, <2>1 DEF Plans, AtomicInv, Inside
<1>4. CASE lock # p
  <2>1. lock' = lock /\ lost' = lost /\ session' = session /\ pc[p] \notin Inside
    BY <1>4, Alone DEF Leave, AtomicInv
  <2>2. Bases' = Bases
    BY <2>1 DEF Bases, Contents
  <2>3. QED
    BY <1>1, <1>2, <2>1, <2>2, PlanAside
<1>5. QED
  BY <1>3, <1>4

\* Every step keeps the plans.
LEMMA PlansKeep ==
    ASSUME AtomicInv, Doctors = {}, "session" \notin Foreigners, Next
    PROVE  Plans'
<1> USE ProcsAssumption
<1>0. StoreInv /\ TypeOK /\ Loaded /\ Installing /\ Plans
  BY DEF AtomicInv, StoreInv, Plans
<1>1. ASSUME NEW p \in Procs, NEW o \in Ops, Acquire(p, o) PROVE Plans'
  <2>1. /\ pc' = [pc EXCEPT ![p] = "locked"] /\ op' = [op EXCEPT ![p] = o]
        /\ UNCHANGED <<session, local, lost>> /\ lock = NoProc
    BY <1>1 DEF Acquire, Goto
  <2>2. \A q \in Procs : pc[q] \notin Inside
    BY <1>0, <2>1, Alone
  <2>3. \A q \in Procs : pc'[q] \notin Working
    BY <1>0, <2>1, <2>2 DEF TypeOK, Working, Inside
  <2>4. lost = {}
    BY <1>0, <2>1 DEF Plans
  <2>5. o = "install" => p \in Clis
    BY <1>0, <1>1 DEF Acquire, Begins, Installing, Installs, OpsOf, HookOps, CliOps
  <2>6. QED
    BY <1>0, <2>1, <2>3, <2>4, <2>5 DEF Plans, TypeOK
<1>2. ASSUME NEW p \in Procs, LoadLease(p) PROVE Plans'
  <2>1. /\ pc' = [pc EXCEPT ![p] = "lease"] /\ op' = [op EXCEPT ![p] = op[p]] /\ pc[p] = "locked"
        /\ UNCHANGED <<session, lock, lost>>
    BY <1>0, <1>2 DEF LoadLease, Goto, TypeOK
  <2>2. QED
    BY <1>0, <2>1, PlanKept DEF TypeOK, Working, Inside
<1>3. ASSUME NEW p \in Procs, LoadMissing(p) PROVE Plans'
  <2>1. pc[p] \in {"locked", "lease"} /\ session = Absent /\ session' = session
    BY <1>3 DEF LoadMissing, ReadyToLoad
  <2>0. lost = {} /\ Bases = {Contents} /\ pc[p] \in Inside /\ pc[p] \notin Working /\ ~Contents.exists
    BY <2>1, NothingLost DEF Contents
  <2>2. CASE Leave(p)
    BY <2>1, <2>2, PlanDropped
  <2>3. CASE op[p] \in {"pre", "raise"} /\ local' = [local EXCEPT ![p] = SessionStart] /\ Goto(p, "sync")
             /\ UNCHANGED <<lock, op, lost>>
    <3>1. local'[p] = SessionStart /\ pc'[p] = "sync" /\ op'[p] = op[p] /\ Bases' = Bases
      BY <1>0, <2>1, <2>3 DEF Goto, TypeOK, Bases, Contents
    <3>2. Planned(p)'
      BY <1>0, <2>0, <2>3, <3>1, FreshTypes DEF Planned
    <3>3. QED
      BY <1>0, <2>0, <2>1, <2>3, <3>2, PlanKept DEF Goto, Plans, TypeOK
  <2>4. CASE op[p] = "approve" /\ local' = [local EXCEPT ![p] = NewState] /\ Goto(p, "loaded")
             /\ UNCHANGED <<lock, op, lost>>
    <3>1. local'[p] = NewState /\ pc'[p] = "loaded" /\ op'[p] = op[p] /\ Bases' = Bases
      BY <1>0, <2>1, <2>4 DEF Goto, TypeOK, Bases, Contents
    <3>2. Planned(p)'
      BY <1>0, <2>0, <2>4, <3>1, FreshTypes DEF Planned
    <3>3. QED
      BY <1>0, <2>0, <2>1, <2>4, <3>2, PlanKept DEF Goto, Plans, TypeOK
  <2>5. QED
    BY <1>3, <2>2, <2>3, <2>4 DEF LoadMissing
<1>4. ASSUME NEW p \in Procs, LoadSession(p) PROVE Plans'
  <2>1. /\ session \in States /\ UNCHANGED <<session, op, lock, lost>> /\ pc[p] \in {"locked", "lease"}
        /\ session # Absent
    BY <1>0, <1>4 DEF LoadSession, ReadyToLoad, TypeOK
  <2>0. lost = {} /\ Bases = {Contents} /\ pc[p] \in Inside /\ pc[p] \notin Working /\ Bases' = Bases
    BY <2>1, NothingLost DEF Bases, Contents
  <2>2. PICK s \in {session, [session EXCEPT !.leaseHash = {held[p]}]}, l \in {"sync", "loaded"} :
           local' = [local EXCEPT ![p] = s] /\ pc' = [pc EXCEPT ![p] = l]
    BY <1>4 DEF LoadSession, Goto
  <2>3. local'[p] = s /\ pc'[p] = l /\ op'[p] = op[p]
    BY <1>0, <2>1, <2>2 DEF TypeOK
  <2>4. s.marks = session.marks /\ s.deny = session.deny
    BY <2>1, <2>2 DEF States
  <2>a. Bases' = {Contents} /\ Contents.exists /\ Contents.marks = session.marks /\ Contents.deny = session.deny
    BY <2>0, <2>1 DEF Contents
  <2>5. Planned(p)'
    <3>1. local'[p].marks = session.marks /\ local'[p].deny = session.deny /\ pc'[p] \in {"sync", "loaded"}
      BY <2>2, <2>3, <2>4
    <3>2. QED
      BY <2>a, <3>1 DEF Planned
  <2>6. QED
    BY <1>0, <2>0, <2>1, <2>2, <2>5, PlanKept DEF Plans, TypeOK
<1>5. ASSUME NEW p \in Procs, Run(p) PROVE Plans'
  <2>1. /\ pc[p] = "loaded" /\ UNCHANGED <<session, op, lock, lost>> /\ pc' = [pc EXCEPT ![p] = "dirty"]
        /\ local[p] \in States /\ pc[p] \in Inside /\ pc[p] \in Working
    BY <1>0, <1>5 DEF Run, Loaded, Goto, Working, Inside
  <2>0. Bases' = Bases
    BY <2>1 DEF Bases, Contents
  <2>2. local'[p] = RunOp(op[p], local[p], p) /\ pc'[p] = "dirty" /\ op'[p] = op[p]
    BY <1>0, <1>5, <2>1 DEF Run, TypeOK
  <2>3. Planned(p)
    BY <1>0, <2>1 DEF Plans, Working
  <2>4. /\ local'[p].marks \in {local[p].marks, local[p].marks \cup {p}}
        /\ \/ local'[p].deny = local[p].deny \/ local'[p].deny \in Reasons
           \/ local'[p].deny = "none" /\ local[p].deny \in HookReasons
                /\ local'[p].marks = local[p].marks /\ op[p] = "install"
    BY <1>0, <2>1, <2>2, RunTypes, RunDeny
  <2>5. Planned(p)'
    <3>1. ASSUME NEW b \in Bases, ~b.exists
          PROVE  local'[p].deny = "none" /\ local'[p].marks = {p} /\ op'[p] = "approve"
      <4>1. op[p] = "approve" /\ local[p].marks = {} /\ local[p].deny = "none"
        BY <2>1, <2>3, <3>1 DEF Planned
      <4>2. local'[p] = Mark(local[p], p)
        BY <2>2, <4>1 DEF RunOp
      <4>3. local'[p].marks = {p} /\ local'[p].deny = "none"
        BY <2>1, <4>1, <4>2 DEF Mark, States
      <4>4. QED
        BY <2>2, <4>1, <4>3
    <3>2. ASSUME NEW b \in Bases, b.exists
          PROVE  /\ local'[p].marks \in {b.marks, b.marks \cup {p}}
                 /\ \/ local'[p].deny = b.deny \/ local'[p].deny \in Reasons
                    \/ local'[p].deny = "none" /\ b.deny \in HookReasons /\ local'[p].marks = b.marks /\ op'[p] = "install"
      <4>1. /\ local[p].marks \in {b.marks, b.marks \cup {p}} /\ local[p].deny = b.deny
            /\ op[p] = "install" => local[p].marks = b.marks
        BY <2>1, <2>3, <3>2 DEF Planned
      <4>2. local'[p].marks \in {b.marks, b.marks \cup {p}}
        BY <2>4, <4>1
      <4>3. QED
        BY <2>2, <2>4, <4>1, <4>2
    <3>3. QED
      BY <2>0, <2>2, <3>1, <3>2 DEF Planned
  <2>6. QED
    BY <1>0, <2>1, <2>2, <2>5, PlanKept DEF Plans, TypeOK, Working
<1>6. ASSUME NEW p \in Procs, NEW e \in Entries, AllowEntry(p, e) PROVE Plans'
  <2>1. pc[p] = "locked" /\ session' = session /\ op[p] = "allow"
    BY <1>6 DEF AllowEntry
  <2>2. CASE Leave(p)
    BY <2>1, <2>2, PlanDropped
  <2>3. CASE session # Absent /\ local' = [local EXCEPT ![p] = session] /\ Goto(p, "loaded") /\ UNCHANGED <<lock, op, lost>>
    <3>0. lost = {} /\ Bases = {Contents} /\ pc[p] \in Inside /\ pc[p] \notin Working /\ Bases' = Bases
      BY <2>1, <2>3, NothingLost DEF Bases, Contents
    <3>1. local'[p] = session /\ pc'[p] = "loaded" /\ op'[p] = op[p]
      BY <1>0, <2>3 DEF Goto, TypeOK
    <3>2. Planned(p)'
      <4>1. Contents.exists /\ Contents.marks = session.marks /\ Contents.deny = session.deny
        BY <2>3 DEF Contents
      <4>2. QED
        BY <3>0, <3>1, <4>1 DEF Planned
    <3>3. QED
      BY <1>0, <2>1, <2>3, <3>0, <3>2, PlanKept DEF Goto, Plans, TypeOK
  <2>4. QED
    BY <1>6, <2>2, <2>3 DEF AllowEntry
<1>7. ASSUME NEW p \in Procs, NEW e \in Entries, Mint(p, e) PROVE Plans'
  <2> DEFINE s == PostEvaluate(local[p], p)
  <2>1. /\ pc[p] = "loaded" /\ op[p] = "post" /\ s.deny = "none" /\ UNCHANGED <<session, lock, lost>>
        /\ pc' = [pc EXCEPT ![p] = "sync"] /\ op' = [op EXCEPT ![p] = "mint"] /\ local[p] \in States
        /\ local' = [local EXCEPT ![p] = [s EXCEPT !.leaseHash = {lease'}]]
        /\ pc[p] \in Inside
    BY <1>0, <1>7 DEF Mint, Loaded, Goto, Working, Inside
  <2>0. Bases' = Bases
    BY <2>1 DEF Bases, Contents
  <2>2. RunOp("post", local[p], p) = s
    BY DEF RunOp
  <2>3. s \in States /\ s.marks \in {local[p].marks, local[p].marks \cup {p}} /\ s.deny \in {local[p].deny} \cup Reasons
    BY <1>0, <2>1, <2>2, RunTypes, RunDeny
  <2> HIDE DEF s
  <2>4. Planned(p)
    BY <1>0, <2>1 DEF Plans, Working
  <2>5. local'[p].marks = s.marks /\ local'[p].deny = "none" /\ pc'[p] = "sync" /\ op'[p] = "mint"
    BY <1>0, <2>1, <2>3 DEF TypeOK, States
  <2>6. \A b \in Bases : b.exists
    BY <2>1, <2>4 DEF Planned
  <2>7. "none" \notin Reasons
    BY DEF Reasons, HookReasons, OtherReasons
  <2>8. Planned(p)'
    BY <2>0, <2>1, <2>3, <2>4, <2>5, <2>6, <2>7 DEF Planned
  <2>9. QED
    BY <1>0, <2>1, <2>5, <2>8, PlanKept DEF Working, TypeOK
<1>8. ASSUME NEW p \in Procs, WriteTemp(p) PROVE Plans'
  <2>1. CASE pc[p] = "fresh"
    <3>1. /\ pc'[p] = "freshTemp" /\ UNCHANGED <<session, lost, lock, op, local>>
          /\ \A q \in Procs \ {p} : pc'[q] = pc[q]
      BY <1>0, <1>8, <2>1 DEF WriteTemp, Goto, TypeOK
    <3>2. pc[p] \notin Inside /\ pc'[p] \notin Inside /\ Bases' = Bases
      BY <2>1, <3>1 DEF Inside, Working, Bases, Contents
    <3>3. QED
      BY <1>0, <3>1, <3>2, PlanAside DEF Plans
  <2>2. CASE pc[p] # "fresh"
    <3>1. PICK l \in {"syncTemp", "dirtyTemp"} :
            /\ pc' = [pc EXCEPT ![p] = l] /\ UNCHANGED <<session, op, local, lock, lost>>
            /\ l = "syncTemp" => pc[p] = "sync"
            /\ l = "dirtyTemp" => pc[p] = "dirty"
      BY <1>8, <2>2 DEF WriteTemp, Goto
    <3>2. Planned(p) /\ pc'[p] = l /\ pc[p] \in Inside /\ l \in Working /\ Bases' = Bases
      BY <1>0, <3>1 DEF Plans, Working, Inside, TypeOK, Bases, Contents
    <3>3. Planned(p)'
      BY <3>1, <3>2 DEF Planned
    <3>4. QED
      BY <1>0, <3>1, <3>2, <3>3, PlanKept DEF Plans, TypeOK
  <2>3. QED
    BY <2>1, <2>2
<1>9. ASSUME NEW p \in Procs, Rename(p) PROVE Plans'
  <2>1. local[p] \in States /\ session' = Sealed(local[p]) /\ pc[p] \in Inside
    BY <1>0, <1>9 DEF Rename, Loaded, Inside, Working
  <2>2. CASE Leave(p)
    BY <1>0, <2>1, <2>2, PlanDropped, Alone
  <2>3. CASE local' = [local EXCEPT ![p] = Sealed(local[p])] /\ Goto(p, "loaded") /\ UNCHANGED <<lock, op>> /\ lost' = {}
    <3>1. local'[p] = session' /\ pc'[p] = "loaded" /\ op'[p] = op[p]
      BY <1>0, <2>1, <2>3 DEF Goto, TypeOK
    <3>2. session' # Absent
      BY <1>0, <2>1, UpdateTypes, NotAbsent
    <3>3. Bases' = {Contents'} /\ Contents'.exists /\ Contents'.marks = session'.marks /\ Contents'.deny = session'.deny
      BY <2>3, <3>2 DEF Bases, Contents
    <3>4. Planned(p)'
      BY <3>1, <3>3 DEF Planned
    <3>5. QED
      BY <1>0, <2>1, <2>3, <3>1, <3>4, PlanKept DEF Goto, Plans, TypeOK, Working
  <2>4. QED
    BY <1>9, <2>2, <2>3 DEF Rename
<1>10. ASSUME NEW p \in Procs, SaveFails(p) \/ Crash(p) \/ InstallEnds(p) \/ RebaselineSkips(p) PROVE Plans'
  BY <1>10, PlanDropped DEF SaveFails, Crash, InstallEnds, RebaselineSkips
<1>11. ASSUME NEW p \in Procs, MintSaveFails(p) PROVE Plans'
  <2>1. /\ pc[p] = "sync" /\ pc' = [pc EXCEPT ![p] = "loaded"] /\ UNCHANGED <<session, op, local, lock, lost>>
        /\ op[p] = "mint"
    BY <1>11 DEF MintSaveFails, Goto
  <2>2. Planned(p) /\ pc'[p] = "loaded" /\ pc[p] \in Inside /\ Bases' = Bases
    BY <1>0, <2>1 DEF Plans, Working, Inside, TypeOK, Bases, Contents
  <2>3. Planned(p)'
    BY <2>1, <2>2 DEF Planned
  <2>4. QED
    BY <1>0, <2>1, <2>2, <2>3, PlanKept DEF Plans, TypeOK, Working
<1>12. ASSUME EditLease \/ EditHooks PROVE Plans'
  BY <1>0, <1>12 DEF EditLease, EditHooks, Plans, Planned, Bases, Contents
<1>13. ASSUME NEW p \in Procs, InstallFiles(p) \/ InstallLease(p) \/ InstallFresh(p) PROVE Plans'
  <2>1. /\ pc[p] \in {"idle", "files", "leased"} /\ pc'[p] \in {"files", "leased", "fresh"}
        /\ \A q \in Procs \ {p} : pc'[q] = pc[q] /\ op'[q] = op[q] /\ local'[q] = local[q]
        /\ UNCHANGED <<session, lock, lost>>
    BY <1>0, <1>13 DEF InstallFiles, InstallLease, InstallFresh, Goto, TypeOK
  <2>2. op'[p] = "install" => p \in Clis
    BY <1>0, <1>13 DEF InstallFiles, InstallLease, InstallFresh, Plans
  <2>3. pc[p] \notin Inside /\ pc'[p] \notin Inside /\ Bases' = Bases
    BY <2>1 DEF Inside, Working, Bases, Contents
  <2>4. QED
    BY <2>1, <2>2, <2>3, PlanAside
<1>14. ASSUME NEW p \in Procs, InstallSave(p) PROVE Plans'
  <2>1. /\ pc[p] = "freshTemp" /\ pc'[p] = "refreshed" /\ lock' = lock /\ session' = Sealed(local[p])
        /\ \A q \in Procs \ {p} : pc'[q] = pc[q] /\ op'[q] = op[q] /\ local'[q] = local[q]
        /\ op'[p] = "install" => p \in Clis
    BY <1>0, <1>14 DEF InstallSave, Goto, TypeOK, Plans
  <2>2. lost' = IF lost = {} /\ \E q \in Procs : lock = q /\ pc[q] \in Working THEN {Contents} ELSE lost
    BY <1>14 DEF InstallSave
  <2>3. local[p] \in States /\ local[p].deny = "none"
    BY <1>0, <2>1 DEF Installing
  <2>4. session' # Absent /\ session'.deny = "none"
    <3>1. Sealed(local[p]) \in States
      BY <1>0, <2>3, UpdateTypes
    <3>2. session'.deny = "none"
      BY <2>1, <2>3 DEF Sealed, States
    <3>3. QED
      BY <2>1, <3>1, <3>2, NotAbsent
  <2>5. pc[p] \notin Inside /\ pc'[p] \notin Inside
    BY <2>1 DEF Inside, Working
  <2>6. lost' # {} => \E q \in Procs : lock = q /\ pc[q] \in Working
    BY <1>0, <2>2 DEF Plans
  <2>7. ASSUME NEW q \in Procs, pc[q] \in Working PROVE Bases' = Bases
    <3>1. lock = q
      BY <1>0, <2>7, Alone DEF Inside
    <3>2. CASE lost = {}
      BY <2>2, <2>7, <3>1, <3>2 DEF Bases
    <3>3. CASE lost # {}
      BY <2>2, <3>3 DEF Bases
    <3>4. QED
      BY <3>2, <3>3
  <2>8. QED
    BY <2>1, <2>4, <2>5, <2>6, <2>7, PlanAside
<1>15. QED
  BY <1>1, <1>2, <1>3, <1>4, <1>5, <1>6, <1>7, <1>8, <1>9, <1>10, <1>11, <1>12, <1>13, <1>14 DEF Next, EditSession

\* Without doctors and edits of the session, the plans hold in every behaviour.
LEMMA AtomicInvariant ==
    ASSUME Doctors = {}, "session" \notin Foreigners
    PROVE  Spec => []AtomicInv
<1>1. Init => Plans
  BY DEF Init, Plans, Working
<1>2. StoreInv /\ Plans /\ [Next]_vars => Plans'
  <2> SUFFICES ASSUME AtomicInv, [Next]_vars PROVE Plans'
    BY DEF AtomicInv
  <2>1. CASE Next
    BY <2>1, PlansKeep
  <2>2. CASE UNCHANGED vars
    BY <2>2 DEF vars, AtomicInv, Plans, Planned, Bases, Contents
  <2>3. QED
    BY <2>1, <2>2
<1>3. QED
  BY <1>1, <1>2, StoreInvariant, PTL DEF Spec, AtomicInv

\* Without edits of the session, only a save changes it.
LEMMA OnlyRenames ==
    ASSUME "session" \notin Foreigners, Next, session' # session
    PROVE  \E p \in Procs : Rename(p) \/ InstallSave(p)
BY OnlySaves DEF EditSession

\* What was replaced under an operation is forgotten, or an install replaces
\* something.
LEMMA LostFades ==
    ASSUME Next
    PROVE  lost' \in {lost, {}} \/ \E p \in Procs : InstallSave(p)
<1>1. ASSUME NEW p \in Procs, Leave(p) PROVE lost' \in {lost, {}}
  BY <1>1 DEF Leave
<1>2. ASSUME NEW p \in Procs, NEW o \in Ops, Acquire(p, o) PROVE lost' = lost
  BY <1>2 DEF Acquire
<1>3. ASSUME NEW p \in Procs, LoadLease(p) \/ LoadMissing(p) \/ LoadSession(p) \/ Run(p) PROVE lost' \in {lost, {}}
  BY <1>1, <1>3 DEF LoadLease, LoadMissing, LoadSession, Run
<1>4. ASSUME NEW p \in Procs, NEW e \in Entries, AllowEntry(p, e) \/ Mint(p, e) PROVE lost' \in {lost, {}}
  BY <1>1, <1>4 DEF AllowEntry, Mint
<1>5. ASSUME NEW p \in Procs, WriteTemp(p) \/ Rename(p) \/ SaveFails(p) \/ MintSaveFails(p) \/ Crash(p)
      PROVE  lost' \in {lost, {}}
  BY <1>1, <1>5 DEF WriteTemp, Rename, SaveFails, MintSaveFails, Crash
<1>6. ASSUME NEW p \in Procs,
             InstallFiles(p) \/ InstallLease(p) \/ InstallFresh(p) \/ InstallEnds(p) \/ RebaselineSkips(p)
      PROVE  lost' \in {lost, {}}
  BY <1>1, <1>6 DEF InstallFiles, InstallLease, InstallFresh, InstallEnds, RebaselineSkips
<1>7. ASSUME NEW d \in Doctors, DoctorLoad(d) \/ DoctorRepair(d) \/ DoctorMerge(d) PROVE lost' = lost
  BY <1>7 DEF DoctorLoad, DoctorRepair, DoctorMerge
<1>8. ASSUME EditSession \/ EditLease \/ EditHooks PROVE lost' = lost
  BY <1>8 DEF EditSession, EditLease, EditHooks
<1>9. QED
  BY <1>2, <1>3, <1>4, <1>5, <1>6, <1>7, <1>8 DEF Next

\* What a save under the lock makes of the session.
LEMMA RenameEffect ==
    ASSUME AtomicInv, Doctors = {}, NEW p \in Procs, Rename(p)
    PROVE  /\ session' # Absent /\ session'.marks = local[p].marks /\ session'.deny = local[p].deny
           /\ pc[p] \in {"syncTemp", "dirtyTemp"} /\ pc'[p] # pc[p] /\ Planned(p) /\ lost' = {}
<1>1. local[p] \in States /\ session' = Sealed(local[p]) /\ pc[p] \in Working
  BY DEF Rename, AtomicInv, StoreInv, Loaded, Working
<1>2. session' # Absent
  BY <1>1, UpdateTypes, NotAbsent DEF AtomicInv, StoreInv
<1>3. lock = p
  BY <1>1, Alone DEF AtomicInv, Inside
<1>4. lost' = {} /\ pc[p] \in {"syncTemp", "dirtyTemp"} /\ pc'[p] # pc[p]
  BY <1>3 DEF Rename, Leave, Goto, AtomicInv, StoreInv, TypeOK
<1>5. QED
  BY <1>1, <1>2, <1>4 DEF Sealed, States, AtomicInv, Plans

\* The fresh session of an install.
LEMMA InstallEffect ==
    ASSUME AtomicInv, NEW p \in Procs, InstallSave(p)
    PROVE  /\ session' # Absent /\ session'.marks = {} /\ session'.deny = "none"
           /\ p \in Clis /\ op[p] = "install" /\ pc[p] = "freshTemp" /\ pc'[p] # pc[p]
<1>1. local[p] \in States /\ local[p].marks = {} /\ local[p].deny = "none" /\ pc[p] = "freshTemp" /\ p \in Clis
      /\ op[p] = "install"
  BY DEF InstallSave, AtomicInv, StoreInv, Installing, Installs, Replacing
<1>2. session' = Sealed(local[p]) /\ pc'[p] = "refreshed"
  BY DEF InstallSave, Goto, AtomicInv, StoreInv, TypeOK
<1>3. session' # Absent
  BY <1>1, <1>2, UpdateTypes, NotAbsent DEF AtomicInv, StoreInv
<1>4. QED
  BY <1>1, <1>2, <1>3 DEF Sealed, States

\* The store implements the atomic one, for any number of hooks and commands,
\* any lease, and whatever others do to the lease and the hook files: a save is
\* one step of AtomicSession, and every other step, every crash and failed save
\* included, is a stutter or gives up what an install replaced (WithSessionLock
\* around Load, mutate, Save, and the install's SessionStart without it).
THEOREM StoreIsAtomic ==
    ASSUME Doctors = {}, "session" \notin Foreigners
    PROVE  Spec => AtomicUpdates
<1>1. Init => Atomic!Init
  BY DEF Init, Atomic!Init, Absent
<1>2. AtomicInv /\ [Next]_vars => [Atomic!Next]_(Atomic!vars)
  <2> SUFFICES ASSUME AtomicInv, Next
               PROVE  Atomic!Next \/ UNCHANGED Atomic!vars
    BY DEF vars, Atomic!vars
  <2>1. CASE \E p \in Procs : InstallSave(p)
    <3>1. PICK p \in Procs : InstallSave(p)
      BY <2>1
    <3>2. session' # Absent /\ session'.marks = {} /\ session'.deny = "none"
      BY <3>1, InstallEffect
    <3>3. Atomic!Base = Bases
      BY DEF Atomic!Base, Atomic!Now, Bases, Contents
    <3>4. lost' \in {{}, Bases}
      BY <3>1 DEF InstallSave, Bases
    <3>5. Atomic!Replace
      BY <3>2, <3>3, <3>4 DEF Atomic!Replace
    <3>6. QED
      BY <3>5 DEF Atomic!Next
  <2>2. CASE session' # session /\ ~\E p \in Procs : InstallSave(p)
    <3>1. PICK p \in Procs : Rename(p)
      BY <2>2, OnlyRenames
    <3>2. /\ session' # Absent /\ session'.marks = local[p].marks /\ session'.deny = local[p].deny
          /\ Planned(p) /\ pc[p] \in {"syncTemp", "dirtyTemp"} /\ lost' = {}
      BY <3>1, RenameEffect
    <3>3. PICK b \in Bases : TRUE
      BY DEF Bases
    <3>4. b \in Atomic!Base
      BY <3>3 DEF Atomic!Base, Atomic!Now, Bases, Contents
    <3>5. Atomic!Create(b) \/ Atomic!Keep(b) \/ Atomic!Mutate(b) \/ Atomic!Lockdown(b) \/ Atomic!Lift(b)
      <4>1. CASE ~b.exists
        <5>1. session'.deny = "none" /\ session'.marks \in {{}, {p}}
          BY <3>2, <3>3, <4>1 DEF Planned
        <5>2. QED
          BY <3>2, <4>1, <5>1 DEF Atomic!Create
      <4>2. CASE b.exists
        <5>1. /\ session'.marks \in {b.marks, b.marks \cup {p}}
              /\ \/ session'.deny = b.deny \/ session'.deny \in Reasons
                 \/ session'.deny = "none" /\ b.deny \in HookReasons /\ session'.marks = b.marks
          BY <3>2, <3>3, <4>2 DEF Planned
        <5>2. CASE session'.deny = b.deny
          BY <3>2, <4>2, <5>1, <5>2 DEF Atomic!Mutate, Atomic!Keep
        <5>3. CASE session'.deny \in Reasons
          BY <3>2, <4>2, <5>1, <5>3 DEF Atomic!Lockdown, Atomic!Reasons, Reasons
        <5>4. CASE session'.deny = "none" /\ b.deny \in HookReasons /\ session'.marks = b.marks
          BY <3>2, <4>2, <5>4 DEF Atomic!Lift
        <5>5. QED
          BY <5>1, <5>2, <5>3, <5>4
      <4>3. QED
        BY <4>1, <4>2
    <3>6. Atomic!Operate
      BY <3>2, <3>4, <3>5 DEF Atomic!Operate
    <3>7. QED
      BY <3>6 DEF Atomic!Next
  <2>3. CASE session' = session /\ ~\E p \in Procs : InstallSave(p)
    <3>1. lost' \in {lost, {}}
      BY <2>3, LostFades
    <3>2. CASE lost' = lost
      BY <2>3, <3>2 DEF Atomic!vars
    <3>3. CASE lost' = {}
      BY <2>3, <3>3 DEF Atomic!Abandon, Atomic!Next
    <3>4. QED
      BY <3>1, <3>2, <3>3
  <2>4. QED
    BY <2>1, <2>2, <2>3
<1>3. QED
  BY <1>1, <1>2, AtomicInvariant, PTL DEF Spec, AtomicUpdates, Atomic!Spec

\* A lockdown ends only through a step of an install: its rebaseline, and then
\* only one that hook files caused, or its fresh session, whatever caused it;
\* no stale copy is saved over it (RebaselineProject, SessionStart,
\* WithSessionLock).
THEOREM LockdownsStay ==
    ASSUME Doctors = {}, "session" \notin Foreigners
    PROVE  Spec => LockdownSticky
<1>1. AtomicInv /\ [Next]_vars =>
        [session # Absent /\ session.deny # "none" /\ session'.deny = "none" =>
            \/ \E p \in Clis : op[p] = "install" /\ pc'[p] # pc[p]
                                /\ (session.deny \in HookReasons \/ pc[p] = "freshTemp")
            \/ \E d \in Doctors : op[d] = "recover"]_vars
  <2> SUFFICES ASSUME AtomicInv, Next, session # Absent, session.deny # "none", session'.deny = "none"
               PROVE  \E p \in Clis : op[p] = "install" /\ pc'[p] # pc[p]
                                /\ (session.deny \in HookReasons \/ pc[p] = "freshTemp")
    OBVIOUS
  <2>1. PICK p \in Procs : Rename(p) \/ InstallSave(p)
    BY OnlyRenames
  <2>2. CASE InstallSave(p)
    BY <2>2, InstallEffect
  <2>3. CASE Rename(p)
    <3>1. session'.deny = local[p].deny /\ Planned(p) /\ pc[p] \in {"syncTemp", "dirtyTemp"} /\ pc'[p] # pc[p]
      BY <2>3, RenameEffect
    <3>2. "none" \notin Reasons
      BY DEF Reasons, HookReasons, OtherReasons
    <3>3. Bases = {Contents} /\ Contents.exists /\ Contents.deny = session.deny
      BY DEF AtomicInv, Plans, Bases, Contents
    <3>4. session.deny \in HookReasons /\ op[p] = "install"
      BY <3>1, <3>2, <3>3 DEF Planned
    <3>5. QED
      BY <3>1, <3>4 DEF AtomicInv, Plans
  <2>4. QED
    BY <2>1, <2>2, <2>3
<1>2. QED
  BY <1>1, AtomicInvariant, PTL DEF Spec, LockdownSticky

-----------------------------------------------------------------------------
(***************************************************************************)
(* Lockdowns have a cause.                                                 *)
(***************************************************************************)
\* A state without a trace of an edit.
Clean(s) == s.deny = "none" /\ s.hookHash \subseteq {"installed"}

\* What a process has at hand: before it loads the session, the session's
\* baseline is lease.json as the process found it; afterwards its copy is
\* clean and the baseline of the copy is lease.json as it is now, unless the
\* process is about to record the lease it just widened.  The fresh state of
\* an install has lease.json as it is now.
Handy(p) ==
    /\ pc[p] = "locked" /\ session # Absent => session.leaseHash \subseteq {lease}
    /\ pc[p] = "lease" => /\ op[p] \in LeaseOps /\ held[p] = lease
                          /\ session # Absent => session.leaseHash \subseteq {before[p]}
    /\ pc[p] \in Working =>
          /\ Clean(local[p])
          /\ pc[p] = "loaded" /\ op[p] \in {"pre", "post"} => local[p].sealed
          /\ op[p] # "allow" \/ pc[p] # "loaded" => local[p].leaseHash \subseteq {lease}
    /\ pc[p] \in {"fresh", "freshTemp"} => Clean(local[p]) /\ local[p].leaseHash \subseteq {lease}

\* As long as nothing was edited, and nothing torn, the session is clean and
\* sealed, and its baseline is lease.json whenever nobody is at work.
Settled ==
    /\ hookFile = "installed"
    /\ session # Absent => Clean(session) /\ session.sealed
    /\ lock = NoProc /\ (\A p \in Procs : pc[p] \notin Replacing) /\ session # Absent
          => session.leaseHash \subseteq {lease}

\* An install saves the lease and the fresh session while nobody is at work.
Busy == Inside \cup Replacing
Exclusive ==
    \A p \in Procs : pc[p] \in Replacing => \A q \in Procs \ {p} : pc[q] \notin Busy

Untouched == edited = {} /\ ~torn
CauseInv == Untouched => Settled /\ Exclusive /\ \A p \in Procs : Handy(p)

\* An operation on a clean copy leaves a clean one with the right baseline.
LEMMA RunClean ==
    ASSUME TypeOK, NEW s \in States, NEW p \in Procs, NEW o, hookFile = "installed", Clean(s),
           o \in {"pre", "post"} => s.sealed, o # "allow" => s.leaseHash \subseteq {lease}
    PROVE  LET t == RunOp(o, s, p) IN Clean(t) /\ t.leaseHash \subseteq {lease}
<1>1. LET t == Mark(s, p) IN Clean(t) /\ t.leaseHash = s.leaseHash
  BY DEF Mark, Clean, States
<1>2. CASE o = "pre"
  <2>1. PreEvaluate(s, p) = Mark(s, p)
    BY <1>2 DEF PreEvaluate, VerifyLeaseIntegrity, Clean
  <2>2. QED
    BY <1>1, <1>2, <2>1 DEF RunOp
<1>3. CASE o = "post"
  <2>1. ~HookDrift(s)
    BY DEF HookDrift, Clean
  <2>2. PostEvaluate(s, p) = Mark(s, p)
    BY <1>3, <2>1 DEF PostEvaluate, Clean
  <2>3. QED
    BY <1>1, <1>3, <2>2 DEF RunOp
<1>4. CASE o = "install"
  <2>1. RebaselineProject(s) = Baselined(s)
    BY DEF RebaselineProject, Clean, HookReasons
  <2>2. Clean(Baselined(s)) /\ Baselined(s).leaseHash = {lease}
    BY DEF Clean, Baselined, States
  <2>3. QED
    BY <1>4, <2>1, <2>2 DEF RunOp
<1>5. CASE o = "allow"
  BY <1>5 DEF RunOp, Clean, States
<1>6. CASE o \notin {"pre", "post", "install", "allow"}
  BY <1>1, <1>6 DEF RunOp
<1>7. QED
  BY <1>2, <1>3, <1>4, <1>5, <1>6

\* Whoever is at work is so alone.
LEMMA Solo ==
    ASSUME StoreInv, Doctors = {}, Exclusive, NEW p \in Procs, pc[p] \in Busy
    PROVE  \A q \in Procs \ {p} : pc[q] \notin Busy
<1>1. CASE pc[p] \in Replacing
  BY <1>1 DEF Exclusive
<1>2. CASE pc[p] \in Inside
  BY <1>2, Alone DEF Exclusive, Busy
<1>3. QED
  BY <1>1, <1>2 DEF Busy

\* A step of a process that works alone.
LEMMA CauseHere ==
    ASSUME NEW p \in Procs, \A q \in Procs \ {p} : pc'[q] = pc[q] /\ pc[q] \notin Busy,
           hookFile' = "installed", session' # Absent => Clean(session') /\ session'.sealed, Handy(p)',
           lock' = NoProc /\ pc'[p] \notin Replacing /\ session' # Absent => session'.leaseHash \subseteq {lease'}
    PROVE  CauseInv'
<1>1. \A q \in Procs \ {p} : pc'[q] \notin Busy
  OBVIOUS
<1>2. \A q \in Procs \ {p} : /\ pc'[q] \notin {"locked", "lease", "fresh", "freshTemp"}
                              /\ pc'[q] \notin Working /\ pc'[q] \notin Replacing
  BY <1>1 DEF Busy, Inside, Replacing
<1>3. \A q \in Procs : Handy(q)'
  BY <1>2 DEF Handy
<1>4. Exclusive'
  BY <1>1, <1>2 DEF Exclusive
<1>5. Settled'
  BY DEF Settled
<1>6. QED
  BY <1>3, <1>4, <1>5 DEF CauseInv

\* The process inside the lock moves on.
LEMMA CauseMoves ==
    ASSUME StoreInv, Doctors = {}, Exclusive, NEW p \in Procs, pc[p] \in Inside, lock' = lock,
           \A q \in Procs \ {p} : pc'[q] = pc[q],
           hookFile' = "installed", session' # Absent => Clean(session') /\ session'.sealed, Handy(p)'
    PROVE  CauseInv'
<1>1. lock = p /\ p # NoProc
  BY Alone, ProcsAssumption
<1>2. \A q \in Procs \ {p} : pc[q] \notin Busy
  BY Solo DEF Busy
<1>3. QED
  BY <1>1, <1>2, CauseHere

\* A process at work leaves.
LEMMA CauseLeaves ==
    ASSUME StoreInv, Doctors = {}, Exclusive, NEW p \in Procs, pc[p] \in Busy, Leave(p),
           hookFile' = "installed", session' # Absent => Clean(session') /\ session'.sealed,
           session' # Absent => session'.leaseHash \subseteq {lease'}
    PROVE  CauseInv'
<1>1. pc'[p] = "idle" /\ \A q \in Procs \ {p} : pc'[q] = pc[q]
  BY DEF Leave, StoreInv, TypeOK
<1>2. Handy(p)'
  BY <1>1 DEF Handy, Working
<1>3. \A q \in Procs \ {p} : pc[q] \notin Busy
  BY Solo
<1>4. QED
  BY <1>1, <1>2, <1>3, CauseHere

\* A process that has nothing in its hands before and after its step.
LEMMA CauseAside ==
    ASSUME Settled, Exclusive, \A q \in Procs : Handy(q), NEW p \in Procs,
           pc[p] \notin Busy, pc'[p] \notin Busy, UNCHANGED <<session, lease, lock>>, hookFile' = "installed",
           \A q \in Procs \ {p} : /\ pc'[q] = pc[q] /\ op'[q] = op[q] /\ local'[q] = local[q]
                                   /\ held'[q] = held[q] /\ before'[q] = before[q]
    PROVE  CauseInv'
<1>1. \A q \in Procs : pc'[q] \in Replacing <=> pc[q] \in Replacing
  BY DEF Busy
<1>2. Settled'
  BY <1>1 DEF Settled, Clean
<1>3. Exclusive'
  BY <1>1 DEF Exclusive
<1>4. ASSUME NEW q \in Procs \ {p} PROVE Handy(q)'
  BY DEF Handy, Clean
<1>5. Handy(p)'
  <2>1. pc'[p] \notin {"locked", "lease", "fresh", "freshTemp"} /\ pc'[p] \notin Working
    BY DEF Busy, Inside, Replacing
  <2>2. QED
    BY <2>1 DEF Handy
<1>6. QED
  BY <1>2, <1>3, <1>4, <1>5 DEF CauseInv

\* What is not ahead of its baseline agrees with it.
LEMMA NotAhead ==
    ASSUME NEW s \in States, NEW l, ~Ahead(s, l)
    PROVE  s.leaseHash \subseteq {l}
<1>1. s # Absent
  BY NotAbsent
<1>2. QED
  BY <1>1 DEF Ahead

\* An edit and a torn update are never forgotten.
LEMMA TraceStays ==
    ASSUME TypeOK, Next
    PROVE  edited \subseteq edited' /\ (torn => torn')
<1>1. ASSUME NEW p \in Procs, NEW o \in Ops, Acquire(p, o) PROVE edited' = edited /\ (torn => torn')
  BY <1>1 DEF Acquire
<1>2. ASSUME NEW p \in Procs, LoadLease(p) \/ LoadMissing(p) \/ LoadSession(p) \/ Run(p)
      PROVE  UNCHANGED <<edited, torn>>
  BY <1>2 DEF LoadLease, LoadMissing, LoadSession, Run
<1>3. ASSUME NEW p \in Procs, NEW e \in Entries, AllowEntry(p, e) \/ Mint(p, e)
      PROVE  UNCHANGED <<edited, torn>>
  BY <1>3 DEF AllowEntry, Mint
<1>4. ASSUME NEW p \in Procs, WriteTemp(p) \/ Rename(p) PROVE UNCHANGED <<edited, torn>>
  BY <1>4 DEF WriteTemp, Rename
<1>5. ASSUME NEW p \in Procs, SaveFails(p) PROVE edited' = edited /\ (torn => torn')
  BY <1>5 DEF SaveFails
<1>6. ASSUME NEW p \in Procs, MintSaveFails(p) PROVE edited' = edited /\ (torn => torn')
  BY <1>6 DEF MintSaveFails
<1>7. ASSUME NEW p \in Procs, Crash(p) PROVE edited' = edited /\ (torn => torn')
  BY <1>7 DEF Crash
<1>8. ASSUME NEW d \in Doctors, DoctorLoad(d) \/ DoctorRepair(d) \/ DoctorMerge(d)
      PROVE  UNCHANGED <<edited, torn>>
  BY <1>8 DEF DoctorLoad, DoctorRepair, DoctorMerge
<1>9. ASSUME EditSession \/ EditLease \/ EditHooks PROVE edited \subseteq edited' /\ torn' = torn
  BY <1>9 DEF EditSession, EditLease, EditHooks
<1>10. ASSUME NEW p \in Procs,
              InstallFiles(p) \/ InstallFresh(p) \/ InstallSave(p) \/ InstallEnds(p) \/ RebaselineSkips(p)
       PROVE  UNCHANGED <<edited, torn>>
  BY <1>10 DEF InstallFiles, InstallFresh, InstallSave, InstallEnds, RebaselineSkips
<1>11. ASSUME NEW p \in Procs, InstallLease(p) PROVE edited' = edited /\ (torn => torn')
  BY <1>11 DEF InstallLease
<1>12. QED
  BY <1>1, <1>2, <1>3, <1>4, <1>5, <1>6, <1>7, <1>8, <1>9, <1>10, <1>11 DEF Next

\* Every step keeps it.
LEMMA CauseKeeps ==
    ASSUME StoreInv, CauseInv, Doctors = {}, Next
    PROVE  CauseInv'
<1> USE ProcsAssumption
<1>0. StoreInv /\ TypeOK /\ Loaded /\ Installing
  BY DEF StoreInv
<1> SUFFICES ASSUME Untouched' PROVE CauseInv'
  BY DEF CauseInv
<1>a. edited = {} /\ ~torn
  BY <1>0, TraceStays DEF Untouched
<1>b. Settled /\ Exclusive /\ \A p \in Procs : Handy(p)
  BY <1>a DEF CauseInv, Untouched
<1>1. ASSUME NEW p \in Procs, NEW o \in Ops, Acquire(p, o) PROVE CauseInv'
  <2>1. /\ pc' = [pc EXCEPT ![p] = "locked"] /\ lock = NoProc /\ lock' = p
        /\ UNCHANGED <<session, lease, hookFile>> /\ ~torn'
    BY <1>1 DEF Acquire, Goto, Untouched
  <2>2. \A q \in Procs : pc[q] \notin Replacing
    BY <1>1, <2>1 DEF Acquire
  <2>3. \A q \in Procs : pc[q] \notin Inside
    BY <1>0, <2>1, Alone
  <2>4. pc'[p] = "locked" /\ \A q \in Procs \ {p} : pc'[q] = pc[q] /\ pc[q] \notin Busy
    BY <1>0, <2>1, <2>2, <2>3 DEF TypeOK, Busy
  <2>5. session # Absent => session.leaseHash \subseteq {lease}
    BY <1>b, <2>1, <2>2 DEF Settled
  <2>6. Handy(p)'
    BY <2>1, <2>4, <2>5 DEF Handy, Working
  <2>7. (session' # Absent => Clean(session') /\ session'.sealed) /\ hookFile' = "installed"
    BY <1>b, <2>1 DEF Settled
  <2>8. QED
    BY <2>1, <2>4, <2>6, <2>7, CauseHere
<1>2. ASSUME NEW p \in Procs, LoadLease(p) PROVE CauseInv'
  <2>1. /\ pc[p] = "locked" /\ UNCHANGED <<session, hookFile, lock, op>> /\ op[p] \in LeaseOps
        /\ pc'[p] = "lease" /\ before'[p] = lease /\ held'[p] = lease' /\ \A q \in Procs \ {p} : pc'[q] = pc[q]
        /\ pc[p] \in Inside
    BY <1>0, <1>2 DEF LoadLease, Goto, TypeOK, Inside
  <2>2. Handy(p)'
    BY <1>b, <2>1 DEF Handy, Working
  <2>3. QED
    BY <1>0, <1>b, <2>1, <2>2, CauseMoves DEF Settled
<1>3. ASSUME NEW p \in Procs, LoadMissing(p) PROVE CauseInv'
  <2>1. pc[p] \in Inside /\ pc[p] \in Busy /\ session = Absent /\ UNCHANGED <<session, lease, hookFile>>
    BY <1>3 DEF LoadMissing, ReadyToLoad, Inside, Busy
  <2>2. CASE Leave(p)
    BY <1>0, <1>b, <2>1, <2>2, CauseLeaves DEF Settled
  <2>3. CASE /\ UNCHANGED <<lock, op>>
             /\ \/ local' = [local EXCEPT ![p] = SessionStart] /\ Goto(p, "sync") /\ op[p] \in {"pre", "raise"}
                \/ local' = [local EXCEPT ![p] = NewState] /\ Goto(p, "loaded") /\ op[p] = "approve"
    <3>1. /\ \A q \in Procs \ {p} : pc'[q] = pc[q]
          /\ \/ local'[p] = SessionStart /\ pc'[p] = "sync"
             \/ local'[p] = NewState /\ pc'[p] = "loaded" /\ op'[p] = "approve"
      BY <1>0, <2>3 DEF Goto, TypeOK
    <3>2. Clean(SessionStart) /\ SessionStart.leaseHash = {lease} /\ Clean(NewState) /\ NewState.leaseHash = {}
      BY <1>b DEF SessionStart, NewState, Clean, Settled
    <3>3. Handy(p)'
      BY <2>1, <3>1, <3>2 DEF Handy
    <3>4. QED
      BY <1>0, <1>b, <2>1, <2>3, <3>1, <3>3, CauseMoves DEF Settled
  <2>4. QED
    BY <1>3, <2>2, <2>3 DEF LoadMissing
<1>4. ASSUME NEW p \in Procs, LoadSession(p) PROVE CauseInv'
  <2>1. /\ session \in States /\ UNCHANGED <<session, lease, hookFile, lock, op, before>> /\ pc[p] \in Inside
        /\ session # Absent /\ pc[p] \in {"lease", "locked"} /\ (pc[p] = "locked" => op[p] \notin LeaseOps)
    BY <1>0, <1>4 DEF LoadSession, ReadyToLoad, TypeOK, LeaseOps, Inside
  <2>2. Clean(session) /\ session.sealed
    BY <1>b, <2>1 DEF Settled
  <2>3. CASE RefreshedBySir(p)
    <3>0. held[p] = lease
      BY <1>b, <2>1, <2>3 DEF RefreshedBySir, Handy
    <3>1. /\ local'[p] = [session EXCEPT !.leaseHash = {lease}] /\ pc'[p] = "sync"
          /\ \A q \in Procs \ {p} : pc'[q] = pc[q]
      BY <1>0, <1>4, <2>3, <3>0 DEF LoadSession, Goto, TypeOK
    <3>2. Clean(local'[p]) /\ local'[p].leaseHash = {lease}
      BY <2>1, <2>2, <3>1 DEF Clean, States
    <3>3. Handy(p)'
      BY <2>1, <3>1, <3>2 DEF Handy, Clean
    <3>4. QED
      BY <1>0, <1>b, <2>1, <2>2, <3>1, <3>3, CauseMoves DEF Settled
  <2>4. CASE ~RefreshedBySir(p)
    <3>1. local'[p] = session /\ pc'[p] = "loaded" /\ \A q \in Procs \ {p} : pc'[q] = pc[q]
      BY <1>0, <1>4, <2>4 DEF LoadSession, Goto, TypeOK
    <3>2. session.leaseHash \subseteq {lease}
      <4>1. CASE pc[p] = "locked"
        BY <1>b, <2>1, <4>1 DEF Handy
      <4>2. CASE pc[p] = "lease"
        <5>1. session.leaseHash \subseteq {before[p]}
          BY <1>b, <2>1, <4>2 DEF Handy
        <5>2. session.leaseHash = {} \/ session.leaseHash = {before[p]}
          BY <5>1
        <5>3. op[p] \in LeaseOps /\ held[p] = lease
          BY <1>b, <4>2 DEF Handy
        <5>4. QED
          BY <2>4, <5>2, <5>3 DEF RefreshedBySir
      <4>3. QED
        BY <2>1, <4>1, <4>2
    <3>3. Handy(p)'
      BY <2>1, <2>2, <3>1, <3>2 DEF Handy, Clean
    <3>4. QED
      BY <1>0, <1>b, <2>1, <2>2, <3>1, <3>3, CauseMoves DEF Settled
  <2>5. QED
    BY <2>3, <2>4
<1>5. ASSUME NEW p \in Procs, Run(p) PROVE CauseInv'
  <2>1. /\ pc[p] = "loaded" /\ UNCHANGED <<session, lease, lock, op>> /\ local[p] \in States
        /\ pc[p] \in Inside
    BY <1>0, <1>5 DEF Run, Loaded, Working, Inside
  <2>2. /\ local'[p] = RunOp(op[p], local[p], p) /\ pc'[p] = "dirty"
        /\ \A q \in Procs \ {p} : pc'[q] = pc[q]
    BY <1>0, <1>5 DEF Run, Goto, TypeOK
  <2>3. /\ Clean(local[p]) /\ (op[p] \in {"pre", "post"} => local[p].sealed)
        /\ op[p] # "allow" => local[p].leaseHash \subseteq {lease}
    BY <1>b, <2>1 DEF Handy, Working
  <2>4. Clean(local'[p]) /\ local'[p].leaseHash \subseteq {lease}
    BY <1>0, <1>b, <2>1, <2>2, <2>3, RunClean DEF Settled
  <2>5. hookFile' = "installed"
    BY <1>5, <1>b, <2>4 DEF Run, Settled, Clean
  <2>6. Handy(p)'
    BY <2>1, <2>2, <2>4 DEF Handy, Clean
  <2>7. QED
    BY <1>0, <1>b, <2>1, <2>2, <2>5, <2>6, CauseMoves DEF Settled
<1>6. ASSUME NEW p \in Procs, NEW e \in Entries, AllowEntry(p, e) PROVE CauseInv'
  <2>1. pc[p] = "locked" /\ UNCHANGED <<session, hookFile>> /\ op[p] = "allow" /\ pc[p] \in Inside /\ pc[p] \in Busy
    BY <1>6 DEF AllowEntry, Inside, Busy
  <2>2. CASE session = Absent /\ Leave(p)
    BY <1>0, <1>b, <2>1, <2>2, CauseLeaves DEF Settled
  <2>3. CASE session # Absent /\ local' = [local EXCEPT ![p] = session] /\ Goto(p, "loaded") /\ UNCHANGED <<lock, op>>
    <3>1. local'[p] = session /\ pc'[p] = "loaded" /\ op'[p] = "allow" /\ \A q \in Procs \ {p} : pc'[q] = pc[q]
      BY <1>0, <2>1, <2>3 DEF Goto, TypeOK
    <3>2. Handy(p)'
      BY <1>b, <2>3, <3>1 DEF Handy, Settled
    <3>3. QED
      BY <1>0, <1>b, <2>1, <2>3, <3>1, <3>2, CauseMoves DEF Settled
  <2>4. QED
    BY <1>6, <2>2, <2>3 DEF AllowEntry
<1>7. ASSUME NEW p \in Procs, NEW e \in Entries, Mint(p, e) PROVE CauseInv'
  <2> DEFINE s == PostEvaluate(local[p], p)
  <2>1. /\ pc[p] = "loaded" /\ op[p] = "post" /\ UNCHANGED <<session, hookFile, lock>> /\ local[p] \in States
        /\ local' = [local EXCEPT ![p] = [s EXCEPT !.leaseHash = {lease'}]] /\ pc[p] \in Inside
    BY <1>0, <1>7 DEF Mint, Loaded, Working, Inside
  <2>2. RunOp("post", local[p], p) = s
    BY DEF RunOp
  <2>3. Clean(local[p]) /\ local[p].sealed /\ local[p].leaseHash \subseteq {lease}
    BY <1>b, <2>1 DEF Handy, Working
  <2>4. s \in States
    BY <1>0, <2>1, <2>2, RunTypes
  <2>5. Clean(s)
    BY <1>0, <1>b, <2>1, <2>2, <2>3, RunClean DEF Settled
  <2> HIDE DEF s
  <2>6. /\ local'[p] = [s EXCEPT !.leaseHash = {lease'}] /\ pc'[p] = "sync"
        /\ \A q \in Procs \ {p} : pc'[q] = pc[q]
    BY <1>0, <1>7, <2>1 DEF Mint, Goto, TypeOK
  <2>7. Clean(local'[p]) /\ local'[p].leaseHash = {lease'}
    BY <2>4, <2>5, <2>6 DEF Clean, States
  <2>8. Handy(p)'
    BY <2>6, <2>7 DEF Handy, Clean
  <2>9. QED
    BY <1>0, <1>b, <2>1, <2>6, <2>8, CauseMoves DEF Settled
<1>8. ASSUME NEW p \in Procs, WriteTemp(p) PROVE CauseInv'
  <2>1. /\ UNCHANGED <<session, lease, hookFile, lock, op, local, before, held>>
        /\ <<pc[p], pc'[p]>> \in {<<"sync", "syncTemp">>, <<"dirty", "dirtyTemp">>, <<"fresh", "freshTemp">>}
        /\ \A q \in Procs \ {p} : pc'[q] = pc[q]
    BY <1>0, <1>8 DEF WriteTemp, Goto, TypeOK
  <2>2. Handy(p)'
    BY <1>b, <2>1 DEF Handy, Working, Clean
  <2>3. (session' # Absent => Clean(session') /\ session'.sealed) /\ hookFile' = "installed"
    BY <1>b, <2>1 DEF Settled
  <2>4. CASE pc[p] = "fresh"
    <3>1. pc[p] \in Busy /\ pc'[p] \in Replacing
      BY <2>1, <2>4 DEF Busy, Replacing
    <3>2. \A q \in Procs \ {p} : pc[q] \notin Busy
      BY <1>0, <1>b, <3>1, Solo
    <3>3. QED
      BY <2>1, <2>2, <2>3, <3>1, <3>2, CauseHere
  <2>5. CASE pc[p] \in Inside
    BY <1>0, <1>b, <2>1, <2>2, <2>3, <2>5, CauseMoves
  <2>6. QED
    BY <2>1, <2>4, <2>5 DEF Inside, Working
<1>9. ASSUME NEW p \in Procs, Rename(p) PROVE CauseInv'
  <2>1. /\ local[p] \in States /\ session' = Sealed(local[p]) /\ pc[p] \in {"syncTemp", "dirtyTemp"}
        /\ UNCHANGED <<lease, hookFile>> /\ pc[p] \in Inside /\ pc[p] \in Busy
    BY <1>0, <1>9 DEF Rename, Loaded, Inside, Working, Busy
  <2>2. Clean(local[p]) /\ local[p].leaseHash \subseteq {lease}
    BY <1>b, <2>1 DEF Handy, Working
  <2>3. Clean(session') /\ session'.sealed /\ session'.leaseHash \subseteq {lease'}
    BY <2>1, <2>2 DEF Clean, Sealed, States
  <2>4. CASE Leave(p)
    BY <1>0, <1>b, <2>1, <2>3, <2>4, CauseLeaves DEF Settled
  <2>5. CASE local' = [local EXCEPT ![p] = Sealed(local[p])] /\ Goto(p, "loaded") /\ UNCHANGED <<lock, op>>
    <3>1. local'[p] = session' /\ pc'[p] = "loaded" /\ \A q \in Procs \ {p} : pc'[q] = pc[q]
      BY <1>0, <2>1, <2>5 DEF Goto, TypeOK
    <3>2. Handy(p)'
      BY <2>3, <3>1 DEF Handy, Clean
    <3>3. QED
      BY <1>0, <1>b, <2>1, <2>3, <2>5, <3>1, <3>2, CauseMoves DEF Settled
  <2>6. QED
    BY <1>9, <2>4, <2>5 DEF Rename
<1>10. ASSUME NEW p \in Procs, SaveFails(p) \/ Crash(p) PROVE CauseInv'
  <2>1. Leave(p) /\ UNCHANGED <<session, hookFile>> /\ ~Ahead(session, lease')
    BY <1>10 DEF SaveFails, Crash, Untouched
  <2>2. session # Absent => session.leaseHash \subseteq {lease'}
    BY <1>0, <2>1, NotAhead DEF TypeOK
  <2>3. CASE pc[p] \in Busy
    BY <1>0, <1>b, <2>1, <2>2, <2>3, CauseLeaves DEF Settled
  <2>4. CASE pc[p] \notin Busy
    <3>1. lock' = lock /\ lease' = lease
      <4>1. lock # p
        BY <1>0, <2>4 DEF StoreInv, Locked, Busy
      <4>2. ~SaveFails(p)
        BY <2>4 DEF SaveFails, Busy, Inside, Working, Replacing
      <4>3. QED
        BY <1>10, <4>1, <4>2 DEF Crash, Leave
    <3>2. /\ pc'[p] \notin Busy
          /\ \A q \in Procs \ {p} : /\ pc'[q] = pc[q] /\ op'[q] = op[q] /\ local'[q] = local[q]
                                     /\ held'[q] = held[q] /\ before'[q] = before[q]
      BY <1>0, <2>1 DEF Leave, TypeOK, Busy, Inside, Working, Replacing
    <3>3. hookFile' = "installed"
      BY <1>b, <2>1 DEF Settled
    <3>4. QED
      BY <1>b, <2>1, <2>4, <3>1, <3>2, <3>3, CauseAside
  <2>5. QED
    BY <2>3, <2>4
<1>11. ASSUME NEW p \in Procs, MintSaveFails(p) PROVE CauseInv'
  <2>1. /\ pc[p] = "sync" /\ op[p] = "mint" /\ UNCHANGED <<session, hookFile, lock, op, local, before>>
        /\ ~Ahead(local[p], lease') /\ local[p] \in States
        /\ pc'[p] = "loaded" /\ pc[p] \in Inside /\ \A q \in Procs \ {p} : pc'[q] = pc[q]
    BY <1>0, <1>11 DEF MintSaveFails, Goto, TypeOK, Untouched, Loaded, Working, Inside
  <2>2. local[p].leaseHash \subseteq {lease'} /\ Clean(local[p])
    BY <1>b, <2>1, NotAhead DEF Handy, Working
  <2>3. Handy(p)'
    BY <2>1, <2>2 DEF Handy, Clean
  <2>4. (session' # Absent => Clean(session') /\ session'.sealed) /\ hookFile' = "installed"
    BY <1>b, <2>1 DEF Settled
  <2>5. QED
    BY <1>0, <1>b, <2>1, <2>3, <2>4, CauseMoves
<1>12. ASSUME EditSession \/ EditLease \/ EditHooks PROVE CauseInv'
  BY <1>12 DEF EditSession, EditLease, EditHooks, Untouched
<1>13. ASSUME NEW p \in Procs, InstallFiles(p) \/ InstallEnds(p) PROVE CauseInv'
  <2>1. pc[p] \in {"idle", "files", "refreshed"} /\ pc'[p] \in {"idle", "files"} /\ UNCHANGED <<session, lease>>
        /\ hookFile' = "installed"
    BY <1>0, <1>b, <1>13 DEF InstallFiles, InstallEnds, Goto, Leave, TypeOK, Settled
  <2>2. pc[p] \notin Busy /\ pc'[p] \notin Busy
    BY <2>1 DEF Busy, Inside, Working, Replacing
  <2>3. lock' = lock
    BY <1>0, <1>13, <2>2 DEF InstallFiles, InstallEnds, Leave, StoreInv, Locked, Busy
  <2>4. \A q \in Procs \ {p} : /\ pc'[q] = pc[q] /\ op'[q] = op[q] /\ local'[q] = local[q]
                               /\ held'[q] = held[q] /\ before'[q] = before[q]
    BY <1>0, <1>13 DEF InstallFiles, InstallEnds, Goto, Leave, TypeOK
  <2>5. QED
    BY <1>b, <2>1, <2>2, <2>3, <2>4, CauseAside
<1>14. ASSUME NEW p \in Procs, InstallLease(p) PROVE CauseInv'
  <2>1. /\ pc'[p] = "leased" /\ UNCHANGED <<session, hookFile, lock>> /\ ~torn'
        /\ \A q \in Procs \ {p} : pc'[q] = pc[q]
    BY <1>0, <1>14 DEF InstallLease, Goto, TypeOK, Untouched
  <2>2. \A q \in Procs \ {p} : pc[q] \in Resting
    BY <1>14, <2>1 DEF InstallLease
  <2>3. \A q \in Procs \ {p} : pc[q] \notin Busy
    BY <2>2 DEF Resting, Busy, Inside, Working, Replacing
  <2>4. Handy(p)' /\ pc'[p] \in Replacing
    BY <2>1 DEF Handy, Working, Replacing
  <2>5. (session' # Absent => Clean(session') /\ session'.sealed) /\ hookFile' = "installed"
    BY <1>b, <2>1 DEF Settled
  <2>6. QED
    BY <2>1, <2>3, <2>4, <2>5, CauseHere
<1>15. ASSUME NEW p \in Procs, InstallFresh(p) PROVE CauseInv'
  <2>1. /\ pc[p] = "leased" /\ pc'[p] = "fresh" /\ local'[p] = SessionStart /\ UNCHANGED <<session, lease, hookFile, lock>>
        /\ \A q \in Procs \ {p} : pc'[q] = pc[q]
    BY <1>0, <1>15 DEF InstallFresh, Goto, TypeOK
  <2>2. \A q \in Procs \ {p} : pc[q] \notin Busy
    BY <1>0, <1>b, <2>1, Solo DEF Busy, Replacing
  <2>3. Clean(SessionStart) /\ SessionStart.leaseHash = {lease}
    BY <1>b DEF SessionStart, Clean, Settled
  <2>4. Handy(p)' /\ pc'[p] \in Replacing
    <3>1. Clean(local'[p]) /\ local'[p].leaseHash = {lease'}
      BY <2>1, <2>3
    <3>2. QED
      BY <2>1, <3>1 DEF Handy, Working, Replacing, Clean
  <2>5. (session' # Absent => Clean(session') /\ session'.sealed) /\ hookFile' = "installed"
    BY <1>b, <2>1 DEF Settled
  <2>6. QED
    BY <2>1, <2>2, <2>4, <2>5, CauseHere
<1>16. ASSUME NEW p \in Procs, InstallSave(p) PROVE CauseInv'
  <2>1. /\ pc[p] = "freshTemp" /\ pc'[p] = "refreshed" /\ session' = Sealed(local[p]) /\ UNCHANGED <<lease, hookFile, lock>>
        /\ \A q \in Procs \ {p} : pc'[q] = pc[q]
    BY <1>0, <1>16 DEF InstallSave, Goto, TypeOK
  <2>2. \A q \in Procs \ {p} : pc[q] \notin Busy
    BY <1>0, <1>b, <2>1, Solo DEF Busy, Replacing
  <2>3. local[p] \in States /\ Clean(local[p]) /\ local[p].leaseHash \subseteq {lease}
    BY <1>0, <1>b, <2>1 DEF Installing, Handy
  <2>4. Clean(session') /\ session'.sealed /\ session'.leaseHash \subseteq {lease'}
    BY <2>1, <2>3 DEF Clean, Sealed, States
  <2>5. Handy(p)' /\ hookFile' = "installed"
    BY <1>b, <2>1 DEF Handy, Working, Settled
  <2>6. QED
    BY <2>1, <2>2, <2>4, <2>5, CauseHere
<1>17. ASSUME NEW p \in Procs, RebaselineSkips(p) PROVE CauseInv'
  BY <1>a, <1>17 DEF RebaselineSkips
<1>18. QED
  BY <1>1, <1>2, <1>3, <1>4, <1>5, <1>6, <1>7, <1>8, <1>9, <1>10, <1>11, <1>12, <1>13, <1>14, <1>15, <1>16, <1>17
  DEF Next

\* While nothing was edited behind sir, no update was torn, and nobody was at
\* work while an install saved the lease and the fresh session, there is no
\* lockdown, and the lease baseline agrees with lease.json whenever nobody is
\* at work: sir's own lease writes (LoadLease, AllowEntry, Mint) are followed
\* by the baseline before the lock is dropped, an install's by its session.
THEOREM LockdownsHaveCause ==
    ASSUME Doctors = {}
    PROVE  Spec => []NoSpuriousLockdown
<1>1. Init => CauseInv
  BY DEF Init, CauseInv, Settled, Exclusive, Handy, Working, Replacing
<1>2. StoreInv /\ CauseInv /\ [Next]_vars => CauseInv'
  <2>1. ASSUME StoreInv, CauseInv, Next PROVE CauseInv'
    BY <2>1, CauseKeeps
  <2>2. ASSUME CauseInv, UNCHANGED vars PROVE CauseInv'
    <3>1. (Untouched' <=> Untouched) /\ (Settled' <=> Settled) /\ (Exclusive' <=> Exclusive)
      BY <2>2 DEF vars, Untouched, Settled, Exclusive, Clean
    <3>2. \A p \in Procs : Handy(p) => Handy(p)'
      BY <2>2 DEF vars, Handy, Clean
    <3>3. QED
      BY <2>2, <3>1, <3>2 DEF CauseInv
  <2>3. QED
    BY <2>1, <2>2
<1>3. CauseInv => NoSpuriousLockdown
  BY DEF CauseInv, Untouched, Settled, Clean, NoSpuriousLockdown
<1>4. QED
  BY <1>1, <1>2, <1>3, StoreInvariant, PTL DEF Spec
=============================================================================
