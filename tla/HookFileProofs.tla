--------------------------- MODULE HookFileProofs ---------------------------
(***************************************************************************)
(* Proofs about the hook files, for any machine: any number of projects    *)
(* and files, any edits, installs and deaths.                              *)
(***************************************************************************)
EXTENDS HookFiles, FiniteSetTheorems, TLAPS

-----------------------------------------------------------------------------
(***************************************************************************)
(* What a process put back, and whether it is still so.                    *)
(***************************************************************************)
ProcFields == {"kind", "at", "st", "todo", "saw", "cur", "now", "restored", "undid", "again"}
StFields == {"here", "posture", "global", "deny"}

\* A process works on hook files, and remembers what it undid until it is
\* recorded.
IsProc(r) ==
    /\ DOMAIN r = ProcFields /\ DOMAIN r.st = StFields
    /\ r.todo \subseteq HookFiles /\ r.restored \subseteq HookFiles
    /\ r.at = "record" => r.cur \in HookFiles
    /\ r.undid \in {0, 1} /\ (r.at # "record" => r.undid = 0)

Types ==
    /\ w \in Worlds
    /\ DOMAIN file = Posture /\ DOMAIN canonical = HookFiles
    /\ DOMAIN session = Projects /\ \A p \in Projects : DOMAIN session[p] = StFields
    /\ DOMAIN proc = Projects /\ \A p \in Projects : IsProc(proc[p])

\* A file a process put back agrees with its baseline until someone writes
\* one of them again.
StillSo(p) ==
    \A f \in proc[p].restored \ proc[p].again :
        managedHookBaseline(f).here /\ hashSentinelFile(f) = Parsed(managedHookBaseline(f).hooks)

RestoreInv == Types /\ \A p \in Projects : StillSo(p)

\* The records the code starts from have their fields.
LEMMA Records == DOMAIN NewState = StFields /\ DOMAIN NoSession = StFields /\ IsProc(Free)
BY DEF NewState, NoSession, StFields, Free, IsProc, ProcFields

\* A process's own step that writes no file.
LEMMA OwnStep ==
    ASSUME RestoreInv, NEW p \in Projects, NEW r, IsProc(r),
           r.restored \ r.again \subseteq proc[p].restored \ proc[p].again,
           proc' = [proc EXCEPT ![p] = r], UNCHANGED <<w, file, canonical>>,
           DOMAIN session' = Projects, \A q \in Projects : DOMAIN session'[q] = StFields
    PROVE  RestoreInv'
<1>1. Types'
  BY DEF RestoreInv, Types, IsProc, Projects, HookFiles, Posture
<1>2. ASSUME NEW q \in Projects PROVE StillSo(q)'
  <2>1. proc'[q].restored \ proc'[q].again \subseteq proc[q].restored \ proc[q].again
    BY DEF RestoreInv, Types
  <2>2. QED
    BY <2>1 DEF RestoreInv, StillSo, managedHookBaseline, hashSentinelFile, Parsed
<1>3. QED
  BY <1>1, <1>2 DEF RestoreInv, Projects

\* Rewriting adds to what was written again, and to nothing else.
LEMMA RewrittenIs ==
    ASSUME Types, NEW f
    PROVE  /\ DOMAIN Rewritten(f) = Projects
           /\ \A q \in Projects : /\ DOMAIN Rewritten(f)[q] = ProcFields
                                  /\ \A x \in ProcFields \ {"again"} : Rewritten(f)[q][x] = proc[q][x]
                                  /\ Rewritten(f)[q].again = proc[q].again \cup (proc[q].restored \cap {f})
BY DEF Rewritten, Types, IsProc, ProcFields

\* A step that changes neither files nor processes.
LEMMA SessionStep ==
    ASSUME RestoreInv, UNCHANGED <<w, file, canonical, proc>>,
           DOMAIN session' = Projects, \A q \in Projects : DOMAIN session'[q] = StFields
    PROVE  RestoreInv'
<1>1. Types'
  BY DEF RestoreInv, Types, IsProc, Projects, HookFiles, Posture
<1>2. \A q \in Projects : StillSo(q)'
  BY DEF RestoreInv, StillSo, managedHookBaseline, hashSentinelFile, Parsed
<1>3. QED
  BY <1>1, <1>2 DEF RestoreInv, Projects

\* A file or its baseline is written, and everyone who had put it back is
\* told so.
LEMMA WriteStep ==
    ASSUME RestoreInv, NEW f, DOMAIN file' = DOMAIN file, DOMAIN canonical' = DOMAIN canonical,
           \A g \in Posture \ {f} : file'[g] = file[g], \A g \in HookFiles \ {f} : canonical'[g] = canonical[g],
           proc' = Rewritten(f), UNCHANGED <<w, session>>
    PROVE  RestoreInv'
<1>1. /\ DOMAIN proc' = Projects
      /\ \A q \in Projects : /\ DOMAIN proc'[q] = DOMAIN proc[q]
                             /\ \A x \in ProcFields \ {"again"} : proc'[q][x] = proc[q][x]
                             /\ proc'[q].again = proc[q].again \cup (proc[q].restored \cap {f})
  BY RewrittenIs DEF RestoreInv, Types, IsProc
<1>2. Types'
  BY <1>1 DEF RestoreInv, Types, IsProc, Projects, HookFiles, Posture, ProcFields
<1>3. ASSUME NEW q \in Projects PROVE StillSo(q)'
  <2>1. ASSUME NEW g \in proc'[q].restored \ proc'[q].again
        PROVE  g \in proc[q].restored \ proc[q].again /\ g # f /\ g \in HookFiles
    BY <1>1, <2>1 DEF ProcFields, RestoreInv, Types, IsProc
  <2>2. QED
    BY <2>1 DEF RestoreInv, StillSo, managedHookBaseline, hashSentinelFile, Parsed, Posture, HookFiles
<1>4. QED
  BY <1>2, <1>3 DEF RestoreInv, Projects

\* What a process that puts a file back does to the processes.
LEMMA RestoredIs ==
    ASSUME Types, NEW p \in Projects, NEW f, NEW undid,
           proc' = [Rewritten(f) EXCEPT ![p].at = "record", ![p].cur = f, ![p].undid = undid, ![p].restored = @ \cup {f}]
    PROVE  /\ DOMAIN proc' = Projects
           /\ \A q \in Projects : /\ DOMAIN proc'[q] = DOMAIN proc[q]
                                  /\ proc'[q].st = proc[q].st /\ proc'[q].todo = proc[q].todo
                                  /\ proc'[q].again = proc[q].again \cup (proc[q].restored \cap {f})
           /\ \A q \in Projects \ {p} : \A x \in ProcFields \ {"again"} : proc'[q][x] = proc[q][x]
           /\ proc'[p].at = "record" /\ proc'[p].cur = f /\ proc'[p].undid = undid
           /\ proc'[p].restored = proc[p].restored \cup {f}
<1> DEFINE d == Rewritten(f)
<1>1. /\ DOMAIN d = Projects
      /\ \A q \in Projects : /\ DOMAIN d[q] = ProcFields
                             /\ \A x \in ProcFields \ {"again"} : d[q][x] = proc[q][x]
                             /\ d[q].again = proc[q].again \cup (proc[q].restored \cap {f})
  BY RewrittenIs
<1>2. proc' = [d EXCEPT ![p].at = "record", ![p].cur = f, ![p].undid = undid, ![p].restored = @ \cup {f}]
  OBVIOUS
<1>3. \A q \in Projects : DOMAIN proc[q] = ProcFields
  BY DEF Types, IsProc
<1> HIDE DEF d
<1>4. DOMAIN proc' = Projects /\ \A q \in Projects \ {p} : proc'[q] = d[q]
  BY <1>1, <1>2
<1>5. proc'[p] = [d[p] EXCEPT !.at = "record", !.cur = f, !.undid = undid, !.restored = @ \cup {f}]
  BY <1>1, <1>2
<1>6. /\ DOMAIN proc'[p] = ProcFields /\ proc'[p].st = d[p].st /\ proc'[p].todo = d[p].todo
      /\ proc'[p].again = d[p].again /\ proc'[p].at = "record" /\ proc'[p].cur = f /\ proc'[p].undid = undid
      /\ proc'[p].restored = d[p].restored \cup {f}
  <2>1. DOMAIN d[p] = ProcFields
    BY <1>1
  <2>2. ASSUME NEW e, NEW r, e = d[p], r = proc'[p],
               r = [e EXCEPT !.at = "record", !.cur = f, !.undid = undid, !.restored = @ \cup {f}]
        PROVE  /\ DOMAIN r = ProcFields /\ r.st = e.st /\ r.todo = e.todo /\ r.again = e.again
               /\ r.at = "record" /\ r.cur = f /\ r.undid = undid /\ r.restored = e.restored \cup {f}
    BY <2>1, <2>2 DEF ProcFields
  <2>3. QED
    BY <1>5, <2>2
<1>7. proc'[p].st = proc[p].st /\ proc'[p].todo = proc[p].todo
      /\ proc'[p].again = proc[p].again \cup (proc[p].restored \cap {f})
      /\ proc'[p].restored = proc[p].restored \cup {f}
  <2>1. {"st", "todo", "restored"} \subseteq ProcFields \ {"again"}
    BY DEF ProcFields
  <2>2. d[p].st = proc[p].st /\ d[p].todo = proc[p].todo /\ d[p].restored = proc[p].restored
    BY <1>1, <2>1
  <2>3. QED
    BY <1>1, <1>6, <2>2
<1>8. ASSUME NEW q \in Projects \ {p}
      PROVE  /\ DOMAIN proc'[q] = ProcFields
             /\ \A x \in ProcFields \ {"again"} : proc'[q][x] = proc[q][x]
             /\ proc'[q].st = proc[q].st /\ proc'[q].todo = proc[q].todo
             /\ proc'[q].again = proc[q].again \cup (proc[q].restored \cap {f})
  BY <1>1, <1>4 DEF ProcFields
<1>9. QED
  BY <1>3, <1>4, <1>6, <1>7, <1>8

\* AutoRestoreAgentHookFile.
LEMMA RestoreStep ==
    ASSUME RestoreInv, NEW p \in Projects, NEW f \in proc[p].todo, Restore(p, f)
    PROVE  RestoreInv'
<1>1. f \in HookFiles /\ f \in Posture /\ proc[p].at = "restore" /\ UNCHANGED <<w, canonical, session>>
  BY DEF Restore, RestoreInv, Types, IsProc, Posture, HookFiles
<1>2. CASE ~managedHookBaseline(f).here
  <2> DEFINE r == [proc[p] EXCEPT !.at = "record", !.cur = f]
  <2>1. proc' = [proc EXCEPT ![p] = r] /\ UNCHANGED file
    BY <1>2 DEF Restore, RestoreInv, Types
  <2>2. IsProc(r) /\ r.restored \ r.again \subseteq proc[p].restored \ proc[p].again
    BY <1>1 DEF RestoreInv, Types, IsProc, ProcFields
  <2> HIDE DEF r
  <2>3. QED
    BY <1>1, <2>1, <2>2, OwnStep DEF RestoreInv, Types
<1>3. CASE managedHookBaseline(f).here
  <2> DEFINE undid == IF hashSentinelFile(f) # Parsed(Restored(f).hooks) THEN 1 ELSE 0
  <2>1. /\ file' = [file EXCEPT ![f] = Restored(f)]
        /\ proc' = [Rewritten(f) EXCEPT ![p].at = "record", ![p].cur = f, ![p].undid = undid, ![p].restored = @ \cup {f}]
    BY <1>3 DEF Restore
  <2>2. undid \in {0, 1}
    OBVIOUS
  <2> HIDE DEF undid
  <2>3. /\ DOMAIN proc' = Projects
        /\ \A q \in Projects : /\ DOMAIN proc'[q] = DOMAIN proc[q]
                               /\ proc'[q].st = proc[q].st /\ proc'[q].todo = proc[q].todo
                               /\ proc'[q].again = proc[q].again \cup (proc[q].restored \cap {f})
        /\ \A q \in Projects \ {p} : \A x \in ProcFields \ {"again"} : proc'[q][x] = proc[q][x]
        /\ proc'[p].at = "record" /\ proc'[p].cur = f /\ proc'[p].undid = undid
        /\ proc'[p].restored = proc[p].restored \cup {f}
    BY <2>1, RestoredIs DEF RestoreInv
  <2>4. Types'
    <3>1. DOMAIN file' = Posture
      BY <1>1, <2>1 DEF RestoreInv, Types
    <3>2. \A q \in Projects \ {p} : IsProc(proc'[q])
      BY <2>3 DEF RestoreInv, Types, IsProc, ProcFields
    <3>3. IsProc(proc'[p])
      BY <1>1, <2>2, <2>3 DEF RestoreInv, Types, IsProc, ProcFields
    <3>4. QED
      BY <1>1, <2>3, <3>1, <3>2, <3>3 DEF RestoreInv, Types, IsProc, Projects, HookFiles, Posture
  <2>5. managedHookBaseline(f)' = managedHookBaseline(f) /\ hashSentinelFile(f)' = Parsed(managedHookBaseline(f).hooks)
    BY <1>1, <2>1 DEF managedHookBaseline, hashSentinelFile, Restored, Settings, Parsed, RestoreInv, Types
  <2>6. ASSUME NEW q \in Projects PROVE StillSo(q)'
    <3>1. ASSUME NEW g \in proc'[q].restored \ proc'[q].again
          PROVE  g = f \/ (g \in proc[q].restored \ proc[q].again /\ g \in HookFiles)
      BY <2>3, <3>1 DEF ProcFields, RestoreInv, Types, IsProc
    <3>2. \A g \in HookFiles \ {f} : managedHookBaseline(g)' = managedHookBaseline(g) /\ hashSentinelFile(g)' = hashSentinelFile(g)
      BY <1>1, <2>1 DEF managedHookBaseline, hashSentinelFile, Posture, HookFiles, RestoreInv, Types
    <3>3. ASSUME NEW g \in proc'[q].restored \ proc'[q].again
          PROVE  managedHookBaseline(g)'.here /\ hashSentinelFile(g)' = Parsed(managedHookBaseline(g)'.hooks)
      <4>1. CASE g = f
        BY <1>3, <2>5, <4>1
      <4>2. CASE g # f
        BY <3>1, <3>2, <3>3, <4>2 DEF RestoreInv, StillSo
      <4>3. QED
        BY <4>1, <4>2
    <3>4. QED
      BY <3>3 DEF StillSo, Parsed
  <2>7. QED
    BY <1>1, <2>4, <2>6 DEF RestoreInv, Projects
<1>4. QED
  BY <1>2, <1>3

\* The steps of a process that write no file.
LEMMA ProcessSteps ==
    ASSUME RestoreInv, NEW p \in Projects,
           \/ \E kind \in w.kinds : Start(p, kind)
           \/ Look(p) \/ HashGlobal(p) \/ Detect(p) \/ Record(p) \/ SetDenyAll(p) \/ Rehash(p) \/ Save(p)
           \/ RebaselineAfterWrite(p) \/ SubagentStart(p) \/ Bootstrap(p) \/ Die(p)
    PROVE  RestoreInv'
<1>0. /\ DOMAIN proc = Projects /\ IsProc(proc[p]) /\ DOMAIN session = Projects
      /\ \A q \in Projects : DOMAIN session[q] = StFields
  BY DEF RestoreInv, Types
<1>1. UNCHANGED <<w, file, canonical>>
  BY DEF Start, Look, HashGlobal, Detect, Record, SetDenyAll, Rehash, Save, RebaselineAfterWrite, SubagentStart, Bootstrap, Die
<1>2. DOMAIN session' = Projects /\ \A q \in Projects : DOMAIN session'[q] = StFields
  <2>1. CASE UNCHANGED session
    BY <1>0, <2>1
  <2>2. CASE Save(p) \/ RebaselineAfterWrite(p) \/ SubagentStart(p)
    BY <1>0, <2>2 DEF Save, RebaselineAfterWrite, SubagentStart, IsProc, StFields
  <2>3. QED
    BY <2>1, <2>2 DEF Start, Look, HashGlobal, Detect, Record, SetDenyAll, Rehash, Bootstrap, Die
<1>3. ASSUME NEW r, IsProc(r), r.restored \ r.again \subseteq proc[p].restored \ proc[p].again, proc' = [proc EXCEPT ![p] = r]
      PROVE  RestoreInv'
  BY <1>1, <1>2, <1>3, OwnStep
<1>4. CASE proc' = [proc EXCEPT ![p] = Free]
  <2>1. Free.restored = {}
    BY DEF Free
  <2>2. QED
    BY <1>3, <1>4, <2>1, Records
<1>5. CASE UNCHANGED proc
  BY <1>1, <1>2, <1>5, SessionStep
<1>6. ASSUME NEW kind \in w.kinds, Start(p, kind) PROVE RestoreInv'
  <2> DEFINE r == [Free EXCEPT !.kind = kind, !.at = "look", !.st = session[p]]
  <2>1. proc' = [proc EXCEPT ![p] = r]
    BY <1>6 DEF Start
  <2>2. IsProc(r) /\ r.restored = {}
    BY <1>0 DEF Free, IsProc, ProcFields
  <2> HIDE DEF r
  <2>3. QED
    BY <1>3, <2>1, <2>2
<1>7. ASSUME Look(p) PROVE RestoreInv'
  <2> DEFINE hooks == CompareSentinelHashes(proc[p].st.posture, HashSentinelFiles) \cap HookFiles
             seen == [proc[p] EXCEPT !.todo = hooks, !.saw = HashSentinelFiles]
  <2>0. hooks \subseteq HookFiles
    OBVIOUS
  <2>1. \/ proc' = [proc EXCEPT ![p] = Free]
        \/ \E r : /\ proc' = [proc EXCEPT ![p] = r]
                  /\ \/ r = [proc[p] EXCEPT !.at = "hash"]
                     \/ r = [seen EXCEPT !.at = "rehash"] \/ r = [seen EXCEPT !.at = "restore"]
    BY <1>0, <1>7 DEF Look
  <2> HIDE DEF hooks
  <2>2. ASSUME NEW r, \/ r = [proc[p] EXCEPT !.at = "hash"]
                      \/ r = [seen EXCEPT !.at = "rehash"] \/ r = [seen EXCEPT !.at = "restore"]
        PROVE  IsProc(r) /\ r.restored = proc[p].restored /\ r.again = proc[p].again
    BY <1>0, <1>7, <2>0, <2>2 DEF Look, IsProc, ProcFields
  <2>3. QED
    BY <1>3, <1>4, <2>1, <2>2
<1>8. ASSUME HashGlobal(p) PROVE RestoreInv'
  <2> DEFINE now == HashGlobalHooksFile
             r == [proc[p] EXCEPT !.now = now, !.at = IF proc[p].st.global.known /\ now # proc[p].st.global THEN "detect" ELSE "save"]
  <2>1. proc' = [proc EXCEPT ![p] = r]
    BY <1>0, <1>8 DEF HashGlobal
  <2> HIDE DEF now
  <2>2. IsProc(r) /\ r.restored = proc[p].restored /\ r.again = proc[p].again
    BY <1>0, <1>8 DEF HashGlobal, IsProc, ProcFields
  <2> HIDE DEF r
  <2>3. QED
    BY <1>3, <2>1, <2>2
<1>9. ASSUME Detect(p) PROVE RestoreInv'
  <2> DEFINE changed == DetectChangedGlobalHooksStrict
  <2>0. changed \subseteq HookFiles
    BY DEF DetectChangedGlobalHooksStrict
  <2> HIDE DEF changed
  <2>1. \/ proc' = [proc EXCEPT ![p].at = "save", ![p].st.deny = "hooks"]
        \/ proc' = [proc EXCEPT ![p].at = "save", ![p].st.global = proc[p].now]
        \/ proc' = [proc EXCEPT ![p].at = "restore", ![p].todo = changed]
    BY <1>9 DEF Detect, changed
  <2>2. PICK r : /\ proc' = [proc EXCEPT ![p] = r]
                 /\ \/ r = [proc[p] EXCEPT !.at = "save", !.st = [proc[p].st EXCEPT !.deny = "hooks"]]
                    \/ r = [proc[p] EXCEPT !.at = "save", !.st = [proc[p].st EXCEPT !.global = proc[p].now]]
                    \/ r = [proc[p] EXCEPT !.at = "restore", !.todo = changed]
    <3> DEFINE denied == [proc[p] EXCEPT !.at = "save", !.st = [proc[p].st EXCEPT !.deny = "hooks"]]
               adopted == [proc[p] EXCEPT !.at = "save", !.st = [proc[p].st EXCEPT !.global = proc[p].now]]
    <3>1. CASE proc' = [proc EXCEPT ![p].at = "save", ![p].st.deny = "hooks"]
      <4>1. proc' = [proc EXCEPT ![p] = denied]
        BY <1>0, <3>1 DEF IsProc
      <4>2. QED
        BY <4>1
    <3>2. CASE proc' = [proc EXCEPT ![p].at = "save", ![p].st.global = proc[p].now]
      <4>1. proc' = [proc EXCEPT ![p] = adopted]
        BY <1>0, <3>2 DEF IsProc
      <4>2. QED
        BY <4>1
    <3>3. CASE proc' = [proc EXCEPT ![p].at = "restore", ![p].todo = changed]
      BY <1>0, <3>3 DEF IsProc
    <3>4. QED
      BY <2>1, <3>1, <3>2, <3>3
  <2>3. IsProc(r) /\ r.restored = proc[p].restored /\ r.again = proc[p].again
    BY <1>0, <1>9, <2>0, <2>2 DEF Detect, IsProc, ProcFields, StFields
  <2>4. QED
    BY <1>3, <2>2, <2>3
<1>10. ASSUME Record(p) PROVE RestoreInv'
  <2> DEFINE r == [proc[p] EXCEPT !.at = "restore", !.todo = @ \ {proc[p].cur}, !.cur = "none", !.undid = 0]
  <2>1. proc' = [proc EXCEPT ![p] = r]
    BY <1>0, <1>10 DEF Record
  <2>2. IsProc(r) /\ r.restored = proc[p].restored /\ r.again = proc[p].again
    BY <1>0 DEF IsProc, ProcFields
  <2> HIDE DEF r
  <2>3. QED
    BY <1>3, <2>1, <2>2
<1>11. ASSUME SetDenyAll(p) PROVE RestoreInv'
  <2> DEFINE r == [proc[p] EXCEPT !.st = [proc[p].st EXCEPT !.deny = "hooks"], !.at = IF proc[p].kind = "sweep" THEN "rehash" ELSE "save"]
  <2>1. proc' = [proc EXCEPT ![p] = r]
    BY <1>0, <1>11 DEF SetDenyAll, IsProc
  <2>2. IsProc(r) /\ r.restored = proc[p].restored /\ r.again = proc[p].again
    BY <1>0, <1>11 DEF SetDenyAll, IsProc, ProcFields, StFields
  <2> HIDE DEF r
  <2>3. QED
    BY <1>3, <2>1, <2>2
<1>12. ASSUME Rehash(p) PROVE RestoreInv'
  <2> DEFINE hashes == [f \in Posture |-> IF f \in Renewed(p) THEN hashSentinelFile(f) ELSE proc[p].st.posture[f]]
             r == [proc[p] EXCEPT !.at = "save", !.st = [proc[p].st EXCEPT !.posture = hashes]]
  <2>1. proc' = [proc EXCEPT ![p] = r]
    BY <1>0, <1>12 DEF Rehash, IsProc
  <2> HIDE DEF hashes
  <2>2. IsProc(r) /\ r.restored = proc[p].restored /\ r.again = proc[p].again
    BY <1>0, <1>12 DEF Rehash, IsProc, ProcFields, StFields
  <2> HIDE DEF r
  <2>3. QED
    BY <1>3, <2>1, <2>2
<1>13. ASSUME Bootstrap(p) PROVE RestoreInv'
  <2> DEFINE r == [Free EXCEPT !.kind = "boot", !.at = "save", !.st = NewState]
  <2>1. proc' = [proc EXCEPT ![p] = r]
    BY <1>13 DEF Bootstrap
  <2>2. IsProc(r) /\ r.restored = {}
    BY Records DEF Free, IsProc, ProcFields
  <2> HIDE DEF r
  <2>3. QED
    BY <1>3, <2>1, <2>2
<1>14. CASE Save(p) \/ Die(p)
  BY <1>4, <1>14 DEF Save, Die
<1>15. CASE RebaselineAfterWrite(p) \/ SubagentStart(p)
  BY <1>5, <1>15 DEF RebaselineAfterWrite, SubagentStart
<1>16. QED
  BY <1>6, <1>7, <1>8, <1>9, <1>10, <1>11, <1>12, <1>13, <1>14, <1>15

\* The steps that are not a process's own.
LEMMA OtherSteps ==
    ASSUME RestoreInv,
           \/ \E f \in Posture : \E c \in w.edits : Edit(f, c)
           \/ \E p \in Projects : LockOther(p)
           \/ CommandStep
    PROVE  RestoreInv'
<1>0. /\ DOMAIN file = Posture /\ DOMAIN canonical = HookFiles
      /\ DOMAIN session = Projects /\ \A q \in Projects : DOMAIN session[q] = StFields
  BY DEF RestoreInv, Types
<1>1. ASSUME UNCHANGED <<w, file, canonical, proc>>, DOMAIN session' = Projects, \A q \in Projects : DOMAIN session'[q] = StFields
      PROVE  RestoreInv'
  BY <1>1, SessionStep
<1>2. ASSUME NEW f \in Posture, NEW c \in w.edits, Edit(f, c) PROVE RestoreInv'
  BY <1>0, <1>2, WriteStep DEF Edit
<1>3. ASSUME NEW p \in Projects, LockOther(p) PROVE RestoreInv'
  BY <1>0, <1>1, <1>3 DEF LockOther, StFields
<1>4. ASSUME NEW f \in HookFiles, WriteConfig(f) PROVE RestoreInv'
  BY <1>0, <1>4, WriteStep DEF WriteConfig
<1>5. ASSUME NEW f \in HookFiles, WriteCanonical(f) PROVE RestoreInv'
  BY <1>0, <1>5, WriteStep DEF WriteCanonical
<1>6. ASSUME SessionStart PROVE RestoreInv'
  BY <1>0, <1>1, <1>6, Records DEF SessionStart
<1>7. ASSUME NEW p \in Projects, Rebaseline(p) PROVE RestoreInv'
  BY <1>0, <1>1, <1>7 DEF Rebaseline, Rebaselined, StFields
<1>8. ASSUME UNCHANGED <<w, file, canonical, session, proc>> PROVE RestoreInv'
  BY <1>0, <1>1, <1>8
<1>9. CASE CommandStep
  <2>1. ASSUME NEW p, NEW v, NEW chosen, NEW r, StartInstall(p, v, chosen, r) PROVE RestoreInv'
    BY <1>8, <2>1 DEF StartInstall
  <2>2. CASE StartUninstall \/ InstallDies
    BY <1>8, <2>2 DEF StartUninstall, InstallDies
  <2>3. ASSUME NEW f \in HookFiles, ReadConfig(f) PROVE RestoreInv'
    BY <1>8, <2>3 DEF ReadConfig
  <2>4. QED
    BY <1>4, <1>5, <1>6, <1>7, <1>9, <2>1, <2>2, <2>3 DEF CommandStep
<1>10. QED
  BY <1>2, <1>3, <1>9

\* The restored files are as they were restored until someone writes them.
LEMMA RestoreInvariant == Spec => []RestoreInv
<1>1. Init => RestoreInv
  <2> SUFFICES ASSUME Init PROVE RestoreInv
    OBVIOUS
  <2>1. \A p \in Projects : proc[p] = Free /\ DOMAIN session[p] = StFields
    BY Records DEF Init
  <2>2. Free.restored = {}
    BY DEF Free
  <2>3. QED
    BY <2>1, <2>2, Records, WorldsAssumption DEF Init, RestoreInv, Types, StillSo, Posture, HookFiles, Projects
<1>2. RestoreInv /\ [Next]_vars => RestoreInv'
  <2> SUFFICES ASSUME RestoreInv, [Next]_vars PROVE RestoreInv'
    OBVIOUS
  <2>1. CASE UNCHANGED vars
    <3>1. UNCHANGED <<w, file, canonical, proc, session>>
      BY <2>1 DEF vars
    <3>2. DOMAIN session = Projects /\ \A q \in Projects : DOMAIN session[q] = StFields
      BY DEF RestoreInv, Types
    <3>3. QED
      BY <3>1, <3>2, SessionStep
  <2>2. ASSUME NEW p \in Projects, HookStep(p) PROVE RestoreInv'
    <3>1. CASE \E f \in proc[p].todo : Restore(p, f)
      BY <3>1, RestoreStep
    <3>2. CASE ~\E f \in proc[p].todo : Restore(p, f)
      <4>1. \/ \E kind \in w.kinds : Start(p, kind)
            \/ Look(p) \/ HashGlobal(p) \/ Detect(p) \/ Record(p) \/ SetDenyAll(p) \/ Rehash(p) \/ Save(p)
            \/ RebaselineAfterWrite(p) \/ SubagentStart(p) \/ Bootstrap(p) \/ Die(p)
        BY <2>2, <3>2 DEF HookStep
      <4>2. QED
        BY <4>1, ProcessSteps
    <3>3. QED
      BY <3>1, <3>2
  <2>3. QED
    BY <2>1, <2>2, OtherSteps DEF Next
<1>3. QED
  BY <1>1, <1>2, PTL DEF Spec

\* Only the process itself takes the step from "rehash" to "save".
LEMMA OnlyRehash ==
    ASSUME RestoreInv, [Next]_vars, NEW p \in Projects, proc[p].at = "rehash", proc'[p].at = "save"
    PROVE  Rehash(p)
<1>0. DOMAIN proc = Projects /\ DOMAIN proc[p] = ProcFields
  BY DEF RestoreInv, Types, IsProc
<1>1. proc' # proc
  OBVIOUS
<1>2. ASSUME NEW f PROVE Rewritten(f)[p].at = proc[p].at
  BY RewrittenIs DEF RestoreInv, ProcFields
<1>3. ASSUME NEW f PROVE proc' # Rewritten(f)
  BY <1>2
<1>4. ASSUME NEW q \in Projects, HookStep(q) PROVE Rehash(p)
  <2>1. CASE q # p
    <3>1. ASSUME NEW r, proc' = [proc EXCEPT ![q] = r] PROVE FALSE
      BY <1>0, <2>1, <3>1
    <3>2. ASSUME NEW f, NEW u, proc' = [Rewritten(f) EXCEPT ![q].at = "record", ![q].cur = f, ![q].undid = u, ![q].restored = @ \cup {f}]
          PROVE  FALSE
      <4>1. DOMAIN Rewritten(f) = Projects
        BY RewrittenIs DEF RestoreInv
      <4>2. proc'[p] = Rewritten(f)[p]
        BY <2>1, <3>2, <4>1
      <4>3. QED
        BY <1>2, <4>2
    <3>3. ASSUME NEW f, Restore(q, f) PROVE FALSE
      <4>1. CASE managedHookBaseline(f).here
        <5> DEFINE u == IF hashSentinelFile(f) # Parsed(Restored(f).hooks) THEN 1 ELSE 0
        <5>1. proc' = [Rewritten(f) EXCEPT ![q].at = "record", ![q].cur = f, ![q].undid = u, ![q].restored = @ \cup {f}]
          BY <3>3, <4>1 DEF Restore
        <5> HIDE DEF u
        <5>2. QED
          BY <3>2, <5>1
      <4>2. CASE ~managedHookBaseline(f).here
        BY <1>0, <2>1, <3>3, <4>2 DEF Restore
      <4>3. QED
        BY <4>1, <4>2
    <3>4. ~Look(q) /\ ~HashGlobal(q) /\ ~Detect(q) /\ ~Record(q)
      BY <1>0, <2>1 DEF Look, HashGlobal, Detect, Record
    <3>5. ~SetDenyAll(q) /\ ~Rehash(q) /\ ~Save(q) /\ ~Bootstrap(q) /\ ~Die(q) /\ \A kind : ~Start(q, kind)
      BY <1>0, <2>1 DEF SetDenyAll, Rehash, Save, Bootstrap, Die, Start
    <3>6. ~RebaselineAfterWrite(q) /\ ~SubagentStart(q)
      BY DEF RebaselineAfterWrite, SubagentStart
    <3>7. QED
      BY <1>4, <3>3, <3>4, <3>5, <3>6 DEF HookStep
  <2>2. CASE q = p
    <3>1. Free.at = "idle"
      BY DEF Free
    <3>2. ~Die(p)
      BY <1>0, <3>1 DEF Die
    <3>3. QED
      BY <1>4, <2>2, <3>2 DEF HookStep, Start, Look, HashGlobal, Detect, Restore, Record, SetDenyAll, Save,
         RebaselineAfterWrite, SubagentStart, Bootstrap
  <2>3. QED
    BY <2>1, <2>2
<1>5. \A f, c : ~Edit(f, c)
  BY <1>3 DEF Edit
<1>6. \A q : ~LockOther(q)
  BY <1>1 DEF LockOther
<1>7. ~CommandStep
  <2>1. \A f : ~ReadConfig(f) /\ ~WriteConfig(f) /\ ~WriteCanonical(f)
    BY <1>1, <1>3 DEF ReadConfig, WriteConfig, WriteCanonical
  <2>2. \A q, v, chosen, b : ~StartInstall(q, v, chosen, b)
    BY <1>1 DEF StartInstall
  <2>3. ~StartUninstall /\ ~SessionStart /\ ~InstallDies /\ \A q : ~Rebaseline(q)
    BY <1>1 DEF StartUninstall, SessionStart, InstallDies, Rebaseline
  <2>4. QED
    BY <2>1, <2>2, <2>3 DEF CommandStep
<1>8. QED
  BY <1>1, <1>4, <1>5, <1>6, <1>7 DEF Next, vars

\* The sweep at the end of a session renews the hashes of hook files only
\* where it put a file back, and what it put back is the baseline unless
\* someone wrote again (runSessionTerminalPostureSweep).
THEOREM SweepsBlessNothing == Spec => SweepNeverBlesses
<1>1. RestoreInv /\ [Next]_vars =>
        [\A p \in Projects : proc[p].at = "rehash" /\ proc'[p].at = "save" =>
          \A f \in HookFiles :
             LET was == proc[p].st.posture[f]  is == proc'[p].st.posture[f] IN
             is # was /\ is = proc[p].saw[f] =>
                 f \in proc[p].again \/ is = Parsed(managedHookBaseline(f).hooks)]_vars
  <2> SUFFICES ASSUME RestoreInv, [Next]_vars, NEW p \in Projects, proc[p].at = "rehash", proc'[p].at = "save",
                      NEW f \in HookFiles, proc'[p].st.posture[f] # proc[p].st.posture[f]
               PROVE  f \in proc[p].again \/ proc'[p].st.posture[f] = Parsed(managedHookBaseline(f).hooks)
    OBVIOUS
  <2>1. Rehash(p)
    BY OnlyRehash
  <2>2. DOMAIN proc = Projects /\ DOMAIN proc[p] = ProcFields /\ DOMAIN proc[p].st = StFields
    BY DEF RestoreInv, Types, IsProc
  <2>3. proc'[p].st.posture = [g \in Posture |-> IF g \in Renewed(p) THEN hashSentinelFile(g) ELSE proc[p].st.posture[g]]
    BY <2>1, <2>2 DEF Rehash, ProcFields, StFields
  <2>4. f \in Posture
    BY DEF Posture, HookFiles
  <2>5. f \in Renewed(p) /\ proc'[p].st.posture[f] = hashSentinelFile(f)
    BY <2>3, <2>4
  <2>6. f \in proc[p].restored
    BY <2>5 DEF Renewed
  <2>7. QED
    BY <2>5, <2>6 DEF RestoreInv, StillSo
<1>2. QED
  BY <1>1, RestoreInvariant, PTL DEF Spec, SweepNeverBlesses

-----------------------------------------------------------------------------
(***************************************************************************)
(* What was undone is answered.                                            *)
(***************************************************************************)
HistFields == {"edits", "commands", "deaths", "untraced", "unlogged", "due", "other", "passed", "excused"}
HistOK ==
    /\ DOMAIN hist = HistFields /\ hist.deaths \in Nat /\ DOMAIN hist.untraced = HookFiles
    /\ DOMAIN hist.unlogged = HookFiles /\ \A f \in HookFiles : hist.unlogged[f] \in Nat

\* Those who undid an edit of a file and have not recorded it.
Owing(f) == {p \in Projects : proc[p].at = "record" /\ proc[p].cur = f /\ proc[p].undid = 1}

\* A project without a session is not locked down, and no process works
\* without a session.
Present(p) ==
    /\ ~session[p].here => session[p].deny = "none"
    /\ proc[p].at # "idle" => proc[p].st.here

\* A due lockdown is in the session, or in the copy that will be saved; while
\* a process restores it is on the way.
Locking(p) ==
    /\ proc[p].at \in {"idle", "look"} => session[p].deny # "none"
    /\ proc[p].at \in {"look", "hash", "detect", "save", "rehash"} => proc[p].st.deny # "none"

AnswerInv ==
    /\ HistOK
    /\ \A p \in Projects : Present(p)
    /\ hist.deaths = 0 =>
          /\ \A f \in HookFiles : hist.untraced[f] = Cardinality(Owing(f)) + hist.unlogged[f]
          /\ \A p \in hist.due : p \in Projects /\ Locking(p)

\* The number of those who owe an entry is a number.
LEMMA OwingFinite ==
    ASSUME Types
    PROVE  \A f : IsFiniteSet(Owing(f)) /\ Cardinality(Owing(f)) \in Nat
<1> TAKE f
<1>1. Owing(f) \in SUBSET Projects /\ IsFiniteSet(Projects)
  BY WorldsAssumption DEF Owing, Types, Projects
<1>2. IsFiniteSet(Owing(f))
  BY <1>1, FS_Subset
<1>3. QED
  BY <1>2, FS_CardinalityType

\* A step of a process that neither begins nor ends to owe an entry.
LEMMA OwnAnswer ==
    ASSUME Types, AnswerInv, NEW p \in Projects, NEW r, proc' = [proc EXCEPT ![p] = r],
           proc[p].at # "record", r.at # "record", UNCHANGED w,
           \A q \in Projects \ {p} : session'[q] = session[q],
           HistOK', hist'.deaths = hist.deaths, hist'.untraced = hist.untraced /\ hist'.unlogged = hist.unlogged, hist'.due \subseteq hist.due \cup {p},
           ~session'[p].here => session'[p].deny = "none",
           r.at # "idle" => r.st.here,
           hist.deaths = 0 /\ p \in hist'.due =>
              /\ r.at \in {"idle", "look"} => session'[p].deny # "none"
              /\ r.at \in {"look", "hash", "detect", "save", "rehash"} => r.st.deny # "none"
    PROVE  AnswerInv'
<1>1. DOMAIN proc = Projects /\ proc'[p] = r /\ \A q \in Projects \ {p} : proc'[q] = proc[q]
  BY DEF Types
<1>2. UNCHANGED Projects /\ UNCHANGED HookFiles
  BY DEF Projects, HookFiles
<1>3. \A q \in Projects : Present(q)'
  BY <1>1 DEF Present, AnswerInv
<1>4. \A f : Owing(f)' = Owing(f)
  BY <1>1, <1>2 DEF Owing
<1>5. ASSUME hist.deaths = 0, NEW q \in hist'.due PROVE q \in Projects /\ Locking(q)'
  BY <1>1, <1>5 DEF Locking, AnswerInv
<1>6. QED
  BY <1>2, <1>3, <1>4, <1>5 DEF AnswerInv

\* A step that leaves the processes where they are.
LEMMA OthersAnswer ==
    ASSUME Types, AnswerInv, UNCHANGED w,
           \A q \in Projects : \A x \in {"at", "cur", "undid", "st"} : proc'[q][x] = proc[q][x],
           HistOK', hist'.deaths = 0 => hist.deaths = 0, hist'.untraced = hist.untraced /\ hist'.unlogged = hist.unlogged, hist'.due \subseteq hist.due,
           \A q \in Projects : ~session'[q].here => session'[q].deny = "none",
           \A q \in hist'.due \cap Projects : session[q].deny # "none" => session'[q].deny # "none"
    PROVE  AnswerInv'
<1>1. UNCHANGED Projects /\ UNCHANGED HookFiles
  BY DEF Projects, HookFiles
<1>2. \A q \in Projects : proc'[q].at = proc[q].at /\ proc'[q].cur = proc[q].cur
                           /\ proc'[q].undid = proc[q].undid /\ proc'[q].st = proc[q].st
  OBVIOUS
<1>3. \A q \in Projects : Present(q)'
  BY <1>2 DEF Present, AnswerInv
<1>4. \A f : Owing(f)' = Owing(f)
  BY <1>1, <1>2 DEF Owing
<1>5. ASSUME hist'.deaths = 0, NEW q \in hist'.due PROVE q \in Projects /\ Locking(q)'
  BY <1>2, <1>5 DEF Locking, AnswerInv
<1>6. QED
  BY <1>1, <1>3, <1>4, <1>5 DEF AnswerInv

\* Undoing an edit makes the process owe an entry.
LEMMA RestoreAnswer ==
    ASSUME Types, AnswerInv, NEW p \in Projects, NEW f \in proc[p].todo, Restore(p, f)
    PROVE  AnswerInv'
<1>1. /\ f \in HookFiles /\ proc[p].at = "restore" /\ UNCHANGED <<w, session>>
      /\ proc[p].undid = 0 /\ proc[p].st.here /\ DOMAIN proc[p] = ProcFields /\ DOMAIN proc = Projects
  BY DEF Restore, Types, IsProc, AnswerInv, Present
<1>2. UNCHANGED Projects /\ UNCHANGED HookFiles
  BY <1>1 DEF Projects, HookFiles
<1>3. ASSUME NEW undid \in {0, 1},
             \A q \in Projects \ {p} : \A x \in ProcFields \ {"again"} : proc'[q][x] = proc[q][x],
             proc'[p].at = "record", proc'[p].cur = f, proc'[p].undid = undid, proc'[p].st = proc[p].st,
             HistOK', hist'.deaths = hist.deaths, hist'.due = hist.due, hist'.unlogged = hist.unlogged,
             hist.deaths = 0 => \A g \in HookFiles : hist'.untraced[g] = IF g = f THEN hist.untraced[g] + undid ELSE hist.untraced[g]
      PROVE  AnswerInv'
  <2>1. \A q \in Projects \ {p} : /\ proc'[q].at = proc[q].at /\ proc'[q].cur = proc[q].cur
                                  /\ proc'[q].undid = proc[q].undid /\ proc'[q].st = proc[q].st
    BY <1>3 DEF ProcFields
  <2>2. \A q \in Projects : Present(q)'
    BY <1>1, <1>3, <2>1 DEF Present, AnswerInv
  <2>3. ASSUME NEW g \in HookFiles PROVE Owing(g)' = IF g = f /\ undid = 1 THEN Owing(g) \cup {p} ELSE Owing(g)
    BY <1>1, <1>2, <1>3, <2>1 DEF Owing
  <2>4. p \notin Owing(f)
    BY <1>1 DEF Owing
  <2>5. Cardinality(Owing(f) \cup {p}) = Cardinality(Owing(f)) + 1
    BY <2>4, OwingFinite, FS_AddElement
  <2>6. ASSUME hist.deaths = 0, NEW g \in HookFiles PROVE hist'.untraced[g] = Cardinality(Owing(g)') + hist'.unlogged[g]
    <3> DEFINE o == Owing(g)  n == Cardinality(Owing(f))
    <3>1. Owing(g)' = IF g = f /\ undid = 1 THEN o \cup {p} ELSE o
      BY <2>3
    <3>2. /\ hist.untraced[g] = Cardinality(o) + hist.unlogged[g] /\ hist.untraced[f] = n + hist.unlogged[f]
          /\ n \in Nat /\ Cardinality(o) \in Nat /\ hist'.unlogged = hist.unlogged
          /\ hist.unlogged[g] \in Nat /\ hist.unlogged[f] \in Nat
      BY <1>1, <1>3, <2>6, OwingFinite DEF AnswerInv, HistOK
    <3>3. hist'.untraced[g] = IF g = f THEN hist.untraced[g] + undid ELSE hist.untraced[g]
      BY <1>3, <2>6, <3>2
    <3>4. g = f => o = Owing(f)
      OBVIOUS
    <3>5. CASE g = f /\ undid = 1
      BY <2>5, <3>1, <3>2, <3>3, <3>5
    <3>6. CASE g # f
      BY <3>1, <3>2, <3>3, <3>6
    <3>7. CASE g = f /\ undid = 0
      BY <3>1, <3>2, <3>3, <3>7
    <3>8. QED
      BY <1>3, <3>5, <3>6, <3>7
  <2>7. ASSUME hist.deaths = 0, NEW q \in hist'.due PROVE q \in Projects /\ Locking(q)'
    BY <1>1, <1>3, <2>1, <2>7 DEF Locking, AnswerInv
  <2>8. QED
    BY <1>2, <1>3, <2>2, <2>6, <2>7 DEF AnswerInv
<1>4. CASE ~managedHookBaseline(f).here
  <2>1. proc' = [proc EXCEPT ![p].at = "record", ![p].cur = f] /\ UNCHANGED hist
    BY <1>4 DEF Restore
  <2>2. /\ \A q \in Projects \ {p} : proc'[q] = proc[q]
        /\ proc'[p].at = "record" /\ proc'[p].cur = f /\ proc'[p].undid = 0 /\ proc'[p].st = proc[p].st
    BY <1>1, <2>1 DEF ProcFields
  <2>3. HistOK'
    BY <1>2, <2>1 DEF AnswerInv, HistOK
  <2>4. ASSUME hist.deaths = 0, NEW g \in HookFiles PROVE hist'.untraced[g] = hist.untraced[g] /\ hist.untraced[g] \in Nat
    BY <2>1, <2>4, OwingFinite DEF AnswerInv, HistOK
  <2>5. \A q \in Projects \ {p} : \A x \in ProcFields \ {"again"} : proc'[q][x] = proc[q][x]
    BY <2>2
  <2>6. hist.deaths = 0 => \A g \in HookFiles : hist'.untraced[g] = IF g = f THEN hist.untraced[g] + 0 ELSE hist.untraced[g]
    BY <2>4
  <2>7. QED
    BY <1>3, <2>1, <2>2, <2>3, <2>5, <2>6
<1>5. CASE managedHookBaseline(f).here
  <2> DEFINE undid == IF hashSentinelFile(f) # Parsed(Restored(f).hooks) THEN 1 ELSE 0
  <2>1. proc' = [Rewritten(f) EXCEPT ![p].at = "record", ![p].cur = f, ![p].undid = undid, ![p].restored = @ \cup {f}]
    BY <1>5 DEF Restore
  <2>6. hist' = [hist EXCEPT !.untraced[f] = @ + undid, !.excused = @ \/ (undid = 1 /\ inst.at # "idle")]
    BY <1>5 DEF Restore
  <2>2. undid \in {0, 1}
    OBVIOUS
  <2> HIDE DEF undid
  <2>3. /\ DOMAIN proc' = Projects
        /\ \A q \in Projects : /\ DOMAIN proc'[q] = DOMAIN proc[q]
                               /\ proc'[q].st = proc[q].st /\ proc'[q].todo = proc[q].todo
                               /\ proc'[q].again = proc[q].again \cup (proc[q].restored \cap {f})
        /\ \A q \in Projects \ {p} : \A x \in ProcFields \ {"again"} : proc'[q][x] = proc[q][x]
        /\ proc'[p].at = "record" /\ proc'[p].cur = f /\ proc'[p].undid = undid
        /\ proc'[p].restored = proc[p].restored \cup {f}
    BY <2>1, RestoredIs
  <2>4. /\ HistOK' /\ hist'.deaths = hist.deaths /\ hist'.due = hist.due /\ hist'.unlogged = hist.unlogged
        /\ \A g \in HookFiles : hist'.untraced[g] = IF g = f THEN hist.untraced[g] + undid ELSE hist.untraced[g]
    BY <1>1, <1>2, <2>6 DEF AnswerInv, HistOK, HistFields
  <2>5. QED
    BY <1>3, <2>2, <2>3, <2>4
<1>6. QED
  BY <1>4, <1>5

\* The entry is written, and a lockdown is due.
LEMMA RecordAnswer ==
    ASSUME Types, AnswerInv, NEW p \in Projects, Record(p)
    PROVE  AnswerInv'
<1> DEFINE f == proc[p].cur
<1>1. /\ f \in HookFiles /\ proc[p].at = "record" /\ UNCHANGED <<w, session>>
      /\ proc[p].undid \in {0, 1} /\ proc[p].st.here /\ DOMAIN proc = Projects /\ DOMAIN proc[p] = ProcFields
  BY DEF Record, Types, IsProc, AnswerInv, Present
<1>2. UNCHANGED Projects /\ UNCHANGED HookFiles
  BY <1>1 DEF Projects, HookFiles
<1>3. proc' = [proc EXCEPT ![p].at = "restore", ![p].todo = @ \ {f}, ![p].cur = "none", ![p].undid = 0]
  BY DEF Record
<1>4. /\ \A q \in Projects \ {p} : proc'[q] = proc[q]
      /\ proc'[p].at = "restore" /\ proc'[p].st = proc[p].st
  BY <1>1, <1>3 DEF ProcFields
<1>5. \/ hist' = [hist EXCEPT !.untraced[f] = @ - proc[p].undid, !.due = @ \cup {p}]
      \/ hist' = [hist EXCEPT !.unlogged[f] = @ + proc[p].undid, !.due = @ \cup {p}]
  BY DEF Record
\* Written or not, what nobody owes any more is traced or counted as lost.
<1>6. /\ HistOK' /\ hist'.deaths = hist.deaths /\ hist'.due = hist.due \cup {p}
      /\ \A g \in HookFiles :
            \/ /\ hist'.untraced[g] = IF g = f THEN hist.untraced[g] - proc[p].undid ELSE hist.untraced[g]
               /\ hist'.unlogged[g] = hist.unlogged[g]
            \/ /\ hist'.unlogged[g] = IF g = f THEN hist.unlogged[g] + proc[p].undid ELSE hist.unlogged[g]
               /\ hist'.untraced[g] = hist.untraced[g]
  <2> HIDE DEF f
  <2>1. HistOK /\ HookFiles' = HookFiles
    BY <1>2 DEF AnswerInv
  <2>2. CASE hist' = [hist EXCEPT !.untraced[f] = @ - proc[p].undid, !.due = @ \cup {p}]
    BY <1>1, <2>1, <2>2 DEF HistOK, HistFields
  <2>3. CASE hist' = [hist EXCEPT !.unlogged[f] = @ + proc[p].undid, !.due = @ \cup {p}]
    BY <1>1, <2>1, <2>3 DEF HistOK, HistFields
  <2>4. QED
    BY <1>5, <2>2, <2>3
<1>7. \A q \in Projects : Present(q)'
  BY <1>1, <1>4 DEF Present, AnswerInv
<1>8. ASSUME NEW g \in HookFiles
      PROVE  /\ Owing(g)' = Owing(g) \ {p}
             /\ p \in Owing(g) <=> g = f /\ proc[p].undid = 1
  BY <1>1, <1>2, <1>4 DEF Owing
<1>9. ASSUME hist.deaths = 0, NEW g \in HookFiles PROVE hist'.untraced[g] = Cardinality(Owing(g)') + hist'.unlogged[g]
  <2> DEFINE o == Owing(g)
  <2>1. /\ hist.untraced[g] = Cardinality(o) + hist.unlogged[g] /\ hist.unlogged[g] \in Nat
        /\ Cardinality(o) \in Nat /\ IsFiniteSet(o)
    BY <1>9, OwingFinite DEF AnswerInv, HistOK
  <2>2. Cardinality(o \ {p}) = IF p \in o THEN Cardinality(o) - 1 ELSE Cardinality(o)
    BY <2>1, FS_RemoveElement
  <2>3. Owing(g)' = o \ {p} /\ (p \in o <=> g = f /\ proc[p].undid = 1)
    BY <1>8
  <2>4. \/ /\ hist'.untraced[g] = IF g = f THEN hist.untraced[g] - proc[p].undid ELSE hist.untraced[g]
           /\ hist'.unlogged[g] = hist.unlogged[g]
        \/ /\ hist'.unlogged[g] = IF g = f THEN hist.unlogged[g] + proc[p].undid ELSE hist.unlogged[g]
           /\ hist'.untraced[g] = hist.untraced[g]
    BY <1>6
  <2> HIDE DEF o, f
  <2>5. CASE p \in o
    BY <2>1, <2>2, <2>3, <2>4, <2>5
  <2>6. CASE p \notin o
    BY <1>1, <2>1, <2>2, <2>3, <2>4, <2>6
  <2>7. QED
    BY <2>5, <2>6
<1>10. ASSUME hist.deaths = 0, NEW q \in hist'.due PROVE q \in Projects /\ Locking(q)'
  BY <1>1, <1>4, <1>6, <1>10 DEF Locking, AnswerInv
<1>11. QED
  BY <1>2, <1>6, <1>7, <1>9, <1>10 DEF AnswerInv

\* The other steps of a process.
LEMMA ProcessAnswers ==
    ASSUME Types, AnswerInv, NEW p \in Projects,
           \/ \E kind \in w.kinds : Start(p, kind)
           \/ Look(p) \/ HashGlobal(p) \/ Detect(p) \/ SetDenyAll(p) \/ Rehash(p) \/ Save(p)
           \/ RebaselineAfterWrite(p) \/ SubagentStart(p) \/ Bootstrap(p) \/ Die(p)
    PROVE  AnswerInv'
<1>0. /\ DOMAIN proc = Projects /\ IsProc(proc[p]) /\ DOMAIN session = Projects /\ DOMAIN session[p] = StFields
      /\ HistOK /\ Present(p)
  BY DEF Types, AnswerInv
<1>1. UNCHANGED w /\ UNCHANGED HookFiles
  BY DEF HookFiles, Start, Look, HashGlobal, Detect, SetDenyAll, Rehash, Save, RebaselineAfterWrite, SubagentStart, Bootstrap, Die
<1>2. hist.deaths = 0 /\ p \in hist.due => Locking(p)
  BY DEF AnswerInv
\* A step that changes only the process.
<1>3. ASSUME NEW r, proc' = [proc EXCEPT ![p] = r], proc[p].at # "record", r.at # "record", UNCHANGED <<session, hist>>,
             r.at # "idle" => r.st.here,
             hist.deaths = 0 /\ p \in hist.due =>
                /\ r.at \in {"idle", "look"} => session[p].deny # "none"
                /\ r.at \in {"look", "hash", "detect", "save", "rehash"} => r.st.deny # "none"
      PROVE  AnswerInv'
  <2>1. HistOK' /\ hist'.deaths = hist.deaths /\ hist'.untraced = hist.untraced /\ hist'.unlogged = hist.unlogged /\ hist'.due = hist.due
    BY <1>0, <1>1, <1>3 DEF HistOK
  <2>2. \A q \in Projects : session'[q] = session[q]
    BY <1>3
  <2>3. ~session'[p].here => session'[p].deny = "none"
    BY <1>0, <2>2 DEF Present
  <2>4. QED
    BY <1>1, <1>3, <2>1, <2>2, <2>3, OwnAnswer
\* A step that changes only the session.
<1>4. ASSUME UNCHANGED <<proc, hist>>, \A q \in Projects \ {p} : session'[q] = session[q],
             session'[p].here, session[p].deny = "none" \/ session'[p].deny # "none"
      PROVE  AnswerInv'
  <2>1. HistOK' /\ hist'.deaths = hist.deaths /\ hist'.untraced = hist.untraced /\ hist'.unlogged = hist.unlogged /\ hist'.due = hist.due
    BY <1>0, <1>1, <1>4 DEF HistOK
  <2>2. \A q \in Projects : ~session'[q].here => session'[q].deny = "none"
    BY <1>4 DEF AnswerInv, Present
  <2>3. \A q \in hist'.due \cap Projects : session[q].deny # "none" => session'[q].deny # "none"
    BY <1>4
  <2>4. \A q \in Projects : \A x \in {"at", "cur", "undid", "st"} : proc'[q][x] = proc[q][x]
    BY <1>4
  <2>5. QED
    BY <1>1, <2>1, <2>2, <2>3, <2>4, OthersAnswer
<1>5. ASSUME NEW kind \in w.kinds, Start(p, kind) PROVE AnswerInv'
  <2> DEFINE r == [Free EXCEPT !.kind = kind, !.at = "look", !.st = session[p]]
  <2>1. /\ proc' = [proc EXCEPT ![p] = r] /\ UNCHANGED <<session, hist>>
        /\ proc[p].at = "idle" /\ session[p].here
    BY <1>5 DEF Start
  <2>2. r.at = "look" /\ r.st = session[p]
    BY DEF Free
  <2> HIDE DEF r
  <2>3. QED
    BY <1>2, <1>3, <2>1, <2>2 DEF Locking
<1>6. ASSUME Look(p) PROVE AnswerInv'
  <2> DEFINE hooks == CompareSentinelHashes(proc[p].st.posture, HashSentinelFiles) \cap HookFiles
             seen == [proc[p] EXCEPT !.todo = hooks, !.saw = HashSentinelFiles]
  <2>1. proc[p].at = "look" /\ UNCHANGED <<session, hist>>
    BY <1>6 DEF Look
  <2>2. PICK r : /\ proc' = [proc EXCEPT ![p] = r]
                 /\ \/ r = [proc[p] EXCEPT !.at = "hash"] \/ r = Free
                    \/ r = [seen EXCEPT !.at = "rehash"] \/ r = [seen EXCEPT !.at = "restore"]
    BY <1>0, <1>6 DEF Look
  <2> HIDE DEF hooks
  <2>3. r.at = "idle" \/ (r.at \in {"hash", "rehash", "restore"} /\ r.st = proc[p].st)
    <3>1. DOMAIN proc[p] = ProcFields /\ DOMAIN seen = ProcFields /\ seen.st = proc[p].st
      BY <1>0 DEF IsProc, ProcFields
    <3>2. Free.at = "idle"
      BY DEF Free
    <3> HIDE DEF seen
    <3>3. CASE r = Free
      BY <3>2, <3>3
    <3>4. CASE r = [proc[p] EXCEPT !.at = "hash"]
      BY <3>1, <3>4 DEF ProcFields
    <3>5. CASE r = [seen EXCEPT !.at = "rehash"] \/ r = [seen EXCEPT !.at = "restore"]
      BY <3>1, <3>5 DEF ProcFields
    <3>6. QED
      BY <2>2, <3>3, <3>4, <3>5
  <2>4. QED
    BY <1>0, <1>2, <1>3, <2>1, <2>2, <2>3 DEF Locking, Present
<1>7. ASSUME HashGlobal(p) PROVE AnswerInv'
  <2> DEFINE now == HashGlobalHooksFile
             r == [proc[p] EXCEPT !.now = now, !.at = IF proc[p].st.global.known /\ now # proc[p].st.global THEN "detect" ELSE "save"]
  <2>1. proc' = [proc EXCEPT ![p] = r] /\ proc[p].at = "hash" /\ UNCHANGED <<session, hist>>
    BY <1>0, <1>7 DEF HashGlobal
  <2> HIDE DEF now
  <2>2. r.at \in {"detect", "save"} /\ r.st = proc[p].st
    BY <1>0 DEF IsProc, ProcFields
  <2> HIDE DEF r
  <2>3. QED
    BY <1>0, <1>2, <1>3, <2>1, <2>2 DEF Locking, Present
<1>8. ASSUME Detect(p) PROVE AnswerInv'
  <2> DEFINE changed == DetectChangedGlobalHooksStrict
             denied == [proc[p] EXCEPT !.at = "save", !.st = [proc[p].st EXCEPT !.deny = "hooks"]]
             adopted == [proc[p] EXCEPT !.at = "save", !.st = [proc[p].st EXCEPT !.global = proc[p].now]]
             found == [proc[p] EXCEPT !.at = "restore", !.todo = changed]
  <2>0. DOMAIN proc[p] = ProcFields /\ DOMAIN proc[p].st = StFields /\ proc[p].at = "detect" /\ UNCHANGED session
    BY <1>0, <1>8 DEF IsProc, Detect
  <2>1. /\ denied.at = "save" /\ denied.st.deny = "hooks" /\ denied.st.here = proc[p].st.here
        /\ adopted.at = "save" /\ adopted.st.deny = proc[p].st.deny /\ adopted.st.here = proc[p].st.here
        /\ found.at = "restore" /\ found.st = proc[p].st
    BY <2>0 DEF ProcFields, StFields
  <2>2. CASE proc' = [proc EXCEPT ![p].at = "save", ![p].st.deny = "hooks"] /\ hist' = [hist EXCEPT !.due = @ \cup {p}]
    <3>1. proc' = [proc EXCEPT ![p] = denied]
      BY <1>0, <2>2 DEF IsProc
    <3>2. HistOK' /\ hist'.deaths = hist.deaths /\ hist'.untraced = hist.untraced /\ hist'.unlogged = hist.unlogged /\ hist'.due = hist.due \cup {p}
      BY <1>0, <1>1, <2>2 DEF HistOK, HistFields
    <3>3. denied.st.here /\ \A q \in Projects : session'[q] = session[q]
      BY <1>0, <2>0, <2>1 DEF Present
    <3>4. ~session'[p].here => session'[p].deny = "none"
      BY <1>0, <3>3 DEF Present
    <3> HIDE DEF denied
    <3>5. QED
      BY <1>1, <2>0, <2>1, <3>1, <3>2, <3>3, <3>4, OwnAnswer
  <2>3. CASE proc' = [proc EXCEPT ![p].at = "save", ![p].st.global = proc[p].now] /\ UNCHANGED hist
    <3>1. proc' = [proc EXCEPT ![p] = adopted]
      BY <1>0, <2>3 DEF IsProc
    <3> HIDE DEF adopted
    <3>2. QED
      BY <1>0, <1>2, <1>3, <2>0, <2>1, <2>3, <3>1 DEF Locking, Present
  <2>4. CASE proc' = [proc EXCEPT ![p].at = "restore", ![p].todo = changed] /\ UNCHANGED hist
    <3>1. proc' = [proc EXCEPT ![p] = found]
      BY <1>0, <2>4 DEF IsProc
    <3> HIDE DEF found
    <3>2. QED
      BY <1>0, <1>2, <1>3, <2>0, <2>1, <2>4, <3>1 DEF Locking, Present
  <2>5. QED
    BY <1>8, <2>2, <2>3, <2>4 DEF Detect
<1>9. ASSUME SetDenyAll(p) PROVE AnswerInv'
  <2> DEFINE r == [proc[p] EXCEPT !.st = [proc[p].st EXCEPT !.deny = "hooks"], !.at = IF proc[p].kind = "sweep" THEN "rehash" ELSE "save"]
  <2>1. proc' = [proc EXCEPT ![p] = r] /\ proc[p].at = "restore" /\ UNCHANGED <<session, hist>>
    BY <1>0, <1>9 DEF SetDenyAll, IsProc
  <2>2. r.at \in {"rehash", "save"} /\ r.st.deny = "hooks" /\ r.st.here = proc[p].st.here
    BY <1>0 DEF IsProc, ProcFields, StFields
  <2> HIDE DEF r
  <2>3. QED
    BY <1>0, <1>3, <2>1, <2>2 DEF Present
<1>10. ASSUME Rehash(p) PROVE AnswerInv'
  <2> DEFINE hashes == [f \in Posture |-> IF f \in Renewed(p) THEN hashSentinelFile(f) ELSE proc[p].st.posture[f]]
             r == [proc[p] EXCEPT !.at = "save", !.st = [proc[p].st EXCEPT !.posture = hashes]]
  <2>1. proc' = [proc EXCEPT ![p] = r] /\ proc[p].at = "rehash" /\ UNCHANGED <<session, hist>>
    BY <1>0, <1>10 DEF Rehash, IsProc
  <2> HIDE DEF hashes
  <2>2. r.at = "save" /\ r.st.deny = proc[p].st.deny /\ r.st.here = proc[p].st.here
    BY <1>0 DEF IsProc, ProcFields, StFields
  <2> HIDE DEF r
  <2>3. QED
    BY <1>0, <1>2, <1>3, <2>1, <2>2 DEF Locking, Present
<1>11. ASSUME Save(p) PROVE AnswerInv'
  <2>1. /\ proc' = [proc EXCEPT ![p] = Free] /\ proc[p].at = "save"
        /\ \A q \in Projects \ {p} : session'[q] = session[q]
        /\ \/ session'[p] = proc[p].st /\ UNCHANGED hist
           \/ session'[p] = session[p] /\ hist' = [hist EXCEPT !.due = IF session[p].deny = "none" THEN @ \ {p} ELSE @]
    BY <1>0, <1>11 DEF Save
  <2>2. /\ HistOK' /\ hist'.deaths = hist.deaths /\ hist'.untraced = hist.untraced /\ hist'.unlogged = hist.unlogged
        /\ hist'.due \subseteq hist.due
        /\ session'[p] # proc[p].st => session'[p] = session[p] /\ (p \in hist'.due => session[p].deny # "none")
    BY <1>0, <1>1, <2>1 DEF HistOK, HistFields
  <2>3. /\ ~session'[p].here => session'[p].deny = "none"
        /\ hist.deaths = 0 /\ p \in hist'.due => session'[p].deny # "none"
    BY <1>0, <1>2, <2>1, <2>2 DEF Locking, Present
  <2>4. Free.at = "idle"
    BY DEF Free
  <2>5. QED
    BY <1>1, <2>1, <2>2, <2>3, <2>4, OwnAnswer
<1>12. CASE RebaselineAfterWrite(p) \/ SubagentStart(p)
  <2>1. /\ UNCHANGED <<proc, hist>> /\ session[p].deny = "none"
        /\ session'[p].here /\ \A q \in Projects \ {p} : session'[q] = session[q]
    BY <1>0, <1>12 DEF RebaselineAfterWrite, SubagentStart, StFields
  <2>2. QED
    BY <1>4, <2>1
<1>13. ASSUME Bootstrap(p) PROVE AnswerInv'
  <2> DEFINE r == [Free EXCEPT !.kind = "boot", !.at = "save", !.st = NewState]
  <2>1. /\ proc' = [proc EXCEPT ![p] = r] /\ UNCHANGED <<session, hist>>
        /\ proc[p].at = "idle" /\ session[p].deny = "none"
    BY <1>0, <1>13 DEF Bootstrap, Present
  <2>2. r.at = "save" /\ r.st.here
    BY DEF Free, NewState
  <2> HIDE DEF r
  <2>3. QED
    BY <1>2, <1>3, <2>1, <2>2 DEF Locking
<1>14. ASSUME Die(p) PROVE AnswerInv'
  <2>1. /\ proc' = [proc EXCEPT ![p] = Free] /\ UNCHANGED session
        /\ HistOK' /\ hist'.deaths # 0
    BY <1>0, <1>1, <1>14 DEF Die, HistOK, HistFields
  <2>2. Free.at = "idle"
    BY DEF Free
  <2>3. UNCHANGED Projects /\ \A q \in Projects : Present(q)'
    BY <1>0, <1>1, <2>1, <2>2 DEF Present, AnswerInv, Projects
  <2>4. QED
    BY <2>1, <2>3 DEF AnswerInv
<1>15. QED
  BY <1>5, <1>6, <1>7, <1>8, <1>9, <1>10, <1>11, <1>12, <1>13, <1>14

\* The steps that are not a process's own.
LEMMA OtherAnswers ==
    ASSUME Types, AnswerInv,
           \/ \E f \in Posture : \E c \in w.edits : Edit(f, c)
           \/ \E p \in Projects : LockOther(p)
           \/ CommandStep
    PROVE  AnswerInv'
<1>0. /\ DOMAIN session = Projects /\ \A q \in Projects : DOMAIN session[q] = StFields
      /\ HistOK /\ \A q \in Projects : ~session[q].here => session[q].deny = "none"
  BY DEF Types, AnswerInv, Present
\* Processes and sessions stay.
<1>1. ASSUME UNCHANGED <<w, session>>, UNCHANGED proc \/ \E f : proc' = Rewritten(f),
             HistOK', hist'.deaths = 0 => hist.deaths = 0, hist'.untraced = hist.untraced /\ hist'.unlogged = hist.unlogged, hist'.due = hist.due
      PROVE  AnswerInv'
  <2>1. \A q \in Projects : \A x \in {"at", "cur", "undid", "st"} : proc'[q][x] = proc[q][x]
    <3>1. CASE UNCHANGED proc
      BY <3>1
    <3>2. ASSUME NEW f, proc' = Rewritten(f)
          PROVE  \A q \in Projects : \A x \in {"at", "cur", "undid", "st"} : proc'[q][x] = proc[q][x]
      <4>1. \A q \in Projects : \A x \in ProcFields \ {"again"} : Rewritten(f)[q][x] = proc[q][x]
        BY RewrittenIs
      <4>2. {"at", "cur", "undid", "st"} \subseteq ProcFields \ {"again"}
        BY DEF ProcFields
      <4>3. QED
        BY <3>2, <4>1, <4>2
    <3>3. QED
      BY <1>1, <3>1, <3>2
  <2>2. /\ \A q \in Projects : ~session'[q].here => session'[q].deny = "none"
        /\ \A q \in hist'.due \cap Projects : session[q].deny # "none" => session'[q].deny # "none"
    BY <1>0, <1>1
  <2>3. QED
    BY <1>1, <2>1, <2>2, OthersAnswer
\* Only sessions change.
<1>2. ASSUME UNCHANGED <<w, proc>>, HistOK', hist'.deaths = hist.deaths, hist'.untraced = hist.untraced /\ hist'.unlogged = hist.unlogged, hist'.due \subseteq hist.due,
             \A q \in Projects : ~session'[q].here => session'[q].deny = "none",
             \A q \in hist'.due \cap Projects : session[q].deny # "none" => session'[q].deny # "none"
      PROVE  AnswerInv'
  <2>1. \A q \in Projects : \A x \in {"at", "cur", "undid", "st"} : proc'[q][x] = proc[q][x]
    BY <1>2
  <2>2. QED
    BY <1>2, <2>1, OthersAnswer
<1>3. ASSUME NEW f \in Posture, NEW c \in w.edits, Edit(f, c) PROVE AnswerInv'
  <2>1. HistOK' /\ hist'.deaths = hist.deaths /\ hist'.untraced = hist.untraced /\ hist'.unlogged = hist.unlogged /\ hist'.due = hist.due
    BY <1>0, <1>3 DEF Edit, HistOK, HistFields, HookFiles
  <2>2. QED
    BY <1>1, <1>3, <2>1 DEF Edit
<1>4. ASSUME NEW p \in Projects, LockOther(p) PROVE AnswerInv'
  <2>1. HistOK' /\ hist'.deaths = hist.deaths /\ hist'.untraced = hist.untraced /\ hist'.unlogged = hist.unlogged /\ hist'.due = hist.due
    BY <1>0, <1>4 DEF LockOther, HistOK, HistFields, HookFiles
  <2>2. /\ \A q \in Projects \ {p} : session'[q] = session[q]
        /\ session'[p].here /\ session'[p].deny = "other"
    BY <1>0, <1>4 DEF LockOther, StFields
  <2>3. QED
    BY <1>0, <1>2, <1>4, <2>1, <2>2 DEF LockOther
<1>5. ASSUME NEW f \in HookFiles, ReadConfig(f) \/ WriteConfig(f) \/ WriteCanonical(f) PROVE AnswerInv'
  <2>1. UNCHANGED <<w, session, hist>> /\ (UNCHANGED proc \/ \E g : proc' = Rewritten(g))
    BY <1>5 DEF ReadConfig, WriteConfig, WriteCanonical
  <2>2. HistOK'
    BY <1>0, <2>1 DEF HistOK, HookFiles
  <2>3. QED
    BY <1>1, <2>1, <2>2
<1>6. ASSUME SessionStart PROVE AnswerInv'
  <2> DEFINE p == inst.home
  <2>1. HistOK' /\ hist'.deaths = hist.deaths /\ hist'.untraced = hist.untraced /\ hist'.unlogged = hist.unlogged /\ hist'.due = hist.due \ {p}
    BY <1>0, <1>6 DEF SessionStart, HistOK, HistFields, HookFiles
  <2>2. /\ \A q \in Projects \ {p} : session'[q] = session[q]
        /\ p \in Projects => session'[p].here
    BY <1>0, <1>6 DEF SessionStart, NewState
  <2>3. UNCHANGED <<w, proc>>
    BY <1>6 DEF SessionStart
  <2> HIDE DEF p
  <2>4. QED
    BY <1>0, <1>2, <2>1, <2>2, <2>3
<1>7. ASSUME NEW p \in Projects, Rebaseline(p) PROVE AnswerInv'
  <2>1. UNCHANGED <<w, proc>>
    BY <1>7 DEF Rebaseline
  <2>2. CASE /\ session[p].here
             /\ session' = [session EXCEPT ![p] = Rebaselined(@)]
             /\ hist' = [hist EXCEPT !.due = IF isHookInducedDenyReason(session[p].deny) THEN @ \ {p} ELSE @,
                                     !.passed = @ \ {p}]
    <3>1. /\ HistOK' /\ hist'.deaths = hist.deaths /\ hist'.untraced = hist.untraced /\ hist'.unlogged = hist.unlogged
          /\ hist'.due = IF session[p].deny = "hooks" THEN hist.due \ {p} ELSE hist.due
      BY <1>0, <2>1, <2>2 DEF HistOK, HistFields, HookFiles, isHookInducedDenyReason
    <3>2. /\ \A q \in Projects \ {p} : session'[q] = session[q]
          /\ session'[p].here /\ (session[p].deny # "hooks" => session'[p].deny = session[p].deny)
      BY <1>0, <2>2 DEF Rebaselined, isHookInducedDenyReason, StFields
    <3>3. QED
      BY <1>0, <1>2, <2>1, <3>1, <3>2
  <2>3. CASE /\ UNCHANGED session
             /\ \/ hist' = [hist EXCEPT !.excused = @ \/ proc[p].at # "idle"]
                \/ hist' = [hist EXCEPT !.passed = @ \cup {p}]
    <3>1. HistOK' /\ hist'.deaths = hist.deaths /\ hist'.untraced = hist.untraced /\ hist'.unlogged = hist.unlogged /\ hist'.due = hist.due
      BY <1>0, <2>1, <2>3 DEF HistOK, HistFields, HookFiles
    <3>2. QED
      BY <1>1, <2>1, <2>3, <3>1
  <2>4. QED
    BY <1>7, <2>2, <2>3 DEF Rebaseline
<1>8. ASSUME NEW p, NEW v, NEW chosen, NEW r, StartInstall(p, v, chosen, r) PROVE AnswerInv'
  <2>1. HistOK' /\ hist'.deaths = hist.deaths /\ hist'.untraced = hist.untraced /\ hist'.unlogged = hist.unlogged /\ hist'.due = hist.due
    BY <1>0, <1>8 DEF StartInstall, HistOK, HistFields, HookFiles
  <2>2. QED
    BY <1>1, <1>8, <2>1 DEF StartInstall
<1>9. ASSUME StartUninstall PROVE AnswerInv'
  <2>1. HistOK' /\ hist'.deaths = hist.deaths /\ hist'.untraced = hist.untraced /\ hist'.unlogged = hist.unlogged /\ hist'.due = hist.due
    BY <1>0, <1>9 DEF StartUninstall, HistOK, HistFields, HookFiles
  <2>2. QED
    BY <1>1, <1>9, <2>1 DEF StartUninstall
<1>10. ASSUME InstallDies PROVE AnswerInv'
  <2>1. HistOK' /\ hist'.deaths # 0 /\ hist'.untraced = hist.untraced /\ hist'.unlogged = hist.unlogged /\ hist'.due = hist.due
    BY <1>0, <1>10 DEF InstallDies, HistOK, HistFields, HookFiles
  <2>2. QED
    BY <1>1, <1>10, <2>1 DEF InstallDies
<1>11. QED
  BY <1>3, <1>4, <1>5, <1>6, <1>7, <1>8, <1>9, <1>10 DEF CommandStep

\* The processes and the sessions account for what was undone.
LEMMA AnswerInvariant == Spec => []AnswerInv
<1>1. Init => AnswerInv
  <2> SUFFICES ASSUME Init PROVE AnswerInv
    OBVIOUS
  <2>1. Free.at = "idle" /\ NewState.here /\ NewState.deny = "none" /\ NoSession.deny = "none"
    BY DEF Free, NewState, NoSession
  <2>2. \A p \in Projects : proc[p] = Free /\ (session[p] = NewState \/ session[p] = NoSession)
    BY DEF Init
  <2>3. \A f : Owing(f) = {}
    BY <2>1, <2>2 DEF Owing
  <2>4. HistOK /\ hist.due = {} /\ \A f \in HookFiles : hist.untraced[f] = 0 /\ hist.unlogged[f] = 0
    BY DEF Init, Quiet, HistOK, HistFields
  <2>5. QED
    BY <2>1, <2>2, <2>3, <2>4, FS_EmptySet DEF AnswerInv, Present
<1>2. RestoreInv /\ AnswerInv /\ [Next]_vars => AnswerInv'
  <2> SUFFICES ASSUME RestoreInv, AnswerInv, [Next]_vars PROVE AnswerInv'
    OBVIOUS
  <2>0. Types
    BY DEF RestoreInv
  <2>1. CASE UNCHANGED vars
    <3>1. UNCHANGED <<w, session, proc, hist, inst>>
      BY <2>1 DEF vars
    <3>2. UNCHANGED Projects /\ UNCHANGED HookFiles
      BY <3>1 DEF Projects, HookFiles
    <3>3. /\ HistOK' /\ hist'.deaths = hist.deaths /\ hist'.untraced = hist.untraced /\ hist'.unlogged = hist.unlogged /\ hist'.due = hist.due
          /\ \A q \in Projects : ~session'[q].here => session'[q].deny = "none"
          /\ \A q \in Projects : session[q].deny # "none" => session'[q].deny # "none"
          /\ \A q \in Projects : \A x \in {"at", "cur", "undid", "st"} : proc'[q][x] = proc[q][x]
      BY <3>1, <3>2 DEF AnswerInv, HistOK, Present
    <3>4. QED
      BY <2>0, <3>1, <3>3, OthersAnswer
  <2>2. ASSUME NEW p \in Projects, HookStep(p) PROVE AnswerInv'
    <3>1. CASE \E f \in proc[p].todo : Restore(p, f)
      BY <2>0, <3>1, RestoreAnswer
    <3>2. CASE Record(p)
      BY <2>0, <3>2, RecordAnswer
    <3>3. CASE ~Record(p) /\ ~\E f \in proc[p].todo : Restore(p, f)
      <4>1. \/ \E kind \in w.kinds : Start(p, kind)
            \/ Look(p) \/ HashGlobal(p) \/ Detect(p) \/ SetDenyAll(p) \/ Rehash(p) \/ Save(p)
            \/ RebaselineAfterWrite(p) \/ SubagentStart(p) \/ Bootstrap(p) \/ Die(p)
        BY <2>2, <3>3 DEF HookStep
      <4>2. QED
        BY <2>0, <4>1, ProcessAnswers
    <3>4. QED
      BY <3>1, <3>2, <3>3
  <2>3. QED
    BY <2>0, <2>1, <2>2, OtherAnswers DEF Next
<1>3. QED
  BY <1>1, <1>2, RestoreInvariant, PTL DEF Spec

\* Unless a process was killed on the way, an edit of a hook file that sir
\* undid is on a ledger, but for the entries that could not be written, and
\* the session that undid it is locked down until an install lifts it, but
\* for the sessions that could not be saved (handlePostureIntegrityDrift,
\* handleGlobalHookIntegrityDrift, handleSessionTerminalHookTamper).
THEOREM UndoneEditsAreAnswered == Spec => []UndoneIsAnswered
<1>1. RestoreInv /\ AnswerInv => UndoneIsAnswered
  <2> SUFFICES ASSUME RestoreInv, AnswerInv, hist.deaths = 0
               PROVE  /\ \A f \in HookFiles :
                            hist.untraced[f] <= hist.unlogged[f]
                              + Cardinality({p \in Projects : proc[p].at = "record" /\ proc[p].cur = f})
                      /\ \A p \in hist.due : session[p].deny # "none" \/ proc[p].at # "idle"
    BY DEF UndoneIsAnswered
  <2>1. ASSUME NEW f \in HookFiles
        PROVE  hist.untraced[f] <= hist.unlogged[f]
                 + Cardinality({p \in Projects : proc[p].at = "record" /\ proc[p].cur = f})
    <3> DEFINE those == {p \in Projects : proc[p].at = "record" /\ proc[p].cur = f}
    <3>1. IsFiniteSet(those) /\ Owing(f) \subseteq those
      <4>1. those \in SUBSET Projects /\ IsFiniteSet(Projects)
        BY WorldsAssumption DEF RestoreInv, Types, Projects
      <4>2. IsFiniteSet(those)
        BY <4>1, FS_Subset
      <4>3. QED
        BY <4>2 DEF Owing
    <3>2. /\ Cardinality(Owing(f)) <= Cardinality(those)
          /\ Cardinality(Owing(f)) \in Nat /\ Cardinality(those) \in Nat
      BY <3>1, FS_Subset, FS_CardinalityType
    <3>3. hist.untraced[f] = Cardinality(Owing(f)) + hist.unlogged[f] /\ hist.unlogged[f] \in Nat
      BY DEF AnswerInv, HistOK
    <3> HIDE DEF those
    <3>4. hist.untraced[f] <= hist.unlogged[f] + Cardinality(those)
      BY <3>2, <3>3
    <3>5. QED
      BY <3>4 DEF those
  <2>2. \A p \in hist.due : session[p].deny # "none" \/ proc[p].at # "idle"
    BY DEF AnswerInv, Locking
  <2>3. QED
    BY <2>1, <2>2
<1>2. QED
  BY <1>1, RestoreInvariant, AnswerInvariant, PTL

-----------------------------------------------------------------------------
(***************************************************************************)
(* Nobody but sir locks a session down: while nobody else writes a file,   *)
(* every file agrees with its baseline (or with the copy an install is     *)
(* about to take of it), and a session no install under way may still      *)
(* visit, and the last one did not skip, has the hashes of the files.      *)
(***************************************************************************)
\* Nobody but sir has written a file, nobody was killed, and no install went
\* wrong.
Calm == hist.edits = 0 /\ hist.deaths = 0 /\ ~hist.excused

\* The file install has written and not yet copied.
Uncopied(f) == inst.at = "backup" /\ f \in inst.walk

\* Every file agrees with its baseline, or with what will be copied.
Agreed ==
    \A f \in HookFiles :
        /\ file[f].is = "absent" => file[f].hooks = <<>>
        /\ managedHookBaseline(f).here /\ ~Uncopied(f) => hashSentinelFile(f) = Parsed(managedHookBaseline(f).hooks)
        /\ Uncopied(f) => hashSentinelFile(f) = Parsed(Merged(inst.v, inst.read).hooks)

InstFields == {"at", "command", "todo", "read", "v", "home", "walk", "rebaseline"}

\* An install under way is one that will rebaseline.  It works on one file at
\* a time, whose managed part, where a policy pins it, is the policy's.
Installing ==
    /\ DOMAIN inst = InstFields
    /\ inst.at # "idle" =>
          /\ inst.command = "install" /\ inst.rebaseline = TRUE /\ inst.v \in Sir
          /\ \A f \in inst.todo : validateGeneratedHooksPolicy(f, inst.v)
    /\ inst.at \in {"write", "backup"} =>
          \E f \in inst.todo : inst.walk = {f} /\ (w.managed => inst.read.hooks = w.policy[f])
    /\ inst.at \in {"session", "rebaseline"} => \E f \in HookFiles : file[f].is # "absent"

\* A project that no install under way may still visit, and that the last pass
\* did not skip.
Settled(p) ==
    /\ p \notin hist.passed
    /\ inst.at = "idle" \/ (inst.at = "rebaseline" /\ p \notin inst.walk)

\* A session whose hashes are those of the files, and that is not locked down
\* for them.
Fresh(st) ==
    /\ st.posture = HashSentinelFiles
    /\ st.global.known => st.global = HashGlobalHooksFile
    /\ st.deny # "hooks"

UpToDate(p) ==
    /\ session[p].here => Fresh(session[p])
    /\ proc[p].at \in {"idle", "look", "hash", "save"}
    /\ proc[p].at # "idle" => Fresh(proc[p].st)

CalmInv ==
    /\ hist.edits \in Nat
    /\ Calm => Installing /\ Agreed /\ \A p \in Projects : Settled(p) => UpToDate(p)

\* Nothing is selected at no position.
LEMMA SelectedNone == \A s : Selected(s, {}) = <<>>
<1>1. Cardinality({}) = 0
  BY FS_EmptySet
<1>2. 1..0 = {}
  OBVIOUS
<1>3. QED
  BY <1>1, <1>2 DEF Selected

\* Merging what install generates into itself changes nothing.
LEMMA MergedAgain ==
    ASSUME NEW v \in Sir, NEW c, c.hooks = generatedHooksConfigForAgent(v)
    PROVE  Merged(v, c).hooks = generatedHooksConfigForAgent(v)
<1> DEFINE hooks == generatedHooksConfigForAgent(v)
           sirs(g) == {n \in DOMAIN g : ~isSirHookCommand(g[n])}
           groups == [i \in DOMAIN hooks |-> Selected(hooks[i], sirs(hooks[i]))]
<1>1. DOMAIN hooks = {1} /\ hooks[1] = <<v>> /\ hooks \in Seq({<<v>>})
  BY DEF generatedHooksConfigForAgent
<1>2. sirs(<<v>>) = {}
  BY DEF isSirHookCommand
<1>3. DOMAIN groups = {1} /\ groups[1] = <<>>
  BY <1>1, <1>2, SelectedNone
<1>4. {i \in DOMAIN groups : groups[i] # <<>>} = {}
  BY <1>3
<1>5. filterSirHookEntries(hooks) = Selected(groups, {i \in DOMAIN groups : groups[i] # <<>>})
  BY DEF filterSirHookEntries
<1> HIDE DEF groups
<1>6. filterSirHookEntries(hooks) = <<>>
  BY <1>4, <1>5, SelectedNone
<1>7. Merged(v, c).hooks = hooks \o filterSirHookEntries(hooks)
  BY DEF Merged, Settings
<1> HIDE DEF hooks
<1>8. hooks \o <<>> = hooks
  BY <1>1
<1>9. QED
  BY <1>6, <1>7, <1>8 DEF hooks

\* The hash a new session starts from is that of the files.
LEMMA BaselineIsNow ==
    ASSUME Types, Agreed, inst.at # "backup", BaselineHash.known
    PROVE  BaselineHash = HashGlobalHooksFile
<1>1. CASE ~w.managed
  BY <1>1 DEF BaselineHash
<1>2. CASE w.managed
  <2>1. BaselineAvailable /\ BaselineHash = ManagedGlobalHooksHash
    BY <1>2 DEF BaselineHash, NoHash
  <2>2. ASSUME NEW f \in HookFiles
        PROVE  (IF managedHookBaseline(f).here THEN Parsed(managedHookBaseline(f).hooks) ELSE [is |-> "absent", hooks |-> <<>>])
                = hashSentinelFile(f)
    <3>1. CASE managedHookBaseline(f).here
      BY <3>1 DEF Agreed, Uncopied
    <3>2. CASE ~managedHookBaseline(f).here
      <4>1. file[f].is = "absent"
        BY <1>2, <2>1, <3>2 DEF BaselineAvailable, verifyManagedHookCoverage
      <4>2. QED
        BY <3>2, <4>1 DEF Agreed, hashSentinelFile
    <3>3. QED
      BY <3>1, <3>2
  <2>3. [f \in HookFiles |-> IF managedHookBaseline(f).here THEN Parsed(managedHookBaseline(f).hooks) ELSE [is |-> "absent", hooks |-> <<>>]]
        = [f \in HookFiles |-> hashSentinelFile(f)]
    BY <2>2
  <2>4. QED
    BY <2>1, <2>3 DEF ManagedGlobalHooksHash, HashGlobalHooksFile
<1>3. QED
  BY <1>1, <1>2

\* The hashes are of the managed parts.
LEMMA SameHashes ==
    ASSUME UNCHANGED w, \A f \in Posture : hashSentinelFile(f)' = hashSentinelFile(f)
    PROVE  UNCHANGED <<HashSentinelFiles, HashGlobalHooksFile>>
<1>1. UNCHANGED <<Posture, HookFiles>>
  BY DEF Posture, HookFiles
<1>2. HookFiles \subseteq Posture
  BY DEF Posture, HookFiles
<1>3. UNCHANGED HashSentinelFiles
  BY <1>1 DEF HashSentinelFiles
<1>4. UNCHANGED HashGlobalHooksFile
  <2>1. \A f \in HookFiles : hashSentinelFile(f)' = hashSentinelFile(f)
    BY <1>2
  <2>2. [f \in HookFiles |-> hashSentinelFile(f)]' = [f \in HookFiles |-> hashSentinelFile(f)]
    BY <1>1, <2>1
  <2>3. QED
    BY <1>1, <2>2 DEF HashGlobalHooksFile, hashHookChunks, NoHash
<1>5. QED
  BY <1>3, <1>4

\* A step of one project that changes no hash leaves the others up to date.
LEMMA CalmFrame ==
    ASSUME Types, Installing, Agreed, \A q \in Projects : Settled(q) => UpToDate(q),
           UNCHANGED <<w, canonical, inst>>, \A f \in Posture : hashSentinelFile(f)' = hashSentinelFile(f),
           NEW p \in Projects,
           \A q \in Projects \ {p} : session'[q] = session[q] /\ proc'[q].at = proc[q].at /\ proc'[q].st = proc[q].st,
           hist'.passed = hist.passed, Settled(p) => UpToDate(p)'
    PROVE  Installing' /\ Agreed' /\ \A q \in Projects : (Settled(q) => UpToDate(q))'
<1>1. UNCHANGED <<Posture, HookFiles, Projects>> /\ HookFiles \subseteq Posture
  BY DEF Posture, HookFiles, Projects
<1>2. ASSUME NEW f \in HookFiles
      PROVE  /\ hashSentinelFile(f)' = hashSentinelFile(f)
             /\ file'[f].is = file[f].is /\ file'[f].hooks = file[f].hooks
             /\ managedHookBaseline(f)' = managedHookBaseline(f)
  BY <1>1 DEF hashSentinelFile, managedHookBaseline
<1>3. Agreed'
  <2>1. ASSUME NEW f \in HookFiles
        PROVE  /\ file'[f].is = "absent" => file'[f].hooks = <<>>
               /\ managedHookBaseline(f)'.here /\ ~Uncopied(f)' => hashSentinelFile(f)' = Parsed(managedHookBaseline(f)'.hooks)
               /\ Uncopied(f)' => hashSentinelFile(f)' = Parsed(Merged(inst'.v, inst'.read).hooks)
    <3>1. Uncopied(f)' <=> Uncopied(f)
      BY DEF Uncopied
    <3>2. inst' = inst
      OBVIOUS
    <3>3. QED
      BY <1>2, <3>1, <3>2 DEF Agreed
  <2>2. QED
    BY <1>1, <2>1 DEF Agreed, Parsed, Merged, Settings, generatedHooksConfigForAgent
<1>4. Installing'
  <2>1. \A f : validateGeneratedHooksPolicy(f, inst.v)' <=> validateGeneratedHooksPolicy(f, inst.v)
    BY DEF validateGeneratedHooksPolicy, generatedHooksConfigForAgent
  <2>2. QED
    BY <1>1, <1>2, <2>1 DEF Installing
<1>5. ASSUME NEW q \in Projects PROVE (Settled(q) => UpToDate(q))'
  <2>1. Settled(q)' <=> Settled(q)
    BY DEF Settled
  <2>2. CASE q = p
    BY <2>1, <2>2
  <2>3. CASE q # p
    BY <2>1, <2>3, SameHashes DEF UpToDate, Fresh
  <2>4. QED
    BY <2>2, <2>3
<1>6. QED
  BY <1>1, <1>3, <1>4, <1>5

\* A process of a settled project finds nothing.
LEMMA CalmProcess ==
    ASSUME Types, AnswerInv, Installing, Agreed, \A q \in Projects : Settled(q) => UpToDate(q), NEW p \in Projects,
           \/ \E kind \in w.kinds : Start(p, kind)
           \/ Look(p) \/ HashGlobal(p) \/ Detect(p) \/ Record(p) \/ SetDenyAll(p) \/ Rehash(p) \/ Save(p)
           \/ RebaselineAfterWrite(p) \/ SubagentStart(p) \/ Bootstrap(p)
    PROVE  Installing' /\ Agreed' /\ \A q \in Projects : (Settled(q) => UpToDate(q))'
<1>0. /\ DOMAIN proc = Projects /\ IsProc(proc[p]) /\ DOMAIN session = Projects /\ DOMAIN session[p] = StFields
  BY DEF Types
<1>1. UNCHANGED <<w, file, canonical, inst>>
  BY DEF Start, Look, HashGlobal, Detect, Record, SetDenyAll, Rehash, Save, RebaselineAfterWrite, SubagentStart, Bootstrap
<1>2. \A f \in Posture : hashSentinelFile(f)' = hashSentinelFile(f)
  BY <1>1 DEF hashSentinelFile
<1>3. \A q \in Projects \ {p} : session'[q] = session[q] /\ proc'[q] = proc[q]
  BY <1>0 DEF Start, Look, HashGlobal, Detect, Record, SetDenyAll, Rehash, Save, RebaselineAfterWrite, SubagentStart, Bootstrap
<1>4. UNCHANGED <<HashSentinelFiles, HashGlobalHooksFile>>
  BY <1>1, <1>2, SameHashes
\* What the step must leave behind.
<1>5. ASSUME session'[p].here => Fresh(session'[p]),
             proc'[p].at \in {"idle", "look", "hash", "save"}, proc'[p].at # "idle" => Fresh(proc'[p].st)
      PROVE  UpToDate(p)'
  BY <1>4, <1>5 DEF UpToDate, Fresh
<1>6. ASSUME Settled(p) PROVE UpToDate(p)'
  <2>0. /\ UpToDate(p) /\ Free.at = "idle"
        /\ \A st : CompareSentinelHashes(st.posture, HashSentinelFiles) # {} => st.posture # HashSentinelFiles
    BY <1>6 DEF Free, CompareSentinelHashes
  <2>1. ASSUME NEW kind \in w.kinds, Start(p, kind) PROVE UpToDate(p)'
    <3> DEFINE r == [Free EXCEPT !.kind = kind, !.at = "look", !.st = session[p]]
    <3>1. proc'[p] = r /\ session' = session /\ session[p].here
      BY <1>0, <2>1 DEF Start
    <3>2. r.at = "look" /\ r.st = session[p]
      BY DEF Free
    <3> HIDE DEF r
    <3>3. QED
      BY <1>5, <2>0, <3>1, <3>2 DEF UpToDate
  <2>2. ASSUME Look(p) PROVE UpToDate(p)'
    <3> DEFINE drift == CompareSentinelHashes(proc[p].st.posture, HashSentinelFiles)
    <3>1. proc[p].at = "look" /\ Fresh(proc[p].st) /\ session' = session
      BY <2>0, <2>2 DEF Look, UpToDate
    <3>2. drift = {}
      BY <2>0, <3>1 DEF Fresh
    <3>3. proc' = [proc EXCEPT ![p].at = "hash"] \/ proc' = [proc EXCEPT ![p] = Free]
      BY <2>2, <3>2 DEF Look
    <3>4. (proc'[p].at = "hash" /\ proc'[p].st = proc[p].st) \/ proc'[p] = Free
      BY <1>0, <3>3 DEF IsProc, ProcFields
    <3>5. QED
      BY <1>5, <2>0, <3>1, <3>4 DEF UpToDate
  <2>3. ASSUME HashGlobal(p) PROVE UpToDate(p)'
    <3> DEFINE now == HashGlobalHooksFile
               at == IF proc[p].st.global.known /\ now # proc[p].st.global THEN "detect" ELSE "save"
    <3>1. proc[p].at = "hash" /\ Fresh(proc[p].st) /\ session' = session
      BY <2>0, <2>3 DEF HashGlobal, UpToDate
    <3>2. at = "save"
      BY <3>1 DEF Fresh
    <3>3. proc' = [proc EXCEPT ![p].now = now, ![p].at = at]
      BY <2>3 DEF HashGlobal
    <3> HIDE DEF now, at
    <3>4. proc'[p].at = "save" /\ proc'[p].st = proc[p].st
      BY <1>0, <3>2, <3>3 DEF IsProc, ProcFields
    <3>5. QED
      BY <1>5, <2>0, <3>1, <3>4 DEF UpToDate
  <2>4. ASSUME Save(p) PROVE UpToDate(p)'
    <3>1. /\ proc[p].at = "save" /\ Fresh(proc[p].st) /\ proc'[p] = Free
          /\ session'[p] = proc[p].st \/ session'[p] = session[p]
      BY <1>0, <2>0, <2>4 DEF Save, UpToDate
    <3>2. session'[p].here => Fresh(session'[p])
      BY <2>0, <3>1 DEF UpToDate
    <3>3. QED
      BY <1>5, <2>0, <3>1, <3>2
  <2>5. ASSUME RebaselineAfterWrite(p) PROVE UpToDate(p)'
    <3>1. /\ session' = [session EXCEPT ![p].posture = HashSentinelFiles] /\ UNCHANGED proc
          /\ proc[p].at = "idle" /\ session[p].here
      BY <2>5 DEF RebaselineAfterWrite
    <3>2. /\ session'[p].posture = HashSentinelFiles /\ session'[p].global = session[p].global
          /\ session'[p].deny = session[p].deny
      BY <1>0, <3>1 DEF StFields
    <3>3. Fresh(session'[p])
      BY <2>0, <3>1, <3>2 DEF UpToDate, Fresh
    <3>4. QED
      BY <1>5, <3>1, <3>3
  <2>6. ~SubagentStart(p)
    BY <2>0 DEF SubagentStart, UpToDate, Fresh
  <2>7. ASSUME Bootstrap(p) PROVE UpToDate(p)'
    <3> DEFINE r == [Free EXCEPT !.kind = "boot", !.at = "save", !.st = NewState]
    <3>1. proc'[p] = r /\ session' = session /\ ~session[p].here
      BY <1>0, <2>7 DEF Bootstrap
    <3>2. r.at = "save" /\ r.st = NewState
      BY DEF Free
    <3>3. inst.at # "backup"
      BY <1>6 DEF Settled
    <3>4. Fresh(NewState)
      BY <3>3, BaselineIsNow DEF Fresh, NewState
    <3> HIDE DEF r
    <3>5. QED
      BY <1>5, <3>1, <3>2, <3>4
  <2>8. ~Detect(p) /\ ~Record(p) /\ ~SetDenyAll(p) /\ ~Rehash(p)
    BY <2>0 DEF Detect, Record, SetDenyAll, Rehash, UpToDate
  <2>9. QED
    BY <2>1, <2>2, <2>3, <2>4, <2>5, <2>6, <2>7, <2>8
<1>7. hist'.passed = hist.passed
  <2>1. DOMAIN hist = HistFields
    BY DEF AnswerInv, HistOK
  <2>2. CASE Record(p)
    <3>1. PICK u : \/ hist' = [hist EXCEPT !.untraced[proc[p].cur] = u, !.due = @ \cup {p}]
                   \/ hist' = [hist EXCEPT !.unlogged[proc[p].cur] = u, !.due = @ \cup {p}]
      BY <2>2 DEF Record
    <3>2. QED
      BY <2>1, <3>1 DEF HistFields
  <2>3. CASE Detect(p) \/ Save(p)
    BY <2>1, <2>3 DEF Detect, Save, HistFields
  <2>4. QED
    BY <2>2, <2>3 DEF Start, Look, HashGlobal, SetDenyAll, Rehash, RebaselineAfterWrite, SubagentStart, Bootstrap
<1>8. QED
  BY <1>1, <1>2, <1>3, <1>6, <1>7, CalmFrame

\* A check undoes nothing, unless it undoes an install.
LEMMA CalmRestore ==
    ASSUME Types, HistOK, Installing, Agreed, \A q \in Projects : Settled(q) => UpToDate(q), NEW p \in Projects,
           NEW f \in proc[p].todo, Restore(p, f), ~hist'.excused
    PROVE  Installing' /\ Agreed' /\ \A q \in Projects : (Settled(q) => UpToDate(q))'
<1>1. /\ f \in HookFiles /\ f \in Posture /\ proc[p].at = "restore" /\ UNCHANGED <<w, canonical, session, inst>>
      /\ DOMAIN proc = Projects /\ DOMAIN proc[p] = ProcFields /\ DOMAIN file = Posture
  BY DEF Restore, Types, IsProc, Posture, HookFiles
<1>2. ~Settled(p)
  BY <1>1 DEF UpToDate
\* A file that is not being installed is already what it is restored to.
<1>3. managedHookBaseline(f).here /\ hashSentinelFile(f) # Parsed(Restored(f).hooks) => inst.at # "idle"
  BY <1>1 DEF Agreed, Uncopied, Restored, Settings
<1>4. CASE ~managedHookBaseline(f).here
  <2>1. proc' = [proc EXCEPT ![p].at = "record", ![p].cur = f] /\ UNCHANGED file
    BY <1>4 DEF Restore
  <2>2. \A q \in Projects \ {p} : session'[q] = session[q] /\ proc'[q].at = proc[q].at /\ proc'[q].st = proc[q].st
    BY <1>1, <2>1
  <2>3. \A g \in Posture : hashSentinelFile(g)' = hashSentinelFile(g)
    BY <2>1 DEF hashSentinelFile
  <2>4. hist'.passed = hist.passed
    BY <1>4 DEF Restore
  <2>5. QED
    BY <1>1, <1>2, <2>2, <2>3, <2>4, CalmFrame
<1>5. CASE managedHookBaseline(f).here
  <2> DEFINE undid == IF hashSentinelFile(f) # Parsed(Restored(f).hooks) THEN 1 ELSE 0
  <2>1. proc' = [Rewritten(f) EXCEPT ![p].at = "record", ![p].cur = f, ![p].undid = undid, ![p].restored = @ \cup {f}]
    BY <1>5 DEF Restore
  <2>2. file' = [file EXCEPT ![f] = Restored(f)]
    BY <1>5 DEF Restore
  <2>3. undid # 1
    <3>1. hist' = [hist EXCEPT !.untraced[f] = @ + undid, !.excused = @ \/ (undid = 1 /\ inst.at # "idle")]
      BY <1>5 DEF Restore
    <3> HIDE DEF undid
    <3>2. hist'.excused = (hist.excused \/ (undid = 1 /\ inst.at # "idle"))
      BY <3>1 DEF HistOK, HistFields
    <3>3. undid = 1 => inst.at # "idle"
      BY <1>3, <1>5 DEF undid
    <3>4. QED
      BY <3>2, <3>3
  <2>4. hashSentinelFile(f) = Parsed(Restored(f).hooks)
    BY <2>3
  <2> HIDE DEF undid
  <2>5. \A g \in Posture : hashSentinelFile(g)' = hashSentinelFile(g)
    BY <1>1, <2>2, <2>4 DEF hashSentinelFile, Parsed, Restored, Settings
  <2>6. /\ DOMAIN proc' = Projects
        /\ \A q \in Projects : /\ DOMAIN proc'[q] = DOMAIN proc[q]
                               /\ proc'[q].st = proc[q].st /\ proc'[q].todo = proc[q].todo
                               /\ proc'[q].again = proc[q].again \cup (proc[q].restored \cap {f})
        /\ \A q \in Projects \ {p} : \A x \in ProcFields \ {"again"} : proc'[q][x] = proc[q][x]
        /\ proc'[p].at = "record" /\ proc'[p].cur = f /\ proc'[p].undid = undid
        /\ proc'[p].restored = proc[p].restored \cup {f}
    BY <2>1, RestoredIs
  <2>7. \A q \in Projects \ {p} : session'[q] = session[q] /\ proc'[q].at = proc[q].at /\ proc'[q].st = proc[q].st
    BY <1>1, <2>6 DEF ProcFields
  <2>8. hist'.passed = hist.passed
    <3>1. PICK u, b : hist' = [hist EXCEPT !.untraced[f] = u, !.excused = b]
      BY <1>5 DEF Restore
    <3>2. QED
      BY <3>1 DEF HistOK, HistFields
  <2>9. QED
    BY <1>1, <1>2, <2>5, <2>7, <2>8, CalmFrame
<1>6. QED
  BY <1>4, <1>5

\* An install at work: it reads a file ...
LEMMA CalmRead ==
    ASSUME Types, Installing, Agreed, NEW f \in HookFiles, ReadConfig(f)
    PROVE  Installing' /\ Agreed' /\ \A q : ~Settled(q)'
<1>1. UNCHANGED <<w, file, canonical>> /\ UNCHANGED HookFiles /\ inst.at = "read" /\ f \in inst.todo
  BY DEF ReadConfig, HookFiles
<1>2. /\ inst'.at = "write" /\ inst'.walk = {f} /\ inst'.read = file[f] /\ DOMAIN inst' = InstFields
      /\ inst'.todo = inst.todo /\ inst'.v = inst.v /\ inst'.command = inst.command /\ inst'.rebaseline = inst.rebaseline
  BY DEF ReadConfig, Installing, InstFields
<1>3. Agreed'
  <2>1. ASSUME NEW g \in HookFiles
        PROVE  /\ file'[g].is = "absent" => file'[g].hooks = <<>>
               /\ ~Uncopied(g) /\ ~Uncopied(g)'
               /\ managedHookBaseline(g)'.here => hashSentinelFile(g)' = Parsed(managedHookBaseline(g)'.hooks)
    BY <1>1, <1>2 DEF Agreed, Uncopied, managedHookBaseline, hashSentinelFile
  <2>2. QED
    BY <1>1, <2>1 DEF Agreed, Parsed
<1>4. Installing'
  <2>1. w.managed => inst'.read.hooks = w.policy[f]
    <3>1. ASSUME w.managed PROVE file[f].hooks = w.policy[f]
      <4>1. f \in DOMAIN w.policy
        BY <1>1, <3>1 DEF Installing, validateGeneratedHooksPolicy
      <4>2. managedHookBaseline(f).here /\ managedHookBaseline(f).hooks = w.policy[f]
        BY <3>1, <4>1 DEF managedHookBaseline
      <4>3. hashSentinelFile(f) = Parsed(w.policy[f])
        BY <1>1, <4>2 DEF Agreed, Uncopied
      <4>4. QED
        BY <4>3 DEF hashSentinelFile, Parsed
    <3>2. QED
      BY <1>2, <3>1
  <2>2. \A g \in inst'.todo : validateGeneratedHooksPolicy(g, inst.v)'
    BY <1>1, <1>2 DEF Installing, validateGeneratedHooksPolicy, generatedHooksConfigForAgent
  <2>3. QED
    BY <1>1, <1>2, <2>1, <2>2 DEF Installing, validateGeneratedHooksPolicy, generatedHooksConfigForAgent
<1>5. QED
  BY <1>2, <1>3, <1>4 DEF Settled

\* ... writes it ...
LEMMA CalmWrite ==
    ASSUME Types, Installing, Agreed, NEW f \in HookFiles, WriteConfig(f)
    PROVE  Installing' /\ Agreed' /\ \A q : ~Settled(q)'
<1>1. UNCHANGED <<w, canonical>> /\ UNCHANGED HookFiles /\ inst.at = "write" /\ inst.walk = {f} /\ f \in inst.todo
      /\ inst.command = "install" /\ (w.managed => inst.read.hooks = w.policy[f])
  BY DEF WriteConfig, HookFiles, Installing
<1>2. file' = [file EXCEPT ![f] = Merged(inst.v, inst.read)] /\ inst' = [inst EXCEPT !.at = "backup"]
  BY <1>1 DEF WriteConfig
<1>3. /\ inst'.at = "backup" /\ DOMAIN inst' = InstFields /\ inst'.walk = {f} /\ inst'.read = inst.read
      /\ inst'.todo = inst.todo /\ inst'.v = inst.v /\ inst'.command = inst.command /\ inst'.rebaseline = inst.rebaseline
  BY <1>1, <1>2 DEF Installing, InstFields
<1>4. Agreed'
  <2> DEFINE m == Merged(inst.v, inst.read)
  <2>0. m.is = "ok"
    BY DEF Merged, Settings
  <2>1. m' = m
    BY <1>3 DEF Merged, Settings, generatedHooksConfigForAgent, filterSirHookEntries, isSirHookCommand, Selected
  <2>2. DOMAIN file = Posture /\ f \in Posture /\ HookFiles \subseteq Posture
    BY DEF Types, Posture, HookFiles
  <2>3. file'[f] = m /\ \A g \in HookFiles \ {f} : file'[g] = file[g]
    BY <1>2, <2>2
  <2> HIDE DEF m
  <2>4. hashSentinelFile(f)' = Parsed(m.hooks)
    BY <2>0, <2>3 DEF hashSentinelFile, Parsed
  <2>5. ASSUME NEW g \in HookFiles \ {f}
        PROVE  /\ file'[g].is = "absent" => file'[g].hooks = <<>>
               /\ ~Uncopied(g)'
               /\ managedHookBaseline(g)'.here => hashSentinelFile(g)' = Parsed(managedHookBaseline(g)'.hooks)
    BY <1>1, <1>3, <2>3 DEF Agreed, Uncopied, managedHookBaseline, hashSentinelFile
  <2>6. file'[f].is # "absent" /\ Uncopied(f)'
    BY <1>3, <2>0, <2>3 DEF Uncopied
  <2>7. hashSentinelFile(f)' = Parsed(Merged(inst.v, inst.read)'.hooks)
    BY <2>1, <2>4 DEF m
  <2>8. QED
    BY <1>1, <2>5, <2>6, <2>7 DEF Agreed, Parsed
<1>5. Installing'
  BY <1>1, <1>3 DEF Installing, validateGeneratedHooksPolicy, generatedHooksConfigForAgent
<1>6. QED
  BY <1>3, <1>4, <1>5 DEF Settled

\* ... and copies what it wrote.
LEMMA CalmCopy ==
    ASSUME Types, Installing, Agreed, NEW f \in HookFiles, WriteCanonical(f)
    PROVE  Installing' /\ Agreed' /\ \A q : ~Settled(q)'
<1>1. /\ UNCHANGED <<w, file>> /\ UNCHANGED HookFiles /\ inst.at = "backup" /\ inst.walk = {f} /\ f \in inst.todo
      /\ inst.v \in Sir /\ (w.managed => inst.read.hooks = w.policy[f]) /\ DOMAIN inst = InstFields
      /\ DOMAIN canonical = HookFiles
  BY DEF WriteCanonical, HookFiles, Installing, Types
<1> DEFINE m == Merged(inst.v, inst.read)
           at == IF inst.todo = {f} THEN "session" ELSE "read"
<1>2. canonical' = [canonical EXCEPT ![f] = [here |-> TRUE, hooks |-> m.hooks]]
  BY DEF WriteCanonical
<1>3. inst' = [inst EXCEPT !.at = at, !.todo = @ \ {f}, !.walk = {}]
  BY DEF WriteCanonical
<1>4. at \in {"session", "read"}
  OBVIOUS
<1> HIDE DEF at
<1>5. /\ inst'.at \in {"session", "read"} /\ DOMAIN inst' = InstFields
      /\ inst'.todo = inst.todo \ {f} /\ inst'.v = inst.v /\ inst'.command = inst.command /\ inst'.rebaseline = inst.rebaseline
  BY <1>1, <1>3, <1>4 DEF InstFields
<1>6. hashSentinelFile(f) = Parsed(m.hooks)
  BY <1>1 DEF Agreed, Uncopied
<1>7. w.managed => f \in DOMAIN w.policy /\ m.hooks = w.policy[f]
  <2>1. ASSUME w.managed PROVE f \in DOMAIN w.policy /\ w.policy[f] = generatedHooksConfigForAgent(inst.v)
    BY <1>1, <2>1 DEF Installing, validateGeneratedHooksPolicy
  <2>2. QED
    BY <1>1, <2>1, MergedAgain
<1> HIDE DEF m
<1>8. Agreed'
  <2>1. ASSUME NEW g \in HookFiles \ {f}
        PROVE  /\ file'[g].is = "absent" => file'[g].hooks = <<>>
               /\ ~Uncopied(g)'
               /\ managedHookBaseline(g)'.here => hashSentinelFile(g)' = Parsed(managedHookBaseline(g)'.hooks)
    BY <1>1, <1>2, <1>5 DEF Agreed, Uncopied, managedHookBaseline, hashSentinelFile
  <2>2. managedHookBaseline(f)'.hooks = m.hooks
    <3>1. CASE w.managed
      BY <1>1, <1>7, <3>1 DEF managedHookBaseline
    <3>2. CASE ~w.managed
      BY <1>1, <1>2, <3>2 DEF managedHookBaseline
    <3>3. QED
      BY <3>1, <3>2
  <2>3. hashSentinelFile(f)' = Parsed(managedHookBaseline(f)'.hooks)
    BY <1>1, <1>6, <2>2 DEF hashSentinelFile, Parsed
  <2>4. (file'[f].is = "absent" => file'[f].hooks = <<>>) /\ ~Uncopied(f)'
    BY <1>1, <1>5 DEF Agreed, Uncopied
  <2>5. QED
    BY <1>1, <2>1, <2>3, <2>4 DEF Agreed, Parsed
<1>9. Installing'
  <2>1. file[f].is # "absent"
    BY <1>6 DEF hashSentinelFile, Parsed
  <2>2. QED
    BY <1>1, <1>5, <2>1 DEF Installing, validateGeneratedHooksPolicy, generatedHooksConfigForAgent
<1>10. QED
  BY <1>5, <1>8, <1>9 DEF Settled

\* The rebaseline visits a project.
LEMMA CalmRebaseline ==
    ASSUME Types, AnswerInv, Installing, Agreed, \A q \in Projects : Settled(q) => UpToDate(q), NEW p \in Projects,
           Rebaseline(p), ~hist'.excused
    PROVE  Installing' /\ Agreed' /\ \A q \in Projects : (Settled(q) => UpToDate(q))'
<1>1. /\ UNCHANGED <<w, file, canonical, proc>> /\ UNCHANGED <<HookFiles, Posture, Projects>>
      /\ inst.at = "rebaseline" /\ p \in inst.walk /\ DOMAIN inst = InstFields
      /\ DOMAIN session = Projects /\ DOMAIN session[p] = StFields
  BY DEF Rebaseline, HookFiles, Posture, Projects, Installing, Types
<1> DEFINE next == IF inst.walk = {p} THEN NoInstall ELSE [inst EXCEPT !.walk = @ \ {p}]
<1>2. inst' = next
  BY DEF Rebaseline
<1>3. /\ inst'.at \in {"idle", "rebaseline"} /\ DOMAIN inst' = InstFields
      /\ inst'.at = "idle" => inst.walk = {p}
      /\ inst'.at = "rebaseline" =>
            /\ inst'.walk = inst.walk \ {p} /\ inst'.todo = inst.todo /\ inst'.v = inst.v
            /\ inst'.command = inst.command /\ inst'.rebaseline = inst.rebaseline
  <2>1. CASE inst.walk = {p}
    BY <1>2, <2>1 DEF NoInstall, InstFields
  <2>2. CASE inst.walk # {p}
    BY <1>1, <1>2, <2>2 DEF InstFields
  <2>3. QED
    BY <2>1, <2>2
<1> HIDE DEF next
<1>4. Agreed'
  <2>1. ASSUME NEW g \in HookFiles
        PROVE  /\ file'[g].is = "absent" => file'[g].hooks = <<>>
               /\ ~Uncopied(g)'
               /\ managedHookBaseline(g)'.here => hashSentinelFile(g)' = Parsed(managedHookBaseline(g)'.hooks)
    BY <1>1, <1>3 DEF Agreed, Uncopied, managedHookBaseline, hashSentinelFile
  <2>2. QED
    BY <1>1, <2>1 DEF Agreed, Parsed
<1>5. Installing'
  BY <1>1, <1>3 DEF Installing, validateGeneratedHooksPolicy, generatedHooksConfigForAgent
<1>6. UNCHANGED <<HashSentinelFiles, HashGlobalHooksFile>>
  <2>1. \A f \in Posture : hashSentinelFile(f)' = hashSentinelFile(f)
    BY <1>1 DEF hashSentinelFile
  <2>2. QED
    BY <1>1, <2>1, SameHashes
<1>7. HashGlobalHooksFile.known
  <2>1. PICK f \in HookFiles : file[f].is # "absent"
    BY <1>1 DEF Installing
  <2>2. QED
    BY <2>1 DEF HashGlobalHooksFile, hashHookChunks, hashSentinelFile
<1>8. \A q \in Projects \ {p} : session'[q] = session[q]
  BY <1>1 DEF Rebaseline
<1>9. Settled(p)' => UpToDate(p)'
  <2>1. CASE session[p].here /\ proc[p].at = "idle" /\ session' = [session EXCEPT ![p] = Rebaselined(@)]
    <3>1. session'[p] = Rebaselined(session[p])
      BY <1>1, <2>1
    <3>2. /\ session'[p].posture = HashSentinelFiles /\ session'[p].global = HashGlobalHooksFile
          /\ session'[p].deny # "hooks"
      BY <1>1, <1>7, <3>1 DEF Rebaselined, isHookInducedDenyReason, StFields
    <3>3. QED
      BY <1>1, <1>6, <2>1, <3>2 DEF UpToDate, Fresh
  <2>2. CASE ~session[p].here /\ hist' = [hist EXCEPT !.excused = @ \/ proc[p].at # "idle"] /\ UNCHANGED session
    <3>1. hist'.excused = (hist.excused \/ proc[p].at # "idle")
      BY <2>2 DEF AnswerInv, HistOK, HistFields
    <3>2. proc[p].at = "idle"
      BY <3>1
    <3>3. QED
      BY <1>1, <2>2, <3>2 DEF UpToDate
  <2>3. CASE hist' = [hist EXCEPT !.passed = @ \cup {p}]
    BY <2>3 DEF AnswerInv, HistOK, HistFields, Settled
  <2>4. QED
    BY <2>1, <2>2, <2>3 DEF Rebaseline
<1>10. ASSUME NEW q \in Projects, Settled(q)', q # p PROVE UpToDate(q)'
  <2>0. q \in hist.passed => q \in hist'.passed
    BY <1>10 DEF Rebaseline, AnswerInv, HistOK, HistFields
  <2>1. Settled(q)
    BY <1>1, <1>3, <1>10, <2>0 DEF Settled
  <2>2. UpToDate(q)
    BY <2>1
  <2>3. QED
    BY <1>1, <1>6, <1>8, <1>10, <2>2 DEF UpToDate, Fresh
<1>11. QED
  BY <1>1, <1>4, <1>5, <1>9, <1>10

\* An install begins, or turns to the sessions.
LEMMA CalmStart ==
    ASSUME Types, HistOK, Installing, Agreed, ~hist'.excused,
           \/ SessionStart
           \/ \E p, chosen : \E v \in Sir, rebaseline \in BOOLEAN : StartInstall(p, v, chosen, rebaseline)
    PROVE  Installing' /\ Agreed' /\ \A q \in Projects : ~Settled(q)'
<1>1. UNCHANGED <<w, file, canonical>> /\ UNCHANGED <<HookFiles, Projects>> /\ inst.at # "backup" /\ DOMAIN inst = InstFields
  BY DEF SessionStart, StartInstall, HookFiles, Projects, Installing
<1>2. inst'.at # "backup" => Agreed'
  <2>1. ASSUME inst'.at # "backup", NEW g \in HookFiles
        PROVE  /\ file'[g].is = "absent" => file'[g].hooks = <<>>
               /\ ~Uncopied(g)'
               /\ managedHookBaseline(g)'.here => hashSentinelFile(g)' = Parsed(managedHookBaseline(g)'.hooks)
    BY <1>1, <2>1 DEF Agreed, Uncopied, managedHookBaseline, hashSentinelFile
  <2>2. QED
    BY <1>1, <2>1 DEF Agreed, Parsed
<1>3. CASE SessionStart
  <2>1. inst.at = "session" /\ inst.rebaseline = TRUE
    BY <1>3 DEF SessionStart, Installing
  <2>2. inst' = [inst EXCEPT !.at = "rebaseline", !.walk = Projects]
    BY <1>3, <2>1 DEF SessionStart
  <2>3. /\ inst'.at = "rebaseline" /\ inst'.walk = Projects /\ DOMAIN inst' = InstFields /\ inst'.todo = inst.todo
        /\ inst'.v = inst.v /\ inst'.command = inst.command /\ inst'.rebaseline = inst.rebaseline
    BY <1>1, <2>2 DEF InstFields
  <2>4. Installing'
    BY <1>1, <2>1, <2>3 DEF Installing, validateGeneratedHooksPolicy, generatedHooksConfigForAgent
  <2>5. QED
    BY <1>1, <1>2, <2>3, <2>4 DEF Settled
<1>4. ASSUME NEW p, NEW v \in Sir, NEW rebaseline \in BOOLEAN, NEW chosen, StartInstall(p, v, chosen, rebaseline)
      PROVE  Installing' /\ Agreed' /\ \A q \in Projects : ~Settled(q)'
  <2>1. hist' = [hist EXCEPT !.commands = @ + 1, !.excused = @ \/ ~rebaseline]
    BY <1>4 DEF StartInstall
  <2>2. hist'.excused = (hist.excused \/ ~rebaseline)
    BY <2>1 DEF HistOK, HistFields
  <2>3. rebaseline = TRUE
    BY <2>2
  <2>4. inst' = [NoInstall EXCEPT !.at = "read", !.command = "install", !.todo = chosen, !.v = v,
                                  !.home = p, !.rebaseline = rebaseline]
    BY <1>4 DEF StartInstall
  <2>5. /\ inst'.at = "read" /\ DOMAIN inst' = InstFields /\ inst'.todo = chosen /\ inst'.v = v
        /\ inst'.command = "install" /\ inst'.rebaseline = TRUE
    BY <2>3, <2>4 DEF NoInstall, InstFields
  <2>6. \A f \in chosen : validateGeneratedHooksPolicy(f, v)
    BY <1>4 DEF StartInstall
  <2>7. Installing'
    BY <1>1, <2>5, <2>6 DEF Installing, validateGeneratedHooksPolicy, generatedHooksConfigForAgent
  <2>8. QED
    BY <1>2, <2>5, <2>7 DEF Settled
<1>5. QED
  BY <1>3, <1>4

\* A machine starts in order.
LEMMA CalmInit == Init => CalmInv
<1> SUFFICES ASSUME Init PROVE CalmInv
  OBVIOUS
<1>1. w \in Worlds /\ file = w.files /\ inst = NoInstall /\ hist = Quiet /\ \A p \in Projects : proc[p] = Free
  BY DEF Init
<1>2. Types
  <2>1. \A p \in Projects : proc[p] = Free /\ DOMAIN session[p] = StFields
    BY Records DEF Init
  <2>2. QED
    BY <2>1, Records, WorldsAssumption DEF Init, Types, Posture, HookFiles, Projects
<1>3. Installing /\ inst.at = "idle"
  BY <1>1 DEF Installing, NoInstall, InstFields
<1>4. Agreed
  <2>1. ASSUME NEW f \in HookFiles
        PROVE  /\ file[f].is = "absent" => file[f].hooks = <<>>
               /\ managedHookBaseline(f).here => file[f].is = "ok" /\ file[f].hooks = managedHookBaseline(f).hooks
    <3>1. CASE w.managed
      BY <1>1, <3>1, OrderAssumption DEF managedHookBaseline, HookFiles
    <3>2. CASE ~w.managed
      BY <1>1, <3>2, OrderAssumption DEF Init, managedHookBaseline, HookFiles
    <3>3. QED
      BY <3>1, <3>2
  <2>2. QED
    BY <1>3, <2>1 DEF Agreed, Uncopied, hashSentinelFile, Parsed
<1>5. Fresh(NewState)
  <2>1. BaselineHash.known => BaselineHash = HashGlobalHooksFile
    BY <1>2, <1>3, <1>4, BaselineIsNow
  <2>2. QED
    BY <2>1 DEF Fresh, NewState
<1>6. \A p \in Projects : UpToDate(p)
  <2>1. \A p \in Projects : session[p] = NewState \/ session[p] = NoSession
    BY DEF Init
  <2>2. ~NoSession.here /\ Free.at = "idle"
    BY DEF NoSession, Free
  <2>3. QED
    BY <1>1, <1>5, <2>1, <2>2 DEF UpToDate
<1>7. hist.edits \in Nat
  BY <1>1 DEF Quiet
<1>8. QED
  BY <1>3, <1>4, <1>6, <1>7 DEF CalmInv

\* The count of edits is a number, and calm does not come back.
LEMMA CalmOnce ==
    ASSUME HistOK, hist.edits \in Nat, [Next]_vars
    PROVE  /\ hist'.edits \in Nat
           /\ Calm' => Calm /\ ~hist'.excused
           /\ ((\E f \in Posture : \E c \in w.edits : Edit(f, c)) \/ (\E p \in Projects : Die(p)) \/ InstallDies \/ StartUninstall) => ~Calm'
<1>1. hist.deaths \in Nat /\ DOMAIN hist = HistFields
  BY DEF HistOK
<1>2. \A n \in Nat : n + 1 \in Nat /\ n + 1 # 0
  OBVIOUS
<1>3. CASE UNCHANGED hist
  <2>2. ASSUME \/ \E f \in Posture : \E c \in w.edits : Edit(f, c)
               \/ \E p \in Projects : Die(p)
               \/ InstallDies
        PROVE  FALSE
    <3>1. hist'.edits = hist.edits + 1 \/ hist'.deaths = hist.deaths + 1
      BY <1>1, <2>2 DEF Edit, Die, InstallDies, HistFields
    <3>2. QED
      BY <1>1, <1>3, <3>1
  <2>3. StartUninstall => hist'.excused = TRUE
    BY <1>1 DEF StartUninstall, HistFields
  <2>4. QED
    BY <1>3, <2>2, <2>3 DEF Calm
<1>4. CASE \E f \in Posture : \E c \in w.edits : Edit(f, c)
  <2>1. hist'.edits = hist.edits + 1
    BY <1>1, <1>4 DEF Edit, HistFields
  <2>2. QED
    BY <1>2, <2>1 DEF Calm
<1>5. CASE (\E p \in Projects : Die(p)) \/ InstallDies
  <2>1. hist'.deaths = hist.deaths + 1 /\ hist'.edits = hist.edits
    BY <1>1, <1>5 DEF Die, InstallDies, HistFields
  <2>2. QED
    BY <1>1, <1>2, <2>1 DEF Calm
<1>6. CASE StartUninstall
  <2>1. hist'.excused = TRUE /\ hist'.edits = hist.edits
    BY <1>1, <1>6 DEF StartUninstall, HistFields
  <2>2. QED
    BY <2>1 DEF Calm
<1>7. ASSUME ~\E f \in Posture : \E c \in w.edits : Edit(f, c), ~\E p \in Projects : Die(p), ~InstallDies, ~StartUninstall, ~UNCHANGED hist
      PROVE  hist'.edits = hist.edits /\ hist'.deaths = hist.deaths /\ (hist.excused => hist'.excused)
  <2>1. CASE \E p \in Projects : LockOther(p)
    BY <1>1, <2>1 DEF LockOther, HistFields
  <2>2. CASE \E p \in Projects : Detect(p)
    BY <1>1, <1>7, <2>2 DEF Detect, HistFields
  <2>3. ASSUME NEW p \in Projects, NEW f, Restore(p, f)
        PROVE  hist'.edits = hist.edits /\ hist'.deaths = hist.deaths /\ (hist.excused => hist'.excused)
    <3> DEFINE undid == IF hashSentinelFile(f) # Parsed(Restored(f).hooks) THEN 1 ELSE 0
    <3>1. hist' = [hist EXCEPT !.untraced[f] = @ + undid, !.excused = @ \/ (undid = 1 /\ inst.at # "idle")]
      BY <1>7, <2>3 DEF Restore
    <3> HIDE DEF undid
    <3>2. QED
      BY <1>1, <3>1 DEF HistFields
  <2>4. CASE \E p \in Projects : Record(p)
    <3>1. PICK p \in Projects : Record(p)
      BY <2>4
    <3>2. PICK u : \/ hist' = [hist EXCEPT !.untraced[proc[p].cur] = u, !.due = @ \cup {p}]
                   \/ hist' = [hist EXCEPT !.unlogged[proc[p].cur] = u, !.due = @ \cup {p}]
      BY <3>1 DEF Record
    <3>3. QED
      BY <1>1, <3>2 DEF HistFields
  <2>5. ASSUME NEW p, NEW v, NEW chosen, NEW r, StartInstall(p, v, chosen, r)
        PROVE  hist'.edits = hist.edits /\ hist'.deaths = hist.deaths /\ (hist.excused => hist'.excused)
    BY <1>1, <2>5 DEF StartInstall, HistFields
  <2>6. CASE SessionStart
    BY <1>1, <2>6 DEF SessionStart, HistFields
  <2>7. CASE \E p \in Projects : Rebaseline(p)
    BY <1>1, <2>7 DEF Rebaseline, HistFields
  <2>8. CASE \E p \in Projects : Save(p)
    BY <1>1, <1>7, <2>8 DEF Save, HistFields
  <2>9. QED
    <3>1. UNCHANGED vars => UNCHANGED hist
      BY DEF vars
    <3>2. ASSUME NEW p \in Projects, HookStep(p)
          PROVE  Detect(p) \/ Record(p) \/ Save(p) \/ (\E f : Restore(p, f))
      BY <1>7, <3>2 DEF HookStep, Start, Look, HashGlobal, SetDenyAll, Rehash, RebaselineAfterWrite, SubagentStart, Bootstrap
    <3>3. ~\E f \in HookFiles : ReadConfig(f) \/ WriteConfig(f) \/ WriteCanonical(f)
      BY <1>7 DEF ReadConfig, WriteConfig, WriteCanonical
    <3>4. QED
      BY <1>7, <2>1, <2>2, <2>3, <2>4, <2>5, <2>6, <2>7, <2>8, <3>1, <3>2, <3>3 DEF Next, CommandStep
<1>8. QED
  BY <1>3, <1>4, <1>5, <1>6, <1>7 DEF Calm

\* A lockdown for another cause touches no hash.
LEMMA CalmLock ==
    ASSUME Types, HistOK, Installing, Agreed, \A q \in Projects : Settled(q) => UpToDate(q), NEW p \in Projects, LockOther(p)
    PROVE  Installing' /\ Agreed' /\ \A q \in Projects : (Settled(q) => UpToDate(q))'
<1>1. /\ UNCHANGED <<w, file, canonical, proc, inst>> /\ proc[p].at = "idle"
      /\ session[p].here /\ DOMAIN session = Projects /\ DOMAIN session[p] = StFields
  BY DEF LockOther, Types
<1>2. session' = [session EXCEPT ![p].deny = "other"]
  BY DEF LockOther
<1>3. \A q \in Projects \ {p} : session'[q] = session[q] /\ proc'[q].at = proc[q].at /\ proc'[q].st = proc[q].st
  BY <1>1, <1>2
<1>4. \A f \in Posture : hashSentinelFile(f)' = hashSentinelFile(f)
  BY <1>1 DEF hashSentinelFile
<1>5. UNCHANGED <<HashSentinelFiles, HashGlobalHooksFile>>
  BY <1>1, <1>4, SameHashes
<1>6. session'[p].posture = session[p].posture /\ session'[p].global = session[p].global /\ session'[p].deny = "other"
  BY <1>1, <1>2 DEF StFields
<1>7. Settled(p) => UpToDate(p)'
  BY <1>1, <1>5, <1>6 DEF UpToDate, Fresh
<1>8. hist'.passed = hist.passed
  BY DEF LockOther, HistOK, HistFields
<1>9. QED
  BY <1>1, <1>3, <1>4, <1>7, <1>8, CalmFrame

\* Nothing moves.
LEMMA CalmStutter ==
    ASSUME UNCHANGED <<w, file, canonical, session, proc, inst, hist>>, Installing, Agreed, \A q \in Projects : Settled(q) => UpToDate(q)
    PROVE  Installing' /\ Agreed' /\ \A q \in Projects : (Settled(q) => UpToDate(q))'
<1>1. UNCHANGED <<HookFiles, Posture, Projects>>
  BY DEF HookFiles, Posture, Projects
<1>2. \A f \in Posture : hashSentinelFile(f)' = hashSentinelFile(f)
  BY DEF hashSentinelFile
<1>3. UNCHANGED <<HashSentinelFiles, HashGlobalHooksFile>>
  BY <1>2, SameHashes
<1>4. Installing'
  BY <1>1 DEF Installing, validateGeneratedHooksPolicy, generatedHooksConfigForAgent
<1>5. Agreed'
  BY <1>1 DEF Agreed, Uncopied, hashSentinelFile, managedHookBaseline, Parsed, Merged, Settings,
              generatedHooksConfigForAgent
<1>6. ASSUME NEW q \in Projects PROVE (Settled(q) => UpToDate(q))'
  BY <1>3 DEF Settled, UpToDate, Fresh
<1>7. QED
  BY <1>1, <1>4, <1>5, <1>6

\* Every step keeps the calm.
LEMMA CalmStep == RestoreInv /\ AnswerInv /\ CalmInv /\ [Next]_vars => CalmInv'
<1> SUFFICES ASSUME RestoreInv, AnswerInv, CalmInv, [Next]_vars PROVE CalmInv'
  OBVIOUS
<1>1. Types /\ HistOK /\ hist.edits \in Nat
  BY DEF RestoreInv, AnswerInv, CalmInv
<1>2. /\ hist'.edits \in Nat
      /\ Calm' => Calm /\ ~hist'.excused
      /\ ((\E f \in Posture : \E c \in w.edits : Edit(f, c)) \/ (\E p \in Projects : Die(p)) \/ InstallDies \/ StartUninstall) => ~Calm'
  BY <1>1, CalmOnce
<1> DEFINE Goal == Installing' /\ Agreed' /\ \A q \in Projects : (Settled(q) => UpToDate(q))'
<1>3. UNCHANGED Projects
  <2>1. ASSUME NEW p \in Projects, HookStep(p) PROVE w' = w
    BY <2>1 DEF HookStep, Start, Look, HashGlobal, Detect, Restore, Record, SetDenyAll, Rehash, Save, RebaselineAfterWrite,
                SubagentStart, Bootstrap, Die
  <2>2. ASSUME CommandStep PROVE w' = w
    BY <2>2 DEF CommandStep, StartInstall, StartUninstall, ReadConfig, WriteConfig, WriteCanonical, SessionStart,
                Rebaseline, InstallDies
  <2>3. w' = w
    BY <2>1, <2>2 DEF Next, Edit, LockOther, vars
  <2>4. QED
    BY <2>3 DEF Projects
<1>4. ASSUME Calm' PROVE Goal
  <2>1. Installing /\ Agreed /\ \A q \in Projects : Settled(q) => UpToDate(q)
    BY <1>2, <1>4 DEF CalmInv
  <2>2. ~hist'.excused
    BY <1>2, <1>4
  <2>3. CASE UNCHANGED vars
    <3>1. UNCHANGED <<w, file, canonical, session, proc, inst, hist>>
      BY <2>3 DEF vars
    <3>2. QED
      BY <2>1, <3>1, CalmStutter
  <2>4. ASSUME NEW p \in Projects, LockOther(p) PROVE Goal
    BY <1>1, <2>1, <2>4, CalmLock
  <2>5. ASSUME NEW p \in Projects, HookStep(p) PROVE Goal
    <3>1. CASE \E f \in proc[p].todo : Restore(p, f)
      BY <1>1, <2>1, <2>2, <3>1, CalmRestore
    <3>2. CASE ~\E f \in proc[p].todo : Restore(p, f)
      <4>1. \/ \E kind \in w.kinds : Start(p, kind)
            \/ Look(p) \/ HashGlobal(p) \/ Detect(p) \/ Record(p) \/ SetDenyAll(p) \/ Rehash(p) \/ Save(p)
            \/ RebaselineAfterWrite(p) \/ SubagentStart(p) \/ Bootstrap(p)
        BY <1>2, <1>4, <2>5, <3>2 DEF HookStep
      <4>2. QED
        BY <1>1, <2>1, <4>1, CalmProcess
    <3>3. QED
      BY <3>1, <3>2
  <2>6. ASSUME NEW f \in HookFiles, ReadConfig(f) \/ WriteConfig(f) \/ WriteCanonical(f) PROVE Goal
    <3>1. Installing' /\ Agreed' /\ \A q : ~Settled(q)'
      BY <1>1, <2>1, <2>6, CalmRead, CalmWrite, CalmCopy
    <3>2. QED
      BY <3>1
  <2>7. CASE \/ SessionStart
             \/ \E p, chosen : \E v \in Sir, rebaseline \in BOOLEAN : StartInstall(p, v, chosen, rebaseline)
    <3>1. Installing' /\ Agreed' /\ \A q \in Projects : ~Settled(q)'
      BY <1>1, <2>1, <2>2, <2>7, CalmStart
    <3>2. QED
      BY <3>1
  <2>8. ASSUME NEW p \in Projects, Rebaseline(p) PROVE Goal
    BY <1>1, <2>1, <2>2, <2>8, CalmRebaseline
  <2>9. ASSUME NEW p \in Projects, NEW v \in Sir, NEW rebaseline \in BOOLEAN, NEW explicit \in w.explicit,
               NEW ticked \in SUBSET w.enabled,
               StartInstall(p, v, resolveAgentSelection(explicit, {}, ticked), rebaseline)
        PROVE  Goal
    <3>1. \E q, chosen : \E u \in Sir, b \in BOOLEAN : StartInstall(q, u, chosen, b)
      BY <2>9
    <3>2. QED
      BY <2>7, <3>1
  <2> HIDE DEF Goal
  <2>10. QED
    BY <1>2, <1>4, <2>3, <2>4, <2>5, <2>6, <2>7, <2>8, <2>9 DEF Next, CommandStep
<1>5. QED
  BY <1>2, <1>3, <1>4 DEF CalmInv

\* Installing, upgrading and using sir never by itself locks a session down
\* that the last pass did not skip (installForAgent, RebaselineAllProjects).
THEOREM InstallsAlarmNobody == Spec => []NoFalseAlarm
<1>1. AnswerInv /\ CalmInv => NoFalseAlarm
  <2> SUFFICES ASSUME AnswerInv, CalmInv, inst.at = "idle", hist.edits = 0, hist.deaths = 0, ~hist.excused,
                      NEW p \in Projects \ hist.passed
               PROVE  session[p].deny # "hooks" \/ proc[p].at # "idle"
    BY DEF NoFalseAlarm
  <2>1. UpToDate(p)
    BY DEF CalmInv, Calm, Settled
  <2>2. ~session[p].here => session[p].deny = "none"
    BY DEF AnswerInv, Present
  <2>3. QED
    BY <2>1, <2>2 DEF UpToDate, Fresh
<1>2. QED
  BY <1>1, CalmInit, CalmStep, RestoreInvariant, AnswerInvariant, PTL DEF Spec
=============================================================================
