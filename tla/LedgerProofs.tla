---------------------------- MODULE LedgerProofs ----------------------------
(***************************************************************************)
(* Proofs about the ledger, for any set of processes and any contents.     *)
(***************************************************************************)
EXTENDS Ledger, SequenceTheorems, TLAPS

\* A writer that has prepared its entry holds a well-formed one, and the file
\* is a sequence.
Prepared ==
    \A p \in Procs : pc[p] \in {"prepared", "writing", "unterminated"} => entry[p].kind = "entry"

IsFile == \E S : file \in Seq(S)

TypeInv == TypeOK /\ Prepared /\ IsFile /\ DOMAIN entry = Procs

\* An entry that is about to be written is an entry.
LEMMA NextEntryKind ==
    \A lines, body : NextEntry(lines, body).kind = "entry"
BY DEF NextEntry, MkEntry

\* The types hold in the initial states.
LEMMA TypeInit == Init => TypeInv
<1> SUFFICES ASSUME Init PROVE TypeInv OBVIOUS
<1> USE DEF Init
<1>1. newline \in BOOLEAN /\ failed \in BOOLEAN /\ tampered \in BOOLEAN /\ retouched \in BOOLEAN OBVIOUS
<1>2. lock \in Procs \cup {NoProc} /\ shared \subseteq Procs OBVIOUS
<1>3. pc \in [Procs -> Phases] /\ seen \in [Procs -> {"none", "valid", "broken"}]
  BY DEF Phases
<1>4. \A i \in 1..Len(file) : file[i].kind \in {"entry", "partial", "corrupt"}
  OBVIOUS
<1>5. \A p \in Procs : (lock = p) <=> (pc[p] \notin {"idle", "reading"})
  BY NoProcAssumption
<1>6. lock # NoProc => shared = {} OBVIOUS
<1>7. Prepared BY DEF Prepared
<1>8. IsFile
  <2>1. file \in Seq({}) OBVIOUS
  <2> QED BY <2>1 DEF IsFile
<1> QED BY <1>1, <1>2, <1>3, <1>4, <1>5, <1>6, <1>7, <1>8 DEF TypeInv, TypeOK

\* Every step keeps the types.
LEMMA TypeStep == TypeInv /\ [Next]_vars => TypeInv'
<1> SUFFICES ASSUME TypeInv, [Next]_vars PROVE TypeInv' OBVIOUS
<1> USE NoProcAssumption DEF TypeInv, TypeOK, Phases, Prepared
<1>1. ASSUME NEW p \in Procs, LockExclusive(p) PROVE TypeInv'
  BY <1>1 DEF LockExclusive, IsFile
<1>2. ASSUME NEW p \in Procs, NEW body, Prepare(p, body) PROVE TypeInv'
  BY <1>2, NextEntryKind DEF Prepare, IsFile
<1>3. ASSUME NEW p \in Procs, BeginWrite(p) PROVE TypeInv'
  <2> PICK S : file \in Seq(S) BY DEF IsFile
  <2> DEFINE T == S \cup {Partial, Corrupt}
  <2>1. file \in Seq(T) BY SeqMonotonic
  <2>2. file' \in Seq(T) BY <1>3, <2>1 DEF BeginWrite
  <2>3. \A i \in 1..Len(file') : file'[i].kind \in {"entry", "partial", "corrupt"}
    BY <1>3, <2>1 DEF BeginWrite, Partial, Corrupt
  <2> QED BY <1>3, <2>2, <2>3 DEF BeginWrite, IsFile
<1>4. ASSUME NEW p \in Procs, WriteJSON(p) PROVE TypeInv'
  <2> PICK S : file \in Seq(S) BY DEF IsFile
  <2> DEFINE T == S \cup {entry[p]}
  <2>1. file \in Seq(T) BY SeqMonotonic
  <2>2. file' \in Seq(T) BY <1>4, <2>1 DEF WriteJSON
  <2>3. \A i \in 1..Len(file') : file'[i].kind \in {"entry", "partial", "corrupt"}
    BY <1>4, <2>1 DEF WriteJSON
  <2> QED BY <1>4, <2>2, <2>3 DEF WriteJSON, IsFile
<1>5. ASSUME NEW p \in Procs, FinishWrite(p) PROVE TypeInv'
  BY <1>5 DEF FinishWrite, IsFile
<1>6. ASSUME NEW p \in Procs, Fail(p) PROVE TypeInv'
  BY <1>6 DEF Fail, IsFile
<1>7. ASSUME NEW p \in Procs, LockShared(p) PROVE TypeInv'
  BY <1>7 DEF LockShared, IsFile
<1>8. ASSUME NEW p \in Procs, ReadAndVerify(p) PROVE TypeInv'
  BY <1>8 DEF ReadAndVerify, IsFile
<1>9. ASSUME NEW i, NEW body, EditEntry(i, body) PROVE TypeInv'
  <2> PICK S : file \in Seq(S) BY DEF IsFile
  <2> DEFINE T == S \cup {WithBody(file[i], body)}
  <2>1. file \in Seq(T) BY SeqMonotonic
  <2>2. file' = [file EXCEPT ![i] = WithBody(file[i], body)] /\ i \in 1..Len(file)
    BY <1>9 DEF EditEntry
  <2>3. file' \in Seq(T) /\ Len(file') = Len(file) BY <1>9, <2>1, <2>2 DEF EditEntry
  <2>4. \A j \in 1..Len(file') : j # i => file'[j] = file[j] BY <2>1, <2>2, <2>3
  <2>5. file'[i].kind = "entry"
    BY <1>9, <2>1, <2>2, <2>3 DEF EditEntry, WithBody
  <2>6. \A j \in 1..Len(file') : file'[j].kind \in {"entry", "partial", "corrupt"}
    BY <2>3, <2>4, <2>5
  <2> QED BY <1>9, <2>3, <2>6 DEF EditEntry, IsFile
<1>10. ASSUME NEW i, DropEntry(i) PROVE TypeInv'
  <2> PICK S : file \in Seq(S) BY DEF IsFile
  <2>1. file' = Without(file, i) /\ i \in 1..Len(file) - 1 /\ Len(file) \in Nat
    BY <1>10 DEF DropEntry
  <2>2. file' \in Seq(S) /\ Len(file') = Len(file) - 1 BY <2>1 DEF Without
  <2>3. \A j \in 1..Len(file') : file'[j] = file[j] \/ file'[j] = file[j + 1]
    BY <2>1, <2>2 DEF Without
  <2>4. \A j \in 1..Len(file') : file'[j].kind \in {"entry", "partial", "corrupt"}
    BY <2>1, <2>2, <2>3
  <2> QED BY <1>10, <2>2, <2>4 DEF DropEntry, IsFile
<1>11. CASE UNCHANGED vars BY <1>11 DEF vars, IsFile
<1> QED BY <1>1, <1>2, <1>3, <1>4, <1>5, <1>6, <1>7, <1>8, <1>9, <1>10, <1>11 DEF Next, Step

\* Type correctness and lock discipline of the ledger hold for every set of
\* processes (ledger_store.go, ledger_lock_unix.go).
THEOREM LedgerTypes == Spec => []TypeOK
<1>1. TypeInv => TypeOK BY DEF TypeInv
<1> QED BY <1>1, TypeInit, TypeStep, PTL DEF Spec

-----------------------------------------------------------------------------
(***************************************************************************)
(* The chain.  Solid is the number of lines that no write in progress is   *)
(* still changing; they are Good one by one or the ledger is Broken.  What *)
(* is broken stays broken: a solid line changes only into a Corrupt one,   *)
(* and the edits of others leave a line that is not good.                  *)
(***************************************************************************)
Good(lines, i) ==
    /\ lines[i].kind = "entry"
    /\ lines[i].index = i - 1
    /\ lines[i].prev = IF i = 1 THEN Genesis ELSE lines[i - 1].hash
    /\ lines[i].hash = computeHash(lines[i].prev, lines[i].index, lines[i].body)

Writing == \E p \in Procs : InWrite(p)
Solid == IF Writing /\ file[Len(file)] # Corrupt THEN Len(file) - 1 ELSE Len(file)
Broken == \E i \in 1..Solid : ~Good(file, i)

\* The entry continues the solid lines.
Continues(e) ==
    /\ e.index = Solid
    /\ e.prev = IF Solid = 0 THEN Genesis ELSE file[Solid].hash
    /\ e.hash = computeHash(e.prev, e.index, e.body)

\* What a writer has put into the file so far.
WriteState ==
    /\ newline \/ Len(file) > 0
    /\ \A p \in Procs :
          /\ InWrite(p) => Len(file) > 0
          /\ pc[p] = "writing" => file[Len(file)] \in {Partial, Corrupt}
          /\ pc[p] = "unterminated" => file[Len(file)] \in {entry[p], Corrupt}
          /\ pc[p] = "reading" => p \in shared

\* A prepared entry is the next one of the chain it was prepared for.
InSequence ==
    ~Broken => \A p \in Procs : pc[p] \in {"prepared", "writing", "unterminated"} => Continues(entry[p])

Kept(e, line) == SameDecision(line, e) /\ (line = e \/ retouched)
AckedKept == ~Broken => \A e \in acked : e.index + 1 \in 1..Solid /\ Kept(e, file[e.index + 1])
TamperKept == tampered => Broken

\* Without a torn write and without edits by others nothing is broken, and
\* only a write in progress leaves the last line open.
Sound == ~failed /\ ~tampered => ~Broken /\ (newline \/ Writing)

ChainInv == TypeInv /\ WriteState /\ InSequence /\ AckedKept /\ TamperKept /\ Sound /\ ReaderVerdictSound

\* Whether a line verifies depends on that line and the one before it.
LEMMA GoodSame ==
    ASSUME NEW f, NEW g, NEW i \in Nat, f[i] = g[i], i # 1 => f[i - 1] = g[i - 1]
    PROVE  Good(f, i) <=> Good(g, i)
BY DEF Good

\* At most one line of the file is not yet complete.
LEMMA SolidType == TypeInv /\ WriteState => Len(file) \in Nat /\ Solid \in 0..Len(file) /\ Len(file) - 1 <= Solid
<1> SUFFICES ASSUME TypeInv, WriteState PROVE Len(file) \in Nat /\ Solid \in 0..Len(file) /\ Len(file) - 1 <= Solid
  OBVIOUS
<1>1. Len(file) \in Nat BY DEF TypeInv, IsFile
<1>2. Writing => Len(file) > 0 BY DEF Writing, WriteState
<1> QED BY <1>1, <1>2 DEF Solid

\* What a reader sees is the part of the file that is complete.
LEMMA SettledIsSolid ==
    ASSUME TypeInv, WriteState
    PROVE  Len(Settled) = Solid /\ \A i \in 1..Solid : Settled[i] = file[i]
<1> PICK S : file \in Seq(S) BY DEF TypeInv, IsFile
<1>1. Solid \in 0..Len(file) BY SolidType
<1>2. Settled = SubSeq(file, 1, Solid)
  <2>1. CASE Writing /\ file[Len(file)] # Corrupt BY <2>1 DEF Settled, Solid, Writing
  <2>2. CASE ~(Writing /\ file[Len(file)] # Corrupt) BY <2>2, SubSeqFull DEF Settled, Solid, Writing
  <2> QED BY <2>1, <2>2
<1> QED BY <1>1, <1>2

\* Verify accepts exactly the files without a line that is not good.
LEMMA VerifyIsGood ==
    ASSUME TypeInv, WriteState
    PROVE  /\ Verify(file) <=> \A i \in 1..Len(file) : Good(file, i)
           /\ Verify(Settled) <=> ~Broken
           /\ Verify(file) => ~Broken
           /\ ~Writing => (Verify(file) <=> ~Broken)
<1>1. Verify(file) <=> \A i \in 1..Len(file) : Good(file, i) BY DEF Verify, Readable, Good
<1>2. Len(file) \in Nat /\ Solid \in 0..Len(file) BY SolidType
<1>3. Verify(Settled) <=> \A i \in 1..Solid : Good(Settled, i) BY SettledIsSolid DEF Verify, Readable, Good
<1>4. \A i \in 1..Solid : Good(Settled, i) <=> Good(file, i) BY <1>2, SettledIsSolid, GoodSame
<1>5. ~Writing => Solid = Len(file) BY DEF Solid
<1> QED BY <1>1, <1>2, <1>3, <1>4, <1>5 DEF Broken

\* Solid lines that a step leaves alone keep what was broken and what was
\* acknowledged.
LEMMA LinesKept ==
    ASSUME ChainInv, Solid' \in Nat, Solid <= Solid',
           \A i \in 1..Solid : file'[i] = file[i]
    PROVE  (Broken => Broken') /\ (UNCHANGED <<acked, retouched>> => AckedKept')
<1>1. Solid \in Nat BY SolidType DEF ChainInv
<1>2. \A i \in 1..Solid : Good(file', i) <=> Good(file, i) BY <1>1, GoodSame
<1>3. Broken => Broken' BY <1>1, <1>2 DEF Broken
<1>4. ASSUME UNCHANGED <<acked, retouched>>, ~Broken'
      PROVE  \A e \in acked : e.index + 1 \in 1..Solid' /\ Kept(e, file[e.index + 1])'
  BY <1>1, <1>3, <1>4 DEF ChainInv, AckedKept, Kept
<1> QED BY <1>3, <1>4 DEF AckedKept

\* The invariant of the chain holds in the initial states.
LEMMA ChainInit == Init => ChainInv
<1> SUFFICES ASSUME Init PROVE ChainInv OBVIOUS
<1>1. TypeInv BY TypeInit
<1>2. ~Writing /\ Len(file) = 0 BY DEF Init, Writing, InWrite
<1>3. Solid = 0 /\ ~Broken BY <1>2 DEF Solid, Broken
<1>4. WriteState BY DEF Init, WriteState, InWrite
<1>5. InSequence BY DEF Init, InSequence
<1> QED BY <1>1, <1>2, <1>3, <1>4, <1>5 DEF ChainInv, Init, AckedKept, TamperKept, Sound, ReaderVerdictSound

\* Who is in the middle of something holds the lock.
LEMMA OneWriter ==
    ASSUME TypeInv, NEW p \in Procs, NEW q \in Procs, lock = p, q # p
    PROVE  pc[q] \in {"idle", "reading"}
BY DEF TypeInv, TypeOK

\* Taking the ledger lock keeps the invariant.
LEMMA ChainLock ==
    ASSUME ChainInv, NEW p \in Procs, LockExclusive(p) \/ LockShared(p), TypeInv'
    PROVE  ChainInv'
<1> USE DEF ChainInv
<1>1. UNCHANGED <<file, newline, entry, acked, seen, failed, tampered, retouched>> BY DEF LockExclusive, LockShared
<1>2. \A q \in Procs : InWrite(q)' <=> InWrite(q) BY DEF LockExclusive, LockShared, InWrite, TypeInv, TypeOK
<1>3. Writing' <=> Writing BY <1>2 DEF Writing
<1>4. Solid' = Solid BY <1>1, <1>3 DEF Solid
<1>5. Broken' <=> Broken BY <1>1, <1>4 DEF Broken, Good
<1>6. \A q \in Procs : pc'[q] = pc[q] \/ pc'[q] \in {"locked", "reading"}
  BY DEF LockExclusive, LockShared, TypeInv, TypeOK
<1>7. WriteState'
  <2>1. \A q \in Procs : pc'[q] = "reading" => q \in shared'
    BY DEF LockExclusive, LockShared, WriteState, TypeInv, TypeOK
  <2> QED BY <1>1, <1>2, <1>6, <2>1 DEF WriteState
<1>8. InSequence' BY <1>1, <1>4, <1>5, <1>6 DEF InSequence, Continues
<1> QED BY <1>1, <1>3, <1>4, <1>5, <1>7, <1>8 DEF AckedKept, Kept, SameDecision, TamperKept, Sound, ReaderVerdictSound

\* Reading the last line, and forming the next entry from it, keep it.
LEMMA ChainPrepare ==
    ASSUME ChainInv, NEW p \in Procs, NEW body, Prepare(p, body), TypeInv'
    PROVE  ChainInv'
<1> USE DEF ChainInv
<1>1. UNCHANGED <<file, newline, shared, acked, seen, failed, tampered, retouched>> BY DEF Prepare
<1>2. \A q \in Procs : ~InWrite(q) /\ ~InWrite(q)'
  BY DEF Prepare, InWrite, TypeInv, TypeOK
<1>3. ~Writing /\ ~Writing' BY <1>2 DEF Writing
<1>4. Solid' = Solid /\ Solid = Len(file) /\ Solid \in Nat BY <1>1, <1>3, SolidType DEF Solid
<1>5. Broken' <=> Broken BY <1>1, <1>4 DEF Broken, Good
<1>6. \A q \in Procs : q # p => pc'[q] = pc[q] /\ pc[q] \in {"idle", "reading"}
  BY DEF Prepare, TypeInv, TypeOK
<1>7. WriteState' BY <1>1, <1>2, <1>6 DEF Prepare, WriteState, InWrite, TypeInv, TypeOK
<1>8. ASSUME ~Broken PROVE Continues(entry[p])'
  <2>1. entry'[p] = NextEntry(file, body) BY DEF Prepare, TypeInv
  <2>2. CASE Solid = 0
    <3>0. PICK S : file \in Seq(S) BY DEF TypeInv, IsFile
    <3>1. file = <<>> BY <1>4, <2>2, <3>0, EmptySeq
    <3> QED BY <1>1, <1>4, <2>1, <2>2, <3>1 DEF Continues, NextEntry, MkEntry
  <2>3. CASE Solid # 0
    <3>1. Good(file, Len(file)) BY <1>4, <1>8, <2>3 DEF Broken
    <3>2. Readable(file) BY <1>4, <1>8 DEF Broken, Good, Readable
    <3>3. file # <<>> BY <1>4, <2>3
    <3>4. entry'[p] = MkEntry(file[Len(file)].hash, file[Len(file)].index + 1, sanitizeEntry(body))
      BY <2>1, <3>2, <3>3 DEF NextEntry
    <3>5. file[Len(file)].index + 1 = Len(file) BY <1>4, <3>1 DEF Good
    <3> QED BY <1>1, <1>4, <2>3, <3>4, <3>5 DEF Continues, MkEntry
  <2> QED BY <2>2, <2>3
<1>9. InSequence' BY <1>5, <1>6, <1>8 DEF InSequence
<1> QED BY <1>1, <1>3, <1>4, <1>5, <1>7, <1>9 DEF AckedKept, Kept, SameDecision, TamperKept, Sound, ReaderVerdictSound

\* The first part of a line reaching the file keeps it.
LEMMA ChainBeginWrite ==
    ASSUME ChainInv, NEW p \in Procs, BeginWrite(p), TypeInv'
    PROVE  ChainInv'
<1> USE DEF ChainInv
<1>1. UNCHANGED <<shared, entry, acked, seen, failed, tampered, retouched>> /\ newline' = FALSE BY DEF BeginWrite
<1>2. \A q \in Procs : q # p => pc'[q] = pc[q] /\ pc[q] \in {"idle", "reading"}
  BY DEF BeginWrite, TypeInv, TypeOK
<1>3. pc[p] = "prepared" /\ pc'[p] = "writing" BY DEF BeginWrite, TypeInv, TypeOK
<1>4. ~Writing /\ Writing' BY <1>2, <1>3 DEF Writing, InWrite
<1>5. Solid = Len(file) /\ Len(file) \in Nat BY <1>4, SolidType DEF Solid
<1>6. PICK S : file \in Seq(S) BY DEF TypeInv, IsFile
<1>7. CASE newline
  <2>1. file' = Append(file, Partial) BY <1>7 DEF BeginWrite
  <2>2. Len(file') = Len(file) + 1 /\ file'[Len(file) + 1] = Partial /\ \A i \in 1..Len(file) : file'[i] = file[i]
    BY <1>6, <2>1
  <2>3. Partial # Corrupt BY DEF Partial, Corrupt
  <2>4. Solid' = Solid BY <1>4, <1>5, <2>2, <2>3 DEF Solid
  <2>5. (Broken => Broken') /\ AckedKept' BY <1>1, <1>5, <2>2, <2>4, LinesKept
  <2>6. Broken' => Broken
    <3>1. \A i \in 1..Solid : Good(file', i) <=> Good(file, i) BY <1>5, <2>2, GoodSame
    <3> QED BY <1>5, <2>4, <3>1 DEF Broken
  <2>7. WriteState' BY <1>1, <1>2, <1>3, <1>5, <2>2 DEF WriteState, InWrite
  <2>8. Continues(entry[p]) => Continues(entry[p])' BY <1>1, <1>5, <2>2, <2>4 DEF Continues
  <2>9. InSequence' BY <1>1, <1>2, <1>3, <2>5, <2>8 DEF InSequence
  <2> QED BY <1>1, <1>4, <2>5, <2>6, <2>7, <2>9 DEF TamperKept, Sound, ReaderVerdictSound
<1>8. CASE ~newline
  <2>1. file' = [file EXCEPT ![Len(file)] = Corrupt] BY <1>8 DEF BeginWrite
  <2>2. failed \/ tampered BY <1>4, <1>8 DEF Sound
  <2>3. Len(file) # 0 BY <1>5, <1>8 DEF WriteState
  <2>4. Len(file') = Len(file) /\ file'[Len(file)] = Corrupt BY <1>5, <1>6, <2>1, <2>3
  <2>5. Solid' = Len(file) BY <2>4 DEF Solid
  <2>6. Broken' BY <1>5, <2>3, <2>4, <2>5 DEF Broken, Good, Corrupt
  <2>7. WriteState' BY <1>1, <1>2, <1>3, <1>5, <2>3, <2>4 DEF WriteState, InWrite
  <2> QED BY <1>1, <2>2, <2>6, <2>7 DEF InSequence, AckedKept, TamperKept, Sound, ReaderVerdictSound
<1> QED BY <1>7, <1>8 DEF TypeInv, TypeOK

\* The whole line without its newline reaching the file keeps it.
LEMMA ChainWriteJSON ==
    ASSUME ChainInv, NEW p \in Procs, WriteJSON(p), TypeInv'
    PROVE  ChainInv'
<1> USE DEF ChainInv
<1>1. UNCHANGED <<newline, shared, entry, acked, seen, failed, tampered, retouched>> BY DEF WriteJSON
<1>2. \A q \in Procs : q # p => pc'[q] = pc[q] /\ pc[q] \in {"idle", "reading"}
  BY DEF WriteJSON, TypeInv, TypeOK
<1>3. pc[p] = "writing" /\ pc'[p] = "unterminated" BY DEF WriteJSON, TypeInv, TypeOK
<1>4. Writing /\ Writing' BY <1>3 DEF Writing, InWrite
<1>5. Len(file) \in Nat /\ Len(file) # 0 /\ Solid \in Nat /\ file[Len(file)] \in {Partial, Corrupt}
  BY <1>3, SolidType DEF WriteState, InWrite
<1>6. PICK S : file \in Seq(S) BY DEF TypeInv, IsFile
<1>7. Partial # Corrupt /\ entry[p] # Corrupt BY <1>3 DEF Partial, Corrupt, TypeInv, Prepared
<1>8. /\ Len(file') = Len(file) /\ file'[Len(file)] \in {entry[p], Corrupt}
      /\ file'[Len(file)] = Corrupt <=> file[Len(file)] = Corrupt
      /\ \A i \in 1..(Len(file) - 1) : file'[i] = file[i]
  <2> DEFINE n == Len(file)
  <2>1. CASE file[n] = Partial
    <3>1. file' = [file EXCEPT ![n] = entry[p]] BY <2>1 DEF WriteJSON
    <3>2. file \in Seq(S \cup {entry[p]}) BY <1>6, SeqMonotonic
    <3>3. Len(file') = n /\ \A i \in 1..n : file'[i] = IF i = n THEN entry[p] ELSE file[i]
      BY <1>5, <3>1, <3>2, ExceptSeq
    <3> QED BY <1>5, <1>7, <2>1, <3>3
  <2>2. CASE file[n] = Corrupt BY <1>5, <1>7, <2>2 DEF WriteJSON
  <2> QED BY <1>5, <2>1, <2>2
<1>9. Solid' = Solid BY <1>4, <1>8 DEF Solid
<1>10. \A i \in 1..Solid : file'[i] = file[i]
  BY <1>1, <1>4, <1>5, <1>7, <1>8 DEF Solid
<1>11. (Broken => Broken') /\ AckedKept' BY <1>1, <1>5, <1>9, <1>10, LinesKept
<1>12. Broken' => Broken
  <2>1. \A i \in 1..Solid : Good(file', i) <=> Good(file, i) BY <1>5, <1>10, GoodSame
  <2> QED BY <1>9, <2>1 DEF Broken
<1>13. WriteState' BY <1>1, <1>2, <1>3, <1>5, <1>8 DEF WriteState, InWrite
<1>14. Continues(entry[p]) => Continues(entry[p])' BY <1>1, <1>5, <1>9, <1>10 DEF Continues
<1>15. InSequence' BY <1>1, <1>2, <1>3, <1>11, <1>14 DEF InSequence
<1> QED BY <1>1, <1>4, <1>11, <1>12, <1>13, <1>15 DEF TamperKept, Sound, ReaderVerdictSound

\* The lock is released: the line written last is solid now.
LEMMA Released ==
    ASSUME ChainInv, TypeInv', NEW p \in Procs, lock = p, lock' = NoProc,
           pc' = [pc EXCEPT ![p] = "idle"], UNCHANGED <<file, shared>>
    PROVE  /\ ~Writing' /\ Solid' = Len(file) /\ Solid <= Solid' /\ Solid' \in Nat /\ Solid \in Nat
           /\ \A q \in Procs : pc'[q] \in {"idle", "reading"} /\ (pc'[q] = "reading" => pc[q] = "reading")
           /\ Writing => InWrite(p)
           /\ Broken => Broken'
           /\ UNCHANGED <<acked, retouched>> => AckedKept'
<1> USE DEF ChainInv
<1>1. \A q \in Procs : pc'[q] \in {"idle", "reading"} /\ (pc'[q] = "reading" => pc[q] = "reading")
  BY DEF TypeInv, TypeOK
<1>2. ~Writing' BY <1>1 DEF Writing, InWrite
<1>3. Writing => InWrite(p) BY OneWriter DEF Writing, InWrite
<1>4. Solid \in Nat /\ Solid <= Len(file) /\ Len(file) \in Nat BY SolidType
<1>5. Solid' = Len(file) BY <1>2 DEF Solid
<1> QED BY <1>1, <1>2, <1>3, <1>4, <1>5, LinesKept

\* The end of an append keeps it: the entry that is acknowledged is in sequence.
LEMMA ChainFinishWrite ==
    ASSUME ChainInv, NEW p \in Procs, FinishWrite(p), TypeInv'
    PROVE  ChainInv'
<1> USE DEF ChainInv
<1>1. UNCHANGED <<file, shared, seen, failed, tampered, retouched>> /\ newline' = TRUE /\ acked' = acked \cup {entry[p]}
  BY DEF FinishWrite
<1>2. lock = p /\ pc[p] = "unterminated" BY DEF FinishWrite, TypeInv, TypeOK
<1>3. /\ ~Writing' /\ Solid' = Len(file) /\ Solid <= Solid' /\ Solid' \in Nat /\ Solid \in Nat
      /\ \A q \in Procs : pc'[q] \in {"idle", "reading"} /\ (pc'[q] = "reading" => pc[q] = "reading")
      /\ Broken => Broken'
  BY <1>1, <1>2, Released DEF FinishWrite
<1>4. Writing /\ Len(file) # 0 /\ file[Len(file)] \in {entry[p], Corrupt} BY <1>2 DEF Writing, InWrite, WriteState
<1>5. CASE file[Len(file)] = Corrupt
  <2>1. Solid = Len(file) BY <1>5 DEF Solid
  <2>2. Broken BY <1>3, <1>4, <1>5, <2>1 DEF Broken, Good, Corrupt
  <2>3. WriteState' BY <1>1, <1>3 DEF WriteState, InWrite
  <2> QED BY <1>1, <1>3, <2>2, <2>3 DEF InSequence, AckedKept, TamperKept, Sound, ReaderVerdictSound
<1>6. CASE file[Len(file)] # Corrupt
  <2> DEFINE e == entry[p]
             n == Len(file)
  <2>1. file[n] = e /\ Solid = n - 1 /\ e.kind = "entry" BY <1>2, <1>4, <1>6 DEF Solid, TypeInv, Prepared
  <2>2. ASSUME ~Broken PROVE Good(file, n) /\ e.index + 1 = n
    <3>1. Continues(e) BY <1>2, <2>2 DEF InSequence
    <3>2. e.index = n - 1 BY <2>1, <3>1 DEF Continues
    <3>3. e.prev = IF n = 1 THEN Genesis ELSE file[n - 1].hash BY <1>3, <2>1, <3>1 DEF Continues
    <3> QED BY <1>3, <2>1, <3>1, <3>2, <3>3 DEF Good, Continues
  <2>3. Broken' => Broken
    <3> SUFFICES ASSUME ~Broken PROVE \A i \in 1..n : Good(file, i) BY <1>1, <1>3 DEF Broken
    <3>1. \A i \in 1..(n - 1) : Good(file, i) BY <2>1 DEF Broken
    <3> QED BY <1>3, <2>2, <3>1
  <2>4. AckedKept'
    <3> SUFFICES ASSUME ~Broken', NEW a \in acked' PROVE a.index + 1 \in 1..n /\ Kept(a, file[a.index + 1])
      BY <1>1, <1>3 DEF AckedKept, Kept
    <3>1. ~Broken BY <1>3
    <3>2. CASE a \in acked BY <1>3, <3>1, <3>2 DEF AckedKept
    <3>3. CASE a = e BY <1>3, <1>4, <2>1, <2>2, <3>1, <3>3 DEF Kept, SameDecision
    <3> QED BY <1>1, <3>2, <3>3
  <2>5. WriteState' BY <1>1, <1>3 DEF WriteState, InWrite
  <2>6. InSequence' BY <1>3 DEF InSequence
  <2> QED BY <1>1, <1>3, <2>3, <2>4, <2>5, <2>6 DEF TamperKept, Sound, ReaderVerdictSound
<1> QED BY <1>5, <1>6

\* A failed or crashed append keeps it: what it left is torn or whole.
LEMMA ChainFail ==
    ASSUME ChainInv, NEW p \in Procs, Fail(p), TypeInv'
    PROVE  ChainInv'
<1> USE DEF ChainInv
<1>1. /\ UNCHANGED <<file, newline, shared, acked, seen, tampered, retouched>> /\ lock = p
      /\ failed' = (failed \/ pc[p] \in {"writing", "unterminated"})
  BY DEF Fail
<1>2. /\ ~Writing' /\ Solid' = Len(file) /\ Solid <= Solid' /\ Solid' \in Nat /\ Solid \in Nat
      /\ \A q \in Procs : pc'[q] \in {"idle", "reading"} /\ (pc'[q] = "reading" => pc[q] = "reading")
      /\ Writing => InWrite(p)
      /\ Broken => Broken'
      /\ AckedKept'
  BY <1>1, Released DEF Fail
<1>3. Writing => failed' BY <1>1, <1>2 DEF InWrite
<1>4. ~Writing => (Broken' => Broken) BY <1>1, <1>2 DEF Broken, Solid, Good
<1>5. WriteState' BY <1>1, <1>2 DEF WriteState, InWrite
<1>6. InSequence' BY <1>2 DEF InSequence
<1>7. failed => failed' BY <1>1
<1> QED BY <1>1, <1>2, <1>3, <1>4, <1>5, <1>6, <1>7 DEF TamperKept, Sound, ReaderVerdictSound

\* A reader's verdict is the one the file deserves.
LEMMA ChainRead ==
    ASSUME ChainInv, NEW p \in Procs, ReadAndVerify(p), TypeInv'
    PROVE  ChainInv'
<1> USE DEF ChainInv
<1>1. UNCHANGED <<file, newline, lock, entry, acked, failed, tampered, retouched>> BY DEF ReadAndVerify
<1>2. p \in shared /\ lock = NoProc BY DEF ReadAndVerify, WriteState, TypeInv, TypeOK
<1>3. \A q \in Procs : pc[q] \in {"idle", "reading"} BY <1>2, NoProcAssumption DEF TypeInv, TypeOK
<1>4. \A q \in Procs : pc'[q] \in {"idle", "reading"} /\ (pc'[q] = "reading" => pc[q] = "reading" /\ q # p)
  BY <1>3 DEF ReadAndVerify, TypeInv, TypeOK
<1>5. ~Writing /\ ~Writing' BY <1>3, <1>4 DEF Writing, InWrite
<1>6. Solid' = Solid /\ (Broken' <=> Broken) BY <1>1, <1>5 DEF Solid, Broken, Good
<1>7. Broken => failed \/ tampered BY DEF Sound
<1>8. ReaderVerdictSound'
  <2>1. Verify(file) \/ Broken BY <1>5, VerifyIsGood
  <2>2. \A q \in Procs : seen'[q] = seen[q] \/ (q = p /\ seen'[q] = IF Verify(file) THEN "valid" ELSE "broken")
    BY DEF ReadAndVerify, TypeInv, TypeOK
  <2> QED BY <1>1, <1>7, <2>1, <2>2 DEF ReaderVerdictSound
<1>9. WriteState'
  <2>1. shared' = shared \ {p} BY DEF ReadAndVerify
  <2> QED BY <1>1, <1>4, <2>1 DEF WriteState, InWrite
<1>10. InSequence' BY <1>4 DEF InSequence
<1> QED BY <1>1, <1>5, <1>6, <1>8, <1>9, <1>10 DEF AckedKept, Kept, SameDecision, TamperKept, Sound

\* SHA-256 tells apart what it covers.
LEMMA HashTellsBodies ==
    \A prev, index, b, c : computeHash(prev, index, b) = computeHash(prev, index, c) => Hashed(b) = Hashed(c)
BY DEF computeHash

\* What an edit of one entry leaves in the file.
LEMMA EditedFile ==
    ASSUME TypeInv, NEW i, NEW body, EditEntry(i, body)
    PROVE  /\ Len(file) \in Nat /\ Len(file') = Len(file) /\ i \in 1..Len(file)
           /\ file'[i] = WithBody(file[i], body)
           /\ \A j \in 1..Len(file) : j # i => file'[j] = file[j]
<1> DEFINE e == WithBody(file[i], body)
<1>1. PICK S : file \in Seq(S) BY DEF TypeInv, IsFile
<1>2. i \in 1..Len(file) /\ file' = [file EXCEPT ![i] = e] BY DEF EditEntry
<1>3. file \in Seq(S \cup {e}) BY <1>1, SeqMonotonic
<1> QED BY <1>2, <1>3, ExceptSeq

\* Every line of a file that verifies is solid and good.
LEMMA IntactFile ==
    ASSUME ChainInv, Verify(file), \A q \in Procs : ~InWrite(q)
    PROVE  /\ ~Writing /\ Len(file) \in Nat /\ Solid = Len(file) /\ ~Broken
           /\ \A j \in 1..Len(file) : Good(file, j)
<1>1. PICK S : file \in Seq(S) BY DEF ChainInv, TypeInv, IsFile
<1> QED BY <1>1, VerifyIsGood DEF ChainInv, Writing, Solid

\* An edit of the fields that no hash covers breaks nothing: every line still
\* says the decision it said.
LEMMA ChainRetouch ==
    ASSUME ChainInv, NEW i, NEW body, EditEntry(i, body), Hashed(body) = Hashed(file[i].body), TypeInv'
    PROVE  ChainInv'
<1> USE DEF ChainInv
<1>1. UNCHANGED <<newline, shared, pc, entry, acked, seen, failed>> /\ tampered' = tampered /\ retouched'
  BY DEF EditEntry, TypeInv, TypeOK
<1>2. Verify(file) /\ \A q \in Procs : ~InWrite(q) BY DEF EditEntry
<1>3. ~Writing /\ Len(file) \in Nat /\ Solid = Len(file) /\ ~Broken /\ \A j \in 1..Len(file) : Good(file, j)
  BY <1>2, IntactFile
<1>4. ~Writing' BY <1>1, <1>2 DEF Writing, InWrite
<1>5. /\ Len(file') = Len(file) /\ i \in 1..Len(file)
      /\ file'[i] = WithBody(file[i], body)
      /\ \A j \in 1..Len(file) : j # i => file'[j] = file[j]
  BY EditedFile
<1>6. Solid' = Solid BY <1>3, <1>4, <1>5 DEF Solid
<1>7. \A j \in 1..Len(file) : SameDecision(file'[j], file[j])
  BY <1>3, <1>5 DEF SameDecision, WithBody, Good
<1>8. \A j \in 1..Len(file) : Good(file', j)
  BY <1>3, <1>7 DEF Good, SameDecision, computeHash
<1>9. ~Broken' BY <1>3, <1>6, <1>8 DEF Broken
<1>10. AckedKept'
  <2> SUFFICES ASSUME NEW e \in acked PROVE e.index + 1 \in 1..Len(file) /\ Kept(e, file[e.index + 1])'
    BY <1>1, <1>3, <1>6 DEF AckedKept, Kept
  <2>1. e.index + 1 \in 1..Len(file) /\ Kept(e, file[e.index + 1]) BY <1>3 DEF AckedKept
  <2>2. SameDecision(file'[e.index + 1], e) BY <1>7, <2>1 DEF Kept, SameDecision
  <2> QED BY <1>1, <2>1, <2>2 DEF Kept
<1>11. WriteState' BY <1>1, <1>2, <1>3, <1>5 DEF WriteState, InWrite
<1>12. InSequence'
  <2>1. \A q \in Procs : Continues(entry[q]) => Continues(entry[q])'
    BY <1>1, <1>3, <1>6, <1>7 DEF Continues, SameDecision
  <2> QED BY <1>1, <1>3, <2>1 DEF InSequence
<1> QED BY <1>1, <1>3, <1>9, <1>10, <1>11, <1>12 DEF TamperKept, Sound, ReaderVerdictSound

\* An edit of what a hash covers, or the loss of an entry, keeps the
\* invariant: the chain shows it.
LEMMA ChainTamper ==
    ASSUME ChainInv, NEW i, TypeInv',
           (\E body : EditEntry(i, body) /\ Hashed(body) # Hashed(file[i].body)) \/ DropEntry(i)
    PROVE  ChainInv'
<1> USE DEF ChainInv
<1>1. UNCHANGED <<newline, shared, pc, entry, acked, seen, failed>> /\ tampered' BY DEF EditEntry, DropEntry
<1>2. Verify(file) /\ \A q \in Procs : ~InWrite(q) BY DEF EditEntry, DropEntry
<1>3. Len(file) \in Nat /\ \A j \in 1..Len(file) : Good(file, j) BY <1>2, IntactFile
<1>4. ~Writing' BY <1>1, <1>2 DEF Writing, InWrite
<1>5. i \in 1..Len(file') /\ ~Good(file', i) /\ Len(file') \in Nat
  <2>1. ASSUME NEW body, EditEntry(i, body), Hashed(body) # Hashed(file[i].body)
        PROVE  i \in 1..Len(file') /\ ~Good(file', i) /\ Len(file') \in Nat
    <3>1. /\ Len(file') = Len(file) /\ i \in 1..Len(file) /\ file'[i] = WithBody(file[i], body)
      BY <2>1, EditedFile
    <3>2. file[i].hash = computeHash(file[i].prev, file[i].index, file[i].body) BY <1>3, <3>1 DEF Good
    <3>3. file'[i].hash # computeHash(file'[i].prev, file'[i].index, file'[i].body)
      BY <2>1, <3>1, <3>2, HashTellsBodies DEF WithBody
    <3> QED BY <1>3, <3>1, <3>3 DEF Good
  <2>2. ASSUME DropEntry(i) PROVE i \in 1..Len(file') /\ ~Good(file', i) /\ Len(file') \in Nat
    <3>0. PICK S : file \in Seq(S) BY DEF TypeInv, IsFile
    <3>1. i \in 1..(Len(file) - 1) /\ file' = Without(file, i) BY <2>2 DEF DropEntry
    <3>2. Len(file') = Len(file) - 1 /\ file'[i] = file[i + 1] BY <1>3, <3>0, <3>1 DEF Without
    <3>3. file[i + 1].index = i BY <1>3, <3>1 DEF Good
    <3> QED BY <1>3, <3>1, <3>2, <3>3 DEF Good
  <2> QED BY <2>1, <2>2
<1>6. Broken' BY <1>4, <1>5 DEF Broken, Solid
<1>7. WriteState' BY <1>1, <1>2, <1>5 DEF WriteState, InWrite
<1> QED BY <1>1, <1>6, <1>7 DEF InSequence, AckedKept, TamperKept, Sound, ReaderVerdictSound

\* Every step keeps the invariant of the chain.
LEMMA ChainStep == ChainInv /\ [Next]_vars => ChainInv'
<1> SUFFICES ASSUME ChainInv, [Next]_vars PROVE ChainInv' OBVIOUS
<1>1. TypeInv' BY TypeStep DEF ChainInv
<1>2. ASSUME NEW p \in Procs, LockExclusive(p) \/ LockShared(p) \/ Step(p) \/ Fail(p) PROVE ChainInv'
  BY <1>1, <1>2, ChainLock, ChainPrepare, ChainBeginWrite, ChainWriteJSON, ChainFinishWrite, ChainRead, ChainFail DEF Step
<1>3. ASSUME NEW i, (\E body : EditEntry(i, body)) \/ DropEntry(i) PROVE ChainInv'
  BY <1>1, <1>3, ChainRetouch, ChainTamper
<1>4. CASE UNCHANGED vars
  <2>1. UNCHANGED <<Writing, Solid, Broken>> BY <1>4 DEF vars, Writing, InWrite, Solid, Broken, Good
  <2> QED BY <1>1, <1>4, <2>1 DEF vars, ChainInv, WriteState, InWrite, InSequence, Continues, AckedKept, Kept, TamperKept,
                              Sound, ReaderVerdictSound
<1> QED BY <1>2, <1>3, <1>4 DEF Next

\* Acknowledged entries stay where Append put them, for every number of
\* hooks, crashes and torn writes (Append in ledger_store.go).
THEOREM AckedEntriesStay == Spec => []AckedDurable
<1>1. ChainInv => AckedDurable
  <2> SUFFICES ASSUME ChainInv, ~Broken, NEW e \in acked
               PROVE  /\ e.index + 1 \in 1..Len(Settled)
                      /\ SameDecision(Settled[e.index + 1], e)
                      /\ Settled[e.index + 1] = e \/ retouched
    BY VerifyIsGood DEF ChainInv, AckedDurable
  <2>1. e.index + 1 \in 1..Solid /\ Kept(e, file[e.index + 1]) BY DEF ChainInv, AckedKept
  <2> QED BY <2>1, SettledIsSolid DEF ChainInv, Kept
<1> QED BY <1>1, ChainInit, ChainStep, PTL DEF Spec

\* No append, crash or restart repairs what an edit broke (Verify in
\* ledger_store.go).
THEOREM TamperingShows == Spec => []TamperEvident
<1>1. ChainInv => TamperEvident BY VerifyIsGood DEF ChainInv, TamperKept, TamperEvident
<1> QED BY <1>1, ChainInit, ChainStep, PTL DEF Spec

\* A reader that reports a broken chain tells the truth, whatever writers are
\* doing at the time (withLedgerReadLock).
THEOREM ReadersTellTruth == Spec => []ReaderVerdictSound
<1>1. ChainInv => ReaderVerdictSound BY DEF ChainInv
<1> QED BY <1>1, ChainInit, ChainStep, PTL DEF Spec
=============================================================================
