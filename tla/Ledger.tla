------------------------------- MODULE Ledger -------------------------------
(***************************************************************************)
(* The per-project decision ledger (pkg/ledger): an append-only JSONL file *)
(* whose entries are hash-chained, written by many short-lived hook        *)
(* processes that serialise on flock(ledger.jsonl.lock).                   *)
(*                                                                         *)
(* A line of the file is an entry, a Partial line (the bytes of a write    *)
(* that has not finished) or a Corrupt line (an unfinished line with later *)
(* bytes glued to it).  newline says whether the last line is terminated:  *)
(* a write that appends to an unterminated line glues onto it.             *)
(***************************************************************************)
EXTENDS Integers, Sequences, FiniteSets

CONSTANTS
    Procs,          \* processes that append to or read the ledger
    NoProc,         \* nobody holds the exclusive lock
    Contents,       \* what a hook wants recorded
    MaxLines        \* bound: lines of the file TLC explores

ASSUME NoProcAssumption == NoProc \notin Procs
ASSUME MaxLinesAssumption == MaxLines \in Nat

VARIABLES
    file,           \* ledger.jsonl, a sequence of lines
    newline,        \* the last line ends in '\n'
    lock,           \* holder of LOCK_EX, or NoProc
    shared,         \* holders of LOCK_SH
    pc,             \* where each process is
    entry,          \* the entry a writer prepared
    acked,          \* entries whose Append returned nil
    seen,           \* last verdict of each reader
    failed,         \* a writer died or failed in the middle of its write
    tampered,       \* something other than sir altered what the chain covers
    retouched       \* ... or the fields of an entry that no hash covers

vars == <<file, newline, lock, shared, pc, entry, acked, seen, failed, tampered, retouched>>

Genesis == <<>>
Partial == [kind |-> "partial"]
Corrupt == [kind |-> "corrupt"]
NoEntry == [kind |-> "none"]

\* What an entry says.  audit is base_verdict, provider_verdicts and
\* provider_failures: they are written with the entry and not hashed.
Audits == {"absent", "present"}
Bodies == [secret : BOOLEAN, preview : Contents \cup {"redacted"}, audit : Audits]

\* The fields that computeHashV4, the version Append stamps, feeds to SHA-256.
Hashed(body) == <<body.secret, body.preview>>

\* The preview of secret-labelled content is replaced before it is hashed.
sanitizeEntry(b) == IF b.secret THEN [b EXCEPT !.preview = "redacted"] ELSE b

\* SHA-256 over the length-prefixed fields: injective, hence the fields
\* themselves.
computeHash(prev, index, body) == <<prev, index, Hashed(body)>>

MkEntry(prev, index, body) ==
    [kind |-> "entry", index |-> index, prev |-> prev, body |-> body,
     hash |-> computeHash(prev, index, body)]

\* An entry with another body and everything else, its hash included, kept.
WithBody(e, body) ==
    [kind |-> "entry", index |-> e.index, prev |-> e.prev, body |-> body, hash |-> e.hash]

Without(lines, i) ==
    [j \in 1..(Len(lines) - 1) |-> IF j < i THEN lines[j] ELSE lines[j + 1]]

(***************************************************************************)
(* Reading: a line that does not parse makes the whole read fail.          *)
(***************************************************************************)
Readable(lines) == \A i \in 1..Len(lines) : lines[i].kind = "entry"

\* Mutant: the entry hash is read, not recomputed.
VerifyTrustingHash(lines) ==
    /\ Readable(lines)
    /\ \A i \in 1..Len(lines) :
         /\ lines[i].index = i - 1
         /\ lines[i].prev = IF i = 1 THEN Genesis ELSE lines[i - 1].hash

Verify(lines) ==
    /\ Readable(lines)
    /\ \A i \in 1..Len(lines) :
         /\ lines[i].index = i - 1
         /\ lines[i].prev = IF i = 1 THEN Genesis ELSE lines[i - 1].hash
         /\ lines[i].hash = computeHash(lines[i].prev, lines[i].index, lines[i].body)

\* The entry Append builds: it continues the chain of the last line, or
\* starts a new chain when the file is empty or cannot be read.
NextEntry(lines, body) ==
    IF Readable(lines) /\ lines # <<>>
    THEN MkEntry(lines[Len(lines)].hash, lines[Len(lines)].index + 1, sanitizeEntry(body))
    ELSE MkEntry(Genesis, 0, sanitizeEntry(body))

\* Bytes of p's append are in the file and its newline is not.
InWrite(p) == pc[p] \in {"writing", "unterminated"}

-----------------------------------------------------------------------------
Init ==
    /\ file = <<>>
    /\ newline = TRUE
    /\ lock = NoProc
    /\ shared = {}
    /\ pc = [p \in Procs |-> "idle"]
    /\ entry = [p \in Procs |-> NoEntry]
    /\ acked = {}
    /\ seen = [p \in Procs |-> "none"]
    /\ failed = FALSE
    /\ tampered = FALSE /\ retouched = FALSE

\* withLedgerLock: flock(LOCK_EX) is granted when nobody holds the lock in
\* any mode.
LockExclusive(p) ==
    /\ pc[p] = "idle"
    /\ Len(file) < MaxLines
    /\ lock = NoProc /\ shared = {}
    /\ lock' = p
    /\ pc' = [pc EXCEPT ![p] = "locked"]
    /\ UNCHANGED <<file, newline, shared, entry, acked, seen, failed, tampered, retouched>>

\* Read the last hash, stamp index and hash of the new entry.
Prepare(p, body) ==
    /\ pc[p] = "locked"
    /\ entry' = [entry EXCEPT ![p] = NextEntry(file, body)]
    /\ pc' = [pc EXCEPT ![p] = "prepared"]
    /\ UNCHANGED <<file, newline, lock, shared, acked, seen, failed, tampered, retouched>>

\* O_APPEND write: the first bytes reach the file.
BeginWrite(p) ==
    /\ pc[p] = "prepared"
    /\ file' = IF newline THEN Append(file, Partial)
                          ELSE [file EXCEPT ![Len(file)] = Corrupt]
    /\ newline' = FALSE
    /\ pc' = [pc EXCEPT ![p] = "writing"]
    /\ UNCHANGED <<lock, shared, entry, acked, seen, failed, tampered, retouched>>

\* All bytes of the JSON object are in the file, its newline is not.
WriteJSON(p) ==
    /\ pc[p] = "writing"
    /\ file' = IF file[Len(file)] = Partial
               THEN [file EXCEPT ![Len(file)] = entry[p]] ELSE file
    /\ pc' = [pc EXCEPT ![p] = "unterminated"]
    /\ UNCHANGED <<newline, lock, shared, entry, acked, seen, failed, tampered, retouched>>

\* The newline is written; Append returns nil and the lock is released.
FinishWrite(p) ==
    /\ pc[p] = "unterminated"
    /\ newline' = TRUE
    /\ acked' = acked \cup {entry[p]}
    /\ lock' = NoProc
    /\ entry' = [entry EXCEPT ![p] = NoEntry]
    /\ pc' = [pc EXCEPT ![p] = "idle"]
    /\ UNCHANGED <<file, shared, seen, failed, tampered, retouched>>

\* Mutant: a failed append is reported as a success.
FailSwallowed(p) ==
    /\ lock = p
    /\ lock' = NoProc
    /\ entry' = [entry EXCEPT ![p] = NoEntry]
    /\ pc' = [pc EXCEPT ![p] = "idle"]
    /\ acked' = IF pc[p] = "prepared" THEN acked \cup {entry[p]} ELSE acked
    /\ failed' = (failed \/ pc[p] \in {"writing", "unterminated"})
    /\ UNCHANGED <<file, newline, shared, seen, tampered, retouched>>

\* The process is killed, or write(2) fails after some bytes: the bytes that
\* reached the file stay, the kernel releases the lock, nothing is
\* acknowledged.  The next hook is a new process.
Fail(p) ==
    /\ lock = p
    /\ lock' = NoProc
    /\ entry' = [entry EXCEPT ![p] = NoEntry]
    /\ pc' = [pc EXCEPT ![p] = "idle"]
    /\ failed' = (failed \/ pc[p] \in {"writing", "unterminated"})
    /\ UNCHANGED <<file, newline, shared, acked, seen, tampered, retouched>>

\* Mutant: readers do not wait for a writer.
LockSharedUnlocked(p) ==
    /\ pc[p] = "idle"
    /\ shared' = shared \cup {p}
    /\ pc' = [pc EXCEPT ![p] = "reading"]
    /\ UNCHANGED <<file, newline, lock, entry, acked, seen, failed, tampered, retouched>>

\* ReadAll / Verify: flock(LOCK_SH) excludes writers, not other readers.
LockShared(p) ==
    /\ pc[p] = "idle"
    /\ lock = NoProc
    /\ shared' = shared \cup {p}
    /\ pc' = [pc EXCEPT ![p] = "reading"]
    /\ UNCHANGED <<file, newline, lock, entry, acked, seen, failed, tampered, retouched>>

ReadAndVerify(p) ==
    /\ pc[p] = "reading"
    /\ seen' = [seen EXCEPT ![p] = IF Verify(file) THEN "valid" ELSE "broken"]
    /\ shared' = shared \ {p}
    /\ pc' = [pc EXCEPT ![p] = "idle"]
    /\ UNCHANGED <<file, newline, lock, entry, acked, failed, tampered, retouched>>

\* Something other than sir edits an entry of an intact ledger, without the
\* lock and without recomputing the chain, while no append is being written
\* (a writer that has read the last hash may be about to write).
EditEntry(i, body) ==
    /\ Verify(file) /\ \A p \in Procs : ~InWrite(p)
    /\ i \in 1..Len(file) /\ file[i].body # body
    /\ file' = [file EXCEPT ![i] = WithBody(file[i], body)]
    /\ tampered' = (tampered \/ Hashed(body) # Hashed(file[i].body))
    /\ retouched' = (retouched \/ Hashed(body) = Hashed(file[i].body))
    /\ UNCHANGED <<newline, lock, shared, pc, entry, acked, seen, failed>>

\* ... or removes an entry that another one follows.
DropEntry(i) ==
    /\ Verify(file) /\ \A p \in Procs : ~InWrite(p)
    /\ i \in 1..(Len(file) - 1)
    /\ file' = Without(file, i)
    /\ tampered' = TRUE
    /\ UNCHANGED <<newline, lock, shared, pc, entry, acked, seen, failed, retouched>>

Step(p) ==
    \/ \E body \in [secret : BOOLEAN, preview : Contents, audit : Audits] : Prepare(p, body)
    \/ BeginWrite(p) \/ WriteJSON(p) \/ FinishWrite(p) \/ ReadAndVerify(p)

Next ==
    \/ \E p \in Procs : LockExclusive(p) \/ LockShared(p) \/ Step(p) \/ Fail(p)
    \/ \E i \in 1..MaxLines : DropEntry(i) \/ (\E body \in Bodies : EditEntry(i, body))

Spec == Init /\ [][Next]_vars

-----------------------------------------------------------------------------
(***************************************************************************)
(* Properties                                                              *)
(***************************************************************************)
Phases == {"idle", "locked", "prepared", "writing", "unterminated", "reading"}

\* The lines that no write in progress is still changing.
Settled ==
    IF (\E p \in Procs : InWrite(p)) /\ file[Len(file)] # Corrupt
    THEN SubSeq(file, 1, Len(file) - 1)
    ELSE file

\* Type invariant of the ledger file, its lock and its users; it also says
\* that the flock keeps writers and readers apart.
TypeOK ==
    /\ newline \in BOOLEAN /\ failed \in BOOLEAN /\ tampered \in BOOLEAN /\ retouched \in BOOLEAN
    /\ lock \in Procs \cup {NoProc}
    /\ shared \subseteq Procs
    /\ pc \in [Procs -> Phases]
    /\ seen \in [Procs -> {"none", "valid", "broken"}]
    /\ \A i \in 1..Len(file) : file[i].kind \in {"entry", "partial", "corrupt"}
    /\ \A p \in Procs : (lock = p) <=> (pc[p] \notin {"idle", "reading"})
    /\ lock # NoProc => shared = {}

\* The same decision, whatever the unhashed fields say.
SameDecision(e, f) ==
    /\ e.kind = f.kind /\ e.index = f.index /\ e.prev = f.prev /\ e.hash = f.hash
    /\ Hashed(e.body) = Hashed(f.body)

\* A ledger that Verify accepts contains every decision whose Append returned
\* nil, at the index Append gave it: whatever crashed in between, an
\* acknowledged decision is never silently missing from a valid ledger.  The
\* entry is the acknowledged one to the last field unless something other than
\* sir retouched the fields no hash covers.
AckedDurable ==
    Verify(Settled) =>
        \A e \in acked :
            /\ e.index + 1 \in 1..Len(Settled)
            /\ SameDecision(Settled[e.index + 1], e)
            /\ Settled[e.index + 1] = e \/ retouched

\* Editing a field the hash covers, or removing an entry that others follow,
\* is evident for ever after: no later append makes Verify accept the file
\* again.
TamperEvident == tampered => ~Verify(file)

\* The shared lock keeps readers from observing half-written lines: a reader
\* reports a broken chain only when a write really was cut short or the file
\* was altered (ledger_lock_unix.go).
ReaderVerdictSound ==
    \A p \in Procs : seen[p] = "broken" => failed \/ tampered

=============================================================================
