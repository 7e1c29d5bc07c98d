--------------------------- MODULE AtomicSession ---------------------------
(***************************************************************************)
(* What the session store promises: every hook and every command that      *)
(* works under the session lock is one atomic read-modify-write.  It       *)
(* applies to the state its predecessor left, with one exception: `sir     *)
(* install` replaces the session by a fresh one without the lock, and an   *)
(* operation that had begun by then applies to the state it replaced.      *)
(* The replacement is then lost; without one it drops every mutation and   *)
(* the lockdown.                                                           *)
(***************************************************************************)
EXTENDS FiniteSets

CONSTANTS
    Procs,          \* processes that mutate the session
    HookReasons,    \* lockdown reasons a rebaseline clears
    OtherReasons    \* lockdown reasons it keeps

VARIABLES
    exists,         \* session.json is there
    marks,          \* mutations the session holds
    deny,           \* reason of the deny-all, or "none"
    lost            \* the state an install replaced under an operation, if one did

vars == <<exists, marks, deny, lost>>

Reasons == HookReasons \cup OtherReasons

Init ==
    /\ exists = FALSE
    /\ marks = {}
    /\ deny = "none"
    /\ lost = {}

Now == [exists |-> exists, marks |-> marks, deny |-> deny]

\* The state the next operation applies to.
Base == IF lost = {} THEN {Now} ELSE lost

Create(b) ==
    /\ ~b.exists
    /\ marks' \in {{}} \cup {{p} : p \in Procs}
    /\ deny' = "none"

Keep(b) == b.exists /\ marks' = b.marks /\ deny' = b.deny

\* One operation adds its own mutation to what is there and keeps the rest.
Mutate(b) ==
    /\ b.exists
    /\ \E p \in Procs : marks' = b.marks \cup {p}
    /\ deny' = b.deny

\* A detector locks the session down, at most once for the same reason.
Lockdown(b) ==
    /\ b.exists
    /\ deny' \in Reasons
    /\ marks' = b.marks \/ \E p \in Procs : marks' = b.marks \cup {p}

\* The rebaseline of `sir install` lifts a lockdown that a hook-file change caused.
Lift(b) ==
    /\ b.exists
    /\ b.deny \in HookReasons
    /\ deny' = "none"
    /\ marks' = b.marks

Operate ==
    /\ exists' = TRUE
    /\ \E b \in Base : Create(b) \/ Keep(b) \/ Mutate(b) \/ Lockdown(b) \/ Lift(b)
    /\ lost' = {}

\* The fresh session of `sir install`.
Replace ==
    /\ exists' = TRUE /\ marks' = {} /\ deny' = "none"
    /\ lost' \in {{}, Base}

\* The operation under which the session was replaced ends without a save.
Abandon == lost' = {} /\ UNCHANGED <<exists, marks, deny>>

Next == Operate \/ Replace \/ Abandon

Spec == Init /\ [][Next]_vars
=============================================================================
