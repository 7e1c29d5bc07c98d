------------------------------ MODULE MCLedger ------------------------------
(***************************************************************************)
(* TLC instances of Ledger.                                                *)
(***************************************************************************)
EXTENDS Ledger, TLC

CONSTANTS p1, p2, c1

MCProcs == {p1, p2}
MCContents == {c1}

\* The hooks are interchangeable.
Symmetry == Permutations(MCProcs)
=============================================================================
