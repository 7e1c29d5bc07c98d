--------------------------- MODULE MCSessionStore ---------------------------
(***************************************************************************)
(* TLC instances of SessionStore.                                          *)
(***************************************************************************)
EXTENDS SessionStore, TLC

CONSTANTS h1, h2, c1, d1, e1, e2

MCHooks2 == {h1, h2}
MCHooks1 == {h1}
MCClis == {c1}
MCDoctors == {d1}
MCEntries == {e1, e2}
MCEntry == {e1}
MCBaselineFiles == {"lease", "hooks"}
MCSessionFile == {"session"}
MCSymmetry == Permutations(MCHooks2)
=============================================================================
