------------------------------- MODULE MCCore -------------------------------
(***************************************************************************)
(* TLC instances of Core.  Four label sets, one per kind of flow the rules *)
(* tell apart; flags that only matter for one verb are set for that verb,  *)
(* and a secret session is one that ever held a secret.                    *)
(***************************************************************************)
EXTENDS Core

MCLabelSets ==
    {{}, {[sensitivity |-> "public", trust |-> "untrusted"]},
     {[sensitivity |-> "restricted", trust |-> "trusted"]},
     {[sensitivity |-> "secret", trust |-> "verified_internal"],
      [sensitivity |-> "internal", trust |-> "trusted"]}}

MCRequests ==
    {r \in RequestsOver(MCLabelSets, {{}, {"allow", "ask"}, {"deny"}}) :
        /\ r.posture => r.verb \in {"stage_write", "delete_posture"}
        /\ r.sensitive => r.verb = "read_ref"
        /\ r.secret => r.wasSecret}

MCStrict == {StrictLease}
MCBoth == {DefaultLease, StrictLease}
=============================================================================
