------------------------------ MODULE Plugins ------------------------------
(***************************************************************************)
(* The users of provider plug-ins, side by side: the registry with the     *)
(* commands and hooks around it, and the kernel engine with its tools.     *)
(* They ask the same processes and share no state, so that a behaviour     *)
(* shows one of them at work.                                              *)
(***************************************************************************)
EXTENDS Providers, KernelRun

VARIABLE users      \* who is at work: "hooks" or "kernel"

PluginsInit ==
    /\ users \in {"hooks", "kernel"}
    /\ Init /\ KernelInit
    /\ users = "hooks" => use = "process"

PluginsNext ==
    \/ users = "hooks" /\ Next /\ UNCHANGED <<users, kernelVars>>
    \/ users = "kernel" /\ KernelNext /\ UNCHANGED <<users, vars>>

PluginsSpec == PluginsInit /\ [][PluginsNext]_<<users, vars, kernelVars>>
=============================================================================
