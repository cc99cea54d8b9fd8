----------------------------- MODULE Workspace -----------------------------
(***************************************************************************)
(* The operator's .nemisis directory: its contract, and the receipts of    *)
(* the patches models wrote.  The commands on the one never touch a file   *)
(* of the other, so that a behaviour of both is a shuffle of two that know *)
(* nothing of each other, and each is explored alone.                      *)
(***************************************************************************)
EXTENDS ContractLifecycle, AgentPatch

VARIABLE concern    \* what is worked on: "contract" or "patch"

workspace == <<vars, patchVars, concern>>

WorkspaceTypeOK == TypeOK /\ PatchTypeOK /\ concern \in {"contract", "patch"}

\* While patches are worked on the idle commands' jobs make no difference.
WorkspaceInit ==
    /\ concern \in {"contract", "patch"}
    /\ Init /\ PatchInit
    /\ concern = "patch" => job = [p \in Commands |-> CHOOSE some \in Jobs : TRUE]

WorkspaceNext ==
    \/ concern = "contract" /\ Next /\ UNCHANGED <<patchVars, concern>>
    \/ concern = "patch" /\ PatchNext /\ UNCHANGED <<vars, concern>>

WorkspaceSpec == WorkspaceInit /\ [][WorkspaceNext]_workspace
=============================================================================
