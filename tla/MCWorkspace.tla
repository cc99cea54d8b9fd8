---------------------------- MODULE MCWorkspace ----------------------------
(* The instance of Workspace that TLC checks: the commands of               *)
(* MCContractLifecycle, and two proposals that write into one output.       *)
EXTENDS MCContractLifecycle, Workspace

CONSTANTS a1, a2, b1, b2, m1

TwoAgents == {a1, a2}
TwoBases == {b1, b2}
OneModule == {m1}
OneOutput == {"port"}

AllPatchFaults == {"crash", "write", "owner"}

\* Each half of the workspace stands still while the other is explored.
AnyNames == AnyOrder \union Permutations(Agents)
=============================================================================
