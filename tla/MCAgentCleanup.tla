--------------------------- MODULE MCAgentCleanup ---------------------------
(* AgentCleanup on small instances.                                        *)
EXTENDS AgentCleanup, TLC

AllKinds == {"scale", "deleteAgent", "deleteTemplate", "loseVM", "lag", "list", "iso",
             "create", "agentList", "agentRead", "agentWrite", "agentDelete", "destroy",
             "statusWrite", "templateWrite", "crash"}

\* Everything but the two kinds after which an Agent may leave its VM behind.
KeepingKinds == AllKinds \ {"deleteAgent", "destroy"}

\* Machines are interchangeable.
MachineSymmetry == Permutations(Machines)
=============================================================================
