---------------------------- MODULE MCAgentDeploy ----------------------------
(* Small instances of AgentDeploy for TLC. *)
EXTENDS AgentDeploy

AppSymmetry == Permutations(Apps)
=============================================================================
