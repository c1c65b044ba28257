---------------------------- MODULE MCAgentAccess ----------------------------
(* Roles and scopes for TLC: one key that deploys and one that needs       *)
(* approval, both for every app.                                           *)
EXTENDS AgentAccess, TLC

CONSTANTS deployer, asker

MCRole == [k \in Keys |-> IF k = deployer THEN "deploy" ELSE "deploy_approval"]
MCScope == [k \in Keys |-> Apps]
=============================================================================
