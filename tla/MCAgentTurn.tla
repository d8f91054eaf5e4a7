----------------------------- MODULE MCAgentTurn -----------------------------
(* One turn on a small process table.                                       *)
EXTENDS AgentTurn, TLC
=============================================================================
