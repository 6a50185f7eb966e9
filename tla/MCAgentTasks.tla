---------------------------- MODULE MCAgentTasks ----------------------------
(***************************************************************************)
(* AgentTasks with at most two requests of the agent inside the panel.      *)
(***************************************************************************)
EXTENDS AgentTasks, TLC

CONSTANTS h1, h2

MCHandlers == {h1, h2}

\* Handlers are interchangeable (safety run only).
MCSymmetry == Permutations(MCHandlers)
=============================================================================
