----------------------------- MODULE MCAgentLoop -----------------------------
(* The instances of AgentLoop that TLC checks.                             *)
EXTENDS AgentLoop
=============================================================================
