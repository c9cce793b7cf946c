--------------------------- MODULE MCAgentContext ---------------------------
(* Instances of AgentContext for TLC.                                       *)
EXTENDS AgentContext

CONSTANTS ask, again
=============================================================================
