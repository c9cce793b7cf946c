----------------------------- MODULE MCAgentRun -----------------------------
(* Instances of AgentRun for TLC: one call that may run freely, two that     *)
(* need approval, of which curl carries a credential.                       *)
EXTENDS AgentRunInv

CONSTANTS read, write, curl
=============================================================================
