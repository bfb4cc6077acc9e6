---------------------------- MODULE MCAgentInbox ----------------------------
(***************************************************************************)
(* The instance of AgentInbox for TLC is given by its bounds alone.        *)
(***************************************************************************)
EXTENDS AgentInbox
=============================================================================
