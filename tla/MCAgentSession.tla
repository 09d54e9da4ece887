---------------------------- MODULE MCAgentSession ----------------------------
(* A finite instance of AgentSession, and of the EventStream it extends. *)
EXTENDS AgentSession, TLC
=============================================================================
