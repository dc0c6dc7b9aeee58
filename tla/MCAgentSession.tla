--------------------------- MODULE MCAgentSession ---------------------------
(* AgentSession on small bounds. *)
EXTENDS AgentSession
=============================================================================
