--------------------------- MODULE MCAgentSession ---------------------------
(* The session on small instances.  Every configuration gives the          *)
(* constants of AgentSession their values; README.md says what each is for. *)
EXTENDS AgentSession
=============================================================================
