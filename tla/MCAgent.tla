------------------------------ MODULE MCAgent ------------------------------
(* The agent on small instances.  Every configuration gives the constants  *)
(* of Agent their values; what each is for is in README.md.                *)
EXTENDS Agent
============================================================================
