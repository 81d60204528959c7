------------------------- MODULE MCHostAgentStream -------------------------
(* Bounded instance of HostAgentStream for TLC. *)
EXTENDS HostAgentStream, TLC
=============================================================================
