------------------------------ MODULE MCBridge ------------------------------
(* The bridge on small instances: a command of two lines, two requests.      *)
EXTENDS Bridge

BothSystems == {"posix", "nt"}
=============================================================================
