-------------------------- MODULE MCImportWorkbench --------------------------
(* Bounded instance of ImportWorkbench for TLC. *)
EXTENDS ImportWorkbench, TLC
=============================================================================
