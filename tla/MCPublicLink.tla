---------------------------- MODULE MCPublicLink ----------------------------
(* Bounded instance of PublicLink for TLC. *)
EXTENDS PublicLink

(* A thread that is idle has no locals. *)
LiveView ==
  <<active, job, timer, code_store, worker, world, pc,
    [a \in {b \in Actors : pc[b] # "idle"} |->
       <<todo[a], IF pc[a] \in {"stopping", "clearing", "creating"} THEN seen[a] ELSE NoJob>>]>>
=============================================================================
