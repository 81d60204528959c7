--------------------------- MODULE MCSessionGuard ---------------------------
(* Bounded instance of SessionGuard for TLC. *)
EXTENDS SessionGuard, TLC

(* A record that neither the table nor a thread refers to is garbage: its  *)
(* fields are never read again, so states that differ in them are one.     *)
Referenced == {r \in Records : ~Fresh(r)}
LiveView ==
  <<closed, table, 
    [r \in Referenced |->
       <<digest[r], in_flight[r], registered_waiters[r], wake[r], terminal[r]>>],
    pc, request, held, answer>>
=============================================================================
