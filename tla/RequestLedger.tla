---------------------------- MODULE RequestLedger ----------------------------
(***************************************************************************)
(* What NeutralSessionGuard promises its callers, without threads, locks,  *)
(* waiters or wake events: a ledger that gives every request id one        *)
(* verdict.  A verdict, once entered, is the answer of everybody who asks  *)
(* about that id, and it is erased only by forgetting the request; a       *)
(* request that never reached the provider may be withdrawn, but only      *)
(* while it has no verdict.  After Close the ledger is empty for good and  *)
(* nobody is told a verdict any more.                                      *)
(***************************************************************************)
CONSTANTS
  Callers,    \* threads that call invoke
  Ids,        \* request ids
  Verdicts,   \* terminal events
  NoVerdict   \* nothing was told; not a verdict

VARIABLES
  ledger,     \* per id: "absent", "pending", or its verdict, tagged
  told,       \* per caller: the id and verdict its current call was told
  shut        \* the session was closed

lvars == <<ledger, told, shut>>

Absent == [state |-> "absent", verdict |-> NoVerdict]
Pending == [state |-> "pending", verdict |-> NoVerdict]
Decided(v) == [state |-> "decided", verdict |-> v]
Silence == [about |-> {}, verdict |-> NoVerdict]
Told(id, v) == [about |-> {id}, verdict |-> v]

LedgerInit ==
  /\ ledger = [id \in Ids |-> Absent]
  /\ told = [c \in Callers |-> Silence]
  /\ shut = FALSE

(* One entry moves: admitted, decided (a request nobody asked for can be   *)
(* decided too: that is a cancellation that overtakes it), withdrawn       *)
(* while pending, or forgotten once decided.                               *)
Moves(id) ==
  \/ ledger[id] = Absent /\ ledger'[id] = Pending
  \/ ledger[id] \in {Absent, Pending} /\ \E v \in Verdicts : ledger'[id] = Decided(v)
  \/ ledger[id] = Pending /\ ledger'[id] = Absent
  \/ ledger[id].state = "decided" /\ ledger'[id] = Absent

Enter ==
  \/ UNCHANGED ledger
  \/ \E id \in Ids :
       /\ Moves(id)
       /\ ledger' = [ledger EXCEPT ![id] = ledger'[id]]

(* At most one caller hears something, and what it hears is what the       *)
(* ledger says after the step; a new call forgets what was heard before.   *)
Hear ==
  \/ UNCHANGED told
  \/ \E c \in Callers :
       \/ told' = [told EXCEPT ![c] = Silence]
       \/ \E id \in Ids, v \in Verdicts :
            /\ ledger'[id] = Decided(v)
            /\ told' = [told EXCEPT ![c] = Told(id, v)]

Serve == ~shut /\ Enter /\ Hear /\ UNCHANGED shut

Shut ==
  /\ ~shut
  /\ shut' = TRUE
  /\ ledger' = [id \in Ids |-> Absent]
  /\ UNCHANGED told

(* After Close a caller can only be refused. *)
Refuse ==
  /\ shut
  /\ \E c \in Callers : told' = [told EXCEPT ![c] = Silence]
  /\ UNCHANGED <<ledger, shut>>

LedgerNext == Serve \/ Shut \/ Refuse

LedgerSpec == LedgerInit /\ [][LedgerNext]_lvars
=============================================================================
