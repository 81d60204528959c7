---------------------------- MODULE SessionGuard ----------------------------
(***************************************************************************)
(* NeutralSessionGuard (host_agent_bridge/session_guard.py): fail-closed   *)
(* deduplication of requests around a host agent binding.  Several threads *)
(* call invoke; others cancel, release and close.  One action is one       *)
(* critical section of the guard's lock, or one step outside it (waiting   *)
(* on the wake event, readiness, the binding call).                        *)
(*                                                                         *)
(* A _RequestRecord is an object with an identity: after a pre-dispatch    *)
(* failure the record leaves the table while waiters still hold it, and a  *)
(* new record of the same id may take its place.  Records is the pool of   *)
(* identities; one that neither the table nor a thread refers to may be    *)
(* allocated again.                                                        *)
(*                                                                         *)
(* Not modelled: the validation of profile, authority, payload and         *)
(* context, which rejects a call before it touches the session state, and  *)
(* the loop over raw binding events, whose outcome is a candidate          *)
(* terminal.                                                               *)
(***************************************************************************)
EXTENDS Naturals, FiniteSets

CONSTANTS
  Callers,      \* threads that call invoke
  Ids,          \* request ids
  Digests,      \* correlation digests of a request's content
  Records,      \* identities of _RequestRecord objects
  MaxRetained,  \* max_retained_requests
  Unboundable,  \* ids whose sanitized terminal exceeds max_terminal_bytes
  NoRecord,     \* the table has no entry, the thread holds no record
  NoDigest      \* digest None; also the origin of a cancellation

ASSUME CallersAssumption == IsFiniteSet(Callers)
ASSUME IdsAssumption == IsFiniteSet(Ids) /\ Unboundable \subseteq Ids
ASSUME MaxRetainedAssumption == MaxRetained \in Nat \ {0}
ASSUME NullAssumption == NoRecord \notin Records /\ NoDigest \notin Digests

VARIABLES
  closed,    \* _closed
  table,     \* _records: id -> record identity
  digest,              \* the record objects, one function per field
  in_flight,
  registered_waiters,
  wake,
  terminal,
  pc,        \* per thread: where it is in invoke
  request,   \* per thread: its request's id and digest
  held,      \* per thread: the local variable record
  answer     \* per thread: what invoke returned or raised last

fields == <<digest, in_flight, registered_waiters, wake, terminal>>
threads == <<pc, request, held, answer>>
vars == <<closed, table, digest, in_flight, registered_waiters, wake, terminal,
          pc, request, held, answer>>

-----------------------------------------------------------------------------
(* Terminals carry the digest of the request whose binding call produced   *)
(* them; cancellations carry NoDigest.  "oversize" is the sanitized        *)
(* replacement of a terminal that exceeds max_terminal_bytes.              *)
TerminalKinds == {"result", "failure", "oversize", "cancelled"}
RaisedKinds == {"SESSION_CLOSED", "SESSION_CAPACITY", "REQUEST_ID_REUSE",
                "TERMINAL_LIMIT_INVALID", "PRE_DISPATCH", "UNDERFLOW"}

Terminal(k, d) == [kind |-> k, of |-> d]
Raised(k) == [kind |-> k, of |-> NoDigest]
Nothing == [kind |-> "none", of |-> NoDigest]
Retry == [kind |-> "retry", of |-> NoDigest]

Terminals == [kind : TerminalKinds, of : Digests \cup {NoDigest}]
Answers == [kind : TerminalKinds \cup RaisedKinds \cup {"none", "retry"},
            of : Digests \cup {NoDigest}]

Id(c) == request[c].id
Entry(c) == table[Id(c)]
Retained == {id \in Ids : table[id] # NoRecord}
(* Mutant of AtCapacity: the capacity test lets one record too many in. *)
AtCapacityOffByOne == Cardinality(Retained) > MaxRetained
AtCapacity == Cardinality(Retained) >= MaxRetained
Fresh(r) == (\A id \in Ids : table[id] # r) /\ (\A c \in Callers : held[c] # r)

Waiting(r) == {c \in Callers : pc[c] \in {"waiting", "leaving"} /\ held[c] = r}
Owning(c) == pc[c] \in {"predispatch", "dispatched"}

Init ==
  /\ closed = FALSE
  /\ table = [id \in Ids |-> NoRecord]
  /\ digest = [r \in Records |-> NoDigest]
  /\ in_flight = [r \in Records |-> FALSE]
  /\ registered_waiters = [r \in Records |-> 0]
  /\ wake = [r \in Records |-> FALSE]
  /\ terminal = [r \in Records |-> Nothing]
  /\ pc = [c \in Callers |-> "idle"]
  /\ request \in [Callers -> [id : Ids, digest : Digests]]
  /\ held = [c \in Callers |-> NoRecord]
  /\ answer = [c \in Callers |-> Nothing]

(* invoke returns or raises a. *)
Finish(c, a) ==
  /\ pc' = [pc EXCEPT ![c] = "idle"]
  /\ held' = [held EXCEPT ![c] = NoRecord]
  /\ answer' = [answer EXCEPT ![c] = a]

Proceed(c, step, r) ==
  /\ pc' = [pc EXCEPT ![c] = step]
  /\ held' = [held EXCEPT ![c] = r]

(* A new _RequestRecord. *)
Create(r, d, flying, t, w) ==
  /\ digest' = [digest EXCEPT ![r] = d]
  /\ in_flight' = [in_flight EXCEPT ![r] = flying]
  /\ registered_waiters' = [registered_waiters EXCEPT ![r] = 0]
  /\ terminal' = [terminal EXCEPT ![r] = t]
  /\ wake' = [wake EXCEPT ![r] = w]

-----------------------------------------------------------------------------
(* invoke: _ensure_open, then the stateless validations. *)
Call(c, id, d) ==
  /\ pc[c] = "idle"
  /\ ~closed
  /\ pc' = [pc EXCEPT ![c] = "reserve"]
  /\ request' = [request EXCEPT ![c] = [id |-> id, digest |-> d]]
  /\ answer' = [answer EXCEPT ![c] = Nothing]
  /\ UNCHANGED <<closed, table, fields, held>>

CallRefused(c) ==
  /\ pc[c] = "idle"
  /\ closed
  /\ Finish(c, Raised("SESSION_CLOSED"))
  /\ UNCHANGED <<closed, table, fields, request>>

(* _reserve, the branches that raise. *)
ReserveRefused(c) ==
  /\ pc[c] = "reserve"
  /\ \/ /\ closed
        /\ Finish(c, Raised("SESSION_CLOSED"))
     \/ /\ ~closed /\ Entry(c) # NoRecord
        /\ digest[Entry(c)] \notin {NoDigest, request[c].digest}
        /\ Finish(c, Raised("REQUEST_ID_REUSE"))
     \/ /\ ~closed /\ Entry(c) = NoRecord /\ AtCapacity
        /\ Finish(c, Raised("SESSION_CAPACITY"))
     \/ /\ ~closed /\ Entry(c) = NoRecord /\ ~AtCapacity
        /\ Id(c) \in Unboundable
        /\ Finish(c, Raised("TERMINAL_LIMIT_INVALID"))
  /\ UNCHANGED <<closed, table, fields, request>>

(* Mutant of Correlate: the content of a reused id is not compared. *)
CorrelateById(c) ==
  /\ pc[c] = "reserve" /\ ~closed /\ Entry(c) # NoRecord
  /\ UNCHANGED <<closed, table, digest, terminal, request>>

(* _reserve of a retained id with this request's digest; a cancellation    *)
(* tombstone adopts the digest of the first request.                       *)
Correlate(c) ==
  /\ pc[c] = "reserve"
  /\ ~closed
  /\ Entry(c) # NoRecord
  /\ digest[Entry(c)] \in {NoDigest, request[c].digest}
  /\ digest' = [digest EXCEPT ![Entry(c)] = request[c].digest]
  /\ UNCHANGED <<closed, table, terminal, request>>

(* The record already has its terminal: the cached winner. *)
ReserveCached(c) ==
  /\ Correlate(c)
  /\ terminal[Entry(c)] # Nothing
  /\ Finish(c, terminal[Entry(c)])
  /\ UNCHANGED <<in_flight, registered_waiters, wake>>

(* Mutant of ReserveJoin: a second thread owns a request in flight. *)
ReserveTakesOver(c) ==
  /\ Correlate(c)
  /\ terminal[Entry(c)] = Nothing
  /\ in_flight' = [in_flight EXCEPT ![Entry(c)] = TRUE]
  /\ wake' = [wake EXCEPT ![Entry(c)] = FALSE]
  /\ Proceed(c, "predispatch", Entry(c))
  /\ UNCHANGED <<registered_waiters, answer>>

(* It has none: wait for its owner, or own it if nobody does. *)
ReserveJoin(c) ==
  /\ Correlate(c)
  /\ terminal[Entry(c)] = Nothing
  /\ IF in_flight[Entry(c)]
     THEN /\ registered_waiters' = [registered_waiters EXCEPT ![Entry(c)] = @ + 1]
          /\ Proceed(c, "waiting", Entry(c))
          /\ UNCHANGED <<in_flight, wake>>
     ELSE /\ in_flight' = [in_flight EXCEPT ![Entry(c)] = TRUE]
          /\ wake' = [wake EXCEPT ![Entry(c)] = FALSE]
          /\ Proceed(c, "predispatch", Entry(c))
          /\ UNCHANGED registered_waiters
  /\ UNCHANGED answer

(* _reserve of an unknown id: a new record, owned by this thread. *)
ReserveNew(c) ==
  /\ pc[c] = "reserve"
  /\ ~closed
  /\ Entry(c) = NoRecord
  /\ ~AtCapacity
  /\ Id(c) \notin Unboundable
  /\ \E r \in Records :
       /\ Fresh(r)
       /\ table' = [table EXCEPT ![Id(c)] = r]
       /\ Create(r, request[c].digest, TRUE, Nothing, FALSE)
       /\ Proceed(c, "predispatch", r)
  /\ UNCHANGED <<closed, request, answer>>

-----------------------------------------------------------------------------
(* _wait_for_registered_record: the wait ends, and the first critical      *)
(* section reads the verdict of the record this thread registered on.      *)
Wake(c) ==
  /\ pc[c] = "waiting"
  /\ wake[held[c]]
  /\ Proceed(c, "leaving", held[c])
  /\ answer' = [answer EXCEPT ![c] =
       IF closed THEN Raised("SESSION_CLOSED")
       ELSE IF terminal[held[c]] # Nothing THEN terminal[held[c]]
       ELSE Retry]
  /\ UNCHANGED <<closed, table, fields, request>>

(* Mutant of Leave: a waiter that returns keeps its registration. *)
LeaveOnRetry(c) ==
  /\ pc[c] = "leaving"
  /\ IF answer[c] = Retry
     THEN /\ Proceed(c, "reserve", NoRecord)
          /\ answer' = [answer EXCEPT ![c] = Nothing]
          /\ registered_waiters' = [registered_waiters EXCEPT ![held[c]] = @ - 1]
     ELSE /\ Finish(c, answer[c])
          /\ UNCHANGED registered_waiters
  /\ UNCHANGED <<closed, table, digest, in_flight, wake, terminal, request>>

(* Its finally clause, a critical section of its own, gives the            *)
(* registration back; then invoke returns, raises, or goes round its loop. *)
Leave(c) ==
  /\ pc[c] = "leaving"
  /\ IF registered_waiters[held[c]] = 0
     THEN /\ Finish(c, Raised("UNDERFLOW"))
          /\ UNCHANGED registered_waiters
     ELSE /\ registered_waiters' = [registered_waiters EXCEPT ![held[c]] = @ - 1]
          /\ IF answer[c] = Retry
             THEN Proceed(c, "reserve", NoRecord) /\ answer' = [answer EXCEPT ![c] = Nothing]
             ELSE Finish(c, answer[c])
  /\ UNCHANGED <<closed, table, digest, in_flight, wake, terminal, request>>

(* The binding is ready, the invocation was built, and the provider is     *)
(* called: from here on the request may have had an effect.                *)
Dispatch(c) ==
  /\ pc[c] = "predispatch"
  /\ Proceed(c, "dispatched", held[c])
  /\ UNCHANGED <<closed, table, fields, request, answer>>

(* _release_pre_dispatch and _complete find the session closed. *)
Orphaned(c) == closed \/ Entry(c) # held[c]

(* Mutants of ReleasePreDispatch: the failed request stays in the table;   *)
(* or its error becomes its terminal; or its waiters are not woken.        *)
ReleaseKeepsRecord(c) ==
  /\ pc[c] = "predispatch" /\ ~Orphaned(c)
  /\ in_flight' = [in_flight EXCEPT ![held[c]] = FALSE]
  /\ wake' = [wake EXCEPT ![held[c]] = TRUE]
  /\ Finish(c, Raised("PRE_DISPATCH"))
  /\ UNCHANGED <<closed, table, digest, registered_waiters, terminal, request>>

ReleaseCachesError(c) ==
  /\ pc[c] = "predispatch" /\ ~Orphaned(c)
  /\ in_flight' = [in_flight EXCEPT ![held[c]] = FALSE]
  /\ wake' = [wake EXCEPT ![held[c]] = TRUE]
  /\ terminal' = [terminal EXCEPT ![held[c]] = Raised("PRE_DISPATCH")]
  /\ Finish(c, Raised("PRE_DISPATCH"))
  /\ UNCHANGED <<closed, table, digest, registered_waiters, request>>

ReleaseSilently(c) ==
  /\ pc[c] = "predispatch" /\ ~Orphaned(c)
  /\ in_flight' = [in_flight EXCEPT ![held[c]] = FALSE]
  /\ table' = [table EXCEPT ![Id(c)] = NoRecord]
  /\ Finish(c, Raised("PRE_DISPATCH"))
  /\ UNCHANGED <<closed, digest, registered_waiters, wake, terminal, request>>

(* Readiness or the invocation failed: _release_pre_dispatch. *)
ReleasePreDispatch(c) ==
  /\ pc[c] = "predispatch"
  /\ IF Orphaned(c)
     THEN /\ Finish(c, Raised("SESSION_CLOSED"))
          /\ UNCHANGED <<table, in_flight, wake>>
     ELSE /\ in_flight' = [in_flight EXCEPT ![held[c]] = FALSE]
          /\ wake' = [wake EXCEPT ![held[c]] = TRUE]
          /\ IF terminal[held[c]] # Nothing
             THEN Finish(c, terminal[held[c]]) /\ UNCHANGED table
             ELSE /\ table' = [table EXCEPT ![Id(c)] = NoRecord]
                  /\ Finish(c, Raised("PRE_DISPATCH"))
  /\ UNCHANGED <<closed, digest, registered_waiters, terminal, request>>

(* The binding's events were consumed and give a candidate terminal of     *)
(* kind k, "oversize" when it exceeds the limit: _complete.                *)
Complete(c, k) ==
  /\ pc[c] = "dispatched"
  /\ LET r == held[c]
         winner == IF terminal[r] = Nothing
                   THEN Terminal(k, request[c].digest) ELSE terminal[r]
         unbounded == terminal[r] = Nothing /\ k = "oversize" /\ Id(c) \in Unboundable
     IN  IF Orphaned(c)
         THEN /\ Finish(c, Raised("SESSION_CLOSED"))
              /\ UNCHANGED <<in_flight, wake, terminal>>
         ELSE /\ in_flight' = [in_flight EXCEPT ![r] = FALSE]
              /\ IF unbounded
                 THEN /\ Finish(c, Raised("TERMINAL_LIMIT_INVALID"))
                      /\ UNCHANGED <<wake, terminal>>
                 ELSE /\ terminal' = [terminal EXCEPT ![r] = winner]
                      /\ wake' = [wake EXCEPT ![r] = TRUE]
                      /\ Finish(c, winner)
  /\ UNCHANGED <<closed, table, digest, registered_waiters, request>>

-----------------------------------------------------------------------------
(* cancel of a request without terminal: the cancellation (or its          *)
(* sanitized form, when the provenance is too long) wins, even while the   *)
(* owner is still talking to the provider.                                 *)
CancelActive(id, k) ==
  /\ ~closed
  /\ table[id] # NoRecord
  /\ terminal[table[id]] = Nothing
  /\ terminal' = [terminal EXCEPT ![table[id]] = Terminal(k, NoDigest)]
  /\ wake' = [wake EXCEPT ![table[id]] = TRUE]
  /\ UNCHANGED <<closed, table, digest, in_flight, registered_waiters, threads>>

(* cancel of an id nobody has asked for yet: a tombstone. *)
CancelUnknown(id, k) ==
  /\ ~closed
  /\ table[id] = NoRecord
  /\ ~AtCapacity
  /\ id \notin Unboundable
  /\ \E r \in Records :
       /\ Fresh(r)
       /\ table' = [table EXCEPT ![id] = r]
       /\ Create(r, NoDigest, FALSE, Terminal(k, NoDigest), TRUE)
  /\ UNCHANGED <<closed, threads>>

(* Mutant of Release: registered waiters are not asked about. *)
ReleaseFinished(id) ==
  /\ table[id] # NoRecord
  /\ ~in_flight[table[id]]
  /\ table' = [table EXCEPT ![id] = NoRecord]
  /\ UNCHANGED <<closed, fields, threads>>

(* release: only a finished request that no registered waiter still reads. *)
Release(id) ==
  /\ table[id] # NoRecord
  /\ ~in_flight[table[id]]
  /\ registered_waiters[table[id]] = 0
  /\ table' = [table EXCEPT ![id] = NoRecord]
  /\ UNCHANGED <<closed, fields, threads>>

(* Mutant of Close: the waiters are forgotten with the records. *)
CloseSilently ==
  /\ ~closed
  /\ closed' = TRUE
  /\ table' = [id \in Ids |-> NoRecord]
  /\ UNCHANGED <<fields, threads>>

(* close: forget every record and wake every waiter. *)
Close ==
  /\ ~closed
  /\ closed' = TRUE
  /\ wake' = [r \in Records |-> wake[r] \/ \E id \in Ids : table[id] = r]
  /\ table' = [id \in Ids |-> NoRecord]
  /\ UNCHANGED <<digest, in_flight, registered_waiters, terminal, threads>>

-----------------------------------------------------------------------------
CandidateKinds == {"result", "failure", "oversize"}
CancelKinds == {"cancelled", "oversize"}

(* What a thread inside invoke does next. *)
Step(c) ==
  \/ ReserveRefused(c) \/ ReserveCached(c) \/ ReserveJoin(c) \/ ReserveNew(c)
  \/ Wake(c) \/ Leave(c)
  \/ Dispatch(c) \/ ReleasePreDispatch(c)
  \/ \E k \in CandidateKinds : Complete(c, k)

Begin(c) == CallRefused(c) \/ \E id \in Ids, d \in Digests : Call(c, id, d)

Control ==
  \/ \E id \in Ids, k \in CancelKinds : CancelActive(id, k) \/ CancelUnknown(id, k)
  \/ \E id \in Ids : Release(id)
  \/ Close

Next == (\E c \in Callers : Begin(c) \/ Step(c)) \/ Control

Spec == Init /\ [][Next]_vars

(* A thread inside invoke keeps running: the lock is held only for a few   *)
(* statements, and the binding call ends (the drivers bound it with a      *)
(* timeout).  Nothing is assumed of those who call, cancel or release.     *)
Fairness == \A c \in Callers : WF_vars(Step(c))
FairSpec == Spec /\ Fairness

-----------------------------------------------------------------------------
TypeOK ==
  /\ closed \in BOOLEAN
  /\ table \in [Ids -> Records \cup {NoRecord}]
  /\ digest \in [Records -> Digests \cup {NoDigest}]
  /\ in_flight \in [Records -> BOOLEAN]
  /\ registered_waiters \in [Records -> Nat]
  /\ wake \in [Records -> BOOLEAN]
  /\ terminal \in [Records -> Terminals \cup {Nothing}]
  /\ pc \in [Callers -> {"idle", "reserve", "waiting", "leaving", "predispatch", "dispatched"}]
  /\ request \in [Callers -> [id : Ids, digest : Digests]]
  /\ held \in [Callers -> Records \cup {NoRecord}]
  /\ answer \in [Callers -> Answers]

(* The waiter count of a record is exactly the number of threads that      *)
(* registered on it and have not left: it never underflows in the finally  *)
(* clause, and release never forgets a record somebody still reads.        *)
WaitersExact ==
  \A r \in Records : registered_waiters[r] = Cardinality(Waiting(r))

(* A generation of a request is dispatched at most once: no two threads    *)
(* own one record, and a record whose binding call has already given a     *)
(* terminal is never owned again.                                          *)
DispatchedOnce ==
  \A c \in Callers : Owning(c) =>
     /\ \A d \in Callers \ {c} : Owning(d) => held[d] # held[c]
     /\ terminal[held[c]].of = NoDigest

(* Nobody waits on a request nobody works on: a record without terminal    *)
(* that is still in the table, or that somebody still waits on unwoken,    *)
(* has an owner that will complete or withdraw it.                         *)
PendingIsOwned ==
  \A r \in Records :
     /\ terminal[r] = Nothing
     /\ \/ \E id \in Ids : table[id] = r
        \/ \E c \in Waiting(r) : pc[c] = "waiting" /\ ~wake[r]
     => \E c \in Callers : Owning(c) /\ held[c] = r

(* A caller is answered about the request it sent: never with a result     *)
(* that the binding computed for another content under the same id.        *)
AnswersOwnRequest ==
  \A c \in Callers : answer[c].of \in {NoDigest, request[c].digest}

(* Retained records, finished ones and tombstones included, never exceed   *)
(* max_retained_requests.                                                  *)
RetentionBounded == Cardinality(Retained) <= MaxRetained

(* The guard implements the ledger: every caller that gets a terminal gets *)
(* the one winning terminal of its request, whichever thread produced it,  *)
(* and a terminal changes only by release or close.                        *)
LedgerEntry(id) ==
  IF table[id] = NoRecord THEN [state |-> "absent", verdict |-> Nothing]
  ELSE IF terminal[table[id]] = Nothing THEN [state |-> "pending", verdict |-> Nothing]
  ELSE [state |-> "decided", verdict |-> terminal[table[id]]]

Heard(c) ==
  IF answer[c].kind \in TerminalKinds
  THEN [about |-> {Id(c)}, verdict |-> answer[c]]
  ELSE [about |-> {}, verdict |-> Nothing]

Ledger == INSTANCE RequestLedger WITH
  Verdicts <- Terminals,
  NoVerdict <- Nothing,
  ledger <- [id \in Ids |-> LedgerEntry(id)],
  told <- [c \in Callers |-> Heard(c)],
  shut <- closed

ImplementsLedger == Ledger!LedgerSpec

(* A registered waiter is always woken: by completion, cancellation,       *)
(* pre-dispatch failure or close.                                          *)
WaitersAreWoken == \A c \in Callers : pc[c] = "waiting" ~> pc[c] # "waiting"

(* invoke returns.  A waiter whose owner fails before dispatch retries,    *)
(* and could lose the race for ownership again and again to new calls, so  *)
(* this holds when the calls stop coming.                                  *)
CallsReturn ==
  <>[][\A c \in Callers : ~Begin(c)]_vars
  => \A c \in Callers : pc[c] # "idle" ~> pc[c] = "idle"

-----------------------------------------------------------------------------
(* The inductive invariant: what relates the table, the record objects and *)
(* the threads' local variables.                                           *)

(* Distinct ids have distinct records; a closed session has none. *)
TableInv ==
  /\ \A i, j \in Ids : table[i] = table[j] /\ table[i] # NoRecord => i = j
  /\ closed => \A id \in Ids : table[id] = NoRecord
  /\ \A id \in Ids : table[id] # NoRecord => id \notin Unboundable

(* A thread holds a record exactly while it owns or reads one. *)
HoldsExactly ==
  \A c \in Callers : pc[c] \in {"idle", "reserve"} <=> held[c] = NoRecord

(* The table knows a held record, if at all, under the thread's own id;    *)
(* its digest is the thread's.                                             *)
HeldInv ==
  /\ \A c \in Callers, id \in Ids :
       held[c] # NoRecord /\ table[id] = held[c] => id = Id(c)
  /\ \A c \in Callers : held[c] # NoRecord => digest[held[c]] = request[c].digest

(* An owner's record stays in the table, in flight, until the owner leaves *)
(* or the session closes; it has no second owner and no binding terminal.  *)
OwnerInv ==
  \A c \in Callers : Owning(c) =>
     /\ in_flight[held[c]]
     /\ ~closed => Entry(c) = held[c]
     /\ \A d \in Callers \ {c} : Owning(d) => held[d] # held[c]
     /\ terminal[held[c]].of = NoDigest

(* A retained record is decided or in flight, and in flight means owned. *)
FlightInv ==
  \A id \in Ids : table[id] # NoRecord =>
     /\ terminal[table[id]] = Nothing => in_flight[table[id]]
     /\ in_flight[table[id]] => \E c \in Callers : Owning(c) /\ held[c] = table[id]

(* While the session is open, a thread's record that is decided, or that   *)
(* has not woken its waiters, is still the one the table knows.            *)
WaiterInv ==
  \A c \in Callers : pc[c] \in {"waiting", "leaving"} =>
     /\ ~closed /\ terminal[held[c]] # Nothing => Entry(c) = held[c]
     /\ pc[c] = "waiting" /\ ~wake[held[c]] =>
          ~closed /\ terminal[held[c]] = Nothing /\ Entry(c) = held[c]

(* A terminal comes from a request with the record's digest. *)
OriginInv ==
  \A r \in Records : terminal[r].of \in {NoDigest, digest[r]}

IInv ==
  /\ TypeOK /\ HoldsExactly /\ TableInv /\ HeldInv /\ OwnerInv /\ FlightInv /\ WaiterInv /\ OriginInv
  /\ WaitersExact /\ AnswersOwnRequest /\ RetentionBounded
=============================================================================
