------------------------- MODULE SessionGuardProofs -------------------------
(* TLAPS proofs about SessionGuard, for every set of threads, ids, digests *)
(* and records and every retention limit.                                  *)
EXTENDS SessionGuard, FiniteSetTheorems, TLAPS

-----------------------------------------------------------------------------
(* Terminals and raised errors are answers, and never the empty answer.    *)
LEMMA AnswerTypes ==
  /\ Raised("SESSION_CLOSED") \in Answers
  /\ Raised("SESSION_CAPACITY") \in Answers
  /\ Raised("REQUEST_ID_REUSE") \in Answers
  /\ Raised("TERMINAL_LIMIT_INVALID") \in Answers
  /\ Raised("PRE_DISPATCH") \in Answers
  /\ Raised("UNDERFLOW") \in Answers
  /\ Nothing \in Answers /\ Retry \in Answers /\ Terminals \subseteq Answers
  /\ \A k \in TerminalKinds, d \in Digests \cup {NoDigest} : Terminal(k, d) \in Terminals
  /\ Nothing \notin Terminals /\ Retry \notin Terminals
  /\ \A k \in RaisedKinds : Raised(k) \notin Terminals
BY DEF RaisedKinds, TerminalKinds, Raised, Nothing, Retry, Terminal, Terminals, Answers

Steps == {"idle", "reserve", "waiting", "leaving", "predispatch", "dispatched"}

TypeInv == TypeOK /\ HoldsExactly

(* The thread's variables are typed and a thread holds a record exactly    *)
(* while it owns or reads one; the session's and the records' are typed.   *)
ThreadInv ==
  /\ pc \in [Callers -> Steps]
  /\ request \in [Callers -> [id : Ids, digest : Digests]]
  /\ held \in [Callers -> Records \cup {NoRecord}]
  /\ answer \in [Callers -> Answers]
  /\ HoldsExactly

SessionInv ==
  /\ closed \in BOOLEAN
  /\ table \in [Ids -> Records \cup {NoRecord}]
  /\ digest \in [Records -> Digests \cup {NoDigest}]
  /\ in_flight \in [Records -> BOOLEAN]
  /\ registered_waiters \in [Records -> Nat]
  /\ wake \in [Records -> BOOLEAN]
  /\ terminal \in [Records -> Terminals \cup {Nothing}]

(* The type invariant splits into what threads and what records change.    *)
LEMMA TypeParts == TypeInv <=> ThreadInv /\ SessionInv
BY DEF TypeInv, TypeOK, ThreadInv, SessionInv, Steps

(* Returning from invoke keeps the types of the thread's variables.        *)
LEMMA FinishTypes ==
  ASSUME ThreadInv, NEW c \in Callers, NEW a \in Answers, Finish(c, a), UNCHANGED request
  PROVE  ThreadInv'
BY DEF ThreadInv, HoldsExactly, Finish, Steps

(* So does moving on inside invoke.                                        *)
LEMMA ProceedTypes ==
  ASSUME ThreadInv, NEW c \in Callers, NEW s \in Steps, NEW r \in Records \cup {NoRecord},
         s \in {"idle", "reserve"} <=> r = NoRecord, Proceed(c, s, r), UNCHANGED request,
         NEW a \in Answers, answer' \in {answer, [answer EXCEPT ![c] = a]}
  PROVE  ThreadInv'
BY DEF ThreadInv, HoldsExactly, Proceed, Steps

(* What a thread may assume of its own record and of its table entry. *)
LEMMA HeldTypes ==
  ASSUME TypeInv, NEW c \in Callers
  PROVE  /\ pc[c] \notin {"idle", "reserve"} => held[c] \in Records
         /\ Id(c) \in Ids /\ request[c].digest \in Digests
         /\ Entry(c) # NoRecord => Entry(c) \in Records
         /\ \A r \in Records : terminal[r] # Nothing => terminal[r] \in Terminals
         /\ \A r \in Records : terminal[r] \in Answers
BY AnswerTypes DEF TypeInv, TypeOK, HoldsExactly, Id, Entry

(* Every step keeps the types; a thread that reads a record holds one. *)
LEMMA TypeStep == TypeInv /\ [Next]_vars => TypeInv'
<1> SUFFICES ASSUME TypeInv, [Next]_vars PROVE ThreadInv' /\ SessionInv'
  BY DEF TypeInv, TypeOK, ThreadInv, SessionInv, Steps
<1>0. ThreadInv /\ SessionInv
  BY TypeParts
<1> USE NullAssumption
<1>1. ASSUME NEW c \in Callers, Begin(c) PROVE ThreadInv' /\ SessionInv'
  <2>1. CASE CallRefused(c)
    BY <1>0, <2>1, FinishTypes, AnswerTypes DEF CallRefused, fields, SessionInv
  <2>2. ASSUME NEW id \in Ids, NEW d \in Digests, Call(c, id, d)
        PROVE  ThreadInv' /\ SessionInv'
    BY <1>0, <2>2, AnswerTypes DEF Call, fields, SessionInv, ThreadInv, HoldsExactly, Steps
  <2> QED
    BY <1>1, <2>1, <2>2 DEF Begin
<1>2. ASSUME NEW c \in Callers, ReserveRefused(c) PROVE ThreadInv' /\ SessionInv'
  BY <1>0, <1>2, FinishTypes, AnswerTypes DEF ReserveRefused, fields, SessionInv
<1>3. ASSUME NEW c \in Callers, ReserveCached(c) PROVE ThreadInv' /\ SessionInv'
  BY <1>0, <1>3, HeldTypes, FinishTypes DEF ReserveCached, Correlate, SessionInv
<1>4. ASSUME NEW c \in Callers, ReserveJoin(c) PROVE ThreadInv' /\ SessionInv'
  <2>1. Entry(c) \in Records /\ request[c].digest \in Digests
    BY <1>4, HeldTypes DEF ReserveJoin, Correlate
  <2>2. ThreadInv'
    BY <1>0, <1>4, <2>1, ProceedTypes, AnswerTypes DEF ReserveJoin, Correlate, Steps
  <2>3. SessionInv'
    <3>1. /\ registered_waiters' \in [Records -> Nat]
          /\ digest' \in [Records -> Digests \cup {NoDigest}]
      BY <1>0, <1>4, <2>1 DEF ReserveJoin, Correlate, SessionInv
    <3>2. /\ in_flight' \in [Records -> BOOLEAN]
          /\ wake' \in [Records -> BOOLEAN]
      BY <1>0, <1>4, <2>1 DEF ReserveJoin, Correlate, SessionInv
    <3> QED
      BY <1>0, <1>4, <3>1, <3>2 DEF ReserveJoin, Correlate, SessionInv
  <2> QED
    BY <2>2, <2>3
<1>5. ASSUME NEW c \in Callers, ReserveNew(c) PROVE ThreadInv' /\ SessionInv'
  <2>1. PICK r \in Records :
          /\ table' = [table EXCEPT ![Id(c)] = r]
          /\ Create(r, request[c].digest, TRUE, Nothing, FALSE)
          /\ Proceed(c, "predispatch", r)
    BY <1>5 DEF ReserveNew
  <2>2. ThreadInv'
    BY <1>0, <1>5, <2>1, ProceedTypes, AnswerTypes DEF ReserveNew, Steps
  <2>3. SessionInv'
    BY <1>0, <1>5, <2>1, HeldTypes DEF ReserveNew, Create, SessionInv
  <2> QED
    BY <2>2, <2>3
<1>6. ASSUME NEW c \in Callers, Wake(c) PROVE ThreadInv' /\ SessionInv'
  <2>1. held[c] \in Records /\ terminal[held[c]] \in Answers
    BY <1>6, HeldTypes DEF Wake
  <2>2. ThreadInv'
    BY <1>0, <1>6, <2>1, ProceedTypes, AnswerTypes DEF Wake, Steps
  <2>3. SessionInv'
    BY <1>0, <1>6 DEF Wake, fields, SessionInv
  <2> QED
    BY <2>2, <2>3
<1>7. ASSUME NEW c \in Callers, Leave(c) PROVE ThreadInv' /\ SessionInv'
  <2>1. held[c] \in Records
    BY <1>7, HeldTypes DEF Leave
  <2>2. CASE registered_waiters[held[c]] = 0
    BY <1>0, <1>7, <2>2, FinishTypes, AnswerTypes DEF Leave, SessionInv
  <2>3. CASE registered_waiters[held[c]] # 0
    <3>1. SessionInv'
      BY <1>0, <1>7, <2>1, <2>3 DEF Leave, SessionInv
    <3>2. CASE answer[c] = Retry
      <4>1. ThreadInv'
        BY <1>0, <1>7, <2>3, <3>2, ProceedTypes, AnswerTypes DEF Leave, Steps
      <4> QED
        BY <3>1, <4>1
    <3>3. CASE answer[c] # Retry
      <4>1. answer[c] \in Answers
        BY <1>0 DEF ThreadInv
      <4>2. ThreadInv'
        BY <1>0, <1>7, <2>3, <3>3, <4>1, FinishTypes DEF Leave
      <4> QED
        BY <3>1, <4>2
    <3> QED
      BY <3>2, <3>3
  <2> QED
    BY <2>2, <2>3
<1>8. ASSUME NEW c \in Callers, Dispatch(c) PROVE ThreadInv' /\ SessionInv'
  <2>1. held[c] \in Records
    BY <1>8, HeldTypes DEF Dispatch
  <2> QED
    BY <1>0, <1>8, <2>1, ProceedTypes, AnswerTypes DEF Dispatch, fields, Steps, SessionInv
<1>9. ASSUME NEW c \in Callers, ReleasePreDispatch(c) PROVE ThreadInv' /\ SessionInv'
  <2>1. held[c] \in Records /\ terminal[held[c]] \in Answers /\ Id(c) \in Ids
    BY <1>9, HeldTypes DEF ReleasePreDispatch
  <2>2. ThreadInv'
    BY <1>0, <1>9, <2>1, FinishTypes, AnswerTypes DEF ReleasePreDispatch
  <2>3. SessionInv'
    BY <1>0, <1>9, <2>1 DEF ReleasePreDispatch, SessionInv
  <2> QED
    BY <2>2, <2>3
<1>10. ASSUME NEW c \in Callers, NEW k \in CandidateKinds, Complete(c, k)
       PROVE  ThreadInv' /\ SessionInv'
  <2> DEFINE winner == IF terminal[held[c]] = Nothing
                       THEN Terminal(k, request[c].digest) ELSE terminal[held[c]]
             unbounded == terminal[held[c]] = Nothing /\ k = "oversize" /\ Id(c) \in Unboundable
  <2>1. held[c] \in Records
    BY <1>10, HeldTypes DEF Complete
  <2>2. winner \in Terminals
    BY <2>1, HeldTypes, AnswerTypes DEF CandidateKinds, TerminalKinds
  <2>3. CASE Orphaned(c)
    BY <1>0, <1>10, <2>3, FinishTypes, AnswerTypes DEF Complete, SessionInv
  <2>4. CASE ~Orphaned(c) /\ unbounded
    BY <1>0, <1>10, <2>1, <2>4, FinishTypes, AnswerTypes DEF Complete, SessionInv
  <2>5. CASE ~Orphaned(c) /\ ~unbounded
    <3>1. Finish(c, winner) /\ UNCHANGED request
      BY <1>10, <2>5 DEF Complete
    <3>2. SessionInv'
      <4>1. terminal' = [terminal EXCEPT ![held[c]] = winner]
        BY <1>10, <2>5 DEF Complete
      <4>2. /\ in_flight' = [in_flight EXCEPT ![held[c]] = FALSE]
            /\ wake' = [wake EXCEPT ![held[c]] = TRUE]
            /\ UNCHANGED <<closed, table, digest, registered_waiters>>
        BY <1>10, <2>5 DEF Complete
      <4> HIDE DEF winner
      <4> QED
        BY <1>0, <2>2, <4>1, <4>2 DEF SessionInv
    <3> HIDE DEF winner
    <3>3. ThreadInv'
      BY <1>0, <2>2, <3>1, FinishTypes, AnswerTypes
    <3> QED
      BY <3>2, <3>3
  <2> QED
    BY <2>3, <2>4, <2>5
<1>11. ASSUME NEW id \in Ids, NEW k \in CancelKinds, CancelActive(id, k)
       PROVE  ThreadInv' /\ SessionInv'
  <2>1. Terminal(k, NoDigest) \in Terminals
    BY AnswerTypes DEF CancelKinds, TerminalKinds
  <2>2. ThreadInv'
    BY <1>0, <1>11 DEF CancelActive, threads, ThreadInv, HoldsExactly
  <2>3. SessionInv'
    BY <1>0, <1>11, <2>1 DEF CancelActive, SessionInv
  <2> QED
    BY <2>2, <2>3
<1>12. ASSUME NEW id \in Ids, NEW k \in CancelKinds, CancelUnknown(id, k)
       PROVE  ThreadInv' /\ SessionInv'
  <2>1. Terminal(k, NoDigest) \in Terminals
    BY AnswerTypes DEF CancelKinds, TerminalKinds
  <2>2. ThreadInv'
    BY <1>0, <1>12 DEF CancelUnknown, threads, ThreadInv, HoldsExactly
  <2>3. SessionInv'
    BY <1>0, <1>12, <2>1 DEF CancelUnknown, Create, SessionInv
  <2> QED
    BY <2>2, <2>3
<1>13. ASSUME NEW id \in Ids, Release(id) PROVE ThreadInv' /\ SessionInv'
  BY <1>0, <1>13 DEF Release, fields, threads, ThreadInv, SessionInv, HoldsExactly
<1>14. CASE Close
  BY <1>0, <1>14 DEF Close, threads, ThreadInv, SessionInv, HoldsExactly
<1>15. CASE UNCHANGED vars
  BY <1>0, <1>15 DEF vars, ThreadInv, SessionInv, HoldsExactly
<1> QED
  BY <1>1, <1>2, <1>3, <1>4, <1>5, <1>6, <1>7, <1>8, <1>9, <1>10, <1>11, <1>12,
     <1>13, <1>14, <1>15 DEF Next, Step, Control

(* The inductive invariant with its type part split.                       *)
LEMMA IInvParts ==
  IInv <=> /\ ThreadInv /\ SessionInv
           /\ TableInv /\ HeldInv /\ OwnerInv /\ FlightInv /\ WaiterInv /\ OriginInv
           /\ WaitersExact /\ AnswersOwnRequest /\ RetentionBounded
BY TypeParts DEF IInv, TypeInv

(* The threads registered on a record are finitely many. *)
LEMMA WaitingFinite == \A r : IsFiniteSet(Waiting(r))
BY CallersAssumption, FS_Subset DEF Waiting

(* No registration left means that no thread reads the record. *)
LEMMA NoWaiters ==
  ASSUME WaitersExact, NEW r \in Records, registered_waiters[r] = 0
  PROVE  Waiting(r) = {}
BY WaitingFinite, FS_EmptySet DEF WaitersExact

(* Distinct ids keep distinct records. *)
LEMMA TableStep == ASSUME IInv, [Next]_vars PROVE TableInv'
<1>0. ThreadInv /\ SessionInv /\ TableInv /\ HeldInv
  BY IInvParts
<1> USE NullAssumption DEF TableInv, HeldInv, ThreadInv, SessionInv, HoldsExactly, Steps, Id, Entry
<1>1. ASSUME NEW c \in Callers, CallRefused(c) PROVE TableInv'
  BY <1>0, <1>1 DEF CallRefused, fields, Finish
<1>2. ASSUME NEW c \in Callers, NEW id \in Ids, NEW d \in Digests, Call(c, id, d) PROVE TableInv'
  BY <1>0, <1>2 DEF Call, fields
<1>3. ASSUME NEW c \in Callers, ReserveRefused(c) PROVE TableInv'
  BY <1>0, <1>3 DEF ReserveRefused, fields, Finish
<1>4. ASSUME NEW c \in Callers, ReserveCached(c) PROVE TableInv'
  BY <1>0, <1>4 DEF ReserveCached, Correlate, Finish
<1>5. ASSUME NEW c \in Callers, ReserveJoin(c) PROVE TableInv'
  BY <1>0, <1>5 DEF ReserveJoin, Correlate, Proceed
<1>6. ASSUME NEW c \in Callers, ReserveNew(c) PROVE TableInv'
  BY <1>0, <1>6 DEF ReserveNew, Create, Proceed, Fresh
<1>7. ASSUME NEW c \in Callers, Wake(c) PROVE TableInv'
  BY <1>0, <1>7 DEF Wake, fields, Proceed
<1>8. ASSUME NEW c \in Callers, Leave(c) PROVE TableInv'
  BY <1>0, <1>8 DEF Leave, Proceed, Finish
<1>9. ASSUME NEW c \in Callers, Dispatch(c) PROVE TableInv'
  BY <1>0, <1>9 DEF Dispatch, fields, Proceed
<1>10. ASSUME NEW c \in Callers, ReleasePreDispatch(c) PROVE TableInv'
  BY <1>0, <1>10 DEF ReleasePreDispatch, Orphaned, Finish
<1>11. ASSUME NEW c \in Callers, NEW k \in CandidateKinds, Complete(c, k) PROVE TableInv'
  BY <1>0, <1>11 DEF Complete, Orphaned, Finish
<1>12. ASSUME NEW id \in Ids, NEW k \in CancelKinds, CancelActive(id, k) PROVE TableInv'
  BY <1>0, <1>12 DEF CancelActive, threads
<1>13. ASSUME NEW id \in Ids, NEW k \in CancelKinds, CancelUnknown(id, k) PROVE TableInv'
  BY <1>0, <1>13 DEF CancelUnknown, Create, threads, Fresh
<1>14. ASSUME NEW id \in Ids, Release(id) PROVE TableInv'
  BY <1>0, <1>14 DEF Release, fields, threads
<1>15. CASE Close
  BY <1>0, <1>15 DEF Close, threads
<1>16. CASE UNCHANGED vars
  BY <1>0, <1>16 DEF vars
<1> QED
  BY <1>1, <1>2, <1>3, <1>4, <1>5, <1>6, <1>7, <1>8, <1>9, <1>10, <1>11, <1>12, <1>13, <1>14, <1>15, <1>16 DEF Next, Begin, Step, Control

(* A thread keeps holding a record of its own id and content, whoever     *)
(* else leaves, withdraws or completes.                                    *)
LEMMA HeldStep == ASSUME IInv, [Next]_vars PROVE HeldInv'
<1>0. ThreadInv /\ SessionInv /\ TableInv /\ HeldInv
  BY IInvParts
<1> USE NullAssumption DEF TableInv, HeldInv, ThreadInv, SessionInv, HoldsExactly, Steps, Id, Entry
<1>1. ASSUME NEW c \in Callers, CallRefused(c) PROVE HeldInv'
  BY <1>0, <1>1 DEF CallRefused, fields, Finish
<1>2. ASSUME NEW c \in Callers, NEW id \in Ids, NEW d \in Digests, Call(c, id, d) PROVE HeldInv'
  BY <1>0, <1>2 DEF Call, fields
<1>3. ASSUME NEW c \in Callers, ReserveRefused(c) PROVE HeldInv'
  <2>1. /\ held' = [held EXCEPT ![c] = NoRecord]
        /\ UNCHANGED <<table, digest, request>>
    BY <1>3 DEF ReserveRefused, fields, Finish
  <2> QED
    BY <1>0, <2>1
<1>4. ASSUME NEW c \in Callers, ReserveCached(c) PROVE HeldInv'
  BY <1>0, <1>4 DEF ReserveCached, Correlate, Finish
<1>5. ASSUME NEW c \in Callers, ReserveJoin(c) PROVE HeldInv'
  <2>1. /\ held' = [held EXCEPT ![c] = Entry(c)]
        /\ digest' = [digest EXCEPT ![Entry(c)] = request[c].digest]
        /\ UNCHANGED <<table, request>>
    BY <1>5 DEF ReserveJoin, Correlate, Proceed
  <2>2. Entry(c) \in Records /\ digest[Entry(c)] \in {NoDigest, request[c].digest}
    BY <1>0, <1>5 DEF ReserveJoin, Correlate
  <2> QED
    BY <1>0, <2>1, <2>2
<1>6. ASSUME NEW c \in Callers, ReserveNew(c) PROVE HeldInv'
  BY <1>0, <1>6 DEF ReserveNew, Create, Proceed, Fresh
<1>7. ASSUME NEW c \in Callers, Wake(c) PROVE HeldInv'
  BY <1>0, <1>7 DEF Wake, fields, Proceed
<1>8. ASSUME NEW c \in Callers, Leave(c) PROVE HeldInv'
  BY <1>0, <1>8 DEF Leave, Proceed, Finish
<1>9. ASSUME NEW c \in Callers, Dispatch(c) PROVE HeldInv'
  BY <1>0, <1>9 DEF Dispatch, fields, Proceed
<1>10. ASSUME NEW c \in Callers, ReleasePreDispatch(c) PROVE HeldInv'
  <2>1. /\ held' = [held EXCEPT ![c] = NoRecord]
        /\ table' \in {table, [table EXCEPT ![Id(c)] = NoRecord]}
        /\ UNCHANGED <<digest, request>>
    BY <1>10 DEF ReleasePreDispatch, Finish
  <2> QED
    BY <1>0, <2>1
<1>11. ASSUME NEW c \in Callers, NEW k \in CandidateKinds, Complete(c, k) PROVE HeldInv'
  <2>1. /\ held' = [held EXCEPT ![c] = NoRecord]
        /\ UNCHANGED <<table, digest, request>>
    BY <1>11 DEF Complete, Finish
  <2> QED
    BY <1>0, <2>1
<1>12. ASSUME NEW id \in Ids, NEW k \in CancelKinds, CancelActive(id, k) PROVE HeldInv'
  BY <1>0, <1>12 DEF CancelActive, threads
<1>13. ASSUME NEW id \in Ids, NEW k \in CancelKinds, CancelUnknown(id, k) PROVE HeldInv'
  BY <1>0, <1>13 DEF CancelUnknown, Create, threads, Fresh
<1>14. ASSUME NEW id \in Ids, Release(id) PROVE HeldInv'
  BY <1>0, <1>14 DEF Release, fields, threads
<1>15. CASE Close
  BY <1>0, <1>15 DEF Close, threads
<1>16. CASE UNCHANGED vars
  BY <1>0, <1>16 DEF vars
<1> QED
  BY <1>1, <1>2, <1>3, <1>4, <1>5, <1>6, <1>7, <1>8, <1>9, <1>10, <1>11, <1>12, <1>13, <1>14, <1>15, <1>16 DEF Next, Begin, Step, Control

(* A step that touches no record and makes nobody an owner keeps ownership *)
(* exclusive.                                                              *)
LEMMA NoNewOwner ==
  ASSUME OwnerInv, UNCHANGED <<closed, table, in_flight, terminal, request>>,
         \A d \in Callers : Owning(d)' => Owning(d) /\ held'[d] = held[d]
  PROVE  OwnerInv'
BY DEF OwnerInv, Id, Entry

(* Ownership of a record stays exclusive, and ends before its binding      *)
(* terminal is cached.                                                     *)
LEMMA OwnerStep == ASSUME IInv, [Next]_vars PROVE OwnerInv'
<1>0. ThreadInv /\ SessionInv /\ TableInv /\ HeldInv /\ OwnerInv /\ FlightInv /\ OriginInv
  BY IInvParts
<1> USE NullAssumption DEF TableInv, HeldInv, OwnerInv, FlightInv, OriginInv, Owning, ThreadInv, SessionInv, HoldsExactly, Steps, Id, Entry
<1>1. ASSUME NEW c \in Callers, CallRefused(c) PROVE OwnerInv'
  BY <1>0, <1>1 DEF CallRefused, fields, Finish
<1>2. ASSUME NEW c \in Callers, NEW id \in Ids, NEW d \in Digests, Call(c, id, d) PROVE OwnerInv'
  BY <1>0, <1>2 DEF Call, fields
<1>3. ASSUME NEW c \in Callers, ReserveRefused(c) PROVE OwnerInv'
  BY <1>0, <1>3 DEF ReserveRefused, fields, Finish
<1>4. ASSUME NEW c \in Callers, ReserveCached(c) PROVE OwnerInv'
  BY <1>0, <1>4 DEF ReserveCached, Correlate, Finish
<1>5. ASSUME NEW c \in Callers, ReserveJoin(c) PROVE OwnerInv'
  BY <1>0, <1>5 DEF ReserveJoin, Correlate, Proceed
<1>6. ASSUME NEW c \in Callers, ReserveNew(c) PROVE OwnerInv'
  <2>1. PICK r \in Records :
          /\ Fresh(r)
          /\ table' = [table EXCEPT ![Id(c)] = r]
          /\ Create(r, request[c].digest, TRUE, Nothing, FALSE)
          /\ Proceed(c, "predispatch", r)
    BY <1>6 DEF ReserveNew
  <2>2. UNCHANGED <<closed, request>> /\ Entry(c) = NoRecord
    BY <1>6 DEF ReserveNew
  <2>3. \A d \in Callers : held[d] # r
    BY <2>1 DEF Fresh
  <2> QED
    BY SMTT(30), <1>0, <2>1, <2>2, <2>3 DEF Create, Proceed, Nothing
<1>7. ASSUME NEW c \in Callers, Wake(c) PROVE OwnerInv'
  BY <1>0, <1>7 DEF Wake, fields, Proceed
<1>8. ASSUME NEW c \in Callers, Leave(c) PROVE OwnerInv'
  <2>1. /\ held' = [held EXCEPT ![c] = NoRecord]
        /\ pc' \in {[pc EXCEPT ![c] = "idle"], [pc EXCEPT ![c] = "reserve"]}
        /\ UNCHANGED <<closed, table, in_flight, terminal, request>>
    BY <1>8 DEF Leave, Proceed, Finish
  <2>2. \A d \in Callers : Owning(d)' => Owning(d) /\ held'[d] = held[d]
    BY <1>0, <2>1
  <2> QED
    BY <1>0, <2>1, <2>2, NoNewOwner
<1>9. ASSUME NEW c \in Callers, Dispatch(c) PROVE OwnerInv'
  <2>1. /\ held' = [held EXCEPT ![c] = held[c]]
        /\ pc' = [pc EXCEPT ![c] = "dispatched"]
        /\ UNCHANGED <<closed, table, in_flight, terminal, request>>
        /\ Owning(c)
    BY <1>9 DEF Dispatch, fields, Proceed, Owning
  <2>2. \A d \in Callers : Owning(d)' => Owning(d) /\ held'[d] = held[d]
    BY <1>0, <2>1
  <2> QED
    BY <1>0, <2>1, <2>2, NoNewOwner
<1>10. ASSUME NEW c \in Callers, ReleasePreDispatch(c) PROVE OwnerInv'
  <2>1. /\ held' = [held EXCEPT ![c] = NoRecord]
        /\ pc' = [pc EXCEPT ![c] = "idle"]
        /\ UNCHANGED <<closed, terminal, request>>
    BY <1>10 DEF ReleasePreDispatch, Finish
  <2>2. CASE Orphaned(c)
    BY <1>0, <1>10, <2>1, <2>2 DEF ReleasePreDispatch
  <2>3. CASE ~Orphaned(c)
    <3>1. /\ in_flight' = [in_flight EXCEPT ![held[c]] = FALSE]
          /\ table' \in {table, [table EXCEPT ![Id(c)] = NoRecord]}
          /\ ~closed /\ table[Id(c)] = held[c]
      BY <1>10, <2>3 DEF ReleasePreDispatch, Orphaned
    <3>2. \A d \in Callers \ {c} : Owning(d) => held[d] # held[c] /\ Id(d) # Id(c)
      BY <1>0, <1>10, <3>1 DEF ReleasePreDispatch
    <3> QED
      BY <1>0, <2>1, <3>1, <3>2
  <2> QED
    BY <2>2, <2>3
<1>11. ASSUME NEW c \in Callers, NEW k \in CandidateKinds, Complete(c, k) PROVE OwnerInv'
  BY <1>0, <1>11 DEF Complete, Orphaned, Finish
<1>12. ASSUME NEW id \in Ids, NEW k \in CancelKinds, CancelActive(id, k) PROVE OwnerInv'
  <2>1. terminal' = [terminal EXCEPT ![table[id]] = Terminal(k, NoDigest)] /\ table[id] \in Records
    BY <1>0, <1>12 DEF CancelActive
  <2>2. UNCHANGED <<closed, table, in_flight, pc, request, held>>
    BY <1>12 DEF CancelActive, threads
  <2>3. \A r \in Records : terminal[r].of = NoDigest => terminal'[r].of = NoDigest
    BY <1>0, <2>1 DEF Terminal
  <2> QED
    BY <1>0, <2>2, <2>3
<1>13. ASSUME NEW id \in Ids, NEW k \in CancelKinds, CancelUnknown(id, k) PROVE OwnerInv'
  BY <1>0, <1>13 DEF CancelUnknown, Create, threads, Fresh
<1>14. ASSUME NEW id \in Ids, Release(id) PROVE OwnerInv'
  BY <1>0, <1>14 DEF Release, fields, threads
<1>15. CASE Close
  BY <1>0, <1>15 DEF Close, threads
<1>16. CASE UNCHANGED vars
  BY <1>0, <1>16 DEF vars
<1> QED
  BY <1>1, <1>2, <1>3, <1>4, <1>5, <1>6, <1>7, <1>8, <1>9, <1>10, <1>11, <1>12, <1>13, <1>14, <1>15, <1>16 DEF Next, Begin, Step, Control

(* A retained record stays decided or owned.                               *)
LEMMA FlightStep == ASSUME IInv, [Next]_vars PROVE FlightInv'
<1>0. ThreadInv /\ SessionInv /\ TableInv /\ HeldInv /\ OwnerInv /\ FlightInv
  BY IInvParts
<1> USE NullAssumption DEF TableInv, HeldInv, OwnerInv, FlightInv, Owning, ThreadInv, SessionInv, HoldsExactly, Steps, Id, Entry
<1>1. ASSUME NEW c \in Callers, CallRefused(c) PROVE FlightInv'
  BY <1>0, <1>1 DEF CallRefused, fields, Finish
<1>2. ASSUME NEW c \in Callers, NEW id \in Ids, NEW d \in Digests, Call(c, id, d) PROVE FlightInv'
  BY <1>0, <1>2 DEF Call, fields
<1>3. ASSUME NEW c \in Callers, ReserveRefused(c) PROVE FlightInv'
  BY <1>0, <1>3 DEF ReserveRefused, fields, Finish
<1>4. ASSUME NEW c \in Callers, ReserveCached(c) PROVE FlightInv'
  BY <1>0, <1>4 DEF ReserveCached, Correlate, Finish
<1>5. ASSUME NEW c \in Callers, ReserveJoin(c) PROVE FlightInv'
  BY <1>0, <1>5 DEF ReserveJoin, Correlate, Proceed
<1>6. ASSUME NEW c \in Callers, ReserveNew(c) PROVE FlightInv'
  BY <1>0, <1>6 DEF ReserveNew, Create, Proceed, Fresh
<1>7. ASSUME NEW c \in Callers, Wake(c) PROVE FlightInv'
  BY <1>0, <1>7 DEF Wake, fields, Proceed
<1>8. ASSUME NEW c \in Callers, Leave(c) PROVE FlightInv'
  BY <1>0, <1>8 DEF Leave, Proceed, Finish
<1>9. ASSUME NEW c \in Callers, Dispatch(c) PROVE FlightInv'
  BY <1>0, <1>9 DEF Dispatch, fields, Proceed
<1>10. ASSUME NEW c \in Callers, ReleasePreDispatch(c) PROVE FlightInv'
  <2>1. /\ held' = [held EXCEPT ![c] = NoRecord]
        /\ pc' = [pc EXCEPT ![c] = "idle"]
        /\ UNCHANGED terminal
    BY <1>10 DEF ReleasePreDispatch, Finish
  <2>2. CASE Orphaned(c)
    <3>1. UNCHANGED <<table, in_flight>>
      BY <1>10, <2>2 DEF ReleasePreDispatch
    <3>2. \A id \in Ids : table[id] # NoRecord => table[id] # held[c]
      BY <1>0, <1>10, <2>2 DEF ReleasePreDispatch, Orphaned
    <3> QED
      BY <1>0, <2>1, <3>1, <3>2
  <2>3. CASE ~Orphaned(c)
    <3>1. /\ in_flight' = [in_flight EXCEPT ![held[c]] = FALSE]
          /\ \/ terminal[held[c]] # Nothing /\ table' = table
             \/ table' = [table EXCEPT ![Id(c)] = NoRecord]
          /\ table[Id(c)] = held[c] /\ held[c] \in Records
      BY <1>0, <1>10, <2>3 DEF ReleasePreDispatch, Orphaned
    <3>2. \A id \in Ids \ {Id(c)} : table[id] # NoRecord => table[id] # held[c]
      BY <1>0, <3>1
    <3> SUFFICES ASSUME NEW id \in Ids, table'[id] # NoRecord
                 PROVE  /\ terminal'[table'[id]] = Nothing => in_flight'[table'[id]]
                        /\ in_flight'[table'[id]] =>
                             \E d \in Callers : Owning(d)' /\ held'[d] = table'[id]
      OBVIOUS
    <3>3. table'[id] = table[id] /\ table[id] \in Records
      BY <1>0, <3>1
    <3>4. CASE id = Id(c)
      BY <1>0, <2>1, <3>1, <3>3, <3>4
    <3>5. CASE id # Id(c)
      <4>0. table[id] # held[c]
        BY <1>0, <3>2, <3>3, <3>5
      <4>1. in_flight'[table[id]] = in_flight[table[id]]
        <5>1. in_flight \in [Records -> BOOLEAN]
          BY <1>0
        <5> QED
          BY <3>1, <3>3, <4>0, <5>1
      <4>2. \A d \in Callers : Owning(d) /\ held[d] = table[id] =>
              Owning(d)' /\ held'[d] = table[id]
        BY <1>0, <2>1, <3>3, <4>0
      <4> QED
        BY <1>0, <2>1, <3>3, <4>1, <4>2
    <3> QED
      BY <3>4, <3>5
  <2> QED
    BY <2>2, <2>3
<1>11. ASSUME NEW c \in Callers, NEW k \in CandidateKinds, Complete(c, k) PROVE FlightInv'
  <2>1. /\ held' = [held EXCEPT ![c] = NoRecord]
        /\ pc' = [pc EXCEPT ![c] = "idle"]
        /\ UNCHANGED table
        /\ held[c] \in Records
    BY <1>0, <1>11 DEF Complete, Finish
  <2>2. CASE Orphaned(c)
    <3>1. UNCHANGED <<terminal, in_flight>>
      BY <1>11, <2>2 DEF Complete
    <3>2. \A id \in Ids : table[id] # NoRecord => table[id] # held[c]
      BY <1>0, <1>11, <2>2 DEF Complete, Orphaned
    <3> QED
      BY <1>0, <2>1, <3>1, <3>2
  <2>3. CASE ~Orphaned(c)
    <3>1. table[Id(c)] = held[c] /\ Id(c) \notin Unboundable
      BY <1>0, <2>1, <2>3 DEF Orphaned
    <3>2. Terminal(k, request[c].digest) # Nothing
      BY DEF Terminal, Nothing, CandidateKinds
    <3>3. /\ in_flight' = [in_flight EXCEPT ![held[c]] = FALSE]
          /\ \E t : t # Nothing /\ terminal' = [terminal EXCEPT ![held[c]] = t]
      BY <1>11, <2>3, <3>1, <3>2 DEF Complete
    <3>4. \A id \in Ids \ {Id(c)} : table[id] # NoRecord => table[id] # held[c]
      BY <1>0, <2>1, <3>1
    <3> QED
      BY <1>0, <2>1, <3>1, <3>3, <3>4
  <2> QED
    BY <2>2, <2>3
<1>12. ASSUME NEW id \in Ids, NEW k \in CancelKinds, CancelActive(id, k) PROVE FlightInv'
  BY <1>0, <1>12 DEF CancelActive, threads
<1>13. ASSUME NEW id \in Ids, NEW k \in CancelKinds, CancelUnknown(id, k) PROVE FlightInv'
  <2>1. PICK r \in Records :
          /\ Fresh(r)
          /\ table' = [table EXCEPT ![id] = r]
          /\ Create(r, NoDigest, FALSE, Terminal(k, NoDigest), TRUE)
    BY <1>13 DEF CancelUnknown
  <2>2. UNCHANGED <<pc, held>>
    BY <1>13 DEF CancelUnknown, threads
  <2>3. Terminal(k, NoDigest) # Nothing
    BY DEF Terminal, Nothing, CancelKinds
  <2>4. \A i \in Ids : table[i] # r
    BY <2>1 DEF Fresh
  <2> QED
    BY <1>0, <2>1, <2>2, <2>3, <2>4 DEF Create
<1>14. ASSUME NEW id \in Ids, Release(id) PROVE FlightInv'
  BY <1>0, <1>14 DEF Release, fields, threads
<1>15. CASE Close
  BY <1>0, <1>15 DEF Close, threads
<1>16. CASE UNCHANGED vars
  BY <1>0, <1>16 DEF vars
<1> QED
  BY <1>1, <1>2, <1>3, <1>4, <1>5, <1>6, <1>7, <1>8, <1>9, <1>10, <1>11, <1>12, <1>13, <1>14, <1>15, <1>16 DEF Next, Begin, Step, Control

(* A waiter that is not woken keeps reading the record the table knows.    *)
LEMMA WaiterStep == ASSUME IInv, [Next]_vars PROVE WaiterInv'
<1>0. ThreadInv /\ SessionInv /\ TableInv /\ HeldInv /\ OwnerInv /\ FlightInv /\ WaiterInv
  BY IInvParts
<1> USE NullAssumption DEF TableInv, HeldInv, OwnerInv, FlightInv, WaiterInv, Owning, ThreadInv, SessionInv, HoldsExactly, Steps, Id, Entry
<1>1. ASSUME NEW c \in Callers, CallRefused(c) PROVE WaiterInv'
  BY <1>0, <1>1 DEF CallRefused, fields, Finish
<1>2. ASSUME NEW c \in Callers, NEW id \in Ids, NEW d \in Digests, Call(c, id, d) PROVE WaiterInv'
  BY <1>0, <1>2 DEF Call, fields
<1>3. ASSUME NEW c \in Callers, ReserveRefused(c) PROVE WaiterInv'
  BY <1>0, <1>3 DEF ReserveRefused, fields, Finish
<1>4. ASSUME NEW c \in Callers, ReserveCached(c) PROVE WaiterInv'
  BY <1>0, <1>4 DEF ReserveCached, Correlate, Finish
<1>5. ASSUME NEW c \in Callers, ReserveJoin(c) PROVE WaiterInv'
  BY <1>0, <1>5 DEF ReserveJoin, Correlate, Proceed
<1>6. ASSUME NEW c \in Callers, ReserveNew(c) PROVE WaiterInv'
  BY <1>0, <1>6 DEF ReserveNew, Create, Proceed, Fresh
<1>7. ASSUME NEW c \in Callers, Wake(c) PROVE WaiterInv'
  BY <1>0, <1>7 DEF Wake, fields, Proceed
<1>8. ASSUME NEW c \in Callers, Leave(c) PROVE WaiterInv'
  BY <1>0, <1>8 DEF Leave, Proceed, Finish
<1>9. ASSUME NEW c \in Callers, Dispatch(c) PROVE WaiterInv'
  BY <1>0, <1>9 DEF Dispatch, fields, Proceed
<1>10. ASSUME NEW c \in Callers, ReleasePreDispatch(c) PROVE WaiterInv'
  BY <1>0, <1>10 DEF ReleasePreDispatch, Orphaned, Finish
<1>11. ASSUME NEW c \in Callers, NEW k \in CandidateKinds, Complete(c, k) PROVE WaiterInv'
  BY <1>0, <1>11 DEF Complete, Orphaned, Finish
<1>12. ASSUME NEW id \in Ids, NEW k \in CancelKinds, CancelActive(id, k) PROVE WaiterInv'
  BY <1>0, <1>12 DEF CancelActive, threads
<1>13. ASSUME NEW id \in Ids, NEW k \in CancelKinds, CancelUnknown(id, k) PROVE WaiterInv'
  BY <1>0, <1>13 DEF CancelUnknown, Create, threads, Fresh
<1>14. ASSUME NEW id \in Ids, Release(id) PROVE WaiterInv'
  <2>1. table[id] \in Records /\ registered_waiters[table[id]] = 0
    BY <1>0, <1>14 DEF Release
  <2>2. Waiting(table[id]) = {}
    BY <2>1, NoWaiters, IInvParts
  <2>3. \A c \in Callers : pc[c] \in {"waiting", "leaving"} => held[c] # table[id]
    BY <2>2 DEF Waiting
  <2>4. table' = [table EXCEPT ![id] = NoRecord] /\ UNCHANGED <<closed, wake, terminal, threads>>
    BY <1>14 DEF Release, fields
  <2> QED
    BY <1>0, <2>3, <2>4 DEF threads
<1>15. CASE Close
  BY <1>0, <1>15 DEF Close, threads
<1>16. CASE UNCHANGED vars
  BY <1>0, <1>16 DEF vars
<1> QED
  BY <1>1, <1>2, <1>3, <1>4, <1>5, <1>6, <1>7, <1>8, <1>9, <1>10, <1>11, <1>12, <1>13, <1>14, <1>15, <1>16 DEF Next, Begin, Step, Control

(* Terminals stay with records of the digest they were computed for.       *)
LEMMA OriginStep == ASSUME IInv, [Next]_vars PROVE OriginInv'
<1>0. ThreadInv /\ SessionInv /\ HeldInv /\ OriginInv
  BY IInvParts
<1> USE NullAssumption DEF HeldInv, OriginInv, Terminal, ThreadInv, SessionInv, HoldsExactly, Steps, Id, Entry
<1>1. ASSUME NEW c \in Callers, CallRefused(c) PROVE OriginInv'
  BY <1>0, <1>1 DEF CallRefused, fields, Finish
<1>2. ASSUME NEW c \in Callers, NEW id \in Ids, NEW d \in Digests, Call(c, id, d) PROVE OriginInv'
  BY <1>0, <1>2 DEF Call, fields
<1>3. ASSUME NEW c \in Callers, ReserveRefused(c) PROVE OriginInv'
  BY <1>0, <1>3 DEF ReserveRefused, fields, Finish
<1>4. ASSUME NEW c \in Callers, ReserveCached(c) PROVE OriginInv'
  BY <1>0, <1>4 DEF ReserveCached, Correlate, Finish
<1>5. ASSUME NEW c \in Callers, ReserveJoin(c) PROVE OriginInv'
  BY <1>0, <1>5 DEF ReserveJoin, Correlate, Proceed
<1>6. ASSUME NEW c \in Callers, ReserveNew(c) PROVE OriginInv'
  <2>1. PICK r \in Records : Create(r, request[c].digest, TRUE, Nothing, FALSE)
    BY <1>6 DEF ReserveNew
  <2> QED
    BY <1>0, <2>1 DEF Create, Nothing
<1>7. ASSUME NEW c \in Callers, Wake(c) PROVE OriginInv'
  BY <1>0, <1>7 DEF Wake, fields, Proceed
<1>8. ASSUME NEW c \in Callers, Leave(c) PROVE OriginInv'
  BY <1>0, <1>8 DEF Leave, Proceed, Finish
<1>9. ASSUME NEW c \in Callers, Dispatch(c) PROVE OriginInv'
  BY <1>0, <1>9 DEF Dispatch, fields, Proceed
<1>10. ASSUME NEW c \in Callers, ReleasePreDispatch(c) PROVE OriginInv'
  BY <1>0, <1>10 DEF ReleasePreDispatch, Orphaned, Finish
<1>11. ASSUME NEW c \in Callers, NEW k \in CandidateKinds, Complete(c, k) PROVE OriginInv'
  <2>1. held[c] \in Records /\ digest[held[c]] = request[c].digest
    BY <1>0, <1>11 DEF Complete
  <2>2. UNCHANGED digest /\ (UNCHANGED terminal
           \/ terminal' = [terminal EXCEPT ![held[c]] = terminal[held[c]]]
           \/ terminal' = [terminal EXCEPT ![held[c]] = Terminal(k, request[c].digest)])
    BY <1>11 DEF Complete
  <2>3. Terminal(k, request[c].digest).of = digest[held[c]]
    BY <2>1
  <2> QED
    BY <1>0, <2>1, <2>2, <2>3
<1>12. ASSUME NEW id \in Ids, NEW k \in CancelKinds, CancelActive(id, k) PROVE OriginInv'
  BY <1>0, <1>12 DEF CancelActive, threads
<1>13. ASSUME NEW id \in Ids, NEW k \in CancelKinds, CancelUnknown(id, k) PROVE OriginInv'
  BY <1>0, <1>13 DEF CancelUnknown, Create, threads, Fresh
<1>14. ASSUME NEW id \in Ids, Release(id) PROVE OriginInv'
  BY <1>0, <1>14 DEF Release, fields, threads
<1>15. CASE Close
  BY <1>0, <1>15 DEF Close, threads
<1>16. CASE UNCHANGED vars
  BY <1>0, <1>16 DEF vars
<1> QED
  BY <1>1, <1>2, <1>3, <1>4, <1>5, <1>6, <1>7, <1>8, <1>9, <1>10, <1>11, <1>12, <1>13, <1>14, <1>15, <1>16 DEF Next, Begin, Step, Control

(* What a thread is answered stays about the request it sent.              *)
LEMMA AnswerStep == ASSUME IInv, [Next]_vars PROVE AnswersOwnRequest'
<1>0. ThreadInv /\ SessionInv /\ HeldInv /\ OriginInv /\ AnswersOwnRequest
  BY IInvParts
<1> USE NullAssumption DEF HeldInv, OriginInv, Terminal, Raised, Nothing, Retry, AnswersOwnRequest, ThreadInv, SessionInv, HoldsExactly, Steps, Id, Entry
<1>1. ASSUME NEW c \in Callers, CallRefused(c) PROVE AnswersOwnRequest'
  BY <1>0, <1>1 DEF CallRefused, fields, Finish
<1>2. ASSUME NEW c \in Callers, NEW id \in Ids, NEW d \in Digests, Call(c, id, d) PROVE AnswersOwnRequest'
  BY <1>0, <1>2 DEF Call, fields
<1>3. ASSUME NEW c \in Callers, ReserveRefused(c) PROVE AnswersOwnRequest'
  BY <1>0, <1>3 DEF ReserveRefused, fields, Finish
<1>4. ASSUME NEW c \in Callers, ReserveCached(c) PROVE AnswersOwnRequest'
  BY <1>0, <1>4 DEF ReserveCached, Correlate, Finish
<1>5. ASSUME NEW c \in Callers, ReserveJoin(c) PROVE AnswersOwnRequest'
  BY <1>0, <1>5 DEF ReserveJoin, Correlate, Proceed
<1>6. ASSUME NEW c \in Callers, ReserveNew(c) PROVE AnswersOwnRequest'
  BY <1>0, <1>6 DEF ReserveNew, Create, Proceed, Fresh
<1>7. ASSUME NEW c \in Callers, Wake(c) PROVE AnswersOwnRequest'
  BY <1>0, <1>7 DEF Wake, fields, Proceed
<1>8. ASSUME NEW c \in Callers, Leave(c) PROVE AnswersOwnRequest'
  <2>1. UNCHANGED request
    BY <1>8 DEF Leave
  <2>2. answer' = answer \/ \E a : a.of = NoDigest /\ answer' = [answer EXCEPT ![c] = a]
    BY <1>0, <1>8 DEF Leave, Proceed, Finish
  <2> QED
    BY <1>0, <2>1, <2>2
<1>9. ASSUME NEW c \in Callers, Dispatch(c) PROVE AnswersOwnRequest'
  BY <1>0, <1>9 DEF Dispatch, fields, Proceed
<1>10. ASSUME NEW c \in Callers, ReleasePreDispatch(c) PROVE AnswersOwnRequest'
  <2>1. UNCHANGED request /\ held[c] \in Records
    BY <1>0, <1>10 DEF ReleasePreDispatch
  <2>2. \E a : a.of \in {NoDigest, request[c].digest} /\ answer' = [answer EXCEPT ![c] = a]
    <3>1. terminal[held[c]].of \in {NoDigest, request[c].digest}
      BY <1>0, <2>1
    <3> QED
      BY <1>10, <3>1 DEF ReleasePreDispatch, Finish
  <2> QED
    BY <1>0, <2>1, <2>2
<1>11. ASSUME NEW c \in Callers, NEW k \in CandidateKinds, Complete(c, k) PROVE AnswersOwnRequest'
  <2>0. UNCHANGED request /\ pc[c] = "dispatched"
    BY <1>11 DEF Complete
  <2>1. UNCHANGED request /\ held[c] \in Records
    BY <1>0, <2>0
  <2>2. \E a : a.of \in {NoDigest, request[c].digest} /\ answer' = [answer EXCEPT ![c] = a]
    <3>1. terminal[held[c]].of \in {NoDigest, request[c].digest}
      BY <1>0, <2>1
    <3> QED
      BY <1>11, <3>1 DEF Complete, Finish
  <2> QED
    BY <1>0, <2>1, <2>2
<1>12. ASSUME NEW id \in Ids, NEW k \in CancelKinds, CancelActive(id, k) PROVE AnswersOwnRequest'
  BY <1>0, <1>12 DEF CancelActive, threads
<1>13. ASSUME NEW id \in Ids, NEW k \in CancelKinds, CancelUnknown(id, k) PROVE AnswersOwnRequest'
  BY <1>0, <1>13 DEF CancelUnknown, Create, threads, Fresh
<1>14. ASSUME NEW id \in Ids, Release(id) PROVE AnswersOwnRequest'
  BY <1>0, <1>14 DEF Release, fields, threads
<1>15. CASE Close
  BY <1>0, <1>15 DEF Close, threads
<1>16. CASE UNCHANGED vars
  BY <1>0, <1>16 DEF vars
<1> QED
  BY <1>1, <1>2, <1>3, <1>4, <1>5, <1>6, <1>7, <1>8, <1>9, <1>10, <1>11, <1>12, <1>13, <1>14, <1>15, <1>16 DEF Next, Begin, Step, Control

(* Registrations change only where a thread joins or leaves. *)
LEMMA WaitersUntouched ==
  ASSUME WaitersExact, UNCHANGED registered_waiters,
         \A d \in Callers : \A r \in Records :
           (pc'[d] \in {"waiting", "leaving"} /\ held'[d] = r)
             <=> (pc[d] \in {"waiting", "leaving"} /\ held[d] = r)
  PROVE  WaitersExact'
<1>1. \A r \in Records : Waiting(r)' = Waiting(r)
  BY DEF Waiting
<1> QED
  BY <1>1 DEF WaitersExact

(* A new record has no registrations and nobody reads it. *)
LEMMA WaitersOfNewRecord ==
  ASSUME WaitersExact, SessionInv, NEW r \in Records, \A d \in Callers : held[d] # r,
         registered_waiters' = [registered_waiters EXCEPT ![r] = 0],
         \A d \in Callers : \A s \in Records :
           (pc'[d] \in {"waiting", "leaving"} /\ held'[d] = s)
             <=> (pc[d] \in {"waiting", "leaving"} /\ held[d] = s)
  PROVE  WaitersExact'
<1>1. \A s \in Records : Waiting(s)' = Waiting(s)
  BY DEF Waiting
<1>2. Waiting(r) = {}
  BY DEF Waiting
<1> QED
  BY <1>1, <1>2, FS_EmptySet DEF WaitersExact, SessionInv

(* The waiter count stays the number of registered threads. *)
LEMMA CountStep == ASSUME IInv, [Next]_vars PROVE WaitersExact'
<1>0. ThreadInv /\ SessionInv /\ HoldsExactly /\ WaitersExact
  BY IInvParts DEF ThreadInv
<1> USE NullAssumption DEF ThreadInv, SessionInv, HoldsExactly, Steps, Id, Entry
<1>1. ASSUME NEW c \in Callers,
             \/ CallRefused(c) \/ (\E id \in Ids, d \in Digests : Call(c, id, d))
             \/ ReserveRefused(c) \/ ReserveCached(c) \/ Wake(c) \/ Dispatch(c)
      PROVE  WaitersExact'
  BY <1>0, <1>1, WaitersUntouched
     DEF CallRefused, Call, ReserveRefused, ReserveCached, Correlate, Wake, Dispatch,
         Proceed, Finish, fields
<1>2. ASSUME NEW c \in Callers, ReserveJoin(c) PROVE WaitersExact'
  <2>1. CASE in_flight[Entry(c)]
    <3>1. PICK r \in Records :
            /\ r = Entry(c) /\ held[c] = NoRecord /\ pc[c] = "reserve"
            /\ registered_waiters' = [registered_waiters EXCEPT ![r] = @ + 1]
            /\ Proceed(c, "waiting", r)
      BY <1>0, <1>2, <2>1 DEF ReserveJoin, Correlate
    <3>2. Waiting(r)' = Waiting(r) \cup {c} /\ c \notin Waiting(r)
      BY <1>0, <3>1 DEF Waiting, Proceed
    <3>3. \A s \in Records \ {r} : Waiting(s)' = Waiting(s)
      BY <1>0, <3>1 DEF Waiting, Proceed
    <3>4. Cardinality(Waiting(r)') = Cardinality(Waiting(r)) + 1
      BY <3>2, WaitingFinite, FS_AddElement
    <3> QED
      BY <1>0, <3>1, <3>3, <3>4 DEF WaitersExact
  <2>2. CASE ~in_flight[Entry(c)]
    BY <1>0, <1>2, <2>2, WaitersUntouched DEF ReserveJoin, Correlate, Proceed
  <2> QED
    BY <2>1, <2>2
<1>3. ASSUME NEW c \in Callers, ReserveNew(c) PROVE WaitersExact'
  <2>1. PICK r \in Records :
          /\ \A d \in Callers : held[d] # r
          /\ Create(r, request[c].digest, TRUE, Nothing, FALSE)
          /\ Proceed(c, "predispatch", r)
    BY <1>3 DEF ReserveNew, Fresh
  <2> QED
    BY <1>0, <1>3, <2>1, WaitersOfNewRecord DEF ReserveNew, Create, Proceed
<1>4. ASSUME NEW c \in Callers, Leave(c) PROVE WaitersExact'
  <2>1. PICK r \in Records : r = held[c] /\ c \in Waiting(r)
    BY <1>0, <1>4 DEF Leave, Waiting
  <2>2. registered_waiters[r] # 0
    BY <1>0, <2>1, NoWaiters
  <2>3. registered_waiters' = [registered_waiters EXCEPT ![r] = @ - 1]
    BY <1>4, <2>1, <2>2 DEF Leave
  <2>4. /\ \A d \in Callers \ {c} : pc'[d] = pc[d] /\ held'[d] = held[d]
        /\ pc'[c] \notin {"waiting", "leaving"}
    BY <1>0, <1>4, <2>1, <2>2 DEF Leave, Proceed, Finish
  <2>5. Waiting(r)' = Waiting(r) \ {c}
    BY <2>4 DEF Waiting
  <2>6. \A s \in Records \ {r} : Waiting(s)' = Waiting(s)
    BY <2>1, <2>4 DEF Waiting
  <2>7. Cardinality(Waiting(r)') = Cardinality(Waiting(r)) - 1
    BY <2>1, <2>5, WaitingFinite, FS_RemoveElement
  <2> QED
    BY <1>0, <2>1, <2>3, <2>6, <2>7 DEF WaitersExact
<1>5. ASSUME NEW c \in Callers, ReleasePreDispatch(c) PROVE WaitersExact'
  <2>1. /\ pc[c] = "predispatch" /\ UNCHANGED registered_waiters
        /\ pc' = [pc EXCEPT ![c] = "idle"] /\ held' = [held EXCEPT ![c] = NoRecord]
    BY <1>5 DEF ReleasePreDispatch, Finish
  <2> QED
    BY <1>0, <2>1, WaitersUntouched
<1>6. ASSUME NEW c \in Callers, NEW k \in CandidateKinds, Complete(c, k) PROVE WaitersExact'
  <2>1. /\ pc[c] = "dispatched" /\ UNCHANGED registered_waiters
        /\ pc' = [pc EXCEPT ![c] = "idle"] /\ held' = [held EXCEPT ![c] = NoRecord]
    BY <1>6 DEF Complete, Finish
  <2> QED
    BY <1>0, <2>1, WaitersUntouched
<1>7. ASSUME NEW id \in Ids, NEW k \in CancelKinds, CancelUnknown(id, k) PROVE WaitersExact'
  <2>1. PICK r \in Records :
          /\ \A d \in Callers : held[d] # r
          /\ Create(r, NoDigest, FALSE, Terminal(k, NoDigest), TRUE)
    BY <1>7 DEF CancelUnknown, Fresh
  <2> QED
    BY <1>0, <1>7, <2>1, WaitersOfNewRecord DEF CancelUnknown, Create, threads
<1>8. ASSUME UNCHANGED <<registered_waiters, pc, held>> PROVE WaitersExact'
  BY <1>0, <1>8, WaitersUntouched
<1>9. ASSUME NEW id \in Ids, NEW k \in CancelKinds, CancelActive(id, k) PROVE WaitersExact'
  BY <1>8, <1>9 DEF CancelActive, threads
<1>10. ASSUME NEW id \in Ids, Release(id) PROVE WaitersExact'
  BY <1>8, <1>10 DEF Release, fields, threads
<1>11. CASE Close
  BY <1>8, <1>11 DEF Close, threads
<1>12. CASE UNCHANGED vars
  BY <1>8, <1>12 DEF vars
<1> QED
  BY <1>1, <1>2, <1>3, <1>4, <1>5, <1>6, <1>7, <1>9, <1>10, <1>11, <1>12
     DEF Next, Begin, Step, Control

(* The retained ids are finitely many, so their number can be compared.    *)
LEMMA RetainedFinite == IsFiniteSet(Retained)
BY IdsAssumption, FS_Subset DEF Retained

(* _reserve and cancel add a record only below the limit.                  *)
LEMMA RetentionStep == ASSUME IInv, [Next]_vars PROVE RetentionBounded'
<1>0. SessionInv /\ RetentionBounded
  BY IInvParts
<1>1. ASSUME Retained' \subseteq Retained PROVE RetentionBounded'
  <2>1. Cardinality(Retained') <= Cardinality(Retained) /\ Cardinality(Retained') \in Nat
    BY <1>1, RetainedFinite, FS_Subset, FS_CardinalityType
  <2> QED
    BY <1>0, <2>1, RetainedFinite, FS_CardinalityType, MaxRetainedAssumption
       DEF RetentionBounded
<1>2. ASSUME NEW id \in Ids, NEW r \in Records, ~AtCapacity,
             table' = [table EXCEPT ![id] = r]
      PROVE  RetentionBounded'
  <2>1. Retained' \subseteq Retained \cup {id}
    BY <1>0, <1>2 DEF Retained, SessionInv
  <2>2. /\ IsFiniteSet(Retained \cup {id})
        /\ Cardinality(Retained \cup {id}) <= Cardinality(Retained) + 1
    <3>1. IsFiniteSet(Retained) /\ Cardinality(Retained) \in Nat
      BY RetainedFinite, FS_CardinalityType
    <3>2. /\ IsFiniteSet(Retained \cup {id})
          /\ Cardinality(Retained \cup {id}) =
               IF id \in Retained THEN Cardinality(Retained) ELSE Cardinality(Retained) + 1
      BY <3>1, FS_AddElement
    <3> QED
      BY <3>1, <3>2
  <2>3. Cardinality(Retained') <= Cardinality(Retained \cup {id}) /\ Cardinality(Retained') \in Nat
    BY <2>1, <2>2, FS_Subset, FS_CardinalityType
  <2>4. Cardinality(Retained) + 1 <= MaxRetained
    BY <1>2, RetainedFinite, FS_CardinalityType, MaxRetainedAssumption DEF AtCapacity
  <2> QED
    BY <2>2, <2>3, <2>4, RetainedFinite, FS_CardinalityType, MaxRetainedAssumption
       DEF RetentionBounded
<1>3. ASSUME table' = table PROVE RetentionBounded'
  BY <1>1, <1>3 DEF Retained
<1>4. ASSUME NEW c \in Callers, Begin(c) PROVE RetentionBounded'
  BY <1>3, <1>4 DEF Begin, CallRefused, Call
<1>5. ASSUME NEW c \in Callers,
             \/ ReserveRefused(c) \/ ReserveCached(c) \/ ReserveJoin(c) \/ Wake(c)
             \/ Leave(c) \/ Dispatch(c) \/ \E k \in CandidateKinds : Complete(c, k)
      PROVE  RetentionBounded'
  BY <1>3, <1>5 DEF ReserveRefused, ReserveCached, ReserveJoin, Correlate, Wake, Leave,
                    Dispatch, Complete
<1>6. ASSUME NEW c \in Callers, ReserveNew(c) PROVE RetentionBounded'
  <2>1. Id(c) \in Ids
    BY IInvParts DEF ThreadInv, Id
  <2> QED
    BY <1>2, <1>6, <2>1 DEF ReserveNew
<1>7. ASSUME NEW c \in Callers, ReleasePreDispatch(c) PROVE RetentionBounded'
  <2>1. table' \in {table, [table EXCEPT ![Id(c)] = NoRecord]}
    BY <1>7 DEF ReleasePreDispatch
  <2> QED
    BY <1>0, <1>1, <2>1 DEF Retained, SessionInv
<1>8. ASSUME NEW id \in Ids, NEW k \in CancelKinds, CancelUnknown(id, k)
      PROVE  RetentionBounded'
  BY <1>2, <1>8 DEF CancelUnknown
<1>9. ASSUME NEW id \in Ids, NEW k \in CancelKinds, CancelActive(id, k)
      PROVE  RetentionBounded'
  BY <1>3, <1>9 DEF CancelActive
<1>10. ASSUME NEW id \in Ids, Release(id) PROVE RetentionBounded'
  BY <1>0, <1>1, <1>10 DEF Release, Retained, SessionInv
<1>11. CASE Close
  BY <1>0, <1>1, <1>11 DEF Close, Retained, SessionInv
<1>12. CASE UNCHANGED vars
  BY <1>3, <1>12 DEF vars
<1> QED
  BY <1>4, <1>5, <1>6, <1>7, <1>8, <1>9, <1>10, <1>11, <1>12 DEF Next, Step, Control

-----------------------------------------------------------------------------
(* The session starts empty: the invariant holds.                          *)
LEMMA InitIInv == Init => IInv
<1> SUFFICES ASSUME Init PROVE IInv
  OBVIOUS
<1>1. ThreadInv /\ SessionInv
  BY NullAssumption, AnswerTypes DEF Init, ThreadInv, SessionInv, HoldsExactly, Steps
<1>2. TableInv /\ HeldInv /\ OwnerInv /\ FlightInv /\ WaiterInv /\ OriginInv /\ AnswersOwnRequest
  BY <1>1 DEF Init, ThreadInv, TableInv, HeldInv, OwnerInv, FlightInv, WaiterInv, OriginInv,
              AnswersOwnRequest, Owning, Nothing
<1>3. \A r \in Records : Waiting(r) = {}
  BY DEF Init, Waiting
<1>4. Retained = {}
  BY DEF Init, Retained
<1>5. WaitersExact
  BY <1>3, FS_EmptySet DEF Init, WaitersExact
<1>6. RetentionBounded
  BY <1>4, FS_EmptySet, MaxRetainedAssumption DEF RetentionBounded
<1> QED
  BY <1>1, <1>2, <1>5, <1>6, IInvParts

(* IInv is an inductive invariant of the specification. *)
THEOREM Inductive == Spec => []IInv
<1>1. IInv /\ [Next]_vars => IInv'
  <2> SUFFICES ASSUME IInv, [Next]_vars PROVE IInv'
    OBVIOUS
  <2>1. (TypeOK /\ HoldsExactly)'
    BY TypeStep DEF IInv, TypeInv
  <2> QED
    BY <2>1, TableStep, HeldStep, OwnerStep, FlightStep, WaiterStep, OriginStep,
       CountStep, AnswerStep, RetentionStep DEF IInv
<1> QED
  BY InitIInv, <1>1, PTL DEF Spec

(* The session guard's variables keep their types. *)
THEOREM TypeCorrect == Spec => []TypeOK
<1>1. IInv => TypeOK
  BY DEF IInv
<1> QED
  BY Inductive, <1>1, PTL

(* The waiter count of every record is the number of threads registered on *)
(* it: the finally clause of _wait_for_registered_record never underflows. *)
THEOREM WaiterCountCorrect == Spec => []WaitersExact
<1>1. IInv => WaitersExact
  BY DEF IInv
<1> QED
  BY Inductive, <1>1, PTL

(* No generation of a request reaches the provider twice. *)
THEOREM AtMostOneDispatch == Spec => []DispatchedOnce
<1>1. IInv => DispatchedOnce
  BY DEF IInv, OwnerInv, DispatchedOnce
<1> QED
  BY Inductive, <1>1, PTL

(* An undecided request that is retained, or waited for, has an owner. *)
THEOREM NoAbandonedRequest == Spec => []PendingIsOwned
<1>1. IInv => PendingIsOwned
  <2> SUFFICES ASSUME IInv, NEW r \in Records, terminal[r] = Nothing,
                      \/ \E id \in Ids : table[id] = r
                      \/ \E c \in Waiting(r) : pc[c] = "waiting" /\ ~wake[r]
               PROVE  \E c \in Callers : Owning(c) /\ held[c] = r
    BY DEF PendingIsOwned
  <2>1. \E id \in Ids : table[id] = r
    BY IInvParts DEF ThreadInv, WaiterInv, Waiting, Entry, Id
  <2> QED
    BY <2>1, NullAssumption, IInvParts DEF FlightInv
<1> QED
  BY Inductive, <1>1, PTL

(* No caller is answered with the result of another request's content. *)
THEOREM NoCrossedAnswers == Spec => []AnswersOwnRequest
<1>1. IInv => AnswersOwnRequest
  BY DEF IInv
<1> QED
  BY Inductive, <1>1, PTL

(* Retained records never exceed max_retained_requests. *)
THEOREM BoundedRetention == Spec => []RetentionBounded
<1>1. IInv => RetentionBounded
  BY DEF IInv
<1> QED
  BY Inductive, <1>1, PTL

-----------------------------------------------------------------------------
(* The guard implements the ledger.  The ledger sees a step only through   *)
(* the table, the terminals, the answers and the closed flag.              *)
Book == [id \in Ids |-> LedgerEntry(id)]
Ears == [c \in Callers |-> Heard(c)]

(* Errors and empty answers are not terminals.                             *)
LEMMA KindFacts ==
  /\ \A t \in Terminals : t.kind \in TerminalKinds /\ t # Nothing
  /\ Nothing.kind \notin TerminalKinds /\ Retry.kind \notin TerminalKinds
  /\ \A k \in RaisedKinds : Raised(k).kind \notin TerminalKinds
BY DEF Terminals, TerminalKinds, Nothing, Retry, Raised, RaisedKinds

(* Table and terminals unchanged: nothing is entered. *)
LEMMA NothingEntered == ASSUME UNCHANGED <<table, terminal>> PROVE Book' = Book
BY DEF Book, LedgerEntry

(* One entry moves and the others stay. *)
LEMMA OneEntered ==
  ASSUME NEW i \in Ids, Ledger!Moves(i), \A j \in Ids \ {i} : LedgerEntry(j)' = LedgerEntry(j)
  PROVE  Ledger!Enter
<1>1. Book' = [Book EXCEPT ![i] = Book'[i]]
  BY DEF Book
<1> QED
  BY <1>1 DEF Ledger!Enter, Book

(* One caller's answer becomes a, and nobody's request changes. *)
LEMMA OneHears ==
  ASSUME ThreadInv, NEW c \in Callers, NEW a, answer' = [answer EXCEPT ![c] = a],
         UNCHANGED request,
         \/ a.kind \notin TerminalKinds
         \/ a \in Terminals /\ LedgerEntry(Id(c))' = Ledger!Decided(a)
  PROVE  Ledger!Hear
<1>1. \A d \in Callers \ {c} : Heard(d)' = Heard(d)
  BY DEF Heard, ThreadInv, Id
<1>2. Id(c) \in Ids /\ Id(c)' = Id(c) /\ answer'[c] = a
  BY DEF ThreadInv, Id
<1>3. Ears' = [Ears EXCEPT ![c] = Heard(c)']
  BY <1>1 DEF Ears
<1>4. CASE a.kind \notin TerminalKinds
  <2>1. Heard(c)' = Ledger!Silence
    BY <1>2, <1>4 DEF Heard, Ledger!Silence
  <2> QED
    BY <1>3, <2>1 DEF Ledger!Hear, Ears
<1>5. CASE a \in Terminals /\ LedgerEntry(Id(c))' = Ledger!Decided(a)
  <2>1. Heard(c)' = Ledger!Told(Id(c), a)
    BY <1>2, <1>5, KindFacts DEF Heard, Ledger!Told
  <2>2. Book'[Id(c)] = Ledger!Decided(a)
    BY <1>2, <1>5 DEF Book
  <2>3. \E id \in Ids, v \in Terminals :
          /\ Book'[id] = Ledger!Decided(v)
          /\ Ears' = [Ears EXCEPT ![c] = Ledger!Told(id, v)]
    BY <1>2, <1>3, <1>5, <2>1, <2>2
  <2> QED
    BY <2>3 DEF Ledger!Hear, Ears, Book
<1> QED
  BY <1>4, <1>5

(* Answers and requests unchanged: nobody hears anything.                  *)
LEMMA NobodyHears == ASSUME UNCHANGED <<answer, request>> PROVE Ledger!Hear
BY DEF Ledger!Hear, Heard, Id

(* An open session serves: whatever was entered and heard is allowed. *)
LEMMA Serves ==
  ASSUME ~closed, UNCHANGED closed, Ledger!Enter, Ledger!Hear
  PROVE  Ledger!LedgerNext
BY DEF Ledger!LedgerNext, Ledger!Serve

(* A step that enters nothing and gives c an answer that is no terminal is *)
(* allowed, before and after close.                                        *)
LEMMA Refuses ==
  ASSUME ThreadInv, SessionInv, NEW c \in Callers, NEW a, a.kind \notin TerminalKinds,
         answer' = [answer EXCEPT ![c] = a], UNCHANGED <<closed, table, terminal, request>>
  PROVE  Ledger!LedgerNext
<1>1. Book' = Book
  BY NothingEntered
<1>2. CASE ~closed
  BY <1>1, <1>2, OneHears, Serves DEF Ledger!Enter, Book
<1>3. CASE closed
  <2>1. \A d \in Callers \ {c} : Heard(d)' = Heard(d)
    BY DEF Heard, ThreadInv, Id
  <2>2. Heard(c)' = Ledger!Silence
    BY DEF Heard, ThreadInv, Ledger!Silence
  <2>3. Ears' = [Ears EXCEPT ![c] = Ledger!Silence]
    BY <2>1, <2>2 DEF Ears
  <2> QED
    BY <1>1, <1>3, <2>3 DEF Ledger!LedgerNext, Ledger!Refuse, Ears, Book
<1> QED
  BY <1>2, <1>3 DEF SessionInv

(* What the ledger sees did not change. *)
LEMMA Stutters ==
  ASSUME UNCHANGED <<closed, table, terminal, answer, request>>
  PROVE  UNCHANGED Ledger!lvars
<1>1. Book' = Book
  BY NothingEntered
<1>2. Ears' = Ears
  BY DEF Ears, Heard, Id
<1> QED
  BY <1>1, <1>2 DEF Ledger!lvars, Book, Ears


(* Every step of the guard is a step of the ledger, or invisible to it. *)
LEMMA RefinementStep ==
  ASSUME IInv, [Next]_vars
  PROVE  [Ledger!LedgerNext]_(Ledger!lvars)
<1>0. ThreadInv /\ SessionInv /\ HoldsExactly
  BY IInvParts DEF ThreadInv
<1> USE <1>0, NullAssumption
<1>1. ASSUME NEW c \in Callers, CallRefused(c) PROVE Ledger!LedgerNext
  BY <1>1, Refuses, KindFacts DEF CallRefused, Finish, fields, RaisedKinds
<1>2. ASSUME NEW c \in Callers, NEW id \in Ids, NEW d \in Digests, Call(c, id, d)
      PROVE  Ledger!LedgerNext
  <2>1. Book' = Book /\ UNCHANGED closed /\ ~closed
    BY <1>2, NothingEntered DEF Call, fields
  <2>2. /\ answer' = [answer EXCEPT ![c] = Nothing]
        /\ request' = [request EXCEPT ![c] = [id |-> id, digest |-> d]]
    BY <1>2 DEF Call
  <2>3. \A b \in Callers \ {c} : Heard(b)' = Heard(b)
    BY <2>2 DEF Heard, ThreadInv, Id
  <2>4. Heard(c)' = Ledger!Silence
    BY <2>2, KindFacts DEF Heard, ThreadInv, Ledger!Silence
  <2>5. Ears' = [Ears EXCEPT ![c] = Ledger!Silence]
    BY <2>3, <2>4 DEF Ears
  <2> QED
    BY <2>1, <2>5, Serves DEF Ledger!Enter, Ledger!Hear, Book, Ears
<1>3. ASSUME NEW c \in Callers, ReserveRefused(c) PROVE Ledger!LedgerNext
  BY <1>3, Refuses, KindFacts DEF ReserveRefused, Finish, fields, RaisedKinds
<1>4. ASSUME NEW c \in Callers, ReserveCached(c) PROVE Ledger!LedgerNext
  <2>1. /\ ~closed /\ UNCHANGED <<closed, table, terminal, request>>
        /\ Entry(c) \in Records /\ terminal[Entry(c)] \in Terminals
        /\ answer' = [answer EXCEPT ![c] = terminal[Entry(c)]]
    BY <1>4 DEF ReserveCached, Correlate, Finish, ThreadInv, SessionInv, Entry, Id
  <2>2. LedgerEntry(Id(c))' = Ledger!Decided(terminal[Entry(c)])
    BY <2>1, KindFacts DEF LedgerEntry, Entry, Ledger!Decided, Id
  <2>3. Ledger!Enter
    BY <2>1, NothingEntered DEF Ledger!Enter, Book
  <2> QED
    BY <2>1, <2>2, <2>3, OneHears, Serves
<1>5. ASSUME NEW c \in Callers, ReserveJoin(c) PROVE UNCHANGED Ledger!lvars
  BY <1>5, Stutters DEF ReserveJoin, Correlate
<1>6. ASSUME NEW c \in Callers, ReserveNew(c) PROVE Ledger!LedgerNext
  <2>1. PICK r \in Records :
          /\ Fresh(r)
          /\ table' = [table EXCEPT ![Id(c)] = r]
          /\ terminal' = [terminal EXCEPT ![r] = Nothing]
    BY <1>6 DEF ReserveNew, Create
  <2>2. Id(c) \in Ids /\ table[Id(c)] = NoRecord /\ \A j \in Ids : table[j] # r
    BY <1>6, <2>1 DEF ReserveNew, Entry, Fresh, ThreadInv, Id
  <2>3. /\ LedgerEntry(Id(c)) = Ledger!Absent
        /\ \A i \in Ids : i = Id(c) => LedgerEntry(i)' = Ledger!Pending
        /\ \A j \in Ids \ {Id(c)} : LedgerEntry(j)' = LedgerEntry(j)
    BY <2>1, <2>2 DEF LedgerEntry, SessionInv, Ledger!Absent, Ledger!Pending
  <2>4. Ledger!Enter
    BY <2>2, <2>3, OneEntered DEF Ledger!Moves, Book
  <2> QED
    BY <1>6, <2>4, NobodyHears, Serves DEF ReserveNew
<1>7. ASSUME NEW c \in Callers, Wake(c) PROVE Ledger!LedgerNext
  <2>1. /\ UNCHANGED <<closed, table, terminal, request>> /\ held[c] \in Records
        /\ pc[c] = "waiting"
    BY <1>7 DEF Wake, fields, HoldsExactly, ThreadInv
  <2>2. CASE closed \/ terminal[held[c]] = Nothing
    BY <1>7, <2>1, <2>2, Refuses, KindFacts DEF Wake, RaisedKinds
  <2>3. CASE ~closed /\ terminal[held[c]] # Nothing
    <3>1. answer' = [answer EXCEPT ![c] = terminal[held[c]]]
      BY <1>7, <2>3 DEF Wake
    <3>2. table[Id(c)] = held[c] /\ terminal[held[c]] \in Terminals
      BY <2>1, <2>3, IInvParts DEF WaiterInv, Entry, SessionInv
    <3>3. LedgerEntry(Id(c))' = Ledger!Decided(terminal[held[c]])
      BY <2>1, <2>3, <3>2 DEF LedgerEntry, Ledger!Decided, Id
    <3>4. Ledger!Enter
      BY <2>1, NothingEntered DEF Ledger!Enter, Book
    <3> QED
      BY <2>1, <2>3, <3>1, <3>2, <3>3, <3>4, OneHears, Serves
  <2> QED
    BY <2>2, <2>3
<1>8. ASSUME NEW c \in Callers, Leave(c) PROVE [Ledger!LedgerNext]_(Ledger!lvars)
  <2>1. UNCHANGED <<closed, table, terminal, request>>
    BY <1>8 DEF Leave
  <2>2. CASE answer' = answer
    BY <2>1, <2>2, Stutters
  <2>3. CASE \E a \in {Nothing, Raised("UNDERFLOW")} : answer' = [answer EXCEPT ![c] = a]
    BY <2>1, <2>3, Refuses, KindFacts DEF RaisedKinds
  <2> QED
    BY <1>8, <2>2, <2>3 DEF Leave, Finish, ThreadInv
<1>9. ASSUME NEW c \in Callers, Dispatch(c) PROVE UNCHANGED Ledger!lvars
  BY <1>9, Stutters DEF Dispatch, fields
<1>10. ASSUME NEW c \in Callers, ReleasePreDispatch(c) PROVE Ledger!LedgerNext
  <2>1. UNCHANGED <<closed, terminal, request>> /\ held[c] \in Records
    BY <1>10 DEF ReleasePreDispatch, HoldsExactly, ThreadInv
  <2>2. CASE Orphaned(c)
    BY <1>10, <2>1, <2>2, Refuses, KindFacts DEF ReleasePreDispatch, Finish, RaisedKinds
  <2>3. CASE ~Orphaned(c) /\ terminal[held[c]] # Nothing
    <3>1. /\ ~closed /\ table[Id(c)] = held[c] /\ table' = table
          /\ terminal[held[c]] \in Terminals
          /\ answer' = [answer EXCEPT ![c] = terminal[held[c]]]
      BY <1>10, <2>1, <2>3 DEF ReleasePreDispatch, Orphaned, Finish, Entry, SessionInv
    <3>2. LedgerEntry(Id(c))' = Ledger!Decided(terminal[held[c]])
      BY <2>1, <2>3, <3>1 DEF LedgerEntry, Ledger!Decided, Id
    <3>3. Ledger!Enter
      BY <2>1, <3>1, NothingEntered DEF Ledger!Enter, Book
    <3> QED
      BY <2>1, <3>1, <3>2, <3>3, OneHears, Serves
  <2>4. CASE ~Orphaned(c) /\ terminal[held[c]] = Nothing
    <3>1. /\ ~closed /\ table[Id(c)] = held[c] /\ Id(c) \in Ids
          /\ table' = [table EXCEPT ![Id(c)] = NoRecord]
          /\ answer' = [answer EXCEPT ![c] = Raised("PRE_DISPATCH")]
      BY <1>10, <2>1, <2>4 DEF ReleasePreDispatch, Orphaned, Finish, Entry, Id, ThreadInv
    <3>2. /\ LedgerEntry(Id(c)) = Ledger!Pending
          /\ \A i \in Ids : i = Id(c) => LedgerEntry(i)' = Ledger!Absent
          /\ \A j \in Ids \ {Id(c)} : LedgerEntry(j)' = LedgerEntry(j)
      BY <2>1, <2>4, <3>1 DEF LedgerEntry, SessionInv, Ledger!Absent, Ledger!Pending
    <3>3. Ledger!Enter
      BY <3>1, <3>2, OneEntered DEF Ledger!Moves, Book
    <3>4. Ledger!Hear
      BY <2>1, <3>1, OneHears, KindFacts DEF RaisedKinds
    <3> QED
      BY <2>1, <3>1, <3>3, <3>4, Serves
  <2> QED
    BY <2>2, <2>3, <2>4
<1>11. ASSUME NEW c \in Callers, NEW k \in CandidateKinds, Complete(c, k)
       PROVE  Ledger!LedgerNext
  <2>1. UNCHANGED <<closed, table, request>> /\ held[c] \in Records
    BY <1>11 DEF Complete, HoldsExactly, ThreadInv
  <2>2. CASE Orphaned(c)
    BY <1>11, <2>1, <2>2, Refuses, KindFacts DEF Complete, Finish, RaisedKinds
  <2>3. CASE ~Orphaned(c)
    <3>1. ~closed /\ table[Id(c)] = held[c] /\ Id(c) \in Ids /\ Id(c) \notin Unboundable
      BY <2>1, <2>3, IInvParts DEF Orphaned, Entry, TableInv, Id, ThreadInv
    <3>2. Terminal(k, request[c].digest) \in Terminals
      BY AnswerTypes DEF CandidateKinds, TerminalKinds, ThreadInv
    <3>3. PICK w \in Terminals :
            /\ w = IF terminal[held[c]] = Nothing
                   THEN Terminal(k, request[c].digest) ELSE terminal[held[c]]
            /\ terminal' = [terminal EXCEPT ![held[c]] = w]
            /\ answer' = [answer EXCEPT ![c] = w]
      BY <1>11, <2>1, <2>3, <3>1, <3>2 DEF Complete, Finish, SessionInv
    <3>4. \A i \in Ids : i = Id(c) => LedgerEntry(i)' = Ledger!Decided(w)
      BY <2>1, <3>1, <3>3, KindFacts DEF LedgerEntry, SessionInv, Ledger!Decided
    <3>5. LedgerEntry(Id(c))' = Ledger!Decided(w)
      BY <2>1, <3>1, <3>3, KindFacts DEF LedgerEntry, SessionInv, Ledger!Decided, Id
    <3>6. \A j \in Ids \ {Id(c)} : LedgerEntry(j)' = LedgerEntry(j)
      BY <2>1, <3>1, <3>3, IInvParts DEF LedgerEntry, SessionInv, TableInv
    <3>7. Ledger!Enter
      <4>1. CASE terminal[held[c]] = Nothing
        <5>1. LedgerEntry(Id(c)) = Ledger!Pending
          BY <2>1, <3>1, <4>1 DEF LedgerEntry, Ledger!Pending
        <5> QED
          BY <3>1, <3>4, <3>6, <5>1, OneEntered DEF Ledger!Moves, Book
      <4>2. CASE terminal[held[c]] # Nothing
        <5>1. terminal' = terminal
          BY <3>3, <4>2 DEF SessionInv
        <5> QED
          BY <2>1, <5>1, NothingEntered DEF Ledger!Enter, Book
      <4> QED
        BY <4>1, <4>2
    <3> QED
      BY <2>1, <3>1, <3>3, <3>5, <3>7, OneHears, Serves
  <2> QED
    BY <2>2, <2>3
<1>12. ASSUME NEW id \in Ids, NEW k \in CancelKinds, CancelActive(id, k)
       PROVE  Ledger!LedgerNext
  <2>1. /\ ~closed /\ UNCHANGED <<closed, table, answer, request>>
        /\ table[id] \in Records /\ terminal[table[id]] = Nothing
        /\ terminal' = [terminal EXCEPT ![table[id]] = Terminal(k, NoDigest)]
    BY <1>12 DEF CancelActive, threads, SessionInv
  <2>2. Terminal(k, NoDigest) \in Terminals /\ Terminal(k, NoDigest) # Nothing
    BY AnswerTypes, KindFacts DEF CancelKinds, TerminalKinds
  <2>3. /\ LedgerEntry(id) = Ledger!Pending
        /\ LedgerEntry(id)' = Ledger!Decided(Terminal(k, NoDigest))
    BY <2>1, <2>2 DEF LedgerEntry, SessionInv, Ledger!Pending, Ledger!Decided
  <2>4. \A j \in Ids \ {id} : LedgerEntry(j)' = LedgerEntry(j)
    BY <2>1, IInvParts DEF LedgerEntry, SessionInv, TableInv
  <2>5. Ledger!Enter
    BY <2>2, <2>3, <2>4, OneEntered DEF Ledger!Moves, Book
  <2> QED
    BY <2>1, <2>5, NobodyHears, Serves
<1>13. ASSUME NEW id \in Ids, NEW k \in CancelKinds, CancelUnknown(id, k)
       PROVE  Ledger!LedgerNext
  <2>1. PICK r \in Records :
          /\ Fresh(r)
          /\ table' = [table EXCEPT ![id] = r]
          /\ terminal' = [terminal EXCEPT ![r] = Terminal(k, NoDigest)]
    BY <1>13 DEF CancelUnknown, Create
  <2>2. ~closed /\ UNCHANGED <<closed, answer, request>> /\ table[id] = NoRecord
    BY <1>13 DEF CancelUnknown, threads
  <2>3. Terminal(k, NoDigest) \in Terminals /\ Terminal(k, NoDigest) # Nothing
    BY AnswerTypes, KindFacts DEF CancelKinds, TerminalKinds
  <2>4. \A j \in Ids : table[j] # r
    BY <2>1 DEF Fresh
  <2>5. /\ LedgerEntry(id) = Ledger!Absent
        /\ LedgerEntry(id)' = Ledger!Decided(Terminal(k, NoDigest))
        /\ \A j \in Ids \ {id} : LedgerEntry(j)' = LedgerEntry(j)
    BY <2>1, <2>2, <2>3, <2>4 DEF LedgerEntry, SessionInv, Ledger!Absent, Ledger!Decided
  <2>6. Ledger!Enter
    BY <2>3, <2>5, OneEntered DEF Ledger!Moves, Book
  <2> QED
    BY <2>2, <2>6, NobodyHears, Serves
<1>14. ASSUME NEW id \in Ids, Release(id) PROVE Ledger!LedgerNext
  <2>1. /\ UNCHANGED <<closed, terminal, answer, request>> /\ table[id] # NoRecord
        /\ ~in_flight[table[id]] /\ table' = [table EXCEPT ![id] = NoRecord]
    BY <1>14 DEF Release, fields, threads
  <2>2. ~closed /\ terminal[table[id]] # Nothing
    BY <2>1, IInvParts DEF TableInv, FlightInv
  <2>3. /\ LedgerEntry(id).state = "decided"
        /\ LedgerEntry(id)' = Ledger!Absent
        /\ \A j \in Ids \ {id} : LedgerEntry(j)' = LedgerEntry(j)
    BY <2>1, <2>2 DEF LedgerEntry, SessionInv, Ledger!Absent
  <2>4. Ledger!Enter
    BY <2>3, OneEntered DEF Ledger!Moves, Book
  <2> QED
    BY <2>1, <2>2, <2>4, NobodyHears, Serves
<1>15. CASE Close
  <2>1. Book' = [id \in Ids |-> Ledger!Absent]
    BY <1>15 DEF Close, Book, LedgerEntry, Ledger!Absent
  <2>2. Ears' = Ears
    BY <1>15 DEF Close, threads, Ears, Heard, Id
  <2> QED
    BY <1>15, <2>1, <2>2 DEF Close, Ledger!LedgerNext, Ledger!Shut, Book, Ears
<1>16. CASE UNCHANGED vars
  BY <1>16, Stutters DEF vars
<1> QED
  BY <1>1, <1>2, <1>3, <1>4, <1>5, <1>6, <1>7, <1>8, <1>9, <1>10, <1>11, <1>12,
     <1>13, <1>14, <1>15, <1>16 DEF Next, Begin, Step, Control

(* The session guard implements the request ledger: one verdict per        *)
(* request, the same for everybody who asks, until it is released.         *)
THEOREM Refinement == Spec => ImplementsLedger
<1>1. Init => Ledger!LedgerInit
  BY KindFacts DEF Init, Ledger!LedgerInit, Ledger!Absent, Ledger!Silence, LedgerEntry, Heard
<1>2. IInv /\ [Next]_vars => [Ledger!LedgerNext]_(Ledger!lvars)
  BY RefinementStep
<1> QED
  BY Inductive, <1>1, <1>2, PTL DEF Spec, ImplementsLedger, Ledger!LedgerSpec

=============================================================================
