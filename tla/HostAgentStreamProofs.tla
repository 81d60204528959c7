----------------------- MODULE HostAgentStreamProofs -----------------------
(* TLAPS proofs about HostAgentStream, for every set of turns. *)
EXTENDS HostAgentStream, TLAPS

(* A yielded frame and a read one keep the queues typed. *)
LEMMA QueueTyped ==
  ASSUME pending \in [Turns -> Seq(Frames)], NEW t \in Turns
  PROVE  /\ \A f \in Frames :
              [pending EXCEPT ![t] = Append(@, f)] \in [Turns -> Seq(Frames)]
         /\ pending[t] # <<>> =>
              /\ Head(pending[t]) \in Frames
              /\ [pending EXCEPT ![t] = Tail(@)] \in [Turns -> Seq(Frames)]
         /\ [pending EXCEPT ![t] = <<>>] \in [Turns -> Seq(Frames)]
OBVIOUS

(* The states a turn starts from. *)
LEMMA BlankTyped == Blank("idle") \in Shown /\ Blank("connecting") \in Shown
BY DEF Shown, Blank

(* What finishWithError and the cancellations show is a state of a turn. *)
LEMMA EndedTyped ==
  ASSUME NEW x \in Shown, NEW s \in Settled
  PROVE  /\ [x EXCEPT !.status = s] \in Shown
         /\ [x EXCEPT !.status = s, !.final = "none"] \in Shown
BY DEF Shown

(* Every step keeps the types. *)
LEMMA TypeStep == ASSUME TypeOK, [Next]_vars PROVE TypeOK'
<1> USE TurnsAssumption DEF TypeOK, hook, stream
<1>1. ASSUME NEW t \in Turns, Start(t) PROVE TypeOK'
  <2>1. turn' \in [Turns -> Shown] /\ view' \in Shown
    <3>1. \A u \in Turns : [turn[u] EXCEPT !.status = "cancelled"] \in Shown
      BY EndedTyped DEF Settled
    <3> QED
      BY <1>1, <3>1, BlankTyped DEF Start
  <2>2. turns' \in Seq(Turns)
    BY <1>1 DEF Start
  <2> QED
    BY <1>1, <2>1, <2>2 DEF Start, Superseded
<1>2. ASSUME NEW t \in Turns, IgnoreLate(t) PROVE TypeOK'
  BY <1>2, QueueTyped DEF IgnoreLate, CloseReader
<1>3. ASSUME NEW t \in Turns, TakeProgress(t) PROVE TypeOK'
  <2> DEFINE n == IF Frame(t) = "delta" THEN turn[t].text + 1 ELSE turn[t].text
             s == [turn[t] EXCEPT !.status = "streaming", !.text = n]
  <2>1. s \in Shown
    <3>1. turn[t] \in Shown
      OBVIOUS
    <3>2. n \in Nat
      BY <3>1 DEF Shown
    <3> HIDE DEF n
    <3> QED
      BY <3>1, <3>2 DEF Shown
  <2>2. turn' = [turn EXCEPT ![t] = s] /\ view' = s
    BY <1>3 DEF TakeProgress, Show
  <2>3. pending' \in [Turns -> Seq(Frames)]
    BY <1>3, QueueTyped DEF TakeProgress, Available
  <2> HIDE DEF s
  <2> QED
    BY <1>3, <2>1, <2>2, <2>3 DEF TakeProgress
<1>4. ASSUME NEW t \in Turns, TakeFinal(t) PROVE TypeOK'
  <2> DEFINE s == [turn[t] EXCEPT !.status = "complete", !.final = Frame(t)]
  <2>1. s \in Shown
    BY <1>4 DEF TakeFinal, Shown, Settled
  <2>2. turn' = [turn EXCEPT ![t] = s] /\ view' = s
    BY <1>4 DEF TakeFinal, Show
  <2> HIDE DEF s
  <2> QED
    BY <1>4, <2>1, <2>2, QueueTyped DEF TakeFinal, CloseReader
<1>5. ASSUME NEW t \in Turns, ReadFails(t) PROVE TypeOK'
  BY <1>5, QueueTyped DEF ReadFails, CloseReader
<1>6. ASSUME NEW t \in Turns, Ended(t, "error") \in Shown, Ended(t, "cancelled") \in Shown,
             Catch(t) \/ Finish(t) \/ Timeout(t) \/ (active = t /\ Cancel)
      PROVE  TypeOK'
  <2> HIDE DEF Ended
  <2>1. CASE Catch(t)
    BY <1>6, <2>1 DEF Catch, Show, Leave
  <2>2. CASE Finish(t)
    BY <1>6, <2>2 DEF Finish, Leave
  <2>3. CASE Timeout(t)
    BY <1>6, <2>3 DEF Timeout, Show
  <2>4. CASE active = t /\ Cancel
    BY <1>6, <2>4 DEF Cancel, Show
  <2> QED
    BY <1>6, <2>1, <2>2, <2>3, <2>4
<1>7. \A t \in Turns : Ended(t, "error") \in Shown /\ Ended(t, "cancelled") \in Shown
  <2>1. ASSUME NEW t \in Turns PROVE turn[t] \in Shown
    OBVIOUS
  <2> QED
    BY <2>1, EndedTyped DEF Ended, Settled
<1>8. CASE Cancel
  <2>1. active \in Turns
    BY <1>8 DEF Cancel
  <2> QED
    BY <1>6, <1>7, <1>8, <2>1
<1>9. CASE Reset
  BY <1>9, BlankTyped DEF Reset, Abandon
<1>10. CASE Unmount
  BY <1>10 DEF Unmount, Abandon
<1>11. ASSUME NEW t \in Turns, RelayForward(t) PROVE TypeOK'
  BY <1>11, QueueTyped DEF RelayForward, Yield, Frames
<1>12. ASSUME NEW t \in Turns, RelayFinal(t) PROVE TypeOK'
  BY <1>12, QueueTyped DEF RelayFinal, Yield, Frames
<1>13. ASSUME NEW t \in Turns, RelayGone(t) PROVE TypeOK'
  BY <1>13 DEF RelayGone
<1>14. CASE UNCHANGED vars
  BY <1>14 DEF vars
<1> QED
  BY <1>1, <1>2, <1>3, <1>4, <1>5, <1>6, <1>7, <1>8, <1>9, <1>10, <1>11,
     <1>12, <1>13, <1>14 DEF Next, LoopStep

(* What a step of the relay or of the reader's end leaves of the turns. *)
Quiet(t) ==
  /\ UNCHANGED <<mounted, active, turns, turn, view, terminal, aborted>>
  /\ \A u \in Turns \ {t} : loop'[u] = loop[u]
  /\ \/ loop'[t] = loop[t]
     \/ loop[t] = "iterating" /\ loop'[t] = "failing"
     \/ /\ loop[t] = "iterating" /\ loop'[t] = "closing"
        /\ ~Current(t) \/ terminal[t] # "none"

(* A step that shows nothing keeps the invariant. *)
LEMMA QuietStep ==
  ASSUME IInv, TypeOK', NEW t \in Turns, Quiet(t)
  PROVE  IInv'
<1> USE TurnsAssumption DEF Quiet, IInv
<1>1. OffInv'
  BY DEF OffInv, Listed
<1>2. ActiveInv'
  BY DEF ActiveInv, Current, TypeOK
<1>3. ListedOnce' /\ OpenIsActive' /\ ViewIsLastTurn' /\ OnlyLastIsOpen' /\ OutcomeIsShown'
  BY DEF ListedOnce, OpenIsActive, ViewIsLastTurn, OnlyLastIsOpen, OutcomeIsShown, Listed, Outcome
<1> QED
  BY <1>1, <1>2, <1>3

(* A step that shows s of t, the turn of the active request. *)
Shows(t, s) ==
  /\ UNCHANGED <<mounted, turns>>
  /\ active = t /\ terminal[t] = "none"
  /\ Show(t, s)
  /\ active' \in {t, NoTurn}
  /\ \A u \in Turns \ {t} :
       terminal'[u] = terminal[u] /\ aborted'[u] = aborted[u] /\ loop'[u] = loop[u]
  /\ terminal'[t] = "none" =>
       active' = t /\ aborted'[t] = aborted[t] /\ loop'[t] = loop[t]
  /\ loop'[t] # "off"
  /\ s.status \in Outcome(t)'

(* A step that shows how the active request goes on or ends keeps the      *)
(* invariant.                                                              *)
LEMMA ShowsStep ==
  ASSUME IInv, TypeOK', NEW t \in Turns, NEW s, Shows(t, s)
  PROVE  IInv'
<1> USE TurnsAssumption
<1>1. /\ active = t /\ turns # <<>> /\ turns[Len(turns)] = t /\ mounted
      /\ ~aborted[t] /\ loop[t] \in {"iterating", "failing"}
  BY DEF IInv, ActiveInv, Shows
<1>2. turns \in Seq(Turns) /\ Len(turns) \in 1 .. Len(turns)
  BY <1>1 DEF IInv, TypeOK
<1>3. turn' = [turn EXCEPT ![t] = s] /\ view' = s /\ turn \in [Turns -> Shown]
  BY DEF Shows, Show, IInv, TypeOK
<1>4. OffInv'
  BY <1>1, <1>3 DEF OffInv, IInv, Shows, Listed
<1>5. ListedOnce'
  BY DEF ListedOnce, IInv, Shows
<1>6. ActiveInv'
  BY <1>1 DEF ActiveInv, IInv, Shows
<1>7. OpenIsActive'
  BY <1>1 DEF OpenIsActive, IInv, Shows, Listed, TypeOK
<1>8. ViewIsLastTurn'
  BY <1>1, <1>2, <1>3 DEF ViewIsLastTurn, Shows
<1>9. OnlyLastIsOpen'
  <2>1. ASSUME NEW i \in 1 .. Len(turns) - 1 PROVE turn'[turns[i]].status \in Settled
    <3>1. turns[i] # t /\ turns[i] \in Turns
      BY <1>1, <1>2 DEF IInv, ListedOnce
    <3>2. turn'[turns[i]] = turn[turns[i]]
      BY <1>3, <3>1
    <3> QED
      BY <3>2 DEF IInv, OnlyLastIsOpen
  <2> QED
    BY <2>1 DEF OnlyLastIsOpen, Shows
<1>10. OutcomeIsShown'
  <2>1. ASSUME NEW u \in Turns, Listed(u)' PROVE turn'[u].status \in Outcome(u)'
    <3>1. CASE u = t
      BY <1>3, <3>1 DEF Shows
    <3>2. CASE u # t
      <4>1. turn'[u] = turn[u] /\ terminal'[u] = terminal[u] /\ Listed(u)
        BY <1>3, <2>1, <3>2 DEF Shows, Listed
      <4> QED
        BY <4>1 DEF IInv, OutcomeIsShown, Outcome
    <3> QED
      BY <3>1, <3>2
  <2> QED
    BY <2>1 DEF OutcomeIsShown
<1> QED
  BY <1>4, <1>5, <1>6, <1>7, <1>8, <1>9, <1>10 DEF IInv

(* The finally clause of a start whose request is over. *)
Leaves(t) ==
  /\ Leave(t)
  /\ loop[t] # "off"
  /\ active = t => terminal[t] # "none"
  /\ UNCHANGED <<mounted, turns, turn, view, terminal, aborted>>

(* Leaving start keeps the invariant. *)
LEMMA LeavesStep ==
  ASSUME IInv, TypeOK', NEW t \in Turns, Leaves(t)
  PROVE  IInv'
<1> USE TurnsAssumption DEF Leaves, Leave, IInv
<1>1. OffInv'
  BY DEF OffInv, Listed, TypeOK
<1>2. ActiveInv' /\ OpenIsActive'
  BY DEF ActiveInv, OpenIsActive, Listed, TypeOK
<1>3. ListedOnce' /\ ViewIsLastTurn' /\ OnlyLastIsOpen' /\ OutcomeIsShown'
  BY DEF ListedOnce, ViewIsLastTurn, OnlyLastIsOpen, OutcomeIsShown, Listed, Outcome
<1> QED
  BY <1>1, <1>2, <1>3

(* Asking settles the previous turn and lists the new one. *)
LEMMA StartStep ==
  ASSUME IInv, TypeOK', NEW t \in Turns, Start(t)
  PROVE  IInv'
<1> DEFINE n == Len(turns)
<1> USE TurnsAssumption
<1>1. /\ TypeOK /\ turns \in Seq(Turns) /\ n \in Nat
      /\ loop[t] = "off" /\ mounted /\ mounted'
      /\ active' = t /\ turns' = Append(turns, t) /\ loop' = [loop EXCEPT ![t] = "iterating"]
  BY DEF IInv, TypeOK, Start
<1>2. ~Listed(t) /\ active # t /\ ~aborted[t] /\ terminal[t] = "none"
  BY <1>1 DEF IInv, OffInv
<1>3. /\ Len(turns') = n + 1 /\ turns'[n + 1] = t
      /\ \A i \in 1 .. n : turns'[i] = turns[i] /\ turns[i] \in Turns /\ turns[i] # t
  BY <1>1, <1>2 DEF Listed
<1>4. turn'[t] = Blank("connecting") /\ view' = Blank("connecting")
  BY DEF Start
<1>5. \A u \in Turns \ {t} :
        IF u = active /\ terminal[u] = "none"
        THEN terminal'[u] = "cancelled" /\ turn'[u].status = "cancelled"
        ELSE terminal'[u] = terminal[u] /\ turn'[u] = turn[u]
  BY DEF Start, Superseded, IInv, TypeOK, Shown
<1>6. terminal'[t] = "none" /\ ~aborted'[t]
  BY <1>2 DEF Start, Superseded, IInv, TypeOK
<1>7. \A u \in Turns : Listed(u)' <=> Listed(u) \/ u = t
  BY <1>1, <1>3 DEF Listed
<1>8. OffInv'
  <2>1. ASSUME NEW u \in Turns, loop'[u] = "off"
        PROVE  /\ ~Listed(u)' /\ active' # u /\ ~aborted'[u]
               /\ terminal'[u] = "none" /\ turn'[u] = Blank("idle")
    <3>1. u # t /\ loop[u] = "off"
      BY <1>1, <2>1 DEF TypeOK
    <3>2. /\ ~Listed(u) /\ active # u /\ ~aborted[u]
          /\ terminal[u] = "none" /\ turn[u] = Blank("idle")
      BY <3>1 DEF IInv, OffInv
    <3>3. ~aborted'[u]
      BY <3>2 DEF Start
    <3> QED
      BY <1>1, <1>5, <1>7, <3>1, <3>2, <3>3
  <2> QED
    BY <2>1 DEF OffInv
<1>9. ListedOnce'
  BY <1>1, <1>3 DEF IInv, ListedOnce
<1>10. ActiveInv'
  <2>1. turns' # <<>>
    BY <1>1, <1>3
  <2>2. loop'[t] = "iterating"
    BY <1>1 DEF TypeOK
  <2>3. turns'[Len(turns')] = t
    BY <1>3
  <2> QED
    BY <1>1, <1>6, <2>1, <2>2, <2>3 DEF ActiveInv
<1>11. OpenIsActive'
  BY <1>1, <1>5, <1>7 DEF IInv, OpenIsActive
<1>12. ViewIsLastTurn'
  BY <1>1, <1>3, <1>4 DEF ViewIsLastTurn
<1>13. OnlyLastIsOpen'
  <2>1. ASSUME NEW i \in 1 .. n PROVE turn'[turns[i]].status \in Settled
    <3> DEFINE u == turns[i]
    <3>1. u \in Turns \ {t} /\ Listed(u)
      BY <1>1, <1>3 DEF Listed
    <3>2. CASE u = active /\ terminal[u] = "none"
      BY <1>5, <3>1, <3>2 DEF Settled
    <3>3. CASE terminal[u] # "none"
      <4>1. turn[u].status \in Settled
        BY <3>1, <3>3 DEF IInv, OutcomeIsShown, Outcome, Settled
      <4> QED
        BY <1>5, <3>1, <3>3, <4>1
    <3>4. terminal[u] = "none" => u = active
      BY <1>1, <3>1 DEF IInv, OpenIsActive
    <3> QED
      BY <3>2, <3>3, <3>4
  <2> QED
    BY <1>1, <1>3, <2>1 DEF OnlyLastIsOpen
<1>14. OutcomeIsShown'
  <2>1. ASSUME NEW u \in Turns, Listed(u)' PROVE turn'[u].status \in Outcome(u)'
    <3>1. CASE u = t
      BY <1>4, <1>6, <3>1 DEF Outcome, Blank
    <3>2. CASE u # t /\ u = active /\ terminal[u] = "none"
      BY <1>5, <3>2 DEF Outcome
    <3>3. CASE u # t /\ ~(u = active /\ terminal[u] = "none")
      <4>1. Listed(u) /\ terminal'[u] = terminal[u] /\ turn'[u] = turn[u]
        BY <1>5, <1>7, <2>1, <3>3
      <4> QED
        BY <4>1 DEF IInv, OutcomeIsShown, Outcome
    <3> QED
      BY <3>1, <3>2, <3>3
  <2> QED
    BY <2>1 DEF OutcomeIsShown
<1> QED
  BY <1>8, <1>9, <1>10, <1>11, <1>12, <1>13, <1>14 DEF IInv

(* Resetting the conversation and leaving its page keep the invariant.     *)
LEMMA AbandonStep ==
  ASSUME IInv, TypeOK', Reset \/ Unmount
  PROVE  IInv'
<1> USE TurnsAssumption
<1>1. CASE Reset
  <2>1. /\ turns' = <<>> /\ active' = NoTurn /\ view' = Blank("idle")
        /\ turn' = [t \in Turns |-> Blank("idle")]
        /\ aborted' = [t \in Turns |-> aborted[t] \/ t = active]
        /\ UNCHANGED <<terminal, loop>>
    BY <1>1 DEF Reset, Abandon
  <2>2. \A t \in Turns : ~Listed(t)'
    BY <2>1 DEF Listed
  <2>3. OffInv'
    BY <2>1, <2>2 DEF IInv, OffInv
  <2>4. ListedOnce' /\ ActiveInv' /\ OpenIsActive' /\ ViewIsLastTurn'
    BY <2>1, <2>2 DEF ListedOnce, ActiveInv, OpenIsActive, ViewIsLastTurn, Blank
  <2>5. OnlyLastIsOpen' /\ OutcomeIsShown'
    BY <2>1, <2>2 DEF OnlyLastIsOpen, OutcomeIsShown
  <2> QED
    BY <2>3, <2>4, <2>5 DEF IInv
<1>2. CASE Unmount
  <2>1. /\ ~mounted' /\ active' = NoTurn
        /\ aborted' = [t \in Turns |-> aborted[t] \/ t = active]
        /\ UNCHANGED <<turns, turn, view, terminal, loop>>
    BY <1>2 DEF Unmount, Abandon
  <2>2. OffInv'
    BY <2>1 DEF IInv, OffInv, Listed
  <2>3. ListedOnce' /\ ActiveInv' /\ OpenIsActive' /\ ViewIsLastTurn'
    BY <2>1 DEF IInv, ListedOnce, ActiveInv, OpenIsActive, ViewIsLastTurn
  <2>4. OnlyLastIsOpen' /\ OutcomeIsShown'
    BY <2>1 DEF IInv, OnlyLastIsOpen, OutcomeIsShown, Listed, Outcome
  <2> QED
    BY <2>2, <2>3, <2>4 DEF IInv
<1> QED
  BY <1>1, <1>2

(* Every step keeps the invariant. *)
LEMMA NextIInv == ASSUME IInv, [Next]_vars PROVE IInv'
<1> USE TurnsAssumption
<1>0. TypeOK /\ TypeOK' /\ ActiveInv
  BY TypeStep DEF IInv
<1>1. ASSUME NEW t \in Turns, Start(t) PROVE IInv'
  BY <1>0, <1>1, StartStep
<1>2. ASSUME NEW t \in Turns,
             IgnoreLate(t) \/ ReadFails(t) \/ RelayForward(t) \/ RelayFinal(t) \/ RelayGone(t)
      PROVE  IInv'
  <2>1. Quiet(t)
    BY <1>0, <1>2 DEF IgnoreLate, ReadFails, CloseReader, RelayForward, RelayFinal, RelayGone,
                      Available, Quiet, TypeOK, hook
  <2> QED
    BY <1>0, <2>1, QuietStep
<1>3. ASSUME NEW t \in Turns, TakeProgress(t) PROVE IInv'
  <2> DEFINE s == [turn[t] EXCEPT !.status = "streaming",
                                  !.text = IF Frame(t) = "delta" THEN @ + 1 ELSE @]
  <2>1. turn[t] \in Shown
    BY <1>0 DEF TypeOK
  <2>2. s.status = "streaming"
    BY <2>1 DEF Shown
  <2>3. Show(t, s)
    BY <1>3 DEF TakeProgress
  <2> HIDE DEF s
  <2>4. Shows(t, s)
    BY <1>0, <1>3, <2>2, <2>3 DEF TakeProgress, Available, Current, Outcome, Shows, TypeOK
  <2> QED
    BY <1>0, <2>4, ShowsStep
<1>4. ASSUME NEW t \in Turns, TakeFinal(t) PROVE IInv'
  <2> DEFINE s == [turn[t] EXCEPT !.status = "complete", !.final = Frame(t)]
  <2>1. turn[t] \in Shown
    BY <1>0 DEF TypeOK
  <2>2. s.status = "complete"
    BY <2>1 DEF Shown
  <2>3. Show(t, s)
    BY <1>4 DEF TakeFinal
  <2> HIDE DEF s
  <2>4. Shows(t, s)
    BY <1>0, <1>4, <2>2, <2>3
       DEF TakeFinal, CloseReader, Available, Current, Outcome, Shows, TypeOK
  <2> QED
    BY <1>0, <2>4, ShowsStep
<1>5. \A t \in Turns, s \in {"error", "cancelled"} : Ended(t, s).status = s
  BY <1>0 DEF TypeOK, Ended, Shown
<1>6. ASSUME NEW t \in Turns, Catch(t) PROVE IInv'
  <2>1. CASE Current(t) /\ terminal[t] = "none"
    <3>1. Shows(t, Ended(t, "error"))
      BY <1>0, <1>5, <1>6, <2>1 DEF Catch, Leave, Current, Outcome, Shows, TypeOK
    <3> QED
      BY <1>0, <3>1, ShowsStep
  <2>2. CASE ~(Current(t) /\ terminal[t] = "none")
    <3>1. Leaves(t)
      BY <1>0, <1>6, <2>2 DEF Catch, Current, Leaves, ActiveInv
    <3> QED
      BY <1>0, <3>1, LeavesStep
  <2> QED
    BY <2>1, <2>2
<1>7. ASSUME NEW t \in Turns, Finish(t) PROVE IInv'
  <2>1. Leaves(t)
    BY <1>0, <1>7 DEF Finish, Leaves, ActiveInv
  <2> QED
    BY <1>0, <2>1, LeavesStep
<1>8. ASSUME NEW t \in Turns, Timeout(t) PROVE IInv'
  <2>1. Shows(t, Ended(t, "error"))
    BY <1>0, <1>5, <1>8 DEF Timeout, Current, Outcome, Shows, TypeOK
  <2> QED
    BY <1>0, <2>1, ShowsStep
<1>9. CASE Cancel
  <2>1. PICK t \in Turns : t = active
    BY <1>0, <1>9 DEF Cancel, TypeOK
  <2>2. loop[t] # "off"
    BY <1>9, <2>1 DEF Cancel, ActiveInv, IInv
  <2>3. Shows(t, Ended(t, "cancelled"))
    BY <1>0, <1>5, <1>9, <2>1, <2>2 DEF Cancel, Outcome, Shows, TypeOK
  <2> QED
    BY <1>0, <2>3, ShowsStep
<1>10. CASE Reset \/ Unmount
  BY <1>0, <1>10, AbandonStep
<1>11. CASE UNCHANGED vars
  BY <1>11 DEF vars, hook, stream, IInv, TypeOK, OffInv, ListedOnce, ActiveInv, OpenIsActive,
               ViewIsLastTurn, OnlyLastIsOpen, OutcomeIsShown, Listed, Outcome
<1> QED
  BY <1>1, <1>2, <1>3, <1>4, <1>6, <1>7, <1>8, <1>9, <1>10, <1>11 DEF Next, LoopStep

(* The empty conversation satisfies the invariant. *)
LEMMA InitIInv == Init => IInv
<1> SUFFICES ASSUME Init PROVE IInv
  OBVIOUS
<1> USE TurnsAssumption
<1>1. TypeOK
  BY BlankTyped DEF Init, TypeOK
<1>2. OffInv /\ ListedOnce /\ ActiveInv /\ OpenIsActive
  BY DEF Init, OffInv, ListedOnce, ActiveInv, OpenIsActive, Listed
<1>3. ViewIsLastTurn /\ OnlyLastIsOpen /\ OutcomeIsShown
  BY DEF Init, ViewIsLastTurn, OnlyLastIsOpen, OutcomeIsShown, Listed
<1> QED
  BY <1>1, <1>2, <1>3 DEF IInv

(* The invariant holds in every behaviour of the hook and the relay. *)
THEOREM Inductive == Spec => []IInv
BY InitIInv, NextIInv, PTL DEF Spec

(* The hook's state keeps its types. *)
THEOREM TypeCorrect == Spec => []TypeOK
<1>1. IInv => TypeOK
  BY DEF IInv
<1> QED
  BY <1>1, Inductive, PTL

(* The current answer the page shows is the last turn's, however late      *)
(* frames, timeouts and cancellations of the earlier ones come.            *)
THEOREM CurrentAnswer == Spec => []ViewIsLastTurn
<1>1. IInv => ViewIsLastTurn
  BY DEF IInv
<1> QED
  BY <1>1, Inductive, PTL

(* Whatever replaces a request settles its turn. *)
THEOREM ReplacedTurnsSettle == Spec => []OnlyLastIsOpen
<1>1. IInv => OnlyLastIsOpen
  BY DEF IInv
<1> QED
  BY <1>1, Inductive, PTL

(* The list shows how each request ended. *)
THEOREM OutcomesShown == Spec => []OutcomeIsShown
<1>1. IInv => OutcomeIsShown
  BY DEF IInv
<1> QED
  BY <1>1, Inductive, PTL

(* A settled turn never changes again, until the conversation is reset. *)
THEOREM SettledForGood == Spec => SettledStays
<1> DEFINE Stays == \A t \in Turns :
             turn[t].status \in Settled /\ turns' # <<>> => turn'[t] = turn[t]
<1>1. ASSUME IInv, [Next]_vars PROVE [Stays]_vars
  <2> USE TurnsAssumption
  <2> SUFFICES ASSUME NEW u \in Turns, turn[u].status \in Settled, turns' # <<>>
               PROVE  turn'[u] = turn[u]
    OBVIOUS
  <2>1. TypeOK /\ turn \in [Turns -> Shown]
    BY <1>1 DEF IInv, TypeOK
  <2>2. active = u => terminal[u] # "none"
    <3> SUFFICES ASSUME active = u, terminal[u] = "none" PROVE FALSE
      OBVIOUS
    <3>1. turns # <<>> /\ turns[Len(turns)] = u /\ turns \in Seq(Turns)
      BY <1>1 DEF IInv, ActiveInv, TypeOK
    <3>2. Listed(u)
      BY <3>1 DEF Listed
    <3>3. turn[u].status \in {"connecting", "streaming"}
      BY <1>1, <3>2 DEF IInv, OutcomeIsShown, Outcome
    <3> QED
      BY <3>3 DEF Settled
  <2>3. loop[u] # "off"
    BY <1>1 DEF IInv, OffInv, Blank, Settled
  <2>4. ASSUME NEW t \in Turns, Start(t) PROVE turn'[u] = turn[u]
    BY <2>1, <2>2, <2>3, <2>4 DEF Start, Superseded
  <2>5. ASSUME NEW t \in Turns,
               IgnoreLate(t) \/ ReadFails(t) \/ RelayForward(t) \/ RelayFinal(t)
               \/ RelayGone(t) \/ Finish(t)
        PROVE  turn'[u] = turn[u]
    BY <2>5 DEF IgnoreLate, ReadFails, RelayForward, RelayFinal, RelayGone, Finish, hook
  <2>6. ASSUME NEW t \in Turns, TakeProgress(t) \/ TakeFinal(t) \/ Catch(t) \/ Timeout(t)
        PROVE  turn'[u] = turn[u]
    BY <2>1, <2>2, <2>6 DEF TakeProgress, TakeFinal, Catch, Timeout, Show, Current
  <2>7. CASE Cancel
    BY <2>1, <2>2, <2>7 DEF Cancel, Show
  <2>8. CASE Reset \/ Unmount
    BY <2>8 DEF Reset, Unmount
  <2>9. CASE UNCHANGED vars
    BY <2>9 DEF vars, hook
  <2> QED
    BY <1>1, <2>4, <2>5, <2>6, <2>7, <2>8, <2>9 DEF Next, LoopStep
<1> QED
  BY <1>1, Inductive, PTL DEF Spec, SettledStays
=============================================================================
