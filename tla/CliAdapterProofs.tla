-------------------------- MODULE CliAdapterProofs --------------------------
(***************************************************************************)
(* Theorems of CliAdapter for every set of requests, reviews and roots and *)
(* every time to live, proved with TLAPS.                                  *)
(*                                                                         *)
(* TypeOK, what a request is by the way it was made (Fit), the lock        *)
(* (LockIsHeld) and the bindings (BindingsKept) are inductive one after    *)
(* the other; the semaphore (SlotsAreHeld) and the cached result           *)
(* (CacheIsGood) need only the types.                                      *)
(***************************************************************************)
EXTENDS CliAdapter, FiniteSetTheorems, TLAPS

States == {"idle", "probing", "queued", "viewing", "running", "written"}

(* What a request of a kind asks for. *)
Asks(k, i) == /\ k = "plan" => i \in Plans
              /\ k = "rebind" => i \in Reviews

(* Where a request of a kind goes when it is admitted. *)
Enters(k, p) == /\ p = "queued" => Locks(k)
                /\ p = "viewing" => k = "preview"
                /\ p = "running" => ~Locks(k) /\ k # "preview"

(* Requests, and the commands that outlive them, are fit to their kind,    *)
(* wait for what it needs, and only binding commands make a change.        *)
Fit ==
  /\ \A r \in Requests : /\ Asks(req[r].kind, req[r].id)
                         /\ pc[r] = "queued" => Locks(req[r].kind)
                         /\ pc[r] = "viewing" => req[r].kind = "preview"
                         /\ pc[r] = "written" => req[r].kind \in Binding /\ req[r].id \in Reviews
  /\ \A c \in left : Asks(c.kind, c.id)

(* While the last change of a binding awaits its answer, it was made by    *)
(* the command of that request; a change that was made is never answered   *)
(* before its own command ends.                                            *)
BindingsKept ==
  /\ \A i \in Reviews : due[i] \in Requests =>
       /\ pc[due[i]] = "written" /\ req[due[i]].id = i
       /\ bound[i] = req[due[i]].root
  /\ \A r \in Requests : pc[r] = "written" => due[req[r].id] # None
  /\ RootIsBound

(* A fresh result is no older than the last time the CLI was compatible.   *)
CacheIsGood ==
  /\ cached < CompatTTL => good <= cached
  /\ compatible => good = 0

-----------------------------------------------------------------------------
(* Every route begins a request of some kind that is fit to it. *)
LEMMA RouteBegins ==
  ASSUME NEW r \in Requests, Route(r)
  PROVE  \E k \in Kinds \ {"stage"}, i \in Ids \cup {None}, x \in Roots \cup {None} :
           Begin(r, k, i, x) /\ Asks(k, i)
<1>1. CASE Read(r) BY <1>1 DEF Read, Kinds, Reads, Asks
<1>2. CASE Edit(r) BY <1>2 DEF Edit, Kinds, Writes, Locked, Asks
<1>3. CASE Rollback(r) BY <1>3 DEF Rollback, Kinds, Writes, Unlocked, Asks
<1>4. CASE WriteJournal(r) BY <1>4 DEF WriteJournal, Kinds, Writes, Unlocked, Asks
<1>5. ASSUME NEW x \in Roots, Stage(r, x) PROVE Begin(r, "planStage", None, x)
  BY <1>5 DEF Stage
<1>6. CASE \E x \in Roots : Stage(r, x) BY <1>5, <1>6 DEF Kinds, Reads, Asks
<1>7. CASE \E i \in Ids : Run(r, i) \/ BatchRun(r, i)
  BY <1>7 DEF Run, BatchRun, Kinds, Writes, Locked, Asks
<1>8. CASE \E i \in Ids : Preview(r, i) BY <1>8 DEF Preview, Kinds, Asks
<1>9. CASE \E i \in Reviews, x \in Roots : Rebind(r, i, x)
  BY <1>9 DEF Rebind, Kinds, Writes, Locked, Asks, Ids
<1>10. CASE \E i \in Plans, x \in Roots \cup {None} : Plan(r, i, x)
  BY <1>10 DEF Plan, Kinds, Reads, Asks, Ids
<1> QED BY <1>1, <1>2, <1>3, <1>4, <1>6, <1>7, <1>8, <1>9, <1>10 DEF Route

(* An admitted request waits for what its kind needs, or runs. *)
LEMMA AdmitMoves ==
  ASSUME TypeOK, NEW r \in Requests, NEW k, Admit(r, k)
  PROVE  /\ \E p \in {"queued", "viewing", "running"} :
              /\ pc' = [pc EXCEPT ![r] = p]
              /\ Enters(k, p)
         /\ queue' \in Seq(Requests) /\ viewers' \in Seq(Requests)
         /\ since' \in [Requests -> 0..CompatTTL]
<1>1. /\ Append(queue, r) \in Seq(Requests) /\ Append(viewers, r) \in Seq(Requests)
      /\ 0 \in 0..CompatTTL
  BY ConstantsAssumption DEF TypeOK
<1>2. queue' \in Seq(Requests) /\ viewers' \in Seq(Requests) BY <1>1 DEF Admit, TypeOK
<1>3. since' \in [Requests -> 0..CompatTTL] BY <1>1 DEF Admit, TypeOK
<1>4. \E p \in {"queued", "viewing", "running"} :
              /\ pc' = [pc EXCEPT ![r] = p]
              /\ Enters(k, p)
  BY DEF Admit, Enters, Locks, Locked
<1> QED BY <1>2, <1>3, <1>4

(* A request that needs the CLI is admitted by a fresh result or probes. *)
LEMMA EnsureMoves ==
  ASSUME TypeOK, NEW r \in Requests, NEW k, Ensure(r, k)
  PROVE  /\ \E p \in {"probing", "queued", "viewing", "running"} :
              /\ pc' = [pc EXCEPT ![r] = p]
              /\ Enters(k, p)
              /\ p # "probing" => cached < CompatTTL
         /\ queue' \in Seq(Requests) /\ viewers' \in Seq(Requests)
         /\ since' \in [Requests -> 0..CompatTTL]
<1>1. CASE k # "journal" /\ cached < CompatTTL
  <2>1. Admit(r, k) BY <1>1 DEF Ensure
  <2> QED BY <1>1, <2>1, AdmitMoves
<1>2. CASE ~(k # "journal" /\ cached < CompatTTL)
  BY <1>2 DEF Ensure, TypeOK, waits, Enters
<1> QED BY <1>1, <1>2

-----------------------------------------------------------------------------
(* The initial states have types. *)
LEMMA InitType == Init => TypeOK
BY ConstantsAssumption DEF Init, TypeOK, Requested, Kinds, Reads, NoRequest, Request, Entries

(* Closing a request keeps the types of what it writes. *)
LEMMA CloseTypes ==
  ASSUME TypeOK, NEW r \in Requests, Close(r)
  PROVE  /\ pc' \in [Requests -> States] /\ req' \in [Requests -> Requested]
         /\ since' \in [Requests -> 0..CompatTTL]
         /\ holder' \in Requests \cup {None} /\ slots' \in Nat
<1>1. NoRequest \in Requested BY DEF NoRequest, Request, Requested, Kinds, Reads
<1>2. 0 \in 0..CompatTTL BY ConstantsAssumption
<1> QED BY <1>1, <1>2 DEF Close, TypeOK, States

(* What time makes of the store keeps its type. *)
LEMMA TickTypes ==
  ASSUME TypeOK, Tick
  PROVE  /\ since' \in [Requests -> 0..CompatTTL] /\ cached' \in 0..CompatTTL
         /\ store' \in [Ids -> Entries] /\ good' \in 0..CompatTTL
<1>1. \A n \in 0..CompatTTL : Older(n, CompatTTL) \in 0..CompatTTL
  BY ConstantsAssumption DEF Older
<1>2. since' \in [Requests -> 0..CompatTTL] BY <1>1 DEF Tick, TypeOK
<1>3. cached' \in 0..CompatTTL /\ good' \in 0..CompatTTL
  BY <1>1, ConstantsAssumption DEF Tick, TypeOK
<1>4. ASSUME NEW i \in Ids, store[i] # None, store[i].age # StoreTTL
      PROVE  [root |-> store[i].root, age |-> store[i].age + 1] \in Entries
  <2>1. store[i] \in [root : Roots \cup {None}, age : 0..StoreTTL]
    BY <1>4 DEF TypeOK, Entries
  <2>2. store[i].age + 1 \in 0..StoreTTL BY <1>4, <2>1, ConstantsAssumption
  <2> QED BY <2>1, <2>2 DEF Entries
<1>5. store' \in [Ids -> Entries] BY <1>4 DEF Tick, TypeOK, Entries
<1> QED BY <1>2, <1>3, <1>5

(* Every step keeps the types. *)
LEMMA TypeStep == TypeOK /\ [Next]_vars => TypeOK'
<1> SUFFICES ASSUME TypeOK, [Next]_vars PROVE TypeOK' OBVIOUS
<1>1. ASSUME NEW r \in Requests, Route(r) PROVE TypeOK'
  <2>1. PICK k \in Kinds \ {"stage"}, i \in Ids \cup {None}, x \in Roots \cup {None} : Begin(r, k, i, x)
    BY <1>1, RouteBegins
  <2>2. Request(k, i, x) \in Requested BY DEF Request, Requested
  <2>3. req' \in [Requests -> Requested] BY <2>1, <2>2 DEF Begin, TypeOK
  <2>4. Ensure(r, k) BY <2>1 DEF Begin
  <2>5. /\ pc' \in [Requests -> States] /\ queue' \in Seq(Requests) /\ viewers' \in Seq(Requests)
        /\ since' \in [Requests -> 0..CompatTTL]
    BY <2>4, EnsureMoves DEF TypeOK, States
  <2> QED BY <2>1, <2>3, <2>5 DEF Begin, TypeOK, States, held, cli, ledger
<1>2. ASSUME NEW r \in Requests, ProbeAccepts(r) PROVE TypeOK'
  <2>1. Admit(r, req[r].kind) BY <1>2 DEF ProbeAccepts
  <2>2. /\ pc' \in [Requests -> States] /\ queue' \in Seq(Requests) /\ viewers' \in Seq(Requests)
        /\ since' \in [Requests -> 0..CompatTTL]
    BY <2>1, AdmitMoves DEF TypeOK, States
  <2>3. cached' \in 0..CompatTTL BY <1>2 DEF ProbeAccepts, TypeOK
  <2> QED BY <1>2, <2>2, <2>3 DEF ProbeAccepts, TypeOK, States, held, cli, ledger
<1>3. ASSUME NEW r \in Requests, ProbeRejects(r) PROVE TypeOK'
  <2>1. Close(r) BY <1>3 DEF ProbeRejects
  <2> QED BY <1>3, <2>1, CloseTypes DEF ProbeRejects, TypeOK, States, waits, cli, ledger
<1>4. ASSUME NEW r \in Requests, Take(r) PROVE TypeOK'
  <2>1. Tail(queue) \in Seq(Requests) BY <1>4 DEF Take, TypeOK
  <2> QED BY <1>4, <2>1 DEF Take, TypeOK, cli, ledger
<1>5. ASSUME NEW r \in Requests, View(r) PROVE TypeOK'
  <2>1. Tail(viewers) \in Seq(Requests) BY <1>5 DEF View, TypeOK
  <2>2. slots - 1 \in Nat BY <1>5 DEF View, TypeOK
  <2> QED BY <1>5, <2>1, <2>2 DEF View, TypeOK, cli, ledger
<1>6. ASSUME NEW r \in Requests, Planned(r) PROVE TypeOK'
  <2>1. Ensure(r, "stage") BY <1>6 DEF Planned
  <2>2. /\ pc' \in [Requests -> States] /\ queue' \in Seq(Requests) /\ viewers' \in Seq(Requests)
        /\ since' \in [Requests -> 0..CompatTTL]
    BY <2>1, EnsureMoves DEF TypeOK, States
  <2>3. Request("stage", None, req[r].root) \in Requested
    BY DEF Request, Requested, TypeOK, Kinds, Writes, Locked
  <2>4. req' \in [Requests -> Requested] BY <1>6, <2>3 DEF Planned, TypeOK
  <2> QED BY <1>6, <2>2, <2>4 DEF Planned, TypeOK, States, held, cli, ledger
<1>7. ASSUME NEW r \in Requests, Answer(r) PROVE TypeOK'
  <2>1. Close(r) BY <1>7 DEF Answer
  <2>2. req[r].root \in Roots \cup {None} BY DEF TypeOK, Requested
  <2>3. [root |-> req[r].root, age |-> 0] \in Entries BY <2>2, ConstantsAssumption DEF Entries
  <2>4. store' \in [Ids -> Entries] BY <1>7, <2>3 DEF Answer, Stored, TypeOK
  <2>5. due' \in [Reviews -> Requests \cup {None, Lost}] BY <1>7 DEF Answer, TypeOK
  <2> QED BY <1>7, <2>1, <2>4, <2>5, CloseTypes DEF Answer, TypeOK, States, waits, cli
<1>8. ASSUME NEW r \in Requests, Fails(r) PROVE TypeOK'
  <2>1. Close(r) BY <1>8 DEF Fails
  <2>2. due' \in [Reviews -> Requests \cup {None, Lost}] BY <1>8 DEF Fails, TypeOK
  <2> QED BY <1>8, <2>1, <2>2, CloseTypes DEF Fails, TypeOK, States, waits, cli
<1>9. ASSUME NEW r \in Requests, NEW i \in Reviews, Bind(r, i) PROVE TypeOK'
  <2>1. Request(req[r].kind, i, req[r].root) \in Requested /\ req[r].root \in Roots \cup {None}
    BY DEF Request, Requested, TypeOK, Ids
  <2>2. req' \in [Requests -> Requested] /\ bound' \in [Reviews -> Roots \cup {None}]
    BY <1>9, <2>1 DEF Bind, TypeOK
  <2> QED BY <1>9, <2>2 DEF Bind, TypeOK, held, waits, cli
<1>10. CASE Tick BY <1>10, TickTypes DEF Tick, TypeOK, held, waits, ledger
<1>11. CASE Install
  BY <1>11, ConstantsAssumption DEF Install, TypeOK, local, held, waits, ledger
<1>12. CASE Restart
  <2>1. NoRequest \in Requested BY DEF NoRequest, Request, Requested, Kinds, Reads
  <2>2. /\ pc' \in [Requests -> States] /\ req' \in [Requests -> Requested]
        /\ since' \in [Requests -> 0..CompatTTL] /\ cached' \in 0..CompatTTL
    BY <1>12, <2>1, ConstantsAssumption DEF Restart, States
  <2>3. /\ store' \in [Ids -> Entries] /\ due' \in [Reviews -> Requests \cup {None, Lost}]
    BY <1>12 DEF Restart, TypeOK, Entries
  <2>4. left' \subseteq Requested BY <1>12 DEF Restart, TypeOK
  <2>5. /\ queue' \in Seq(Requests) /\ viewers' \in Seq(Requests)
        /\ holder' \in Requests \cup {None} /\ slots' \in Nat
    BY <1>12, ConstantsAssumption DEF Restart
  <2> QED BY <1>12, <2>2, <2>3, <2>4, <2>5 DEF Restart, TypeOK, States, cli
<1>13. ASSUME NEW c \in left, Dies(c) PROVE TypeOK'
  BY <1>13 DEF Dies, TypeOK, local, held, waits, cli
<1>14. ASSUME NEW c \in left, NEW i \in Reviews, Outlives(c, i) PROVE TypeOK'
  <2>1. c.root \in Roots \cup {None} BY DEF TypeOK, Requested
  <2> QED BY <1>14, <2>1 DEF Outlives, TypeOK, local, held, waits, cli
<1>15. CASE UNCHANGED vars
  BY <1>15 DEF vars, local, held, waits, cli, ledger, TypeOK
<1> QED BY <1>1, <1>2, <1>3, <1>4, <1>5, <1>6, <1>7, <1>8, <1>9, <1>10, <1>11, <1>12,
           <1>13, <1>14, <1>15 DEF Next, Outside, Probe, Finish, Command

-----------------------------------------------------------------------------
(* Every step keeps requests fit to their kind. *)
LEMMA FitStep == TypeOK /\ Fit /\ [Next]_vars => Fit'
<1> SUFFICES ASSUME TypeOK, Fit, [Next]_vars PROVE Fit' OBVIOUS
<1> USE DEF TypeOK
<1>a. Asks("read", None) /\ Asks("stage", None) BY DEF Asks
<1>1. ASSUME NEW r \in Requests, Route(r) PROVE Fit'
  <2>1. PICK k \in Kinds \ {"stage"}, i \in Ids \cup {None}, x \in Roots \cup {None} :
          Begin(r, k, i, x) /\ Asks(k, i)
    BY <1>1, RouteBegins
  <2>2. /\ req' = [req EXCEPT ![r] = Request(k, i, x)] /\ left' = left
    BY <2>1 DEF Begin, ledger
  <2>3. PICK p \in States \ {"written"} : pc' = [pc EXCEPT ![r] = p] /\ Enters(k, p)
    BY <2>1, EnsureMoves DEF Begin, States
  <2> QED BY <2>1, <2>2, <2>3 DEF Fit, Request, Asks, Enters
<1>2. ASSUME NEW r \in Requests, ProbeAccepts(r) PROVE Fit'
  <2>1. PICK p \in States \ {"written"} : pc' = [pc EXCEPT ![r] = p] /\ Enters(req[r].kind, p)
    BY <1>2, AdmitMoves DEF ProbeAccepts, States
  <2> QED BY <1>2, <2>1 DEF ProbeAccepts, ledger, Fit, Asks, Enters
<1>3. ASSUME NEW r \in Requests, Close(r), left' = left PROVE Fit'
  BY <1>3, <1>a DEF Close, NoRequest, Request, Fit, Asks
<1>4. ASSUME NEW r \in Requests, ProbeRejects(r) \/ Answer(r) \/ Fails(r) PROVE Fit'
  BY <1>3, <1>4 DEF ProbeRejects, Answer, Fails, ledger
<1>5. ASSUME NEW r \in Requests, Take(r) \/ View(r) PROVE Fit'
  BY <1>5 DEF Take, View, ledger, Fit, Asks
<1>6. ASSUME NEW r \in Requests, Planned(r) PROVE Fit'
  <2>1. PICK p \in States \ {"written"} : pc' = [pc EXCEPT ![r] = p] /\ Enters("stage", p)
    BY <1>6, EnsureMoves DEF Planned, States
  <2> QED BY <1>6, <1>a, <2>1 DEF Planned, ledger, Request, Fit, Asks, Enters
<1>7. ASSUME NEW r \in Requests, NEW i \in Reviews, Bind(r, i) PROVE Fit'
  <2>1. req[r].kind \in Binding BY <1>7 DEF Bind, Names, Binding
  <2>2. Asks(req[r].kind, i) BY <2>1 DEF Binding, Asks
  <2> QED BY <1>7, <2>1, <2>2 DEF Bind, Request, Fit, Asks
<1>8. CASE Tick BY <1>8 DEF Tick, ledger, Fit, Asks
<1>9. CASE Restart
  BY <1>9, <1>a DEF Restart, NoRequest, Request, Fit, Asks
<1>10. ASSUME NEW c \in left, Dies(c) \/ \E i \in Reviews : Outlives(c, i) PROVE Fit'
  BY <1>10 DEF Dies, Outlives, local, Fit, Asks
<1>11. CASE Install \/ UNCHANGED vars
  BY <1>11 DEF Install, vars, local, ledger, Fit, Asks
<1> QED BY <1>1, <1>2, <1>4, <1>5, <1>6, <1>7, <1>8, <1>9, <1>10, <1>11
        DEF Next, Outside, Probe, Finish, Command

(* Every step keeps the lock with the one command that runs under it. *)
LEMMA LockStep == TypeOK /\ Fit /\ LockIsHeld /\ [Next]_vars => LockIsHeld'
<1> SUFFICES ASSUME TypeOK, Fit, LockIsHeld, [Next]_vars PROVE LockIsHeld' OBVIOUS
<1> USE DEF TypeOK
<1>a. ~Locks("read") /\ ~Locks("planStage") /\ Locks("stage") /\ Locks("rebind") /\ None \notin Requests
  BY ConstantsAssumption DEF Locks, Locked
<1>1. ASSUME NEW r \in Requests, Route(r) PROVE LockIsHeld'
  <2>1. PICK k \in Kinds \ {"stage"}, i \in Ids \cup {None}, x \in Roots \cup {None} : Begin(r, k, i, x)
    BY <1>1, RouteBegins
  <2>2. PICK p \in States \ {"written"} : pc' = [pc EXCEPT ![r] = p] /\ Enters(k, p)
    BY <2>1, EnsureMoves DEF Begin, States
  <2>3. req' = [req EXCEPT ![r] = Request(k, i, x)] /\ holder' = holder /\ pc[r] = "idle"
    BY <2>1 DEF Begin, held
  <2> QED BY <2>2, <2>3 DEF LockIsHeld, Request, Enters
<1>2. ASSUME NEW r \in Requests, ProbeAccepts(r) PROVE LockIsHeld'
  <2>1. PICK p \in States \ {"written"} : pc' = [pc EXCEPT ![r] = p] /\ Enters(req[r].kind, p)
    BY <1>2, AdmitMoves DEF ProbeAccepts, States
  <2> QED BY <1>2, <2>1 DEF ProbeAccepts, held, LockIsHeld, Enters
<1>3. ASSUME NEW r \in Requests, Close(r) PROVE LockIsHeld'
  BY <1>3, <1>a DEF Close, LockIsHeld
<1>4. ASSUME NEW r \in Requests, ProbeRejects(r) \/ Answer(r) \/ Fails(r) PROVE LockIsHeld'
  BY <1>3, <1>4 DEF ProbeRejects, Answer, Fails
<1>5. ASSUME NEW r \in Requests, Take(r) PROVE LockIsHeld'
  BY <1>5, <1>a DEF Take, LockIsHeld, Fit
<1>6. ASSUME NEW r \in Requests, View(r) PROVE LockIsHeld'
  <2>1. ~Locks("preview") BY DEF Locks, Locked
  <2> QED BY <1>6, <2>1 DEF View, LockIsHeld, Fit
<1>7. ASSUME NEW r \in Requests, Planned(r) PROVE LockIsHeld'
  <2>1. PICK p \in States \ {"written"} : pc' = [pc EXCEPT ![r] = p] /\ Enters("stage", p)
    BY <1>7, EnsureMoves DEF Planned, States
  <2> QED BY <1>7, <1>a, <2>1 DEF Planned, held, Request, LockIsHeld, Enters
<1>8. ASSUME NEW r \in Requests, NEW i \in Reviews, Bind(r, i) PROVE LockIsHeld'
  BY <1>8 DEF Bind, held, Request, LockIsHeld
<1>9. CASE Tick BY <1>9 DEF Tick, held, LockIsHeld
<1>10. CASE Restart BY <1>10, <1>a DEF Restart, LockIsHeld
<1>11. ASSUME NEW c \in left, Dies(c) \/ \E i \in Reviews : Outlives(c, i) PROVE LockIsHeld'
  BY <1>11 DEF Dies, Outlives, local, held, LockIsHeld
<1>12. CASE Install \/ UNCHANGED vars
  BY <1>12 DEF Install, vars, local, held, LockIsHeld
<1> QED BY <1>1, <1>2, <1>4, <1>5, <1>6, <1>7, <1>8, <1>9, <1>10, <1>11, <1>12
        DEF Next, Outside, Probe, Finish, Command

(* The requests that preview. *)
Previews == {r \in Requests : Previewing(r)}

(* Adding or removing a preview changes their number by one. *)
LEMMA PreviewCount ==
  ASSUME NEW r \in Requests
  PROVE  /\ IsFiniteSet(Previews) /\ Cardinality(Previews) \in Nat
         /\ r \notin Previews => Cardinality(Previews \cup {r}) = Cardinality(Previews) + 1
         /\ r \in Previews => Cardinality(Previews \ {r}) = Cardinality(Previews) - 1
<1>1. Previews \subseteq Requests /\ IsFiniteSet(Requests) BY ConstantsAssumption DEF Previews
<1>2. IsFiniteSet(Previews) BY <1>1, FS_Subset
<1> QED BY <1>2, FS_CardinalityType, FS_AddElement, FS_RemoveElement

(* Every step keeps the semaphore's value and the previews under way       *)
(* together at its limit.                                                  *)
LEMMA SlotStep == TypeOK /\ Fit /\ SlotsAreHeld /\ [Next]_vars => SlotsAreHeld'
<1> SUFFICES ASSUME TypeOK, Fit, SlotsAreHeld, [Next]_vars PROVE SlotsAreHeld' OBVIOUS
<1> USE DEF TypeOK
<1>a. slots + Cardinality(Previews) = PreviewLimit /\ PreviewLimit \in Nat
  BY ConstantsAssumption DEF SlotsAreHeld, Previews
<1>b. ASSUME Previews' = Previews, slots' = slots PROVE SlotsAreHeld'
  BY <1>a, <1>b DEF SlotsAreHeld, Previews
<1>c. ASSUME NEW n \in Nat, slots' = n, Cardinality(Previews') = PreviewLimit - n PROVE SlotsAreHeld'
  BY <1>a, <1>c DEF SlotsAreHeld, Previews
<1>1. ASSUME NEW r \in Requests, Route(r) PROVE SlotsAreHeld'
  <2>1. PICK k \in Kinds \ {"stage"}, i \in Ids \cup {None}, x \in Roots \cup {None} : Begin(r, k, i, x)
    BY <1>1, RouteBegins
  <2>2. PICK p \in States \ {"written"} : pc' = [pc EXCEPT ![r] = p] /\ Enters(k, p)
    BY <2>1, EnsureMoves DEF Begin, States
  <2>3. req' = [req EXCEPT ![r] = Request(k, i, x)] /\ slots' = slots /\ pc[r] = "idle"
    BY <2>1 DEF Begin, held
  <2>4. \A q \in Requests : Previewing(q)' <=> Previewing(q)
    BY <2>2, <2>3 DEF Previewing, Request, Enters
  <2> QED BY <2>3, <2>4, <1>b DEF Previews
<1>2. ASSUME NEW r \in Requests, ProbeAccepts(r) PROVE SlotsAreHeld'
  <2>1. PICK p \in States \ {"written"} : pc' = [pc EXCEPT ![r] = p] /\ Enters(req[r].kind, p)
    BY <1>2, AdmitMoves DEF ProbeAccepts, States
  <2>2. \A q \in Requests : Previewing(q)' <=> Previewing(q)
    BY <1>2, <2>1 DEF ProbeAccepts, Previewing, Enters
  <2> QED BY <1>2, <2>2, <1>b DEF ProbeAccepts, held, Previews
<1>3. ASSUME NEW r \in Requests, Close(r) PROVE SlotsAreHeld'
  <2>1. Previews' = Previews \ {r} BY <1>3 DEF Close, Previews, Previewing
  <2>2. CASE r \in Previews
    <3>1. slots' = slots + 1 BY <1>3, <2>2 DEF Close, Previews
    <3>2. Cardinality(Previews') = Cardinality(Previews) - 1 BY <2>1, <2>2, PreviewCount
    <3>3. Cardinality(Previews) \in Nat BY PreviewCount
    <3> DEFINE n == Cardinality(Previews)
    <3>4. slots \in Nat /\ n \in Nat /\ slots + n = PreviewLimit BY <3>3, <1>a
    <3> HIDE DEF n
    <3>5. n - 1 = PreviewLimit - (slots + 1) /\ slots + 1 \in Nat BY ONLY <3>4, <1>a
    <3> QED BY <3>1, <3>2, <3>5, <1>c DEF n
  <2>3. CASE r \notin Previews
    <3>1. slots' = slots BY <1>3, <2>3 DEF Close, Previews
    <3> QED BY <2>1, <2>3, <3>1, <1>b
  <2> QED BY <2>2, <2>3
<1>4. ASSUME NEW r \in Requests, ProbeRejects(r) \/ Answer(r) \/ Fails(r) PROVE SlotsAreHeld'
  BY <1>3, <1>4 DEF ProbeRejects, Answer, Fails
<1>5. ASSUME NEW r \in Requests, Take(r) PROVE SlotsAreHeld'
  <2>1. ~Locks("preview") BY DEF Locks, Locked
  <2>2. \A q \in Requests : Previewing(q)' <=> Previewing(q)
    BY <1>5, <2>1 DEF Take, Previewing, Fit
  <2> QED BY <1>5, <2>2, <1>b DEF Take, Previews
<1>6. ASSUME NEW r \in Requests, View(r) PROVE SlotsAreHeld'
  <2>1. Previews' = Previews \cup {r} /\ r \notin Previews
    BY <1>6 DEF View, Previews, Previewing, Fit
  <2>2. Cardinality(Previews') = Cardinality(Previews) + 1 BY <2>1, PreviewCount
  <2>3. slots' = slots - 1 BY <1>6 DEF View
  <2>4. Cardinality(Previews) \in Nat BY PreviewCount
  <2>5. Cardinality(Previews') = PreviewLimit - (slots - 1) /\ slots - 1 \in Nat
    BY <1>6, <2>2, <2>4, <1>a DEF View
  <2> QED BY <2>3, <2>5, <1>c
<1>7. ASSUME NEW r \in Requests, Planned(r) PROVE SlotsAreHeld'
  <2>1. PICK p \in States \ {"written"} : pc' = [pc EXCEPT ![r] = p] /\ Enters("stage", p)
    BY <1>7, EnsureMoves DEF Planned, States
  <2>2. \A q \in Requests : Previewing(q)' <=> Previewing(q)
    BY <1>7, <2>1 DEF Planned, Previewing, Request, Enters
  <2> QED BY <1>7, <2>2, <1>b DEF Planned, held, Previews
<1>8. ASSUME NEW r \in Requests, NEW i \in Reviews, Bind(r, i) PROVE SlotsAreHeld'
  <2>1. req[r].kind # "preview" BY <1>8 DEF Bind, Names
  <2>2. \A q \in Requests : Previewing(q)' <=> Previewing(q)
    BY <1>8, <2>1 DEF Bind, Previewing, Request
  <2> QED BY <1>8, <2>2, <1>b DEF Bind, held, Previews
<1>9. CASE Restart
  <2>1. Previews' = {} BY <1>9 DEF Restart, Previews, Previewing
  <2>2. Cardinality(Previews') = 0 BY <2>1, FS_EmptySet
  <2> QED BY <1>9, <2>2, <1>a DEF Restart, SlotsAreHeld, Previews
<1>10. ASSUME pc' = pc, req' = req, slots' = slots PROVE SlotsAreHeld'
  BY <1>10, <1>b DEF Previews, Previewing
<1>11. CASE Tick \/ Install \/ UNCHANGED vars
  BY <1>10, <1>11 DEF Tick, Install, vars, local, held
<1>12. ASSUME NEW c \in left, Dies(c) \/ \E i \in Reviews : Outlives(c, i) PROVE SlotsAreHeld'
  BY <1>10, <1>12 DEF Dies, Outlives, local, held
<1> QED BY <1>1, <1>2, <1>4, <1>5, <1>6, <1>7, <1>8, <1>9, <1>11, <1>12
        DEF Next, Outside, Probe, Finish, Command

-----------------------------------------------------------------------------
(* Every step keeps the stored roots with the bindings of the ledger: the  *)
(* lock lets no other command change a binding before the answer of the    *)
(* last one is stored.                                                     *)
LEMMA BindingStep == TypeOK /\ Fit /\ LockIsHeld /\ BindingsKept /\ [Next]_vars => BindingsKept'
<1> SUFFICES ASSUME TypeOK, Fit, LockIsHeld, BindingsKept, [Next]_vars PROVE BindingsKept' OBVIOUS
<1> USE DEF TypeOK
<1>a. /\ Lost \notin Requests /\ None \notin Requests /\ None # Lost
      /\ None \notin Reviews /\ Plans \cap Reviews = {} /\ Reviews \subseteq Ids
  BY ConstantsAssumption DEF Ids
<1>b. \A q, r \in Requests : pc[q] = "written" /\ pc[r] \in {"running", "written"} /\ req[r].kind \in Binding => q = r
  BY DEF LockIsHeld, Fit, Locks, Locked, Binding
<1>c. ASSUME NEW r \in Requests, NEW p \in States \ {"written"},
             pc' = [pc EXCEPT ![r] = p], pc[r] # "written",
             req' = req \/ \E a : req' = [req EXCEPT ![r] = a],
             UNCHANGED <<store, bound, due>>
      PROVE  BindingsKept'
  BY <1>c DEF BindingsKept, RootIsBound
<1>1. ASSUME NEW r \in Requests, Route(r) PROVE BindingsKept'
  <2>1. PICK k \in Kinds \ {"stage"}, i \in Ids \cup {None}, x \in Roots \cup {None} : Begin(r, k, i, x)
    BY <1>1, RouteBegins
  <2>2. PICK p \in States \ {"written"} : pc' = [pc EXCEPT ![r] = p]
    BY <2>1, EnsureMoves DEF Begin, States
  <2> QED BY <2>1, <2>2, <1>c DEF Begin, ledger
<1>2. ASSUME NEW r \in Requests, ProbeAccepts(r) PROVE BindingsKept'
  <2>1. PICK p \in States \ {"written"} : pc' = [pc EXCEPT ![r] = p]
    BY <1>2, AdmitMoves DEF ProbeAccepts, States
  <2> QED BY <1>2, <2>1, <1>c DEF ProbeAccepts, ledger
<1>3. ASSUME NEW r \in Requests, ProbeRejects(r) PROVE BindingsKept'
  BY <1>3, <1>c DEF ProbeRejects, Close, ledger, States
<1>4. ASSUME NEW r \in Requests, Take(r) \/ View(r) PROVE BindingsKept'
  BY <1>4, <1>c DEF Take, View, ledger, States
<1>5. ASSUME NEW r \in Requests, Planned(r) PROVE BindingsKept'
  <2>1. PICK p \in States \ {"written"} : pc' = [pc EXCEPT ![r] = p]
    BY <1>5, EnsureMoves DEF Planned, States
  <2> QED BY <1>5, <2>1, <1>c DEF Planned, ledger
<1>6. ASSUME NEW r \in Requests, Answer(r) PROVE BindingsKept'
  <2>1. /\ pc' = [pc EXCEPT ![r] = "idle"] /\ req' = [req EXCEPT ![r] = NoRequest]
        /\ bound' = bound /\ due' = [i \in Reviews |-> IF due[i] = r THEN None ELSE due[i]]
    BY <1>6 DEF Answer, Close
  <2>2. \A i \in Reviews : due'[i] \in Requests => due[i] = due'[i] /\ due[i] # r
    BY <2>1, <1>a
  <2>3. \A i \in Reviews : due'[i] \in Requests =>
          pc'[due'[i]] = "written" /\ req'[due'[i]].id = i /\ bound'[i] = req'[due'[i]].root
    BY <2>1, <2>2 DEF BindingsKept
  <2>4. ASSUME NEW q \in Requests, pc'[q] = "written" PROVE due'[req'[q].id] # None
    <3>1. q # r /\ pc[q] = "written" /\ req'[q] = req[q] BY <2>1, <2>4
    <3>2. req[q].id \in Reviews /\ due[req[q].id] # None BY <3>1 DEF Fit, BindingsKept
    <3>3. due[req[q].id] # r
      BY <3>1, <3>2, <1>b DEF BindingsKept, Fit
    <3> QED BY <2>1, <3>1, <3>2, <3>3
  <2>5. ASSUME NEW i \in Reviews, bound'[i] # None, due'[i] = None, store'[i] # None
        PROVE  store'[i].root = bound'[i]
    <3>1. CASE pc[r] = "written" /\ req[r].id = i
      <4>1. req[r].kind \in Binding /\ store' = [store EXCEPT ![i] = [root |-> req[r].root, age |-> 0]]
        BY <1>6, <3>1 DEF Answer, Stored, Fit
      <4>2. due[i] # None BY <3>1 DEF BindingsKept
      <4>3. due[i] = r BY <2>1, <2>5, <4>2
      <4>4. bound[i] = req[r].root BY <4>3 DEF BindingsKept
      <4> QED BY <2>1, <4>1, <4>4, <1>a
    <3>2. CASE ~(pc[r] = "written" /\ req[r].id = i)
      <4>1. due[i] = None
        BY <2>1, <2>5, <3>2 DEF BindingsKept
      <4>2. store'[i] = store[i]
        <5>1. CASE req[r].kind \in Binding
          BY <1>6, <3>2, <5>1, <1>a DEF Answer, Stored, Fit
        <5>2. CASE req[r].kind = "plan"
          BY <1>6, <5>2, <1>a DEF Answer, Stored, Fit, Asks
        <5>3. CASE req[r].kind \notin Binding \cup {"plan"}
          BY <1>6, <5>3 DEF Answer, Stored
        <5> QED BY <5>1, <5>2, <5>3
      <4> QED BY <2>1, <2>5, <4>1, <4>2 DEF BindingsKept, RootIsBound
    <3> QED BY <3>1, <3>2
  <2> QED BY <2>3, <2>4, <2>5 DEF BindingsKept, RootIsBound
<1>7. ASSUME NEW r \in Requests, Fails(r) PROVE BindingsKept'
  <2>1. /\ pc' = [pc EXCEPT ![r] = "idle"] /\ req' = [req EXCEPT ![r] = NoRequest]
        /\ bound' = bound /\ store' = store
        /\ due' = [i \in Reviews |-> IF due[i] = r THEN Lost ELSE due[i]]
    BY <1>7 DEF Fails, Close
  <2>2. \A i \in Reviews : due'[i] \in Requests =>
          pc'[due'[i]] = "written" /\ req'[due'[i]].id = i /\ bound'[i] = req'[due'[i]].root
    BY <2>1, <1>a DEF BindingsKept
  <2>3. \A q \in Requests : pc'[q] = "written" => due'[req'[q].id] # None
    BY <2>1, <1>a DEF BindingsKept, Fit
  <2>4. \A i \in Reviews : due'[i] = None => due[i] = None BY <2>1, <1>a
  <2> QED BY <2>1, <2>2, <2>3, <2>4 DEF BindingsKept, RootIsBound
<1>8. ASSUME NEW r \in Requests, NEW i \in Reviews, Bind(r, i) PROVE BindingsKept'
  <2>1. /\ pc' = [pc EXCEPT ![r] = "written"]
        /\ req' = [req EXCEPT ![r] = Request(req[r].kind, i, req[r].root)]
        /\ bound' = [bound EXCEPT ![i] = req[r].root] /\ due' = [due EXCEPT ![i] = r]
        /\ store' = store /\ pc[r] = "running" /\ req[r].kind \in Binding
    BY <1>8 DEF Bind, Names, Binding
  <2>2. \A q \in Requests : pc[q] # "written" BY <2>1, <1>b
  <2>3. \A j \in Reviews : due[j] \notin Requests BY <2>2 DEF BindingsKept
  <2>4. req'[r].id = i /\ req'[r].root = req[r].root BY <2>1 DEF Request
  <2>5. \A j \in Reviews : due'[j] \in Requests =>
          pc'[due'[j]] = "written" /\ req'[due'[j]].id = j /\ bound'[j] = req'[due'[j]].root
    BY <2>1, <2>3, <2>4
  <2>6. \A q \in Requests : pc'[q] = "written" => due'[req'[q].id] # None
    BY <2>1, <2>2, <2>4, <1>a
  <2>7. \A j \in Reviews : due'[j] = None => due[j] = None /\ bound'[j] = bound[j]
    BY <2>1, <1>a
  <2> QED BY <2>1, <2>5, <2>6, <2>7 DEF BindingsKept, RootIsBound
<1>9. CASE Tick
  <2>1. pc' = pc /\ req' = req /\ bound' = bound /\ due' = due BY <1>9 DEF Tick, ledger
  <2>2. \A i \in Reviews : store'[i] # None => store[i] # None /\ store'[i].root = store[i].root
    BY <1>9, <1>a DEF Tick
  <2> QED BY <2>1, <2>2 DEF BindingsKept, RootIsBound
<1>10. CASE Restart
  <2>1. /\ \A q \in Requests : pc'[q] = "idle"
        /\ \A i \in Reviews : store'[i] = None /\ due'[i] \notin Requests
    BY <1>10, <1>a DEF Restart
  <2> QED BY <2>1 DEF BindingsKept, RootIsBound
<1>11. ASSUME NEW c \in left, NEW i \in Reviews, Outlives(c, i) PROVE BindingsKept'
  <2>1. /\ pc' = pc /\ req' = req /\ store' = store
        /\ bound' = [bound EXCEPT ![i] = c.root] /\ due' = [due EXCEPT ![i] = Lost]
    BY <1>11 DEF Outlives, local
  <2>2. \A j \in Reviews : due'[j] \in Requests \cup {None} => due'[j] = due[j] /\ bound'[j] = bound[j]
    BY <2>1, <1>a
  <2>3. \A q \in Requests : pc'[q] = "written" => due'[req'[q].id] # None
    BY <2>1, <1>a DEF BindingsKept, Fit
  <2> QED BY <2>1, <2>2, <2>3 DEF BindingsKept, RootIsBound
<1>12. CASE Install \/ UNCHANGED vars
  BY <1>12 DEF Install, vars, local, ledger, BindingsKept, RootIsBound
<1>13. ASSUME NEW c \in left, Dies(c) PROVE BindingsKept'
  BY <1>13 DEF Dies, local, BindingsKept, RootIsBound
<1> QED BY <1>1, <1>2, <1>3, <1>4, <1>5, <1>6, <1>7, <1>8, <1>9, <1>10, <1>11, <1>12, <1>13
        DEF Next, Outside, Probe, Finish, Command

(* Every step keeps a fresh result no older than the last compatible CLI.  *)
LEMMA CacheStep == TypeOK /\ CacheIsGood /\ [Next]_vars => CacheIsGood'
<1> SUFFICES ASSUME TypeOK, CacheIsGood, [Next]_vars PROVE CacheIsGood' OBVIOUS
<1> USE DEF TypeOK
<1>a. ASSUME UNCHANGED <<cached, cli>> PROVE CacheIsGood' BY <1>a DEF cli, CacheIsGood
<1>1. ASSUME NEW r \in Requests, Route(r) PROVE CacheIsGood'
  BY <1>1, <1>a, RouteBegins DEF Begin
<1>2. ASSUME NEW r \in Requests, ProbeAccepts(r) PROVE CacheIsGood'
  <2>1. good = 0 /\ cached' \in Nat /\ good' = good BY <1>2 DEF ProbeAccepts, CacheIsGood, cli
  <2> QED BY <2>1 DEF CacheIsGood
<1>3. ASSUME NEW r \in Requests,
             ProbeRejects(r) \/ Take(r) \/ View(r) \/ Finish(r) \/ \E i \in Reviews : Bind(r, i)
      PROVE  CacheIsGood'
  BY <1>3, <1>a DEF ProbeRejects, Take, View, Finish, Planned, Answer, Fails, Bind
<1>4. CASE Tick
  <2>1. cached' = Older(cached, CompatTTL) /\ compatible' = compatible
        /\ good' = IF compatible THEN 0 ELSE Older(good, CompatTTL)
    BY <1>4 DEF Tick
  <2> QED BY <2>1, ConstantsAssumption DEF CacheIsGood, Older
<1>5. CASE Install BY <1>5 DEF Install, CacheIsGood
<1>6. CASE Restart BY <1>6 DEF Restart, cli, CacheIsGood
<1>7. ASSUME NEW c \in left, Dies(c) \/ \E i \in Reviews : Outlives(c, i) PROVE CacheIsGood'
  BY <1>7, <1>a DEF Dies, Outlives
<1>8. CASE UNCHANGED vars BY <1>8, <1>a DEF vars
<1> QED BY <1>1, <1>2, <1>3, <1>4, <1>5, <1>6, <1>7, <1>8 DEF Next, Outside, Probe, Command

-----------------------------------------------------------------------------
(* The inductive invariant. *)
IInv == TypeOK /\ Fit /\ HeldByRunning /\ BindingsKept /\ CacheIsGood

(* Initially nothing is asked, held, stored or cached. *)
LEMMA InitInv == Init => IInv
<1> SUFFICES ASSUME Init PROVE IInv OBVIOUS
<1>1. TypeOK BY InitType
<1>2. Fit BY ConstantsAssumption DEF Init, Fit, Asks, NoRequest, Request
<1>3. LockIsHeld BY ConstantsAssumption DEF Init, LockIsHeld
<1>4. SlotsAreHeld
  <2>1. {r \in Requests : Previewing(r)} = {} BY DEF Init, Previewing
  <2>2. Cardinality({r \in Requests : Previewing(r)}) = 0 BY <2>1, FS_EmptySet
  <2>3. slots = PreviewLimit /\ PreviewLimit \in Nat BY ConstantsAssumption DEF Init
  <2>4. slots + 0 = PreviewLimit BY <2>3
  <2> QED BY <2>2, <2>4 DEF SlotsAreHeld
<1>5. BindingsKept BY ConstantsAssumption DEF Init, BindingsKept, RootIsBound
<1>6. CacheIsGood BY ConstantsAssumption DEF Init, CacheIsGood
<1> QED BY <1>1, <1>2, <1>3, <1>4, <1>5, <1>6 DEF IInv, HeldByRunning

(* Every step keeps the invariant. *)
LEMMA NextInv == IInv /\ [Next]_vars => IInv'
BY TypeStep, FitStep, LockStep, SlotStep, BindingStep, CacheStep DEF IInv, HeldByRunning

(* It holds in every reachable state. *)
LEMMA Invariant == Spec => []IInv
BY InitInv, NextInv, PTL DEF Spec

(* Every variable keeps its type, whatever the requests, reviews, roots    *)
(* and times to live (the state of CLIAdapter, its routes and the          *)
(* transient store).                                                       *)
THEOREM TypeCorrect == Spec => []TypeOK
BY Invariant, PTL DEF IInv

(* Whatever way commands end, the shared write lock is held by exactly the *)
(* one command that runs under it, and the preview semaphore by exactly    *)
(* the previews that run (run_serialized, run_preview_bytes).              *)
THEOREM NothingIsLeaked == Spec => []HeldByRunning
BY Invariant, PTL DEF IInv

(* The root stored for a review is the one the ledger binds it to, unless  *)
(* the last change of the binding was never answered (import_stage,        *)
(* import_rebind, store_transient_plan).                                   *)
THEOREM RootsAgree == Spec => []RootIsBound
<1>1. IInv => RootIsBound BY DEF IInv, BindingsKept
<1> QED BY <1>1, Invariant, PTL

(* No command is admitted unless the CLI was compatible less than the time *)
(* to live of a probe ago (_ensure_cli_compatible).                        *)
THEOREM CompatibleOnly == Spec => AdmitsKnownCli
<1> DEFINE Safe == \A r \in Requests : Admits(r) => good < CompatTTL
<1>1. IInv /\ [Next]_vars => [Safe]_vars
  <2> SUFFICES ASSUME IInv, Next, NEW r \in Requests, Admits(r) PROVE good < CompatTTL
    OBVIOUS
  <2> USE DEF IInv, TypeOK, CacheIsGood
  <2>a. cached < CompatTTL => good < CompatTTL BY ConstantsAssumption
  <2>b. pc \in [Requests -> States] BY DEF States
  <2>1. ASSUME NEW q \in Requests, Route(q) PROVE good < CompatTTL
    <3>1. PICK k \in Kinds \ {"stage"}, i \in Ids \cup {None}, x \in Roots \cup {None} : Begin(q, k, i, x)
      BY <2>1, RouteBegins
    <3>2. PICK p \in States : pc' = [pc EXCEPT ![q] = p] /\ (p # "probing" => cached < CompatTTL)
      BY <3>1, EnsureMoves DEF Begin, States
    <3>3. p # "probing" BY <3>2, <2>b DEF Admits
    <3> QED BY <3>2, <3>3, <2>a
  <2>2. ASSUME NEW q \in Requests, ProbeAccepts(q) PROVE good < CompatTTL
    BY <2>2, ConstantsAssumption DEF ProbeAccepts
  <2>3. ASSUME NEW q \in Requests, Planned(q) PROVE good < CompatTTL
    <3>1. PICK p \in States : pc' = [pc EXCEPT ![q] = p] /\ (p # "probing" => cached < CompatTTL)
      BY <2>3, EnsureMoves DEF Planned, States
    <3>2. p # "probing" BY <3>1, <2>b DEF Admits
    <3> QED BY <3>1, <3>2, <2>a
  <2>4. ASSUME NEW q \in Requests,
               ProbeRejects(q) \/ Answer(q) \/ Fails(q) \/ Take(q) \/ View(q)
               \/ \E i \in Reviews : Bind(q, i)
        PROVE  FALSE
    BY <2>4, <2>b DEF ProbeRejects, Answer, Fails, Close, Take, View, Bind, Admits
  <2>5. ASSUME Tick \/ Install \/ (\E c \in left : Dies(c) \/ \E i \in Reviews : Outlives(c, i))
        PROVE  FALSE
    BY <2>5 DEF Tick, Install, Dies, Outlives, local, Admits
  <2>6. CASE Restart BY <2>6 DEF Restart, Admits
  <2> QED BY <2>1, <2>2, <2>3, <2>4, <2>5, <2>6 DEF Next, Outside, Probe, Finish, Command
<1> QED BY <1>1, Invariant, PTL DEF Spec, AdmitsKnownCli

(* run_serialized promises that write commands do not overlap, which the     *)
(* adapters that routers make for themselves break.  Of those that share an  *)
(* adapter it is so: among commands that overlap, one at most is under the   *)
(* write lock of the import workbench.                                       *)
THEOREM SharedWritesSerialized ==
  Spec => [](Cardinality({r \in Writing : Locks(req[r].kind)}) <= 1)
<1> DEFINE shared == {r \in Writing : Locks(req[r].kind)}
<1>1. IInv => Cardinality(shared) <= 1
  <2> SUFFICES ASSUME IInv PROVE Cardinality(shared) <= 1  OBVIOUS
  <2>1. shared \subseteq {holder}  BY DEF IInv, HeldByRunning, LockIsHeld, Writing
  <2>2. CASE shared = {}  BY <2>2, FS_EmptySet
  <2>3. CASE shared # {}
    <3>1. shared = {holder}  BY <2>1, <2>3
    <3> QED BY <3>1, FS_Singleton
  <2> QED BY <2>2, <2>3
<1> QED BY <1>1, Invariant, PTL
=============================================================================
