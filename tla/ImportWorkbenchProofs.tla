------------------------ MODULE ImportWorkbenchProofs ------------------------
(***************************************************************************)
(* Theorems of ImportWorkbench, for any parents, proposals and filters.    *)
(*                                                                         *)
(* That the page says "bound" only of a parent that was bound rests on     *)
(* whose answer a running operation is waiting for: as long as the view it *)
(* began in is there, that is the shown parent.                            *)
(***************************************************************************)
EXTENDS ImportWorkbench, TLAPS

LedgerOK ==
  /\ rev \in [Parents -> 0..MaxRev]
  /\ st \in [Parents -> [Props -> States]]
  /\ ver \in [Parents -> [Props -> 0..MaxRev]]
  /\ busy \in [Parents -> BOOLEAN]
  /\ staged \subseteq Parents /\ bound \subseteq Parents /\ everBound \subseteq Parents

PageOK ==
  /\ parent \in Parents \cup {None} /\ filter \in Filters /\ offset \in Offsets
  /\ binding \in BOOLEAN /\ rebound \in [Props -> 0..MaxRev] /\ form \in Forms \cup {None}
  /\ cache \in [Keys -> Pages \cup {None}]
  /\ reading \in BOOLEAN /\ queueFailed \in BOOLEAN /\ blocked \in BOOLEAN

OpOK == op \in Ops \cup {None}

(* A version is a revision of its queue. *)
VerBelow == \A p \in Parents, q \in Props : ver[p][q] <= rev[p]

(* The steps that a kind of operation takes. *)
StepsFit ==
  op # None => /\ op.step \in {"validate", "stage", "rebind"} => Rethrows(op)
               /\ op.step = "write" => ~Rethrows(op)

(* While its view is there, a rebind is of the shown parent. *)
OwnView ==
  op # None /\ op.view = "here" /\ Rethrows(op)
    /\ (op.kind = "rebind" \/ op.step \in {"rebind", "refresh"}) => parent = op.of

(* A rebind that was accepted has bound its parent. *)
RebindBound ==
  op # None /\ Rethrows(op) /\ op.step = "refresh" => op.of \in everBound

(* What the page saw when the rebind was accepted is not newer than the    *)
(* ledger.                                                                 *)
SeenBelow ==
  op # None /\ Rethrows(op) /\ op.step = "refresh" =>
    \A q \in Props : op.seen[q] <= ver[op.of][q]

(* The page that a rebind has waited for is not older than the rebind. *)
ShownIsNew ==
  op # None /\ Rethrows(op) /\ op.step = "refresh" /\ op.view = "here" /\ ~op.awaits
    /\ op.result = "ok" =>
      \A k \in Observed :
        cache[k] # None /\ cache[k].prop # NoProp => op.seen[cache[k].prop] <= cache[k].ver

(* A page with a next one is not the last there can be. *)
NextFits == \A k \in Keys : cache[k] # None /\ cache[k].more => k[3] + 1 \in Offsets

IInv ==
  /\ LedgerOK /\ PageOK /\ OpOK /\ NextFits
  /\ VerBelow /\ StepsFit /\ OwnView /\ RebindBound /\ SeenBelow /\ ShownIsNew
  /\ BindingIsOwn

-----------------------------------------------------------------------------
(* What is observed is a key, of the shown parent. *)
LEMMA ActiveKeys ==
  ASSUME NEW p \in Parents \cup {None}, NEW f \in Filters, NEW n \in Offsets
  PROVE  Active(p, f, n) \subseteq Keys /\ \A k \in Active(p, f, n) : k[1] = p /\ p # None
BY DEF Active, Keys

(* The candidate of a key, and where it comes from. *)
LEMMA CandidateFrom ==
  ASSUME NEW p \in Parents \cup {None}, NEW f \in Filters, NEW n \in Offsets,
         NEW c \in [Keys -> Pages \cup {None}]
  PROVE  /\ Candidate(Active(p, f, n), c) \in Forms \cup {None}
         /\ Candidate(Active(p, f, n), c) # None =>
              \E k \in Active(p, f, n) :
                /\ c[k] # None /\ c[k].prop \in Props
                /\ Candidate(Active(p, f, n), c) = [of |-> <<p, c[k].prop>>, base |-> c[k].ver]
<1>1. CASE p = None
  BY <1>1 DEF Active, Candidate
<1>2. CASE p # None
  <2> DEFINE k == <<p, f, n>>
  <2>1. Active(p, f, n) = {k} /\ k \in Keys /\ k[1] = p
    BY <1>2 DEF Active, Keys
  <2>2. (CHOOSE j \in {k} : TRUE) = k
    OBVIOUS
  <2>3. Candidate({k}, c) = IF c[k] # None /\ c[k].prop # NoProp
                            THEN [of |-> <<p, c[k].prop>>, base |-> c[k].ver] ELSE None
    BY <2>1, <2>2 DEF Candidate
  <2>4. c[k] # None => c[k] \in Pages
    BY <2>1
  <2>5. c[k] # None /\ c[k].prop # NoProp =>
          c[k].prop \in Props /\ [of |-> <<p, c[k].prop>>, base |-> c[k].ver] \in Forms
    BY <1>2, <2>4 DEF Pages, Forms
  <2> QED
    BY <2>1, <2>3, <2>5
<1> QED
  BY <1>1, <1>2

(* A page as the ledger answers it. *)
LEMMA PageFrom ==
  ASSUME LedgerOK, NEW k \in Keys
  PROVE  /\ PageOf(k) \in Pages
         /\ PageOf(k).prop # NoProp => PageOf(k).ver = ver[k[1]][PageOf(k).prop]
         /\ PageOf(k).more => k[3] + 1 \in Offsets
<1>1. k[1] \in Parents
  BY DEF Keys
<1>2. ASSUME NEW n PROVE At(k[1], k[2], n) \in Props \cup {NoProp}
  BY DEF At
<1>3. ASSUME NEW q \in Props PROVE ver[k[1]][q] \in 0..MaxRev
  BY <1>1 DEF LedgerOK
<1>4. 0 \in 0..MaxRev /\ rev[k[1]] \in 0..MaxRev
  BY <1>1, ConstantsAssumption DEF LedgerOK
<1> QED
  BY <1>2, <1>3, <1>4 DEF PageOf, Pages, NoProp

-----------------------------------------------------------------------------
(* An edit numbers a revision above those there are. *)
LEMMA AdvanceRaises ==
  ASSUME LedgerOK, NEW p \in Parents, Advance(p)
  PROVE  /\ rev' \in [Parents -> 0..MaxRev]
         /\ \A r \in Parents : rev[r] <= rev'[r]
         /\ rev'[p] \in 0..MaxRev /\ \A r \in Parents : rev[r] <= rev'[p]
<1>1. PICK n \in 1..MaxRev : (\A r \in Parents : rev[r] < n) /\ rev' = [rev EXCEPT ![p] = n]
  BY DEF Advance
<1> QED
  BY <1>1, ConstantsAssumption DEF LedgerOK

(* What a step of the ledger keeps: the types, that versions are revisions, *)
(* and that both, and who was ever bound, only grow.                       *)
LedgerGrows ==
  /\ LedgerOK' /\ VerBelow'
  /\ \A p \in Parents, q \in Props : ver[p][q] <= ver'[p][q]
  /\ everBound \subseteq everBound'

LEMMA EffectGrows ==
  ASSUME LedgerOK, VerBelow, NEW o \in Ops, Effect(o)
  PROVE  LedgerGrows /\ (Rethrows(o) => o.of \in everBound')
<1>0. o.of \in Parents /\ o.decision \in Decisions /\ Decisions \subseteq States
  BY DEF Ops, Decisions, States
<1>1. CASE o.step = "stage" /\ Stages(o)
  BY <1>0, <1>1 DEF Stages, Binds, LedgerOK, LedgerGrows, VerBelow
<1>2. CASE o.step = "rebind" /\ Rebinds(o)
  BY <1>0, <1>2, AdvanceRaises DEF Rebinds, Binds, LedgerOK, LedgerGrows, VerBelow
<1>3. CASE o.kind = "decide" /\ Edits(o)
  <2>1. /\ rev' \in [Parents -> 0..MaxRev] /\ rev'[o.of] \in 0..MaxRev
        /\ \A r \in Parents : rev[r] <= rev'[r] /\ rev[r] <= rev'[o.of]
    BY <1>0, <1>3, AdvanceRaises DEF Edits
  <2>2. st' \in [Parents -> [Props -> States]]
    BY <1>0, <1>3 DEF Edits, LedgerOK
  <2>3. /\ ver' \in [Parents -> [Props -> 0..MaxRev]]
        /\ \A p \in Parents, q \in Props : ver'[p][q] \in {ver[p][q], rev'[p]}
    BY <1>0, <1>3, <2>1 DEF Edits, LedgerOK
  <2>4. /\ UNCHANGED <<busy, staged, bound, everBound>> /\ ~Rethrows(o)
    BY <1>3 DEF Edits, Rethrows
  <2>5. \A p \in Parents, q \in Props :
          ver[p][q] \in Nat /\ rev[p] \in Nat /\ rev'[p] \in Nat /\ ver[p][q] <= rev[p]
    BY <2>1, ConstantsAssumption DEF LedgerOK, VerBelow
  <2>6. \A p \in Parents, q \in Props : ver[p][q] <= ver'[p][q] /\ ver'[p][q] <= rev'[p]
    <3> SUFFICES ASSUME NEW p \in Parents, NEW q \in Props
                 PROVE  ver[p][q] <= ver'[p][q] /\ ver'[p][q] <= rev'[p]
      OBVIOUS
    <3>1. rev[p] <= rev'[p]
      BY <2>1
    <3> QED
      BY <2>3, <2>5, <3>1
  <2>7. LedgerOK'
    BY <2>1, <2>2, <2>3, <2>4 DEF LedgerOK
  <2> QED
    BY <2>4, <2>6, <2>7 DEF LedgerGrows, VerBelow
<1>4. CASE o.kind = "batch" /\ Runs(o, TRUE)
  BY <1>0, <1>4, AdvanceRaises DEF Runs, MayAdvance, Marks, LedgerOK, LedgerGrows, VerBelow, Rethrows, States
<1>5. CASE o.kind = "rollback" /\ RollsBack(o)
  BY <1>0, <1>5, AdvanceRaises DEF RollsBack, MayAdvance, Marks, LedgerOK, LedgerGrows, VerBelow, Rethrows, States
<1> QED
  BY <1>1, <1>2, <1>3, <1>4, <1>5 DEF Effect

(* So does every answered request; an accepted one binds what it rebinds.  *)
LEMMA ServedGrows ==
  ASSUME LedgerOK, VerBelow, NEW o \in Ops, NEW res, Served(o, res)
  PROVE  LedgerGrows /\ (Rethrows(o) /\ res = "ok" => o.of \in everBound')
<1>1. CASE Effect(o)
  BY <1>1, EffectGrows
<1>2. CASE o.kind = "batch" /\ Runs(o, FALSE) /\ res = "failed"
  <2>1. o.of \in Parents
    BY DEF Ops
  <2> QED
    BY <1>2, <2>1, AdvanceRaises
       DEF Runs, MayAdvance, Marks, LedgerOK, LedgerGrows, VerBelow, Rethrows, States
<1>3. CASE Refused(o, res) /\ UNCHANGED ledger
  <2>1. LedgerGrows
    BY <1>3, ConstantsAssumption DEF ledger, LedgerOK, LedgerGrows, VerBelow
  <2> QED
    BY <1>3, <2>1 DEF Refused
<1> QED
  BY <1>1, <1>2, <1>3 DEF Served

-----------------------------------------------------------------------------
(* What the ledger part of the invariant needs of a step that leaves the   *)
(* operation, or sets its view aside.                                      *)
LEMMA LedgerStill ==
  ASSUME LedgerOK, VerBelow, UNCHANGED ledger
  PROVE  LedgerGrows
BY ConstantsAssumption DEF ledger, LedgerOK, LedgerGrows, VerBelow

(* A running operation's claims on the ledger outlast what others do. *)
LEMMA ClaimsLast ==
  ASSUME LedgerOK, OpOK, RebindBound, SeenBelow, LedgerGrows,
         NEW o \in Ops, op # None, Rethrows(o) /\ o.step = "refresh" =>
           Rethrows(op) /\ op.step = "refresh" /\ o.of = op.of /\ o.seen = op.seen
  PROVE  Rethrows(o) /\ o.step = "refresh" =>
           o.of \in everBound' /\ \A q \in Props : o.seen[q] <= ver'[o.of][q]
<1>1. SUFFICES ASSUME Rethrows(o), o.step = "refresh"
               PROVE  o.of \in everBound' /\ \A q \in Props : o.seen[q] <= ver'[o.of][q]
  OBVIOUS
<1>2. o.of \in Parents /\ o.seen \in [Props -> 0..MaxRev]
  BY DEF Ops
<1>3. \A q \in Props : o.seen[q] <= ver[o.of][q] /\ ver[o.of][q] <= ver'[o.of][q]
  BY <1>1, <1>2 DEF SeenBelow, LedgerGrows
<1>4. \A q \in Props :
        o.seen[q] \in Nat /\ ver[o.of][q] \in Nat /\ ver'[o.of][q] \in Nat
  BY <1>2, ConstantsAssumption DEF LedgerOK, LedgerGrows
<1>5. o.of \in everBound'
  BY <1>1 DEF RebindBound, LedgerGrows
<1> QED
  BY <1>3, <1>4, <1>5

(* No operation runs any more, or none did. *)
LEMMA NoOp ==
  ASSUME op' = None
  PROVE  OpOK' /\ StepsFit' /\ OwnView' /\ RebindBound' /\ SeenBelow' /\ ShownIsNew'
BY DEF OpOK, StepsFit, OwnView, RebindBound, SeenBelow, ShownIsNew

(* The operation's view is gone. *)
LEMMA OpMoved ==
  ASSUME IInv, LedgerGrows, op # None, op' \in Ops, op'.view = "moved",
         op'.kind = op.kind, op'.step = op.step, op'.of = op.of, op'.seen = op.seen
  PROVE  OpOK' /\ StepsFit' /\ OwnView' /\ RebindBound' /\ SeenBelow' /\ ShownIsNew'
<1>1. Rethrows(op)' = Rethrows(op)
  BY DEF Rethrows
<1>2. OpOK' /\ StepsFit' /\ OwnView' /\ ShownIsNew'
  BY <1>1 DEF IInv, OpOK, StepsFit, OwnView, ShownIsNew
<1>3. RebindBound' /\ SeenBelow'
  BY <1>1, ClaimsLast DEF IInv, RebindBound, SeenBelow
<1> QED
  BY <1>2, <1>3

(* The view moves to a typed place. *)
LEMMA MoveTyped ==
  ASSUME IInv, NEW p \in Parents, NEW f \in Filters, NEW n \in Offsets, MoveTo(p, f, n),
         binding' \in BOOLEAN, rebound' \in [Props -> 0..MaxRev]
  PROVE  PageOK' /\ NextFits' /\ parent' = p
<1>1. form' \in Forms \cup {None}
  BY CandidateFrom DEF MoveTo, Render, IInv, PageOK
<1>2. queueFailed' \in BOOLEAN /\ reading' \in BOOLEAN /\ blocked' \in BOOLEAN
  BY DEF MoveTo, IInv, PageOK, Known
<1>3. parent' = p /\ filter' = f /\ offset' = n /\ cache' = cache
  BY DEF MoveTo
<1> QED
  BY <1>1, <1>2, <1>3 DEF IInv, PageOK, NextFits

LEMMA MovedOp ==
  ASSUME IInv, UNCHANGED ledger, op' = Moved
  PROVE  OpOK' /\ StepsFit' /\ OwnView' /\ RebindBound' /\ SeenBelow' /\ ShownIsNew'
<1>1. LedgerGrows
  BY LedgerStill DEF IInv
<1>2. CASE op = None
  BY <1>2, NoOp DEF Moved
<1>3. CASE op # None
  <2>1. op \in Ops
    BY <1>3 DEF IInv, OpOK
  <2>2. /\ op' \in Ops /\ op'.view = "moved" /\ op'.kind = op.kind
        /\ op'.step = op.step /\ op'.of = op.of /\ op'.seen = op.seen
    BY <1>3, <2>1 DEF Moved, Ops
  <2> QED
    BY <1>1, <1>3, <2>2, OpMoved
<1> QED
  BY <1>2, <1>3

LEMMA SelectParentStep ==
  ASSUME IInv, NEW p \in Parents, SelectParent(p)
  PROVE  IInv'
<1>1. UNCHANGED ledger /\ op' = Moved /\ MoveTo(p, filter, 0) /\ ~binding' /\ rebound' = NoRebind
      /\ binding' = FALSE
  BY DEF SelectParent, Activate
<1>2. LedgerGrows
  BY <1>1, LedgerStill DEF IInv
<1>3. 0 \in Offsets /\ NoRebind \in [Props -> 0..MaxRev] /\ filter \in Filters
  BY ConstantsAssumption DEF Offsets, NoRebind, IInv, PageOK
<1>4. PageOK' /\ NextFits'
  BY <1>1, <1>3, MoveTyped
<1> QED
  BY <1>1, <1>2, <1>4, MovedOp DEF IInv, LedgerGrows, BindingIsOwn

LEMMA BrowseStep ==
  ASSUME IInv, NEW f \in Filters, NEW n \in Offsets, Browse(f, n)
  PROVE  IInv'
<1>1. /\ UNCHANGED ledger /\ op' = Moved /\ MoveTo(parent, f, n)
      /\ UNCHANGED <<binding, rebound>> /\ parent \in Parents
  BY DEF Browse, IInv, PageOK
<1>2. LedgerGrows
  BY <1>1, LedgerStill DEF IInv
<1>3. PageOK' /\ NextFits' /\ parent' = parent
  BY <1>1, MoveTyped DEF IInv, PageOK
<1> QED
  BY <1>1, <1>2, <1>3, MovedOp DEF IInv, LedgerGrows, BindingIsOwn

LEMMA NextOffset ==
  ASSUME IInv, NextCandidate
  PROVE  offset + 1 \in Offsets
<1>1. PICK k \in Observed : cache[k] # None /\ cache[k].more
  BY DEF NextCandidate
<1>2. k \in Keys /\ k[3] = offset
  BY <1>1, ActiveKeys DEF Observed, Active, IInv, PageOK
<1> QED
  BY <1>1, <1>2 DEF IInv, NextFits

(* The user's moves, besides those that begin an operation. *)
LEMMA MovesStep ==
  ASSUME IInv,
         \/ \E p \in Parents : SelectParent(p)
         \/ \E f \in Filters : SelectFilter(f)
         \/ PreviousCandidate \/ NextCandidate \/ PageReviews \/ Leave
  PROVE  IInv'
<1>1. ASSUME NEW p \in Parents, SelectParent(p) PROVE IInv'
  BY <1>1, SelectParentStep
<1>2. ASSUME NEW f \in Filters, SelectFilter(f) PROVE IInv'
  <2>1. 0 \in Offsets
    BY ConstantsAssumption DEF Offsets
  <2> QED
    BY <1>2, <2>1, BrowseStep DEF SelectFilter
<1>3. CASE PreviousCandidate
  <2>1. offset - 1 \in Offsets /\ filter \in Filters
    BY <1>3, ConstantsAssumption DEF PreviousCandidate, Offsets, IInv, PageOK
  <2> QED
    BY <1>3, <2>1, BrowseStep DEF PreviousCandidate
<1>4. CASE NextCandidate
  <2>1. offset + 1 \in Offsets /\ filter \in Filters
    BY <1>4, NextOffset DEF IInv, PageOK
  <2> QED
    BY <1>4, <2>1, BrowseStep DEF NextCandidate
<1>5. CASE PageReviews
  <2>1. /\ op' \in Ops /\ op'.view = "moved" /\ op'.kind = op.kind /\ op # None
        /\ op'.step = op.step /\ op'.of = op.of /\ op'.seen = op.seen
    BY <1>5 DEF PageReviews, IInv, OpOK, Ops
  <2>2. LedgerGrows
    BY <1>5, LedgerStill DEF PageReviews, IInv
  <2>3. OpOK' /\ StepsFit' /\ OwnView' /\ RebindBound' /\ SeenBelow' /\ ShownIsNew'
    BY <2>1, <2>2, OpMoved
  <2>4. PageOK' /\ NextFits' /\ BindingIsOwn'
    BY <1>5 DEF PageReviews, IInv, ledger, page, view, queries, PageOK, NextFits, BindingIsOwn
  <2> QED
    BY <2>2, <2>3, <2>4 DEF IInv, LedgerGrows
<1>6. CASE Leave
  <2>1. LedgerGrows
    BY <1>6, LedgerStill DEF Leave, IInv
  <2>2. 0 \in Offsets /\ NoRebind \in [Props -> 0..MaxRev] /\ "pending" \in Filters
    BY ConstantsAssumption DEF Offsets, NoRebind
  <2>3. PageOK' /\ NextFits' /\ BindingIsOwn'
    BY <1>6, <2>2 DEF Leave, IInv, PageOK, NextFits, BindingIsOwn
  <2> QED
    BY <1>6, <2>1, <2>3, NoOp DEF Leave, IInv, LedgerGrows
<1> QED
  BY <1>1, <1>2, <1>3, <1>4, <1>5, <1>6

-----------------------------------------------------------------------------
(* An operation begins: it has bound nothing and waits for nothing. *)
LEMMA BeginStep ==
  ASSUME IInv, NEW o \in Ops, Begin(o), o.step \in {"validate", "write"},
         o.step = "validate" => Rethrows(o), o.step = "write" => ~Rethrows(o),
         o.kind = "rebind" => parent = o.of
  PROVE  IInv'
<1>1. op' = o /\ o # None => OpOK' /\ StepsFit' /\ OwnView' /\ RebindBound' /\ SeenBelow' /\ ShownIsNew'
  BY DEF Begin, page, view, OpOK, StepsFit, OwnView, RebindBound, SeenBelow, ShownIsNew, Rethrows
<1>2. LedgerGrows
  BY LedgerStill DEF Begin, IInv
<1>3. PageOK' /\ NextFits' /\ BindingIsOwn'
  BY DEF Begin, IInv, ledger, page, view, queries, PageOK, NextFits, BindingIsOwn
<1> QED
  BY <1>1, <1>2, <1>3, NoOp DEF Begin, IInv, LedgerGrows

LEMMA OpsTyped ==
  ASSUME NEW k \in Kinds, NEW s \in Steps, NEW p \in Parents
  PROVE  Op(k, s, p) \in Ops
BY ConstantsAssumption DEF Op, Ops, Decisions, Results

LEMMA BeginningsStep ==
  ASSUME IInv,
         \/ \E p \in Parents : Start(p)
         \/ \E d \in Decisions : Decide(d)
         \/ ExplicitRebind \/ BatchRun \/ Rollback
  PROVE  IInv'
<1>0. parent # None => parent \in Parents
  BY DEF IInv, PageOK
<1>1. ASSUME NEW p \in Parents, Start(p) PROVE IInv'
  <2> DEFINE o == Op("start", "validate", p)
  <2>1. o \in Ops /\ o.kind = "start" /\ o.step = "validate"
    BY OpsTyped DEF Kinds, Steps, Op
  <2> QED
    BY <1>1, <2>1, BeginStep DEF Start, Rethrows
<1>2. CASE ExplicitRebind
  <2> DEFINE o == Op("rebind", "validate", parent)
  <2>1. o \in Ops /\ o.kind = "rebind" /\ o.step = "validate" /\ o.of = parent
    BY <1>0, <1>2, OpsTyped DEF Kinds, Steps, Op, ExplicitRebind
  <2> QED
    BY <1>2, <2>1, BeginStep DEF ExplicitRebind, Rethrows
<1>3. CASE BatchRun
  <2> DEFINE o == Op("batch", "write", parent)
  <2>1. o \in Ops /\ o.kind = "batch" /\ o.step = "write"
    BY <1>0, <1>3, OpsTyped DEF Kinds, Steps, Op, BatchRun
  <2> QED
    BY <1>3, <2>1, BeginStep DEF BatchRun, Rethrows
<1>4. CASE Rollback
  <2> DEFINE o == Op("rollback", "write", parent)
  <2>1. o \in Ops /\ o.kind = "rollback" /\ o.step = "write"
    BY <1>0, <1>4, OpsTyped DEF Kinds, Steps, Op, Rollback
  <2> QED
    BY <1>4, <2>1, BeginStep DEF Rollback, Rethrows
<1>5. ASSUME NEW d \in Decisions, Decide(d) PROVE IInv'
  <2>1. PICK k \in Observed :
          /\ cache[k] # None
          /\ Begin([Op("decide", "write", parent) EXCEPT !.prop = cache[k].prop,
                           !.decision = d, !.expect = cache[k].rev])
    BY <1>5 DEF Decide
  <2> DEFINE o == [Op("decide", "write", parent) EXCEPT !.prop = cache[k].prop,
                          !.decision = d, !.expect = cache[k].rev]
  <2>2. k \in Keys /\ parent # None
    BY <2>1, ActiveKeys DEF Observed, Active, IInv, PageOK
  <2>3. cache[k].prop \in Props \cup {NoProp} /\ cache[k].rev \in 0..MaxRev
    BY <2>1, <2>2 DEF IInv, PageOK, Pages
  <2>4. Op("decide", "write", parent) \in Ops
    BY <1>0, <2>2, OpsTyped DEF Kinds, Steps
  <2>5. o \in Ops /\ o.kind = "decide" /\ o.step = "write"
    BY <2>3, <2>4 DEF Ops, Op
  <2>6. Begin(o)
    BY <2>1
  <2> HIDE DEF o
  <2> QED
    BY <2>5, <2>6, BeginStep DEF Rethrows
<1> QED
  BY <1>1, <1>2, <1>3, <1>4, <1>5

-----------------------------------------------------------------------------
(* The answers of the ledger and the reads. *)
LEMMA ValidatedStep ==
  ASSUME IInv, NEW readable \in BOOLEAN, Validated(readable)
  PROVE  IInv'
<1>1. LedgerGrows
  BY LedgerStill DEF Validated, IInv
<1>2. PageOK' /\ NextFits' /\ BindingIsOwn'
  BY DEF Validated, IInv, ledger, page, view, queries, PageOK, NextFits, BindingIsOwn
<1>3. CASE op' = None
  BY <1>1, <1>2, <1>3, NoOp DEF IInv, LedgerGrows
<1>4. CASE op' # None
  <2>1. /\ op # None /\ op \in Ops
        /\ op.step = "validate" /\ op.view = "here" /\ Rethrows(op)
        /\ op' = [op EXCEPT !.step = IF op.kind = "start" THEN "stage" ELSE "rebind"]
    BY <1>4 DEF Validated, IInv, OpOK, StepsFit
  <2>2. /\ op' \in Ops /\ op'.kind = op.kind /\ op'.of = op.of /\ op'.view = "here"
        /\ op'.step \in {"stage", "rebind"} /\ (op'.step = "rebind" => op'.kind = "rebind")
    BY <2>1 DEF Ops, Steps, Rethrows
  <2>3. parent' = parent /\ Rethrows(op')
    BY <2>1, <2>2 DEF Validated, page, view, Rethrows
  <2>4. OpOK' /\ StepsFit' /\ OwnView' /\ RebindBound' /\ SeenBelow' /\ ShownIsNew'
    <3>1. op.kind = "rebind" => parent = op.of
      BY <2>1 DEF IInv, OwnView
    <3>2. OwnView'
      BY <2>2, <2>3, <3>1 DEF OwnView
    <3>3. OpOK' /\ StepsFit'
      BY <2>2, <2>3 DEF OpOK, StepsFit, Rethrows
    <3> QED
      BY <2>2, <3>2, <3>3 DEF RebindBound, SeenBelow, ShownIsNew
  <2> QED
    BY <1>1, <1>2, <2>4 DEF IInv, LedgerGrows
<1> QED
  BY <1>3, <1>4

LEMMA StageAnsweredStep ==
  ASSUME IInv, NEW res \in Results, StageAnswered(res)
  PROVE  IInv'
<1>1. op \in Ops /\ op.step = "stage" /\ op.of \in Parents /\ Rethrows(op) /\ Served(op, res)
  BY DEF StageAnswered, IInv, OpOK, StepsFit, Ops
<1>2. LedgerGrows /\ (res = "ok" => op.of \in everBound')
  BY <1>1, ServedGrows DEF IInv
<1>3. 0 \in Offsets /\ NoRebind \in [Props -> 0..MaxRev] /\ filter \in Filters
  BY ConstantsAssumption DEF Offsets, NoRebind, IInv, PageOK
<1>4. CASE op.view = "here" /\ res = "ok"
  <2>1. /\ op' = None /\ MoveTo(op.of, filter, 0)
        /\ binding' = TRUE /\ rebound' = NoRebind
    BY <1>4 DEF StageAnswered, Activate
  <2>2. PageOK' /\ NextFits' /\ parent' = op.of
    BY <1>1, <1>3, <2>1, MoveTyped
  <2> QED
    BY <1>2, <1>4, <2>1, <2>2, NoOp DEF IInv, LedgerGrows, BindingIsOwn
<1>5. CASE op.view = "here" /\ res = "already"
  <2>1. /\ op' = [op EXCEPT !.step = "rebind"] /\ MoveTo(op.of, filter, 0)
        /\ binding' = FALSE /\ rebound' = NoRebind
    BY <1>5 DEF StageAnswered, Activate
  <2>2. PageOK' /\ NextFits' /\ parent' = op.of
    BY <1>1, <1>3, <2>1, MoveTyped
  <2>3. /\ op' \in Ops /\ op'.step = "rebind" /\ op'.kind = op.kind
        /\ op'.of = op.of /\ op'.view = op.view
    BY <1>1, <2>1 DEF Ops, Steps
  <2>4. OpOK' /\ StepsFit' /\ OwnView' /\ RebindBound' /\ SeenBelow' /\ ShownIsNew'
    BY <1>1, <2>2, <2>3 DEF OpOK, StepsFit, OwnView, RebindBound, SeenBelow, ShownIsNew, Rethrows
  <2> QED
    BY <1>2, <2>1, <2>2, <2>4 DEF IInv, LedgerGrows, BindingIsOwn
<1>6. CASE ~(op.view = "here" /\ res \in {"ok", "already"})
  <2>1. op' = None /\ UNCHANGED <<page, queries, blocked>>
    BY <1>6 DEF StageAnswered
  <2>2. PageOK' /\ NextFits' /\ BindingIsOwn'
    BY <1>2, <2>1 DEF IInv, page, view, queries, PageOK, NextFits, BindingIsOwn, LedgerGrows
  <2> QED
    BY <1>2, <2>1, <2>2, NoOp DEF IInv, LedgerGrows
<1> QED
  BY <1>4, <1>5, <1>6

(* An operation settles; the page says "bound" only if a rebind of the     *)
(* shown parent was accepted.                                              *)
LEMMA SettleKeeps ==
  ASSUME IInv, LedgerGrows, NEW res \in Results, op # None, Settle(op, res),
         UNCHANGED <<queries, blocked>> \/ (UNCHANGED <<cache, queueFailed, blocked, reading>>),
         op.view = "here" /\ Rethrows(op) /\ res = "ok" =>
           op.step = "refresh"
  PROVE  IInv'
<1>1. op \in Ops /\ UNCHANGED <<cache, queueFailed, blocked, reading>> /\ UNCHANGED view
  BY DEF IInv, OpOK, Settle, queries
<1>2. Candidate(Observed, cache) \in Forms \cup {None}
  BY CandidateFrom DEF Observed, IInv, PageOK
<1>3. form' \in Forms \cup {None}
  BY <1>2 DEF Settle, IInv, PageOK
<1>4. op.seen \in [Props -> 0..MaxRev] /\ NoRebind \in [Props -> 0..MaxRev]
  BY <1>1, ConstantsAssumption DEF Ops, NoRebind
<1>5. rebound' \in [Props -> 0..MaxRev]
  BY <1>4 DEF Settle, IInv, PageOK
<1>6. binding' \in BOOLEAN
  BY DEF Settle, IInv, PageOK
<1>7. PageOK' /\ NextFits'
  BY <1>1, <1>3, <1>5, <1>6 DEF view, IInv, PageOK, NextFits
<1>8. BindingIsOwn'
  <2>1. CASE op.view = "here" /\ Rethrows(op)
    <3>1. binding' => res = "ok"
      BY <2>1 DEF Settle
    <3>2. res = "ok" => parent = op.of /\ op.of \in everBound'
      BY <2>1 DEF IInv, OwnView, RebindBound, LedgerGrows
    <3> QED
      BY <1>1, <3>1, <3>2 DEF view, BindingIsOwn
  <2>2. CASE ~(op.view = "here" /\ Rethrows(op))
    <3>1. binding' => binding
      BY <2>2 DEF Settle
    <3> QED
      BY <1>1, <3>1 DEF view, BindingIsOwn, IInv, LedgerGrows
  <2> QED
    BY <2>1, <2>2
<1> QED
  BY <1>7, <1>8, NoOp DEF Settle, IInv, LedgerGrows

LEMMA AnsweredStep ==
  ASSUME IInv, NEW res \in Results, Answered(res)
  PROVE  IInv'
<1>1. /\ op # None /\ op \in Ops /\ op.step \in {"rebind", "write"} /\ op.of \in Parents
      /\ Served(op, res) /\ UNCHANGED <<cache, queueFailed, blocked>>
  BY DEF Answered, IInv, OpOK, Ops
<1>2. LedgerGrows /\ (Rethrows(op) /\ res = "ok" => op.of \in everBound')
  BY <1>1, ServedGrows DEF IInv
<1>3. CASE ~Refreshes(op, res)
  <2>1. Settle(op, res) /\ UNCHANGED reading
    BY <1>3 DEF Answered
  <2>2. ~(Rethrows(op) /\ res = "ok")
    BY <1>1, <1>3 DEF Refreshes, IInv, StepsFit
  <2> QED
    BY <1>1, <1>2, <2>1, <2>2, SettleKeeps
<1>4. CASE Refreshes(op, res)
  <2> DEFINE seen == IF op.step = "rebind" THEN ver'[op.of] ELSE [q \in Props |-> 0]
             o == [Op(op.kind, "refresh", op.of) EXCEPT
                     !.view = op.view, !.result = res, !.awaits = op.view = "here",
                     !.seen = seen]
  <2>1. /\ op' = [Op(op.kind, "refresh", op.of) EXCEPT
                     !.view = op.view, !.result = res, !.awaits = op.view = "here",
                     !.seen = IF op.step = "rebind" THEN ver'[op.of] ELSE @]
        /\ UNCHANGED page /\ reading' \in BOOLEAN
    BY <1>4 DEF Answered, IInv, PageOK
  <2>2. op' = o
    BY <2>1 DEF Op
  <2>3. seen \in [Props -> 0..MaxRev]
    BY <1>1, <1>2, ConstantsAssumption DEF LedgerGrows, LedgerOK
  <2>4. Op(op.kind, "refresh", op.of) \in Ops
    BY <1>1, OpsTyped DEF Steps, Ops
  <2>5. /\ o \in Ops /\ o.kind = op.kind /\ o.step = "refresh" /\ o.of = op.of
        /\ o.view = op.view /\ o.awaits = (op.view = "here") /\ o.seen = seen
    <3> HIDE DEF seen
    <3>1. op.view \in {"here", "moved"} /\ (op.view = "here") \in BOOLEAN
      BY <1>1 DEF Ops
    <3> QED
      BY <2>3, <2>4, <3>1 DEF Ops, Op
  <2>6. Rethrows(op) => op.step = "rebind" /\ res = "ok"
    BY <1>1, <1>4 DEF IInv, StepsFit, Refreshes, Rethrows
  <2>7. OpOK' /\ StepsFit' /\ ShownIsNew'
    BY <2>2, <2>5 DEF OpOK, StepsFit, ShownIsNew, Rethrows
  <2>8. OwnView'
    BY <1>1, <2>1, <2>2, <2>5, <2>6 DEF OwnView, IInv, Rethrows, page, view
  <2>9. RebindBound'
    BY <1>2, <2>2, <2>5, <2>6 DEF RebindBound, Rethrows
  <2>10. SeenBelow'
    <3>1. \A q \in Props : ver'[op.of][q] <= ver'[op.of][q]
      BY <1>1, <1>2, ConstantsAssumption DEF LedgerGrows, LedgerOK
    <3> QED
      BY <2>2, <2>5, <2>6, <3>1 DEF SeenBelow, Rethrows
  <2>11. PageOK' /\ NextFits' /\ BindingIsOwn'
    BY <1>1, <1>2, <2>1 DEF IInv, page, view, PageOK, NextFits, BindingIsOwn, LedgerGrows
  <2> QED
    BY <1>2, <2>7, <2>8, <2>9, <2>10, <2>11 DEF IInv, LedgerGrows
<1> QED
  BY <1>3, <1>4

LEMMA SettledStep ==
  ASSUME IInv, Settled
  PROVE  IInv'
<1>1. op # None /\ op.result \in Results /\ op.step = "refresh"
  BY DEF Settled, IInv, OpOK, Ops
<1>2. LedgerGrows
  BY LedgerStill DEF Settled, IInv
<1> QED
  BY <1>1, <1>2, SettleKeeps DEF Settled

(* A read ends: an operation that waits for it goes on, or fails. *)
LEMMA QueueReadStep ==
  ASSUME IInv, NEW k \in Keys, QueueRead(k)
  PROVE  IInv'
<1>1. /\ UNCHANGED <<ledger, view, binding, rebound, blocked>> /\ k \in Observed
      /\ cache' = [cache EXCEPT ![k] = PageOf(k)]
      /\ reading' = FALSE /\ queueFailed' = FALSE
      /\ Render(Observed, cache') /\ op' = ReadEnds(op.result)
  BY DEF QueueRead
<1>2. LedgerGrows
  BY <1>1, LedgerStill DEF IInv
<1>3. PageOf(k) \in Pages /\ (PageOf(k).more => k[3] + 1 \in Offsets)
  BY PageFrom DEF IInv
<1>4. cache' \in [Keys -> Pages \cup {None}] /\ NextFits'
  BY <1>1, <1>3 DEF IInv, PageOK, NextFits
<1>5. form' \in Forms \cup {None}
  BY <1>1, <1>4, CandidateFrom DEF Render, Observed, IInv, PageOK
<1>6. PageOK' /\ BindingIsOwn'
  BY <1>1, <1>4, <1>5 DEF view, ledger, IInv, PageOK, BindingIsOwn
<1>7. CASE op = None
  BY <1>1, <1>2, <1>4, <1>6, <1>7, NoOp DEF ReadEnds, IInv, LedgerGrows
<1>8. CASE op # None
  <2>1. op \in Ops
    BY <1>8 DEF IInv, OpOK
  <2>2. /\ op' \in Ops /\ op'.kind = op.kind /\ op'.step = op.step /\ op'.of = op.of
        /\ op'.view = op.view /\ op'.seen = op.seen /\ op'.result = op.result
    BY <1>1, <1>8, <2>1 DEF ReadEnds, Ops
  <2>3. Rethrows(op)' = Rethrows(op) /\ parent' = parent
    BY <1>1, <2>2 DEF Rethrows, view
  <2>4. OpOK' /\ StepsFit' /\ OwnView'
    BY <1>8, <2>2, <2>3 DEF IInv, OpOK, StepsFit, OwnView
  <2>5. RebindBound' /\ SeenBelow'
    BY <1>2, <1>8, <2>2, <2>3, ClaimsLast DEF IInv, RebindBound, SeenBelow
  <2>6. ShownIsNew'
    <3>1. SUFFICES ASSUME Rethrows(op), op.step = "refresh", op.view = "here",
                          NEW j \in Observed,
                          cache'[j] # None, cache'[j].prop # NoProp
                   PROVE  op.seen[cache'[j].prop] <= cache'[j].ver
      BY <1>1, <2>2, <2>3 DEF ShownIsNew, Observed, view
    <3>2. j = k /\ k[1] = parent
      BY <1>1 DEF Observed, Active
    <3>3. cache'[j] = PageOf(k)
      BY <1>1, <3>2 DEF IInv, PageOK
    <3>4. parent = op.of
      BY <3>1, <1>8 DEF IInv, OwnView
    <3>5. PageOf(k).prop \in Props /\ PageOf(k).ver = ver[op.of][PageOf(k).prop]
      BY <1>3, <3>1, <3>2, <3>3, <3>4, PageFrom DEF Pages, IInv
    <3> QED
      BY <1>8, <3>1, <3>3, <3>5 DEF IInv, SeenBelow
  <2> QED
    BY <1>2, <1>4, <1>6, <2>4, <2>5, <2>6 DEF IInv, LedgerGrows
<1> QED
  BY <1>7, <1>8

LEMMA QueueReadFailsStep ==
  ASSUME IInv, QueueReadFails
  PROVE  IInv'
<1>1. /\ UNCHANGED <<ledger, page, cache, blocked>> /\ reading' = FALSE
      /\ queueFailed' = Known(Observed)
      /\ op' = ReadEnds(IF Rethrows(op) THEN "failed" ELSE op.result)
  BY DEF QueueReadFails
<1>2. LedgerGrows
  BY <1>1, LedgerStill DEF IInv
<1>3. PageOK' /\ NextFits' /\ BindingIsOwn'
  BY <1>1 DEF page, view, ledger, Known, IInv, PageOK, NextFits, BindingIsOwn
<1>4. CASE op = None
  BY <1>1, <1>2, <1>3, <1>4, NoOp DEF ReadEnds, IInv, LedgerGrows
<1>5. CASE op # None
  <2>1. op \in Ops
    BY <1>5 DEF IInv, OpOK
  <2>2. /\ op' \in Ops /\ op'.kind = op.kind /\ op'.step = op.step /\ op'.of = op.of
        /\ op'.view = op.view /\ op'.seen = op.seen
        /\ Rethrows(op) /\ op'.result = "ok" /\ ~op'.awaits => ~op.awaits /\ op.result = "ok"
    BY <1>1, <1>5, <2>1 DEF ReadEnds, Ops, Results
  <2>3. Rethrows(op)' = Rethrows(op) /\ parent' = parent
    BY <1>1, <2>2 DEF Rethrows, page, view
  <2>4. OpOK' /\ StepsFit' /\ OwnView'
    BY <1>5, <2>2, <2>3 DEF IInv, OpOK, StepsFit, OwnView
  <2>5. RebindBound' /\ SeenBelow'
    BY <1>2, <1>5, <2>2, <2>3, ClaimsLast DEF IInv, RebindBound, SeenBelow
  <2>6. ShownIsNew'
    BY <1>1, <1>5, <2>2, <2>3 DEF IInv, ShownIsNew, page, view, Observed
  <2> QED
    BY <1>2, <1>3, <2>4, <2>5, <2>6 DEF IInv, LedgerGrows
<1> QED
  BY <1>4, <1>5

-----------------------------------------------------------------------------
(* What happens around the page leaves the page and its operation alone. *)
LEMMA AroundKeeps ==
  ASSUME IInv, LedgerGrows, UNCHANGED <<page, cache, op>>,
         reading' \in BOOLEAN, queueFailed' \in BOOLEAN, blocked' \in BOOLEAN
  PROVE  IInv'
<1>1. PageOK' /\ NextFits' /\ BindingIsOwn'
  BY DEF page, view, IInv, PageOK, NextFits, BindingIsOwn, LedgerGrows
<1>2. OpOK' /\ StepsFit' /\ OwnView' /\ ShownIsNew'
  BY DEF page, view, IInv, OpOK, StepsFit, OwnView, ShownIsNew, Observed
<1>3. CASE op = None
  BY <1>1, <1>3, NoOp DEF IInv, LedgerGrows
<1>4. CASE op # None
  <2>1. op \in Ops /\ op' = op
    BY <1>4 DEF IInv, OpOK
  <2>2. RebindBound' /\ SeenBelow'
    BY <1>4, <2>1, ClaimsLast DEF IInv, RebindBound, SeenBelow
  <2> QED
    BY <1>1, <1>2, <2>2 DEF IInv, LedgerGrows
<1> QED
  BY <1>3, <1>4

LEMMA ElsewhereGrows ==
  ASSUME LedgerOK, VerBelow, Elsewhere
  PROVE  LedgerGrows
<1>1. ASSUME NEW p \in Parents, NEW s \in {"stage", "rebind"}, Effect(Op("start", s, p))
      PROVE  LedgerGrows
  BY <1>1, EffectGrows, OpsTyped DEF Kinds, Steps
<1>2. ASSUME NEW p \in Parents, NEW q \in Props, NEW d \in Decisions,
             Effect([Op("decide", "write", p) EXCEPT !.prop = q, !.decision = d, !.expect = rev[p]])
      PROVE  LedgerGrows
  <2>1. rev[p] \in 0..MaxRev /\ Op("decide", "write", p) \in Ops
    BY OpsTyped DEF LedgerOK, Kinds, Steps
  <2>2. [Op("decide", "write", p) EXCEPT !.prop = q, !.decision = d, !.expect = rev[p]] \in Ops
    BY <2>1 DEF Ops
  <2> QED
    BY <1>2, <2>2, EffectGrows
<1>3. ASSUME NEW p \in Parents, NEW k \in {"batch", "rollback"}, Effect(Op(k, "write", p))
      PROVE  LedgerGrows
  BY <1>3, EffectGrows, OpsTyped DEF Kinds, Steps
<1> QED
  BY <1>1, <1>2, <1>3 DEF Elsewhere

LEMMA TurnsStaleGrows ==
  ASSUME LedgerOK, VerBelow, NEW p \in Parents, NEW q \in Props, TurnsStale(p, q)
  PROVE  LedgerGrows
<1>1. /\ rev' \in [Parents -> 0..MaxRev] /\ rev'[p] \in 0..MaxRev
      /\ \A r \in Parents : rev[r] <= rev'[r] /\ rev[r] <= rev'[p]
  BY AdvanceRaises DEF TurnsStale
<1>2. st' \in [Parents -> [Props -> States]]
  BY DEF TurnsStale, LedgerOK, States
<1>3. /\ ver' \in [Parents -> [Props -> 0..MaxRev]]
      /\ \A r \in Parents, s \in Props : ver'[r][s] \in {ver[r][s], rev'[r]}
  BY <1>1 DEF TurnsStale, LedgerOK
<1>4. UNCHANGED <<busy, staged, bound, everBound>>
  BY DEF TurnsStale
<1>5. \A r \in Parents, s \in Props :
        ver[r][s] \in Nat /\ rev[r] \in Nat /\ rev'[r] \in Nat /\ ver[r][s] <= rev[r]
  BY <1>1, ConstantsAssumption DEF LedgerOK, VerBelow
<1>6. \A r \in Parents, s \in Props : ver[r][s] <= ver'[r][s] /\ ver'[r][s] <= rev'[r]
  BY <1>1, <1>3, <1>5
<1>7. LedgerOK'
  BY <1>1, <1>2, <1>3, <1>4 DEF LedgerOK
<1> QED
  BY <1>4, <1>6, <1>7 DEF LedgerGrows, VerBelow

LEMMA AroundStep ==
  ASSUME IInv, Around
  PROVE  IInv'
<1>0. reading \in BOOLEAN /\ queueFailed \in BOOLEAN /\ blocked \in BOOLEAN
  BY DEF IInv, PageOK
<1>1. ASSUME NEW p \in Parents, NEW q \in Props, TurnsStale(p, q) PROVE IInv'
  BY <1>0, <1>1, TurnsStaleGrows, AroundKeeps DEF TurnsStale, queries, IInv
<1>2. ASSUME NEW p \in Parents, Recovered(p) PROVE IInv'
  <2>1. LedgerGrows
    BY <1>2, ConstantsAssumption DEF Recovered, Marks, States, IInv, LedgerOK, VerBelow, LedgerGrows
  <2> QED
    BY <1>0, <1>2, <2>1, AroundKeeps DEF Recovered, queries
<1>3. CASE OtherRequest
  BY <1>0, <1>3, ElsewhereGrows, AroundKeeps DEF OtherRequest, IInv
<1>4. CASE BackendRestarts
  <2>1. LedgerGrows
    BY <1>4, ConstantsAssumption DEF BackendRestarts, IInv, LedgerOK, VerBelow, LedgerGrows
  <2> QED
    BY <1>0, <1>4, <2>1, AroundKeeps DEF BackendRestarts, queries
<1>5. CASE StatusRead
  <2>1. busy[parent] \in BOOLEAN
    BY <1>5 DEF StatusRead, IInv, LedgerOK, PageOK
  <2> QED
    BY <1>0, <1>5, <2>1, LedgerStill, AroundKeeps DEF StatusRead, queries, IInv
<1>6. CASE Reconnects
  BY <1>0, <1>6, LedgerStill, AroundKeeps DEF Reconnects, IInv
<1> QED
  BY <1>1, <1>2, <1>3, <1>4, <1>5, <1>6 DEF Around

-----------------------------------------------------------------------------
LEMMA InitHolds == Init => IInv
<1> SUFFICES ASSUME Init PROVE IInv
  OBVIOUS
<1>1. LedgerOK /\ VerBelow
  BY ConstantsAssumption DEF Init, LedgerOK, VerBelow, States
<1>2. NoRebind \in [Props -> 0..MaxRev] /\ 0 \in Offsets /\ "pending" \in Filters
  BY ConstantsAssumption DEF NoRebind, Offsets
<1>3. PageOK /\ NextFits /\ BindingIsOwn
  BY <1>2 DEF Init, PageOK, NextFits, BindingIsOwn
<1>4. OpOK /\ StepsFit /\ OwnView /\ RebindBound /\ SeenBelow /\ ShownIsNew
  BY DEF Init, OpOK, StepsFit, OwnView, RebindBound, SeenBelow, ShownIsNew
<1> QED
  BY <1>1, <1>3, <1>4 DEF IInv

LEMMA NextKeeps == IInv /\ [Next]_vars => IInv'
<1> SUFFICES ASSUME IInv, [Next]_vars PROVE IInv'
  OBVIOUS
<1>1. CASE User
  BY <1>1, MovesStep, BeginningsStep DEF User
<1>2. CASE OpStep
  BY <1>2, ValidatedStep, StageAnsweredStep, AnsweredStep, SettledStep DEF OpStep
<1>3. CASE Around
  BY <1>3, AroundStep
<1>4. CASE QueueReadFails \/ \E k \in Keys : QueueRead(k)
  BY <1>4, QueueReadStep, QueueReadFailsStep
<1>5. CASE UNCHANGED vars
  <2>1. LedgerGrows
    BY <1>5, LedgerStill DEF vars, IInv
  <2> QED
    BY <1>5, <2>1, AroundKeeps DEF vars, queries, IInv, PageOK
<1> QED
  BY <1>1, <1>2, <1>3, <1>4, <1>5 DEF Next

\* The invariant of the workbench holds in every behaviour.
THEOREM Invariance == Spec => []IInv
BY InitHolds, NextKeeps, PTL DEF Spec

(* Every variable keeps to its type: the view stays within the queue, the  *)
(* form holds a proposal of a parent or nothing.                           *)
THEOREM TypeCorrect == Spec => []TypeOK
<1>1. IInv => TypeOK
  BY DEF IInv, LedgerOK, PageOK, OpOK, TypeOK
<1> QED
  BY <1>1, Invariance, PTL

(* The page calls only a parent bound that the backend was given a source  *)
(* for, however the user moved between parents while rebinds were          *)
(* answered (BindingIsOwn).                                                *)
THEOREM OnlyOwnBinding == Spec => []BindingIsOwn
<1>1. IInv => BindingIsOwn
  BY DEF IInv
<1> QED
  BY <1>1, Invariance, PTL

(* A rebind that the page tells of shows what the ledger held at the       *)
(* rebind or later (RebindShowsAuthority): the page it waited for was read *)
(* since, and is of the parent that was rebound.                           *)
THEOREM RebindIsShown == Spec => RebindShowsAuthority
<1>1. ASSUME IInv, Next, op # None, op.step = "refresh", op.view = "here", Rethrows(op),
             op' = None, binding', form' # None
      PROVE  form'.of[1] = op.of /\ form'.base >= op.seen[form'.of[2]]
  <2>1. CASE Settled
    <3>1. ~op.awaits /\ Settle(op, op.result)
      BY <2>1 DEF Settled
    <3>2. op.result = "ok" /\ form' = Candidate(Observed, cache)
      BY <1>1, <3>1 DEF Settle
    <3>3. parent = op.of
      BY <1>1 DEF IInv, OwnView
    <3>4. PICK k \in Observed :
            /\ cache[k] # None /\ cache[k].prop \in Props
            /\ form' = [of |-> <<parent, cache[k].prop>>, base |-> cache[k].ver]
      BY <1>1, <3>2, CandidateFrom DEF Observed, IInv, PageOK
    <3>5. op.seen[cache[k].prop] <= cache[k].ver
      BY <1>1, <3>1, <3>2, <3>4 DEF IInv, ShownIsNew, Props, NoProp
    <3>6. form'.of[1] = op.of /\ form'.of[2] = cache[k].prop /\ form'.base = cache[k].ver
      BY <3>3, <3>4
    <3> QED
      BY <3>5, <3>6
  <2>2. CASE Leave
    BY <1>1, <2>2 DEF Leave
  <2>3. CASE ~Settled /\ ~Leave
    <3>0. op \in Ops /\ Moved \in Ops /\ op.step = "refresh"
      BY <1>1 DEF IInv, OpOK, Moved, Ops
    <3>1. ASSUME NEW res \in Results PROVE ReadEnds(res) \in Ops
      BY <3>0 DEF ReadEnds, Ops
    <3>2. CASE User
      <4>1. op' \in Ops
        BY <1>1, <2>3, <3>0, <3>2 DEF User, SelectParent, SelectFilter, PreviousCandidate,
           NextCandidate, Browse, PageReviews, Start, ExplicitRebind, Decide, BatchRun, Rollback,
           Begin, Ops
      <4> QED
        BY <1>1, <4>1, NoneAssumption
    <3>3. CASE OpStep
      BY <2>3, <3>0, <3>3 DEF OpStep, Validated, StageAnswered, Answered
    <3>4. CASE Around
      BY <1>1, <3>4 DEF Around, TurnsStale, Recovered, OtherRequest, BackendRestarts, StatusRead,
         Reconnects
    <3>5. CASE QueueReadFails \/ \E k \in Keys : QueueRead(k)
      <4>1. "failed" \in Results /\ op.result \in Results
        BY <3>0 DEF Results, Ops
      <4>2. op' \in Ops
        BY <3>1, <3>5, <4>1 DEF QueueReadFails, QueueRead
      <4> QED
        BY <1>1, <4>2, NoneAssumption
    <3> QED
      BY <1>1, <3>2, <3>3, <3>4, <3>5 DEF Next
  <2> QED
    BY <2>1, <2>2, <2>3
<1>2. IInv /\ [Next]_vars =>
        [(op # None /\ op.step = "refresh" /\ op.view = "here" /\ Rethrows(op)
          /\ op' = None /\ binding' /\ form' # None) =>
            (form'.of[1] = op.of /\ form'.base >= op.seen[form'.of[2]])]_vars
  BY <1>1
<1> QED
  BY <1>2, Invariance, PTL DEF Spec, RebindShowsAuthority

(* An operation whose view is gone starts nothing more (LeavingStopsIt).   *)
THEOREM NothingAfterLeaving == Spec => LeavingStopsIt
<1>1. ASSUME IInv, Next, op # None, op.view = "moved"
      PROVE  op' = None \/ op'.step \in {op.step, "refresh"}
  <2>0. op \in Ops
    BY <1>1 DEF IInv, OpOK
  <2>1. CASE User
    BY <1>1, <2>0, <2>1 DEF User, SelectParent, SelectFilter, PreviousCandidate,
       NextCandidate, Browse, Moved, PageReviews, Leave, Start, ExplicitRebind, Decide,
       BatchRun, Rollback, Begin, Ops
  <2>2. CASE OpStep
    <3>1. ASSUME NEW res \in Results, Answered(res)
          PROVE  op' = None \/ op'.step = "refresh"
      <4>1. Settle(op, res) => op' = None
        BY DEF Settle
      <4> QED
        BY <3>1, <4>1, <2>0 DEF Answered, Op
    <3> QED
      BY <1>1, <2>2, <3>1 DEF OpStep, Validated, StageAnswered, Settled, Settle
  <2>3. CASE Around
    BY <1>1, <2>3 DEF Around, TurnsStale, Recovered, OtherRequest, BackendRestarts, StatusRead,
       Reconnects
  <2>4. CASE QueueReadFails \/ \E k \in Keys : QueueRead(k)
    <3>1. PICK res : op' = ReadEnds(res)
      BY <2>4 DEF QueueReadFails, QueueRead
    <3> QED
      BY <1>1, <2>0, <3>1 DEF ReadEnds, Ops
  <2> QED
    BY <1>1, <2>1, <2>2, <2>3, <2>4 DEF Next
<1>2. IInv /\ [Next]_vars =>
        [op # None /\ op.view = "moved" => op' = None \/ op'.step \in {op.step, "refresh"}]_vars
  BY <1>1
<1> QED
  BY <1>2, Invariance, PTL DEF Spec, LeavingStopsIt
=============================================================================
