--------------------------- MODULE ImportWorkbench ---------------------------
(***************************************************************************)
(* The review page of a historical-photo import:                           *)
(* src/src/app/routes/ImportWorkflow.tsx over the hooks of                 *)
(* src/src/hooks/useImports.ts.                                            *)
(*                                                                         *)
(* A staged parent is a queue of proposals that the CLI ledger owns.  The  *)
(* page shows one proposal at a time, through a cached copy of one queue   *)
(* page, edits it in a form kept in memory, and sends decisions with the   *)
(* queue revision it read last.  One operation runs at a time, but the     *)
(* user may move to another parent, filter or proposal while it runs, or   *)
(* leave the page; what comes back then belongs to a view that is gone.    *)
(* The code compares a generation number with the one the operation began  *)
(* with; here op.view says whether the two are still equal.                *)
(*                                                                         *)
(* The ledger and the backend are outside: they accept or refuse a         *)
(* request, and an answer may be lost after the request had its effect.    *)
(* Other windows and agents edit the same queues.  A page is read from the *)
(* ledger when its answer arrives: a read that is older differs only by    *)
(* edits of others, which may as well come just after it.                  *)
(***************************************************************************)
EXTENDS Naturals, FiniteSets

CONSTANTS
  Parents,    \* review parents
  NProps,     \* proposals of a parent: 1..NProps, in queue order
  Filters,    \* the states the user filters the queue by
  MaxRev,     \* bound: edits of all queues together
  None        \* no parent, no page, no operation

States == {"pending", "confirmed", "skipped", "stale", "batching", "imported"}

ASSUME ConstantsAssumption ==
  /\ NProps \in Nat \ {0} /\ MaxRev \in Nat
  /\ Filters \subseteq States /\ "pending" \in Filters
  /\ None \notin Parents

Props == 1..NProps
NoProp == 0
Offsets == 0..(NProps - 1)
Keys == Parents \X Filters \X Offsets
Pages == [rev : 0..MaxRev, prop : Props \cup {NoProp}, ver : 0..MaxRev,
          more : BOOLEAN, confirmed : BOOLEAN]
Forms == [of : Parents \X Props, base : 0..MaxRev]

Kinds == {"start", "rebind", "decide", "batch", "rollback"}
Steps == {"validate", "stage", "rebind", "write", "refresh"}
Results == {"ok", "already", "conflict", "blocked", "rebindRequired", "failed"}
Decisions == {"confirmed", "skipped", "pending"}
Frozen == {"batching", "imported"}

(* An operation under way.  A decision carries the proposal and the        *)
(* revision it was made with; seen is history, the versions of the         *)
(* proposals when a rebind was accepted.                                   *)
Ops == [kind : Kinds, step : Steps, of : Parents, view : {"here", "moved"},
        prop : Props \cup {NoProp}, decision : Decisions, expect : 0..MaxRev,
        awaits : BOOLEAN, result : Results, seen : [Props -> 0..MaxRev]]

ASSUME NoneAssumption == None \notin Pages \cup Forms \cup Ops

(* The refetch a rebind waits for makes the rebind fail when it fails. *)
Rethrows(o) == o.kind \in {"start", "rebind"}

VARIABLES
  rev, st, ver,   \* external: revision of a queue, state and version of its proposals
  busy,           \* external: a child batch is active or wants recovery
  staged,         \* external: parents that exist
  bound,          \* external: parents with a source root in the backend's memory
  everBound,      \* history: parents that ever had one
  rebound,        \* history: versions of the proposals at the rebind that bound the shown parent
  parent, filter, offset,   \* the view: activeParentId, filter, offset
  binding,        \* sourceBindingAvailable
  form,           \* the proposal the form was filled from, and its version then
  cache,          \* per queue page: the last answer
  reading,        \* the shown queue page is being read
  queueFailed,    \* the shown queue page has an answer, and the last read failed
  blocked,        \* authorityBlocked: the last status of the shown parent
  op              \* the operation that runs

ledger == <<rev, st, ver, busy, staged, bound, everBound>>
view == <<parent, filter, offset>>
page == <<view, binding, rebound, form>>
queries == <<cache, reading, queueFailed>>
vars == <<ledger, page, queries, blocked, op>>

NoRebind == [q \in Props |-> 0]

Init ==
  /\ rev = [p \in Parents |-> 0]
  /\ st = [p \in Parents |-> [q \in Props |-> "pending"]]
  /\ ver = [p \in Parents |-> [q \in Props |-> 0]]
  /\ busy = [p \in Parents |-> FALSE]
  /\ staged \in SUBSET Parents /\ bound = {} /\ everBound = {}
  /\ parent = None /\ filter = "pending" /\ offset = 0
  /\ binding = FALSE /\ rebound = NoRebind /\ form = None
  /\ cache = [k \in Keys |-> None] /\ reading = FALSE /\ queueFailed = FALSE
  /\ blocked = FALSE
  /\ op = None

-----------------------------------------------------------------------------
(* The queue page of a key as the ledger answers it: the proposal at the   *)
(* offset among those in the filter's state, the order of ids being the    *)
(* order of the queue.                                                     *)
At(p, f, n) ==
  LET Here == {q \in Props : st[p][q] = f
                               /\ Cardinality({r \in Props : r < q /\ st[p][r] = f}) = n}
  IN  IF Here = {} THEN NoProp ELSE CHOOSE q \in Here : TRUE

PageOf(k) ==
  LET q == At(k[1], k[2], k[3])
  IN  [rev |-> rev[k[1]], prop |-> q, ver |-> IF q = NoProp THEN 0 ELSE ver[k[1]][q],
       more |-> k[3] + 1 \in Offsets /\ At(k[1], k[2], k[3] + 1) # NoProp,
       confirmed |-> \E r \in Props : st[k[1]][r] = "confirmed"]

(* The key the page observes; there is none before a parent is chosen. *)
Active(p, f, n) == IF p = None THEN {} ELSE {<<p, f, n>>}
Observed == Active(parent, filter, offset)
Known(ks) == \E k \in ks : cache[k] # None

(* What the form is filled with from the page that is shown. *)
CandidateOfEmpty(ks, c) ==   \* mutant
  IF \E k \in ks : c[k] # None
  THEN LET k == CHOOSE k \in ks : TRUE
       IN  [of |-> <<k[1], c[k].prop>>, base |-> c[k].ver]
  ELSE None

Candidate(ks, c) ==
  IF \E k \in ks : c[k] # None /\ c[k].prop # NoProp
  THEN LET k == CHOOSE k \in ks : TRUE
       IN  [of |-> <<k[1], c[k].prop>>, base |-> c[k].ver]
  ELSE None

SameProposal(f, g) ==
  IF f = None \/ g = None THEN f = g ELSE f.of = g.of

(* The render and its effect: the form is filled when the candidate is     *)
(* another proposal than the form's, and is left alone when it is the same *)
(* one, whatever has changed in it.                                        *)
Render(ks, c) ==
  LET new == Candidate(ks, c)
  IN  form' = IF SameProposal(form, new) THEN form ELSE new

(* The view moves; another queue page is read again though it may be       *)
(* cached, and what is cached of it is shown meanwhile.  Whether the last  *)
(* read of that page had failed is not kept: it may have.                  *)
MoveTo(p, f, n) ==
  /\ parent' = p /\ filter' = f /\ offset' = n
  /\ reading' = (reading \/ Active(p, f, n) # Observed)
  /\ blocked' = (blocked /\ p = parent)
  /\ Render(Active(p, f, n), cache)
  /\ IF Active(p, f, n) = Observed THEN UNCHANGED queueFailed
     ELSE queueFailed' \in {FALSE, Known(Active(p, f, n))}
  /\ UNCHANGED cache

Moved == IF op = None THEN None ELSE [op EXCEPT !.view = "moved", !.awaits = FALSE]

(* activateParent, and a click on a job of the review list. *)
Activate(p, available) ==
  MoveTo(p, filter, 0) /\ binding' = available /\ rebound' = NoRebind

SelectParentBound(p) ==   \* mutant
  /\ p \in staged /\ parent # p
  /\ Activate(p, TRUE) /\ op' = Moved
  /\ UNCHANGED ledger

SelectParent(p) ==
  /\ p \in staged /\ parent # p
  /\ Activate(p, FALSE) /\ op' = Moved
  /\ UNCHANGED ledger

(* The six filter buttons and the two candidate buttons. *)
Browse(f, n) ==
  /\ parent # None
  /\ MoveTo(parent, f, n)
  /\ op' = Moved
  /\ UNCHANGED <<ledger, binding, rebound>>

SelectFilter(f) == (filter # f \/ offset # 0) /\ Browse(f, 0)
PreviousCandidate == offset > 0 /\ Browse(filter, offset - 1)
NextCandidate ==
  /\ \E k \in Observed : cache[k] # None /\ cache[k].more
  /\ Browse(filter, offset + 1)

(* The buttons under the review list: what is shown stays as it is, but it  *)
(* counts as another view.                                                 *)
PageReviews ==
  /\ op # None /\ op' = [op EXCEPT !.view = "moved"]
  /\ UNCHANGED <<ledger, page, queries, blocked>>

(* The page is left: its state is gone and nothing waits for an answer.  A *)
(* request that is out stays out, as one more that is not of this page.    *)
Leave ==
  /\ parent' = None /\ filter' = "pending" /\ offset' = 0
  /\ binding' = FALSE /\ rebound' = NoRebind /\ form' = None
  /\ op' = None
  /\ reading' = FALSE /\ queueFailed' = FALSE /\ blocked' = FALSE
  /\ UNCHANGED <<ledger, cache>>

(* An operation waits for the read of the shown page that it asked for.    *)
(* The read of a page that was left ends in its own time: it would cache   *)
(* what a read before leaving would, or something newer.                   *)
ReadEnds(res) ==
  IF op # None /\ op.awaits THEN [op EXCEPT !.awaits = FALSE, !.result = res] ELSE op

(* The shown queue page is read, or the read fails, which makes a rebind   *)
(* that waits for it fail.                                                 *)
QueueRead(k) ==
  /\ reading /\ k \in Observed
  /\ reading' = FALSE /\ queueFailed' = FALSE
  /\ cache' = [cache EXCEPT ![k] = PageOf(k)]
  /\ Render(Observed, cache')
  /\ op' = ReadEnds(op.result)
  /\ UNCHANGED <<ledger, view, binding, rebound, blocked>>

ReadFailsQuietly ==   \* mutant
  /\ reading
  /\ reading' = FALSE /\ queueFailed' = Known(Observed)
  /\ op' = ReadEnds(op.result)
  /\ UNCHANGED <<ledger, page, cache, blocked>>

QueueReadFails ==
  /\ reading
  /\ reading' = FALSE /\ queueFailed' = Known(Observed)
  /\ op' = ReadEnds(IF Rethrows(op) THEN "failed" ELSE op.result)
  /\ UNCHANGED <<ledger, page, cache, blocked>>

(* The shown page is read again when the network is back. *)
Reconnects ==
  /\ parent # None /\ reading' = TRUE
  /\ UNCHANGED <<ledger, page, cache, queueFailed, blocked, op>>

(* The status of the chosen parent is read, at any time after it is chosen. *)
StatusRead ==
  /\ parent # None
  /\ blocked' = busy[parent]
  /\ UNCHANGED <<ledger, page, queries, op>>

-----------------------------------------------------------------------------
(* An operation begins: beginCoordinatorOperation lets one in at a time. *)
Begin(o) ==
  /\ op = None
  /\ op' = o
  /\ UNCHANGED <<ledger, page, queries, blocked>>

Op(kind, step, p) ==
  [kind |-> kind, step |-> step, of |-> p, view |-> "here", prop |-> NoProp,
   decision |-> "pending", expect |-> 0,
   awaits |-> FALSE, result |-> "ok", seen |-> [q \in Props |-> 0]]

(* handleStartReview, for the source of parent p, and handleExplicitRebind. *)
Start(p) == Begin(Op("start", "validate", p))
ExplicitRebind == parent # None /\ Begin(Op("rebind", "validate", parent))

(* submitDecision, on the proposal that is shown and editable, with the    *)
(* revision of the page as it is now.  Confirming sends the form along.    *)
Decide(d) ==
  \E k \in Observed :
    /\ cache[k] # None /\ cache[k].prop # NoProp /\ ~queueFailed
    /\ k[2] \notin Frozen /\ (d = "pending" => k[2] # "pending")
    /\ ~blocked
    /\ Begin([Op("decide", "write", parent) EXCEPT !.prop = cache[k].prop, !.decision = d,
                                                   !.expect = cache[k].rev])

(* handleBatchRun and handleRollback. *)
BatchRun ==
  /\ binding /\ parent # None /\ ~blocked
  /\ \E k \in Observed : cache[k] # None /\ cache[k].confirmed
  /\ Begin(Op("batch", "write", parent))
Rollback ==
  /\ parent # None
  /\ Begin(Op("rollback", "write", parent))

-----------------------------------------------------------------------------
(* What the backend and the ledger do with a request, and answer. *)
Marks(p, now, then) == [st EXCEPT ![p] = [q \in Props |-> IF @[q] = now THEN then ELSE @[q]]]

(* Every edit gives its queue a new revision.  The page only compares       *)
(* revisions of one queue, so they are numbered over all of them.          *)
Advance(p) ==
  \E n \in 1..MaxRev : /\ \A r \in Parents : rev[r] < n
                       /\ \E r \in Parents : rev[r] = n - 1
                       /\ rev' = [rev EXCEPT ![p] = n]
MayAdvance(p) == UNCHANGED rev \/ Advance(p)

Binds(p) ==
  /\ bound' = bound \cup {p} /\ everBound' = everBound \cup {p}

(* A stage creates the parent, unless it exists. *)
Stages(o) ==
  /\ o.of \notin staged
  /\ staged' = staged \cup {o.of} /\ Binds(o.of)
  /\ UNCHANGED <<rev, st, ver, busy>>

(* A rebind may find other content behind some of the proposals. *)
Rebinds(o) ==
  /\ o.of \in staged /\ Binds(o.of)
  /\ \E R \in SUBSET Props :
       /\ IF R = {} THEN UNCHANGED rev ELSE Advance(o.of)
       /\ ver' = [ver EXCEPT ![o.of] = [q \in Props |-> IF q \in R THEN rev'[o.of] ELSE @[q]]]
  /\ UNCHANGED <<st, busy, staged>>

(* An edit is accepted at the revision it expects, outside a batch. *)
Edits(o) ==
  /\ o.expect = rev[o.of] /\ ~busy[o.of] /\ st[o.of][o.prop] \notin Frozen
  /\ Advance(o.of)
  /\ st' = [st EXCEPT ![o.of][o.prop] = o.decision]
  /\ ver' = IF o.decision = "confirmed" THEN [ver EXCEPT ![o.of][o.prop] = rev'[o.of]] ELSE ver
  /\ UNCHANGED <<busy, staged, bound, everBound>>

(* A batch imports what is confirmed, or is interrupted. *)
Runs(o, done) ==
  /\ o.of \in bound /\ ~busy[o.of] /\ MayAdvance(o.of)
  /\ st' = Marks(o.of, "confirmed", IF done THEN "imported" ELSE "batching")
  /\ busy' = [busy EXCEPT ![o.of] = ~done]
  /\ UNCHANGED <<ver, staged, bound, everBound>>

RollsBack(o) ==
  /\ \E q \in Props : st[o.of][q] = "imported"
  /\ MayAdvance(o.of)
  /\ st' = Marks(o.of, "imported", "pending")
  /\ UNCHANGED <<ver, busy, staged, bound, everBound>>

Effect(o) ==
  \/ o.step = "stage" /\ Stages(o)
  \/ o.step = "rebind" /\ Rebinds(o)
  \/ o.kind = "decide" /\ Edits(o)
  \/ o.kind = "batch" /\ Runs(o, TRUE)
  \/ o.kind = "rollback" /\ RollsBack(o)

Refused(o, res) ==
  \/ res = "already" /\ o.step = "stage" /\ o.of \in staged
  \/ res = "conflict" /\ o.kind = "decide" /\ o.expect # rev[o.of]
  \/ res = "blocked" /\ o.kind \in {"decide", "batch"} /\ busy[o.of]
  \/ res = "rebindRequired" /\ (o.kind = "decide" \/ (o.kind = "batch" /\ o.of \notin bound))
  \/ res = "failed"

(* The answer is that of the effect, or of a refusal, or is lost.          *)
Served(o, res) ==
  \/ res \in {"ok", "failed"} /\ Effect(o)
  \/ res = "failed" /\ o.kind = "batch" /\ Runs(o, FALSE)
  \/ Refused(o, res) /\ UNCHANGED ledger

-----------------------------------------------------------------------------
(* The answers after which a hook reads the ledger again before it settles: *)
(* the shown page, when that is the page or parent the operation was for.  *)
Refreshes(o, res) ==
  \/ o.step = "rebind" /\ res = "ok"
  \/ o.kind = "decide" /\ res \in {"ok", "conflict", "blocked"}
  \/ o.kind = "batch"
  \/ o.kind = "rollback" /\ res = "ok"

(* The source root was read, or was not readable. *)
ValidatedAnyway(readable) ==   \* mutant
  /\ op # None /\ op.step = "validate"
  /\ op' = IF readable
           THEN [op EXCEPT !.step = IF op.kind = "start" THEN "stage" ELSE "rebind"] ELSE None
  /\ UNCHANGED <<ledger, page, queries, blocked>>

Validated(readable) ==
  /\ op # None /\ op.step = "validate"
  /\ op' = IF readable /\ op.view = "here"
           THEN [op EXCEPT !.step = IF op.kind = "start" THEN "stage" ELSE "rebind"] ELSE None
  /\ UNCHANGED <<ledger, page, queries, blocked>>

(* A stage is answered: the page turns to the new parent, or to the one    *)
(* that exists already, which it then rebinds.                             *)
StageAnswered(res) ==
  /\ op # None /\ op.step = "stage"
  /\ Served(op, res)
  /\ IF op.view = "here" /\ res = "ok"
     THEN Activate(op.of, TRUE) /\ op' = None
     ELSE IF op.view = "here" /\ res = "already"
     THEN Activate(op.of, FALSE) /\ op' = [op EXCEPT !.step = "rebind"]
     ELSE op' = None /\ UNCHANGED <<page, queries, blocked>>

(* What the page makes of a settled operation, if its view is still there. *)
Settle(o, res) ==
  /\ op' = None
  /\ binding' = IF o.view # "here" THEN binding
                ELSE IF Rethrows(o) THEN res = "ok"
                ELSE binding /\ res # "rebindRequired"
  /\ IF o.view = "here" /\ Rethrows(o) /\ res = "ok"
     THEN form' = Candidate(Observed, cache) /\ rebound' = o.seen
     ELSE UNCHANGED form /\ rebound' = IF binding' THEN rebound ELSE NoRebind
  /\ UNCHANGED view

(* A rebind or a write is answered. *)
Answered(res) ==
  /\ op # None /\ op.step \in {"rebind", "write"}
  /\ Served(op, res)
  /\ IF Refreshes(op, res)
     THEN /\ op' = [Op(op.kind, "refresh", op.of) EXCEPT
                       !.view = op.view, !.result = res, !.awaits = op.view = "here",
                       !.seen = IF op.step = "rebind" THEN ver'[op.of] ELSE @]
          /\ reading' \in IF op.view = "here" THEN {TRUE} ELSE {reading, parent # None}
          /\ UNCHANGED page
     ELSE Settle(op, res) /\ UNCHANGED reading
  /\ UNCHANGED <<cache, queueFailed, blocked>>

(* What it waited for has been read, whether that is still shown or not. *)
SettledHere ==   \* mutant
  /\ op # None /\ op.step = "refresh" /\ ~op.awaits /\ op.view = "here"
  /\ Settle(op, op.result)
  /\ UNCHANGED <<ledger, queries, blocked>>

Settled ==
  /\ op # None /\ op.step = "refresh" /\ ~op.awaits
  /\ Settle(op, op.result)
  /\ UNCHANGED <<ledger, queries, blocked>>

-----------------------------------------------------------------------------
(* The surroundings: another window, an agent, or a request whose page was *)
(* left changes the ledger; its hook may have the shown page read again.   *)
(* The content of a proposal changes without a request when its source     *)
(* does.  An interrupted batch is recovered, and the backend restarts.     *)
Elsewhere ==
  \/ \E p \in Parents, s \in {"stage", "rebind"} : Effect(Op("start", s, p))
  \/ \E p \in Parents, q \in Props, d \in Decisions :
       Effect([Op("decide", "write", p) EXCEPT !.prop = q, !.decision = d, !.expect = rev[p]])
  \/ \E p \in Parents, k \in {"batch", "rollback"} : Effect(Op(k, "write", p))

OtherRequest ==
  /\ Elsewhere
  /\ reading' \in {reading, parent # None}
  /\ UNCHANGED <<page, cache, queueFailed, blocked, op>>

TurnsStale(p, q) ==
  /\ p \in staged /\ ~busy[p] /\ st[p][q] \notin Frozen
  /\ Advance(p)
  /\ st' = [st EXCEPT ![p][q] = "stale"]
  /\ ver' = [ver EXCEPT ![p][q] = rev'[p]]
  /\ UNCHANGED <<busy, staged, bound, everBound, page, queries, blocked, op>>

Recovered(p) ==
  /\ busy[p]
  /\ busy' = [busy EXCEPT ![p] = FALSE]
  /\ st' = Marks(p, "batching", "imported")
  /\ UNCHANGED <<rev, ver, staged, bound, everBound, page, queries, blocked, op>>

BackendRestarts ==
  /\ bound' = {}
  /\ UNCHANGED <<rev, st, ver, busy, staged, everBound, page, queries, blocked, op>>

User ==
  \/ \E p \in Parents : SelectParent(p) \/ Start(p)
  \/ \E f \in Filters : SelectFilter(f)
  \/ \E d \in Decisions : Decide(d)
  \/ PreviousCandidate \/ NextCandidate \/ PageReviews \/ Leave
  \/ ExplicitRebind \/ BatchRun \/ Rollback

OpStep ==
  \/ \E readable \in BOOLEAN : Validated(readable)
  \/ \E res \in Results : StageAnswered(res) \/ Answered(res)
  \/ Settled

Around ==
  \/ \E p \in Parents, q \in Props : TurnsStale(p, q)
  \/ \E p \in Parents : Recovered(p)
  \/ OtherRequest \/ BackendRestarts \/ StatusRead \/ Reconnects

Next ==
  \/ User \/ OpStep \/ Around
  \/ \E k \in Keys : QueueRead(k)
  \/ QueueReadFails

Spec == Init /\ [][Next]_vars

(* Every request is answered or fails, the code after it runs, and a read  *)
(* ends; the user and the surroundings owe nothing.                        *)
FairSpec ==
  /\ Spec
  /\ WF_vars(OpStep)
  /\ WF_vars(QueueReadFails \/ \E k \in Keys : QueueRead(k))

-----------------------------------------------------------------------------
TypeOK ==
  /\ rev \in [Parents -> 0..MaxRev]
  /\ st \in [Parents -> [Props -> States]]
  /\ ver \in [Parents -> [Props -> 0..MaxRev]]
  /\ busy \in [Parents -> BOOLEAN]
  /\ staged \subseteq Parents /\ bound \subseteq Parents /\ everBound \subseteq Parents
  /\ parent \in Parents \cup {None} /\ filter \in Filters /\ offset \in Offsets
  /\ binding \in BOOLEAN /\ rebound \in [Props -> 0..MaxRev] /\ form \in Forms \cup {None}
  /\ cache \in [Keys -> Pages \cup {None}]
  /\ reading \in BOOLEAN /\ queueFailed \in BOOLEAN /\ blocked \in BOOLEAN
  /\ op \in Ops \cup {None}

(* The page offers the operations that need the photo source only for a    *)
(* parent the backend was given a source for: an answer to a rebind of one *)
(* parent never makes another, chosen meanwhile, look bound.               *)
BindingIsOwn == binding => parent \in everBound

(* A page that says the source is bound again shows what the ledger holds  *)
(* since the rebind: the form under the message is of that parent, and not *)
(* older.                                                                  *)
RebindShowsAuthority ==
  [][(op # None /\ op.step = "refresh" /\ op.view = "here" /\ Rethrows(op)
       /\ op' = None /\ binding' /\ form' # None) =>
        (form'.of[1] = op.of /\ form'.base >= op.seen[form'.of[2]])]_vars

(* Once the user has moved to another view an operation sends nothing      *)
(* more: what is out is answered, and no step follows it.                  *)
LeavingStopsIt ==
  [][op # None /\ op.view = "moved" => op' = None \/ op'.step \in {op.step, "refresh"}]_vars

(* An operation ends, and with it the page's refusal to start another,     *)
(* wherever the user went while it ran.                                    *)
OperationsEnd == op # None ~> op = None

(* A rebound parent's proposals are filled in again from the ledger        *)
(* (ImportWorkflow.test.tsx:433): while the source is bound, no form holds *)
(* content from before the rebind.                                         *)
RebindRehydrates ==
  binding /\ op = None /\ ~reading /\ form # None => form.base >= rebound[form.of[2]]
=============================================================================
