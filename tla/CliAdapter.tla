----------------------------- MODULE CliAdapter -----------------------------
(***************************************************************************)
(* The backend's use of the life-index CLI: CLIAdapter                     *)
(* (src/backend/adapter/cli_adapter.py) with the routers that write        *)
(* through it, above all the import workbench                              *)
(* (src/backend/routers/imports.py) and its transient store                *)
(* (src/backend/adapter/import_adapter.py).                                *)
(*                                                                         *)
(* The import routes share one adapter, so its write lock and its cached   *)
(* compatibility result span requests; the other routers make an adapter   *)
(* for each request.  A request is a coroutine: it gives way only when it  *)
(* awaits the CLI, the lock or the preview semaphore, so what it does      *)
(* between two of these is one action.  A lock or semaphore is granted in  *)
(* the order of arrival; a command ends by itself or at its timeout.       *)
(*                                                                         *)
(* The CLI is outside.  What is kept of its ledger is the source root a    *)
(* review is bound to, which stage and rebind change at some moment of     *)
(* their run, whatever becomes of their answer.  A command whose backend   *)
(* goes down may still finish.                                             *)
(***************************************************************************)
EXTENDS Naturals, Sequences, FiniteSets

CONSTANTS
  Requests,      \* slots for requests under way
  Plans,         \* import ids of plans
  Reviews,       \* import ids of staged reviews
  Roots,         \* source directories
  CompatTTL,     \* _COMPAT_CACHE_TTL_SECONDS, in ticks
  StoreTTL,      \* _TRANSIENT_TTL_SECONDS, in ticks
  PreviewLimit,  \* _PREVIEW_CONCURRENCY_LIMIT
  MaxLeft,       \* bound: commands that outlive their backend at a time
  None,          \* no id, no root, no entry
  Lost           \* the answer that never comes

ASSUME ConstantsAssumption ==
  /\ IsFiniteSet(Requests)
  /\ CompatTTL \in Nat \ {0} /\ StoreTTL \in Nat /\ PreviewLimit \in Nat \ {0} /\ MaxLeft \in Nat
  /\ Plans \cap Reviews = {}
  /\ None \notin Plans \cup Reviews \cup Roots \cup Requests \cup {Lost}
  /\ Lost \notin Requests

Ids == Plans \cup Reviews

Reads == {"read", "plan", "planStage"}    \* run_json
Locked == {"write", "stage", "rebind"}    \* run_serialized on the shared adapter
Unlocked == {"rollback", "journal"}       \* writes outside the shared lock
Writes == Locked \cup Unlocked
Binding == {"stage", "rebind"}
Kinds == Reads \cup Writes \cup {"preview"}

LocksButRebind(k) == k \in Locked \ {"rebind"}   \* mutant

(* The write lock of the shared adapter is taken by these. *)
Locks(k) == k \in Locked

(* A binding is a source root with the ticks since it was stored. *)
Entries == [root : Roots \cup {None}, age : 0..StoreTTL] \cup {None}

VARIABLES
  pc,          \* per request: what it awaits
  req,         \* per request: its kind, import id and source root
  since,       \* per request: ticks since it read the clock for its probe
  holder,      \* _write_lock: the request that has it
  queue,       \* ... and those that wait for it, in order
  slots,       \* _PREVIEW_CONCURRENCY: its value
  viewers,     \* ... and those that wait for it, in order
  cached,      \* ticks since _compat_cached_at; CompatTTL when it is not fresh
  store,       \* _transient_plan_store
  compatible,  \* external: the installed CLI is at or above the floor
  good,        \* history: ticks since it last was, up to CompatTTL
  bound,       \* external: the root the ledger binds an id to
  left,        \* external: commands that outlived their backend
  due          \* history: whose answer the last change of a binding awaits

local == <<pc, req, since>>
held == <<holder, slots>>
waits == <<queue, viewers>>
cli == <<compatible, good>>
ledger == <<bound, left, due>>
vars == <<local, held, waits, cached, store, cli, ledger>>

Request(k, i, x) == [kind |-> k, id |-> i, root |-> x]
NoRequest == Request("read", None, None)

Init ==
  /\ pc = [r \in Requests |-> "idle"]
  /\ req = [r \in Requests |-> NoRequest]
  /\ since = [r \in Requests |-> 0]
  /\ holder = None /\ queue = <<>>
  /\ slots = PreviewLimit /\ viewers = <<>>
  /\ cached = CompatTTL
  /\ store = [i \in Ids |-> None]
  /\ compatible \in BOOLEAN /\ good = IF compatible THEN 0 ELSE CompatTTL
  /\ bound = [i \in Reviews |-> None]
  /\ left = {}
  /\ due = [i \in Reviews |-> None]

-----------------------------------------------------------------------------
(* What a compatible CLI is asked next: a command that is under the lock   *)
(* or the semaphore queues for it, any other runs.                         *)
Admit(r, k) ==
  /\ pc' = [pc EXCEPT ![r] = IF Locks(k) THEN "queued" ELSE IF k = "preview" THEN "viewing" ELSE "running"]
  /\ queue' = IF Locks(k) THEN Append(queue, r) ELSE queue
  /\ viewers' = IF k = "preview" THEN Append(viewers, r) ELSE viewers
  /\ since' = [since EXCEPT ![r] = 0]

(* _ensure_cli_compatible: a fresh result admits, else the version is      *)
(* probed.  An adapter of its own has no result yet.                       *)
Ensure(r, k) ==
  IF k # "journal" /\ cached < CompatTTL
  THEN Admit(r, k)
  ELSE pc' = [pc EXCEPT ![r] = "probing"] /\ UNCHANGED <<since, waits>>

Begin(r, k, i, x) ==
  /\ pc[r] = "idle"
  /\ req' = [req EXCEPT ![r] = Request(k, i, x)]
  /\ Ensure(r, k)
  /\ UNCHANGED <<held, cached, store, cli, ledger>>

Previewing(r) == pc[r] = "running" /\ req[r].kind = "preview"

(* The request is answered; what it held is released.  One that waits for  *)
(* the lock or the semaphore is not answered.                              *)
Close(r) ==
  /\ pc' = [pc EXCEPT ![r] = "idle"]
  /\ req' = [req EXCEPT ![r] = NoRequest]
  /\ since' = [since EXCEPT ![r] = 0]
  /\ holder' = IF holder = r THEN None ELSE holder
  /\ slots' = IF Previewing(r) THEN slots + 1 ELSE slots

(* The routes.  Validation, lists, queues and status only read.  Only a    *)
(* photo plan has a source root.                                           *)
Read(r) == Begin(r, "read", None, None)
Plan(r, i, x) == Begin(r, "plan", i, x)
Stage(r, x) == Begin(r, "planStage", None, x)
Rebind(r, i, x) == bound[i] # None /\ Begin(r, "rebind", i, x)

(* Confirm-edit and the rollback of a child batch. *)
Edit(r) == Begin(r, "write", None, None)

(* A run needs the stored plan; a batch and a preview the stored root,     *)
(* which they are given.                                                   *)
HasRoot(i) == store[i] # None /\ store[i].root # None
Run(r, i) == store[i] # None /\ Begin(r, "write", None, None)
BatchRun(r, i) == HasRoot(i) /\ Begin(r, "write", None, None)
Preview(r, i) == HasRoot(i) /\ Begin(r, "preview", None, None)

(* The older rollback route runs its command without the lock. *)
Rollback(r) == Begin(r, "rollback", None, None)

(* Journals, entities and repairs: the lock is that of their own adapter. *)
WriteJournal(r) == Begin(r, "journal", None, None)

-----------------------------------------------------------------------------
(* The version probe answers: a positive result is cached with the time    *)
(* read before the probe.                                                  *)
ProbeAccepts(r) ==
  /\ pc[r] = "probing"
  /\ compatible
  /\ cached' = IF req[r].kind = "journal" THEN cached ELSE since[r]
  /\ Admit(r, req[r].kind)
  /\ UNCHANGED <<held, req, store, cli, ledger>>

ProbeRejectsCached(r) ==   \* mutant
  /\ pc[r] = "probing"
  /\ cached' = since[r]
  /\ Close(r)
  /\ UNCHANGED <<waits, store, cli, ledger>>

(* The CLI is too old, or the probe failed. *)
ProbeRejects(r) ==
  /\ pc[r] = "probing"
  /\ Close(r)
  /\ UNCHANGED <<waits, cached, store, cli, ledger>>

Take(r) ==
  /\ pc[r] = "queued"
  /\ holder = None /\ queue # <<>> /\ Head(queue) = r
  /\ holder' = r /\ queue' = Tail(queue)
  /\ pc' = [pc EXCEPT ![r] = "running"]
  /\ UNCHANGED <<req, since, slots, viewers, cached, store, cli, ledger>>

View(r) ==
  /\ pc[r] = "viewing"
  /\ slots > 0 /\ viewers # <<>> /\ Head(viewers) = r
  /\ slots' = slots - 1 /\ viewers' = Tail(viewers)
  /\ pc' = [pc EXCEPT ![r] = "running"]
  /\ UNCHANGED <<req, since, holder, queue, cached, store, cli, ledger>>

(* The reviews a binding command may change. *)
Names(c) == IF c.kind = "rebind" THEN {c.id}
            ELSE IF c.kind = "stage" THEN {i \in Reviews : bound[i] = None}
            ELSE {}

(* A binding command makes its change; the CLI names the review it stages. *)
Bind(r, i) ==
  /\ pc[r] = "running"
  /\ i \in Names(req[r])
  /\ pc' = [pc EXCEPT ![r] = "written"]
  /\ req' = [req EXCEPT ![r] = Request(req[r].kind, i, req[r].root)]
  /\ bound' = [bound EXCEPT ![i] = req[r].root]
  /\ due' = [due EXCEPT ![i] = r]
  /\ UNCHANGED <<since, held, waits, cached, store, cli, left>>

(* store_transient_plan *)
Stored(k, i, x) == IF k \in Binding \cup {"plan"} THEN [store EXCEPT ![i] = [root |-> x, age |-> 0]] ELSE store

(* The command ends and its answer is taken.  A plan that is to be staged  *)
(* goes on with the stage command, which checks the CLI anew.              *)
Planned(r) ==
  /\ pc[r] = "running" /\ req[r].kind = "planStage"
  /\ req' = [req EXCEPT ![r] = Request("stage", None, req[r].root)]
  /\ Ensure(r, "stage")
  /\ UNCHANGED <<held, cached, store, cli, ledger>>

Answer(r) ==
  /\ pc[r] = IF req[r].kind \in Binding THEN "written" ELSE "running"
  /\ req[r].kind # "planStage"
  /\ store' = Stored(req[r].kind, req[r].id, req[r].root)
  /\ due' = [i \in Reviews |-> IF due[i] = r THEN None ELSE due[i]]
  /\ Close(r)
  /\ UNCHANGED <<waits, cached, cli, bound, left>>

FailsHolding(r) ==   \* mutant
  /\ pc[r] \in {"running", "written"}
  /\ pc' = [pc EXCEPT ![r] = "idle"] /\ req' = [req EXCEPT ![r] = NoRequest]
  /\ UNCHANGED <<since, held, waits, cached, store, cli, ledger>>

FailsStored(r) ==   \* mutant
  /\ pc[r] \in {"running", "written"}
  /\ store' = IF req[r].id = None THEN store ELSE [store EXCEPT ![req[r].id] = [root |-> req[r].kind, age |-> 0]]
  /\ Close(r)
  /\ UNCHANGED <<waits, cached, cli, ledger>>

(* A non-zero exit, a timeout, or an answer that cannot be read.           *)
Fails(r) ==
  /\ pc[r] \in {"running", "written"}
  /\ Close(r)
  /\ due' = [i \in Reviews |-> IF due[i] = r THEN Lost ELSE due[i]]
  /\ UNCHANGED <<waits, cached, store, cli, bound, left>>

-----------------------------------------------------------------------------
(* Time passes.  An entry past its time is evicted before the next read.   *)
Older(n, ttl) == IF n < ttl THEN n + 1 ELSE n

Tick ==
  /\ since' = [r \in Requests |-> IF pc[r] = "probing" THEN Older(since[r], CompatTTL) ELSE since[r]]
  /\ cached' = Older(cached, CompatTTL)
  /\ store' = [i \in Ids |-> IF store[i] = None \/ store[i].age = StoreTTL THEN None
                            ELSE [root |-> store[i].root, age |-> store[i].age + 1]]
  /\ good' = IF compatible THEN 0 ELSE Older(good, CompatTTL)
  /\ UNCHANGED <<pc, req, held, waits, compatible, ledger>>

(* Another version of the CLI is installed. *)
Install ==
  /\ compatible' = ~compatible
  /\ good' = 0
  /\ UNCHANGED <<local, held, waits, cached, store, ledger>>

(* The backend goes down and comes up; a command that was running goes on. *)
Restart ==
  /\ pc' = [r \in Requests |-> "idle"]
  /\ req' = [r \in Requests |-> NoRequest]
  /\ since' = [r \in Requests |-> 0]
  /\ holder' = None /\ queue' = <<>>
  /\ slots' = PreviewLimit /\ viewers' = <<>>
  /\ cached' = CompatTTL
  /\ store' = [i \in Ids |-> None]
  /\ due' = [i \in Reviews |-> IF due[i] \in Requests THEN Lost ELSE due[i]]
  /\ left' = left \cup {req[r] : r \in {q \in Requests : pc[q] = "running" /\ req[q].kind \in Binding}}
  /\ Cardinality(left') <= MaxLeft
  /\ UNCHANGED <<cli, bound>>

Outlives(c, i) ==
  /\ i \in Names(c)
  /\ left' = left \ {c}
  /\ bound' = [bound EXCEPT ![i] = c.root]
  /\ due' = [due EXCEPT ![i] = Lost]
  /\ UNCHANGED <<local, held, waits, cached, store, cli>>

Dies(c) ==
  /\ left' = left \ {c}
  /\ UNCHANGED <<local, held, waits, cached, store, cli, bound, due>>

-----------------------------------------------------------------------------
Route(r) ==
  \/ Read(r) \/ Edit(r) \/ Rollback(r) \/ WriteJournal(r)
  \/ \E x \in Roots : Stage(r, x)
  \/ \E i \in Ids : Run(r, i) \/ BatchRun(r, i) \/ Preview(r, i)
  \/ \E i \in Reviews, x \in Roots : Rebind(r, i, x)
  \/ \E i \in Plans, x \in Roots \cup {None} : Plan(r, i, x)

Probe(r) == ProbeAccepts(r) \/ ProbeRejects(r)
Finish(r) == Planned(r) \/ Answer(r) \/ Fails(r)
Command(r) == Take(r) \/ View(r) \/ Finish(r) \/ \E i \in Reviews : Bind(r, i)
Outside == Tick \/ Install \/ Restart \/ \E c \in left : Dies(c) \/ \E i \in Reviews : Outlives(c, i)

Next == Outside \/ \E r \in Requests : Route(r) \/ Probe(r) \/ Command(r)

Spec == Init /\ [][Next]_vars

-----------------------------------------------------------------------------
Requested == [kind : Kinds, id : Ids \cup {None}, root : Roots \cup {None}]

TypeOK ==
  /\ pc \in [Requests -> {"idle", "probing", "queued", "viewing", "running", "written"}]
  /\ req \in [Requests -> Requested]
  /\ since \in [Requests -> 0..CompatTTL]
  /\ holder \in Requests \cup {None} /\ queue \in Seq(Requests)
  /\ slots \in Nat /\ viewers \in Seq(Requests)
  /\ cached \in 0..CompatTTL
  /\ store \in [Ids -> Entries]
  /\ compatible \in BOOLEAN /\ good \in 0..CompatTTL
  /\ bound \in [Reviews -> Roots \cup {None}]
  /\ left \subseteq Requested
  /\ due \in [Reviews -> Requests \cup {None, Lost}]

(* The root that batch runs and previews are given is the one the ledger   *)
(* binds the review to, unless the last change of the binding was never    *)
(* answered: rebinding requests are never stored in another order than the *)
(* CLI carried them out (import_rebind stores after the lock is released). *)
RootIsBound == \A i \in Reviews :
  bound[i] # None /\ due[i] = None /\ store[i] # None => store[i].root = bound[i]

(* A command is admitted only if the CLI was compatible less than the time *)
(* to live of a probe ago, however probes and installations interleave     *)
(* (_ensure_cli_compatible, "Fail closed before any feature CLI command    *)
(* below the GUI floor").                                                  *)
Admits(r) ==
  \/ pc'[r] \in {"queued", "viewing"} /\ pc'[r] # pc[r]
  \/ pc[r] \in {"idle", "probing"} /\ pc'[r] = "running"
AdmitsKnownCli == [][\A r \in Requests : Admits(r) => good < CompatTTL]_vars

(* The lock and the semaphore are held by commands that run, and by every  *)
(* such command: whatever way a command ends, what it held is free again,  *)
(* and two commands never hold the lock (run_serialized,                   *)
(* run_preview_bytes).                                                     *)
LockIsHeld == \A r \in Requests :
  pc[r] \in {"running", "written"} /\ Locks(req[r].kind) <=> holder = r
SlotsAreHeld == slots + Cardinality({r \in Requests : Previewing(r)}) = PreviewLimit
HeldByRunning == LockIsHeld /\ SlotsAreHeld

(* Write commands do not overlap (run_serialized, "Prevents concurrent CLI *)
(* writes from conflicting on CLI-maintained metadata").                   *)
Writing == {r \in Requests : pc[r] \in {"running", "written"} /\ req[r].kind \in Writes}
WritesSerialized == Cardinality(Writing) <= 1
=============================================================================
