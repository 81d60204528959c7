# A formal model of the Life Index GUI

This directory holds TLA+ models of the Life Index GUI, the TLC configurations that check
them on small instances, and TLAPS proofs of their main properties for every value of the
constants. Paths in this document are relative to the repository root; `PROJECT.json` maps
every definition to the lines it stands for.

The GUI is a layer over another program, the `life-index` CLI, which alone reads and writes
the user's journals. What the GUI adds, and what is hard about it, is coordination: threads
and coroutines that share a few variables, processes that outlive the call that started them,
answers that arrive after the user has moved on, and drafts that must survive all of it. That
is what the models are about. Rendering, formatting and the CLI's own data are not.

Contents: 1 inventory, 2 modules and the code, 3 runs and bounds, 4 fairness, 5 what is
proved, 6 what the code does not keep, 7 what is only checked and what is not modelled,
8 the plan, 9 how to run.

## 1. Inventory

**Neutral session guard** (`host_agent_bridge/session_guard.py`). State: a table of request
records (digest, in-flight flag, waiter count, wake event, terminal), a closed flag, one lock.
Operations: `invoke`, `cancel`, `release`, `close`, called by threads of the bridge. A call
with a known id joins the running one, returns the recorded terminal, or is refused if its
content differs. Hard: waiters sleep outside the lock and may return to a table that has
dropped or replaced their record; a cancel overtakes the owner; the table is bounded. Correct
when: one request is dispatched once, everybody gets the terminal of their own request, nobody
sleeps for ever, the bound holds.

**Temporary public link** (`backend/routers/public_link.py`, the tunnel script under
`scripts/`). State: module globals for the active tunnel, the start job, the expiry timer and
the one-time codes; operating system processes. Operations: start, job status, stop, status,
events, expiry. Hard: the lock covers single assignments only, so every check-then-act is a
race of request threads, workers and timers; the script is killed at a timeout, its detached
children are not. Correct when: what is shown as ready is the link that runs, a failed start
leaves nothing exposed, codes do not outlive their link, and every start is answered.

**Host agent conversation** (`src/src/hooks/useHostAgent.ts`, `src/src/lib/api-client.ts`,
`backend/routers/host_agent.py`). State: the turns of the conversation, the active request
with its abort controller and its terminal, the frames under way. Operations: ask, cancel,
reset, leave, timeout, and each frame. Hard: frames of a replaced question still arrive, the
abort of a timeout looks like a cancel, the final frame and the cancel cross. Correct when:
the page shows the last question's answer, only the last can be open, and every turn settles.

**Journal editor and its draft.** Three parts. The *draft* of the write page
(`src/src/app/routes/TheCore.tsx`, `src/src/stores/journal-draft.ts`,
`src/src/lib/journal-draft-cache.ts`, `src/src/hooks/useJournals.ts`): one draft store for all
write pages, a slot per scope in the browser's storage, refs of the mounted page, the query
cache; open, leave, refresh, edit, save in its steps, the weather query, and late answers of
each. The *metadata drawer* (`src/src/components/editor/MetadataSidebar.tsx`): the request to
the host agent with a snapshot of the draft, the review of its answer, a cached record of the
last one. *Editing in place* (`src/src/app/routes/JournalDetail.tsx`, `edit_journal` in
`backend/routers/journals.py`): the URL, the snapshot and the draft of the mounted page, the
save with its refresh. Hard: effects that run with the state of the journal before, resets
after an `await`, answers that close over an old draft or come when another one is open,
other programs that write the file meanwhile. Correct when: what was typed and not saved
survives a refresh, an agent's proposal fills only what is still empty in the draft it was made
for, what is displayed is the journal at the URL, and a save undoes nobody else's change.

**CLI adapter** (`backend/adapter/cli_adapter.py`) and **import workbench**
(`backend/routers/imports.py`, `backend/adapter/import_adapter.py`). State: a write lock and a
cached compatibility result per adapter, a semaphore for previews, and the transient store of
plans and source roots, in memory with a time to live. Operations: each route is a request
that passes the version gate, waits for the lock or the semaphore, runs a command and stores
what it answered. Hard: failures while something is held, a gate that trusts an old result,
two rebinds whose answers could be stored in another order than they were carried out,
restarts that leave a command running. Correct when: nothing is leaked, the stored root is
the bound one, old CLIs are refused, writes do not overlap.

**Bridge runtime** (`host_agent_bridge/server.py`). State of a request: the command's process
group, two line readers and a queue, a task that waits for the exit, a deadline, the clean-up,
the terminal envelope. Hard: the command's end, its last lines, the deadline and the client's
departure race; a descendant may hold the pipes or ignore a signal. Correct when: a request
ends, with one envelope, an answer is the output of a successful command, and the process and
what it started are gone.

**Codex CLI adapter** (`host_agent_bridge/codex_cli_adapter.py`). State: per request a process
and its run directory; the configuration, which its owner may change; the one trace file. Hard:
requests that run at once share the trace file, and the health check reads the same
configuration in another place than they do. Correct when: the trace belongs to the one answer
it records, and what health calls ready is not refused as unconfigured.

**HTTP SSE driver** (`http_sse_driver.py`). An endpoint lease over HTTP. Only the conformance
tools use it; the bridge does not select it. Not modelled.

**Neutral contract** (`neutral_contract.py`, `neutral_vectors.py`). Validation of one object
at a time; no state. The guard sees it as accepted or refused. Not modelled.

**Import workflow page** (`src/src/app/routes/ImportWorkflow.tsx`,
`src/src/hooks/useImports.ts`). State: the shown review, filter and offset with a generation
number, whether the source is bound, the form, one flag for an operation under way; the query
cache, a page of the queue per filter and offset. Operations: start, rebind, decide, batch run,
roll back, and moving about. Hard: the user moves on while an operation runs, its answer comes
to another view; the form is filled from cached pages; a read after an accepted change fails.
Correct when: what it says of a review is true of that review, an operation whose view is gone
does nothing more, and the page always accepts the next one.

**Operations stack** (`scripts/lib/agent-ops-stack.mjs`, `remote-link.mjs`, `dev-backend.mjs`,
`stop-all.mjs`, `verify-stack.mjs`). State: the operating system's processes and ports, the
recorded control backend, the children of the command that runs. Operations: verify the stack,
start and stop a remote link, stop everything, develop. Hard: owners of a port change between
listing and signal, other programs sit on the ports, two shells share a bridge, a launch or a
stop fails half-way. Correct when: no program of others is signalled, a bridge that is merely
reused stays, and what a command says of what still runs is so.

**Upgrade atom** (`scripts/lib/gui-upgrade-atom.mjs`, `sync-skill.mjs`). State: none of its own;
it looks at a checkout with ten probes, each of which may fail, and gives a verdict; the skill is
written where one is found. Hard: faults and failures in combination, a checkout that changes
meanwhile, a registry whose owner files the skill away. Correct when: a checkout that its owner
has to resolve is never called fit for replacement, and there is one skill.

**Entity curation** (`src/src/app/routes/EntityGraph.tsx`, `src/src/hooks/useJournals.ts`,
`backend/routers/entities.py`). State: the request asked for, its preview, its acceptance, the
confirmation, the list and its fetch; the CLI's graph. Hard: a preview asked for while another is
shown, fetches overtaken by a write, other programs that write. Correct when: what is confirmed
is what is shown, and what is shown after a write follows it.

**Data doctor** (`src/src/app/routes/IndexDiagnostics.tsx`, `DataDoctorRepairPanel.tsx`,
`src/src/hooks/useMaintenanceRepair.ts`, `backend/routers/maintenance.py`). State: the selected
issue with its plan, dry run, tick, applied repair and post-check; the audit and its fetches.
Hard: a second apply, another issue picked while one runs, audits that overtake each other.
Correct when: a repair is applied over the dry run it was ticked for, and a post-check judges an
audit made after the repair.

**Backend application** (`backend/main.py`, `backend/public_link_auth.py`). A decision per
request; its only state is the one-time codes, which PublicLink holds. A code is exchanged
without an `await`, so that nothing interleaves. Not modelled.

**Other routers and pages.** One call of the CLI each and a reshaping of its answer, or
rendering of one query. The routers' writes appear in CliAdapter; the rest is not modelled.

Interactions: the page calls the backend over HTTP; the backend relays conversations to the
bridge, which guards its calls with the session guard and reaches the agent through a driver;
the backend calls the CLI through the adapter; the public link exposes the same backend. The
parts meet only at these calls, so each model takes its neighbours as unrestricted: the relay
may send any frames, the binding may answer or fail in any way, the CLI may succeed, fail,
time out or be replaced. What is shown of a part holds whatever the others do.
Where parts share nothing but the program they belong to, the composing modules (`Bridge`,
`Operations`, `Maintenance`, `Writing`) are sums: a behaviour is of one adapter, kind of script,
route or page, chosen at the start, as the code chooses it by a name, a command or a URL.

## 2. Modules and the code

| Module | Stands for |
| --- | --- |
| `RequestLedger` | abstract: each request id gets one verdict, everyone who asks hears it |
| `SessionGuard` | the session guard, one action per critical section |
| `PublicLink` | the public link's routes, workers, timers and processes |
| `HostAgentStream` | the hook, its stream loop and the backend's relay |
| `JournalDraft` | the write page over its store, its cache and the network |
| `MetadataDrawer` | the drawer's request, its answer and the drafts it may fill |
| `JournalEdit` | the detail page: reading, editing, saving, refreshing, moving on |
| `Writing` | the three above: which page is shown |
| `CommandRuntime` | the bridge's reference command: processes, readers, deadline, clean-up |
| `CodexAdapter` | the bridge's Codex requests, health check and trace file |
| `Bridge` | the two above: which adapter is configured |
| `EntityCuration` | the entity page's mutations over the CLI's graph |
| `DataDoctor` | the repair panel, its queries and its post-check |
| `Maintenance` | the two above: which route is shown |
| `AgentOps` | the stack's commands over processes and ports |
| `GuiInstall` | gui-upgrade's verdict and sync-skill's target |
| `Operations` | the two above: which scripts are used |
| `ImportWorkbench` | the import page over the review ledger and the query cache |
| `CliAdapter` | the adapter, the import routes, the store, and the CLI's binding |
| `...Proofs` | the theorems of the module, which they extend |
| `MC...` | instances for TLC, with symmetry and views where they are sound |

**SessionGuard.** `pc[c]` is where a thread stands in `invoke`; `held[c]` is its local record.
Records have an identity of their own, since a record leaves the table while threads hold it.
A step is a stretch under the lock, a wake-up, or the call of the binding. Validation of a
payload is left out: it happens before the table is touched. A terminal carries the digest of
the request that caused it, which is what lets `AnswersOwnRequest` speak of crossed answers.
`ImplementsLedger` maps the table to `RequestLedger`: undecided, decided once, forgotten whole.

**PublicLink.** An actor is a request thread or a timer's thread; a worker belongs to its job.
A job's constant attributes (port, code, processes) are named by the job. Each unlocked read
of a global is an action, since the code acts on the copy later. `seen[a]` is that copy.
`tunnels` is what runs in the operating system, whether or not the router knows it.

**HostAgentStream.** A hook action is a synchronous stretch of the event loop: all state
updates between two awaits. `loop[t]` is the async function of a turn, `relay[t]` the
backend's generator, `pending[t]` the frames between them. Text is counted, not spelled.

**JournalDraft.** React runs the effects of a change and the renders they cause before the
browser turns to anything else, so an action ends with its effects run: `Settle` is the
recovery, load and persist effects in their order. Saves, loads and weather queries end in
actions of their own. `Waits` says that the user lets pending work end before going on: with
it the promises hold, without it one of them does not (section 6).

**MetadataDrawer.** A draft is its text and the fields that a proposal may fill; a proposal is
known by the draft and the text it was made for, so that a crossed one shows. `request` is the
snapshot, `call` React Query's mutation, `review` and `cache` the state and the module's one
record. Time is one step that ages the request and the records past five minutes.

**JournalEdit.** The page is one record: URL, snapshot, draft, override and flags. `Settled` is
the effect of the edit mode, `Moved` the effects of a change of the id in their order, with what
each of them closed over. A value is known by the journal that was edited, or as what another
program wrote. `save` goes on when its page has moved or gone.

**CommandRuntime.** `stage` is where the stream's coroutine or the metadata thread stands. Lines
are counted: written, queued, taken. The process group is a root and a kid; a signal hits any
part of it or none, SIGKILL all that is left. `noticed` is the third task's news, which may come
before the readers have moved the last lines. A client takes frames or leaves.
**CodexAdapter.** `cx[r]` is a request, `groups[r]` its processes. `broken` are the checks that
would fail now; what the contents of prompts and answers decide is a choice.
**Bridge** reads both as a `RequestLedger` (`ImplementsLedger`): what is absent, pending or
decided is what a host that asks once hears of its request.

**EntityCuration.** The graph is its entities and a version; a mutation call is a record that is
sent, carried out, checked and answered. `list.fetch.joined` says that an invalidation met a fetch
that React Query lets go on. **DataDoctor.** `audit` is the query with the fetch under way; `after`
and `ticked` are history, what an audit saw repaired and over which dry run the box was ticked.

**AgentOps.** A process is what it is, where it listens and whose child it is. A command is a
program counter over the awaits of its script; `todo` and `sig` are `stopPid`'s. A listing of a
port reads owners once, and the judgement and the signal act on it later. **GuiInstall.** A probe
sees the faults there are at that moment, or fails; `Verdict` is the judgement over what was seen.

**CliAdapter.** A request is a coroutine and yields only where it awaits, so what it does
between two awaits is one action: in particular, releasing the lock, reading the answer and
storing the root (`Answer`). `asyncio.Lock` and `asyncio.Semaphore` are granted in order:
`holder` with `queue`, `slots` with `viewers`. Routes that differ only in the arguments of
their command share a kind. Of the CLI's ledger the model keeps which root a review is bound
to: `Bind` is the moment of the change in a run, and `due` remembers whose answer it awaits.
Plans and reviews have distinct ids; the CLI names both. The version is read when the probe's
answer arrives. `left` holds commands whose backend went down and that may still finish.

**ImportWorkbench.** `op` is the operation that runs: the step it waits for, whom it is for, and
in `op.view` whether the page's generation is still the one it began with; comparing numbers is
all the code does with generations. `op.awaits` says that it waits for the read of the shown
queue page. The form is reduced to the proposal it was filled from and that proposal's version
then; the user's typing changes neither. `cache` has a page per filter and offset. The ledger,
other windows and agents are external: requests are carried out or refused, and an answer may
be lost after its effect. `Leave` drops the page; a request that is out goes on as one of
`OtherRequest`. The fields of the form, the messages and the chosen attachments are left out.

## 3. Runs and bounds

| Run | Bounds | Shows |
| --- | --- | --- |
| `session_guard` | 2 threads, 3 ids of which 1 cannot be answered, 2 contents, 3 records, capacity 1 | waiter counts, no crossed answer, capacity, refinement of the ledger, calls return |
| `public_link` | 2 request threads, 2 jobs | ready means published, codes cleared, every start settles |
| `host_agent_stream` | 2 turns, 1 frame waiting | last question shown, outcome shown, settled for good, every turn settles |
| `import_workbench` | 1 review, 2 proposals, the pending filter, 1 edit | the page's claims are true, operations end |
| `cli_adapter` | 2 requests, 1 plan, 1 review, 2 roots, times to live of 1 tick, 1 preview at a time, 1 command left behind | lock and semaphore never leaked, roots agree, version gate |
| `bridge` | posix and Windows, 2 lines; 2 Codex requests, 1 change of the configuration | one envelope, answers of successful commands, no process left, requests end; the trace and the health verdict |
| `operations` | 3 pids, an agent's and a user's shell, 1 program of others, pids not given out again; 2 faults, 1 change, 2 checkouts | others spared, reports true, reused bridge kept; verdict true, one skill |
| `maintenance` | 2 entities, 2 review cards, 2 writes; 2 issues, 2 applies or 1 and a change elsewhere | confirmed is shown, shown follows the write; judged after the repair |
| `writing` | draft: a new entry and 1 journal, 2 texts, 1 weather, a user who waits; drawer: 2 drafts, 2 texts, 1 field, 2 requests; detail: 2 journals, 2 fields, 2 writes | drafts survive; gaps filled with their own proposal; the shown journal is the URL's, others' writes survive, saving ends |
| `public_link_fails_closed`, `cli_adapter_writes`, `writing_edit` | as above, smaller for the first two | counterexamples (section 6) |

Why these are enough to meet the cases. In the guard, two threads are an owner and a waiter, or
two that race for a record, while anybody cancels, releases and closes; two ids over a capacity
of one make the table full; three records are one more than the threads can hold, so a dropped
record and its successor coexist. More threads are the proofs' case. In the public link, two
threads and two jobs give every race of a start with a start, a stop and an expiry; job ids
are not reused, which bounds the starts of a behaviour to two. In the conversation, two turns
are a question and the one that replaces it; `MaxFrames` bounds the text collected and the
frames waiting, never the number of status frames. In the draft, the new entry and one journal
are the two kinds of scope; a second journal behaves as the first. On the import page, two proposals give the queue a next and a previous
page, and one edit makes a revision, hence a version, go stale; `MaxRev` bounds the edits. A
second review multiplies the states beyond reach: the claims that are about answers to another
review are proved for any number of them, and the run reaches the same code by leaving and
coming back. In the adapter, two requests
are enough for every race of two over the lock, the store and the gate; `MaxLeft` bounds the
commands that a restart leaves behind.

In the bridge, two lines are one taken and one that may be lost, a root and a kid make every
split of a signal over a group, and two Codex requests race for the one trace. In the stack, three
pids are a bridge, a backend and one more, be it a stranger's; the agent's shell runs the remote
link and `stop-all`, the user's develops and may be killed. `Scope` leaves out that the user's
shell works while a control backend is recorded, and runs either `gui-upgrade` or `sync-skill`;
`PidReuse = FALSE` says that a pid that a command still holds is not given to another program.
`Faults` and `Failing` of the run are those that the code treats as documented; the others are
in section 6. In the maintenance pages, `Bounded` lets one of the two sections of the entity page
be used, and two applies or one and a change made elsewhere; two entities and a card that lacks
its source give every kind of request. In the drawer two drafts and two texts are a request's own
and another; on the detail page two journals are the one saved and the one gone to, and two fields
are one edited and one that another program writes. Each composed run explores its parts one at a
time, so its bounds are those of its parts.

The theorems of section 5 hold without these bounds on
sizes, except that job ids are used once and `MaxFrames`, `MaxLeft` and `MaxRev` are constants.

The passing runs also check deadlock, except the conversation's, whose hook really stops when
its page is left, and the bridge's, which may have served its requests. Mutants in the modules (marked as such) are plausible slips, such
as a dropped guard or a missing reset; each property is violated by at least one.

## 4. Fairness

`SessionGuard`: each thread inside `invoke` keeps running; the lock is held for a few
statements, and the binding is bounded by its driver's timeout. Nothing is assumed of who
calls, cancels, releases or closes. `PublicLink`: threads, timers and workers keep running; the
lock is not held across a call, and the script and `taskkill` have timeouts. Requests need not
come, and a link need not expire. `HostAgentStream`: the browser's event loop gets to what is
ready, timers included. The relay may hang for ever: that a turn settles rests on the timeout
alone. `ImportWorkbench`: a request is answered or fails, a read ends, and the code after them
runs; the user and everybody else owe nothing. All are weak fairness of steps of one thread.
`Bridge`: the event loop runs its tasks (`Handler`, `Notices`, each Codex request's `CxHandler`),
the clock runs, and a client takes frames or leaves, for a stream that is not read is suspended
where the deadline is not looked at. The command, its descendants and Codex owe nothing: they may
write for ever or never. `Writing`: a save is answered, refused or fails, and the page goes on.
JournalDraft, the drawer, CliAdapter, the maintenance pages and the scripts state no liveness.

## 5. What is proved

The theorems hold for every value of the constants that satisfies the named assumptions:
finite sets of threads, ids and requests where a cardinality is counted, capacities and limits
that are numbers, and null values and markers that are not among the real ones. Every invariant
and action property that a passing run checks is the statement of a theorem. Three of them need
a hypothesis, written in the theorem: `Waits` for the draft, `PidReuse = FALSE` for the programs
that the stack must spare, and the faults that the documentation speaks of for the verdict of
gui-upgrade. Without it each formula is false (section 6).

- **SessionGuardProofs**: types, the waiter count, one dispatch, no abandoned record, no crossed
  answers, bounded retention, and that the guard implements `RequestLedger` (`Refinement`: every
  step is a ledger step or a stutter). `WaitersExact` is not inductive: that a waiter leaves the
  count right depends on whether the record it holds is still the table's. The invariant `IInv`
  adds who holds a record (`HoldsExactly`, `HeldInv`), that an owner's record stays until the
  owner leaves (`OwnerInv`), that in flight means owned (`FlightInv`), what a waiter can find
  (`WaiterInv`) and where a terminal comes from (`OriginInv`).
- **OperationsProofs**, four parts. *Public link*: types, `ReadyIsActive`, `ActiveRuns`,
  `NoStaleCodes`. The invariant adds which worker steps imply a running tunnel, that drawn jobs
  are distinct, and where codes are while a job is under way. *Stack*, for any number of terminals,
  pids and programs of others: `ReportIsTrue` and `StopAllStops` whatever the pids do, `SparesOthers`
  and `ReusedBridgeIsSpared` while a pid that is held is not given out again. None is inductive:
  what a command signals or reports now it listed, launched or recorded many awaits ago. The
  invariant `StackInv` says, for each command at each of its awaits, that the children of its
  terminal that live are among the pids it will yet stop (`ChildrenKept`; `Kept` names them, step by
  step), that the pids it holds are of the project and the bridges among them its own (`HeldAreOwn`),
  that what stop-all saw listening is stopped, is still to be stopped or listed, or makes it report
  failure (`SeenKept`), and that a bridge it trusts listens (`Trusted`). *Scripts*: types of both
  kinds, `VerdictIsTrue`, `OneSkillPerSync`. The invariant (`PlanKept`) ties what a plan has seen to
  the probes that were made and did not fail, while the checkout stays as it is. *Confinement*: see
  the end of this section.
- **HostAgentStreamProofs**: types, that the view is the last turn's, that only the last turn is
  open, that outcomes are shown, and the action property that a settled turn stays. The
  invariant adds that a turn is listed once, and how the active request, its terminal and its
  loop go together.
- **WritingProofs**. *Draft*: for `Waits`, types, `RefreshKeepsDraft` and `ShownIsCached`. The
  invariant adds what a save and a query closed over, and what has been loaded. *Drawer*:
  `FillsOwnGaps` and the part of `ShownIsOfPage` that is about its capsule. The invariant
  (`DrawerInv`) says whose the record in each place is: that the pending call is of the snapshot it
  was made with (`AskedOK`), that the review shown is the cached one (`ReviewIsCached`), and that a
  field of a draft holds nothing, the user's own or a proposal (`DraftsOK`). *Detail page*:
  `OthersSurvive` and the rest of `ShownIsOfPage`. A save sends edits only (`SendsEdits`), because a
  field of the form holds what its snapshot says or an edit of it (`EditsSnapshot`), through every
  effect that may run between; what is displayed is of the URL because the override of a mounted
  page is of the journal at its URL and data of a journal is its own. A page between two effects
  keeps all of the invariant but one conjunct (`Effected`), and each effect is a lemma.
- **ImportWorkbenchProofs**: types, `BindingIsOwn`, and the action properties
  `RebindShowsAuthority` and `LeavingStopsIt`. That the page calls only a bound review bound is
  not inductive: an answer must be known to be the shown review's. The invariant adds that a
  rebind whose view is there is of the shown review (`OwnView`), that an accepted one has bound
  it (`RebindBound`), that versions only grow (`VerBelow`, `SeenBelow`), and that the page a
  rebind has waited for is not older than the rebind (`ShownIsNew`).
- **CliAdapterProofs**: types, `HeldByRunning`, `RootIsBound` and the action property
  `AdmitsKnownCli`. The roots need that requests are fit to their kind (`Fit`), that the lock's
  holder is the only command under it, and that a change that awaits its answer belongs to the
  command that made it (`BindingsKept`); the gate needs that a fresh result is never younger
  than the last time the CLI was compatible (`CacheIsGood`).
- **BridgeProofs**: types, `AnswerIsOfSuccess`, `StoppedTreeIsGone`, `TraceIsTheAnswers` and
  `ReadyIsAnswerable`, for any number of lines, Codex requests and changes of the configuration.
  That an answer is a success's is decided where the command ends and told where the request does.
  The invariant adds where an envelope can be (`RtQuiet`), how the members of the process group go
  with the exit code (`RtExit`), which stages belong to which operation (`RtStage`), what the
  clean-up has reached before a result is told (`RtTree`), that a Codex request has no result before
  it is over (`CxQuiet`), and what a good health verdict still says (`CxHealth`). And a
  refinement (`AdaptersKeepLedger`): both adapters implement the `RequestLedger` that the guard
  implements, with a request absent before it begins, pending while it runs and decided by what it
  ends with, so that no later step takes back or changes what was told.
- **MaintenanceProofs**. *Entities*: types, `ConfirmsWhatIsShown` and `ShownFollowsWrites`, for any
  entities, cards and number of writes, any program that writes between, and both sections of the
  page used at once (which `Bounded` keeps from the run). That the list follows a write is not inductive:
  the fetch that brings it may be under way, or be still to make when the version gate opens. The
  invariant adds that an answer on its way is as new as the write unless it was joined
  (`ReadIsNew`), that data not marked stale is (`FreshIsNew`), that an open page refetches what is
  stale (`StaleIsFetched`), and that no write is newer than the graph (`WrittenIsThere`). *Repair*:
  `JudgedAfterRepair`, for any issues, repeated repairs and changes made elsewhere. Between a repair
  and its judgement lie an answer, a fetch that may already be out and a render; the invariant
  (`DoctorInv`) says that only a repair that was carried out is checked (`Repairs`), and that an
  audit that was read while a check waits has all the checked repairs behind it (`AuditOK`). The
  `Center...` theorems state the properties of both pages for the route that is shown.

Where the code does not keep what the repository says, a theorem can still say how far it goes.
Six results **confine** the counterexamples of section 6: each names, as narrowly as it could be
said, the history that breaks the formula, and proves that nothing else does.

| Theorem | Proves, always | In the behaviours in which |
| --- | --- | --- |
| `FailsClosedInTime` (OperationsProofs) | `FailsClosed` | no script is given up at its timeout after it launched its processes |
| `SharedWritesSerialized` (CliAdapterProofs) | one at most of the overlapping writes is under the shared lock | (all of them; other routers' adapters are left out of the count) |
| `EditsAreOfUrl` (WritingProofs) | `EditIsOfUrl` | nobody opens another journal's editor from a page that shows what a save read again |
| `NobodyLeavesUnprompted` (WritingProofs) | `LeavingPrompts` | a page that saves is in its edit mode when the save ends |
| `AnswersAreVerbatim` (BridgeProofs) | `VerbatimAnswer` | the loop stops for an ended command only when the readers have moved its lines |
| `OthersSpared` (OperationsProofs) | `SparesOthers` | a pid that a command holds is not given out again |

The hypotheses are action formulas of the form `[][...]_vars` next to the specification (for the
second there is none, for the last it is a constant), and each result was tried with TLC as well:
the formula holds in the run's instance when the steps that the hypothesis excludes are taken out
of its next-state relation.

## 6. What the code does not keep

Three runs end in a counterexample to something the repository says of the program.

- `FailsClosed` (`README.en.md:175`): when the tunnel script is killed at its timeout, the
  processes it has started run on, and the router does not know them.
- `WritesSerialized` (`backend/adapter/cli_adapter.py:467`): routers other than the import
  workbench make an adapter, hence a lock, for each request, so their writes overlap.
- `EditIsOfUrl` (`src/src/app/routes/JournalDetail.test.tsx:490`): after a save, going through the
  history to another journal in edit mode begins editing with the saved journal's text, since the
  effect of the mode still sees the override that the effect of the id is about to drop.

More are stated in the modules beside the code they are about, and have no run of their own. To
see the counterexample, put the formula in place of the properties of the run's configuration and
change the constants as said.

| Formula | Run and constants | Says | What happens |
| --- | --- | --- | --- |
| `RefreshKeepsDraft` | `writing`, `Waits = FALSE` | `src/src/app/routes/TheCore.test.tsx:613` | the reset at the end of a save wipes what was typed into a page opened since |
| `SavedDraftIsGone` | `writing` | `src/src/app/routes/TheCore.test.tsx:714` | moving from a journal under edit to a new entry writes its text into the new entry's slot; after the save it is recovered |
| `RebindRehydrates` | `import_workbench`, `Filters = {"pending", "confirmed"}`, `MaxRev = 2` | `src/src/app/routes/ImportWorkflow.test.tsx:433` | a queue page not shown when a rebind ended fills the form from its cached copy later |
| `VerbatimAnswer` | `bridge` | `docs/HOST_AGENT_HANDOFF.md:46` | the loop sees the command ended and the queue empty while a reader has lines yet to move |
| `UnknownFailsClosed` | `operations`, `Faults <- AllFaults`, `Failing = {"status"}`, `MaxFaults = 1`, `MaxChanges = 0` | `docs/AGENT_UPDATE_PLAYBOOK.md:41` | a failed status, head or count, and a branch that tracks a local one, count as clean and current |
| `SparesOthers` | `operations`, `PidReuse = TRUE` | `docs/AGENT_UPDATE_PLAYBOOK.md:97` | a recorded pid that the system has given to another program is signalled |
| `AcceptedIsShown` | `maintenance` | `backend/routers/entities.py:264` | the tick of one preview stays when the next takes its place |
| `LeavingPrompts` | `writing` | `src/src/app/routes/JournalDetail.test.tsx:720` | the bypass set by leaving the edit mode stays set when that changes nothing, and the next edits are left unprompted |

## 7. Only checked, and not modelled

Liveness (`CallsReturn`, `StartSettles`, `TurnsSettle`, `OperationsEnd`, `RequestsEnd`,
`SavingEnds`) is checked by TLC only: the prover reasons about neither fairness nor enabledness.
All other properties of the passing runs are also proved. Some theorems are about formulas that
no run checks: because a stronger one is checked (`DispatchedOnce`, `PendingIsOwned`, `ActiveRuns`,
`OnlyLastIsOpen`, `ShownIsCached`, `LeavingStopsIt` and the type invariants of the proved modules),
because they confine a counterexample, or because the theorem says more than a run is worth (the
bridge's `ImplementsLedger`, which TLC finds true with the constants of `bridge`).

Not modelled, and why:

- *HTTP SSE driver*: nothing but the conformance tools uses it. *Neutral contract*: validation of
  one object at a time, without state. *Backend application*: a decision per request.
- *Other routers and pages* (Recall, Archives, the entity profile, the health center): one call
  each, without state of their own; their writes are CliAdapter's own-adapter writes.
- *The relay's byte splitter* (`backend/routers/host_agent.py:433`): a function over bytes, whose
  only hard part is the carriage return at the end of a chunk. The hazard stands without a property.
- *Of the modelled parts*: byte limits, schemas and payload contents (a call is accepted or refused
  before state is touched); status payloads and refusals of the public link and tunnels that die by
  themselves; the bridge's HTTP handlers, the frames before the final one, and the contents of
  prompts; the metadata and capability routes of the relay; attachments and the location query of a
  draft; in the adapter, the queue revision that the CLI checks (the import page's model has it),
  the preview's sidecar file and temporary files; the version gate before the import page;
  the read-only sections of the entity and diagnostics pages; parsing of process listings and
  command lines, which is reduced to what they prove; the contents of the skill. The CLI itself is
  external everywhere.

## 8. Plan

The core and the parts of the first plan that carry state are modelled. What is left, in order of
what matters most to a user's data, then to exposure:

1. `ReviewQueue`: an abstract queue edited by compare-and-swap of its revision, which
   `ImportWorkbench` with `CliAdapter`'s answers implements; what an edit may overwrite.
2. An abstract stream that ends once, implemented by `Bridge` and assumed by `HostAgentStream`'s
   relay.
3. `FrameSplitter`: the relay's splitting of a byte stream as a recursive function on sequences,
   against a reference that sees the whole stream.
4. Liveness of `CliAdapter`: every request is answered, from the fairness of commands that end by
   themselves or at their timeout.
5. The drafts' attachment cache.

## 9. Running

`tlc -config session_guard.cfg MCSessionGuard.tla`, and so for the other configurations, each
with the MC module of its name (`public_link_fails_closed`, `cli_adapter_writes` and `writing_edit`
with those of `public_link`, `cli_adapter` and `writing`); `tlapm SessionGuardProofs.tla`, and so
for the other proof modules. Each run takes at most three minutes on two cores (`operations` and
`public_link` are the longest); each module of proofs at most as long.
