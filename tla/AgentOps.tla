------------------------------ MODULE AgentOps ------------------------------
(***************************************************************************)
(* The operations stack: the commands of scripts/ that start, verify and   *)
(* stop the processes of the GUI, over an operating system whose processes *)
(* come, listen, exit and give their pids to others at any time.           *)
(*                                                                         *)
(* Ports are named for the role that belongs on them.  A project process   *)
(* is one whose command line proves its role and checkout; the backend of  *)
(* dev-backend.mjs has no --app-dir, so nothing proves it.  Health answers *)
(* come from whatever listens.                                             *)
(***************************************************************************)
EXTENDS Naturals, FiniteSets

CONSTANTS Terminals,   \* shells that run the commands
          Commands,    \* [Terminals -> SUBSET Scripts]: what each one runs
          Pids,        \* process ids
          None,        \* no process, no port, no starter
          Foreign,     \* a program that is not the project's
          MaxForeign,  \* bound: programs of others that run at once
          PidReuse,    \* whether the pid of an ended process that a command or
                       \* the control file still holds may get a new process
          Interrupts   \* terminals whose command may be killed half-way

Ports == {"backend", "frontend", "bridge"}
Scripts == {"verify", "link-start", "link-stop", "stop-all", "dev"}

\* The port a program listens on: the dev backend takes the backend's.
PortOf(program) == IF program = "dev" THEN "backend" ELSE program

ASSUME AgentOpsAssumption ==
  /\ Commands \in [Terminals -> SUBSET Scripts]
  /\ None \notin Pids \cup Ports \cup Terminals \cup Scripts
  /\ Foreign \notin Ports \cup {"dev", None}
  /\ MaxForeign \in Nat
  /\ PidReuse \in BOOLEAN /\ Interrupts \subseteq Terminals

VARIABLES proc,     \* [Pids -> process or None]: the operating system's table
          term,     \* [Terminals -> state of the command that runs there]
          control,  \* .tmp/remote-link-control.json: the recorded pid, or None
          strangerHit \* whether a program of others has got a signal

stackVars == <<proc, term, control, strangerHit>>
-----------------------------------------------------------------------------
\* A process: the program, the port it listens on, the terminal it is child of,
\* and the terminals whose stop-all has found it listening when it began.
Process == [is : Ports \cup {"dev", Foreign}, on : Ports \cup {None},
            by : Terminals \cup {None}, seen : SUBSET Terminals]

\* startReferenceBridge's result: status, startedByCall, process.pid, cleanedUp.
BridgeStatus == {"none", "spawned", "reusing", "ready", "failed"}
Bridge == [status : BridgeStatus, started : BOOLEAN, pid : Pids \cup {None},
           clean : BOOLEAN]
NoBridge == [status |-> "none", started |-> FALSE, pid |-> None, clean |-> FALSE]

\* Where a command is.  A step whose name is a port's takes that port next.
Steps == {"idle", "preflight", "ports", "bridge", "bridge-health", "bridge-owner",
          "bridge-stopped", "backend", "backend-health", "build", "frontend",
          "frontend-health", "clean", "clean-bridge", "bridge-cleaned", "sweep",
          "report", "control", "control-health", "control-failed", "link",
          "poll", "unlink", "stop", "dev", "dev-exit", "end"}

\* A running command: todo and sig are stopPid's (pids still to stop, and the
\* one that has got SIGTERM), fails says that some stop did not succeed, kids
\* are the processes launched, left that the bridge or a sweep left something, blocked that
\* an owner was unknown, ok and noOrphans the result.
Command == [cmd : Scripts \cup {None}, pc : Steps, at : Ports,
            todo : SUBSET (Pids \cup {None}), sig : Pids \cup {None},
            fails : BOOLEAN, kids : SUBSET (Pids \cup {None}), bridge : Bridge,
            left : BOOLEAN, blocked : BOOLEAN, ok : BOOLEAN,
            noOrphans : BOOLEAN]

Idle == [cmd |-> None, pc |-> "idle", at |-> "backend", todo |-> {}, sig |-> None,
         fails |-> FALSE, kids |-> {}, bridge |-> NoBridge, left |-> FALSE,
         blocked |-> FALSE, ok |-> FALSE, noOrphans |-> FALSE]

StackInit ==
  /\ proc = [p \in Pids |-> None]
  /\ term = [t \in Terminals |-> Idle]
  /\ control = None
  /\ strangerHit = FALSE
-----------------------------------------------------------------------------
Alive == {p \in Pids : proc[p] # None}
Owners(port) == {p \in Alive : proc[p].on = port}

ListingsByPort(port) ==   \* mutant
  {[safe |-> Owners(port), blocked |-> FALSE]}

\* classifyPortOwners over getPortOwners: the owners whose command line could be
\* read and proves the role may be stopped, any other one blocks.
Listings(port) ==
  LET proven == {p \in Owners(port) : proc[p].is = port}
  IN  {[safe |-> read, blocked |-> read # Owners(port)] : read \in SUBSET proven}

Free(listing) == listing.safe = {} /\ ~listing.blocked

\* waitForUrl: some listener must answer for TRUE, the deadline gives FALSE.
Answers(port) == {FALSE} \cup {TRUE : p \in Owners(port)}

\* Terminal t is at step pc of its command and no stopPid is under way.
At(t, pc) == term[t].pc = pc /\ term[t].todo = {} /\ term[t].sig = None

\* The command of t goes on as c; with its step alone, or its bridge's status, changed.
Becomes(t, c) == term' = [term EXCEPT ![t] = c]
Goto(t, pc) == Becomes(t, [term[t] EXCEPT !.pc = pc])
BridgeNow(t, status) == [term[t].bridge EXCEPT !.status = status]
System == <<proc, strangerHit>>

\* Pids that are held: a running command or the control file may still use them.
Held == {control} \cup UNION {term[t].todo \cup term[t].kids
                                 \cup {term[t].sig, term[t].bridge.pid} : t \in Terminals}

\* Pids the system may give to a new process.
FreePids == (Pids \ Alive) \ (IF PidReuse THEN {} ELSE Held)

\* spawnTracked: a new process of that program under a free pid.
Spawned(p, program, starter) ==
  /\ p \in FreePids
  /\ proc' = [proc EXCEPT ![p] = [is |-> program, on |-> None, by |-> starter,
                                   seen |-> {}]]
-----------------------------------------------------------------------------
\* The operating system.

\* A project process gets its port, if nobody listens there: uvicorn and vite
\* (--strictPort) exit otherwise.
Bind(p) ==
  /\ p \in Alive /\ proc[p].is # Foreign /\ proc[p].on = None
  /\ Owners(PortOf(proc[p].is)) = {}
  /\ proc' = [proc EXCEPT ![p].on = PortOf(proc[p].is)]
  /\ UNCHANGED <<term, control, strangerHit>>

\* A process ends, by a signal it has got, a crash or a port that is taken.
Exit(p) ==
  /\ p \in Alive
  /\ proc' = [proc EXCEPT ![p] = None]
  /\ UNCHANGED <<term, control, strangerHit>>

\* Another program starts and listens on one of the ports, also beside a project process when it takes another address.
ForeignStarts(p) ==
  /\ p \in FreePids
  /\ Cardinality({q \in Alive : proc[q].is = Foreign}) < MaxForeign
  /\ \E port \in Ports :
       /\ \A q \in Owners(port) : proc[q].is # Foreign
       /\ proc' = [proc EXCEPT ![p] = [is |-> Foreign, on |-> port, by |-> None,
                                         seen |-> {}]]
  /\ UNCHANGED <<term, control, strangerHit>>
-----------------------------------------------------------------------------
\* stopPid, called for each pid of todo before the command goes on.

Signalled(p) == strangerHit' = (strangerHit \/ proc[p].is = Foreign)

StopBegin(t, p) ==
  /\ p \in term[t].todo /\ term[t].sig = None
  /\ LET tried == [term[t] EXCEPT !.todo = term[t].todo \ {p}]
     IN  \/ \* no pid: the process never started
            /\ p = None
            /\ Becomes(t, [tried EXCEPT !.fails = TRUE])
            /\ UNCHANGED strangerHit
         \/ \* ESRCH: it has gone
            /\ p \in Pids \ Alive
            /\ Becomes(t, tried)
            /\ UNCHANGED strangerHit
         \/ \* SIGTERM delivered
            /\ p \in Alive
            /\ Becomes(t, [tried EXCEPT !.sig = p])
            /\ Signalled(p)
         \/ \* EPERM: not this user's process
            /\ p \in Alive /\ proc[p].by = None
            /\ Becomes(t, [tried EXCEPT !.fails = TRUE])
            /\ UNCHANGED strangerHit
  /\ UNCHANGED <<proc, control>>

\* The poll finds the pid free, or SIGKILL ends what still has it.
StopEnd(t) ==
  /\ term[t].sig # None
  /\ LET p == term[t].sig
     IN  IF p \in Alive
           THEN proc' = [proc EXCEPT ![p] = None] /\ Signalled(p)
           ELSE UNCHANGED <<proc, strangerHit>>
  /\ Becomes(t, [term[t] EXCEPT !.sig = None])
  /\ UNCHANGED control
-----------------------------------------------------------------------------
\* The commands.

Begin(t, c) ==
  /\ term[t].pc = "idle"
  /\ c \in Commands[t]
  /\ Becomes(t, [Idle EXCEPT
       !.cmd = c,
       !.pc = CASE c \in {"verify", "link-start"} -> "preflight"
                [] c = "link-stop" -> "link"
                [] c = "stop-all" -> "stop"
                [] c = "dev" -> "bridge"])
  /\ proc' = [p \in Pids |->
       IF c = "stop-all" /\ p \in Alive /\ proc[p].on = proc[p].is
         THEN [proc[p] EXCEPT !.seen = @ \cup {t}] ELSE proc[p]]
  /\ UNCHANGED <<control, strangerHit>>

\* runVerifyStack, before anything is launched.  Whatever fails goes to finally.
Preflight(t) ==
  /\ At(t, "preflight")
  /\ \E next \in {"ports", "clean"} : Goto(t, next)
  /\ UNCHANGED <<System, control>>

EnsurePortAvailable(t) ==
  /\ At(t, "ports")
  /\ \E listing \in Listings(term[t].at) :
       IF listing.blocked THEN Goto(t, "clean")
       ELSE Becomes(t, IF term[t].at = "backend"
                         THEN [term[t] EXCEPT !.todo = listing.safe, !.at = "frontend"]
                         ELSE [term[t] EXCEPT !.todo = listing.safe, !.pc = "bridge"])
  /\ UNCHANGED <<System, control>>

\* What follows prepareHostAgentEndpoint: the backend of the command.
AfterBridge(t) == IF term[t].cmd = "dev" THEN "dev" ELSE "backend"

\* startReferenceBridge: nothing is started when an endpoint is configured; an
\* owner that is unknown blocks, one of the project's is reused, and a free
\* port gets a new process, which may fail to start (no pid, or an exception).
StartBridge(t) ==
  /\ At(t, "bridge")
  /\ \/ /\ Goto(t, AfterBridge(t))
        /\ UNCHANGED proc
     \/ \E listing \in Listings("bridge") :
          \/ /\ listing.blocked
             /\ Goto(t, AfterBridge(t))
             /\ UNCHANGED proc
          \/ /\ ~listing.blocked /\ listing.safe # {}
             /\ Becomes(t, [term[t] EXCEPT !.pc = "bridge-health",
                                           !.bridge = BridgeNow(t, "reusing")])
             /\ UNCHANGED proc
          \/ /\ Free(listing)
             /\ \E p \in FreePids \cup {None} :
                  /\ IF p = None THEN UNCHANGED proc ELSE Spawned(p, "bridge", t)
                  /\ Becomes(t, [term[t] EXCEPT
                       !.pc = "bridge-health",
                       !.bridge = [status |-> "spawned", started |-> TRUE,
                                   pid |-> p, clean |-> FALSE]])
  /\ UNCHANGED <<control, strangerHit>>

\* A bridge of this call that is not trusted is stopped at once.
GiveUpBridge(t) ==
  IF term[t].bridge.started
    THEN Becomes(t, [term[t] EXCEPT !.pc = "bridge-stopped", !.fails = FALSE,
                                    !.todo = {term[t].bridge.pid},
                                    !.bridge = BridgeNow(t, "failed")])
    ELSE Becomes(t, [term[t] EXCEPT !.pc = AfterBridge(t), !.bridge = NoBridge])

BridgeHealth(t) ==
  /\ At(t, "bridge-health")
  /\ \E ok \in Answers("bridge") :
       IF ok THEN Goto(t, "bridge-owner") ELSE GiveUpBridge(t)
  /\ UNCHANGED <<System, control>>

\* The owners are listed again: the answer counts only if the listener is the
\* process that was started here, or still one of the project's.
BridgeOwner(t) ==
  /\ At(t, "bridge-owner")
  /\ \E listing \in Listings("bridge") :
       IF /\ ~listing.blocked
          /\ IF term[t].bridge.started THEN term[t].bridge.pid \in listing.safe
                                       ELSE listing.safe # {}
         THEN Becomes(t, [term[t] EXCEPT !.pc = AfterBridge(t),
                                         !.bridge = BridgeNow(t, "ready")])
         ELSE GiveUpBridge(t)
  /\ UNCHANGED <<System, control>>

BridgeStopped(t) ==
  /\ At(t, "bridge-stopped")
  /\ Becomes(t, [term[t] EXCEPT
       !.pc = AfterBridge(t),
       !.bridge = [term[t].bridge EXCEPT !.clean = ~term[t].fails]])
  /\ UNCHANGED <<System, control>>

LaunchUnrecorded(t, role) ==   \* mutant: pushed only once it is healthy
  /\ At(t, role)
  /\ \E p \in FreePids \cup {None} :
       /\ IF p = None THEN UNCHANGED proc ELSE Spawned(p, role, t)
       /\ Goto(t, IF role = "backend" THEN "backend-health" ELSE "frontend-health")
  /\ UNCHANGED <<control, strangerHit>>

\* spawnTracked for the backend and the preview of runVerifyStack.
Launch(t, role) ==
  /\ At(t, role)
  /\ \E p \in FreePids \cup {None} :
       /\ IF p = None THEN UNCHANGED proc ELSE Spawned(p, role, t)
       /\ Becomes(t, [term[t] EXCEPT !.kids = term[t].kids \cup {p},
                     !.pc = IF role = "backend" THEN "backend-health" ELSE "frontend-health"])
  /\ UNCHANGED <<control, strangerHit>>

StackHealth(t) ==
  /\ \/ /\ At(t, "backend-health")
        /\ \E ok \in Answers("backend") : Goto(t, IF ok THEN "build" ELSE "clean")
     \/ /\ At(t, "build")
        /\ \E ok \in BOOLEAN : Goto(t, IF ok THEN "frontend" ELSE "clean")
     \/ /\ At(t, "frontend-health")
        /\ \E ok \in Answers("frontend") :
             Becomes(t, [term[t] EXCEPT !.pc = "clean", !.ok = ok])
  /\ UNCHANGED <<System, control>>

\* finally: the launched processes, the bridge if this call started it, then
\* whatever project process is left on the two ports.
CleanLaunched(t) ==
  /\ At(t, "clean")
  /\ Becomes(t, [term[t] EXCEPT !.pc = "clean-bridge", !.kids = {}, !.todo = term[t].kids])
  /\ UNCHANGED <<System, control>>

\* stopReferenceBridge, of runVerifyStack and of dev-backend.mjs.
StopReferenceBridge(t) ==
  /\ At(t, "clean-bridge")
  /\ LET b == term[t].bridge
     IN  Becomes(t, [term[t] EXCEPT
           !.pc = "bridge-cleaned", !.fails = FALSE,
           !.todo = IF b.started /\ ~b.clean THEN {b.pid} ELSE {}])
  /\ UNCHANGED <<System, control>>

BridgeCleaned(t) ==
  /\ At(t, "bridge-cleaned")
  /\ LET b == term[t].bridge
     IN  Becomes(t, [term[t] EXCEPT
           !.left = b.started /\ ~b.clean /\ term[t].fails,
           !.bridge = NoBridge, !.fails = FALSE, !.at = "backend",
           !.pc = IF term[t].cmd = "dev" THEN "end" ELSE "sweep"])
  /\ UNCHANGED <<System, control>>

SweepAll(t) ==   \* mutant: the bridge's port is swept too
  /\ At(t, "sweep")
  /\ \E listing \in Listings(term[t].at) :
       Becomes(t, [term[t] EXCEPT
         !.todo = listing.safe, !.left = term[t].left \/ listing.safe # {},
         !.at = IF term[t].at = "backend" THEN "frontend" ELSE "bridge",
         !.pc = IF term[t].at = "bridge" THEN "report" ELSE "sweep"])
  /\ UNCHANGED <<System, control>>

Sweep(t) ==
  /\ At(t, "sweep")
  /\ \E listing \in Listings(term[t].at) :
       Becomes(t, [term[t] EXCEPT
         !.todo = listing.safe, !.left = term[t].left \/ listing.safe # {},
         !.at = "frontend",
         !.pc = IF term[t].at = "backend" THEN "sweep" ELSE "report"])
  /\ UNCHANGED <<System, control>>

\* noOrphans; remote-link start goes on only with a clean and verified stack.
Report(t) ==
  /\ At(t, "report")
  /\ LET c == term[t]
     IN  Becomes(t, IF c.cmd = "link-start" /\ c.ok /\ ~c.left
           THEN [Idle EXCEPT !.cmd = c.cmd, !.pc = "control"]
           ELSE [Idle EXCEPT !.cmd = c.cmd, !.pc = "end", !.noOrphans = ~c.left])
  /\ UNCHANGED <<System, control>>
-----------------------------------------------------------------------------
\* ensureControlBackend: a backend that answers is used as it is; otherwise one
\* is started and its pid recorded.  When the file cannot be written the
\* command ends with an exception and the process stays.
EnsureControlBackend(t) ==
  /\ At(t, "control")
  /\ \E ok \in Answers("backend") :
       \/ /\ ok
          /\ Goto(t, "link")
          /\ UNCHANGED <<proc, control>>
       \/ /\ ~ok
          /\ \E p \in FreePids :
               /\ Spawned(p, "backend", None)
               /\ \/ /\ control' = p
                     /\ Becomes(t, [term[t] EXCEPT !.pc = "control-health", !.kids = {p}])
                  \/ /\ Goto(t, "end")
                     /\ UNCHANGED control
  /\ UNCHANGED strangerHit

ControlHealth(t) ==
  /\ At(t, "control-health")
  /\ \E ok \in Answers("backend") :
       IF ok THEN Goto(t, "link")
             ELSE Becomes(t, [term[t] EXCEPT !.pc = "control-failed", !.todo = term[t].kids])
  /\ UNCHANGED <<System, control>>

ControlFailed(t) ==
  /\ At(t, "control-failed")
  /\ control' = None
  /\ Goto(t, "end")
  /\ UNCHANGED System

\* The public-link routes are asked through whatever backend listens.  Without
\* an answer, or with an error status, fetchJson throws and nothing is cleaned.
AskPublicLink(t) ==
  /\ At(t, "link") \/ At(t, "poll")
  /\ \E next \in {"end"} \cup
        (IF Owners("backend") = {} THEN {}
         ELSE IF term[t].cmd = "link-stop" THEN {"unlink"} ELSE {"poll", "unlink"}) :
       Goto(t, next)
  /\ UNCHANGED <<System, control>>

\* pollRemoteLinkReady gives up.
PollTimeout(t) ==
  /\ At(t, "poll")
  /\ Goto(t, "unlink")
  /\ UNCHANGED <<System, control>>

StopControlBackendAny(t) ==   \* mutant: the dead child's pid stays undefined
  /\ At(t, "unlink")
  /\ Becomes(t, [term[t] EXCEPT !.pc = "end", !.todo = {control, "pid"} \ {None}])
  /\ control' = None
  /\ UNCHANGED System

\* stopControlBackendIfOwned: the file is removed, then its pid stopped.
StopControlBackend(t) ==
  /\ At(t, "unlink")
  /\ Becomes(t, [term[t] EXCEPT !.pc = "end", !.todo = {control} \ {None}])
  /\ control' = None
  /\ UNCHANGED System
-----------------------------------------------------------------------------
StopAllLast(t) ==   \* mutant: only the last port's unknown owner is reported
  /\ At(t, "stop")
  /\ \E listing \in Listings(term[t].at) :
       Becomes(t, [term[t] EXCEPT
         !.todo = listing.safe, !.blocked = listing.blocked,
         !.pc = IF term[t].at = "bridge" THEN "end" ELSE "stop",
         !.at = IF term[t].at = "backend" THEN "frontend" ELSE "bridge"])
  /\ UNCHANGED <<System, control>>

\* stopAllProjectProcesses: port by port, sparing the owners it cannot prove.
StopAll(t) ==
  /\ At(t, "stop")
  /\ \E listing \in Listings(term[t].at) :
       Becomes(t, [term[t] EXCEPT
         !.todo = listing.safe, !.blocked = term[t].blocked \/ listing.blocked,
         !.pc = IF term[t].at = "bridge" THEN "end" ELSE "stop",
         !.at = IF term[t].at = "backend" THEN "frontend" ELSE "bridge"])
  /\ UNCHANGED <<System, control>>

\* dev-backend.mjs: the bridge it started goes when its backend ends.
DevBackend(t) ==
  /\ \/ /\ At(t, "dev")
        /\ \E p \in FreePids \cup {None} :
             /\ IF p = None THEN UNCHANGED proc ELSE Spawned(p, "dev", t)
             /\ Becomes(t, [term[t] EXCEPT !.kids = {p}, !.pc = "dev-exit"])
     \/ /\ At(t, "dev-exit")
        /\ \A p \in Alive : proc[p].is # "dev" \/ proc[p].by # t
        /\ Goto(t, "clean-bridge")
        /\ UNCHANGED proc
  /\ UNCHANGED <<control, strangerHit>>

\* The command is over for its processes: nobody's children, seen by nobody.
Forget(t) ==
  [p \in Pids |-> IF p \in Alive
     THEN [proc[p] EXCEPT !.seen = @ \ {t}, !.by = IF @ = t THEN None ELSE @]
     ELSE None]

\* The result is printed and the command exits.
End(t) ==
  /\ At(t, "end")
  /\ proc' = Forget(t)
  /\ Becomes(t, Idle)
  /\ UNCHANGED <<control, strangerHit>>

\* The command is killed: no finally runs, and its children go on by themselves.
Interrupt(t) ==
  /\ t \in Interrupts
  /\ term[t].pc # "idle"
  /\ proc' = Forget(t)
  /\ Becomes(t, Idle)
  /\ UNCHANGED <<control, strangerHit>>

CommandStep(t) ==
  \/ \E p \in Pids \cup {None} : StopBegin(t, p)
  \/ StopEnd(t)
  \/ Preflight(t) \/ EnsurePortAvailable(t)
  \/ StartBridge(t) \/ BridgeHealth(t) \/ BridgeOwner(t) \/ BridgeStopped(t)
  \/ Launch(t, "backend") \/ Launch(t, "frontend") \/ StackHealth(t)
  \/ CleanLaunched(t) \/ StopReferenceBridge(t) \/ BridgeCleaned(t)
  \/ Sweep(t) \/ Report(t)
  \/ EnsureControlBackend(t) \/ ControlHealth(t) \/ ControlFailed(t)
  \/ AskPublicLink(t) \/ PollTimeout(t) \/ StopControlBackend(t)
  \/ StopAll(t) \/ DevBackend(t) \/ End(t)

Environment == \E p \in Pids : Bind(p) \/ Exit(p) \/ ForeignStarts(p)

StackNext ==
  \/ Environment
  \/ \E t \in Terminals : CommandStep(t) \/ Interrupt(t) \/ \E c \in Scripts : Begin(t, c)

StackSpec == StackInit /\ [][StackNext]_stackVars
-----------------------------------------------------------------------------
StackTypeOK ==
  /\ proc \in [Pids -> Process \cup {None}]
  /\ term \in [Terminals -> Command]
  /\ control \in Pids \cup {None}
  /\ strangerHit \in BOOLEAN

\* No program that is not the project's ever gets a signal, however the owners
\* of a port change between its listing and the signal, as long as the pids that
\* are held are not given out again ("Unknown processes are never killed").
SparesOthers == ~strangerHit

\* What a command reports of its processes is so.  When verify-stack reports
\* noOrphans, nothing that it launched itself is running any more, the reference
\* bridge included; nor is the bridge of a dev backend that has ended.  And a
\* bridge trusted as ready by the call that started it is, as long as it lives,
\* the process that listens on the port: a stranger's healthy answer is never
\* taken for it (runVerifyStack, startReferenceBridge).
ReportIsTrue ==
  \A t \in Terminals : LET b == term[t].bridge IN
    /\ (term[t].noOrphans \/ (term[t].cmd = "dev" /\ At(t, "end"))) =>
         \A p \in Alive : proc[p].by # t
    /\ (/\ b.status = "ready" /\ b.started /\ b.pid \in Alive
        /\ proc[b.pid].is = "bridge" /\ proc[b.pid].by = t) => proc[b.pid].on = "bridge"

\* stop-all that reports no unknown owner and no failed stop has ended every
\* project process that listened when it began.
StopAllStops ==
  \A t \in Terminals :
    (term[t].cmd = "stop-all" /\ At(t, "end") /\ ~term[t].blocked /\ ~term[t].fails)
      => \A p \in Alive : t \notin proc[p].seen

\* A bridge of another terminal's command is ended only by stop-all: who merely
\* reuses it leaves it running.
ReusedBridgeIsSpared ==
  [][\A t \in Terminals, p \in Pids :
       (p \in term[t].todo /\ p \notin term'[t].todo /\ term'[t].sig = p
          /\ p \in Alive /\ proc[p].is = "bridge" /\ proc[p].by \in Terminals \ {t})
         => term[t].cmd = "stop-all"]_stackVars
=============================================================================
