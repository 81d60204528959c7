-------------------------- MODULE OperationsProofs --------------------------
(***************************************************************************)
(* What the scripts promise, for any terminals, pids, commands and         *)
(* checkouts, and what the link promises that they start and stop, for any *)
(* requests and jobs.                                                      *)
(*                                                                         *)
(* The promises of the stack are about processes that others start, end    *)
(* and rename at any time, so the invariant says of each terminal what its *)
(* command still holds of them: at every step its living children are      *)
(* among the pids that it will yet stop (ChildrenKept), the pids it holds  *)
(* are of the project and, but for stop-all, its own (HeldAreOwn), what    *)
(* stop-all has found is stopped, to be stopped, or reported (SeenKept),   *)
(* and a trusted bridge listens (Trusted).  One lemma says that a step of  *)
(* another terminal or of the operating system disturbs none of this, the  *)
(* others take the steps of a command one by one.                          *)
(***************************************************************************)
EXTENDS Operations, PublicLink, Sequences, FiniteSetTheorems, TLAPS

-----------------------------------------------------------------------------
\* The processes of the table pr that are children of t's command.
ChildOf(t, pr, p) == pr[p] # None /\ pr[p].by = t

\* The bridge that the command has started and not yet stopped.
OwnBridge(c) == IF c.bridge.started /\ ~c.bridge.clean THEN {c.bridge.pid} ELSE {}

\* Where the children of a command are among, step by step, all still to be stopped.
WithBridge == {"bridge-health", "bridge-owner", "backend", "dev"}
WithKids == {"backend-health", "build", "frontend", "frontend-health", "clean", "dev-exit"}
Stopping == {"bridge-stopped", "bridge-cleaned"}
Childless == Steps \ (WithBridge \cup WithKids \cup Stopping \cup {"clean-bridge"})

Kept(c) ==
  CASE c.pc \in WithBridge -> OwnBridge(c)
    [] c.pc \in WithKids -> c.kids \cup OwnBridge(c)
    [] c.pc \in Stopping -> c.todo \cup {c.sig}
    [] c.pc = "clean-bridge" -> c.todo \cup {c.sig} \cup OwnBridge(c)
    [] c.pc \in Childless -> {}

ChildrenKept(t, c, pr) ==
  \A p \in Pids : ChildOf(t, pr, p) =>
    /\ p \in Kept(c)
    /\ c.pc = "dev-exit" => (pr[p].is = "dev" \/ p \in OwnBridge(c))

\* The pids that a command may yet signal or trust.
Touched(c) == c.todo \cup c.kids \cup {c.sig, c.bridge.pid}

HeldAreOwn(t, c, pr) ==
  \A p \in Touched(c) : p \in Pids /\ pr[p] # None =>
    /\ pr[p].is # Foreign
    /\ pr[p].is = "bridge" => (pr[p].by \in {t, None} \/ c.cmd = "stop-all")

\* The ports that stop-all still has to list.
ToList(c) == IF c.pc # "stop" THEN {}
             ELSE CASE c.at = "backend" -> Ports
                    [] c.at = "frontend" -> {"frontend", "bridge"}
                    [] c.at = "bridge" -> {"bridge"}

SeenKept(t, c, pr) ==
  \A p \in Pids : pr[p] # None /\ t \in pr[p].seen =>
    /\ c.cmd = "stop-all"
    /\ pr[p].on = pr[p].is /\ pr[p].is \in Ports
    /\ c.blocked \/ c.fails \/ p \in c.todo \/ p = c.sig \/ pr[p].on \in ToList(c)

Trusted(t, c, pr) ==
  LET p == c.bridge.pid IN
    (/\ c.bridge.status = "ready" /\ c.bridge.started /\ p \in Pids
     /\ ChildOf(t, pr, p) /\ pr[p].is = "bridge") => pr[p].on = "bridge"

Flow(c) ==
  /\ c.pc \in {"preflight", "ports", "sweep"} => c.at # "bridge"
  /\ c.cmd = "stop-all" => c.pc \in {"stop", "end"}
  /\ c.pc = "stop" => c.cmd = "stop-all"
  /\ c.noOrphans => c.pc = "end"

\* What holds of the command c of terminal t over the processes pr.
Sound(t, c, pr) ==
  /\ Flow(c) /\ ChildrenKept(t, c, pr) /\ SeenKept(t, c, pr) /\ Trusted(t, c, pr)
  /\ ~PidReuse => HeldAreOwn(t, c, pr)

ControlIsOurs == ~PidReuse /\ control \in Pids /\ proc[control] # None
                   => proc[control].is = "backend"

StackInv ==
  /\ StackTypeOK
  /\ \A t \in Terminals : Sound(t, term[t], proc)
  /\ ControlIsOurs
  /\ ~PidReuse => SparesOthers

-----------------------------------------------------------------------------
\* A process table and what a step leaves of the processes to all but terminal t.
Table == [Pids -> Process \cup {None}]

Gentle(t) ==
  \A p \in Pids :
    \/ proc'[p] = None
    \/ /\ ~PidReuse => p \notin Held
       /\ proc'[p].by \in {t, None} /\ proc'[p].seen = {}
       /\ proc'[p].is = "bridge" => proc'[p].by = t
    \/ /\ proc[p] # None
       /\ proc'[p].is = proc[p].is /\ proc'[p].on \in {proc[p].on, PortOf(proc[p].is)}
       /\ proc[p].on # None => proc'[p].on = proc[p].on
       /\ proc'[p].by \in {proc[p].by, None} /\ proc'[p].seen \subseteq proc[p].seen \cup {t}

LEMMA Names ==
  /\ None \notin Pids /\ None \notin Ports /\ None \notin Terminals
  /\ None # "dev" /\ None # "stop-all"
  /\ Foreign \notin Ports /\ Foreign # "dev" /\ Foreign # None
  /\ "bridge" # Foreign /\ "backend" # Foreign /\ "frontend" # Foreign
  /\ "bridge" # None /\ "backend" # None /\ "frontend" # None
BY AgentOpsAssumption DEF Ports, Scripts

\* What the step of another terminal, or of the operating system, leaves sound.
LEMMA OthersStaySound ==
  ASSUME StackInv, NEW u \in Terminals, NEW t \in Terminals \cup {None}, t # u,
         Gentle(t)
  PROVE  Sound(u, term[u], proc')
<1> DEFINE c == term[u]
<1>1. Sound(u, c, proc) /\ c \in Command  BY DEF StackInv, StackTypeOK
<1>2. ~PidReuse => Touched(c) \subseteq Held  BY DEF Touched, Held
<1> HIDE DEF c
<1>3. Flow(c)  BY <1>1 DEF Sound
<1>4. ChildrenKept(u, c, proc')
  BY <1>1, Names DEF Sound, ChildrenKept, ChildOf, Gentle
<1>5. SeenKept(u, c, proc')
  <2> SUFFICES ASSUME NEW p \in Pids, proc'[p] # None, u \in proc'[p].seen
               PROVE  /\ proc[p] # None /\ u \in proc[p].seen
                      /\ proc'[p].is = proc[p].is
                      /\ proc[p].on # None => proc'[p].on = proc[p].on
    BY <1>1, Names DEF Sound, SeenKept
  <2> QED  BY DEF Gentle
<1>6. Trusted(u, c, proc')
  <2> SUFFICES ASSUME c.bridge.pid \in Pids, ChildOf(u, proc', c.bridge.pid)
               PROVE  /\ ChildOf(u, proc, c.bridge.pid)
                      /\ proc'[c.bridge.pid].is = proc[c.bridge.pid].is
                      /\ proc[c.bridge.pid].on = "bridge" => proc'[c.bridge.pid].on = "bridge"
    BY <1>1 DEF Sound, Trusted
  <2> QED  BY Names DEF Gentle, ChildOf
<1>7. ASSUME ~PidReuse  PROVE HeldAreOwn(u, c, proc')
  <2> SUFFICES ASSUME NEW p \in Touched(c), p \in Pids, proc'[p] # None
               PROVE  /\ proc[p] # None /\ proc'[p].is = proc[p].is
                      /\ proc'[p].by \in {proc[p].by, None}
    BY <1>1, <1>7 DEF Sound, HeldAreOwn
  <2> QED  BY <1>2, <1>7 DEF Gentle
<1> QED  BY <1>3, <1>4, <1>5, <1>6, <1>7 DEF Sound, c

\* A step of terminal t is sound when what it makes of its own command is.
LEMMA Assemble ==
  ASSUME StackInv, NEW t \in Terminals, NEW c \in Command, Becomes(t, c),
         Sound(t, c, proc'), Gentle(t), proc' \in Table,
         control' \in Pids \cup {None}, ControlIsOurs',
         strangerHit' \in BOOLEAN, ~PidReuse => ~strangerHit'
  PROVE  StackInv'
<1>1. term' \in [Terminals -> Command] /\ term'[t] = c
      /\ \A u \in Terminals \ {t} : term'[u] = term[u]
  BY DEF StackInv, StackTypeOK, Becomes
<1>2. StackTypeOK'  BY <1>1 DEF StackTypeOK, Table
<1>3. ASSUME NEW u \in Terminals  PROVE Sound(u, term'[u], proc')
  BY <1>1, OthersStaySound
<1> QED  BY <1>2, <1>3 DEF StackInv, SparesOthers

LEMMA SameIsGentle ==
  ASSUME proc' = proc, NEW t
  PROVE  Gentle(t)
BY DEF Gentle

\* A step that changes only the command, and forgets the control backend perhaps.
LEMMA QuietSteps ==
  ASSUME StackInv, NEW t \in Terminals, NEW c \in Command, Becomes(t, c),
         Sound(t, c, proc), UNCHANGED System, control' \in {control, None}
  PROVE  StackInv'
<1>1. proc' = proc /\ strangerHit' = strangerHit  BY DEF System
<1>2. ControlIsOurs'  BY <1>1, Names DEF StackInv, ControlIsOurs
<1>3. control' \in Pids \cup {None}  BY DEF StackInv, StackTypeOK
<1> QED  BY <1>1, <1>2, <1>3, Assemble, SameIsGentle DEF StackInv, StackTypeOK, Table, SparesOthers

-----------------------------------------------------------------------------
\* What a listing lists: processes that run, and of the project.
LEMMA ListingFacts ==
  ASSUME NEW port \in Ports, NEW listing \in Listings(port)
  PROVE  /\ listing.blocked \in BOOLEAN /\ listing.safe \subseteq Pids
         /\ \A p \in listing.safe : proc[p] # None /\ proc[p].on = port /\ proc[p].is = port
         /\ ~listing.blocked =>
              \A p \in Pids : proc[p] # None /\ proc[p].on = port => p \in listing.safe
<1>1. PICK read \in SUBSET {p \in Owners(port) : proc[p].is = port} :
        listing = [safe |-> read, blocked |-> read # Owners(port)]
  BY DEF Listings
<1>2. listing.safe = read /\ listing.blocked = (read # Owners(port))  BY <1>1
<1> QED  BY <1>1, <1>2 DEF Owners, Alive


\* The facts about the command of t that the lemmas below start from.
LEMMA Now ==
  ASSUME StackInv, NEW t \in Terminals
  PROVE  /\ term[t] \in Command /\ Sound(t, term[t], proc)
         /\ term[t].bridge \in Bridge /\ term[t].at \in Ports
BY DEF StackInv, StackTypeOK, Command

\* By the step a command is at, what Kept says of its children.
LEMMA KeptBySteps ==
  ASSUME NEW c
  PROVE  /\ c.pc \in WithBridge => Kept(c) = OwnBridge(c)
         /\ c.pc \in WithKids => Kept(c) = c.kids \cup OwnBridge(c)
         /\ c.pc \in Stopping => Kept(c) = c.todo \cup {c.sig}
         /\ c.pc = "clean-bridge" => Kept(c) = c.todo \cup {c.sig} \cup OwnBridge(c)
         /\ c.pc \in Childless => Kept(c) = {}
BY DEF Kept, WithBridge, WithKids, Stopping, Childless

\* The steps and ports are strings that the type lemmas keep opaque.
LEMMA StepNames ==
  /\ WithBridge \subseteq Steps /\ WithKids \subseteq Steps /\ Stopping \subseteq Steps
  /\ Childless \subseteq Steps /\ "clean-bridge" \in Steps
  /\ {"idle", "preflight", "ports", "bridge", "sweep", "report", "control", "control-health",
      "control-failed", "link", "poll", "unlink", "stop", "end"} \subseteq Childless
  /\ {"backend", "frontend", "bridge"} \subseteq Ports
BY DEF WithBridge, WithKids, Stopping, Childless, Steps, Ports

LEMMA GotoTypes ==
  ASSUME NEW c \in Command, NEW go \in Steps
  PROVE  [c EXCEPT !.pc = go] \in Command
BY DEF Command

\* What a step of a command, other than stop-all, must respect to stay sound.
LEMMA Proceeds ==
  ASSUME StackInv, NEW t \in Terminals, NEW c \in Command, Becomes(t, c),
         UNCHANGED System, control' \in {control, None},
         c.cmd = term[t].cmd, term[t].pc \notin {"stop", "end"},
         c.noOrphans => c.pc = "end",
         c.pc \in {"preflight", "ports", "sweep"} => c.at # "bridge",
         c.pc \notin {"dev-exit", "stop"},
         \A p \in Kept(term[t]) : p \in Pids => p \in Kept(c),
         c.bridge = term[t].bridge \/ Trusted(t, c, proc),
         ~PidReuse => \A p \in Touched(c) : p \in Pids /\ proc[p] # None =>
           p \in Touched(term[t]) \/ proc[p].is \in {"backend", "frontend"}
  PROVE  StackInv'
<1> DEFINE d == term[t]
<1>1. /\ Sound(t, d, proc) /\ c.cmd = d.cmd /\ d.pc \notin {"stop", "end"}
      /\ \A p \in Kept(d) : p \in Pids => p \in Kept(c)
      /\ c.bridge = d.bridge \/ Trusted(t, c, proc)
      /\ ~PidReuse => \A p \in Touched(c) : p \in Pids /\ proc[p] # None =>
           p \in Touched(d) \/ proc[p].is \in {"backend", "frontend"}
  BY Now
<1> HIDE DEF d
<1>2. d.cmd # "stop-all"  BY <1>1 DEF Sound, Flow
<1>3. Flow(c)  BY <1>1, <1>2 DEF Flow
<1>4. ChildrenKept(t, c, proc)  BY <1>1 DEF Sound, ChildrenKept
<1>5. SeenKept(t, c, proc)  BY <1>1, <1>2 DEF Sound, SeenKept
<1>6. Trusted(t, c, proc)  BY <1>1 DEF Sound, Trusted
<1>7. ~PidReuse => HeldAreOwn(t, c, proc)  BY <1>1, Names DEF Sound, HeldAreOwn
<1> QED  BY <1>3, <1>4, <1>5, <1>6, <1>7, QuietSteps DEF Sound

\* A step that only goes on: nothing else of the command changes.
LEMMA GoesOn ==
  ASSUME StackInv, NEW t \in Terminals, NEW go \in Steps, Goto(t, go),
         UNCHANGED <<System, control>>,
         \/ term[t].pc \in Childless
         \/ term[t].pc \in WithBridge /\ go \in WithBridge
         \/ term[t].pc \in WithKids /\ go \in WithKids,
         go \notin {"dev-exit", "stop"}, term[t].pc \notin {"stop", "end"},
         go \in {"preflight", "ports", "sweep"} => term[t].at # "bridge"
  PROVE  StackInv'
<1> DEFINE d == term[t]
           c == [d EXCEPT !.pc = go]
<1>1. c \in Command  BY Now, GotoTypes
<1>2. Becomes(t, c)  BY DEF Goto
<1>3. /\ c.pc = go /\ c.todo = d.todo /\ c.sig = d.sig /\ c.kids = d.kids /\ c.cmd = d.cmd
      /\ c.bridge = d.bridge /\ c.at = d.at /\ c.noOrphans = d.noOrphans
  BY Now DEF Command
<1>4. Sound(t, d, proc)  BY Now
<1>5. /\ d.pc \notin {"stop", "end"} /\ (go \in {"preflight", "ports", "sweep"} => d.at # "bridge")
      /\ \/ d.pc \in Childless
         \/ d.pc \in WithBridge /\ go \in WithBridge
         \/ d.pc \in WithKids /\ go \in WithKids
  OBVIOUS
<1> HIDE DEF c
<1>6. ~d.noOrphans  BY <1>4, <1>5 DEF Sound, Flow
<1>7. OwnBridge(c) = OwnBridge(d)  BY <1>3 DEF OwnBridge
<1>8. Kept(d) \subseteq Kept(c)  BY <1>7, <1>3, <1>5, KeptBySteps
<1>9. Touched(c) = Touched(d)  BY <1>3 DEF Touched
<1> QED  BY <1>1, <1>2, <1>3, <1>5, <1>6, <1>8, <1>9, Proceeds

-----------------------------------------------------------------------------
\* The steps that only go on.
LEMMA PreflightStep ==
  ASSUME StackInv, NEW t \in Terminals, Preflight(t)
  PROVE  StackInv'
<1>1. PICK next \in {"ports", "clean"} : Goto(t, next)  BY DEF Preflight
<1>2. term[t].pc = "preflight" /\ UNCHANGED <<System, control>>  BY DEF Preflight, At
<1>3. term[t].at # "bridge"  BY <1>2, Now DEF Sound, Flow
<1> QED  BY <1>1, <1>2, <1>3, GoesOn DEF Steps, Childless, WithBridge, WithKids, Stopping

LEMMA PollTimeoutStep ==
  ASSUME StackInv, NEW t \in Terminals, PollTimeout(t)
  PROVE  StackInv'
BY GoesOn DEF PollTimeout, At, Steps, Childless, WithBridge, WithKids, Stopping

LEMMA AskPublicLinkStep ==
  ASSUME StackInv, NEW t \in Terminals, AskPublicLink(t)
  PROVE  StackInv'
<1>1. PICK next \in {"end", "poll", "unlink"} : Goto(t, next)  BY DEF AskPublicLink
<1>2. term[t].pc \in {"link", "poll"} /\ UNCHANGED <<System, control>>
  BY DEF AskPublicLink, At
<1> QED  BY <1>1, <1>2, GoesOn DEF Steps, Childless, WithBridge, WithKids, Stopping

-----------------------------------------------------------------------------
\* The steps of runVerifyStack up to the launches.
LEMMA EnsurePortAvailableStep ==
  ASSUME StackInv, NEW t \in Terminals, EnsurePortAvailable(t)
  PROVE  StackInv'
<1> DEFINE d == term[t]
<1>1. /\ d.pc = "ports" /\ d.todo = {} /\ d.sig = None /\ UNCHANGED <<System, control>>
      /\ d \in Command /\ Sound(t, d, proc) /\ d.at \in Ports /\ d.at # "bridge"
  BY Now DEF EnsurePortAvailable, At, Sound, Flow
<1>2. PICK listing \in Listings(d.at) :
        IF listing.blocked THEN Goto(t, "clean")
        ELSE Becomes(t, IF d.at = "backend"
                          THEN [d EXCEPT !.todo = listing.safe, !.at = "frontend"]
                          ELSE [d EXCEPT !.todo = listing.safe, !.pc = "bridge"])
  BY DEF EnsurePortAvailable
<1>3. CASE listing.blocked
  BY <1>1, <1>2, <1>3, GoesOn DEF Steps, Childless, WithBridge, WithKids, Stopping
<1>4. CASE ~listing.blocked
  <2> DEFINE c == IF d.at = "backend"
                    THEN [d EXCEPT !.todo = listing.safe, !.at = "frontend"]
                    ELSE [d EXCEPT !.todo = listing.safe, !.pc = "bridge"]
  <2>1. Becomes(t, c)  BY <1>2, <1>4
  <2>2. /\ listing.safe \subseteq Pids
        /\ \A p \in listing.safe : proc[p] # None /\ proc[p].is \in {"backend", "frontend"}
    BY <1>1, ListingFacts DEF Ports
  <2>3. c \in Command  BY <1>1, <2>2, StepNames DEF Command
  <2>4. /\ c.pc \in {"ports", "bridge"} /\ (c.pc = "ports" => c.at = "frontend")
        /\ c.todo = listing.safe /\ c.sig = d.sig /\ c.kids = d.kids /\ c.cmd = d.cmd
        /\ c.bridge = d.bridge /\ c.noOrphans = d.noOrphans
    BY <1>1 DEF Command
  <2> HIDE DEF c
  <2>5. ~d.noOrphans  BY <1>1 DEF Sound, Flow
  <2>6. Kept(d) = {}
    BY <1>1, KeptBySteps DEF Steps, Childless, WithBridge, WithKids, Stopping
  <2>7. \A p \in Touched(c) : p \in Touched(d) \/ proc[p].is \in {"backend", "frontend"}
    BY <2>2, <2>4 DEF Touched
  <2> QED  BY <1>1, <2>1, <2>3, <2>4, <2>5, <2>6, <2>7, Proceeds
<1> QED  BY <1>3, <1>4

\* The steps before the backend: what its start goes on to, and what is opaque of it.
LEMMA AfterBridgeSteps ==
  ASSUME NEW t
  PROVE  AfterBridge(t) \in {"dev", "backend"}
BY DEF AfterBridge

LEMMA GiveUpBridgeStep ==
  ASSUME StackInv, NEW t \in Terminals, GiveUpBridge(t), UNCHANGED <<System, control>>,
         term[t].pc \in {"bridge-health", "bridge-owner"},
         term[t].todo = {}, term[t].sig = None
  PROVE  StackInv'
<1> DEFINE d == term[t]
<1>1. d \in Command /\ Sound(t, d, proc) /\ d.bridge \in Bridge  BY Now
<1>2. Kept(d) = OwnBridge(d) /\ ~d.noOrphans
  BY <1>1, KeptBySteps DEF Sound, Flow, WithBridge
<1>3. CASE d.bridge.started
  <2> DEFINE b == BridgeNow(t, "failed")
             c == [d EXCEPT !.pc = "bridge-stopped", !.fails = FALSE,
                            !.todo = {d.bridge.pid}, !.bridge = b]
  <2>1. Becomes(t, c)  BY <1>3 DEF GiveUpBridge
  <2>2. b \in Bridge /\ b.status = "failed" /\ b.pid = d.bridge.pid
    BY <1>1 DEF Bridge, BridgeNow, BridgeStatus
  <2> HIDE DEF b
  <2>3. d.bridge.pid \in Pids \cup {None}  BY <1>1 DEF Bridge
  <2>4. c \in Command  BY <1>1, <2>2, <2>3, StepNames DEF Command, Stopping
  <2>5. /\ c.pc = "bridge-stopped" /\ c.todo = {d.bridge.pid} /\ c.sig = d.sig
        /\ c.kids = d.kids /\ c.cmd = d.cmd /\ c.bridge = b /\ c.noOrphans = d.noOrphans
    BY <1>1 DEF Command
  <2> HIDE DEF c
  <2>6. \A p \in Kept(d) : p \in Kept(c)
    BY <1>2, <2>5, KeptBySteps DEF OwnBridge, Stopping
  <2>7. Trusted(t, c, proc)  BY <2>2, <2>5 DEF Trusted
  <2>8. Touched(c) \subseteq Touched(d)  BY <2>2, <2>5 DEF Touched
  <2> QED  BY <1>2, <2>1, <2>4, <2>5, <2>6, <2>7, <2>8, Proceeds
<1>4. CASE ~d.bridge.started
  <2> DEFINE go == AfterBridge(t)
             c == [d EXCEPT !.pc = go, !.bridge = NoBridge]
  <2>1. Becomes(t, c)  BY <1>4 DEF GiveUpBridge
  <2>2. go \in {"dev", "backend"}  BY AfterBridgeSteps
  <2> HIDE DEF go
  <2>0. NoBridge \in Bridge  BY DEF Bridge, NoBridge, BridgeStatus
  <2>3. c \in Command  BY <1>1, <2>0, <2>2, StepNames DEF Command, WithBridge
  <2>4. /\ c.pc = go /\ c.todo = d.todo /\ c.sig = d.sig
        /\ c.kids = d.kids /\ c.cmd = d.cmd /\ c.bridge = NoBridge /\ c.noOrphans = d.noOrphans
    BY <1>1 DEF Command
  <2> HIDE DEF c
  <2>5. Kept(d) = {}  BY <1>2, <1>4 DEF OwnBridge
  <2>6. Trusted(t, c, proc)  BY <2>4 DEF Trusted, NoBridge
  <2>7. \A p \in Touched(c) : p \in Touched(d) \/ p = None
    BY <2>4 DEF Touched, NoBridge
  <2> QED  BY <1>2, <2>1, <2>2, <2>3, <2>4, <2>5, <2>6, <2>7, Names, Proceeds
<1> QED  BY <1>3, <1>4

LEMMA BridgeHealthStep ==
  ASSUME StackInv, NEW t \in Terminals, BridgeHealth(t)
  PROVE  StackInv'
<1>1. /\ term[t].pc = "bridge-health" /\ term[t].todo = {} /\ term[t].sig = None
      /\ UNCHANGED <<System, control>>
      /\ Goto(t, "bridge-owner") \/ GiveUpBridge(t)
  BY DEF BridgeHealth, At
<1> QED  BY <1>1, GoesOn, GiveUpBridgeStep DEF Steps, WithBridge

LEMMA BridgeOwnerStep ==
  ASSUME StackInv, NEW t \in Terminals, BridgeOwner(t)
  PROVE  StackInv'
<1> DEFINE d == term[t]
           b == BridgeNow(t, "ready")
           go == AfterBridge(t)
           c == [d EXCEPT !.pc = go, !.bridge = b]
<1>1. /\ d.pc = "bridge-owner" /\ d.todo = {} /\ d.sig = None /\ UNCHANGED <<System, control>>
      /\ d \in Command /\ Sound(t, d, proc) /\ d.bridge \in Bridge
  BY Now DEF BridgeOwner, At
<1>2. PICK listing \in Listings("bridge") :
        IF /\ ~listing.blocked
           /\ IF d.bridge.started THEN d.bridge.pid \in listing.safe ELSE listing.safe # {}
          THEN Becomes(t, c) ELSE GiveUpBridge(t)
  BY DEF BridgeOwner
<1>3. CASE GiveUpBridge(t)  BY <1>1, <1>3, GiveUpBridgeStep
<1>4. CASE Becomes(t, c) /\ (d.bridge.started => d.bridge.pid \in listing.safe)
  <2>1. /\ b \in Bridge /\ b.pid = d.bridge.pid /\ b.started = d.bridge.started
        /\ b.clean = d.bridge.clean
    BY <1>1 DEF Bridge, BridgeNow, BridgeStatus
  <2>2. go \in {"dev", "backend"}  BY AfterBridgeSteps
  <2> HIDE DEF b, go
  <2>3. c \in Command  BY <1>1, <2>1, <2>2, StepNames DEF Command, WithBridge
  <2>4. /\ c.pc = go /\ c.todo = d.todo /\ c.sig = d.sig
        /\ c.kids = d.kids /\ c.cmd = d.cmd /\ c.bridge = b /\ c.noOrphans = d.noOrphans
    BY <1>1 DEF Command
  <2> HIDE DEF c
  <2>5. OwnBridge(c) = OwnBridge(d) /\ ~d.noOrphans
    BY <1>1, <2>1, <2>4 DEF OwnBridge, Sound, Flow
  <2>6. Kept(c) = Kept(d)
    BY <1>1, <2>2, <2>4, <2>5, KeptBySteps DEF WithBridge
  <2>7. Trusted(t, c, proc)
    BY <1>4, <2>1, <2>4, ListingFacts DEF Trusted, Ports
  <2>8. Touched(c) = Touched(d)  BY <2>1, <2>4 DEF Touched
  <2> QED  BY <1>1, <1>4, <2>2, <2>3, <2>4, <2>5, <2>6, <2>7, <2>8, Proceeds
<1> QED  BY <1>2, <1>3, <1>4

LEMMA BridgeStoppedStep ==
  ASSUME StackInv, NEW t \in Terminals, BridgeStopped(t)
  PROVE  StackInv'
<1> DEFINE d == term[t]
           b == [d.bridge EXCEPT !.clean = ~d.fails]
           go == AfterBridge(t)
           c == [d EXCEPT !.pc = go, !.bridge = b]
<1>1. /\ d.pc = "bridge-stopped" /\ d.todo = {} /\ d.sig = None /\ UNCHANGED <<System, control>>
      /\ d \in Command /\ Sound(t, d, proc) /\ d.bridge \in Bridge
  BY Now DEF BridgeStopped, At
<1>2. Becomes(t, c)  BY DEF BridgeStopped
<1>3. /\ b \in Bridge /\ b.pid = d.bridge.pid /\ b.started = d.bridge.started
      /\ b.status = d.bridge.status
  BY <1>1 DEF Bridge, Command
<1>4. go \in {"dev", "backend"}  BY AfterBridgeSteps
<1> HIDE DEF b, go
<1>5. c \in Command  BY <1>1, <1>3, <1>4, StepNames DEF Command, WithBridge
<1>6. /\ c.pc = go /\ c.todo = d.todo /\ c.sig = d.sig
      /\ c.kids = d.kids /\ c.cmd = d.cmd /\ c.bridge = b /\ c.noOrphans = d.noOrphans
  BY <1>1 DEF Command
<1> HIDE DEF c
<1>7. Kept(d) = {None} /\ ~d.noOrphans
  BY <1>1, KeptBySteps DEF Stopping, Sound, Flow
<1>8. Trusted(t, c, proc)  BY <1>1, <1>3, <1>6 DEF Trusted, Sound
<1>9. Touched(c) = Touched(d)  BY <1>3, <1>6 DEF Touched
<1> QED  BY <1>1, <1>2, <1>4, <1>5, <1>6, <1>7, <1>8, <1>9, Names, Proceeds

LEMMA StackHealthStep ==
  ASSUME StackInv, NEW t \in Terminals, StackHealth(t)
  PROVE  StackInv'
<1> DEFINE d == term[t]
<1>1. /\ d.pc \in {"backend-health", "build", "frontend-health"} /\ d.todo = {} /\ d.sig = None
      /\ UNCHANGED <<System, control>> /\ d \in Command /\ Sound(t, d, proc)
  BY Now DEF StackHealth, At
<1>2. CASE \E go \in {"build", "frontend", "clean"} : Goto(t, go)
  BY <1>1, <1>2, GoesOn DEF Steps, WithKids
<1>3. ASSUME NEW ok \in BOOLEAN, Becomes(t, [d EXCEPT !.pc = "clean", !.ok = ok])
      PROVE  StackInv'
  <2> DEFINE c == [d EXCEPT !.pc = "clean", !.ok = ok]
  <2>1. Becomes(t, c)  BY <1>3
  <2>2. c \in Command  BY <1>1, StepNames DEF Command, WithKids
  <2>3. /\ c.pc = "clean" /\ c.todo = d.todo /\ c.sig = d.sig /\ c.kids = d.kids
        /\ c.cmd = d.cmd /\ c.bridge = d.bridge /\ c.noOrphans = d.noOrphans
    BY <1>1 DEF Command
  <2> HIDE DEF c
  <2>4. OwnBridge(c) = OwnBridge(d) /\ ~d.noOrphans
    BY <1>1, <2>3 DEF OwnBridge, Sound, Flow
  <2>5. Kept(c) = Kept(d)  BY <1>1, <2>3, <2>4, KeptBySteps DEF WithKids
  <2>6. Touched(c) = Touched(d)  BY <2>3 DEF Touched
  <2> QED  BY <1>1, <2>1, <2>2, <2>3, <2>4, <2>5, <2>6, Proceeds
<1>4. \A port : Answers(port) \subseteq BOOLEAN  BY DEF Answers
<1> QED  BY <1>2, <1>3, <1>4 DEF StackHealth

-----------------------------------------------------------------------------
\* The steps of finally.
LEMMA CleanLaunchedStep ==
  ASSUME StackInv, NEW t \in Terminals, CleanLaunched(t)
  PROVE  StackInv'
<1> DEFINE d == term[t]
           c == [d EXCEPT !.pc = "clean-bridge", !.kids = {}, !.todo = d.kids]
<1>1. /\ d.pc = "clean" /\ d.todo = {} /\ d.sig = None /\ UNCHANGED <<System, control>>
      /\ d \in Command /\ Sound(t, d, proc) /\ Becomes(t, c)
  BY Now DEF CleanLaunched, At
<1>2. c \in Command  BY <1>1, StepNames DEF Command
<1>3. /\ c.pc = "clean-bridge" /\ c.todo = d.kids /\ c.sig = d.sig /\ c.kids = {}
      /\ c.cmd = d.cmd /\ c.bridge = d.bridge /\ c.noOrphans = d.noOrphans
  BY <1>1 DEF Command
<1> HIDE DEF c
<1>4. OwnBridge(c) = OwnBridge(d) /\ ~d.noOrphans
  BY <1>1, <1>3 DEF OwnBridge, Sound, Flow
<1>5. Kept(d) \subseteq Kept(c)  BY <1>1, <1>3, <1>4, KeptBySteps DEF WithKids
<1>6. Touched(c) \subseteq Touched(d)  BY <1>3 DEF Touched
<1> QED  BY <1>1, <1>2, <1>3, <1>4, <1>5, <1>6, Proceeds

LEMMA StopReferenceBridgeStep ==
  ASSUME StackInv, NEW t \in Terminals, StopReferenceBridge(t)
  PROVE  StackInv'
<1> DEFINE d == term[t]
           own == IF d.bridge.started /\ ~d.bridge.clean THEN {d.bridge.pid} ELSE {}
           c == [d EXCEPT !.pc = "bridge-cleaned", !.fails = FALSE, !.todo = own]
<1>1. /\ d.pc = "clean-bridge" /\ d.todo = {} /\ d.sig = None /\ UNCHANGED <<System, control>>
      /\ d \in Command /\ Sound(t, d, proc) /\ Becomes(t, c)
  BY Now DEF StopReferenceBridge, At
<1>2. own = OwnBridge(d) /\ own \subseteq {d.bridge.pid}  BY DEF OwnBridge
<1> HIDE DEF own
<1>3. d.bridge.pid \in Pids \cup {None}  BY Now DEF Bridge
<1>4. c \in Command  BY <1>1, <1>2, <1>3, StepNames DEF Command, Stopping
<1>5. /\ c.pc = "bridge-cleaned" /\ c.todo = own /\ c.sig = d.sig /\ c.kids = d.kids
      /\ c.cmd = d.cmd /\ c.bridge = d.bridge /\ c.noOrphans = d.noOrphans
  BY <1>1 DEF Command
<1> HIDE DEF c
<1>6. \A p \in Kept(d) : p \in Pids => p \in Kept(c)
  BY <1>1, <1>2, <1>5, KeptBySteps, Names DEF Stopping
<1>7. Touched(c) \subseteq Touched(d) /\ ~d.noOrphans
  BY <1>1, <1>2, <1>5 DEF Touched, Sound, Flow
<1> QED  BY <1>1, <1>4, <1>5, <1>6, <1>7, Proceeds

LEMMA BridgeCleanedStep ==
  ASSUME StackInv, NEW t \in Terminals, BridgeCleaned(t)
  PROVE  StackInv'
<1> DEFINE d == term[t]
           left == d.bridge.started /\ ~d.bridge.clean /\ d.fails
           go == IF d.cmd = "dev" THEN "end" ELSE "sweep"
           c == [d EXCEPT !.left = left, !.bridge = NoBridge, !.fails = FALSE,
                          !.at = "backend", !.pc = go]
<1>1. /\ d.pc = "bridge-cleaned" /\ d.todo = {} /\ d.sig = None /\ UNCHANGED <<System, control>>
      /\ d \in Command /\ Sound(t, d, proc) /\ Becomes(t, c)
  BY Now DEF BridgeCleaned, At
<1>2. go \in {"end", "sweep"}  OBVIOUS
<1>3. left \in BOOLEAN
  <2>1. d.bridge.started \in BOOLEAN /\ d.bridge.clean \in BOOLEAN /\ d.fails \in BOOLEAN
    BY <1>1, Now DEF Bridge, Command
  <2> QED  BY <2>1
<1> HIDE DEF left, go
<1>4. NoBridge \in Bridge  BY DEF Bridge, NoBridge, BridgeStatus
<1>5. c \in Command  BY <1>1, <1>2, <1>3, <1>4, StepNames DEF Command
<1>6. /\ c.pc = go /\ c.todo = {} /\ c.sig = None /\ c.kids = d.kids /\ c.at = "backend"
      /\ c.cmd = d.cmd /\ c.bridge = NoBridge /\ c.noOrphans = d.noOrphans
  BY <1>1 DEF Command
<1> HIDE DEF c
<1>7. Kept(d) = {None} /\ ~d.noOrphans
  BY <1>1, KeptBySteps DEF Stopping, Sound, Flow
<1>8. Trusted(t, c, proc)  BY <1>6 DEF Trusted, NoBridge
<1>9. \A p \in Touched(c) : p \in Touched(d) \/ p = None
  BY <1>6 DEF Touched, NoBridge
<1> QED  BY <1>1, <1>2, <1>5, <1>6, <1>7, <1>8, <1>9, Names, Proceeds

LEMMA SweepStep ==
  ASSUME StackInv, NEW t \in Terminals, Sweep(t)
  PROVE  StackInv'
<1> DEFINE d == term[t]
           go == IF d.at = "backend" THEN "sweep" ELSE "report"
<1>1. /\ d.pc = "sweep" /\ d.todo = {} /\ d.sig = None /\ UNCHANGED <<System, control>>
      /\ d \in Command /\ Sound(t, d, proc) /\ d.at \in Ports /\ d.at # "bridge"
  BY Now DEF Sweep, At, Sound, Flow
<1>2. PICK listing \in Listings(d.at) :
        Becomes(t, [d EXCEPT !.todo = listing.safe, !.left = d.left \/ listing.safe # {},
                             !.at = "frontend", !.pc = go])
  BY DEF Sweep
<1> DEFINE left == d.left \/ listing.safe # {}
           c == [d EXCEPT !.todo = listing.safe, !.left = left, !.at = "frontend", !.pc = go]
<1>3. Becomes(t, c)  BY <1>2
<1>4. /\ listing.safe \subseteq Pids
      /\ \A p \in listing.safe : proc[p] # None /\ proc[p].is \in {"backend", "frontend"}
  BY <1>1, ListingFacts DEF Ports
<1>5. go \in {"sweep", "report"} /\ left \in BOOLEAN  BY <1>1 DEF Command
<1> HIDE DEF go, left
<1>6. c \in Command  BY <1>1, <1>4, <1>5, StepNames DEF Command
<1>7. /\ c.pc = go /\ c.todo = listing.safe /\ c.sig = d.sig /\ c.kids = d.kids
      /\ c.at = "frontend" /\ c.cmd = d.cmd /\ c.bridge = d.bridge /\ c.noOrphans = d.noOrphans
  BY <1>1 DEF Command
<1> HIDE DEF c
<1>8. Kept(d) = {} /\ ~d.noOrphans
  BY <1>1, KeptBySteps, StepNames DEF Sound, Flow
<1>9. \A p \in Touched(c) : p \in Touched(d) \/ proc[p].is \in {"backend", "frontend"}
  BY <1>4, <1>7 DEF Touched
<1> QED  BY <1>1, <1>3, <1>5, <1>6, <1>7, <1>8, <1>9, Proceeds

LEMMA ReportStep ==
  ASSUME StackInv, NEW t \in Terminals, Report(t)
  PROVE  StackInv'
<1> DEFINE d == term[t]
           c == IF d.cmd = "link-start" /\ d.ok /\ ~d.left
                  THEN [Idle EXCEPT !.cmd = d.cmd, !.pc = "control"]
                  ELSE [Idle EXCEPT !.cmd = d.cmd, !.pc = "end", !.noOrphans = ~d.left]
<1>1. /\ d.pc = "report" /\ d.todo = {} /\ d.sig = None /\ UNCHANGED <<System, control>>
      /\ d \in Command /\ Sound(t, d, proc) /\ Becomes(t, c)
  BY Now DEF Report, At
<1>2. NoBridge \in Bridge  BY DEF Bridge, NoBridge, BridgeStatus
<1>3. d.cmd \in Scripts \cup {None} /\ d.left \in BOOLEAN  BY <1>1 DEF Command
<1>4. c \in Command
  BY <1>2, <1>3, StepNames DEF Idle, Command
<1>5. /\ c.pc \in {"control", "end"} /\ (c.noOrphans => c.pc = "end") /\ c.todo = {}
      /\ c.sig = None /\ c.kids = {} /\ c.cmd = d.cmd /\ c.bridge = NoBridge
  BY DEF Idle
<1> HIDE DEF c
<1>6. Kept(d) = {}  BY <1>1, KeptBySteps, StepNames
<1>7. Trusted(t, c, proc)  BY <1>5 DEF Trusted, NoBridge
<1>8. \A p \in Touched(c) : p = None  BY <1>5 DEF Touched, NoBridge
<1> QED  BY <1>1, <1>4, <1>5, <1>6, <1>7, <1>8, Names, Proceeds

-----------------------------------------------------------------------------
\* The steps of remote-link that start no process.
LEMMA ControlHealthStep ==
  ASSUME StackInv, NEW t \in Terminals, ControlHealth(t)
  PROVE  StackInv'
<1> DEFINE d == term[t]
           c == [d EXCEPT !.pc = "control-failed", !.todo = d.kids]
<1>1. /\ d.pc = "control-health" /\ d.todo = {} /\ d.sig = None /\ UNCHANGED <<System, control>>
      /\ d \in Command /\ Sound(t, d, proc) /\ (Goto(t, "link") \/ Becomes(t, c))
  BY Now DEF ControlHealth, At
<1>2. CASE Goto(t, "link")
  BY <1>1, <1>2, GoesOn DEF Steps, Childless, WithBridge, WithKids, Stopping
<1>3. CASE Becomes(t, c)
  <2>1. c \in Command  BY <1>1, StepNames DEF Command
  <2>2. /\ c.pc = "control-failed" /\ c.todo = d.kids /\ c.sig = d.sig /\ c.kids = d.kids
        /\ c.cmd = d.cmd /\ c.bridge = d.bridge /\ c.noOrphans = d.noOrphans
    BY <1>1 DEF Command
  <2> HIDE DEF c
  <2>3. Kept(d) = {} /\ ~d.noOrphans
    BY <1>1, KeptBySteps DEF Childless, Steps, WithBridge, WithKids, Stopping, Sound, Flow
  <2>4. Touched(c) \subseteq Touched(d)  BY <2>2 DEF Touched
  <2> QED  BY <1>1, <1>3, <2>1, <2>2, <2>3, <2>4, Proceeds
<1> QED  BY <1>1, <1>2, <1>3

\* To the end of the command, with those still to be stopped.
LEMMA EndsWith ==
  ASSUME StackInv, NEW t \in Terminals, NEW rest \in SUBSET Pids,
         Becomes(t, [term[t] EXCEPT !.pc = "end", !.todo = rest]),
         term[t].pc \in {"control-failed", "unlink"},
         UNCHANGED System, control' \in {control, None},
         ~PidReuse => \A p \in rest : proc[p] # None => proc[p].is = "backend"
  PROVE  StackInv'
<1> DEFINE d == term[t]
           c == [d EXCEPT !.pc = "end", !.todo = rest]
<1>1. Becomes(t, c) /\ d \in Command /\ Sound(t, d, proc) /\ d.pc \in {"control-failed", "unlink"}
  BY Now
<1>2. c \in Command  BY <1>1, StepNames DEF Command
<1>3. /\ c.pc = "end" /\ c.todo = rest /\ c.sig = d.sig /\ c.kids = d.kids
      /\ c.cmd = d.cmd /\ c.bridge = d.bridge
  BY <1>1 DEF Command
<1> HIDE DEF c
<1>4. Kept(d) = {}  BY <1>1, KeptBySteps, StepNames
<1>5. \A p \in Touched(c) : p \in rest \/ p \in Touched(d)  BY <1>3 DEF Touched
<1> QED  BY <1>1, <1>2, <1>3, <1>4, <1>5, Proceeds

LEMMA ControlFailedStep ==
  ASSUME StackInv, NEW t \in Terminals, ControlFailed(t)
  PROVE  StackInv'
<1>1. /\ term[t].pc = "control-failed" /\ term[t].todo = {}
      /\ UNCHANGED System /\ control' = None /\ term[t] \in Command
      /\ Becomes(t, [term[t] EXCEPT !.pc = "end"])
  BY Now DEF ControlFailed, At, Goto
<1>2. [term[t] EXCEPT !.pc = "end"] = [term[t] EXCEPT !.pc = "end", !.todo = {}]
  BY <1>1 DEF Command
<1> QED  BY <1>1, <1>2, EndsWith

LEMMA StopControlBackendStep ==
  ASSUME StackInv, NEW t \in Terminals, StopControlBackend(t)
  PROVE  StackInv'
<1>1. /\ term[t].pc = "unlink" /\ UNCHANGED System /\ control' = None
      /\ Becomes(t, [term[t] EXCEPT !.pc = "end", !.todo = {control} \ {None}])
  BY DEF StopControlBackend, At
<1>2. {control} \ {None} \in SUBSET Pids  BY DEF StackInv, StackTypeOK
<1>3. ~PidReuse => \A p \in {control} \ {None} : proc[p] # None => proc[p].is = "backend"
  BY <1>2 DEF StackInv, ControlIsOurs
<1> QED  BY <1>1, <1>2, <1>3, EndsWith

-----------------------------------------------------------------------------
\* stopPid.  A child of the command gets its signal: no other user can have it.
LEMMA StopBeginStep ==
  ASSUME StackInv, NEW t \in Terminals, NEW p, StopBegin(t, p)
  PROVE  StackInv'
<1> DEFINE d == term[t]
<1>1. /\ d \in Command /\ Sound(t, d, proc) /\ d.bridge \in Bridge /\ p \in d.todo /\ d.sig = None
      /\ proc' = proc /\ control' = control /\ p \in Pids \cup {None}
  BY Now DEF StopBegin, Command
<1>2. ASSUME NEW c \in Command, Becomes(t, c), c.sig \in {None, p},
             c.todo = d.todo \ {p}, c.fails \in {TRUE, d.fails},
             c.pc = d.pc /\ c.kids = d.kids /\ c.cmd = d.cmd /\ c.bridge = d.bridge
             /\ c.noOrphans = d.noOrphans /\ c.at = d.at /\ c.blocked = d.blocked,
             c.sig = p \/ c.fails \/ (p \in Pids /\ proc[p] = None),
             c.sig = p \/ p \notin Pids \/ ~ChildOf(t, proc, p),
             strangerHit' \in BOOLEAN, ~PidReuse => ~strangerHit'
      PROVE  StackInv'
  <2>1. Flow(c)  BY <1>1, <1>2 DEF Sound, Flow
  <2>2. OwnBridge(c) = OwnBridge(d)  BY <1>2 DEF OwnBridge
  <2>3. \A q \in Kept(d) : q \in Kept(c) \/ q = None \/ (q = p /\ c.sig # p)
    <3>1. \/ d.pc \in WithBridge \/ d.pc \in WithKids \/ d.pc \in Stopping
          \/ d.pc = "clean-bridge" \/ d.pc \in Childless
      BY <1>1 DEF Childless, Command
    <3> QED  BY <1>1, <1>2, <2>2, <3>1, KeptBySteps
  <2>4. ChildrenKept(t, c, proc)
    BY <1>1, <1>2, <2>2, <2>3, Names DEF Sound, ChildrenKept
  <2>5. ToList(c) = ToList(d)  BY <1>2 DEF ToList
  <2>6. SeenKept(t, c, proc)  BY <1>1, <1>2, <2>5, Names DEF Sound, SeenKept
  <2>7. Trusted(t, c, proc)  BY <1>1, <1>2 DEF Sound, Trusted
  <2>8. ~PidReuse => HeldAreOwn(t, c, proc)
    BY <1>1, <1>2 DEF Sound, HeldAreOwn, Touched
  <2>9. Sound(t, c, proc') /\ proc' \in Table /\ control' \in Pids \cup {None} /\ ControlIsOurs'
    BY <1>1, <2>1, <2>4, <2>6, <2>7, <2>8 DEF Sound, StackInv, StackTypeOK, Table, ControlIsOurs
  <2> QED  BY <1>1, <1>2, <2>9, Assemble, SameIsGentle
<1> DEFINE tried == [d EXCEPT !.todo = d.todo \ {p}]
<1>3. CASE /\ \/ p = None \/ (p \in Alive /\ proc[p].by = None)
           /\ Becomes(t, [tried EXCEPT !.fails = TRUE]) /\ UNCHANGED strangerHit
  <2> DEFINE c == [tried EXCEPT !.fails = TRUE]
  <2>1. c \in Command  BY <1>1 DEF Command
  <2>2. /\ c.todo = d.todo \ {p} /\ c.sig = d.sig /\ c.fails = TRUE /\ c.pc = d.pc
        /\ c.kids = d.kids /\ c.cmd = d.cmd /\ c.bridge = d.bridge
        /\ c.noOrphans = d.noOrphans /\ c.at = d.at /\ c.blocked = d.blocked
    BY <1>1 DEF Command
  <2>3. Becomes(t, c)  BY <1>3
  <2> HIDE DEF c
  <2>4. p \notin Pids \/ ~ChildOf(t, proc, p)  BY <1>3, Names DEF ChildOf
  <2>5. strangerHit' = strangerHit  BY <1>3
  <2> QED
    BY <1>1, <2>1, <2>2, <2>3, <2>4, <2>5, <1>2 DEF StackInv, StackTypeOK, SparesOthers
<1>4. CASE p \in Pids \ Alive /\ Becomes(t, tried) /\ UNCHANGED strangerHit
  <2>1. tried \in Command  BY <1>1 DEF Command
  <2>2. /\ tried.todo = d.todo \ {p} /\ tried.sig = d.sig /\ tried.fails = d.fails
        /\ tried.pc = d.pc /\ tried.kids = d.kids /\ tried.cmd = d.cmd
        /\ tried.bridge = d.bridge /\ tried.noOrphans = d.noOrphans /\ tried.at = d.at
        /\ tried.blocked = d.blocked
    BY <1>1 DEF Command
  <2> HIDE DEF tried
  <2>3. p \in Pids /\ proc[p] = None /\ ~ChildOf(t, proc, p)  BY <1>4 DEF Alive, ChildOf
  <2>4. strangerHit' \in BOOLEAN /\ (~PidReuse => ~strangerHit')
    BY <1>4 DEF StackInv, StackTypeOK, SparesOthers
  <2>5. Becomes(t, tried)  BY <1>4
  <2> QED  BY <1>1, <2>1, <2>2, <2>3, <2>4, <2>5, <1>2
<1>5. CASE p \in Alive /\ Becomes(t, [tried EXCEPT !.sig = p]) /\ Signalled(p)
  <2> DEFINE c == [tried EXCEPT !.sig = p]
  <2>1. c \in Command  BY <1>1 DEF Command
  <2>2. /\ c.todo = d.todo \ {p} /\ c.sig = p /\ c.fails = d.fails /\ c.pc = d.pc
        /\ c.kids = d.kids /\ c.cmd = d.cmd /\ c.bridge = d.bridge
        /\ c.noOrphans = d.noOrphans /\ c.at = d.at /\ c.blocked = d.blocked
    BY <1>1 DEF Command
  <2>3. Becomes(t, c)  BY <1>5
  <2> HIDE DEF c
  <2>4. ~PidReuse => proc[p].is # Foreign
    BY <1>1, <1>5 DEF Sound, HeldAreOwn, Touched, Alive
  <2>5. strangerHit' \in BOOLEAN /\ (~PidReuse => ~strangerHit')
    BY <1>5, <2>4 DEF Signalled, StackInv, StackTypeOK, SparesOthers
  <2> QED  BY <1>1, <2>1, <2>2, <2>3, <2>5, <1>2
<1> QED  BY <1>3, <1>4, <1>5 DEF StopBegin

LEMMA StopEndStep ==
  ASSUME StackInv, NEW t \in Terminals, StopEnd(t)
  PROVE  StackInv'
<1> DEFINE d == term[t]
           p == d.sig
           c == [d EXCEPT !.sig = None]
<1>1. /\ d \in Command /\ Sound(t, d, proc) /\ p \in Pids /\ control' = control /\ Becomes(t, c)
      /\ proc \in Table
  BY Now DEF StopEnd, Command, StackInv, StackTypeOK, Table
<1>2. /\ proc'[p] = None /\ \A q \in Pids \ {p} : proc'[q] = proc[q]
      /\ proc' \in Table
  <2>1. CASE p \in Alive
    <3>1. proc' = [proc EXCEPT ![p] = None]  BY <2>1 DEF StopEnd
    <3> QED  BY <1>1, <3>1 DEF Table
  <2>2. CASE p \notin Alive  BY <1>1, <2>2 DEF StopEnd, Alive
  <2> QED  BY <2>1, <2>2
<1>3. strangerHit' \in BOOLEAN /\ (~PidReuse => ~strangerHit')
  <2>1. CASE p \in Alive
    <3>1. ~PidReuse => proc[p].is # Foreign
      BY <1>1, <2>1 DEF Sound, HeldAreOwn, Touched, Alive
    <3>2. Signalled(p)  BY <2>1 DEF StopEnd
    <3> QED  BY <3>1, <3>2 DEF Signalled, StackInv, StackTypeOK, SparesOthers
  <2>2. CASE p \notin Alive
    <3>1. strangerHit' = strangerHit  BY <2>2 DEF StopEnd
    <3> QED  BY <3>1 DEF StackInv, StackTypeOK, SparesOthers
  <2> QED  BY <2>1, <2>2
<1>4. c \in Command  BY <1>1 DEF Command
<1>5. /\ c.todo = d.todo /\ c.sig = None /\ c.fails = d.fails /\ c.pc = d.pc
      /\ c.kids = d.kids /\ c.cmd = d.cmd /\ c.bridge = d.bridge
      /\ c.noOrphans = d.noOrphans /\ c.at = d.at /\ c.blocked = d.blocked
  BY <1>1 DEF Command
<1> HIDE DEF c
<1>6. Flow(c) /\ OwnBridge(c) = OwnBridge(d) /\ ToList(c) = ToList(d)
  BY <1>1, <1>5 DEF Sound, Flow, OwnBridge, ToList
<1>7. \A q \in Kept(d) : q \in Kept(c) \/ q = p
  <2>1. \/ d.pc \in WithBridge \/ d.pc \in WithKids \/ d.pc \in Stopping
        \/ d.pc = "clean-bridge" \/ d.pc \in Childless
    BY <1>1 DEF Childless, Command
  <2> QED  BY <1>5, <1>6, <2>1, KeptBySteps
<1>8. ChildrenKept(t, c, proc')
  BY <1>1, <1>2, <1>5, <1>6, <1>7 DEF Sound, ChildrenKept, ChildOf
<1>9. SeenKept(t, c, proc')
  BY <1>1, <1>2, <1>5, <1>6 DEF Sound, SeenKept
<1>10. Trusted(t, c, proc')
  BY <1>1, <1>2, <1>5 DEF Sound, Trusted, ChildOf
<1>11. ~PidReuse => HeldAreOwn(t, c, proc')
  BY <1>1, <1>2, <1>5, Names DEF Sound, HeldAreOwn, Touched
<1>12. Gentle(t)
  <2> SUFFICES ASSUME NEW q \in Pids, proc'[q] # None
               PROVE  proc[q] # None /\ proc'[q] = proc[q]
    BY DEF Gentle
  <2> QED  BY <1>2
<1>13. ControlIsOurs' /\ control' \in Pids \cup {None}
  BY <1>1, <1>2 DEF StackInv, StackTypeOK, ControlIsOurs
<1> QED
  BY <1>1, <1>2, <1>3, <1>4, <1>6, <1>8, <1>9, <1>10, <1>11, <1>12, <1>13, Assemble DEF Sound

LEMMA StopAllStep ==
  ASSUME StackInv, NEW t \in Terminals, StopAll(t)
  PROVE  StackInv'
<1> DEFINE d == term[t]
           go == IF d.at = "bridge" THEN "end" ELSE "stop"
           at == IF d.at = "backend" THEN "frontend" ELSE "bridge"
<1>1. /\ d.pc = "stop" /\ d.todo = {} /\ d.sig = None /\ UNCHANGED <<System, control>>
      /\ d \in Command /\ Sound(t, d, proc) /\ d.at \in Ports
  BY Now DEF StopAll, At
<1>2. PICK listing \in Listings(d.at) :
        Becomes(t, [d EXCEPT !.todo = listing.safe, !.blocked = d.blocked \/ listing.blocked,
                             !.pc = go, !.at = at])
  BY DEF StopAll
<1> DEFINE blocked == d.blocked \/ listing.blocked
           c == [d EXCEPT !.todo = listing.safe, !.blocked = blocked, !.pc = go, !.at = at]
<1>3. Becomes(t, c)  BY <1>2
<1>4. /\ listing.safe \subseteq Pids /\ listing.blocked \in BOOLEAN
      /\ \A p \in listing.safe : proc[p] # None /\ proc[p].is \in Ports
      /\ ~listing.blocked => \A p \in Pids : proc[p] # None /\ proc[p].on = d.at
                               => p \in listing.safe
  BY <1>1, ListingFacts
<1>5. /\ go \in {"stop", "end"} /\ at \in {"frontend", "bridge"} /\ blocked \in BOOLEAN
      /\ (listing.blocked \/ d.blocked) => blocked
  BY <1>1, <1>4 DEF Command
<1>6. c \in Command
  <2> HIDE DEF go, at, blocked
  <2> QED  BY <1>1, <1>4, <1>5, StepNames DEF Command
<1>7. /\ c.pc = go /\ c.todo = listing.safe /\ c.sig = None /\ c.kids = d.kids /\ c.at = at
      /\ c.cmd = d.cmd /\ c.bridge = d.bridge /\ c.noOrphans = d.noOrphans
      /\ c.blocked = blocked /\ c.fails = d.fails
  BY <1>1 DEF Command
<1>8. \A port \in ToList(d) : port = d.at \/ port \in ToList(c)
  <2> HIDE DEF c
  <2> QED  BY <1>1, <1>7 DEF ToList, Ports
<1> HIDE DEF c, go, at, blocked
<1>9. d.cmd = "stop-all" /\ ~d.noOrphans  BY <1>1 DEF Sound, Flow
<1>10. Flow(c)  BY <1>5, <1>7, <1>9 DEF Flow
<1>11. ChildrenKept(t, c, proc)
  <2>1. Kept(d) = {}  BY <1>1, KeptBySteps, StepNames
  <2> QED  BY <1>1, <2>1 DEF Sound, ChildrenKept
<1>12. SeenKept(t, c, proc)
  <2> SUFFICES ASSUME NEW p \in Pids, proc[p] # None, t \in proc[p].seen,
                      ~c.blocked, ~c.fails, p \notin c.todo
               PROVE  proc[p].on \in ToList(c)
    BY <1>1, <1>7, <1>9 DEF Sound, SeenKept
  <2>1. proc[p].on \in ToList(d)
    BY <1>1, <1>5, <1>7, Names DEF Sound, SeenKept
  <2> QED  BY <2>1, <1>4, <1>5, <1>7, <1>8
<1>13. Trusted(t, c, proc)  BY <1>1, <1>7 DEF Sound, Trusted
<1>14. ~PidReuse => HeldAreOwn(t, c, proc)
  BY <1>1, <1>4, <1>7, <1>9, Names DEF Sound, HeldAreOwn, Touched
<1> QED  BY <1>1, <1>3, <1>6, <1>10, <1>11, <1>12, <1>13, <1>14, QuietSteps DEF Sound

-----------------------------------------------------------------------------
\* A step that starts a process for the command.
LEMMA Spawns ==
  ASSUME StackInv, NEW t \in Terminals, NEW c \in Command, Becomes(t, c),
         NEW program \in Ports \cup {"dev"}, NEW starter \in {t, None},
         program = "bridge" => starter = t,
         NEW p, Spawned(p, program, starter), UNCHANGED strangerHit,
         control' = control \/ (control' = p /\ program = "backend"),
         c.cmd = term[t].cmd, term[t].pc \notin {"stop", "end"},
         c.noOrphans => c.pc = "end", c.pc \notin {"preflight", "ports", "sweep", "stop"},
         \A q \in Kept(term[t]) : q \in Pids => q \in Kept(c),
         starter = t => p \in Kept(c),
         c.pc = "dev-exit" =>
           program = "dev" /\ \A q \in Kept(term[t]) : q \in Pids => q \in OwnBridge(c),
         c.bridge.status = "ready" => c.bridge = term[t].bridge /\ program # "bridge",
         Touched(c) \subseteq Touched(term[t]) \cup {p, None}
  PROVE  StackInv'
<1> DEFINE d == term[t]
           new == [is |-> program, on |-> None, by |-> starter, seen |-> {}]
<1>1. /\ Sound(t, d, proc) /\ proc \in Table /\ p \in Pids /\ (~PidReuse => p \notin Held)
      /\ proc' = [proc EXCEPT ![p] = new]
  BY Now DEF Spawned, FreePids, StackInv, StackTypeOK, Table
<1>2. /\ new \in Process /\ new.is = program /\ new.by = starter /\ new.seen = {}
      /\ program # Foreign
  BY AgentOpsAssumption DEF Process
<1> HIDE DEF new
<1>3. proc' \in Table /\ proc'[p] = new /\ \A q \in Pids \ {p} : proc'[q] = proc[q]
  BY <1>1, <1>2 DEF Table
<1>4. Gentle(t)
  <2> SUFFICES ASSUME NEW q \in Pids, q # p, proc'[q] # None
               PROVE  proc[q] # None /\ proc'[q] = proc[q]
    BY <1>1, <1>2, <1>3 DEF Gentle
  <2> QED  BY <1>3
<1>5. ~PidReuse => Touched(d) \subseteq Held /\ control \in Held  BY DEF Touched, Held
<1>6. ControlIsOurs' /\ control' \in Pids \cup {None}
  BY <1>1, <1>2, <1>3, <1>5 DEF StackInv, StackTypeOK, ControlIsOurs
<1>7. /\ c.cmd = d.cmd /\ d.pc \notin {"stop", "end"}
      /\ \A q \in Kept(d) : q \in Pids => q \in Kept(c)
      /\ c.pc = "dev-exit" =>
           program = "dev" /\ \A q \in Kept(d) : q \in Pids => q \in OwnBridge(c)
      /\ c.bridge.status = "ready" => c.bridge = d.bridge /\ program # "bridge"
      /\ Touched(c) \subseteq Touched(d) \cup {p, None}
  OBVIOUS
<1> HIDE DEF d
<1>8. d.cmd # "stop-all"  BY <1>1, <1>7 DEF Sound, Flow
<1>9. Flow(c)  BY <1>7, <1>8 DEF Flow
<1>10. ChildrenKept(t, c, proc')
  <2> SUFFICES ASSUME NEW q \in Pids, ChildOf(t, proc', q)
               PROVE  /\ q \in Kept(c)
                      /\ c.pc = "dev-exit" => (proc'[q].is = "dev" \/ q \in OwnBridge(c))
    BY DEF ChildrenKept
  <2>1. CASE q = p  BY <1>2, <1>3, <1>7, <2>1, Names DEF ChildOf
  <2>2. CASE q # p
    <3>1. ChildOf(t, proc, q)  BY <1>3, <2>2 DEF ChildOf
    <3> QED  BY <1>1, <1>7, <3>1 DEF Sound, ChildrenKept
  <2> QED  BY <2>1, <2>2
<1>11. SeenKept(t, c, proc')
  BY <1>1, <1>2, <1>3, <1>8 DEF Sound, SeenKept
<1>12. Trusted(t, c, proc')
  BY <1>1, <1>2, <1>3, <1>7 DEF Sound, Trusted, ChildOf
<1>13. ~PidReuse => HeldAreOwn(t, c, proc')
  <2> SUFFICES ASSUME ~PidReuse, NEW q \in Touched(c), q \in Pids, proc'[q] # None
               PROVE  /\ proc'[q].is # Foreign
                      /\ proc'[q].is = "bridge" => proc'[q].by \in {t, None}
    BY DEF HeldAreOwn
  <2>1. CASE q = p  BY <1>2, <1>3, <2>1
  <2>2. CASE q # p
    BY <1>1, <1>3, <1>7, <1>8, <2>2, Names DEF Sound, HeldAreOwn
  <2> QED  BY <2>1, <2>2
<1>14. strangerHit' \in BOOLEAN /\ (~PidReuse => ~strangerHit')
  BY DEF StackInv, StackTypeOK, SparesOthers
<1> QED
  BY <1>3, <1>4, <1>6, <1>9, <1>10, <1>11, <1>12, <1>13, <1>14, Assemble DEF Sound

LEMMA StartBridgeStep ==
  ASSUME StackInv, NEW t \in Terminals, StartBridge(t)
  PROVE  StackInv'
<1> DEFINE d == term[t]
<1>1. /\ d.pc = "bridge" /\ d.todo = {} /\ d.sig = None /\ UNCHANGED <<control, strangerHit>>
      /\ d \in Command /\ Sound(t, d, proc) /\ d.bridge \in Bridge
  BY Now DEF StartBridge, At
<1>2. Kept(d) = {} /\ ~d.noOrphans /\ AfterBridge(t) \in {"dev", "backend"}
  BY <1>1, KeptBySteps, StepNames, AfterBridgeSteps DEF Sound, Flow
<1>3. CASE Goto(t, AfterBridge(t)) /\ UNCHANGED proc
  BY <1>1, <1>2, <1>3, StepNames, GoesOn DEF System, WithBridge
<1>4. CASE /\ Becomes(t, [d EXCEPT !.pc = "bridge-health", !.bridge = BridgeNow(t, "reusing")])
           /\ UNCHANGED proc
  <2> DEFINE b == BridgeNow(t, "reusing")
             c == [d EXCEPT !.pc = "bridge-health", !.bridge = b]
  <2>1. Becomes(t, c) /\ UNCHANGED System  BY <1>1, <1>4 DEF System
  <2>2. b \in Bridge /\ b.status = "reusing" /\ b.pid = d.bridge.pid
    BY <1>1 DEF Bridge, BridgeNow, BridgeStatus
  <2> HIDE DEF b
  <2>3. c \in Command  BY <1>1, <2>2, StepNames DEF Command, WithBridge
  <2>4. /\ c.pc = "bridge-health" /\ c.todo = d.todo /\ c.sig = d.sig
        /\ c.kids = d.kids /\ c.cmd = d.cmd /\ c.bridge = b /\ c.noOrphans = d.noOrphans
    BY <1>1 DEF Command
  <2> HIDE DEF c
  <2>5. Trusted(t, c, proc)  BY <2>2, <2>4 DEF Trusted
  <2>6. Touched(c) = Touched(d)  BY <2>2, <2>4 DEF Touched
  <2> QED  BY <1>1, <1>2, <2>1, <2>3, <2>4, <2>5, <2>6, Proceeds
<1>5. ASSUME NEW p \in FreePids \cup {None},
             IF p = None THEN UNCHANGED proc ELSE Spawned(p, "bridge", t),
             Becomes(t, [d EXCEPT !.pc = "bridge-health",
                           !.bridge = [status |-> "spawned", started |-> TRUE,
                                       pid |-> p, clean |-> FALSE]])
      PROVE  StackInv'
  <2> DEFINE b == [status |-> "spawned", started |-> TRUE, pid |-> p, clean |-> FALSE]
             c == [d EXCEPT !.pc = "bridge-health", !.bridge = b]
  <2>1. Becomes(t, c) /\ p \in Pids \cup {None}  BY <1>5 DEF FreePids
  <2>2. b \in Bridge /\ b.status = "spawned" /\ b.started /\ b.pid = p /\ ~b.clean
    BY <2>1 DEF Bridge, BridgeStatus
  <2> HIDE DEF b
  <2>3. c \in Command  BY <1>1, <2>2, StepNames DEF Command, WithBridge
  <2>4. /\ c.pc = "bridge-health" /\ c.todo = d.todo /\ c.sig = d.sig
        /\ c.kids = d.kids /\ c.cmd = d.cmd /\ c.bridge = b /\ c.noOrphans = d.noOrphans
    BY <1>1 DEF Command
  <2> HIDE DEF c
  <2>5. Trusted(t, c, proc)  BY <2>2, <2>4 DEF Trusted
  <2>6. Touched(c) \subseteq Touched(d) \cup {p, None}  BY <2>2, <2>4 DEF Touched
  <2>7. p \in Kept(c)  BY <2>2, <2>4, KeptBySteps DEF WithBridge, OwnBridge
  <2>8. CASE p = None
    <3>1. UNCHANGED System  BY <1>1, <1>5, <2>8 DEF System
    <3> QED
      BY <1>1, <1>2, <2>1, <2>3, <2>4, <2>5, <2>6, <2>8, <3>1, Names, Proceeds
  <2>9. CASE p # None
    <3>1. Spawned(p, "bridge", t)  BY <1>5, <2>9
    <3> QED
      BY <1>1, <1>2, <2>1, <2>2, <2>3, <2>4, <2>6, <2>7, <3>1, StepNames, Spawns
  <2> QED  BY <2>8, <2>9
<1> QED  BY <1>3, <1>4, <1>5 DEF StartBridge

LEMMA LaunchStep ==
  ASSUME StackInv, NEW t \in Terminals, NEW role \in {"backend", "frontend"}, Launch(t, role)
  PROVE  StackInv'
<1> DEFINE d == term[t]
           go == IF role = "backend" THEN "backend-health" ELSE "frontend-health"
<1>1. /\ d.pc = role /\ d.todo = {} /\ d.sig = None /\ UNCHANGED <<control, strangerHit>>
      /\ d \in Command /\ Sound(t, d, proc)
  BY Now DEF Launch, At
<1>2. PICK p \in FreePids \cup {None} :
        /\ IF p = None THEN UNCHANGED proc ELSE Spawned(p, role, t)
        /\ Becomes(t, [d EXCEPT !.kids = d.kids \cup {p}, !.pc = go])
  BY DEF Launch
<1> DEFINE c == [d EXCEPT !.kids = d.kids \cup {p}, !.pc = go]
<1>3. Becomes(t, c) /\ p \in Pids \cup {None}  BY <1>2 DEF FreePids
<1>4. go \in {"backend-health", "frontend-health"}  OBVIOUS
<1> HIDE DEF go
<1>5. c \in Command  BY <1>1, <1>3, <1>4, StepNames DEF Command, WithKids
<1>6. /\ c.pc = go /\ c.todo = d.todo /\ c.sig = d.sig /\ c.kids = d.kids \cup {p}
      /\ c.cmd = d.cmd /\ c.bridge = d.bridge /\ c.noOrphans = d.noOrphans
  BY <1>1 DEF Command
<1> HIDE DEF c
<1>7. OwnBridge(c) = OwnBridge(d) /\ ~d.noOrphans
  BY <1>1, <1>6 DEF OwnBridge, Sound, Flow
<1>8. Kept(d) \subseteq Kept(c) /\ p \in Kept(c)
  BY <1>1, <1>4, <1>6, <1>7, KeptBySteps DEF WithBridge, WithKids
<1>9. Touched(c) \subseteq Touched(d) \cup {p, None}  BY <1>6 DEF Touched
<1>10. CASE p = None
  <2>1. UNCHANGED System  BY <1>1, <1>2, <1>10 DEF System
  <2> QED
    BY <1>1, <1>3, <1>4, <1>5, <1>6, <1>7, <1>8, <1>9, <1>10, <2>1, Names, Proceeds
<1>11. CASE p # None
  <2>1. Spawned(p, role, t)  BY <1>2, <1>11
  <2>2. c.bridge.status = "ready" => c.bridge = d.bridge /\ role # "bridge"  BY <1>6
  <2> QED
    BY <1>1, <1>3, <1>4, <1>5, <1>6, <1>7, <1>8, <1>9, <2>1, <2>2, StepNames, Spawns
<1> QED  BY <1>10, <1>11

LEMMA DevBackendStep ==
  ASSUME StackInv, NEW t \in Terminals, DevBackend(t)
  PROVE  StackInv'
<1> DEFINE d == term[t]
<1>1. /\ d.pc \in {"dev", "dev-exit"} /\ d.todo = {} /\ d.sig = None
      /\ UNCHANGED <<control, strangerHit>> /\ d \in Command /\ Sound(t, d, proc)
  BY Now DEF DevBackend, At
<1>2. ~d.noOrphans  BY <1>1 DEF Sound, Flow
<1>3. ASSUME d.pc = "dev", NEW p \in FreePids \cup {None},
             IF p = None THEN UNCHANGED proc ELSE Spawned(p, "dev", t),
             Becomes(t, [d EXCEPT !.kids = {p}, !.pc = "dev-exit"])
      PROVE  StackInv'
  <2> DEFINE c == [d EXCEPT !.kids = {p}, !.pc = "dev-exit"]
  <2>1. Becomes(t, c) /\ p \in Pids \cup {None}  BY <1>3 DEF FreePids
  <2>2. c \in Command  BY <1>1, <2>1, StepNames DEF Command, WithKids
  <2>3. /\ c.pc = "dev-exit" /\ c.todo = d.todo /\ c.sig = d.sig /\ c.kids = {p}
        /\ c.cmd = d.cmd /\ c.bridge = d.bridge /\ c.noOrphans = d.noOrphans
    BY <1>1 DEF Command
  <2> HIDE DEF c
  <2>4. OwnBridge(c) = OwnBridge(d)  BY <2>3 DEF OwnBridge
  <2>5. Kept(d) = OwnBridge(d) /\ Kept(c) = OwnBridge(d) \cup {p}
    BY <1>3, <2>3, <2>4, KeptBySteps DEF WithBridge, WithKids
  <2>6. Touched(c) \subseteq Touched(d) \cup {p, None}  BY <2>3 DEF Touched
  <2>7. CASE p = None
    <3>1. proc' = proc /\ strangerHit' = strangerHit /\ control' = control
      BY <1>1, <1>3, <2>7
    <3>2. Flow(c)  BY <1>1, <1>2, <2>3 DEF Sound, Flow
    <3>3. ChildrenKept(t, c, proc)
      BY <1>1, <2>4, <2>5 DEF Sound, ChildrenKept
    <3>4. SeenKept(t, c, proc)
      <4>1. d.cmd # "stop-all"  BY <1>1 DEF Sound, Flow
      <4> QED  BY <1>1, <4>1 DEF Sound, SeenKept
    <3>5. Trusted(t, c, proc)  BY <1>1, <2>3 DEF Sound, Trusted
    <3>6. ~PidReuse => HeldAreOwn(t, c, proc)
      BY <1>1, <2>3, <2>6, <2>7, Names DEF Sound, HeldAreOwn
    <3> QED  BY <2>1, <2>2, <3>1, <3>2, <3>3, <3>4, <3>5, <3>6, QuietSteps DEF Sound, System
  <2>8. CASE p # None
    <3>1. Spawned(p, "dev", t)  BY <1>3, <2>8
    <3>2. c.bridge.status = "ready" => c.bridge = d.bridge  BY <2>3
    <3> QED
      BY <1>1, <1>2, <2>1, <2>2, <2>3, <2>4, <2>5, <2>6, <3>1, <3>2, Spawns
  <2> QED  BY <2>7, <2>8
<1>4. ASSUME d.pc = "dev-exit", \A p \in Alive : proc[p].is # "dev" \/ proc[p].by # t,
             Goto(t, "clean-bridge"), UNCHANGED proc
      PROVE  StackInv'
  <2> DEFINE c == [d EXCEPT !.pc = "clean-bridge"]
  <2>1. Becomes(t, c) /\ UNCHANGED System  BY <1>1, <1>4 DEF Goto, System
  <2>2. c \in Command  BY <1>1, StepNames, GotoTypes
  <2>3. /\ c.pc = "clean-bridge" /\ c.todo = d.todo /\ c.sig = d.sig /\ c.kids = d.kids
        /\ c.cmd = d.cmd /\ c.bridge = d.bridge /\ c.noOrphans = d.noOrphans
    BY <1>1 DEF Command
  <2> HIDE DEF c
  <2>4. OwnBridge(c) = OwnBridge(d) /\ OwnBridge(c) \subseteq Kept(c)
    BY <2>3, KeptBySteps DEF OwnBridge
  <2>5. Flow(c)  BY <1>1, <1>2, <1>4, <2>3 DEF Sound, Flow
  <2>6. ChildrenKept(t, c, proc)
    BY <1>1, <1>4, <2>3, <2>4 DEF Sound, ChildrenKept, ChildOf, Alive
  <2>7. SeenKept(t, c, proc)
    <3>1. d.cmd # "stop-all"  BY <1>1 DEF Sound, Flow
    <3> QED  BY <1>1, <3>1 DEF Sound, SeenKept
  <2>8. Trusted(t, c, proc)  BY <1>1, <2>3 DEF Sound, Trusted
  <2>9. ~PidReuse => HeldAreOwn(t, c, proc)
    BY <1>1, <2>3 DEF Sound, HeldAreOwn, Touched
  <2> QED  BY <1>1, <2>1, <2>2, <2>5, <2>6, <2>7, <2>8, <2>9, QuietSteps DEF Sound
<1> QED  BY <1>1, <1>3, <1>4 DEF DevBackend, At

LEMMA EnsureControlBackendStep ==
  ASSUME StackInv, NEW t \in Terminals, EnsureControlBackend(t)
  PROVE  StackInv'
<1> DEFINE d == term[t]
<1>1. /\ d.pc = "control" /\ d.todo = {} /\ d.sig = None /\ UNCHANGED strangerHit
      /\ d \in Command /\ Sound(t, d, proc)
  BY Now DEF EnsureControlBackend, At
<1>2. Kept(d) = {} /\ ~d.noOrphans
  BY <1>1, KeptBySteps, StepNames DEF Sound, Flow
<1>3. CASE Goto(t, "link") /\ UNCHANGED <<proc, control>>
  BY <1>1, <1>3, StepNames, GoesOn DEF System
<1>4. ASSUME NEW p \in FreePids, Spawned(p, "backend", None), control' = p,
             Becomes(t, [d EXCEPT !.pc = "control-health", !.kids = {p}])
      PROVE  StackInv'
  <2> DEFINE c == [d EXCEPT !.pc = "control-health", !.kids = {p}]
  <2>1. Becomes(t, c) /\ p \in Pids  BY <1>4 DEF FreePids
  <2>2. c \in Command  BY <1>1, <2>1, StepNames DEF Command
  <2>3. /\ c.pc = "control-health" /\ c.todo = d.todo /\ c.sig = d.sig /\ c.kids = {p}
        /\ c.cmd = d.cmd /\ c.bridge = d.bridge /\ c.noOrphans = d.noOrphans
    BY <1>1 DEF Command
  <2> HIDE DEF c
  <2>4. Touched(c) \subseteq Touched(d) \cup {p, None}  BY <2>3 DEF Touched
  <2>5. "backend" \in Ports /\ None # t  BY StepNames, Names
  <2> QED  BY <1>1, <1>2, <1>4, <2>1, <2>2, <2>3, <2>4, <2>5, Spawns
<1>5. ASSUME NEW p \in FreePids, Spawned(p, "backend", None), control' = control,
             Goto(t, "end")
      PROVE  StackInv'
  <2> DEFINE c == [d EXCEPT !.pc = "end"]
  <2>1. Becomes(t, c)  BY <1>5 DEF Goto
  <2>2. c \in Command  BY <1>1, StepNames, GotoTypes
  <2>3. /\ c.pc = "end" /\ c.todo = d.todo /\ c.sig = d.sig /\ c.kids = d.kids
        /\ c.cmd = d.cmd /\ c.bridge = d.bridge /\ c.noOrphans = d.noOrphans
    BY <1>1 DEF Command
  <2> HIDE DEF c
  <2>4. Touched(c) \subseteq Touched(d) \cup {p, None}  BY <2>3 DEF Touched
  <2>5. "backend" \in Ports /\ None # t  BY StepNames, Names
  <2> QED  BY <1>1, <1>2, <1>5, <2>1, <2>2, <2>3, <2>4, <2>5, Spawns
<1> QED  BY <1>3, <1>4, <1>5 DEF EnsureControlBackend

-----------------------------------------------------------------------------
\* The beginning and the end of a command.
LEMMA BeginStep ==
  ASSUME StackInv, NEW t \in Terminals, NEW cmd \in Scripts, Begin(t, cmd)
  PROVE  StackInv'
<1> DEFINE d == term[t]
           go == CASE cmd \in {"verify", "link-start"} -> "preflight"
                   [] cmd = "link-stop" -> "link"
                   [] cmd = "stop-all" -> "stop"
                   [] cmd = "dev" -> "bridge"
           c == [Idle EXCEPT !.cmd = cmd, !.pc = go]
<1>1. /\ d.pc = "idle" /\ d \in Command /\ Sound(t, d, proc) /\ proc \in Table
      /\ UNCHANGED <<control, strangerHit>> /\ Becomes(t, c)
  BY Now DEF Begin, StackInv, StackTypeOK, Table
<1>2. proc' = [p \in Pids |->
        IF cmd = "stop-all" /\ p \in Alive /\ proc[p].on = proc[p].is
          THEN [proc[p] EXCEPT !.seen = proc[p].seen \cup {t}] ELSE proc[p]]
  BY DEF Begin
<1>3. /\ go \in {"preflight", "link", "stop", "bridge"}
      /\ cmd = "stop-all" <=> go = "stop"
  BY DEF Scripts
<1> HIDE DEF go
<1>4. NoBridge \in Bridge  BY DEF Bridge, NoBridge, BridgeStatus
<1>5. c \in Command
  BY <1>3, <1>4, StepNames DEF Idle, Command
<1>6. /\ c.pc = go /\ c.cmd = cmd /\ c.at = "backend" /\ c.todo = {} /\ c.sig = None
      /\ c.kids = {} /\ c.bridge = NoBridge /\ ~c.noOrphans
  BY DEF Idle
<1> HIDE DEF c
<1>7. \A p \in Pids : proc[p] # None =>
        /\ proc[p] \in Process /\ proc'[p] \in Process
        /\ proc'[p].is = proc[p].is /\ proc'[p].on = proc[p].on /\ proc'[p].by = proc[p].by
        /\ \/ proc'[p].seen = proc[p].seen
           \/ /\ cmd = "stop-all" /\ proc[p].on = proc[p].is
              /\ proc'[p].seen = proc[p].seen \cup {t}
  <2> SUFFICES ASSUME NEW p \in Pids, proc[p] # None
               PROVE  /\ proc[p] \in Process /\ proc'[p] \in Process
                      /\ proc'[p].is = proc[p].is /\ proc'[p].on = proc[p].on
                      /\ proc'[p].by = proc[p].by
                      /\ \/ proc'[p].seen = proc[p].seen
                         \/ /\ cmd = "stop-all" /\ proc[p].on = proc[p].is
                            /\ proc'[p].seen = proc[p].seen \cup {t}
    OBVIOUS
  <2>1. proc[p] \in Process  BY <1>1 DEF Table
  <2>2. CASE cmd = "stop-all" /\ proc[p].on = proc[p].is
    <3>1. proc'[p] = [proc[p] EXCEPT !.seen = proc[p].seen \cup {t}]
      BY <1>2, <2>2 DEF Alive
    <3> QED  BY <2>1, <2>2, <3>1 DEF Process
  <2>3. CASE ~(cmd = "stop-all" /\ proc[p].on = proc[p].is)
    <3>1. proc'[p] = proc[p]  BY <1>2, <2>3
    <3> QED  BY <2>1, <3>1
  <2> QED  BY <2>2, <2>3
<1>8. \A p \in Pids : proc[p] = None => proc'[p] = None  BY <1>2 DEF Alive
<1>9. proc' \in Table  BY <1>2, <1>7, <1>8 DEF Table
<1>10. Gentle(t)  BY <1>7, <1>8 DEF Gentle
<1>11. Kept(d) = {} /\ d.cmd # "stop-all"
  BY <1>1, KeptBySteps, StepNames DEF Sound, Flow
<1>12. Flow(c)  BY <1>3, <1>6 DEF Flow
<1>13. ChildrenKept(t, c, proc')
  BY <1>1, <1>7, <1>8, <1>11 DEF Sound, ChildrenKept, ChildOf
<1>14. SeenKept(t, c, proc')
  <2> SUFFICES ASSUME NEW p \in Pids, proc'[p] # None, t \in proc'[p].seen
               PROVE  /\ cmd = "stop-all" /\ proc'[p].on = proc'[p].is /\ proc'[p].is \in Ports
                      /\ proc'[p].on \in ToList(c)
    BY <1>6 DEF SeenKept
  <2>1. proc[p] # None  BY <1>8
  <2>2. t \notin proc[p].seen  BY <1>1, <1>11, <2>1 DEF Sound, SeenKept
  <2>3. cmd = "stop-all" /\ proc[p].on = proc[p].is  BY <1>7, <2>1, <2>2
  <2>4. proc[p].is \in Ports /\ proc'[p].is = proc[p].is /\ proc'[p].on = proc[p].on
    BY <1>7, <2>1, <2>3, Names DEF Process
  <2>5. ToList(c) = Ports  BY <1>3, <1>6, <2>3 DEF ToList
  <2> QED  BY <2>3, <2>4, <2>5
<1>15. Trusted(t, c, proc')  BY <1>6 DEF Trusted, NoBridge
<1>16. HeldAreOwn(t, c, proc')  BY <1>6, Names DEF HeldAreOwn, Touched, NoBridge
<1>17. ControlIsOurs' /\ control' \in Pids \cup {None}
  BY <1>1, <1>7, <1>8 DEF StackInv, StackTypeOK, ControlIsOurs
<1>18. strangerHit' \in BOOLEAN /\ (~PidReuse => ~strangerHit')
  BY <1>1 DEF StackInv, StackTypeOK, SparesOthers
<1> QED
  BY <1>1, <1>5, <1>9, <1>10, <1>12, <1>13, <1>14, <1>15, <1>16, <1>17, <1>18, Assemble
  DEF Sound

\* The end of a command, in its own time or not, leaves its processes to nobody.
LEMMA LeavesStep ==
  ASSUME StackInv, NEW t \in Terminals, proc' = Forget(t), Becomes(t, Idle),
         UNCHANGED <<control, strangerHit>>
  PROVE  StackInv'
<1>1. proc \in Table  BY DEF StackInv, StackTypeOK, Table
<1>2. \A p \in Pids : proc[p] = None => proc'[p] = None  BY DEF Forget, Alive
<1>3. \A p \in Pids : proc[p] # None =>
        /\ proc'[p] \in Process /\ proc'[p].is = proc[p].is /\ proc'[p].on = proc[p].on
        /\ proc'[p].by # t /\ proc'[p].by \in {proc[p].by, None}
        /\ proc'[p].seen = proc[p].seen \ {t}
  <2> SUFFICES ASSUME NEW p \in Pids, proc[p] # None
               PROVE  /\ proc'[p] \in Process /\ proc'[p].is = proc[p].is
                      /\ proc'[p].on = proc[p].on
                      /\ proc'[p].by # t /\ proc'[p].by \in {proc[p].by, None}
                      /\ proc'[p].seen = proc[p].seen \ {t}
    OBVIOUS
  <2> DEFINE others == proc[p].seen \ {t}
             by == IF proc[p].by = t THEN None ELSE proc[p].by
  <2>1. proc[p] \in Process  BY <1>1 DEF Table
  <2>2. proc'[p] = [proc[p] EXCEPT !.seen = others, !.by = by]  BY DEF Forget, Alive
  <2>3. others \in SUBSET Terminals /\ by \in Terminals \cup {None}  BY <2>1 DEF Process
  <2>4. by # t /\ by \in {proc[p].by, None} /\ others = proc[p].seen \ {t}  BY Names
  <2> HIDE DEF others, by
  <2> QED  BY <2>1, <2>2, <2>3, <2>4 DEF Process
<1>4. proc' \in Table  BY <1>2, <1>3 DEF Forget, Table
<1>5. Gentle(t)  BY <1>2, <1>3 DEF Gentle
<1>6. NoBridge \in Bridge  BY DEF Bridge, NoBridge, BridgeStatus
<1>7. Idle \in Command  BY <1>6, StepNames DEF Idle, Command
<1>8. Sound(t, Idle, proc')
  <2>1. Flow(Idle)  BY Names DEF Flow, Idle
  <2>2. ChildrenKept(t, Idle, proc')  BY <1>2, <1>3 DEF ChildrenKept, ChildOf
  <2>3. SeenKept(t, Idle, proc')  BY <1>2, <1>3 DEF SeenKept
  <2>4. Trusted(t, Idle, proc')  BY DEF Trusted, Idle, NoBridge
  <2>5. HeldAreOwn(t, Idle, proc')  BY Names DEF HeldAreOwn, Touched, Idle, NoBridge
  <2> QED  BY <2>1, <2>2, <2>3, <2>4, <2>5 DEF Sound
<1>9. ControlIsOurs' /\ control' \in Pids \cup {None}
  BY <1>2, <1>3 DEF StackInv, StackTypeOK, ControlIsOurs
<1>10. strangerHit' \in BOOLEAN /\ (~PidReuse => ~strangerHit')
  BY DEF StackInv, StackTypeOK, SparesOthers
<1> QED  BY <1>4, <1>5, <1>7, <1>8, <1>9, <1>10, Assemble

-----------------------------------------------------------------------------
\* The operating system is a stranger to every command.
LEMMA EnvironmentStep ==
  ASSUME StackInv, Environment
  PROVE  StackInv'
<1>1. PICK p \in Pids : Bind(p) \/ Exit(p) \/ ForeignStarts(p)  BY DEF Environment
<1>2. term' = term /\ control' = control /\ strangerHit' = strangerHit
  BY <1>1 DEF Bind, Exit, ForeignStarts
<1>3. proc \in Table  BY DEF StackInv, StackTypeOK, Table
<1>4. ASSUME NEW x \in Process \cup {None}, proc' = [proc EXCEPT ![p] = x],
             \/ x = None
             \/ /\ ~PidReuse => p \notin Held
                /\ x.by = None /\ x.seen = {} /\ x.is # "bridge"
             \/ /\ proc[p] # None /\ x.is = proc[p].is /\ x.on = PortOf(proc[p].is)
                /\ proc[p].on = None /\ x.by = proc[p].by /\ x.seen = proc[p].seen
      PROVE  StackInv'
  <2>1. /\ proc' \in Table /\ proc'[p] = x /\ \A q \in Pids \ {p} : proc'[q] = proc[q]
    BY <1>3, <1>4 DEF Table
  <2>2. Gentle(None)
    <3> SUFFICES ASSUME NEW q \in Pids, q # p, proc'[q] # None
                 PROVE  proc[q] # None /\ proc'[q] = proc[q]
      BY <1>4, <2>1 DEF Gentle
    <3> QED  BY <2>1
  <2>3. ASSUME NEW u \in Terminals  PROVE Sound(u, term'[u], proc')
    BY <1>2, <2>2, OthersStaySound, Names
  <2>4. ControlIsOurs'
    BY <1>2, <1>4, <2>1 DEF StackInv, ControlIsOurs, Held
  <2> QED  BY <1>2, <2>1, <2>3, <2>4 DEF StackInv, StackTypeOK, Table, SparesOthers
<1>5. CASE Bind(p)
  <2> DEFINE x == [proc[p] EXCEPT !.on = PortOf(proc[p].is)]
  <2>1. proc[p] # None /\ proc[p].on = None /\ proc[p].is # Foreign /\ proc[p] \in Process
    BY <1>3, <1>5 DEF Bind, Alive, Table
  <2>2. PortOf(proc[p].is) \in Ports  BY <2>1, StepNames DEF PortOf, Process
  <2>3. /\ x \in Process /\ x.is = proc[p].is /\ x.on = PortOf(proc[p].is)
        /\ x.by = proc[p].by /\ x.seen = proc[p].seen
    BY <2>1, <2>2 DEF Process
  <2>4. proc' = [proc EXCEPT ![p] = x]  BY <1>5 DEF Bind
  <2> HIDE DEF x
  <2> QED  BY <1>4, <2>1, <2>3, <2>4
<1>6. CASE Exit(p)  BY <1>4, <1>6 DEF Exit
<1>7. CASE ForeignStarts(p)
  <2>1. PICK port \in Ports :
          proc' = [proc EXCEPT ![p] = [is |-> Foreign, on |-> port, by |-> None, seen |-> {}]]
    BY <1>7 DEF ForeignStarts
  <2> DEFINE x == [is |-> Foreign, on |-> port, by |-> None, seen |-> {}]
  <2>2. x \in Process /\ x.by = None /\ x.seen = {} /\ x.is # "bridge"
    BY Names DEF Process
  <2>3. proc' = [proc EXCEPT ![p] = x]  BY <2>1
  <2>4. ~PidReuse => p \notin Held  BY <1>7 DEF ForeignStarts, FreePids
  <2> HIDE DEF x
  <2> QED  BY <1>4, <2>2, <2>3, <2>4
<1> QED  BY <1>1, <1>5, <1>6, <1>7

-----------------------------------------------------------------------------
LEMMA WorkStep ==
  ASSUME StackInv, NEW t \in Terminals, CommandStep(t)
  PROVE  StackInv'
BY StopBeginStep, StopEndStep, PreflightStep, EnsurePortAvailableStep, StartBridgeStep,
   BridgeHealthStep, BridgeOwnerStep, BridgeStoppedStep, LaunchStep, StackHealthStep,
   CleanLaunchedStep, StopReferenceBridgeStep, BridgeCleanedStep, SweepStep, ReportStep,
   EnsureControlBackendStep, ControlHealthStep, ControlFailedStep, AskPublicLinkStep,
   PollTimeoutStep, StopControlBackendStep, StopAllStep, DevBackendStep, LeavesStep
DEF CommandStep, End

LEMMA StackStep ==
  ASSUME StackInv, StackNext
  PROVE  StackInv'
<1>1. ASSUME NEW t \in Terminals, Interrupt(t)  PROVE StackInv'
  BY <1>1, LeavesStep DEF Interrupt
<1> QED  BY <1>1, EnvironmentStep, WorkStep, BeginStep DEF StackNext

LEMMA StackStarts ==
  ASSUME StackInit
  PROVE  StackInv
<1>1. NoBridge \in Bridge  BY DEF Bridge, NoBridge, BridgeStatus
<1>2. Idle \in Command  BY <1>1, StepNames DEF Idle, Command
<1>3. StackTypeOK  BY <1>2 DEF StackInit, StackTypeOK
<1>4. ASSUME NEW t \in Terminals  PROVE Sound(t, Idle, proc)
  <2>1. \A p \in Pids : proc[p] = None  BY DEF StackInit
  <2>2. Flow(Idle)  BY Names DEF Flow, Idle
  <2>3. ChildrenKept(t, Idle, proc) /\ SeenKept(t, Idle, proc) /\ HeldAreOwn(t, Idle, proc)
    BY <2>1 DEF ChildrenKept, ChildOf, SeenKept, HeldAreOwn
  <2>4. Trusted(t, Idle, proc)  BY DEF Trusted, Idle, NoBridge
  <2> QED  BY <2>2, <2>3, <2>4 DEF Sound
<1>5. ControlIsOurs /\ SparesOthers  BY Names DEF StackInit, ControlIsOurs, SparesOthers
<1> QED  BY <1>3, <1>4, <1>5 DEF StackInit, StackInv

\* The invariant of the stack holds throughout, whichever scripts are used.
THEOREM StackInductive == ScriptsSpec => []StackInv
<1>1. ScriptsInit => StackInv  BY StackStarts DEF ScriptsInit
<1>2. ASSUME StackInv, [ScriptsNext]_allVars  PROVE StackInv'
  <2>1. CASE UNCHANGED stackVars
    BY <1>2, <2>1 DEF stackVars, StackInv, StackTypeOK, ControlIsOurs, SparesOthers
  <2>2. CASE StackNext  BY <1>2, <2>2, StackStep
  <2> QED  BY <1>2, <2>1, <2>2 DEF ScriptsNext, allVars
<1> QED  BY <1>1, <1>2, PTL DEF ScriptsSpec

\* No program of others is signalled while held pids are not given out again
\* (stopPid, classifyPortOwners).
THEOREM OthersSpared == ~PidReuse => (ScriptsSpec => []SparesOthers)
<1> SUFFICES ASSUME ~PidReuse  PROVE ScriptsSpec => []SparesOthers
  OBVIOUS
<1>1. StackInv => SparesOthers  BY DEF StackInv
<1> QED  BY <1>1, StackInductive, PTL

\* What verify-stack and the dev backend report of their processes is so, even
\* when pids are given out again (runVerifyStack, startReferenceBridge).
THEOREM ReportsTrue == ScriptsSpec => []ReportIsTrue
<1>1. ASSUME StackInv  PROVE ReportIsTrue
  <2> SUFFICES ASSUME NEW t \in Terminals
               PROVE  /\ (term[t].noOrphans \/ (term[t].cmd = "dev" /\ At(t, "end"))) =>
                           \A p \in Alive : proc[p].by # t
                      /\ (/\ term[t].bridge.status = "ready" /\ term[t].bridge.started
                          /\ term[t].bridge.pid \in Alive
                          /\ proc[term[t].bridge.pid].is = "bridge"
                          /\ proc[term[t].bridge.pid].by = t)
                         => proc[term[t].bridge.pid].on = "bridge"
    BY DEF ReportIsTrue
  <2>1. Sound(t, term[t], proc)  BY <1>1 DEF StackInv
  <2>2. term[t].pc = "end" => Kept(term[t]) = {}  BY KeptBySteps, StepNames
  <2>3. term[t].pc = "end" => \A p \in Alive : proc[p].by # t
    BY <2>1, <2>2 DEF Sound, ChildrenKept, ChildOf, Alive
  <2>4. term[t].noOrphans => term[t].pc = "end"  BY <2>1 DEF Sound, Flow
  <2> QED  BY <2>1, <2>3, <2>4 DEF At, Sound, Trusted, ChildOf, Alive
<1> QED  BY <1>1, StackInductive, PTL

\* stop-all that reports success has ended every process of the project that
\* listened when it began (stopAllProjectProcesses).
THEOREM StopsAll == ScriptsSpec => []StopAllStops
<1>1. ASSUME StackInv  PROVE StopAllStops
  <2> SUFFICES ASSUME NEW t \in Terminals, At(t, "end"), ~term[t].blocked, ~term[t].fails,
                      NEW p \in Alive, t \in proc[p].seen
               PROVE  FALSE
    BY DEF StopAllStops
  <2>1. SeenKept(t, term[t], proc)  BY <1>1 DEF StackInv, Sound
  <2>2. ToList(term[t]) = {}  BY DEF At, ToList
  <2> QED  BY <2>1, <2>2, Names DEF SeenKept, At, Alive
<1> QED  BY <1>1, StackInductive, PTL

\* A command signals the bridge of another terminal's command only as stop-all
\* (startReferenceBridge, stopReferenceBridge).
THEOREM ReusedBridgesSpared == ~PidReuse => (ScriptsSpec => ReusedBridgeIsSpared)
<1> SUFFICES ASSUME ~PidReuse  PROVE ScriptsSpec => ReusedBridgeIsSpared
  OBVIOUS
<1>1. ASSUME StackInv, NEW t \in Terminals, NEW p \in Pids, p \in term[t].todo,
             p \in Alive, proc[p].is = "bridge", proc[p].by \in Terminals \ {t}
      PROVE  term[t].cmd = "stop-all"
  <2>1. HeldAreOwn(t, term[t], proc)  BY <1>1 DEF StackInv, Sound
  <2> QED  BY <1>1, <2>1, Names DEF HeldAreOwn, Touched, Alive
<1>2. StackInv =>
        [\A t \in Terminals, p \in Pids :
           (p \in term[t].todo /\ p \notin term'[t].todo /\ term'[t].sig = p
              /\ p \in Alive /\ proc[p].is = "bridge" /\ proc[p].by \in Terminals \ {t})
             => term[t].cmd = "stop-all"]_stackVars
  BY <1>1
<1> QED  BY <1>2, StackInductive, PTL DEF ReusedBridgeIsSpared

-----------------------------------------------------------------------------
(* The install tools.  A verdict is true because every probe before the next *)
(* one has shown what there is, or has failed, while the checkout does not   *)
(* change, and a probe that failed has shown nothing.                        *)

\* The instance has a name of its own for what it counts with.
LEMMA SameCardinality == \A S : Install!Cardinality(S) = Cardinality(S)
BY DEF Install!Cardinality, Cardinality

\* The probes that a plan has made.
Done == IF plan.verdict # "none" THEN Install!Probes
        ELSE {Install!Order[i] : i \in {j \in 1..10 : j < plan.next}}

PlanKept ==
  /\ plan.failed \subseteq Done
  /\ \A f \in plan.seen : \E q \in Done \ plan.failed : f \in Install!Shows(q)
  /\ ~plan.aged => plan.seen \subseteq facts
  /\ ~plan.aged => \A q \in Done \ plan.failed : facts \cap Install!Shows(q) \subseteq plan.seen
  /\ plan.verdict # "none" => plan.verdict = Install!Verdict

PlanType == [next : 0..11, seen : SUBSET Faults, failed : SUBSET Failing, aged : BOOLEAN,
             verdict : Install!Verdicts]

InstallTypes ==
  /\ facts \subseteq Faults /\ Cardinality(facts) <= MaxFaults
  /\ changes \in 0..MaxChanges
  /\ plan \in PlanType
  /\ plan.verdict # "none" => plan.next = 0
  /\ skills \in [Install!Targets -> Checkouts \cup {"absent"}]

InstallInv == InstallTypes /\ PlanKept

LEMMA OrderFacts ==
  /\ Len(Install!Order) = 10
  /\ \A i \in 1..10 : Install!Order[i] \in Install!Probes
  /\ \A q \in Install!Probes : \E i \in 1..10 : Install!Order[i] = q
  /\ \A i, j \in 1..10 : Install!Order[i] = Install!Order[j] => i = j
<1>1. /\ Install!Order[1] = "status" /\ Install!Order[2] = "branch"
      /\ Install!Order[3] = "head" /\ Install!Order[4] = "upstream"
      /\ Install!Order[5] = "counts" /\ Install!Order[6] = "remote"
      /\ Install!Order[7] = "node" /\ Install!Order[8] = "python"
      /\ Install!Order[9] = "modules" /\ Install!Order[10] = "cli"
      /\ Len(Install!Order) = 10
  BY DEF Install!Order
<1>2. 1..10 = {1, 2, 3, 4, 5, 6, 7, 8, 9, 10}  OBVIOUS
<1> QED  BY <1>1, <1>2 DEF Install!Probes

\* No two probes show the same.
LEMMA ShowsApart ==
  ASSUME NEW q, NEW r, NEW f, f \in Install!Shows(q), f \in Install!Shows(r)
  PROVE  q = r
BY DEF Install!Shows

LEMMA TypesAre == Install!TypeOK <=> InstallTypes
<1>1. Len(Install!Order) + 1 = 11  BY OrderFacts
<1>2. PlanType = [next : 0..Len(Install!Order) + 1, seen : SUBSET Faults,
                  failed : SUBSET Failing, aged : BOOLEAN, verdict : Install!Verdicts]
  BY <1>1 DEF PlanType
<1> QED  BY <1>2, SameCardinality DEF Install!TypeOK, InstallTypes

LEMMA VerdictKinds == Install!Verdict \in Install!Verdicts \ {"none"}
BY DEF Install!Verdict, Install!Freshness, Install!Judge, Install!Verdicts

\* The verdict is of what was seen and of what failed.
LEMMA VerdictOf ==
  ASSUME plan'.seen = plan.seen, plan'.failed = plan.failed
  PROVE  Install!Verdict' = Install!Verdict
BY DEF Install!Verdict, Install!Freshness, Install!Judge, Install!ProgramsBroken,
       Install!StaleTracking, Install!HeadDiffers, Install!RemoteUnreachable, Install!Asked,
       Install!Counted, Install!Detached, Install!Upstream, Install!Saw, Install!Failed

LEMMA OwnerChangesStep ==
  ASSUME InstallInv, Install!OwnerChanges
  PROVE  InstallInv'
<1>1. /\ plan \in PlanType /\ plan' = [plan EXCEPT !.aged = TRUE] /\ skills' = skills
      /\ changes \in 0..MaxChanges /\ changes < MaxChanges /\ changes' = changes + 1
      /\ facts \subseteq Faults /\ Cardinality(facts') <= MaxFaults
  BY SameCardinality DEF InstallInv, InstallTypes, Install!OwnerChanges
<1>2. PICK f \in Faults : facts' = IF f \in facts THEN facts \ {f} ELSE facts \cup {f}
  BY DEF Install!OwnerChanges
<1>3. facts' \subseteq Faults  BY <1>1, <1>2
<1>4. /\ plan' \in PlanType /\ plan'.seen = plan.seen /\ plan'.failed = plan.failed
      /\ plan'.aged /\ plan'.next = plan.next /\ plan'.verdict = plan.verdict
  BY <1>1 DEF PlanType
<1>5. changes' \in 0..MaxChanges  BY <1>1, InstallAssumption
<1>6. InstallTypes'
  BY <1>1, <1>3, <1>4, <1>5 DEF InstallInv, InstallTypes
<1>7. Done' = Done  BY <1>4 DEF Done
<1>8. PlanKept'  BY <1>4, <1>7, VerdictOf DEF InstallInv, PlanKept
<1> QED  BY <1>6, <1>8 DEF InstallInv

LEMMA NoPlanFacts ==
  /\ Install!NoPlan \in PlanType /\ Install!NoPlan.seen = {} /\ Install!NoPlan.failed = {}
  /\ ~Install!NoPlan.aged /\ Install!NoPlan.next = 0 /\ Install!NoPlan.verdict = "none"
BY DEF Install!NoPlan, PlanType, Install!Verdicts

LEMMA BeginPlanStep ==
  ASSUME InstallInv, Install!BeginPlan
  PROVE  InstallInv'
<1> DEFINE none == Install!NoPlan
<1>1. /\ plan' = [none EXCEPT !.next = 1]
      /\ facts' = facts /\ changes' = changes /\ skills' = skills
  BY DEF Install!BeginPlan
<1>2. /\ plan' \in PlanType /\ plan'.seen = {} /\ plan'.failed = {} /\ ~plan'.aged
      /\ plan'.next = 1 /\ plan'.verdict = "none"
  <2>1. /\ none \in PlanType /\ none.seen = {} /\ none.failed = {} /\ ~none.aged
        /\ none.verdict = "none"
    BY NoPlanFacts
  <2> HIDE DEF none
  <2> QED  BY <1>1, <2>1 DEF PlanType
<1>3. InstallTypes'  BY <1>1, <1>2 DEF InstallInv, InstallTypes
<1>4. Done' = {}  BY <1>2 DEF Done
<1>5. PlanKept'  BY <1>2, <1>4 DEF PlanKept
<1> QED  BY <1>3, <1>5 DEF InstallInv

LEMMA ProbeStep ==
  ASSUME InstallInv, Install!Probe
  PROVE  InstallInv'
<1> DEFINE i == plan.next
           q == Install!Order[i]
           shown == facts \cap Install!Shows(q)
<1>1. /\ plan \in PlanType /\ i \in 1..10 /\ plan.verdict = "none" /\ PlanKept
      /\ facts' = facts /\ changes' = changes /\ skills' = skills /\ facts \subseteq Faults
  <2>1. i \in 1..10  BY OrderFacts DEF Install!Probe
  <2>2. facts' = facts /\ changes' = changes /\ skills' = skills  BY DEF Install!Probe
  <2> QED  BY <2>1, <2>2 DEF InstallInv, InstallTypes
<1>2. \/ plan' = [plan EXCEPT !.next = i + 1, !.seen = plan.seen \cup shown]
      \/ q \in Failing /\ plan' = [plan EXCEPT !.next = i + 1, !.failed = plan.failed \cup {q}]
  BY DEF Install!Probe
<1>3. q \notin Done
  BY <1>1, OrderFacts DEF Done
<1>4. /\ plan' \in PlanType /\ plan'.next = i + 1 /\ plan'.aged = plan.aged
      /\ plan'.verdict = "none"
      /\ \/ plan'.seen = plan.seen \cup shown /\ plan'.failed = plan.failed
         \/ plan'.seen = plan.seen /\ plan'.failed = plan.failed \cup {q}
  <2> DEFINE saw == [plan EXCEPT !.next = i + 1, !.seen = plan.seen \cup shown]
             failed == [plan EXCEPT !.next = i + 1, !.failed = plan.failed \cup {q}]
  <2>1. i + 1 \in 0..11 /\ shown \subseteq Faults  BY <1>1
  <2> HIDE DEF q, shown
  <2>2. /\ saw \in PlanType /\ saw.next = i + 1 /\ saw.aged = plan.aged
        /\ saw.verdict = "none" /\ saw.seen = plan.seen \cup shown /\ saw.failed = plan.failed
    BY <1>1, <2>1 DEF PlanType
  <2>3. q \in Failing =>
          /\ failed \in PlanType /\ failed.next = i + 1 /\ failed.aged = plan.aged
          /\ failed.verdict = "none" /\ failed.seen = plan.seen
          /\ failed.failed = plan.failed \cup {q}
    BY <1>1, <2>1 DEF PlanType
  <2>4. plan' = saw \/ (q \in Failing /\ plan' = failed)  BY <1>2
  <2> HIDE DEF saw, failed
  <2> QED  BY <2>2, <2>3, <2>4
<1>5. InstallTypes'
  BY <1>1, <1>4 DEF InstallInv, InstallTypes
<1>6. Done' = Done \cup {q}  BY <1>1, <1>4 DEF Done
<1> HIDE DEF q, i
<1>7. PlanKept'
  <2>1. CASE plan'.seen = plan.seen \cup shown /\ plan'.failed = plan.failed
    BY <1>1, <1>3, <1>4, <1>6, <2>1 DEF PlanKept
  <2>2. CASE plan'.seen = plan.seen /\ plan'.failed = plan.failed \cup {q}
    BY <1>1, <1>3, <1>4, <1>6, <2>2 DEF PlanKept
  <2> QED  BY <1>4, <2>1, <2>2
<1> QED  BY <1>5, <1>7 DEF InstallInv

LEMMA JudgedTypes ==
  ASSUME NEW p \in PlanType, NEW v \in Install!Verdicts
  PROVE  LET judged == [p EXCEPT !.verdict = v, !.next = 0]
         IN  /\ judged \in PlanType /\ judged.seen = p.seen /\ judged.failed = p.failed
             /\ judged.aged = p.aged /\ judged.next = 0 /\ judged.verdict = v
<1> DEFINE first == [p EXCEPT !.verdict = v]
           judged == [first EXCEPT !.next = 0]
<1>1. /\ first \in PlanType /\ first.seen = p.seen /\ first.failed = p.failed
      /\ first.aged = p.aged /\ first.next = p.next /\ first.verdict = v
  BY DEF PlanType
<1> HIDE DEF first
<1>2. /\ judged \in PlanType /\ judged.seen = p.seen /\ judged.failed = p.failed
      /\ judged.aged = p.aged /\ judged.next = 0 /\ judged.verdict = v
  BY <1>1 DEF PlanType
<1> QED  BY <1>2 DEF first

LEMMA DecideStep ==
  ASSUME InstallInv, Install!Decide
  PROVE  InstallInv'
<1>1. /\ plan \in PlanType /\ plan.next = 11 /\ plan.verdict = "none" /\ PlanKept
      /\ plan' = [plan EXCEPT !.verdict = Install!Verdict, !.next = 0]
      /\ facts' = facts /\ changes' = changes /\ skills' = skills
  BY OrderFacts DEF InstallInv, InstallTypes, Install!Decide
<1> DEFINE v == Install!Verdict
           judged == [plan EXCEPT !.verdict = v, !.next = 0]
<1>2. plan' = judged  BY <1>1
<1>3. /\ plan' \in PlanType /\ plan'.seen = plan.seen /\ plan'.failed = plan.failed
      /\ plan'.aged = plan.aged /\ plan'.next = 0 /\ plan'.verdict = v /\ v # "none"
  <2>0. v \in Install!Verdicts /\ v # "none"  BY VerdictKinds
  <2>1. plan \in PlanType /\ v \in Install!Verdicts  BY <1>1, <2>0
  <2> HIDE DEF v
  <2>2. /\ judged \in PlanType /\ judged.seen = plan.seen /\ judged.failed = plan.failed
        /\ judged.aged = plan.aged /\ judged.next = 0 /\ judged.verdict = v
    BY <2>1, JudgedTypes
  <2> HIDE DEF judged
  <2> QED  BY <1>2, <2>0, <2>2
<1>4. InstallTypes'
  BY <1>1, <1>3 DEF InstallInv, InstallTypes
<1>5. Done = Install!Probes  BY <1>1, OrderFacts DEF Done
<1>6. Done' = Install!Probes  BY <1>3 DEF Done, Install!Probes
<1>7. plan'.verdict = Install!Verdict'  BY <1>3, VerdictOf DEF v
<1>8. PlanKept'  BY <1>1, <1>3, <1>5, <1>6, <1>7 DEF PlanKept
<1> QED  BY <1>4, <1>8 DEF InstallInv

\* What sync-skill and the owner of a registry do leaves a plan as it is.
LEMMA SkillsStep ==
  ASSUME InstallInv, UNCHANGED <<facts, changes, plan>>,
         skills' \in [Install!Targets -> Checkouts \cup {"absent"}]
  PROVE  InstallInv'
<1>1. InstallTypes'  BY DEF InstallInv, InstallTypes
<1>2. Done' = Done /\ (plan.verdict # "none" => Install!Verdict' = Install!Verdict)
  BY VerdictOf DEF Done
<1>3. PlanKept'  BY <1>2 DEF InstallInv, PlanKept
<1> QED  BY <1>1, <1>3 DEF InstallInv

LEMMA InstallStep ==
  ASSUME InstallInv, Install!Next
  PROVE  InstallInv'
<1>1. skills \in [Install!Targets -> Checkouts \cup {"absent"}]
  BY DEF InstallInv, InstallTypes
<1>2. ASSUME NEW t \in Install!Targets, NEW c \in Checkouts \cup {"absent"},
             skills' = [skills EXCEPT ![t] = c]
      PROVE  skills' \in [Install!Targets -> Checkouts \cup {"absent"}]
  BY <1>1, <1>2
<1>3. CASE Install!SyncAuto
  <2>1. PICK c \in Checkouts, roots \in SUBSET Install!Roots : Install!Sync(c, roots)
    BY <1>3 DEF Install!SyncAuto
  <2>2. PICK t \in Install!TargetsOf(roots) : skills' = [skills EXCEPT ![t] = c]
    BY <2>1 DEF Install!Sync
  <2>3. t \in Install!Targets  BY DEF Install!TargetsOf, Install!Present
  <2> QED  BY <1>2, <2>1, <2>2, <2>3, SkillsStep DEF Install!Sync
<1>4. ASSUME NEW c \in Checkouts, NEW root \in Install!Roots, Install!SyncInto(c, root)
      PROVE  InstallInv'
  <2>1. <<root, "direct">> \in Install!Targets  BY DEF Install!Targets
  <2> QED  BY <1>2, <1>4, <2>1, SkillsStep DEF Install!SyncInto
<1>5. CASE Install!OwnerMoves
  <2>1. PICK t \in Install!Targets :
          \/ skills' = [skills EXCEPT ![t] = "absent"]
          \/ skills' = [skills EXCEPT ![t] = "absent", ![<<t[1], "nested">>] = skills[t]]
    BY <1>5 DEF Install!OwnerMoves
  <2>2. skills' \in [Install!Targets -> Checkouts \cup {"absent"}]  BY <1>1, <2>1
  <2> QED  BY <1>5, <2>2, SkillsStep DEF Install!OwnerMoves
<1> QED
  BY <1>3, <1>4, <1>5, OwnerChangesStep, BeginPlanStep, ProbeStep, DecideStep DEF Install!Next

LEMMA InstallInit ==
  ASSUME Install!Init
  PROVE  InstallInv
<1>1. /\ plan \in PlanType /\ plan.seen = {} /\ plan.failed = {} /\ plan.next = 0
      /\ plan.verdict = "none"
  BY NoPlanFacts DEF Install!Init
<1>2. InstallTypes  BY <1>1, SameCardinality, InstallAssumption DEF Install!Init, InstallTypes
<1>3. Done = {}  BY <1>1 DEF Done
<1>4. PlanKept  BY <1>1, <1>3 DEF PlanKept
<1> QED  BY <1>2, <1>4 DEF InstallInv

\* The invariant of the install tools holds throughout.
THEOREM InstallInductive == ScriptsSpec => []InstallInv
<1>1. ScriptsInit => InstallInv  BY InstallInit DEF ScriptsInit
<1>2. ASSUME InstallInv, [ScriptsNext]_allVars  PROVE InstallInv'
  <2>1. CASE UNCHANGED installVars
    <3>1. skills' \in [Install!Targets -> Checkouts \cup {"absent"}]
      BY <1>2, <2>1 DEF InstallInv, InstallTypes, installVars
    <3> QED  BY <1>2, <2>1, <3>1, SkillsStep DEF installVars
  <2>2. CASE Install!Next  BY <1>2, <2>2, InstallStep
  <2> QED  BY <1>2, <2>1, <2>2 DEF ScriptsNext, allVars
<1> QED  BY <1>1, <1>2, PTL DEF ScriptsSpec

\* Every variable of the scripts stays in its domain (AgentOps, GuiInstall).
THEOREM ScriptsTypeCorrect == ScriptsSpec => []ScriptsTypeOK
<1>1. StackInv /\ InstallInv => ScriptsTypeOK  BY TypesAre DEF StackInv, InstallInv, ScriptsTypeOK
<1> QED  BY <1>1, StackInductive, InstallInductive, PTL

-----------------------------------------------------------------------------
\* What is known of a checkout with the faults and failures that the code
\* treats as the documentation says.
LEMMA SeenIsSo ==
  ASSUME InstallInv, plan.verdict # "none", ~plan.aged, NEW q \in Install!Probes
  PROVE  \A f \in Install!Shows(q) : f \in plan.seen <=> f \in facts /\ q \notin plan.failed
<1>1. PlanKept /\ Done = Install!Probes  BY DEF InstallInv, Done
<1> QED  BY <1>1, ShowsApart DEF PlanKept

\* A verdict of gui-upgrade is true: of a checkout that stays as it is, success
\* and reinstall are said exactly when they should be, whatever combination of
\* faults and failing probes, except those of the finding, there is (detectRepo,
\* buildPlanData).
THEOREM VerdictsTrue ==
  (/\ Faults \subseteq (Install!HumanFaults \cup Install!InstallFaults) \ {"local-upstream"}
   /\ Failing \subseteq {"branch", "upstream", "remote", "python", "modules", "cli"})
  => (ScriptsSpec => []VerdictIsTrue)
<1> SUFFICES ASSUME
        Faults \subseteq (Install!HumanFaults \cup Install!InstallFaults) \ {"local-upstream"},
        Failing \subseteq {"branch", "upstream", "remote", "python", "modules", "cli"}
    PROVE ScriptsSpec => []VerdictIsTrue
  OBVIOUS
<1>1. ASSUME InstallInv  PROVE Install!VerdictIsTrue
  <2>1. /\ facts \subseteq Faults /\ plan.seen \subseteq Faults /\ plan.failed \subseteq Failing
        /\ PlanKept
    BY <1>1 DEF InstallInv, InstallTypes, PlanType
  <2>2. /\ "status" \notin plan.failed /\ "head" \notin plan.failed
        /\ "counts" \notin plan.failed /\ "node" \notin plan.failed
        /\ "local-upstream" \notin plan.seen /\ "local-upstream" \notin facts
    BY <2>1
  <2>3. plan.verdict = "reinstall" =>
          plan.seen \cap {"dirty", "ahead", "detached", "no-upstream", "unreachable"} = {}
    <3> SUFFICES ASSUME plan.verdict = "reinstall"
                 PROVE  /\ "dirty" \notin plan.seen /\ "ahead" \notin plan.seen
                        /\ "detached" \notin plan.seen /\ "no-upstream" \notin plan.seen
                        /\ "unreachable" \notin plan.seen
      OBVIOUS
    <3>1. Install!Verdict = "reinstall"  BY <2>1 DEF PlanKept
    <3> QED
      BY <2>2, <3>1
      DEF Install!Verdict, Install!Freshness, Install!Judge, Install!StaleTracking,
          Install!RemoteUnreachable, Install!Asked, Install!Counted, Install!Detached,
          Install!Upstream, Install!Saw, Install!Failed
  <2>4. ASSUME plan.verdict # "none", ~plan.aged
        PROVE  LET unknown == Install!HumanFaults \cup {"branch", "upstream", "remote"}
                   human == (facts \cup plan.failed) \cap unknown # {}
                   wrong == facts \cup plan.failed # {}
               IN  /\ plan.verdict = "success" <=> ~wrong
                   /\ plan.verdict = "reinstall" <=> (wrong /\ ~human)
    <3> DEFINE S(f) == f \in plan.seen
               F(f) == f \in facts
               X(q) == q \in plan.failed
    <3>1. /\ S("dirty") <=> F("dirty")
          /\ S("detached") <=> F("detached") /\ ~X("branch")
          /\ S("no-upstream") <=> F("no-upstream") /\ ~X("upstream")
          /\ S("ahead") <=> F("ahead")
          /\ S("behind") <=> F("behind")
          /\ S("unreachable") <=> F("unreachable") /\ ~X("remote")
          /\ S("moved") <=> F("moved") /\ ~X("remote")
          /\ S("node") <=> F("node")
          /\ S("python") <=> F("python") /\ ~X("python")
          /\ S("modules") <=> F("modules") /\ ~X("modules")
          /\ S("cli-old") <=> F("cli-old") /\ ~X("cli")
          /\ S("cli-missing") <=> F("cli-missing") /\ ~X("cli")
      BY <1>1, <2>2, <2>4, SeenIsSo DEF Install!Shows, Install!Probes
    <3>2. facts \cup plan.failed # {} <=>
            \/ F("dirty") \/ F("detached") \/ F("no-upstream") \/ F("ahead") \/ F("behind")
            \/ F("unreachable") \/ F("moved") \/ F("node") \/ F("python") \/ F("modules")
            \/ F("cli-old") \/ F("cli-missing")
            \/ X("branch") \/ X("upstream") \/ X("remote") \/ X("python") \/ X("modules")
            \/ X("cli")
      BY <2>1 DEF Install!HumanFaults, Install!InstallFaults
    <3>3. (facts \cup plan.failed) \cap
            (Install!HumanFaults \cup {"branch", "upstream", "remote"}) # {} <=>
            \/ F("dirty") \/ F("detached") \/ F("no-upstream") \/ F("ahead") \/ F("unreachable")
            \/ X("branch") \/ X("upstream") \/ X("remote")
      BY <2>1, <2>2 DEF Install!HumanFaults, Install!InstallFaults
    <3>4. plan.verdict = Install!Verdict  BY <2>1, <2>4 DEF PlanKept
    <3>5. Install!Upstream <=> ~S("no-upstream") /\ ~X("upstream")
      BY DEF Install!Upstream, Install!Saw, Install!Failed
    <3>6. Install!Detached <=> S("detached") \/ X("branch")
      BY DEF Install!Detached, Install!Saw, Install!Failed
    <3>7. /\ Install!Counted("ahead") <=> S("ahead") /\ Install!Upstream
          /\ Install!Counted("behind") <=> S("behind") /\ Install!Upstream
      BY <2>2 DEF Install!Counted, Install!Saw, Install!Failed
    <3>8. Install!RemoteUnreachable <=>
            /\ Install!Upstream /\ ~Install!Detached
            /\ S("unreachable") \/ X("remote")
      BY <2>2 DEF Install!RemoteUnreachable, Install!Asked, Install!Saw, Install!Failed
    <3>9. Install!StaleTracking <=>
            /\ Install!Upstream /\ ~Install!Detached /\ ~Install!RemoteUnreachable
            /\ S("moved") \/ S("ahead") \/ S("behind")
            /\ ~Install!Counted("ahead") /\ ~Install!Counted("behind")
      BY <2>2 DEF Install!StaleTracking, Install!Asked, Install!HeadDiffers, Install!Saw,
                  Install!Failed
    <3>10. Install!ProgramsBroken <=>
             \/ S("node") \/ S("python") \/ X("python") \/ S("modules") \/ X("modules")
             \/ S("cli-old") \/ S("cli-missing") \/ X("cli")
      BY DEF Install!ProgramsBroken, Install!Saw, Install!Failed
    <3>11. Install!Freshness =
             IF ~Install!Upstream \/ Install!Detached \/ Install!RemoteUnreachable THEN "unknown"
             ELSE IF S("dirty") THEN "dirty"
             ELSE IF S("ahead") THEN IF S("behind") THEN "diverged" ELSE "ahead"
             ELSE IF S("behind") \/ S("moved") THEN "behind" ELSE "current"
      BY <2>2, <3>7, <3>9 DEF Install!Freshness, Install!Judge, Install!Saw, Install!Failed
    <3> HIDE DEF S, F, X
    <3>12. Install!Verdict = "success" <=> ~(facts \cup plan.failed # {})
      BY <3>1, <3>2, <3>5, <3>6, <3>8, <3>10, <3>11 DEF Install!Verdict
    <3>13. Install!Verdict = "reinstall" <=>
             /\ facts \cup plan.failed # {}
             /\ (facts \cup plan.failed) \cap
                  (Install!HumanFaults \cup {"branch", "upstream", "remote"}) = {}
      BY <3>1, <3>2, <3>3, <3>5, <3>6, <3>8, <3>10, <3>11 DEF Install!Verdict
    <3> QED  BY <3>4, <3>12, <3>13
  <2> QED  BY <2>3, <2>4 DEF Install!VerdictIsTrue
<1> QED  BY <1>1, InstallInductive, PTL DEF VerdictIsTrue

-----------------------------------------------------------------------------
LEMMA TargetsFinite == IsFiniteSet(Install!Targets)
<1> DEFINE T1 == {<<"hermes", "direct">>}
           T2 == T1 \cup {<<"hermes", "nested">>}
           T3 == T2 \cup {<<"claude", "direct">>}
           T4 == T3 \cup {<<"claude", "nested">>}
<1>1. Install!Targets = T4  BY DEF Install!Targets, Install!Roots
<1>2. IsFiniteSet(T1)  BY FS_Singleton
<1> HIDE DEF T1
<1>3. IsFiniteSet(T2)  BY <1>2, FS_AddElement
<1> HIDE DEF T2
<1>4. IsFiniteSet(T3)  BY <1>3, FS_AddElement
<1> HIDE DEF T3
<1>5. IsFiniteSet(T4)  BY <1>4, FS_AddElement
<1> QED  BY <1>1, <1>5

\* A delivery without a place named leaves one skill, wherever the registries'
\* owner has filed earlier ones (findExistingTargets).
THEOREM OneSkillLeft == ScriptsSpec => OneSkillPerSync
<1>1. ASSUME InstallInv, Install!SyncAuto  PROVE Install!OneSkill(skills')
  <2> DEFINE there == Install!Present(Install!Roots)
  <2>1. skills \in [Install!Targets -> Checkouts \cup {"absent"}]
    BY <1>1 DEF InstallInv, InstallTypes
  <2>2. PICK c \in Checkouts, roots \in SUBSET Install!Roots :
          there = Install!Present(roots) /\ Install!Sync(c, roots)
    BY <1>1 DEF Install!SyncAuto
  <2>3. PICK t \in Install!TargetsOf(roots) : skills' = [skills EXCEPT ![t] = c]
    BY <2>2 DEF Install!Sync
  <2>4. there = {x \in Install!Targets : skills[x] # "absent"}
    BY DEF Install!Present, Install!Targets
  <2>5. t \in Install!Targets /\ c # "absent"
    BY <2>3, InstallAssumption DEF Install!TargetsOf, Install!Present
  <2>6. there \subseteq {t}
    <3>1. CASE there = {}  BY <3>1
    <3>2. CASE there # {}
      <4>1. t \in there /\ Cardinality(there) = 1
        BY <2>2, <2>3, <3>2, SameCardinality DEF Install!TargetsOf
      <4>2. IsFiniteSet(there)  BY <2>4, TargetsFinite, FS_Subset
      <4> HIDE DEF there
      <4>3. PICK x : there = {x}  BY <4>1, <4>2, FS_Singleton
      <4> QED  BY <4>1, <4>3
    <3> QED  BY <3>1, <3>2
  <2>7. {x \in Install!Targets : skills'[x] # "absent"} = {t}
    BY <2>1, <2>3, <2>4, <2>5, <2>6
  <2>8. Cardinality({t}) = 1  BY FS_Singleton
  <2> QED  BY <2>7, <2>8, SameCardinality DEF Install!OneSkill
<1>2. InstallInv => [kind = "install" /\ Install!SyncAuto => Install!OneSkill(skills')]_allVars
  BY <1>1
<1> QED  BY <1>2, InstallInductive, PTL DEF OneSkillPerSync

-----------------------------------------------------------------------------
(* The public link. *)
(* Every step keeps the types. *)
LEMMA TypeStep == ASSUME IInv, [Next]_vars PROVE TypeOK'
<1>0. TypeOK /\ DrawnInv
  BY DEF IInv
<1> USE JobsAssumption DEF TypeOK, DrawnInv, Actors, Statuses, WorkerSteps, ActorSteps, Chores, NoStartJob, Go, Work, CancelTimer, locals, world
<1>1. ASSUME NEW a \in Requests, NEW chore \in Chores, Arrive(a, chore) PROVE TypeOK'
  BY <1>0, <1>1 DEF Arrive
<1>2. ASSUME NEW j \in Jobs, TimerFires(j) PROVE TypeOK'
  BY <1>0, <1>2 DEF TimerFires
<1>3. ASSUME NEW a \in Actors, CheckExpiry(a) PROVE TypeOK'
  BY <1>0, <1>3 DEF CheckExpiry
<1>4. ASSUME NEW a \in Actors, StopProcesses(a) PROVE TypeOK'
  BY <1>0, <1>4 DEF StopProcesses
<1>5. ASSUME NEW a \in Actors, ClearState(a) PROVE TypeOK'
  BY <1>0, <1>5 DEF ClearState
<1>6. ASSUME NEW a \in Actors, Disarm(a) PROVE TypeOK'
  BY <1>0, <1>6 DEF Disarm
<1>7. ASSUME NEW a \in Actors, Reply(a) PROVE TypeOK'
  BY <1>0, <1>7 DEF Reply
<1>8. ASSUME NEW a \in Actors, StartChecksTunnel(a) PROVE TypeOK'
  BY <1>0, <1>8 DEF StartChecksTunnel
<1>9. ASSUME NEW a \in Actors, StartChecksJob(a) PROVE TypeOK'
  BY <1>0, <1>9 DEF StartChecksJob
<1>10. ASSUME NEW a \in Actors, PreflightFails(a) PROVE TypeOK'
  BY <1>0, <1>10 DEF PreflightFails
<1>11. ASSUME NEW a \in Actors, SetCode(a) PROVE TypeOK'
  BY <1>0, <1>11 DEF SetCode
<1>12. ASSUME NEW a \in Actors, CreateJob(a) PROVE TypeOK'
  BY <1>0, <1>12 DEF CreateJob
<1>13. ASSUME NEW a \in Actors, StopChecksTunnel(a) PROVE TypeOK'
  BY <1>0, <1>13 DEF StopChecksTunnel
<1>14. ASSUME NEW a \in Actors, StopCopiesTunnel(a) PROVE TypeOK'
  BY <1>0, <1>14 DEF StopCopiesTunnel
<1>15. ASSUME NEW j \in Jobs, ScriptLaunches(j) PROVE TypeOK'
  BY <1>0, <1>15 DEF ScriptLaunches
<1>16. ASSUME NEW j \in Jobs, ScriptSucceeds(j) PROVE TypeOK'
  BY <1>0, <1>16 DEF ScriptSucceeds
<1>17. ASSUME NEW j \in Jobs, ScriptFails(j) PROVE TypeOK'
  BY <1>0, <1>17 DEF ScriptFails
<1>18. ASSUME NEW j \in Jobs, ScriptTimesOut(j) PROVE TypeOK'
  BY <1>0, <1>18 DEF ScriptTimesOut
<1>19. ASSUME NEW j \in Jobs, FailStartJob(j) PROVE TypeOK'
  BY <1>0, <1>19 DEF FailStartJob
<1>20. ASSUME NEW j \in Jobs, ReportFailure(j) PROVE TypeOK'
  BY <1>0, <1>20 DEF ReportFailure
<1>21. ASSUME NEW j \in Jobs, Publish(j) PROVE TypeOK'
  BY <1>0, <1>21 DEF Publish
<1>22. ASSUME NEW j \in Jobs, CancelOldTimer(j) PROVE TypeOK'
  BY <1>0, <1>22 DEF CancelOldTimer
<1>23. ASSUME NEW j \in Jobs, ArmTimer(j) PROVE TypeOK'
  BY <1>0, <1>23 DEF ArmTimer
<1>24. ASSUME NEW j \in Jobs, TtlPasses(j) PROVE TypeOK'
  BY <1>0, <1>24 DEF TtlPasses
<1>25. CASE UNCHANGED vars
  BY <1>0, <1>25 DEF vars
<1> QED
  BY <1>1, <1>2, <1>3, <1>4, <1>5, <1>6, <1>7, <1>8, <1>9, <1>10, <1>11, <1>12, <1>13,
     <1>14, <1>15, <1>16, <1>17, <1>18, <1>19, <1>20, <1>21, <1>22, <1>23, <1>24, <1>25 DEF Next, ActorStep, WorkerStep

(* The ready job stays the active one. *)
LEMMA ReadyStep == ASSUME IInv, [Next]_vars PROVE ReadyIsActive'
<1>0. TypeOK /\ ReadyIsActive
  BY DEF IInv
<1> USE JobsAssumption DEF TypeOK, ReadyIsActive, NoStartJob, locals, world
<1>1. ASSUME NEW a \in Requests, NEW chore \in Chores, Arrive(a, chore) PROVE ReadyIsActive'
  BY <1>0, <1>1 DEF Arrive
<1>2. ASSUME NEW j \in Jobs, TimerFires(j) PROVE ReadyIsActive'
  BY <1>0, <1>2 DEF TimerFires
<1>3. ASSUME NEW a \in Actors, CheckExpiry(a) PROVE ReadyIsActive'
  BY <1>0, <1>3 DEF CheckExpiry
<1>4. ASSUME NEW a \in Actors, StopProcesses(a) PROVE ReadyIsActive'
  BY <1>0, <1>4 DEF StopProcesses
<1>5. ASSUME NEW a \in Actors, ClearState(a) PROVE ReadyIsActive'
  BY <1>0, <1>5 DEF ClearState
<1>6. ASSUME NEW a \in Actors, Disarm(a) PROVE ReadyIsActive'
  BY <1>0, <1>6 DEF Disarm
<1>7. ASSUME NEW a \in Actors, Reply(a) PROVE ReadyIsActive'
  BY <1>0, <1>7 DEF Reply
<1>8. ASSUME NEW a \in Actors, StartChecksTunnel(a) PROVE ReadyIsActive'
  BY <1>0, <1>8 DEF StartChecksTunnel
<1>9. ASSUME NEW a \in Actors, StartChecksJob(a) PROVE ReadyIsActive'
  BY <1>0, <1>9 DEF StartChecksJob
<1>10. ASSUME NEW a \in Actors, PreflightFails(a) PROVE ReadyIsActive'
  BY <1>0, <1>10 DEF PreflightFails
<1>11. ASSUME NEW a \in Actors, SetCode(a) PROVE ReadyIsActive'
  BY <1>0, <1>11 DEF SetCode
<1>12. ASSUME NEW a \in Actors, CreateJob(a) PROVE ReadyIsActive'
  BY <1>0, <1>12 DEF CreateJob
<1>13. ASSUME NEW a \in Actors, StopChecksTunnel(a) PROVE ReadyIsActive'
  BY <1>0, <1>13 DEF StopChecksTunnel
<1>14. ASSUME NEW a \in Actors, StopCopiesTunnel(a) PROVE ReadyIsActive'
  BY <1>0, <1>14 DEF StopCopiesTunnel
<1>15. ASSUME NEW j \in Jobs, ScriptLaunches(j) PROVE ReadyIsActive'
  BY <1>0, <1>15 DEF ScriptLaunches
<1>16. ASSUME NEW j \in Jobs, ScriptSucceeds(j) PROVE ReadyIsActive'
  BY <1>0, <1>16 DEF ScriptSucceeds
<1>17. ASSUME NEW j \in Jobs, ScriptFails(j) PROVE ReadyIsActive'
  BY <1>0, <1>17 DEF ScriptFails
<1>18. ASSUME NEW j \in Jobs, ScriptTimesOut(j) PROVE ReadyIsActive'
  BY <1>0, <1>18 DEF ScriptTimesOut
<1>19. ASSUME NEW j \in Jobs, FailStartJob(j) PROVE ReadyIsActive'
  BY <1>0, <1>19 DEF FailStartJob
<1>20. ASSUME NEW j \in Jobs, ReportFailure(j) PROVE ReadyIsActive'
  BY <1>0, <1>20 DEF ReportFailure
<1>21. ASSUME NEW j \in Jobs, Publish(j) PROVE ReadyIsActive'
  BY <1>0, <1>21 DEF Publish
<1>22. ASSUME NEW j \in Jobs, CancelOldTimer(j) PROVE ReadyIsActive'
  BY <1>0, <1>22 DEF CancelOldTimer
<1>23. ASSUME NEW j \in Jobs, ArmTimer(j) PROVE ReadyIsActive'
  BY <1>0, <1>23 DEF ArmTimer
<1>24. ASSUME NEW j \in Jobs, TtlPasses(j) PROVE ReadyIsActive'
  BY <1>0, <1>24 DEF TtlPasses
<1>25. CASE UNCHANGED vars
  BY <1>0, <1>25 DEF vars
<1> QED
  BY <1>1, <1>2, <1>3, <1>4, <1>5, <1>6, <1>7, <1>8, <1>9, <1>10, <1>11, <1>12, <1>13,
     <1>14, <1>15, <1>16, <1>17, <1>18, <1>19, <1>20, <1>21, <1>22, <1>23, <1>24, <1>25 DEF Next, ActorStep, WorkerStep

(* Only published tunnels become active or are taken down. *)
LEMMA TunnelStep == ASSUME IInv, [Next]_vars PROVE TunnelInv'
<1>0. TypeOK /\ TunnelInv /\ DrawnInv
  BY DEF IInv
<1> USE JobsAssumption DEF TypeOK, TunnelInv, DrawnInv, Published, Actors, WorkerSteps, ActorSteps, Go, Work, locals, world
<1>1. ASSUME NEW a \in Requests, NEW chore \in Chores, Arrive(a, chore) PROVE TunnelInv'
  BY <1>0, <1>1 DEF Arrive
<1>2. ASSUME NEW j \in Jobs, TimerFires(j) PROVE TunnelInv'
  BY <1>0, <1>2 DEF TimerFires
<1>3. ASSUME NEW a \in Actors, CheckExpiry(a) PROVE TunnelInv'
  BY <1>0, <1>3 DEF CheckExpiry
<1>4. ASSUME NEW a \in Actors, StopProcesses(a) PROVE TunnelInv'
  BY <1>0, <1>4 DEF StopProcesses
<1>5. ASSUME NEW a \in Actors, ClearState(a) PROVE TunnelInv'
  BY <1>0, <1>5 DEF ClearState
<1>6. ASSUME NEW a \in Actors, Disarm(a) PROVE TunnelInv'
  BY <1>0, <1>6 DEF Disarm
<1>7. ASSUME NEW a \in Actors, Reply(a) PROVE TunnelInv'
  BY <1>0, <1>7 DEF Reply
<1>8. ASSUME NEW a \in Actors, StartChecksTunnel(a) PROVE TunnelInv'
  BY <1>0, <1>8 DEF StartChecksTunnel
<1>9. ASSUME NEW a \in Actors, StartChecksJob(a) PROVE TunnelInv'
  BY <1>0, <1>9 DEF StartChecksJob
<1>10. ASSUME NEW a \in Actors, PreflightFails(a) PROVE TunnelInv'
  BY <1>0, <1>10 DEF PreflightFails
<1>11. ASSUME NEW a \in Actors, SetCode(a) PROVE TunnelInv'
  BY <1>0, <1>11 DEF SetCode
<1>12. ASSUME NEW a \in Actors, CreateJob(a) PROVE TunnelInv'
  BY <1>0, <1>12 DEF CreateJob
<1>13. ASSUME NEW a \in Actors, StopChecksTunnel(a) PROVE TunnelInv'
  BY <1>0, <1>13 DEF StopChecksTunnel
<1>14. ASSUME NEW a \in Actors, StopCopiesTunnel(a) PROVE TunnelInv'
  BY <1>0, <1>14 DEF StopCopiesTunnel
<1>15. ASSUME NEW j \in Jobs, ScriptLaunches(j) PROVE TunnelInv'
  BY <1>0, <1>15 DEF ScriptLaunches
<1>16. ASSUME NEW j \in Jobs, ScriptSucceeds(j) PROVE TunnelInv'
  BY <1>0, <1>16 DEF ScriptSucceeds
<1>17. ASSUME NEW j \in Jobs, ScriptFails(j) PROVE TunnelInv'
  BY <1>0, <1>17 DEF ScriptFails
<1>18. ASSUME NEW j \in Jobs, ScriptTimesOut(j) PROVE TunnelInv'
  BY <1>0, <1>18 DEF ScriptTimesOut
<1>19. ASSUME NEW j \in Jobs, FailStartJob(j) PROVE TunnelInv'
  BY <1>0, <1>19 DEF FailStartJob
<1>20. ASSUME NEW j \in Jobs, ReportFailure(j) PROVE TunnelInv'
  BY <1>0, <1>20 DEF ReportFailure
<1>21. ASSUME NEW j \in Jobs, Publish(j) PROVE TunnelInv'
  BY <1>0, <1>21 DEF Publish
<1>22. ASSUME NEW j \in Jobs, CancelOldTimer(j) PROVE TunnelInv'
  BY <1>0, <1>22 DEF CancelOldTimer
<1>23. ASSUME NEW j \in Jobs, ArmTimer(j) PROVE TunnelInv'
  BY <1>0, <1>23 DEF ArmTimer
<1>24. ASSUME NEW j \in Jobs, TtlPasses(j) PROVE TunnelInv'
  BY <1>0, <1>24 DEF TtlPasses
<1>25. CASE UNCHANGED vars
  BY <1>0, <1>25 DEF vars
<1> QED
  BY <1>1, <1>2, <1>3, <1>4, <1>5, <1>6, <1>7, <1>8, <1>9, <1>10, <1>11, <1>12, <1>13,
     <1>14, <1>15, <1>16, <1>17, <1>18, <1>19, <1>20, <1>21, <1>22, <1>23, <1>24, <1>25 DEF Next, ActorStep, WorkerStep

(* Two requests never draw the same id. *)
LEMMA DrawnStep == ASSUME IInv, [Next]_vars PROVE DrawnInv'
<1>0. TypeOK /\ DrawnInv
  BY DEF IInv
<1> USE JobsAssumption DEF TypeOK, DrawnInv, Actors, ActorSteps, WorkerSteps, Go, Work, locals, world
<1>1. ASSUME NEW a \in Requests, NEW chore \in Chores, Arrive(a, chore) PROVE DrawnInv'
  BY <1>0, <1>1 DEF Arrive
<1>2. ASSUME NEW j \in Jobs, TimerFires(j) PROVE DrawnInv'
  BY <1>0, <1>2 DEF TimerFires
<1>3. ASSUME NEW a \in Actors, CheckExpiry(a) PROVE DrawnInv'
  BY <1>0, <1>3 DEF CheckExpiry
<1>4. ASSUME NEW a \in Actors, StopProcesses(a) PROVE DrawnInv'
  BY <1>0, <1>4 DEF StopProcesses
<1>5. ASSUME NEW a \in Actors, ClearState(a) PROVE DrawnInv'
  BY <1>0, <1>5 DEF ClearState
<1>6. ASSUME NEW a \in Actors, Disarm(a) PROVE DrawnInv'
  BY <1>0, <1>6 DEF Disarm
<1>7. ASSUME NEW a \in Actors, Reply(a) PROVE DrawnInv'
  BY <1>0, <1>7 DEF Reply
<1>8. ASSUME NEW a \in Actors, StartChecksTunnel(a) PROVE DrawnInv'
  BY <1>0, <1>8 DEF StartChecksTunnel
<1>9. ASSUME NEW a \in Actors, StartChecksJob(a) PROVE DrawnInv'
  BY <1>0, <1>9 DEF StartChecksJob
<1>10. ASSUME NEW a \in Actors, PreflightFails(a) PROVE DrawnInv'
  BY <1>0, <1>10 DEF PreflightFails
<1>11. ASSUME NEW a \in Actors, SetCode(a) PROVE DrawnInv'
  BY <1>0, <1>11 DEF SetCode
<1>12. ASSUME NEW a \in Actors, CreateJob(a) PROVE DrawnInv'
  BY <1>0, <1>12 DEF CreateJob
<1>13. ASSUME NEW a \in Actors, StopChecksTunnel(a) PROVE DrawnInv'
  BY <1>0, <1>13 DEF StopChecksTunnel
<1>14. ASSUME NEW a \in Actors, StopCopiesTunnel(a) PROVE DrawnInv'
  BY <1>0, <1>14 DEF StopCopiesTunnel
<1>15. ASSUME NEW j \in Jobs, ScriptLaunches(j) PROVE DrawnInv'
  BY <1>0, <1>15 DEF ScriptLaunches
<1>16. ASSUME NEW j \in Jobs, ScriptSucceeds(j) PROVE DrawnInv'
  BY <1>0, <1>16 DEF ScriptSucceeds
<1>17. ASSUME NEW j \in Jobs, ScriptFails(j) PROVE DrawnInv'
  BY <1>0, <1>17 DEF ScriptFails
<1>18. ASSUME NEW j \in Jobs, ScriptTimesOut(j) PROVE DrawnInv'
  BY <1>0, <1>18 DEF ScriptTimesOut
<1>19. ASSUME NEW j \in Jobs, FailStartJob(j) PROVE DrawnInv'
  BY <1>0, <1>19 DEF FailStartJob
<1>20. ASSUME NEW j \in Jobs, ReportFailure(j) PROVE DrawnInv'
  BY <1>0, <1>20 DEF ReportFailure
<1>21. ASSUME NEW j \in Jobs, Publish(j) PROVE DrawnInv'
  BY <1>0, <1>21 DEF Publish
<1>22. ASSUME NEW j \in Jobs, CancelOldTimer(j) PROVE DrawnInv'
  BY <1>0, <1>22 DEF CancelOldTimer
<1>23. ASSUME NEW j \in Jobs, ArmTimer(j) PROVE DrawnInv'
  BY <1>0, <1>23 DEF ArmTimer
<1>24. ASSUME NEW j \in Jobs, TtlPasses(j) PROVE DrawnInv'
  BY <1>0, <1>24 DEF TtlPasses
<1>25. CASE UNCHANGED vars
  BY <1>0, <1>25 DEF vars
<1> QED
  BY <1>1, <1>2, <1>3, <1>4, <1>5, <1>6, <1>7, <1>8, <1>9, <1>10, <1>11, <1>12, <1>13,
     <1>14, <1>15, <1>16, <1>17, <1>18, <1>19, <1>20, <1>21, <1>22, <1>23, <1>24, <1>25 DEF Next, ActorStep, WorkerStep

(* The active tunnel runs until somebody is about to clear it. *)
LEMMA ActiveStep == ASSUME IInv, [Next]_vars PROVE ActiveRuns'
<1>0. TypeOK /\ ActiveRuns /\ TunnelInv
  BY DEF IInv
<1> USE JobsAssumption DEF TypeOK, ActiveRuns, TunnelInv, Published, Actors, ActorSteps, WorkerSteps, Go, Work, locals, world
<1>1. ASSUME NEW a \in Requests, NEW chore \in Chores, Arrive(a, chore) PROVE ActiveRuns'
  BY <1>0, <1>1 DEF Arrive
<1>2. ASSUME NEW j \in Jobs, TimerFires(j) PROVE ActiveRuns'
  BY <1>0, <1>2 DEF TimerFires
<1>3. ASSUME NEW a \in Actors, CheckExpiry(a) PROVE ActiveRuns'
  BY <1>0, <1>3 DEF CheckExpiry
<1>4. ASSUME NEW a \in Actors, StopProcesses(a) PROVE ActiveRuns'
  BY <1>0, <1>4 DEF StopProcesses
<1>5. ASSUME NEW a \in Actors, ClearState(a) PROVE ActiveRuns'
  BY <1>0, <1>5 DEF ClearState
<1>6. ASSUME NEW a \in Actors, Disarm(a) PROVE ActiveRuns'
  BY <1>0, <1>6 DEF Disarm
<1>7. ASSUME NEW a \in Actors, Reply(a) PROVE ActiveRuns'
  BY <1>0, <1>7 DEF Reply
<1>8. ASSUME NEW a \in Actors, StartChecksTunnel(a) PROVE ActiveRuns'
  BY <1>0, <1>8 DEF StartChecksTunnel
<1>9. ASSUME NEW a \in Actors, StartChecksJob(a) PROVE ActiveRuns'
  BY <1>0, <1>9 DEF StartChecksJob
<1>10. ASSUME NEW a \in Actors, PreflightFails(a) PROVE ActiveRuns'
  BY <1>0, <1>10 DEF PreflightFails
<1>11. ASSUME NEW a \in Actors, SetCode(a) PROVE ActiveRuns'
  BY <1>0, <1>11 DEF SetCode
<1>12. ASSUME NEW a \in Actors, CreateJob(a) PROVE ActiveRuns'
  BY <1>0, <1>12 DEF CreateJob
<1>13. ASSUME NEW a \in Actors, StopChecksTunnel(a) PROVE ActiveRuns'
  BY <1>0, <1>13 DEF StopChecksTunnel
<1>14. ASSUME NEW a \in Actors, StopCopiesTunnel(a) PROVE ActiveRuns'
  BY <1>0, <1>14 DEF StopCopiesTunnel
<1>15. ASSUME NEW j \in Jobs, ScriptLaunches(j) PROVE ActiveRuns'
  BY <1>0, <1>15 DEF ScriptLaunches
<1>16. ASSUME NEW j \in Jobs, ScriptSucceeds(j) PROVE ActiveRuns'
  BY <1>0, <1>16 DEF ScriptSucceeds
<1>17. ASSUME NEW j \in Jobs, ScriptFails(j) PROVE ActiveRuns'
  BY <1>0, <1>17 DEF ScriptFails
<1>18. ASSUME NEW j \in Jobs, ScriptTimesOut(j) PROVE ActiveRuns'
  BY <1>0, <1>18 DEF ScriptTimesOut
<1>19. ASSUME NEW j \in Jobs, FailStartJob(j) PROVE ActiveRuns'
  BY <1>0, <1>19 DEF FailStartJob
<1>20. ASSUME NEW j \in Jobs, ReportFailure(j) PROVE ActiveRuns'
  BY <1>0, <1>20 DEF ReportFailure
<1>21. ASSUME NEW j \in Jobs, Publish(j) PROVE ActiveRuns'
  BY <1>0, <1>21 DEF Publish
<1>22. ASSUME NEW j \in Jobs, CancelOldTimer(j) PROVE ActiveRuns'
  BY <1>0, <1>22 DEF CancelOldTimer
<1>23. ASSUME NEW j \in Jobs, ArmTimer(j) PROVE ActiveRuns'
  BY <1>0, <1>23 DEF ArmTimer
<1>24. ASSUME NEW j \in Jobs, TtlPasses(j) PROVE ActiveRuns'
  BY <1>0, <1>24 DEF TtlPasses
<1>25. CASE UNCHANGED vars
  BY <1>0, <1>25 DEF vars
<1> QED
  BY <1>1, <1>2, <1>3, <1>4, <1>5, <1>6, <1>7, <1>8, <1>9, <1>10, <1>11, <1>12, <1>13,
     <1>14, <1>15, <1>16, <1>17, <1>18, <1>19, <1>20, <1>21, <1>22, <1>23, <1>24, <1>25 DEF Next, ActorStep, WorkerStep

(* Somebody will clear the codes. *)
LEMMA CodeStep == ASSUME IInv, [Next]_vars PROVE CodeInv'
<1>0. TypeOK /\ CodeInv /\ DrawnInv
  BY DEF IInv
<1> USE JobsAssumption DEF TypeOK, CodeInv, DrawnInv, Actors, ActorSteps, WorkerSteps, Go, Work, locals, world
<1>1. ASSUME NEW a \in Requests, NEW chore \in Chores, Arrive(a, chore) PROVE CodeInv'
  BY <1>0, <1>1 DEF Arrive
<1>2. ASSUME NEW j \in Jobs, TimerFires(j) PROVE CodeInv'
  BY <1>0, <1>2 DEF TimerFires
<1>3. ASSUME NEW a \in Actors, CheckExpiry(a) PROVE CodeInv'
  BY <1>0, <1>3 DEF CheckExpiry
<1>4. ASSUME NEW a \in Actors, StopProcesses(a) PROVE CodeInv'
  BY <1>0, <1>4 DEF StopProcesses
<1>5. ASSUME NEW a \in Actors, ClearState(a) PROVE CodeInv'
  BY <1>0, <1>5 DEF ClearState
<1>6. ASSUME NEW a \in Actors, Disarm(a) PROVE CodeInv'
  BY <1>0, <1>6 DEF Disarm
<1>7. ASSUME NEW a \in Actors, Reply(a) PROVE CodeInv'
  BY <1>0, <1>7 DEF Reply
<1>8. ASSUME NEW a \in Actors, StartChecksTunnel(a) PROVE CodeInv'
  BY <1>0, <1>8 DEF StartChecksTunnel
<1>9. ASSUME NEW a \in Actors, StartChecksJob(a) PROVE CodeInv'
  BY <1>0, <1>9 DEF StartChecksJob
<1>10. ASSUME NEW a \in Actors, PreflightFails(a) PROVE CodeInv'
  BY <1>0, <1>10 DEF PreflightFails
<1>11. ASSUME NEW a \in Actors, SetCode(a) PROVE CodeInv'
  BY <1>0, <1>11 DEF SetCode
<1>12. ASSUME NEW a \in Actors, CreateJob(a) PROVE CodeInv'
  BY <1>0, <1>12 DEF CreateJob
<1>13. ASSUME NEW a \in Actors, StopChecksTunnel(a) PROVE CodeInv'
  BY <1>0, <1>13 DEF StopChecksTunnel
<1>14. ASSUME NEW a \in Actors, StopCopiesTunnel(a) PROVE CodeInv'
  BY <1>0, <1>14 DEF StopCopiesTunnel
<1>15. ASSUME NEW j \in Jobs, ScriptLaunches(j) PROVE CodeInv'
  BY <1>0, <1>15 DEF ScriptLaunches
<1>16. ASSUME NEW j \in Jobs, ScriptSucceeds(j) PROVE CodeInv'
  BY <1>0, <1>16 DEF ScriptSucceeds
<1>17. ASSUME NEW j \in Jobs, ScriptFails(j) PROVE CodeInv'
  BY <1>0, <1>17 DEF ScriptFails
<1>18. ASSUME NEW j \in Jobs, ScriptTimesOut(j) PROVE CodeInv'
  BY <1>0, <1>18 DEF ScriptTimesOut
<1>19. ASSUME NEW j \in Jobs, FailStartJob(j) PROVE CodeInv'
  BY <1>0, <1>19 DEF FailStartJob
<1>20. ASSUME NEW j \in Jobs, ReportFailure(j) PROVE CodeInv'
  BY <1>0, <1>20 DEF ReportFailure
<1>21. ASSUME NEW j \in Jobs, Publish(j) PROVE CodeInv'
  BY <1>0, <1>21 DEF Publish
<1>22. ASSUME NEW j \in Jobs, CancelOldTimer(j) PROVE CodeInv'
  BY <1>0, <1>22 DEF CancelOldTimer
<1>23. ASSUME NEW j \in Jobs, ArmTimer(j) PROVE CodeInv'
  BY <1>0, <1>23 DEF ArmTimer
<1>24. ASSUME NEW j \in Jobs, TtlPasses(j) PROVE CodeInv'
  BY <1>0, <1>24 DEF TtlPasses
<1>25. CASE UNCHANGED vars
  BY <1>0, <1>25 DEF vars
<1> QED
  BY <1>1, <1>2, <1>3, <1>4, <1>5, <1>6, <1>7, <1>8, <1>9, <1>10, <1>11, <1>12, <1>13,
     <1>14, <1>15, <1>16, <1>17, <1>18, <1>19, <1>20, <1>21, <1>22, <1>23, <1>24, <1>25 DEF Next, ActorStep, WorkerStep

-----------------------------------------------------------------------------
(* Nothing runs and nothing is published at first. *)
LEMMA InitIInv == Init => IInv
BY JobsAssumption DEF Init, IInv, TypeOK, ReadyIsActive, ActiveRuns, TunnelInv, DrawnInv, CodeInv,
   NoStartJob, Statuses, WorkerSteps, ActorSteps, Chores, Published

(* IInv is an inductive invariant of the specification. *)
THEOREM Inductive == Spec => []IInv
<1>1. IInv /\ [Next]_vars => IInv'
  <2> SUFFICES ASSUME IInv, [Next]_vars PROVE IInv'
    OBVIOUS
  <2> QED
    BY TypeStep, ReadyStep, TunnelStep, DrawnStep, ActiveStep, CodeStep DEF IInv
<1> QED
  BY InitIInv, <1>1, PTL DEF Spec

(* The public link's variables keep their types. *)
THEOREM TypeCorrect == Spec => []TypeOK
<1>1. IInv => TypeOK
  BY DEF IInv
<1> QED
  BY Inductive, <1>1, PTL

(* A ready job is the published tunnel, however many starts overtake each  *)
(* other.                                                                  *)
THEOREM ReadyJobIsActive == Spec => []ReadyIsActive
<1>1. IInv => ReadyIsActive
  BY DEF IInv
<1> QED
  BY Inductive, <1>1, PTL

(* The link shown online runs until a stop is about to clear it. *)
THEOREM ActiveLinkRuns == Spec => []ActiveRuns
<1>1. IInv => ActiveRuns
  BY DEF IInv
<1> QED
  BY Inductive, <1>1, PTL

(* With nothing active and nobody at work, no code is left to redeem. *)
THEOREM CodesAreCleared == Spec => []NoStaleCodes
<1>1. IInv => NoStaleCodes
  BY DEF IInv, CodeInv, NoStaleCodes, Quiet
<1> QED
  BY Inductive, <1>1, PTL

-----------------------------------------------------------------------------
(* What README.en.md says of a start that fails is broken by the timeout of  *)
(* the script alone: as long as no script is given up after its processes    *)
(* were launched, a worker that fails has left nothing running.              *)
TimeoutsAreEarly == [][\A j \in Jobs : ScriptTimesOut(j) => j \notin tunnels]_vars

FailedLeavesNothing ==
  /\ \A j \in Jobs : worker[j] \in {"unused", "drawn", "failing", "reporting"} => j \notin tunnels
  /\ job.status = "error" => job.id \in Jobs /\ worker[job.id] = "done" /\ job.id \notin tunnels

\* A worker's step keeps it (run_start_job, _fail_start_job, the script).
LEMMA WorkersLeaveNothing ==
  ASSUME IInv, FailedLeavesNothing, NEW j \in Jobs,
         WorkerStep(j) \/ ScriptLaunches(j) \/ TimerFires(j) \/ TtlPasses(j),
         ScriptTimesOut(j) => j \notin tunnels
  PROVE  FailedLeavesNothing'
<1> USE DEF IInv, TypeOK, FailedLeavesNothing, Work
<1>1. CASE ScriptLaunches(j)  BY <1>1 DEF ScriptLaunches
<1>2. CASE ScriptSucceeds(j)  BY <1>2 DEF ScriptSucceeds, locals, world
<1>3. CASE ScriptFails(j)  BY <1>3 DEF ScriptFails
<1>4. CASE ScriptTimesOut(j)  BY <1>4 DEF ScriptTimesOut, world
<1>5. CASE FailStartJob(j)  BY <1>5 DEF FailStartJob, world
<1>6. CASE ReportFailure(j)
  <2>1. CASE job.id = j
    <3>1. job' = [job EXCEPT !.status = "error"]  BY <1>6, <2>1 DEF ReportFailure
    <3>2. job'.id = j /\ job'.status = "error"  BY <2>1, <3>1
    <3> QED BY <1>6, <3>2 DEF ReportFailure, world
  <2>2. CASE job.id # j  BY <1>6, <2>2 DEF ReportFailure, world
  <2> QED BY <2>1, <2>2
<1>7. CASE Publish(j)
  <2>1. CASE job.id = j
    <3>1. job'.status = "ready"  BY <1>7, <2>1 DEF Publish
    <3> QED BY <1>7, <2>1, <3>1 DEF Publish, world
  <2>2. CASE job.id # j  BY <1>7, <2>2 DEF Publish, world
  <2> QED BY <2>1, <2>2
<1>8. CASE CancelOldTimer(j) \/ ArmTimer(j)  BY <1>8 DEF CancelOldTimer, ArmTimer
<1>9. CASE TimerFires(j) \/ TtlPasses(j)  BY <1>9 DEF TimerFires, TtlPasses
<1> QED BY <1>1, <1>2, <1>3, <1>4, <1>5, <1>6, <1>7, <1>8, <1>9 DEF WorkerStep

\* A request's step, or a timer's, keeps it (start_public_link, stop_public_link).
LEMMA ActorsLeaveNothing ==
  ASSUME IInv, FailedLeavesNothing, NEW a \in Actors, ActorStep(a)
  PROVE  FailedLeavesNothing'
<1> USE DEF IInv, TypeOK, FailedLeavesNothing, Work
<1>1. CASE StopProcesses(a)  BY <1>1 DEF StopProcesses
<1>2. CASE ClearState(a)  BY <1>2 DEF ClearState, NoStartJob, world
<1>3. CASE PreflightFails(a)  BY <1>3 DEF PreflightFails, world
<1>4. CASE SetCode(a)
  <2>1. PICK j \in Jobs : worker[j] = "unused" /\ worker' = [worker EXCEPT ![j] = "drawn"]
    BY <1>4 DEF SetCode
  <2>2. UNCHANGED <<job, tunnels>>  BY <1>4 DEF SetCode, world
  <2> QED BY <2>1, <2>2
<1>5. CASE CreateJob(a)  BY <1>5 DEF CreateJob, DrawnInv, world
<1>6. CASE \/ CheckExpiry(a) \/ Disarm(a) \/ Reply(a) \/ StartChecksTunnel(a)
           \/ StartChecksJob(a) \/ StopChecksTunnel(a) \/ StopCopiesTunnel(a)
  <2>1. UNCHANGED <<worker, job, tunnels>>
    BY <1>6 DEF CheckExpiry, Disarm, Reply, StartChecksTunnel, StartChecksJob, StopChecksTunnel,
                StopCopiesTunnel, world
  <2> QED BY <2>1
<1> QED BY <1>1, <1>2, <1>3, <1>4, <1>5, <1>6 DEF ActorStep

\* A failed start leaves no tunnel, unless its script was given up when it had
\* launched one: the promise of README.en.md, with all that breaks it.
THEOREM FailsClosedInTime == Spec /\ TimeoutsAreEarly => []FailsClosed
<1> DEFINE Early == \A j \in Jobs : ScriptTimesOut(j) => j \notin tunnels
<1>1. Init => FailedLeavesNothing
  BY DEF Init, FailedLeavesNothing, NoStartJob
<1>2. IInv /\ FailedLeavesNothing /\ [Next]_vars /\ [Early]_vars => FailedLeavesNothing'
  <2> SUFFICES ASSUME IInv, FailedLeavesNothing, [Next]_vars, [Early]_vars
               PROVE  FailedLeavesNothing'
    OBVIOUS
  <2>1. CASE UNCHANGED vars  BY <2>1 DEF vars, world, FailedLeavesNothing
  <2>2. CASE Next /\ Early
    <3>1. CASE \E a \in Requests, chore \in Chores : Arrive(a, chore)
      <4>1. UNCHANGED <<worker, job, tunnels>>  BY <3>1 DEF Arrive, world
      <4> QED BY <4>1 DEF FailedLeavesNothing
    <3>2. ASSUME NEW a \in Actors, ActorStep(a)  PROVE FailedLeavesNothing'
      BY <3>2, ActorsLeaveNothing
    <3>3. ASSUME NEW j \in Jobs, WorkerStep(j) \/ ScriptLaunches(j) \/ TimerFires(j) \/ TtlPasses(j)
          PROVE  FailedLeavesNothing'
      BY <2>2, <3>3, WorkersLeaveNothing
    <3> QED BY <2>2, <3>1, <3>2, <3>3 DEF Next
  <2> QED BY <2>1, <2>2
<1>3. FailedLeavesNothing => FailsClosed  BY DEF FailedLeavesNothing, FailsClosed
<1> QED BY <1>1, <1>2, <1>3, Inductive, PTL DEF Spec, TimeoutsAreEarly
=============================================================================
