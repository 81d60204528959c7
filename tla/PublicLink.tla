----------------------------- MODULE PublicLink -----------------------------
(***************************************************************************)
(* The public link of the backend (backend/routers/public_link.py): a      *)
(* temporary Cloudflare tunnel that a PowerShell script starts and that    *)
(* stop, or its expiry, takes down.                                        *)
(*                                                                         *)
(* The handlers run in a thread pool, every start has a worker thread and  *)
(* every published tunnel an expiry timer.  _state_lock covers single      *)
(* assignments only, so one action is one critical section, one unlocked   *)
(* read of a global, or one call to the world (script, taskkill).          *)
(*                                                                         *)
(* What a job carries (ports, URL, session token, one-time code, process   *)
(* list, expiry) never changes once drawn and is named by the job itself.  *)
(* Not modelled: the 403 and 400 refusals and the status payload, which    *)
(* leave the state alone, and tunnels that die by themselves.              *)
(***************************************************************************)
EXTENDS Naturals, FiniteSets

CONSTANTS
  Requests,   \* threads that serve start, stop, status and events
  Jobs,       \* job ids; Init offers each once, which bounds the starts
  NoJob

ASSUME JobsAssumption == NoJob \notin Jobs /\ Requests \cap Jobs = {}

VARIABLES
  active,      \* _active_tunnel, by the job that published it
  job,         \* _start_job: its id and status
  timer,       \* _expiry_timer, by the job that armed it
  code_store,  \* _code_store, by the job that drew the code
  worker,      \* per job: where _run_start_job is
  pc,          \* per request, and per job for its timer's thread
  todo,        \* what that thread does after the expiry check
  seen,        \* its local copy of the active tunnel, or its new job
  tunnels,     \* the tunnels whose processes run
  armed,       \* timers that were started and neither fired nor cancelled
  expired      \* jobs whose tunnel TTL has passed

world == <<tunnels, armed, expired>>
locals == <<pc, todo, seen>>
vars == <<active, job, timer, code_store, worker, locals, world>>

Actors == Requests \cup Jobs
Statuses == {"none", "starting", "ready", "error"}
WorkerSteps == {"unused", "drawn", "running", "up", "failing", "reporting",
                "unscheduled", "arming", "done"}
ActorSteps == {"idle", "expire", "stopping", "clearing", "disarming", "body",
               "checkjob", "preflight", "creating", "copying"}
Chores == {"start", "stop", "reply"}

NoStartJob == [id |-> NoJob, status |-> "none"]

Init ==
  /\ active = NoJob
  /\ job = NoStartJob
  /\ timer = NoJob
  /\ code_store = {}
  /\ worker = [j \in Jobs |-> "unused"]
  /\ pc = [a \in Actors |-> "idle"]
  /\ todo = [a \in Actors |-> "reply"]
  /\ seen = [a \in Actors |-> NoJob]
  /\ tunnels = {}
  /\ armed = {}
  /\ expired = {}

Go(a, step) == pc' = [pc EXCEPT ![a] = step]
Work(j, step) == worker' = [worker EXCEPT ![j] = step]

(* _cancel_expiry_timer *)
CancelTimer ==
  /\ armed' = armed \ {timer}
  /\ timer' = NoJob

-----------------------------------------------------------------------------
(* The bound on starts: a job id is left for each one under way.           *)
Starting == {a \in Requests : pc[a] \notin {"idle", "creating"} /\ todo[a] = "start"}
IdsLeft == Cardinality({j \in Jobs : worker[j] = "unused"}) > Cardinality(Starting)

(* A request arrives.  status and events only check the expiry: "reply".   *)
Arrive(a, chore) ==
  /\ a \in Requests
  /\ pc[a] = "idle"
  /\ chore = "start" => IdsLeft
  /\ Go(a, "expire")
  /\ todo' = [todo EXCEPT ![a] = chore]
  /\ UNCHANGED <<active, job, timer, code_store, worker, seen, world>>

(* The delay of an uncancelled timer is over: _expire_tunnel_job asks      *)
(* whether its job is still the current one.                               *)
TimerFires(j) ==
  /\ j \in armed \cap expired
  /\ pc[j] = "idle"
  /\ armed' = armed \ {j}
  /\ IF job.id = j THEN Go(j, "expire") ELSE UNCHANGED pc
  /\ UNCHANGED <<active, job, timer, code_store, worker, todo, seen, tunnels, expired>>

(* _expire_active_tunnel_if_needed copies the active tunnel. *)
CheckExpiry(a) ==
  /\ pc[a] = "expire"
  /\ IF active \in expired
     THEN Go(a, "stopping") /\ seen' = [seen EXCEPT ![a] = active]
     ELSE Go(a, "body") /\ UNCHANGED seen
  /\ UNCHANGED <<active, job, timer, code_store, worker, todo, world>>

(* Mutant of StopProcesses: the state is not cleared afterwards. *)
StopProcessesOnly(a) ==
  /\ pc[a] = "stopping"
  /\ tunnels' = tunnels \ {seen[a]}
  /\ Go(a, "body")
  /\ UNCHANGED <<active, job, timer, code_store, worker, todo, seen, armed, expired>>

(* _stop_processes on the copy: a taskkill per process. *)
StopProcesses(a) ==
  /\ pc[a] = "stopping"
  /\ tunnels' = tunnels \ {seen[a]}
  /\ Go(a, "clearing")
  /\ UNCHANGED <<active, job, timer, code_store, worker, todo, seen, armed, expired>>

(* _clear_tunnel_state: the two globals under the lock, whatever tunnel    *)
(* they describe by now; then, outside it, the timer and the codes.        *)
ClearState(a) ==
  /\ pc[a] = "clearing"
  /\ active' = NoJob
  /\ job' = NoStartJob
  /\ Go(a, "disarming")
  /\ UNCHANGED <<timer, code_store, worker, todo, seen, world>>

Disarm(a) ==
  /\ pc[a] = "disarming"
  /\ CancelTimer
  /\ code_store' = {}
  /\ Go(a, "body")
  /\ UNCHANGED <<active, job, worker, todo, seen, tunnels, expired>>

Reply(a) ==
  /\ pc[a] = "body" /\ todo[a] = "reply"
  /\ Go(a, "idle")
  /\ UNCHANGED <<active, job, timer, code_store, worker, todo, seen, world>>

-----------------------------------------------------------------------------
(* start_public_link after the expiry check: a tunnel, then a starting     *)
(* job, answer the request as they are.                                    *)
StartChecksTunnel(a) ==
  /\ pc[a] = "body" /\ todo[a] = "start"
  /\ Go(a, IF active = NoJob THEN "checkjob" ELSE "idle")
  /\ UNCHANGED <<active, job, timer, code_store, worker, todo, seen, world>>

StartChecksJob(a) ==
  /\ pc[a] = "checkjob"
  /\ Go(a, IF job.status = "starting" THEN "idle" ELSE "preflight")
  /\ UNCHANGED <<active, job, timer, code_store, worker, todo, seen, world>>

PreflightFails(a) ==
  /\ pc[a] = "preflight"
  /\ \E j \in Jobs :
       /\ worker[j] = "unused"
       /\ Work(j, "done")
       /\ job' = [id |-> j, status |-> "error"]
  /\ Go(a, "idle")
  /\ UNCHANGED <<active, timer, code_store, todo, seen, world>>

SetCode(a) ==
  /\ pc[a] = "preflight"
  /\ \E j \in Jobs :
       /\ worker[j] = "unused"
       /\ Work(j, "drawn")
       /\ seen' = [seen EXCEPT ![a] = j]
       /\ code_store' = code_store \cup {j}
  /\ Go(a, "creating")
  /\ UNCHANGED <<active, job, timer, todo, world>>

(* The job becomes the current one, whatever was current, and its worker   *)
(* starts.                                                                 *)
CreateJob(a) ==
  /\ pc[a] = "creating"
  /\ job' = [id |-> seen[a], status |-> "starting"]
  /\ Work(seen[a], "running")
  /\ Go(a, "idle")
  /\ UNCHANGED <<active, timer, code_store, todo, seen, world>>

-----------------------------------------------------------------------------
(* stop_public_link after the expiry check: nothing active, nothing to do. *)
StopChecksTunnel(a) ==
  /\ pc[a] = "body" /\ todo[a] = "stop"
  /\ Go(a, IF active = NoJob THEN "idle" ELSE "copying")
  /\ UNCHANGED <<active, job, timer, code_store, worker, todo, seen, world>>

StopCopiesTunnel(a) ==
  /\ pc[a] = "copying"
  /\ seen' = [seen EXCEPT ![a] = active]
  /\ Go(a, IF active = NoJob THEN "clearing" ELSE "stopping")
  /\ todo' = [todo EXCEPT ![a] = "reply"]
  /\ UNCHANGED <<active, job, timer, code_store, worker, world>>

-----------------------------------------------------------------------------
(* The script: it starts the processes of the tunnel; then it prints their *)
(* list and the URL, or stops them and fails.                              *)
ScriptLaunches(j) ==
  /\ worker[j] = "running" /\ j \notin tunnels
  /\ tunnels' = tunnels \cup {j}
  /\ UNCHANGED <<active, job, timer, code_store, worker, locals, armed, expired>>

ScriptSucceeds(j) ==
  /\ worker[j] = "running" /\ j \in tunnels
  /\ Work(j, "up")
  /\ UNCHANGED <<active, job, timer, code_store, locals, world>>

ScriptFails(j) ==
  /\ worker[j] = "running"
  /\ tunnels' = tunnels \ {j}
  /\ Work(j, "failing")
  /\ UNCHANGED <<active, job, timer, code_store, locals, armed, expired>>

(* Mutant of ScriptTimesOut: the exception ends the worker. *)
ScriptTimeoutUncaught(j) ==
  /\ worker[j] = "running"
  /\ Work(j, "done")
  /\ UNCHANGED <<active, job, timer, code_store, locals, world>>

(* subprocess.run gives up on the script; nothing stops what it started.   *)
ScriptTimesOut(j) ==
  /\ worker[j] = "running"
  /\ Work(j, "failing")
  /\ UNCHANGED <<active, job, timer, code_store, locals, world>>

(* Mutants of FailStartJob and ReportFailure: the codes survive; the phase *)
(* is taken for the status.                                                *)
FailKeepsCodes(j) ==
  /\ worker[j] = "failing"
  /\ Work(j, "reporting")
  /\ UNCHANGED <<active, job, timer, code_store, locals, world>>

ReportPhase(j) ==
  /\ worker[j] = "reporting"
  /\ job' = IF job.id = j THEN [job EXCEPT !.status = "failed"] ELSE job
  /\ Work(j, "done")
  /\ UNCHANGED <<active, timer, code_store, locals, world>>

(* _fail_start_job: clear_code_store, then _update_start_job.              *)
FailStartJob(j) ==
  /\ worker[j] = "failing"
  /\ code_store' = {}
  /\ Work(j, "reporting")
  /\ UNCHANGED <<active, job, timer, locals, world>>

ReportFailure(j) ==
  /\ worker[j] = "reporting"
  /\ job' = IF job.id = j THEN [job EXCEPT !.status = "error"] ELSE job
  /\ Work(j, "done")
  /\ UNCHANGED <<active, timer, code_store, locals, world>>

(* Mutant of Publish: the worker does not ask whose job is current. *)
PublishAlways(j) ==
  /\ worker[j] = "up"
  /\ active' = j
  /\ job' = [job EXCEPT !.status = "ready"]
  /\ Work(j, "unscheduled")
  /\ UNCHANGED <<timer, code_store, locals, world>>

(* The critical section that publishes the tunnel, unless the job was      *)
(* superseded or cleared meanwhile: then the worker just leaves.           *)
Publish(j) ==
  /\ worker[j] = "up"
  /\ IF job.id = j
     THEN /\ active' = j
          /\ job' = [job EXCEPT !.status = "ready"]
          /\ Work(j, "unscheduled")
          /\ UNCHANGED code_store
     ELSE /\ code_store' = {}
          /\ Work(j, "done")
          /\ UNCHANGED <<active, job>>
  /\ UNCHANGED <<timer, locals, world>>

(* _schedule_tunnel_expiry, outside the lock. *)
CancelOldTimer(j) ==
  /\ worker[j] = "unscheduled"
  /\ CancelTimer
  /\ Work(j, "arming")
  /\ UNCHANGED <<active, job, code_store, locals, tunnels, expired>>

ArmTimer(j) ==
  /\ worker[j] = "arming"
  /\ timer' = j
  /\ armed' = armed \cup {j}
  /\ Work(j, "done")
  /\ UNCHANGED <<active, job, code_store, locals, tunnels, expired>>

(* Time passes: the TTL, counted from the request, is over. *)
TtlPasses(j) ==
  /\ worker[j] \notin {"unused", "drawn"} /\ j \notin expired
  /\ expired' = expired \cup {j}
  /\ UNCHANGED <<active, job, timer, code_store, worker, locals, tunnels, armed>>

-----------------------------------------------------------------------------
ActorStep(a) ==
  \/ CheckExpiry(a) \/ StopProcesses(a) \/ ClearState(a) \/ Disarm(a) \/ Reply(a)
  \/ StartChecksTunnel(a) \/ StartChecksJob(a) \/ PreflightFails(a) \/ SetCode(a)
  \/ CreateJob(a) \/ StopChecksTunnel(a) \/ StopCopiesTunnel(a)

WorkerStep(j) ==
  \/ ScriptSucceeds(j) \/ ScriptFails(j) \/ ScriptTimesOut(j)
  \/ FailStartJob(j) \/ ReportFailure(j)
  \/ Publish(j) \/ CancelOldTimer(j) \/ ArmTimer(j)

Next ==
  \/ \E a \in Requests, chore \in Chores : Arrive(a, chore)
  \/ \E a \in Actors : ActorStep(a)
  \/ \E j \in Jobs : WorkerStep(j) \/ ScriptLaunches(j) \/ TimerFires(j) \/ TtlPasses(j)

Spec == Init /\ [][Next]_vars

(* Threads keep running: the lock is never held across a call, the script  *)
(* is bounded by a timeout, and so is each taskkill.  Requests need not    *)
(* come, and a TTL may lie beyond the behaviour.                           *)
Fairness ==
  /\ \A a \in Actors : WF_vars(ActorStep(a))
  /\ \A j \in Jobs : WF_vars(WorkerStep(j))
FairSpec == Spec /\ Fairness

-----------------------------------------------------------------------------
TypeOK ==
  /\ active \in Jobs \cup {NoJob}
  /\ job \in [id : Jobs \cup {NoJob}, status : Statuses]
  /\ timer \in Jobs \cup {NoJob}
  /\ code_store \subseteq Jobs
  /\ worker \in [Jobs -> WorkerSteps]
  /\ pc \in [Actors -> ActorSteps]
  /\ todo \in [Actors -> Chores]
  /\ seen \in [Actors -> Jobs \cup {NoJob}]
  /\ tunnels \subseteq Jobs /\ armed \subseteq Jobs /\ expired \subseteq Jobs

(* A job that reports ready is the tunnel that is published: a worker that *)
(* comes late, after its job was stopped or superseded, never replaces the *)
(* tunnel of another job.                                                  *)
ReadyIsActive == job.status = "ready" => active = job.id

(* The link that status shows online runs, except while a stop or an       *)
(* expiry that has just taken its processes down is about to clear it.     *)
ActiveRuns ==
  active # NoJob =>
    \/ active \in tunnels
    \/ \E a \in Actors : pc[a] = "clearing" /\ seen[a] = active

(* No thread is under way. *)
Quiet ==
  /\ \A a \in Actors : pc[a] = "idle"
  /\ \A j \in Jobs : worker[j] \in {"unused", "done"}

(* Fail closed: when nothing is active and no thread is under way, no      *)
(* one-time code can be redeemed, whatever starts failed, were stopped or  *)
(* overtook each other before.                                             *)
NoStaleCodes == Quiet /\ active = NoJob => code_store = {}

(* A start that failed leaves no tunnel open behind it (README.en.md: "If  *)
(* generation fails, the GUI fails closed instead of exposing a            *)
(* half-configured link").  The timeout of the script breaks it.           *)
FailsClosed == job.status = "error" => job.id \notin tunnels

(* "starting" is never the last word: every start becomes ready or an      *)
(* error, or another request replaces it, so the events stream ends.       *)
StartSettles ==
  \A j \in Jobs :
    job = [id |-> j, status |-> "starting"] ~> job # [id |-> j, status |-> "starting"]
-----------------------------------------------------------------------------
(* The inductive invariant behind the safety properties.                   *)

Published == {"unscheduled", "arming", "done"}

(* A worker that saw its script succeed has a running tunnel; only a       *)
(* published tunnel is active, or about to be taken down.                  *)
TunnelInv ==
  /\ \A j \in Jobs : worker[j] = "up" => j \in tunnels
  /\ active # NoJob => worker[active] \in Published
  /\ \A a \in Actors : pc[a] \in {"stopping", "clearing"} /\ seen[a] # NoJob
       => worker[seen[a]] \in Published

(* A request that creates a job has drawn its id for itself. *)
DrawnInv ==
  \A a \in Actors : pc[a] = "creating" =>
    /\ seen[a] \in Jobs /\ worker[seen[a]] = "drawn"
    /\ \A b \in Actors \ {a} : pc[b] = "creating" => seen[b] # seen[a]

(* As long as a code is in the store, a thread that will clear it is under *)
(* way, or a tunnel is active whose stop will.                             *)
CodeInv ==
  code_store # {} =>
    \/ active # NoJob
    \/ \E a \in Actors : pc[a] \in {"creating", "clearing", "disarming"}
    \/ \E j \in Jobs : worker[j] \in {"running", "up", "failing"}

IInv == TypeOK /\ ReadyIsActive /\ ActiveRuns /\ TunnelInv /\ DrawnInv /\ CodeInv
=============================================================================
