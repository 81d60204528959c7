---------------------------- MODULE CodexAdapter ----------------------------
(***************************************************************************)
(* The codex-cli path of the host agent bridge                             *)
(* (host_agent_bridge/codex_cli_adapter.py): requests that run at once,    *)
(* each with one Codex process, the configuration they and the health      *)
(* check read, and the one trace file they share.                          *)
(*                                                                         *)
(* What runs between two awaits is one step: loading the prompt, checking  *)
(* the configuration and starting the process; and, once the process has   *)
(* ended, reading its output, writing the trace and removing the run       *)
(* directory.                                                              *)
(***************************************************************************)
EXTENDS Naturals, FiniteSets

CONSTANTS Reqs,         \* requests
          MaxChanges    \* bound: changes of the configuration by its owner

ASSUME CodexAdapterAssumption ==
    MaxChanges \in Nat /\ Reqs \cap {"none", "off"} = {}

\* What the configuration can lack, or have wrong.
Checks == {"executable", "version-or-login", "projection", "query-asset",
           "metadata-asset"}
Ops == {"query", "metadata"}
CodexMembers == {"codex", "tool"}   \* the CLI and the MCP server it starts

VARIABLES cx,       \* [Reqs -> state of the request]
          groups,   \* [Reqs -> the members of its process group that live]
          broken,   \* the checks that would fail now
          changes,  \* how often the owner has changed the configuration
          trace,    \* the trace file: "off" (unset), "none", or whose it is
          health    \* the last verdict, "unknown" once it may have aged

cxVars == <<cx, groups, broken, changes, trace, health>>

Results == {"none", "answer", "unconfigured", "refused", "timeout", "cancelled",
            "failed", "invalid", "trace", "temp"}
Idle == [at |-> "idle", op |-> "query", stop |-> "none", gone |-> FALSE,
         exit |-> "none", result |-> "none"]

CxTypeOK ==
    /\ cx \in [Reqs -> [at : {"idle", "running", "wait", "killed", "over"},
                        op : Ops, stop : {"none", "timeout", "cancel"},
                        gone : BOOLEAN, exit : {"none", "ok", "error"},
                        result : Results]]
    /\ groups \in [Reqs -> SUBSET CodexMembers]
    /\ broken \subseteq Checks /\ changes \in 0..MaxChanges
    /\ trace \in {"off", "none"} \cup Reqs
    /\ health \in {"unknown", "READY", "NOT_READY"}

CxInit ==
    /\ cx = [r \in Reqs |-> Idle]
    /\ groups = [r \in Reqs |-> {}]
    /\ broken \in SUBSET Checks /\ Cardinality(broken) <= 1
    /\ changes = 0
    /\ trace \in {"off", "none"}
    /\ health = "unknown"

-----------------------------------------------------------------------------
\* The trace is created once: a configured file that exists is refused.
ProjectionFails == "projection" \in broken \/ trace \in Reqs

\* What load_configured_prompt and the preflight of _run refuse.
Unconfigured(op) ==
    IF op = "query" THEN "query-asset" \in broken \/ ProjectionFails
    ELSE "metadata-asset" \in broken

\* mutant: the health check probes the prompt of queries alone.
VerdictOfQueries ==
    IF broken \subseteq {"metadata-asset"} /\ ~ProjectionFails THEN "READY"
    ELSE "NOT_READY"

\* codex_health_payload: the same facts, with those only the CLI can tell.
Verdict == IF broken = {} /\ ~ProjectionFails THEN "READY" ELSE "NOT_READY"

CheckHealth ==
    /\ health' = Verdict
    /\ UNCHANGED <<cx, groups, broken, changes, trace>>

OwnerChanges ==
    /\ changes < MaxChanges
    /\ \E c \in Checks : broken' = IF c \in broken THEN broken \ {c}
                                   ELSE broken \cup {c}
    /\ changes' = changes + 1 /\ health' = "unknown"
    /\ UNCHANGED <<cx, groups, trace>>

-----------------------------------------------------------------------------
\* The end of a request.  The run directory may refuse to go, and then takes
\* the result with it.
Finish(r, c, result) ==
    cx' = [cx EXCEPT ![r] =
             [at |-> "over", op |-> c.op, stop |-> "none", gone |-> FALSE,
              exit |-> "none", result |-> result]]

EndRun(r, c, result) == Finish(r, c, result) \/ Finish(r, c, "temp")

\* assemble_prompt, build_codex_schema: what is asked does not fit.
RefusesRequest(r, c) == Finish(r, c, "refused") /\ UNCHANGED groups

\* The run directory, or a file in it, cannot be made.
HasNoDirectory(r, c) == Finish(r, c, "temp") /\ UNCHANGED groups

\* default_async_runner, and the environment and arguments it is given.
StartsCodex(r, c) ==
    \/ "executable" \in broken /\ EndRun(r, c, "failed") /\ UNCHANGED groups
    \/ /\ "executable" \notin broken
       /\ cx' = [cx EXCEPT ![r] = [c EXCEPT !.at = "running"]]
       /\ groups' = [groups EXCEPT ![r] = {"codex"}]

Begin(r) ==
    /\ cx[r].at = "idle"
    /\ \E op \in Ops :
         LET c == [cx[r] EXCEPT !.op = op] IN
         \/ Unconfigured(op) /\ Finish(r, c, "unconfigured") /\ UNCHANGED groups
         \/ ~Unconfigured(op) /\ \/ RefusesRequest(r, c) \/ HasNoDirectory(r, c)
                                 \/ StartsCodex(r, c)
    /\ UNCHANGED <<broken, changes, trace, health>>

CodexForks(r) ==
    /\ groups[r] = {"codex"} /\ cx[r].at # "over"
    /\ groups' = [groups EXCEPT ![r] = CodexMembers]
    /\ UNCHANGED <<cx, broken, changes, trace, health>>

Hit(r, dead) == groups' = [groups EXCEPT ![r] = @ \ dead]

\* A Codex whose version or login is wrong fails by itself.
CodexExits(r, m) ==
    /\ m \in groups[r] /\ cx[r].at # "over"
    /\ Hit(r, {m})
    /\ IF m = "codex" /\ cx[r].at = "running"
       THEN \E e \in {"ok", "error"} :
              /\ e = "ok" => "version-or-login" \notin broken
              /\ cx' = [cx EXCEPT ![r].exit = e]
       ELSE UNCHANGED cx
    /\ UNCHANGED <<broken, changes, trace, health>>

\* communicate() reads the output of a query to its end, whoever writes it.
CodexEnded(r) == groups[r] = {} \/ (cx[r].op = "metadata" /\ "codex" \notin groups[r])

\* mutant: the file is opened to be written, not to be created.
CreateTraceOver(r) == trace' = r /\ health' = "unknown"

\* _write_query_projection_trace: only the first to come creates the file.
CreateTrace(r) ==
    /\ trace = "none"
    /\ trace' = r /\ health' = "unknown"

ExitedBadly(r) ==
    /\ cx[r].exit = "error" /\ EndRun(r, cx[r], "failed")
    /\ UNCHANGED <<trace, health>>

\* No output file, one too large, or one that is no envelope of the contract.
OutputIsInvalid(r) ==
    /\ cx[r].exit = "ok" /\ EndRun(r, cx[r], "invalid")
    /\ UNCHANGED <<trace, health>>

\* Metadata, and a query that no trace is configured for, is answered at once.
AnswersUntraced(r) ==
    /\ cx[r].exit = "ok" /\ (cx[r].op = "metadata" \/ trace = "off")
    /\ EndRun(r, cx[r], "answer") /\ UNCHANGED <<trace, health>>

\* The tool calls the process reported do not bear out the answer, or the file
\* cannot be created.
TraceIsRefused(r) == EndRun(r, cx[r], "trace") /\ UNCHANGED <<trace, health>>

AnswersTraced(r) ==
    /\ cx[r].exit = "ok" /\ cx[r].op = "query" /\ trace # "off"
    /\ \/ CreateTrace(r) /\ EndRun(r, cx[r], "answer")
       \/ TraceIsRefused(r)

\* What a process that ended by itself is worth.
Judge(r) == ExitedBadly(r) \/ OutputIsInvalid(r) \/ AnswersUntraced(r)
            \/ AnswersTraced(r)

Returns(r) ==
    /\ cx[r].at = "running" /\ CodexEnded(r)
    /\ Judge(r)
    /\ UNCHANGED <<groups, broken, changes>>

-----------------------------------------------------------------------------
(* Stopping the process: _terminate_then_kill. *)
\* SIGTERM to the group, which a member may ignore; or taskkill, which may fail
\* and leave the CLI alone to be terminated.
SignalGroup(r) == \E dead \in SUBSET groups[r] : Hit(r, dead)

BeginStop(r, why) ==
    /\ cx[r].at = "running"
    /\ IF "codex" \in groups[r] THEN SignalGroup(r) ELSE UNCHANGED groups
    /\ cx' = [cx EXCEPT ![r].at = "wait", ![r].stop = why,
                        ![r].gone = @ \/ why = "cancel"]

Expires(r) ==
    /\ ~CodexEnded(r) /\ BeginStop(r, "timeout")
    /\ UNCHANGED <<broken, changes, trace, health>>

\* Only a stream is cancelled when its client leaves.
CodexClientLeaves(r) ==
    /\ cx[r].op = "query" /\ ~cx[r].gone
    /\ \/ BeginStop(r, "cancel")
       \/ /\ cx[r].at \in {"wait", "killed"}
          /\ cx' = [cx EXCEPT ![r].gone = TRUE] /\ UNCHANGED groups
    /\ UNCHANGED <<broken, changes, trace, health>>

StopReason(r) == IF cx[r].stop = "timeout" THEN "timeout" ELSE "cancelled"

\* The group is not killed when its leader has gone.  On Windows the CLI is killed
\* alone.
AfterWait(r) ==
    /\ cx[r].at = "wait"
    /\ IF "codex" \notin groups[r]
       THEN EndRun(r, cx[r], StopReason(r)) /\ UNCHANGED groups
       ELSE /\ Hit(r, CodexMembers) \/ Hit(r, {"codex"})
            /\ cx' = [cx EXCEPT ![r].at = "killed"]
    /\ UNCHANGED <<broken, changes, trace, health>>

AfterKill(r) ==
    /\ cx[r].at = "killed"
    /\ EndRun(r, cx[r], StopReason(r))
    /\ UNCHANGED <<groups, broken, changes, trace, health>>

\* The cancellation of a departed client is delivered again at each await, and
\* nothing shields the waits from it.
CancelledAgain(r) ==
    /\ cx[r].at \in {"wait", "killed"} /\ cx[r].gone
    /\ EndRun(r, cx[r], "cancelled")
    /\ UNCHANGED <<groups, broken, changes, trace, health>>

-----------------------------------------------------------------------------
CxHandler(r) == Begin(r) \/ Returns(r) \/ Expires(r) \/ AfterWait(r)
                \/ AfterKill(r) \/ CancelledAgain(r)

CxNext == CheckHealth \/ OwnerChanges
          \/ \E r \in Reqs : CxHandler(r) \/ CodexForks(r) \/ CodexClientLeaves(r)
                             \/ \E m \in CodexMembers : CodexExits(r, m)
=============================================================================
