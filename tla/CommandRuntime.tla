--------------------------- MODULE CommandRuntime ---------------------------
(***************************************************************************)
(* The reference-command path of the host agent bridge                     *)
(* (host_agent_bridge/server.py): one request, the command it starts, and  *)
(* the descendant that command may leave behind.                           *)
(*                                                                         *)
(* A query is streamed: reader tasks move lines from the command's pipes   *)
(* to a queue, a third task waits for its exit, and the loop takes lines   *)
(* until the command is known to have ended and the queue is empty, or the *)
(* deadline passed.  However the loop ends, the cleanup runs to its end.   *)
(* A metadata request blocks a thread in subprocess.run instead.           *)
(*                                                                         *)
(* Lines of standard output are counted, not spelled out: they are         *)
(* written, queued and taken in one order.  One line of standard error     *)
(* stands for all of them.                                                 *)
(***************************************************************************)
EXTENDS Naturals, Sequences, FiniteSets

CONSTANTS Systems,      \* the values of os.name considered
          MaxLines      \* bound: lines the command writes

ASSUME CommandRuntimeAssumption ==
    Systems \subseteq {"posix", "nt"} /\ MaxLines \in Nat

Members == {"root", "kid"}          \* the command and its descendant
Requests == [op : {"query"}, os : Systems,
             config : {"exact-json", "native-markdown", "bad-mode", "no-command"}]
            \cup [op : {"metadata"}, os : Systems,
                  config : {"exact-json", "no-command"}]

VARIABLES request,  \* what is asked, of a bridge configured how
          stage,    \* where its handler is
          group,    \* the members of its process group that live
          exit,     \* how the command ended: by itself, or killed
          lines,    \* how many were written, queued, taken
          noise,    \* where the line of standard error is
          noticed,  \* whether the event loop knows that the command ended
          timer,    \* "running", "passed", or "fired": it ended the request
          gone,     \* whether the client of the stream has left
          finals    \* the terminal envelopes sent

process == <<group, exit>>
output == <<lines, noise>>
rtVars == <<request, stage, process, output, noticed, timer, gone, finals>>

QueueIsEmpty == lines.taken = lines.queued /\ noise # "queued"
Cleanup == {"stop", "wait", "kill", "reap"}
Stages == {"idle", "loop", "yield", "thread", "drain", "result", "over"} \cup Cleanup
Outcomes == {"answer", "unconfigured", "mode-invalid", "timeout", "failed",
             "empty", "invalid"}

RtTypeOK ==
    /\ request \in Requests
    /\ stage \in Stages
    /\ group \subseteq Members
    /\ exit \in {"none", "ok", "error", "killed"}
    /\ lines \in [written : 0..MaxLines, queued : 0..MaxLines, taken : 0..MaxLines]
    /\ lines.taken <= lines.queued /\ lines.queued <= lines.written
    /\ noise \in {"none", "written", "queued", "taken"}
    /\ noticed \in BOOLEAN /\ gone \in BOOLEAN
    /\ timer \in {"running", "passed", "fired"}
    /\ finals \in Seq([outcome : Outcomes, shown : 0..MaxLines])

RtInit ==
    /\ request \in Requests
    /\ stage = "idle"
    /\ group = {} /\ exit = "none"
    /\ lines = [written |-> 0, queued |-> 0, taken |-> 0] /\ noise = "none"
    /\ noticed = FALSE /\ gone = FALSE
    /\ timer = "running"
    /\ finals = <<>>

-----------------------------------------------------------------------------
Ends(outcome, shown) ==
    /\ finals' = Append(finals, [outcome |-> outcome, shown |-> shown])
    /\ stage' = "over"

\* Nothing is started: the mode is invalid, or there is no command to start.
Refuse ==
    /\ stage = "idle"
    /\ \/ request.config = "bad-mode" /\ Ends("mode-invalid", 0)
       \/ request.config # "bad-mode" /\ Ends("unconfigured", 0)
    /\ UNCHANGED <<request, process, output, noticed, timer, gone>>

\* The command gets a session, and so a process group, of its own.
Start ==
    /\ stage = "idle"
    /\ request.config \in {"exact-json", "native-markdown"}
    /\ group' = {"root"}
    /\ stage' = IF request.op = "query" THEN "loop" ELSE "thread"
    /\ UNCHANGED <<request, exit, output, noticed, timer, gone, finals>>

-----------------------------------------------------------------------------
(* The command and its descendant. *)
Writes ==
    /\ "root" \in group /\ stage # "over"
    /\ \/ /\ lines.written < MaxLines
          /\ lines' = [lines EXCEPT !.written = @ + 1] /\ UNCHANGED noise
       \/ /\ noise = "none"
          /\ noise' = "written" /\ UNCHANGED lines
    /\ UNCHANGED <<request, stage, process, noticed, timer, gone, finals>>

Forks ==
    /\ group = {"root"} /\ stage # "over"
    /\ group' = Members
    /\ UNCHANGED <<request, stage, exit, output, noticed, timer, gone, finals>>

Exits(m) ==
    /\ m \in group /\ stage # "over"
    /\ group' = group \ {m}
    /\ IF m = "root" THEN exit' \in {"ok", "error"} ELSE UNCHANGED exit
    /\ UNCHANGED <<request, stage, output, noticed, timer, gone, finals>>

\* These members of the group die of a signal.
Die(dead) ==
    /\ group' = group \ dead
    /\ exit' = IF "root" \in group \cap dead THEN "killed" ELSE exit

DeadlinePasses ==
    /\ stage \in {"loop", "yield", "thread"} /\ timer = "running"
    /\ timer' = "passed"
    /\ UNCHANGED <<request, stage, process, output, noticed, gone, finals>>

-----------------------------------------------------------------------------
(* The stream: reader tasks, the task that waits, and the loop. *)
Reads ==
    /\ stage \in {"loop", "yield"}
    /\ \/ /\ lines.queued < lines.written
          /\ lines' = [lines EXCEPT !.queued = @ + 1] /\ UNCHANGED noise
       \/ /\ noise = "written"
          /\ noise' = "queued" /\ UNCHANGED lines
    /\ UNCHANGED <<request, stage, process, noticed, timer, gone, finals>>

Notices ==
    /\ stage \in {"loop", "yield"} \cup Cleanup /\ exit # "none" /\ ~noticed
    /\ noticed' = TRUE
    /\ UNCHANGED <<request, stage, process, output, timer, gone, finals>>

\* The condition under which the loop stops waiting for lines.
Drained == noticed /\ QueueIsEmpty

LoopBreaks ==
    /\ stage = "loop" /\ Drained
    /\ stage' = "stop"
    /\ UNCHANGED <<request, process, output, noticed, timer, gone, finals>>

\* mutant: the deadline is looked at only when a line has come.
LoopExpiresOnLine ==
    /\ stage = "loop" /\ ~QueueIsEmpty /\ timer = "passed"
    /\ timer' = "fired" /\ stage' = "stop"
    /\ UNCHANGED <<request, process, output, noticed, gone, finals>>

LoopExpires ==
    /\ stage = "loop" /\ ~Drained /\ timer = "passed"
    /\ timer' = "fired" /\ stage' = "stop"
    /\ UNCHANGED <<request, process, output, noticed, gone, finals>>

\* mutant: a line is taken that no reader has moved.
LoopTakesUnread ==
    /\ stage = "loop" /\ ~Drained /\ timer = "running"
    /\ lines.taken < lines.written
    /\ lines' = [lines EXCEPT !.taken = @ + 1]
    /\ UNCHANGED <<request, stage, process, noise, noticed, timer, gone, finals>>

\* A line is kept, and may be worth a frame: the generator is then suspended
\* until the client has taken it.
LoopTakes ==
    /\ stage = "loop" /\ ~Drained /\ timer = "running"
    /\ \/ /\ lines.taken < lines.queued
          /\ lines' = [lines EXCEPT !.taken = @ + 1] /\ UNCHANGED noise
       \/ /\ noise = "queued"
          /\ noise' = "taken" /\ UNCHANGED lines
    /\ stage' \in {"loop", "yield"}
    /\ UNCHANGED <<request, process, noticed, timer, gone, finals>>

ClientTakes ==
    /\ stage = "yield"
    /\ stage' = "loop"
    /\ UNCHANGED <<request, process, output, noticed, timer, gone, finals>>

\* The client leaves: the stream is cancelled where it waits, the cleanup, a
\* task of its own, is not.
ClientLeaves ==
    /\ stage \in {"loop", "yield"} \cup Cleanup /\ ~gone
    /\ gone' = TRUE
    /\ stage' = IF stage \in Cleanup THEN stage ELSE "stop"
    /\ UNCHANGED <<request, process, output, noticed, timer, finals>>

-----------------------------------------------------------------------------
(* The cleanup of a stream. *)
\* Whether every way to reach the whole tree is tried, the direct one last.
SignalTree ==
    IF request.os = "posix"
    THEN \E dead \in SUBSET group : Die(dead)           \* the others ignore it
    ELSE Die(Members) \/ Die({"root"})                   \* taskkill may fail

Stop ==
    /\ stage = "stop"
    /\ IF noticed THEN stage' = "reap" /\ UNCHANGED process
       ELSE stage' = "wait" /\ SignalTree
    /\ UNCHANGED <<request, output, noticed, timer, gone, finals>>

\* mutant: the group is not killed when its leader has ended.
WaitsForLeader ==
    /\ stage = "wait"
    /\ stage' = IF noticed THEN "reap" ELSE "kill"
    /\ UNCHANGED <<request, process, output, noticed, timer, gone, finals>>

WaitsForExit ==
    /\ stage = "wait"
    /\ stage' = IF noticed /\ request.os = "nt" THEN "reap" ELSE "kill"
    /\ UNCHANGED <<request, process, output, noticed, timer, gone, finals>>

Kill ==
    /\ stage = "kill"
    /\ Die(IF request.os = "posix" THEN Members ELSE {"root"})
    /\ stage' = "reap"
    /\ UNCHANGED <<request, output, noticed, timer, gone, finals>>

\* The waits are bounded: the exit may still be unknown after them.
Reap ==
    /\ stage = "reap"
    /\ stage' = IF gone THEN "over" ELSE "result"
    /\ UNCHANGED <<request, process, output, noticed, timer, gone, finals>>

-----------------------------------------------------------------------------
\* What standard output is worth: the answer is natural text, or one JSON
\* object, which no proper part of it is.
Projected(got) ==
    IF request.config = "native-markdown"
    THEN IF got = 0 THEN Ends("empty", 0) ELSE Ends("answer", got)
    ELSE \/ got > 0 /\ got = lines.written /\ Ends("answer", got)
         \/ Ends("invalid", 0)

\* mutant: the status is believed even when the deadline has ended the request.
ResultByStatus ==
    /\ stage = "result"
    /\ \/ (~noticed \/ exit # "ok") /\ Ends("failed", 0)
       \/ noticed /\ exit = "ok" /\ Projected(lines.taken)
    /\ UNCHANGED <<request, process, output, noticed, timer, gone>>

Result ==
    /\ stage = "result"
    /\ \/ timer = "fired" /\ Ends("timeout", 0)
       \/ timer # "fired" /\ (~noticed \/ exit # "ok") /\ Ends("failed", 0)
       \/ timer # "fired" /\ noticed /\ exit = "ok" /\ Projected(lines.taken)
    /\ UNCHANGED <<request, process, output, noticed, timer, gone>>

(* subprocess.run in a thread: returns when all that hold the pipes ended.   *)
ThreadReturns ==
    /\ stage = "thread" /\ group = {}
    /\ \/ exit # "ok" /\ Ends("failed", 0)
       \/ exit = "ok" /\ Projected(lines.written)
    /\ UNCHANGED <<request, process, output, noticed, timer, gone>>

\* The timeout kills the command alone, and Windows reads its pipes to their
\* end before it returns.
ThreadExpires ==
    /\ stage = "thread" /\ timer = "passed"
    /\ Die({"root"})
    /\ timer' = "fired" /\ stage' = "drain"
    /\ UNCHANGED <<request, output, noticed, gone, finals>>

\* The partial output is bytes on POSIX: one cut inside a character is refused
\* by RuntimeResult, and the request answered as if nothing were configured.
ThreadDrained ==
    /\ stage = "drain" /\ (request.os = "posix" \/ group = {})
    /\ \/ Ends("timeout", 0)
       \/ request.os = "posix" /\ lines.written > 0 /\ Ends("unconfigured", 0)
    /\ UNCHANGED <<request, process, output, noticed, timer, gone>>

-----------------------------------------------------------------------------
Handler == Refuse \/ Start \/ LoopBreaks \/ LoopExpires \/ LoopTakes \/ Stop
           \/ WaitsForExit \/ Kill \/ Reap \/ Result \/ ThreadReturns
           \/ ThreadExpires \/ ThreadDrained

RtNext == Handler \/ Reads \/ Notices \/ DeadlinePasses \/ ClientTakes
          \/ ClientLeaves \/ Writes \/ Forks \/ (\E m \in Members : Exits(m))
=============================================================================
