---------------------------- MODULE BridgeProofs ----------------------------
(***************************************************************************)
(* What the host agent bridge promises, for commands of any length, any    *)
(* number of Codex requests and any number of configuration changes.       *)
(*                                                                         *)
(* For the reference command the invariant adds where a terminal envelope  *)
(* can be (RtQuiet), how the command's membership of its group goes with   *)
(* its exit (RtExit), which stages belong to which operation (RtStage) and *)
(* what the cleanup has reached before the result is told (RtTree).  For   *)
(* Codex it adds that a request has no result before it is over (CxQuiet)  *)
(* and what a good health verdict still says (CxHealth).                   *)
(***************************************************************************)
EXTENDS Bridge, TLAPS

Streamed == {"loop", "yield", "result"} \cup Cleanup
Final == [outcome : Outcomes, shown : 0..MaxLines]

RtQuiet ==
  /\ stage # "over" => finals = <<>>
  /\ Len(finals) <= 1
  /\ stage = "over" /\ ~gone => Len(finals) = 1

RtExit ==
  /\ stage = "idle" => group = {} /\ exit = "none"
  /\ "root" \in group => exit = "none"
  /\ noticed => exit # "none"
  /\ stage \in {"loop", "yield", "stop", "thread"} => exit # "killed"

RtStage ==
  /\ stage \in Streamed => request.op = "query"
  /\ stage \in {"thread", "drain"} => request.op = "metadata"
  /\ stage \in {"idle", "thread"} => timer # "fired"

RtTree ==
  stage \in {"reap", "result"} =>
    /\ "root" \notin group
    /\ request.os = "posix" /\ "kid" \in group => exit # "killed"

RtInv == /\ RtTypeOK /\ RtQuiet /\ RtExit /\ RtStage /\ RtTree
         /\ StoppedTreeIsGone /\ AnswerIsOfSuccess

CxQuiet == \A r \in Reqs : cx[r].at # "over" => cx[r].result = "none"
CxHealth == /\ health = "READY" => broken = {} /\ ~ProjectionFails
            /\ kind # "codex-cli" => health = "unknown"
CxInv == CxTypeOK /\ CxQuiet /\ CxHealth /\ TraceIsTheAnswers

IInv == kind \in Kinds /\ RtInv /\ CxInv
-----------------------------------------------------------------------------
\* An envelope is sent once, and is all there is (query_stream).
LEMMA EndsOnce ==
  ASSUME stage # "over", RtQuiet, NEW o \in Outcomes, NEW n \in 0..MaxLines, Ends(o, n)
  PROVE  /\ finals' \in Seq(Final) /\ Len(finals') = 1
         /\ DOMAIN finals' = {1} /\ finals'[1].outcome = o /\ finals'[1].shown = n
         /\ stage' = "over"
<1>1. finals' = <<[outcome |-> o, shown |-> n]>> /\ stage' = "over"
  BY DEF RtQuiet, Ends
<1>2. [outcome |-> o, shown |-> n] \in Final  BY DEF Final
<1> QED BY <1>1, <1>2

\* While nothing has ended, there is nothing to say of an answer.
LEMMA QuietIsTrue ==
  ASSUME stage # "over", RtQuiet
  PROVE  AnswerIsOfSuccess /\ StoppedTreeIsGone
BY DEF RtQuiet, AnswerIsOfSuccess, StoppedTreeIsGone

\* Steps of the command, its readers and its clock, which end nothing.
LEMMA CommandSteps ==
  ASSUME RtInv, stage # "over",
         Start \/ Writes \/ Forks \/ (\E m \in Members : Exits(m)) \/ DeadlinePasses
         \/ Reads \/ Notices
  PROVE  RtInv'
<1> USE CommandRuntimeAssumption DEF RtInv, process, output
<1>1. CASE Start
  <2>1. request.op \in {"query", "metadata"}  BY DEF RtTypeOK, Requests
  <2> QED BY <1>1, <2>1 DEF Start, RtTypeOK, RtQuiet, RtExit, RtStage, RtTree, StoppedTreeIsGone, AnswerIsOfSuccess, Streamed, Cleanup, Stages, Members
<1>2. CASE Writes
  <2>1. /\ stage' = stage /\ finals' = <<>> /\ finals = <<>>
        /\ UNCHANGED <<request, group, exit, noticed, timer, gone>>
    BY <1>2 DEF Writes, RtQuiet
  <2>2. /\ lines' \in [written : 0..MaxLines, queued : 0..MaxLines, taken : 0..MaxLines]
        /\ lines'.taken <= lines'.queued /\ lines'.queued <= lines'.written
        /\ noise' \in {"none", "written", "queued", "taken"}
    BY <1>2 DEF Writes, RtTypeOK
  <2> QED BY <2>1, <2>2 DEF RtTypeOK, RtQuiet, RtExit, RtStage, RtTree, StoppedTreeIsGone, AnswerIsOfSuccess
<1>3. CASE Forks
  BY <1>3 DEF Forks, RtTypeOK, RtQuiet, RtExit, RtStage, RtTree, StoppedTreeIsGone, AnswerIsOfSuccess, Members
<1>4. CASE \E m \in Members : Exits(m)
  BY <1>4 DEF Exits, RtTypeOK, RtQuiet, RtExit, RtStage, RtTree, StoppedTreeIsGone, AnswerIsOfSuccess, Members
<1>5. CASE DeadlinePasses
  BY <1>5 DEF DeadlinePasses, RtTypeOK, RtQuiet, RtExit, RtStage, RtTree, StoppedTreeIsGone, AnswerIsOfSuccess
<1>6. CASE Reads
  BY <1>6 DEF Reads, RtTypeOK, RtQuiet, RtExit, RtStage, RtTree, StoppedTreeIsGone, AnswerIsOfSuccess
<1>7. CASE Notices
  BY <1>7 DEF Notices, RtTypeOK, RtQuiet, RtExit, RtStage, RtTree, StoppedTreeIsGone, AnswerIsOfSuccess
<1> QED BY <1>1, <1>2, <1>3, <1>4, <1>5, <1>6, <1>7

\* Steps of the loop and of the cleanup, which end a stream only if its client left.
LEMMA StreamSteps ==
  ASSUME RtInv, stage # "over",
         LoopBreaks \/ LoopExpires \/ LoopTakes \/ ClientTakes \/ ClientLeaves
         \/ Stop \/ WaitsForExit \/ Kill \/ Reap
  PROVE  RtInv'
<1> USE CommandRuntimeAssumption DEF RtInv, process, output
<1>1. CASE LoopBreaks
  BY <1>1 DEF LoopBreaks, RtTypeOK, RtQuiet, RtExit, RtStage, RtTree, StoppedTreeIsGone, AnswerIsOfSuccess, Streamed, Cleanup, Stages
<1>2. CASE LoopExpires
  BY <1>2 DEF LoopExpires, RtTypeOK, RtQuiet, RtExit, RtStage, RtTree, StoppedTreeIsGone, AnswerIsOfSuccess, Streamed, Cleanup, Stages
<1>3. CASE LoopTakes
  <2>1. /\ stage' \in {"loop", "yield"} /\ stage = "loop" /\ finals' = <<>> /\ finals = <<>>
        /\ UNCHANGED <<request, group, exit, noticed, timer, gone>>
    BY <1>3 DEF LoopTakes, RtQuiet
  <2>2. /\ lines' \in [written : 0..MaxLines, queued : 0..MaxLines, taken : 0..MaxLines]
        /\ lines'.taken <= lines'.queued /\ lines'.queued <= lines'.written
        /\ noise' \in {"none", "written", "queued", "taken"}
    BY <1>3 DEF LoopTakes, RtTypeOK
  <2> QED BY <2>1, <2>2 DEF RtTypeOK, RtQuiet, RtExit, RtStage, RtTree, StoppedTreeIsGone, AnswerIsOfSuccess, Streamed, Cleanup, Stages
<1>4. CASE ClientTakes
  BY <1>4 DEF ClientTakes, RtTypeOK, RtQuiet, RtExit, RtStage, RtTree, StoppedTreeIsGone, AnswerIsOfSuccess, Streamed, Cleanup, Stages
<1>5. CASE ClientLeaves
  BY <1>5 DEF ClientLeaves, RtTypeOK, RtQuiet, RtExit, RtStage, RtTree, StoppedTreeIsGone, AnswerIsOfSuccess, Streamed, Cleanup, Stages
<1>6. CASE Stop
  BY <1>6 DEF Stop, SignalTree, Die, RtTypeOK, RtQuiet, RtExit, RtStage, RtTree, StoppedTreeIsGone, AnswerIsOfSuccess, Streamed, Cleanup, Stages, Members
<1>7. CASE WaitsForExit
  BY <1>7 DEF WaitsForExit, RtTypeOK, RtQuiet, RtExit, RtStage, RtTree, StoppedTreeIsGone, AnswerIsOfSuccess, Streamed, Cleanup, Stages
<1>8. CASE Kill
  BY <1>8 DEF Kill, Die, RtTypeOK, RtQuiet, RtExit, RtStage, RtTree, StoppedTreeIsGone, AnswerIsOfSuccess, Streamed, Cleanup, Stages, Members
<1>9. CASE Reap
  BY <1>9 DEF Reap, RtTypeOK, RtQuiet, RtExit, RtStage, RtTree, StoppedTreeIsGone, AnswerIsOfSuccess, Streamed, Cleanup, Stages
<1> QED BY <1>1, <1>2, <1>3, <1>4, <1>5, <1>6, <1>7, <1>8, <1>9

\* What Projected says of an output (RuntimeResult).
LEMMA ProjectedEnds ==
  ASSUME NEW got \in 0..MaxLines, Projected(got)
  PROVE  \E o \in Outcomes, n \in 0..MaxLines :
           /\ Ends(o, n)
           /\ o = "answer" /\ request.config = "exact-json" => n = lines.written
BY CommandRuntimeAssumption DEF Projected, Outcomes

\* A step that ends the request: an answer is told only of a command that succeeded.
LEMMA EndKeeps ==
  ASSUME RtInv, stage # "over",
         NEW o \in Outcomes, NEW n \in 0..MaxLines, Ends(o, n),
         UNCHANGED <<request, group, exit, lines, noise, noticed, timer, gone>>,
         o = "answer" => exit = "ok" /\ timer # "fired",
         o = "answer" /\ request.config = "exact-json" => n = lines.written,
         stage \in {"idle", "result"} \/ request.op = "metadata"
  PROVE  RtInv'
<1>1. /\ finals' \in Seq(Final) /\ Len(finals') = 1
      /\ DOMAIN finals' = {1} /\ finals'[1].outcome = o /\ finals'[1].shown = n
      /\ stage' = "over"
  BY EndsOnce DEF RtInv
<1>2. RtTypeOK' /\ RtQuiet'
  BY <1>1 DEF RtInv, RtTypeOK, RtQuiet, Stages, Final
<1>3. RtExit' /\ RtStage' /\ RtTree'
  BY <1>1 DEF RtInv, RtExit, RtStage, RtTree, Streamed, Cleanup
<1>4. StoppedTreeIsGone'
  BY <1>1 DEF RtInv, RtExit, RtTree, StoppedTreeIsGone
<1>5. AnswerIsOfSuccess'
  BY <1>1 DEF AnswerIsOfSuccess
<1> QED BY <1>2, <1>3, <1>4, <1>5 DEF RtInv

\* Steps that end the request, and the one that drains the thread's pipes.
LEMMA EndSteps ==
  ASSUME RtInv, stage # "over",
         Refuse \/ Result \/ ThreadReturns \/ ThreadExpires \/ ThreadDrained
  PROVE  RtInv'
<1> USE DEF process, output
<1>0. MaxLines \in Nat /\ lines.taken \in 0..MaxLines /\ lines.written \in 0..MaxLines
  BY CommandRuntimeAssumption DEF RtInv, RtTypeOK
<1>1. CASE Refuse
  <2>1. PICK o \in {"mode-invalid", "unconfigured"} : Ends(o, 0)  BY <1>1 DEF Refuse
  <2>2. stage = "idle" /\ UNCHANGED <<request, group, exit, lines, noise, noticed, timer, gone>>
    BY <1>1 DEF Refuse
  <2> QED BY <2>1, <2>2, <1>0, EndKeeps DEF Outcomes
<1>2. CASE Result
  <2>1. stage = "result" /\ UNCHANGED <<request, group, exit, lines, noise, noticed, timer, gone>>
    BY <1>2 DEF Result
  <2>2. CASE \E o \in {"timeout", "failed"} : Ends(o, 0)
    BY <2>1, <2>2, <1>0, EndKeeps DEF Outcomes
  <2>3. CASE timer # "fired" /\ exit = "ok" /\ Projected(lines.taken)
    <3>1. PICK o \in Outcomes, n \in 0..MaxLines :
             /\ Ends(o, n)
             /\ o = "answer" /\ request.config = "exact-json" => n = lines.written
      BY <2>3, <1>0, ProjectedEnds
    <3> QED BY <2>1, <2>3, <3>1, EndKeeps
  <2> QED BY <1>2, <2>2, <2>3 DEF Result
<1>3. CASE ThreadReturns
  <2>1. /\ stage = "thread" /\ UNCHANGED <<request, group, exit, lines, noise, noticed, timer, gone>>
        /\ request.op = "metadata" /\ timer # "fired"
    BY <1>3 DEF ThreadReturns, RtInv, RtStage
  <2>2. CASE Ends("failed", 0)
    BY <2>1, <2>2, <1>0, EndKeeps DEF Outcomes
  <2>3. CASE exit = "ok" /\ Projected(lines.written)
    <3>1. PICK o \in Outcomes, n \in 0..MaxLines :
             /\ Ends(o, n)
             /\ o = "answer" /\ request.config = "exact-json" => n = lines.written
      BY <2>3, <1>0, ProjectedEnds
    <3> QED BY <2>1, <2>3, <3>1, EndKeeps
  <2> QED BY <1>3, <2>2, <2>3 DEF ThreadReturns
<1>4. CASE ThreadExpires
  BY <1>4 DEF ThreadExpires, Die, RtInv, RtTypeOK, RtQuiet, RtExit, RtStage, RtTree, StoppedTreeIsGone, AnswerIsOfSuccess, Streamed, Cleanup, Stages
<1>5. CASE ThreadDrained
  <2>1. PICK o \in {"timeout", "unconfigured"} : Ends(o, 0)  BY <1>5 DEF ThreadDrained
  <2>2. /\ stage = "drain" /\ UNCHANGED <<request, group, exit, lines, noise, noticed, timer, gone>>
        /\ request.op = "metadata"
    BY <1>5 DEF ThreadDrained, RtInv, RtStage
  <2> QED BY <2>1, <2>2, <1>0, EndKeeps DEF Outcomes
<1> QED BY <1>1, <1>2, <1>3, <1>4, <1>5

\* Every step of the command's path keeps its invariant; after the end there is none.
LEMMA RtPreserves ==
  ASSUME RtInv, RtNext
  PROVE  RtInv'
<1>1. stage # "over"
  BY DEF RtNext, Handler, Refuse, Start, LoopBreaks, LoopExpires, LoopTakes, Stop, WaitsForExit, Kill,
         Reap, Result, ThreadReturns, ThreadExpires, ThreadDrained, Reads, Notices, DeadlinePasses,
         ClientTakes, ClientLeaves, Writes, Forks, Exits, Cleanup
<1> QED BY <1>1, CommandSteps, StreamSteps, EndSteps DEF RtNext, Handler
-----------------------------------------------------------------------------
\* The end of a request of Codex: what it leaves behind of the others and of itself.
LEMMA FinishFacts ==
  ASSUME CxTypeOK, NEW r \in Reqs, NEW c, c.op \in Ops, NEW x \in Results, Finish(r, c, x)
  PROVE  /\ cx' \in [Reqs -> [at : {"idle", "running", "wait", "killed", "over"},
                              op : Ops, stop : {"none", "timeout", "cancel"},
                              gone : BOOLEAN, exit : {"none", "ok", "error"},
                              result : Results]]
         /\ cx'[r].at = "over" /\ cx'[r].op = c.op /\ cx'[r].result = x
         /\ \A q \in Reqs : q # r => cx'[q] = cx[q]
BY DEF Finish, CxTypeOK

\* A step that ends a request leaves trace and health alone, or is its answer traced.
LEMMA FinishKeeps ==
  ASSUME CxInv, NEW r \in Reqs, cx[r].at # "over",
         NEW c, c.op \in Ops, NEW x \in Results \ {"answer"}, Finish(r, c, x),
         groups' \in [Reqs -> SUBSET CodexMembers],
         UNCHANGED <<broken, changes, trace, health, kind>>
  PROVE  CxInv'
<1>1. /\ cx' \in [Reqs -> [at : {"idle", "running", "wait", "killed", "over"},
                              op : Ops, stop : {"none", "timeout", "cancel"},
                              gone : BOOLEAN, exit : {"none", "ok", "error"},
                              result : Results]]
      /\ cx'[r].at = "over" /\ cx'[r].op = c.op /\ cx'[r].result = x
      /\ \A q \in Reqs : q # r => cx'[q] = cx[q]
  BY FinishFacts DEF CxInv
<1>2. CxTypeOK'  BY <1>1 DEF CxInv, CxTypeOK
<1>3. CxQuiet'  BY <1>1 DEF CxInv, CxQuiet
<1>4. CxHealth'  BY DEF CxInv, CxHealth, ProjectionFails
<1>5. TraceIsTheAnswers'
  <2>1. \A q \in Reqs : cx'[q].op = "query" /\ cx'[q].result = "answer" => q # r /\ cx'[q] = cx[q]
    BY <1>1
  <2>2. trace # r  BY DEF CxInv, CxQuiet, TraceIsTheAnswers
  <2> QED BY <1>1, <2>1, <2>2 DEF CxInv, TraceIsTheAnswers
<1> QED BY <1>2, <1>3, <1>4, <1>5 DEF CxInv

LEMMA EndRunKeeps ==
  ASSUME CxInv, NEW r \in Reqs, cx[r].at # "over",
         NEW c, c.op \in Ops, NEW x \in Results \ {"answer"}, EndRun(r, c, x),
         groups' \in [Reqs -> SUBSET CodexMembers],
         UNCHANGED <<broken, changes, trace, health, kind>>
  PROVE  CxInv'
BY FinishKeeps DEF EndRun, Results

\* A step that ends no request: one that runs goes on, and keeps that it has no result.
LEMMA RunKeeps ==
  ASSUME CxInv, NEW r \in Reqs, cx[r].at # "over",
         NEW d, cx' = [cx EXCEPT ![r] = d],
         d \in [at : {"idle", "running", "wait", "killed", "over"},
                op : Ops, stop : {"none", "timeout", "cancel"},
                gone : BOOLEAN, exit : {"none", "ok", "error"}, result : Results],
         d.at # "over", d.result = "none",
         groups' \in [Reqs -> SUBSET CodexMembers],
         UNCHANGED <<broken, changes, trace, health, kind>>
  PROVE  CxInv'
<1>1. cx'[r] = d /\ \A q \in Reqs : q # r => cx'[q] = cx[q]
  BY DEF CxInv, CxTypeOK
<1>2. CxTypeOK'  BY DEF CxInv, CxTypeOK
<1>3. CxQuiet'  BY <1>1 DEF CxInv, CxQuiet
<1>4. CxHealth'  BY DEF CxInv, CxHealth, ProjectionFails
<1>5. trace # r  BY DEF CxInv, CxQuiet, TraceIsTheAnswers
<1>6. TraceIsTheAnswers'  BY <1>1, <1>5 DEF CxInv, TraceIsTheAnswers
<1> QED BY <1>2, <1>3, <1>4, <1>6 DEF CxInv

LEMMA BeginKeeps ==
  ASSUME CxInv, NEW r \in Reqs, Begin(r), UNCHANGED kind
  PROVE  CxInv'
<1>1. PICK op \in Ops :
        LET c == [cx[r] EXCEPT !.op = op] IN
        \/ Unconfigured(op) /\ Finish(r, c, "unconfigured") /\ UNCHANGED groups
        \/ ~Unconfigured(op) /\ \/ RefusesRequest(r, c) \/ HasNoDirectory(r, c)
                                \/ StartsCodex(r, c)
  BY DEF Begin
<1> DEFINE c == [cx[r] EXCEPT !.op = op]
<1>2. /\ c.op = op /\ c.result = "none"
      /\ c \in [at : {"idle", "running", "wait", "killed", "over"},
                op : Ops, stop : {"none", "timeout", "cancel"},
                gone : BOOLEAN, exit : {"none", "ok", "error"}, result : Results]
      /\ cx[r].at # "over"
  BY DEF CxInv, CxTypeOK, CxQuiet, Begin
<1>3. UNCHANGED <<broken, changes, trace, health>>  BY DEF Begin
<1>4. groups \in [Reqs -> SUBSET CodexMembers]  BY DEF CxInv, CxTypeOK
<1> HIDE DEF c
<1>5. CASE UNCHANGED groups /\ \E x \in {"unconfigured", "refused", "temp"} : Finish(r, c, x)
  BY <1>2, <1>3, <1>4, <1>5, FinishKeeps DEF Results
<1>6. CASE StartsCodex(r, c)
  <2>1. CASE EndRun(r, c, "failed") /\ UNCHANGED groups
    BY <1>2, <1>3, <1>4, <2>1, EndRunKeeps DEF Results
  <2>2. CASE /\ cx' = [cx EXCEPT ![r] = [c EXCEPT !.at = "running"]]
             /\ groups' = [groups EXCEPT ![r] = {"codex"}]
    <3>1. groups' \in [Reqs -> SUBSET CodexMembers]  BY <1>4, <2>2 DEF CodexMembers
    <3> DEFINE d == [c EXCEPT !.at = "running"]
    <3>2. /\ d \in [at : {"idle", "running", "wait", "killed", "over"},
                    op : Ops, stop : {"none", "timeout", "cancel"},
                    gone : BOOLEAN, exit : {"none", "ok", "error"}, result : Results]
          /\ d.at # "over" /\ d.result = "none"
      BY <1>2
    <3>3. cx' = [cx EXCEPT ![r] = d]  BY <2>2
    <3> HIDE DEF d
    <3> QED BY <1>2, <1>3, <3>1, <3>2, <3>3, RunKeeps
  <2> QED BY <1>6, <2>1, <2>2 DEF StartsCodex
<1> QED BY <1>1, <1>5, <1>6 DEF RefusesRequest, HasNoDirectory, c

\* A trace is created for the answer of the query that ends with it.
LEMMA TracedKeeps ==
  ASSUME CxInv, NEW r \in Reqs, cx[r].at # "over", cx[r].op = "query", kind = "codex-cli",
         CreateTrace(r), NEW x \in {"answer", "temp"}, Finish(r, cx[r], x),
         UNCHANGED <<groups, broken, changes, kind>>
  PROVE  CxInv'
<1>0. cx[r].op \in Ops /\ x \in Results /\ r \notin {"none", "off"}
  BY CodexAdapterAssumption DEF CxInv, CxTypeOK, Results
<1>1. /\ cx' \in [Reqs -> [at : {"idle", "running", "wait", "killed", "over"},
                              op : Ops, stop : {"none", "timeout", "cancel"},
                              gone : BOOLEAN, exit : {"none", "ok", "error"},
                              result : Results]]
      /\ cx'[r].at = "over" /\ cx'[r].op = cx[r].op /\ cx'[r].result = x
      /\ \A q \in Reqs : q # r => cx'[q] = cx[q]
  BY <1>0, FinishFacts DEF CxInv
<1>2. trace = "none" /\ trace' = r /\ health' = "unknown"  BY DEF CreateTrace
<1>3. CxTypeOK'  BY <1>1, <1>2 DEF CxInv, CxTypeOK
<1>4. CxQuiet'  BY <1>1 DEF CxInv, CxQuiet
<1>5. CxHealth'  BY <1>2 DEF CxHealth
<1>6. TraceIsTheAnswers'
  <2>1. \A q \in Reqs : cx[q].op = "query" => cx[q].result # "answer"
    BY <1>0, <1>2, CodexAdapterAssumption DEF CxInv, TraceIsTheAnswers
  <2> QED BY <1>1, <1>2, <2>1 DEF TraceIsTheAnswers
<1> QED BY <1>3, <1>4, <1>5, <1>6 DEF CxInv

\* An answer that no trace is owed for.
LEMMA UntracedKeeps ==
  ASSUME CxInv, NEW r \in Reqs, cx[r].at # "over", Finish(r, cx[r], "answer"),
         cx[r].op = "metadata" \/ trace = "off",
         UNCHANGED <<groups, broken, changes, trace, health, kind>>
  PROVE  CxInv'
<1>0. cx[r].op \in Ops /\ "answer" \in Results /\ r \notin {"none", "off"}
  BY CodexAdapterAssumption DEF CxInv, CxTypeOK, Results
<1>1. /\ cx' \in [Reqs -> [at : {"idle", "running", "wait", "killed", "over"},
                              op : Ops, stop : {"none", "timeout", "cancel"},
                              gone : BOOLEAN, exit : {"none", "ok", "error"},
                              result : Results]]
      /\ cx'[r].at = "over" /\ cx'[r].op = cx[r].op /\ cx'[r].result = "answer"
      /\ \A q \in Reqs : q # r => cx'[q] = cx[q]
  BY <1>0, FinishFacts DEF CxInv
<1>2. CxTypeOK'  BY <1>1 DEF CxInv, CxTypeOK
<1>3. CxQuiet'  BY <1>1 DEF CxInv, CxQuiet
<1>4. CxHealth'  BY DEF CxInv, CxHealth, ProjectionFails
<1>5. trace # r  BY DEF CxInv, CxQuiet, TraceIsTheAnswers
<1>6. TraceIsTheAnswers'  BY <1>1, <1>5 DEF CxInv, TraceIsTheAnswers
<1> QED BY <1>2, <1>3, <1>4, <1>6 DEF CxInv

LEMMA ReturnsKeeps ==
  ASSUME CxInv, NEW r \in Reqs, Returns(r), kind = "codex-cli", UNCHANGED kind
  PROVE  CxInv'
<1>1. /\ cx[r].at # "over" /\ cx[r].op \in Ops
      /\ groups' \in [Reqs -> SUBSET CodexMembers]
      /\ UNCHANGED <<groups, broken, changes>>
  BY DEF Returns, CxInv, CxTypeOK
<1>2. CASE \E x \in {"failed", "invalid", "trace"} : EndRun(r, cx[r], x) /\ UNCHANGED <<trace, health>>
  BY <1>1, <1>2, EndRunKeeps DEF Results
<1>3. CASE AnswersUntraced(r)
  <2>1. CASE Finish(r, cx[r], "temp")
    BY <1>1, <1>3, <2>1, FinishKeeps DEF AnswersUntraced, Results
  <2> QED BY <1>1, <1>3, <2>1, UntracedKeeps DEF AnswersUntraced, EndRun
<1>4. CASE cx[r].op = "query" /\ CreateTrace(r) /\ EndRun(r, cx[r], "answer")
  BY <1>1, <1>4, TracedKeeps DEF EndRun
<1> QED BY <1>2, <1>3, <1>4 DEF Returns, Judge, ExitedBadly, OutputIsInvalid, AnswersTraced, TraceIsRefused

LEMMA StopKeeps ==
  ASSUME CxInv, NEW r \in Reqs, NEW why \in {"timeout", "cancel"}, BeginStop(r, why),
         UNCHANGED <<broken, changes, trace, health, kind>>
  PROVE  CxInv'
<1> DEFINE d == [cx[r] EXCEPT !.at = "wait", !.stop = why, !.gone = cx[r].gone \/ why = "cancel"]
<1>1. cx[r].at = "running" /\ cx[r].result = "none"  BY DEF BeginStop, CxInv, CxQuiet
<1>2. cx' = [cx EXCEPT ![r] = d]  BY DEF BeginStop, CxInv, CxTypeOK
<1>3. /\ d \in [at : {"idle", "running", "wait", "killed", "over"},
                op : Ops, stop : {"none", "timeout", "cancel"},
                gone : BOOLEAN, exit : {"none", "ok", "error"}, result : Results]
      /\ d.at # "over" /\ d.result = "none"
  BY <1>1 DEF CxInv, CxTypeOK
<1>4. groups' \in [Reqs -> SUBSET CodexMembers]
  BY DEF BeginStop, SignalGroup, Hit, CxInv, CxTypeOK
<1> HIDE DEF d
<1> QED BY <1>1, <1>2, <1>3, <1>4, RunKeeps

\* Leaving, exiting and waiting change one request that runs, or its group alone.
LEMMA RunningKeeps ==
  ASSUME CxInv, NEW r \in Reqs, kind = "codex-cli", UNCHANGED kind,
         \/ CodexForks(r) \/ (\E m \in CodexMembers : CodexExits(r, m))
         \/ CodexClientLeaves(r) \/ AfterWait(r)
  PROVE  CxInv'
<1> DEFINE States == [at : {"idle", "running", "wait", "killed", "over"},
                      op : Ops, stop : {"none", "timeout", "cancel"},
                      gone : BOOLEAN, exit : {"none", "ok", "error"}, result : Results]
<1>0. cx \in [Reqs -> States] /\ groups \in [Reqs -> SUBSET CodexMembers]
  BY DEF CxInv, CxTypeOK
<1>1. ASSUME NEW d \in States, d.at # "over", d.result = "none", cx' = [cx EXCEPT ![r] = d],
             cx[r].at # "over", groups' \in [Reqs -> SUBSET CodexMembers],
             UNCHANGED <<broken, changes, trace, health>>
      PROVE  CxInv'
  BY <1>1, RunKeeps
<1>2. CASE UNCHANGED <<cx, broken, changes, trace, health>>
           /\ groups' \in [Reqs -> SUBSET CodexMembers]
  BY <1>2 DEF CxInv, CxTypeOK, CxQuiet, CxHealth, ProjectionFails, TraceIsTheAnswers
<1>3. CASE CodexForks(r)
  BY <1>0, <1>2, <1>3 DEF CodexForks
<1>4. CASE \E m \in CodexMembers : CodexExits(r, m)
  <2>1. PICK m \in CodexMembers : CodexExits(r, m)  BY <1>4
  <2>2. groups' \in [Reqs -> SUBSET CodexMembers]  BY <1>0, <2>1 DEF CodexExits, Hit
  <2>3. CASE UNCHANGED cx  BY <1>2, <2>1, <2>2, <2>3 DEF CodexExits
  <2>4. CASE cx[r].at = "running" /\ \E e \in {"ok", "error"} : cx' = [cx EXCEPT ![r].exit = e]
    <3>1. PICK e \in {"ok", "error"} : cx' = [cx EXCEPT ![r].exit = e]  BY <2>4
    <3> DEFINE d == [cx[r] EXCEPT !.exit = e]
    <3>2. d \in States /\ d.at # "over" /\ d.result = "none"  BY <1>0, <2>4 DEF CxInv, CxQuiet
    <3>3. cx' = [cx EXCEPT ![r] = d]  BY <1>0, <3>1
    <3> HIDE DEF d, States
    <3> QED BY <1>1, <2>1, <2>2, <2>4, <3>2, <3>3 DEF CodexExits
  <2> QED BY <2>1, <2>3, <2>4 DEF CodexExits
<1>5. CASE CodexClientLeaves(r)
  <2>1. CASE BeginStop(r, "cancel")  BY <1>5, <2>1, StopKeeps DEF CodexClientLeaves
  <2>2. CASE /\ cx[r].at \in {"wait", "killed"}
             /\ cx' = [cx EXCEPT ![r].gone = TRUE] /\ UNCHANGED groups
    <3> DEFINE d == [cx[r] EXCEPT !.gone = TRUE]
    <3>2. d \in States /\ d.at # "over" /\ d.result = "none"  BY <1>0, <2>2 DEF CxInv, CxQuiet
    <3>3. cx' = [cx EXCEPT ![r] = d]  BY <1>0, <2>2
    <3> HIDE DEF d, States
    <3> QED BY <1>0, <1>1, <1>5, <2>2, <3>2, <3>3 DEF CodexClientLeaves
  <2> QED BY <1>5, <2>1, <2>2 DEF CodexClientLeaves
<1>6. CASE AfterWait(r)
  <2>1. CASE EndRun(r, cx[r], StopReason(r)) /\ UNCHANGED groups
    BY <1>0, <1>6, <2>1, EndRunKeeps DEF AfterWait, StopReason, Results
  <2>2. CASE /\ Hit(r, CodexMembers) \/ Hit(r, {"codex"})
             /\ cx' = [cx EXCEPT ![r].at = "killed"]
    <3> DEFINE d == [cx[r] EXCEPT !.at = "killed"]
    <3>1. groups' \in [Reqs -> SUBSET CodexMembers]  BY <1>0, <2>2 DEF Hit
    <3>2. d \in States /\ d.at # "over" /\ d.result = "none"
      BY <1>0, <1>6 DEF AfterWait, CxInv, CxQuiet
    <3>3. cx' = [cx EXCEPT ![r] = d]  BY <1>0, <2>2
    <3> HIDE DEF d, States
    <3> QED BY <1>1, <1>6, <3>1, <3>2, <3>3 DEF AfterWait
  <2> QED BY <1>6, <2>1, <2>2 DEF AfterWait
<1> QED BY <1>3, <1>4, <1>5, <1>6

LEMMA CxPreserves ==
  ASSUME CxInv, CxNext, kind = "codex-cli", UNCHANGED kind
  PROVE  CxInv'
<1>1. CASE CheckHealth
  BY <1>1 DEF CheckHealth, Verdict, CxInv, CxTypeOK, CxQuiet, CxHealth, ProjectionFails, TraceIsTheAnswers
<1>2. CASE OwnerChanges
  BY <1>2, CodexAdapterAssumption DEF OwnerChanges, CxInv, CxTypeOK, CxQuiet, CxHealth, ProjectionFails, TraceIsTheAnswers
<1>3. ASSUME NEW r \in Reqs, AfterKill(r) \/ CancelledAgain(r)  PROVE CxInv'
  <2>1. cx[r].at # "over" /\ cx[r].op \in Ops /\ groups' \in [Reqs -> SUBSET CodexMembers]
    BY <1>3 DEF AfterKill, CancelledAgain, CxInv, CxTypeOK
  <2> QED BY <1>3, <2>1, EndRunKeeps DEF AfterKill, CancelledAgain, StopReason, Results
<1>4. ASSUME NEW r \in Reqs, Expires(r)  PROVE CxInv'
  BY <1>4, StopKeeps DEF Expires
<1> QED BY <1>1, <1>2, <1>3, <1>4, BeginKeeps, ReturnsKeeps, RunningKeeps DEF CxNext, CxHandler

LEMMA SelectKeeps ==
  ASSUME CxInv, NEW r \in Reqs, SelectNone(r), UNCHANGED kind
  PROVE  CxInv'
<1>1. cx[r].at # "over" /\ cx[r].op \in Ops /\ groups' \in [Reqs -> SUBSET CodexMembers]
  BY DEF SelectNone, CxInv, CxTypeOK
<1> QED BY <1>1, FinishKeeps DEF SelectNone, Results
-----------------------------------------------------------------------------
(* The invariant, and what follows from it. *)
THEOREM Inductive == Spec => []IInv
<1>1. Init => IInv
  <2> SUFFICES ASSUME Init PROVE IInv  OBVIOUS
  <2>1. RtInv
    <3>1. RtTypeOK /\ RtQuiet
      <4>1. /\ stage = "idle" /\ finals = <<>>
            /\ lines = [written |-> 0, queued |-> 0, taken |-> 0]
            /\ request \in Requests /\ group = {} /\ exit = "none" /\ noise = "none"
            /\ noticed = FALSE /\ gone = FALSE /\ timer = "running"
        BY DEF Init, RtInit
      <4>2. <<>> \in Seq([outcome : Outcomes, shown : 0..MaxLines])  OBVIOUS
      <4>3. 0 \in 0..MaxLines  BY CommandRuntimeAssumption
      <4>4. /\ lines \in [written : 0..MaxLines, queued : 0..MaxLines, taken : 0..MaxLines]
            /\ lines.taken <= lines.queued /\ lines.queued <= lines.written
        BY <4>1, <4>3
      <4>5. finals \in Seq([outcome : Outcomes, shown : 0..MaxLines])  BY <4>1, <4>2
      <4>6. RtTypeOK
        <5>1. stage \in Stages  BY <4>1 DEF Stages
        <5>2. group \subseteq Members  BY <4>1
        <5> QED BY <4>1, <4>4, <4>5, <5>1, <5>2 DEF RtTypeOK
      <4>7. RtQuiet  BY <4>1 DEF RtQuiet
      <4> QED BY <4>6, <4>7
    <3> QED BY <3>1 DEF RtInv, Init, RtInit, RtExit, RtStage, RtTree, Streamed, Cleanup,
                        StoppedTreeIsGone, AnswerIsOfSuccess
  <2>2. CxInv
    BY CodexAdapterAssumption DEF Init, CxInit, CxInv, CxTypeOK, CxQuiet, CxHealth, TraceIsTheAnswers,
       Idle, Ops, Results
  <2> QED BY <2>1, <2>2 DEF Init, IInv
<1>2. IInv /\ [Next]_bridgeVars => IInv'
  <2> SUFFICES ASSUME IInv, [Next]_bridgeVars PROVE IInv'  OBVIOUS
  <2>1. CASE RtStep(RtNext)
    <3>1. RtInv'  BY <2>1, RtPreserves DEF RtStep, IInv
    <3>2. CxInv'  BY <2>1 DEF RtStep, cxVars, IInv, CxInv, CxTypeOK, CxQuiet, CxHealth,
                              ProjectionFails, TraceIsTheAnswers
    <3> QED BY <2>1, <3>1, <3>2 DEF RtStep, IInv
  <2>2. ASSUME UNCHANGED rtVars  PROVE RtInv'
    BY <2>2 DEF rtVars, process, output, IInv, RtInv, RtTypeOK, RtQuiet, RtExit, RtStage, RtTree,
                StoppedTreeIsGone, AnswerIsOfSuccess
  <2>3. CASE CxStep(CxNext)
    BY <2>2, <2>3, CxPreserves DEF CxStep, IInv
  <2>4. CASE \E r \in Reqs : SelectNone(r) /\ UNCHANGED <<kind, rtVars>>
    BY <2>2, <2>4, SelectKeeps DEF IInv
  <2>5. CASE UNCHANGED bridgeVars
    <3>1. CxInv'  BY <2>5 DEF bridgeVars, cxVars, IInv, CxInv, CxTypeOK, CxQuiet, CxHealth,
                              ProjectionFails, TraceIsTheAnswers
    <3> QED BY <2>2, <2>5, <3>1 DEF bridgeVars, IInv
  <2> QED BY <2>1, <2>3, <2>4, <2>5 DEF Next
<1> QED BY <1>1, <1>2, PTL DEF Spec

\* Types, and that a request ends with one envelope and never with silence to a
\* client that is there (query_stream).
THEOREM TypeCorrect == Spec => []TypeOK
<1>1. IInv => TypeOK  BY DEF IInv, RtInv, RtQuiet, CxInv, TypeOK
<1> QED BY <1>1, Inductive, PTL

\* Whatever races for the result, an answer is of a command that succeeded in time.
THEOREM AnswersOfSuccess == Spec => []AnswerIsOfSuccess
<1>1. IInv => AnswerIsOfSuccess  BY DEF IInv, RtInv
<1> QED BY <1>1, Inductive, PTL

\* However a stream ends, the cleanup has ended the command and its descendants.
THEOREM NothingLeftRunning == Spec => []StoppedTreeIsGone
<1>1. IInv => StoppedTreeIsGone  BY DEF IInv, RtInv
<1> QED BY <1>1, Inductive, PTL

\* The trace file is of one answer, however many queries run at once.
THEOREM OneTracedAnswer == Spec => []TraceIsTheAnswers
<1>1. IInv => TraceIsTheAnswers  BY DEF IInv, CxInv
<1> QED BY <1>1, Inductive, PTL
-----------------------------------------------------------------------------
(* What no step may do to a request that health has called ready. *)
\* A request that ends with another verdict is not found unconfigured.
LEMMA EndsOtherwise ==
  ASSUME CxTypeOK, NEW r \in Reqs, NEW c, c.op \in Ops, NEW x \in Results \ {"unconfigured"},
         EndRun(r, c, x), NEW q \in Reqs, cx[q].result = "none"
  PROVE  cx'[q].result # "unconfigured"
<1>1. CASE Finish(r, c, x)  BY <1>1, FinishFacts
<1>2. CASE Finish(r, c, "temp")
  BY <1>2, FinishFacts DEF Results
<1> QED BY <1>1, <1>2 DEF EndRun

\* A request begins: only the facts that health has seen make it unconfigured.
LEMMA BeginRefuses ==
  ASSUME CxInv, NEW r \in Reqs, Begin(r), health = "READY", NEW q \in Reqs, cx[q].result = "none"
  PROVE  cx'[q].result # "unconfigured"
<1>1. PICK op \in Ops :
        LET c == [cx[r] EXCEPT !.op = op] IN
        \/ Unconfigured(op) /\ Finish(r, c, "unconfigured") /\ UNCHANGED groups
        \/ ~Unconfigured(op) /\ \/ RefusesRequest(r, c) \/ HasNoDirectory(r, c)
                                \/ StartsCodex(r, c)
  BY DEF Begin
<1> DEFINE c == [cx[r] EXCEPT !.op = op]
<1>2. ~Unconfigured(op)  BY DEF CxInv, CxHealth, Unconfigured
<1>3. c.op \in Ops /\ CxTypeOK /\ (q = r => c.result = "none")  BY DEF CxInv, CxTypeOK
<1> HIDE DEF c
<1>4. CASE \E x \in {"refused", "temp"} : Finish(r, c, x)
  BY <1>3, <1>4, EndsOtherwise DEF EndRun, Results
<1>5. CASE EndRun(r, c, "failed")
  BY <1>3, <1>5, EndsOtherwise DEF Results
<1>6. CASE cx' = [cx EXCEPT ![r] = [c EXCEPT !.at = "running"]]
  <2> DEFINE d == [c EXCEPT !.at = "running"]
  <2>1. q = r => d.result = "none"
    <3>1. ASSUME q = r PROVE d.result = c.result  BY <1>3 DEF c, CxTypeOK
    <3> QED BY <1>3, <3>1
  <2>2. cx' = [cx EXCEPT ![r] = d]  BY <1>6
  <2> HIDE DEF d
  <2> QED BY <1>3, <2>1, <2>2 DEF CxTypeOK
<1> QED BY <1>1, <1>2, <1>4, <1>5, <1>6 DEF RefusesRequest, HasNoDirectory, StartsCodex, c

LEMMA OthersDoNotRefuse ==
  ASSUME CxInv, NEW r \in Reqs, NEW q \in Reqs, cx[q].result = "none",
         \/ Returns(r) \/ Expires(r) \/ AfterWait(r) \/ AfterKill(r) \/ CancelledAgain(r)
         \/ CodexForks(r) \/ CodexClientLeaves(r) \/ (\E m \in CodexMembers : CodexExits(r, m))
  PROVE  cx'[q].result # "unconfigured"
<1>1. CxTypeOK /\ cx[r].op \in Ops  BY DEF CxInv, CxTypeOK
<1>2. CASE \E x \in Results \ {"unconfigured"} : EndRun(r, cx[r], x)
  BY <1>1, <1>2, EndsOtherwise
<1>3. CASE UNCHANGED cx  BY <1>3
<1>4. CASE BeginStop(r, "timeout") \/ BeginStop(r, "cancel")
  BY <1>1, <1>4 DEF BeginStop, CxTypeOK
<1>5. CASE cx' = [cx EXCEPT ![r].gone = TRUE]  BY <1>1, <1>5 DEF CxTypeOK
<1>6. CASE cx' = [cx EXCEPT ![r].at = "killed"]  BY <1>1, <1>6 DEF CxTypeOK
<1>7. CASE \E e \in {"ok", "error"} : cx' = [cx EXCEPT ![r].exit = e]  BY <1>1, <1>7 DEF CxTypeOK
<1>8. \A x \in {"failed", "invalid", "answer", "trace", "timeout", "cancelled"} :
        EndRun(r, cx[r], x) => cx'[q].result # "unconfigured"
  BY <1>2 DEF Results
<1>9. CASE Returns(r)
  BY <1>8, <1>9 DEF Returns, Judge, ExitedBadly, OutputIsInvalid, AnswersUntraced, AnswersTraced, TraceIsRefused
<1>10. CASE Expires(r) \/ CodexClientLeaves(r)
  BY <1>4, <1>5, <1>10 DEF Expires, CodexClientLeaves
<1>11. CASE AfterWait(r) \/ AfterKill(r) \/ CancelledAgain(r)
  BY <1>6, <1>8, <1>11 DEF AfterWait, AfterKill, CancelledAgain, StopReason
<1>12. CASE CodexForks(r) \/ (\E m \in CodexMembers : CodexExits(r, m))
  BY <1>3, <1>7, <1>12 DEF CodexForks, CodexExits
<1> QED BY <1>9, <1>10, <1>11, <1>12

\* What the health check has passed, no request finds unconfigured until the
\* configuration changes.
THEOREM ReadyIsTrusted == Spec => ReadyIsAnswerable
<1> DEFINE Refuses == \A r \in Reqs : cx'[r].result = "unconfigured" /\ cx[r].result = "none"
                                     => health # "READY"
<1>1. IInv /\ [Next]_bridgeVars => [Refuses]_bridgeVars
  <2> SUFFICES ASSUME IInv, Next, NEW q \in Reqs, cx'[q].result = "unconfigured",
                      cx[q].result = "none", health = "READY"
               PROVE  FALSE
    OBVIOUS
  <2>1. cx' # cx  OBVIOUS
  <2>2. kind = "codex-cli" /\ CxNext
    BY <2>1 DEF Next, RtStep, CxStep, cxVars, IInv, CxInv, CxHealth
  <2>3. ~CheckHealth /\ ~OwnerChanges  BY <2>1 DEF CheckHealth, OwnerChanges
  <2> QED BY <2>2, <2>3, BeginRefuses, OthersDoNotRefuse DEF CxNext, CxHandler, IInv
<1> QED BY <1>1, Inductive, PTL DEF Spec, ReadyIsAnswerable
-----------------------------------------------------------------------------
(* docs/HOST_AGENT_HANDOFF.md says that native Markdown reaches the user     *)
(* verbatim.  It does whenever the loop stops for an ended command only      *)
(* when the readers have moved all of its lines, which nothing makes it wait *)
(* for: a line that is still in the pipe is the one way to lose one.         *)
ReadersAreDone == [][LoopBreaks => lines.queued = lines.written]_bridgeVars

Verbatim ==
  /\ VerbatimAnswer
  /\ stage \in Cleanup \cup {"result"} /\ timer # "fired" /\ ~gone =>
       noticed /\ lines.taken = lines.written
  /\ stage = "result" => ~gone

\* An answer that is told is all that the command wrote.
LEMMA EndIsVerbatim ==
  ASSUME RtQuiet, stage # "over", NEW o \in Outcomes, NEW n \in 0..MaxLines, Ends(o, n),
         o = "answer" => n = lines'.written
  PROVE  Verbatim'
<1>1. DOMAIN finals' = {1} /\ finals'[1].outcome = o /\ finals'[1].shown = n /\ stage' = "over"
  BY EndsOnce
<1> QED BY <1>1 DEF Verbatim, VerbatimAnswer, Cleanup

\* What is projected is all that the command wrote, if that is what was read.
LEMMA ProjectedIsVerbatim ==
  ASSUME RtQuiet, stage # "over", lines.written \in 0..MaxLines, lines' = lines,
         Projected(lines.written)
  PROVE  Verbatim'
<1>1. 0 \in 0..MaxLines /\ "empty" \in Outcomes /\ "invalid" \in Outcomes /\ "answer" \in Outcomes
  BY CommandRuntimeAssumption DEF Outcomes
<1>2. Ends("empty", 0) \/ Ends("invalid", 0) \/ Ends("answer", lines.written)
  BY DEF Projected
<1> QED BY <1>1, <1>2, EndIsVerbatim

LEMMA VerbatimEnds ==
  ASSUME RtInv, Verbatim, stage # "over", Refuse \/ Reap \/ Result \/ ThreadReturns \/ ThreadDrained
  PROVE  Verbatim'
<1>1. /\ 0 \in 0..MaxLines /\ lines.written \in 0..MaxLines /\ RtQuiet /\ finals = <<>>
      /\ {"mode-invalid", "unconfigured", "failed", "timeout"} \subseteq Outcomes
  BY CommandRuntimeAssumption DEF Outcomes, RtInv, RtTypeOK, RtQuiet
<1>2. lines' = lines
  BY DEF Refuse, Reap, Result, ThreadReturns, ThreadDrained, output
<1>3. CASE \E o \in {"mode-invalid", "unconfigured", "failed", "timeout"} : Ends(o, 0)
  BY <1>1, <1>3, EndIsVerbatim
<1>4. CASE Reap
  BY <1>1, <1>4 DEF Reap, Verbatim, VerbatimAnswer, Cleanup, output
<1>5. CASE Result /\ timer # "fired" /\ Projected(lines.taken)
  <2>1. lines.taken = lines.written  BY <1>5 DEF Result, Verbatim
  <2> QED BY <1>1, <1>2, <1>5, <2>1, ProjectedIsVerbatim
<1>6. CASE ThreadReturns /\ Projected(lines.written)
  BY <1>1, <1>2, <1>6, ProjectedIsVerbatim
<1> QED BY <1>3, <1>4, <1>5, <1>6 DEF Refuse, Result, ThreadReturns, ThreadDrained

\* Until it ends a request has told nothing, and its command, once seen to have
\* ended, writes nothing.
LEMMA VerbatimSteps ==
  ASSUME RtInv, RtInv', Verbatim, RtNext, LoopBreaks => lines.queued = lines.written
  PROVE  Verbatim'
<1>1. CASE Refuse \/ Reap \/ Result \/ ThreadReturns \/ ThreadDrained
  <2>1. stage # "over"
    BY <1>1 DEF Refuse, Reap, Result, ThreadReturns, ThreadDrained
  <2> QED BY <1>1, <2>1, VerbatimEnds
<1> SUFFICES ASSUME ~(Refuse \/ Reap \/ Result \/ ThreadReturns \/ ThreadDrained)
             PROVE  Verbatim'
  BY <1>1
<1>2. /\ stage # "over" /\ UNCHANGED finals
  BY DEF RtNext, Handler, Start, LoopBreaks, LoopExpires, LoopTakes, Stop, WaitsForExit, Kill,
         ThreadExpires, Reads, Notices, DeadlinePasses, ClientTakes, ClientLeaves, Writes, Forks,
         Exits, Cleanup
<1>3. VerbatimAnswer'  BY <1>2 DEF RtInv, RtQuiet, VerbatimAnswer
<1>4. /\ lines.written \in Nat /\ lines.queued \in Nat /\ lines.taken \in Nat
      /\ noticed => "root" \notin group
  BY CommandRuntimeAssumption DEF RtInv, RtTypeOK, RtExit
<1> USE DEF Verbatim, Cleanup
<1>5. CASE LoopBreaks
  BY <1>3, <1>4, <1>5 DEF LoopBreaks, Drained, QueueIsEmpty, output
<1>6. CASE LoopExpires \/ Start \/ ThreadExpires
  BY <1>3, <1>6 DEF LoopExpires, Start, ThreadExpires
<1>7. CASE LoopTakes \/ ClientTakes \/ Reads
  <2>1. stage' \in {"loop", "yield"}  BY <1>7 DEF LoopTakes, ClientTakes, Reads
  <2> QED BY <1>3, <2>1
<1>8. CASE Stop \/ WaitsForExit \/ Kill \/ Forks \/ (\E m \in Members : Exits(m))
  <2>1. /\ UNCHANGED <<noticed, lines, timer, gone>> /\ (stage' = "result" => stage' = stage)
        /\ stage' \in Cleanup \cup {"result"} => stage \in Cleanup \cup {"result"}
    BY <1>8 DEF Stop, WaitsForExit, Kill, Forks, Exits, output
  <2> QED BY <1>3, <2>1
<1>9. CASE Notices \/ DeadlinePasses \/ ClientLeaves
  BY <1>3, <1>9 DEF Notices, DeadlinePasses, ClientLeaves, output
<1>10. CASE Writes
  BY <1>3, <1>4, <1>10 DEF Writes
<1> QED BY <1>5, <1>6, <1>7, <1>8, <1>9, <1>10 DEF RtNext, Handler

\* The whole of a successful command's output becomes the answer, where the
\* readers are done (query_stream).
THEOREM AnswersAreVerbatim == Spec /\ ReadersAreDone => []VerbatimAnswer
<1>1. Init => Verbatim  BY DEF Init, RtInit, Verbatim, VerbatimAnswer, Cleanup
<1>2. IInv /\ IInv' /\ Verbatim /\ [Next]_bridgeVars
      /\ [LoopBreaks => lines.queued = lines.written]_bridgeVars => Verbatim'
  <2> SUFFICES ASSUME IInv, IInv', Verbatim, [Next]_bridgeVars,
                      [LoopBreaks => lines.queued = lines.written]_bridgeVars
               PROVE  Verbatim'
    OBVIOUS
  <2>1. CASE UNCHANGED rtVars
    BY <2>1 DEF rtVars, process, output, Verbatim, VerbatimAnswer
  <2>2. CASE RtNext /\ ~UNCHANGED rtVars
    BY <2>2, VerbatimSteps DEF IInv, bridgeVars
  <2> QED BY <2>1, <2>2 DEF Next, RtStep, CxStep, bridgeVars
<1>3. Verbatim => VerbatimAnswer  BY DEF Verbatim
<1> QED BY <1>1, <1>2, <1>3, Inductive, PTL DEF Spec, ReadersAreDone
-----------------------------------------------------------------------------
(* Both adapters implement the ledger that SessionGuard implements: one      *)
(* verdict for each request, told when it ends.                              *)
Quiet(r) == LedgerEntry(r)' = LedgerEntry(r) /\ Heard(r)' = Heard(r)

\* A step that moves the entry of one request is a step of the ledger.
LEMMA EntryMoves ==
  ASSUME NEW r \in Asked, \A q \in Asked \ {r} : Quiet(q),
         \/ Quiet(r)
         \/ /\ LedgerEntry(r) = Ledger!Absent /\ LedgerEntry(r)' = Ledger!Pending
            /\ Heard(r)' = Heard(r)
         \/ /\ LedgerEntry(r) = Ledger!Pending /\ LedgerEntry(r)' = Ledger!Absent
            /\ Heard(r)' = Heard(r)
         \/ /\ LedgerEntry(r) \in {Ledger!Absent, Ledger!Pending}
            /\ \E v \in Outcomes \cup (Results \ {"none"}) :
                 LedgerEntry(r)' = Ledger!Decided(v) /\ Heard(r)' = Ledger!Told(r, v)
  PROVE  Ledger!LedgerNext
<1> DEFINE book == [q \in Asked |-> LedgerEntry(q)]
           ears == [q \in Asked |-> Heard(q)]
<1>1. book' = [book EXCEPT ![r] = book'[r]]  BY DEF Quiet
<1>2. ears' = [ears EXCEPT ![r] = ears'[r]]  BY DEF Quiet
<1>3. Ledger!Enter
  <2>1. CASE LedgerEntry(r)' = LedgerEntry(r)
    <3>1. book' = book  BY <2>1 DEF Quiet
    <3> QED BY <3>1 DEF Ledger!Enter
  <2>2. CASE LedgerEntry(r)' # LedgerEntry(r)
    <3>1. Ledger!Moves(r)  BY <2>2 DEF Ledger!Moves, Quiet
    <3> QED BY <1>1, <3>1 DEF Ledger!Enter
  <2> QED BY <2>1, <2>2
<1>4. Ledger!Hear
  <2>1. CASE Heard(r)' = Heard(r)
    <3>1. ears' = ears  BY <2>1 DEF Quiet
    <3> QED BY <3>1 DEF Ledger!Hear
  <2>2. ASSUME NEW v \in Outcomes \cup (Results \ {"none"}),
               LedgerEntry(r)' = Ledger!Decided(v), Heard(r)' = Ledger!Told(r, v)
        PROVE  Ledger!Hear
    <3>1. book'[r] = Ledger!Decided(v)  BY <2>2
    <3>2. ears' = [ears EXCEPT ![r] = Ledger!Told(r, v)]  BY <1>2, <2>2
    <3> QED BY <3>1, <3>2 DEF Ledger!Hear
  <2> QED BY <2>1, <2>2 DEF Quiet
<1> QED BY <1>3, <1>4 DEF Ledger!LedgerNext, Ledger!Serve

\* Where a step of the command's path takes its request.
LEMMA CommandMoves ==
  ASSUME RtInv, RtNext
  PROVE  /\ stage # "over" /\ finals = <<>>
         /\ \/ stage' \notin {"idle", "over"}
            \/ stage # "idle" /\ stage' = "over" /\ finals' = <<>>
            \/ stage' = "over" /\ finals' # <<>> /\ finals'[1].outcome \in Outcomes
<1>1. stage # "over"
  BY DEF RtNext, Handler, Refuse, Start, LoopBreaks, LoopExpires, LoopTakes, Stop, WaitsForExit, Kill,
         Reap, Result, ThreadReturns, ThreadExpires, ThreadDrained, Reads, Notices, DeadlinePasses,
         ClientTakes, ClientLeaves, Writes, Forks, Exits, Cleanup
<1>2. finals = <<>> /\ RtQuiet /\ (stage = "idle" => group = {})
  BY <1>1 DEF RtInv, RtQuiet, RtExit
<1>3. ASSUME NEW o \in Outcomes, NEW n \in 0..MaxLines, Ends(o, n)
      PROVE  stage' = "over" /\ finals' # <<>> /\ finals'[1].outcome \in Outcomes
  BY <1>1, <1>2, <1>3, EndsOnce
<1>4. 0 \in 0..MaxLines /\ lines.taken \in 0..MaxLines /\ lines.written \in 0..MaxLines
  BY CommandRuntimeAssumption DEF RtInv, RtTypeOK
<1>5. CASE \E o \in Outcomes, n \in 0..MaxLines : Ends(o, n)  BY <1>1, <1>2, <1>3, <1>5
<1>6. CASE Refuse \/ Result \/ ThreadReturns \/ ThreadDrained
  <2>1. CASE \E o \in {"mode-invalid", "unconfigured", "failed", "timeout"} : Ends(o, 0)
    BY <1>4, <1>5, <2>1 DEF Outcomes
  <2>2. CASE Projected(lines.taken) \/ Projected(lines.written)
    BY <1>4, <1>5, <2>2, ProjectedEnds
  <2> QED BY <1>6, <2>1, <2>2 DEF Refuse, Result, ThreadReturns, ThreadDrained
<1>7. CASE Start \/ LoopBreaks \/ LoopExpires \/ LoopTakes \/ Stop \/ WaitsForExit \/ Kill \/ Reap
           \/ ThreadExpires \/ Reads \/ Notices \/ DeadlinePasses \/ ClientTakes \/ ClientLeaves
           \/ Writes \/ Forks \/ (\E m \in Members : Exits(m))
  BY <1>1, <1>2, <1>7
     DEF Start, LoopBreaks, LoopExpires, LoopTakes, Stop, WaitsForExit, Kill, Reap, ThreadExpires,
         Reads, Notices, DeadlinePasses, ClientTakes, ClientLeaves, Writes, Forks, Exits, Cleanup
<1> QED BY <1>6, <1>7 DEF RtNext, Handler

LEMMA CommandLedger ==
  ASSUME RtInv, RtNext, UNCHANGED cx
  PROVE  Ledger!LedgerNext
<1> USE DEF LedgerEntry, Heard, Begun, Over, Said
<1>1. "command" \in Asked /\ \A q \in Asked \ {"command"} : Quiet(q)  BY DEF Asked, Quiet
<1>2. /\ LedgerEntry("command") = IF stage = "idle" THEN Ledger!Absent ELSE Ledger!Pending
      /\ Heard("command") = Ledger!Silence /\ stage # "over"
  BY CommandMoves DEF Ledger!Absent, Ledger!Pending, Ledger!Silence
<1>3. CASE stage' \notin {"idle", "over"}
  <2>1. LedgerEntry("command")' = Ledger!Pending /\ Heard("command")' = Ledger!Silence
    BY <1>3 DEF Ledger!Pending, Ledger!Silence
  <2> QED BY <1>1, <1>2, <2>1, EntryMoves DEF Quiet
<1>4. CASE stage # "idle" /\ stage' = "over" /\ finals' = <<>>
  <2>1. LedgerEntry("command")' = Ledger!Absent /\ Heard("command")' = Ledger!Silence
    BY <1>4 DEF Ledger!Absent, Ledger!Silence
  <2> QED BY <1>1, <1>2, <1>4, <2>1, EntryMoves
<1>5. CASE stage' = "over" /\ finals' # <<>> /\ finals'[1].outcome \in Outcomes
  <2>1. finals'[1].outcome # "none"  BY <1>5 DEF Outcomes
  <2>2. /\ LedgerEntry("command")' = Ledger!Decided(finals'[1].outcome)
        /\ Heard("command")' = Ledger!Told("command", finals'[1].outcome)
    BY <1>5, <2>1 DEF Ledger!Decided, Ledger!Told
  <2> QED BY <1>1, <1>2, <1>5, <2>2, EntryMoves
<1> QED BY <1>3, <1>4, <1>5, CommandMoves

\* Where a step of Codex's path takes its request: it goes on, or ends.
CodexMoves(r) ==
  /\ cx[r].at # "over" /\ \A q \in Reqs : q # r => cx'[q] = cx[q]
  /\ \/ cx'[r].at \in {"running", "wait", "killed"}
     \/ cx'[r].at = "over" /\ cx'[r].result \in Results \ {"none"}

LEMMA FinishMoves ==
  ASSUME CxTypeOK, NEW r \in Reqs, cx[r].at # "over", NEW c, c.op \in Ops,
         NEW x \in Results \ {"none"}, EndRun(r, c, x)
  PROVE  CodexMoves(r)
<1>1. "temp" \in Results \ {"none"}  BY DEF Results
<1>2. CASE Finish(r, c, x)  BY <1>2, FinishFacts DEF CodexMoves
<1>3. CASE Finish(r, c, "temp")  BY <1>1, <1>3, FinishFacts DEF CodexMoves
<1> QED BY <1>2, <1>3 DEF EndRun

LEMMA BeginMoves ==
  ASSUME CxTypeOK, NEW r \in Reqs, Begin(r)
  PROVE  CodexMoves(r)
<1>1. PICK op \in Ops :
        LET c == [cx[r] EXCEPT !.op = op] IN
        \/ Unconfigured(op) /\ Finish(r, c, "unconfigured") /\ UNCHANGED groups
        \/ ~Unconfigured(op) /\ \/ RefusesRequest(r, c) \/ HasNoDirectory(r, c)
                                \/ StartsCodex(r, c)
  BY DEF Begin
<1> DEFINE c == [cx[r] EXCEPT !.op = op]
<1>2. c.op \in Ops /\ cx[r].at # "over"  BY DEF CxTypeOK, Begin
<1> HIDE DEF c
<1>3. CASE \E x \in {"unconfigured", "refused", "temp", "failed"} : EndRun(r, c, x)
  BY <1>2, <1>3, FinishMoves DEF Results
<1>4. CASE cx' = [cx EXCEPT ![r] = [c EXCEPT !.at = "running"]]
  <2> DEFINE d == [c EXCEPT !.at = "running"]
  <2>1. d.at = "running"  BY DEF c, CxTypeOK
  <2>2. cx' = [cx EXCEPT ![r] = d]  BY <1>4
  <2> HIDE DEF d
  <2> QED BY <1>2, <2>1, <2>2 DEF CxTypeOK, CodexMoves
<1> QED BY <1>1, <1>3, <1>4 DEF EndRun, RefusesRequest, HasNoDirectory, StartsCodex, c

LEMMA RunMoves ==
  ASSUME CxTypeOK, NEW r \in Reqs,
         \/ Returns(r) \/ Expires(r) \/ AfterWait(r) \/ AfterKill(r) \/ CancelledAgain(r)
         \/ CodexClientLeaves(r) \/ (\E m \in CodexMembers : CodexExits(r, m)) \/ CodexForks(r)
  PROVE  UNCHANGED cx \/ CodexMoves(r)
<1>1. cx[r].op \in Ops /\ cx \in [Reqs -> [at : {"idle", "running", "wait", "killed", "over"},
                              op : Ops, stop : {"none", "timeout", "cancel"},
                              gone : BOOLEAN, exit : {"none", "ok", "error"},
                              result : Results]]
  BY DEF CxTypeOK
<1>2. CASE /\ cx[r].at # "over"
           /\ \E x \in {"failed", "invalid", "answer", "trace", "timeout", "cancelled"} :
                EndRun(r, cx[r], x)
  BY <1>1, <1>2, FinishMoves DEF Results
<1>3. CASE Returns(r) \/ AfterKill(r) \/ CancelledAgain(r)
  BY <1>2, <1>3 DEF Returns, Judge, ExitedBadly, OutputIsInvalid, AnswersUntraced, AnswersTraced,
                    TraceIsRefused, AfterKill, CancelledAgain, StopReason
<1>4. ASSUME NEW why, BeginStop(r, why)  PROVE CodexMoves(r)
  <2> DEFINE a == [cx[r] EXCEPT !.at = "wait"]
             b == [a EXCEPT !.stop = why]
             d == [b EXCEPT !.gone = cx[r].gone \/ why = "cancel"]
  <2>1. d.at = "wait" /\ cx[r].at = "running"  BY <1>1, <1>4 DEF BeginStop
  <2>2. cx' = [cx EXCEPT ![r] = d]  BY <1>1, <1>4 DEF BeginStop
  <2> HIDE DEF d
  <2> QED BY <1>1, <2>1, <2>2 DEF CodexMoves
<1>5. CASE cx[r].at \in {"wait", "killed"} /\ cx' = [cx EXCEPT ![r].gone = TRUE]
  BY <1>1, <1>5 DEF CodexMoves
<1>6. CASE Expires(r) \/ CodexClientLeaves(r)
  BY <1>4, <1>5, <1>6 DEF Expires, CodexClientLeaves
<1>7. CASE AfterWait(r)
  <2>1. CASE cx' = [cx EXCEPT ![r].at = "killed"]
    BY <1>1, <1>7, <2>1 DEF AfterWait, CodexMoves
  <2> QED BY <1>2, <1>7, <2>1 DEF AfterWait, StopReason
<1>8. CASE \E m \in CodexMembers : CodexExits(r, m)
  <2>1. CASE cx[r].at = "running" /\ \E e \in {"ok", "error"} : cx' = [cx EXCEPT ![r].exit = e]
    BY <1>1, <2>1 DEF CodexMoves
  <2> QED BY <1>8, <2>1 DEF CodexExits
<1>9. CASE CodexForks(r)  BY <1>9 DEF CodexForks
<1> QED BY <1>3, <1>6, <1>7, <1>8, <1>9

LEMMA CodexLedger ==
  ASSUME CxInv, UNCHANGED <<stage, finals>>, NEW r \in Reqs, CodexMoves(r)
  PROVE  Ledger!LedgerNext
<1>0. r # "command" /\ cx[r].result = "none" /\ cx[r].at # "over"
  BY BridgeAssumption DEF CodexMoves, CxInv, CxQuiet
<1>1. r \in Asked /\ \A q \in Asked \ {r} : Quiet(q)
  BY BridgeAssumption DEF Asked, Quiet, CodexMoves, LedgerEntry, Heard, Begun, Over, Said
<1>2. /\ LedgerEntry(r) = IF cx[r].at = "idle" THEN Ledger!Absent ELSE Ledger!Pending
      /\ Heard(r) = Ledger!Silence
  BY <1>0 DEF Ledger!Absent, Ledger!Pending, Ledger!Silence, LedgerEntry, Heard, Begun, Over, Said
<1>3. CASE cx'[r].at \in {"running", "wait", "killed"}
  <2>1. LedgerEntry(r)' = Ledger!Pending /\ Heard(r)' = Ledger!Silence
    BY <1>0, <1>3 DEF Ledger!Pending, Ledger!Silence, LedgerEntry, Heard, Begun, Over, Said
  <2> QED BY <1>1, <1>2, <2>1, EntryMoves DEF Quiet
<1>4. CASE cx'[r].at = "over" /\ cx'[r].result \in Results \ {"none"}
  <2>1. /\ LedgerEntry(r)' = Ledger!Decided(cx'[r].result)
        /\ Heard(r)' = Ledger!Told(r, cx'[r].result)
    BY <1>0, <1>4 DEF Ledger!Decided, Ledger!Told, LedgerEntry, Heard, Begun, Over, Said
  <2> QED BY <1>1, <1>2, <1>4, <2>1, EntryMoves
<1> QED BY <1>3, <1>4 DEF CodexMoves

\* A request is told one verdict when it ends, and no later step replaces it, for
\* either adapter (query_stream of server.py, _run of codex_cli_adapter.py).
THEOREM AdaptersKeepLedger == Spec => ImplementsLedger
<1>1. Init => Ledger!LedgerInit
  <2> SUFFICES ASSUME Init PROVE Ledger!LedgerInit  OBVIOUS
  <2>1. \A r \in Asked : ~Begun(r) /\ ~Over(r)
    BY DEF Init, RtInit, CxInit, Idle, Asked, Begun, Over
  <2>2. \A r \in Asked : LedgerEntry(r) = Ledger!Absent /\ Heard(r) = Ledger!Silence
    BY <2>1 DEF LedgerEntry, Heard, Ledger!Absent, Ledger!Silence
  <2> QED BY <2>2 DEF Ledger!LedgerInit
<1>2. IInv /\ [Next]_bridgeVars => [Ledger!LedgerNext]_(Ledger!lvars)
  <2> SUFFICES ASSUME IInv, [Next]_bridgeVars PROVE [Ledger!LedgerNext]_(Ledger!lvars)  OBVIOUS
  <2>1. CASE UNCHANGED <<stage, finals, cx>>
    BY <2>1 DEF Ledger!lvars, LedgerEntry, Heard, Begun, Over, Said
  <2>2. CASE RtStep(RtNext)
    BY <2>2, CommandLedger DEF RtStep, cxVars, IInv
  <2>3. CASE CxStep(CxNext)
    <3>1. UNCHANGED <<stage, finals>> /\ CxInv /\ CxTypeOK
      BY <2>3 DEF CxStep, rtVars, IInv, CxInv
    <3>2. CASE CheckHealth \/ OwnerChanges
      BY <2>1, <3>1, <3>2 DEF CheckHealth, OwnerChanges
    <3>3. CASE \E r \in Reqs : UNCHANGED cx \/ CodexMoves(r)
      BY <2>1, <3>1, <3>3, CodexLedger
    <3> QED BY <2>3, <3>1, <3>2, <3>3, BeginMoves, RunMoves DEF CxStep, CxNext, CxHandler
  <2>4. CASE \E r \in Reqs : SelectNone(r) /\ UNCHANGED <<kind, rtVars>>
    <3>1. PICK r \in Reqs : SelectNone(r) /\ UNCHANGED <<kind, rtVars>>  BY <2>4
    <3>2. UNCHANGED <<stage, finals>> /\ CxInv /\ CxTypeOK /\ cx[r].op \in Ops /\ cx[r].at # "over"
      BY <3>1 DEF rtVars, IInv, CxInv, CxTypeOK, SelectNone
    <3>3. CodexMoves(r)  BY <3>1, <3>2, FinishMoves DEF SelectNone, EndRun, Results
    <3> QED BY <3>2, <3>3, CodexLedger
  <2> QED BY <2>1, <2>2, <2>3, <2>4 DEF Next, bridgeVars, rtVars, cxVars
<1> QED BY <1>1, <1>2, Inductive, PTL DEF Spec, ImplementsLedger, Ledger!LedgerSpec
=============================================================================
