------------------------------- MODULE Bridge -------------------------------
(***************************************************************************)
(* The host agent bridge: an adapter is selected by name, once, and serves *)
(* the requests; a name that is not known serves none.                     *)
(***************************************************************************)
EXTENDS CommandRuntime, CodexAdapter

VARIABLE kind   \* LIFE_INDEX_HOST_AGENT_ADAPTER_KIND

bridgeVars == <<kind, rtVars, cxVars>>
Kinds == {"reference-command", "codex-cli", "other"}

\* Every variable stays in its domain; and a request ends with one terminal
\* envelope, and with none only if its client has left: no way for a command, its
\* output or its cleanup to end falls through to a second one or to silence
\* (query_stream).
TypeOK ==
    /\ kind \in Kinds /\ RtTypeOK /\ CxTypeOK
    /\ Len(finals) <= 1
    /\ stage = "over" /\ ~gone => Len(finals) = 1

Init == /\ kind \in Kinds
        /\ RtInit /\ CxInit
        /\ kind # "reference-command" =>
             request = CHOOSE q \in Requests : q.config = "no-command"
        /\ kind # "codex-cli" => broken = {} /\ trace = "off"

\* _selected_adapter_kind raises: the request ends before any runtime is asked.
SelectNone(r) ==
    /\ cx[r].at = "idle"
    /\ Finish(r, cx[r], "unconfigured")
    /\ UNCHANGED <<groups, broken, changes, trace, health>>

RtStep(A) == kind = "reference-command" /\ A /\ UNCHANGED <<kind, cxVars>>
CxStep(A) == kind = "codex-cli" /\ A /\ UNCHANGED <<kind, rtVars>>

Next ==
    \/ RtStep(RtNext)
    \/ CxStep(CxNext)
    \/ /\ kind = "other" /\ \E r \in Reqs : SelectNone(r)
       /\ UNCHANGED <<kind, rtVars>>

Spec == Init /\ [][Next]_bridgeVars

\* The event loop runs its tasks, and the clock runs.  A command owes nothing.
\* A client either takes the frames sent to it or leaves: one that does neither
\* suspends its stream where the deadline is not looked at.
FairSpec ==
    /\ Spec
    /\ WF_bridgeVars(RtStep(Handler)) /\ WF_bridgeVars(RtStep(Notices))
    /\ WF_bridgeVars(RtStep(DeadlinePasses)) /\ WF_bridgeVars(RtStep(ClientTakes))
    /\ \A r \in Reqs : WF_bridgeVars(CxStep(CxHandler(r)))

-----------------------------------------------------------------------------
\* An answer is the output of a command that ended by itself, with status 0, and
\* was seen to end before the deadline ended the request; one that claims to be
\* an envelope is all that was written.  The deadline, a signal of the cleanup
\* and a late exit race for the status _run_runtime_stream reports.
AnswerIsOfSuccess ==
    \A i \in DOMAIN finals : finals[i].outcome = "answer" =>
        /\ exit = "ok" /\ timer # "fired"
        /\ request.config = "exact-json" => finals[i].shown = lines.written

\* The whole of a successful command's standard output becomes the answer.  The
\* documentation says so of native Markdown, and the loop that takes the lines may
\* see the command ended and the queue empty while a reader has lines yet to move.
VerbatimAnswer ==
    \A i \in DOMAIN finals : finals[i].outcome = "answer" => finals[i].shown = lines.written

\* After a stream the command itself is never left running, and on POSIX what it
\* started is not either, unless the command had ended by itself: also when a
\* member of the group ignores SIGTERM and when the client leaves in the middle
\* of the cleanup (_close_runtime_process).
StoppedTreeIsGone ==
    stage = "over" /\ request.op = "query" =>
        /\ "root" \notin group
        /\ request.os = "posix" /\ "kid" \in group => exit # "killed"

\* Every request ends, whatever its command or Codex does: a stream if its client
\* reads or leaves; a metadata request of the command on POSIX only, for on
\* Windows subprocess.run waits for all that hold the pipes.
RequestsEnd ==
    /\ (stage = "loop" \/ (stage = "thread" /\ request.os = "posix"))
         ~> stage = "over"
    /\ \A r \in Reqs : cx[r].at = "running" ~> cx[r].at = "over"

\* A trace file never belongs to two answers, nor to a request that was refused:
\* each query answered under a configured trace is the one recorded in it, though
\* all that run at once found the file absent when they began.
TraceIsTheAnswers ==
    /\ trace # "off" => \A r \in Reqs :
         cx[r].op = "query" /\ cx[r].result = "answer" => trace = r
    /\ trace \in Reqs => cx[trace].result \in {"answer", "temp"}

\* What the health check has passed, no request then finds unconfigured, until the
\* configuration changes: the check and the requests read the same facts in two
\* places (codex_health_payload, _run).
ReadyIsAnswerable ==
    [][\A r \in Reqs :
         cx'[r].result = "unconfigured" /\ cx[r].result = "none"
           => health # "READY"]_bridgeVars

-----------------------------------------------------------------------------
\* What the adapters promise whoever asks them is the ledger of RequestLedger,
\* which here is never shut: a request is pending while it runs, what it ends with
\* is its one verdict, told once and never replaced, and the stream of a client
\* that has left is withdrawn.  "command" names the request of the reference
\* command, which tells the outcome of its terminal envelope.
ASSUME BridgeAssumption == "command" \notin Reqs

Asked == Reqs \cup {"command"}
Begun(r) == IF r = "command" THEN stage # "idle" ELSE cx[r].at # "idle"
Over(r) == IF r = "command" THEN stage = "over" ELSE cx[r].at = "over"
Said(r) == IF r # "command" THEN cx[r].result
           ELSE IF finals = <<>> THEN "none" ELSE finals[1].outcome

LedgerEntry(r) ==
    IF ~Begun(r) \/ (Over(r) /\ Said(r) = "none")
    THEN [state |-> "absent", verdict |-> "none"]
    ELSE IF ~Over(r) THEN [state |-> "pending", verdict |-> "none"]
    ELSE [state |-> "decided", verdict |-> Said(r)]

Heard(r) == IF Over(r) /\ Said(r) # "none" THEN [about |-> {r}, verdict |-> Said(r)]
            ELSE [about |-> {}, verdict |-> "none"]

Ledger == INSTANCE RequestLedger WITH
    Callers <- Asked, Ids <- Asked,
    Verdicts <- Outcomes \cup (Results \ {"none"}), NoVerdict <- "none",
    ledger <- [r \in Asked |-> LedgerEntry(r)],
    told <- [r \in Asked |-> Heard(r)],
    shut <- FALSE

\* Every request has one verdict at most, told when it ends (query_stream, _run).
ImplementsLedger == Ledger!LedgerSpec
=============================================================================
