-------------------------- MODULE HostAgentStream --------------------------
(***************************************************************************)
(* A conversation with the host agent, from the browser to the backend:    *)
(* useHostAgentStream (src/src/hooks/useHostAgent.ts) over hostAgentAPI    *)
(* (src/src/lib/api-client.ts), and the route that relays the stream       *)
(* (src/backend/routers/host_agent.py).                                    *)
(*                                                                         *)
(* Each question is a turn with a request and a stream of its own; asking, *)
(* cancelling, resetting, leaving the page, the timeout and the network    *)
(* interleave with the frames.  A hook action is one synchronous stretch   *)
(* of the browser's event loop.  Nothing is assumed of the bridge behind   *)
(* the relay: it may send any frames, garbage included, stop or break.     *)
(*                                                                         *)
(* A delta's text is counted, never spelled; status and evidence frames    *)
(* differ in what they show only, so "status" stands for both.  MaxFrames  *)
(* bounds the text a turn collects and the frames waiting to be read; a    *)
(* relay may send status frames for ever.                                  *)
(***************************************************************************)
EXTENDS Naturals, Sequences, FiniteSets

CONSTANTS
  Turns,      \* turn ids (and their request's sequence number)
  NoTurn,     \* activeRequestRef.current is null
  MaxFrames   \* the bound on text collected and frames waiting

ASSUME TurnsAssumption == NoTurn \notin Turns
ASSUME FramesAssumption == MaxFrames \in Nat

VARIABLES
  mounted,
  active,     \* activeRequestRef.current, by its turn
  turns,      \* the hook's list of turns
  turn,       \* what the list shows of each
  view,       \* the hook's own status, deltaText and finalResponse
  terminal,   \* request.terminal
  aborted,    \* request.controller.signal.aborted
  loop,       \* per turn: where start is
  relay,      \* per turn: the backend's event_generator
  pending     \* per turn: the frames yielded and not read yet

hook == <<mounted, active, turns, turn, view, terminal, aborted, loop>>
stream == <<relay, pending>>
vars == <<hook, stream>>

Verdicts == {"answer", "unavailable"}
Frames == {"status", "delta", "bad"} \cup Verdicts
Settled == {"complete", "error", "cancelled"}
Shown == [status : {"idle", "connecting", "streaming"} \cup Settled,
          text : Nat, final : Verdicts \cup {"none"}]

Blank(s) == [status |-> s, text |-> 0, final |-> "none"]
Listed(t) == \E i \in DOMAIN turns : turns[i] = t

Init ==
  /\ mounted = TRUE
  /\ active = NoTurn
  /\ turns = <<>>
  /\ turn = [t \in Turns |-> Blank("idle")]
  /\ view = Blank("idle")
  /\ terminal = [t \in Turns |-> "none"]
  /\ aborted = [t \in Turns |-> FALSE]
  /\ loop = [t \in Turns |-> "off"]
  /\ relay = [t \in Turns |-> "off"]
  /\ pending = [t \in Turns |-> <<>>]

(* isCurrent, in the closure of t's start. *)
Current(t) == active = t /\ ~aborted[t]

(* The shared states and the turn, set by the same statements. *)
Show(t, s) == turn' = [turn EXCEPT ![t] = s] /\ view' = s

(* finishWithError, whose caller has asked isCurrent and terminal. *)
Ended(t, s) == [turn[t] EXCEPT !.status = s, !.final = "none"]

-----------------------------------------------------------------------------
(* start: a previous request that has no terminal yet is cancelled, its    *)
(* turn settles, and the new turn takes over.                              *)
SupersedesEnded(t) == t # NoTurn /\ terminal[t] # "none"   \* mutant

Superseded(t) == t # NoTurn /\ terminal[t] = "none"

Start(t) ==
  /\ mounted
  /\ loop[t] = "off"
  /\ active' = t
  /\ turns' = Append(turns, t)
  /\ turn' = [u \in Turns |->
       IF u = t THEN Blank("connecting")
       ELSE IF u = active /\ Superseded(u)
            THEN [turn[u] EXCEPT !.status = "cancelled"] ELSE turn[u]]
  /\ view' = Blank("connecting")
  /\ terminal' = IF Superseded(active)
                 THEN [terminal EXCEPT ![active] = "cancelled"] ELSE terminal
  /\ aborted' = [u \in Turns |-> aborted[u] \/ u = active]
  /\ loop' = [loop EXCEPT ![t] = "iterating"]
  /\ relay' = [relay EXCEPT ![t] = "open"]
  /\ UNCHANGED <<mounted, pending>>

(* The next event of the for-await loop. *)
Frame(t) == Head(pending[t])
Available(t) == loop[t] = "iterating" /\ pending[t] # <<>>

(* The generator's finally clause cancels the reader: the connection goes. *)
CloseReader(t, next) ==
  /\ loop' = [loop EXCEPT ![t] = next]
  /\ relay' = [relay EXCEPT ![t] = "gone"]
  /\ pending' = [pending EXCEPT ![t] = <<>>]

(* The request is over or replaced: break.                                 *)
IgnoreLate(t) ==
  /\ Available(t) /\ Frame(t) # "bad"
  /\ ~Current(t) \/ terminal[t] # "none"
  /\ CloseReader(t, "closing")
  /\ UNCHANGED <<mounted, active, turns, turn, view, terminal, aborted>>

(* Mutant: the late frame is shown. *)
TakeLate(t) ==
  /\ Available(t) /\ Frame(t) \in {"status", "delta"}
  /\ Show(t, [turn[t] EXCEPT !.status = "streaming"])
  /\ pending' = [pending EXCEPT ![t] = Tail(@)]
  /\ UNCHANGED <<mounted, active, turns, terminal, aborted, loop, relay>>

TakeProgress(t) ==
  /\ Available(t) /\ Frame(t) \in {"status", "delta"}
  /\ Current(t) /\ terminal[t] = "none"
  /\ Show(t, [turn[t] EXCEPT !.status = "streaming",
                             !.text = IF Frame(t) = "delta" THEN @ + 1 ELSE @])
  /\ pending' = [pending EXCEPT ![t] = Tail(@)]
  /\ UNCHANGED <<mounted, active, turns, terminal, aborted, loop, relay>>

TakeFinal(t) ==
  /\ Available(t) /\ Frame(t) \in Verdicts
  /\ Current(t) /\ terminal[t] = "none"
  /\ Show(t, [turn[t] EXCEPT !.status = "complete", !.final = Frame(t)])
  /\ terminal' = [terminal EXCEPT ![t] = "final"]
  /\ CloseReader(t, "closing")
  /\ UNCHANGED <<mounted, active, turns, aborted>>

(* parseSseFrame or the schema throws; or the read does, because the       *)
(* request was aborted or the connection broke; or the stream just ends.   *)
ReadFails(t) ==
  /\ loop[t] = "iterating"
  /\ \/ Available(t) /\ Frame(t) = "bad"
     \/ aborted[t]
     \/ relay[t] = "gone"
  /\ CloseReader(t, "failing")
  /\ UNCHANGED <<mounted, active, turns, turn, view, terminal, aborted>>

(* The finally clause of start. *)
Leave(t) ==
  /\ active' = IF active = t THEN NoTurn ELSE active
  /\ loop' = [loop EXCEPT ![t] = "ended"]

(* The catch clause, or the test after a stream that ended without a       *)
(* final; then finally.                                                    *)
Catch(t) ==
  /\ loop[t] = "failing"
  /\ IF Current(t) /\ terminal[t] = "none"
     THEN /\ terminal' = [terminal EXCEPT ![t] = "error"]
          /\ Show(t, Ended(t, "error"))
     ELSE UNCHANGED <<terminal, turn, view>>
  /\ Leave(t)
  /\ UNCHANGED <<mounted, turns, aborted, stream>>

(* After a break the loop is left with a terminal, or is not current. *)
Finish(t) ==
  /\ loop[t] = "closing"
  /\ Leave(t)
  /\ UNCHANGED <<mounted, turns, turn, view, terminal, aborted, stream>>

(* Mutant: the request is aborted first, and updateTurn drops the error. *)
TimeoutAbortsFirst(t) ==
  /\ loop[t] \in {"iterating", "failing", "closing"}
  /\ terminal[t] = "none" /\ Current(t)
  /\ terminal' = [terminal EXCEPT ![t] = "timeout"]
  /\ view' = Ended(t, "error")
  /\ aborted' = [aborted EXCEPT ![t] = TRUE]
  /\ UNCHANGED <<mounted, active, turns, turn, loop, stream>>

(* Mutant: the terminal is shown as it is. *)
TimeoutShown(t) ==
  /\ loop[t] \in {"iterating", "failing", "closing"}
  /\ terminal[t] = "none" /\ Current(t)
  /\ terminal' = [terminal EXCEPT ![t] = "timeout"]
  /\ Show(t, Ended(t, "timeout"))
  /\ aborted' = [aborted EXCEPT ![t] = TRUE]
  /\ UNCHANGED <<mounted, active, turns, loop, stream>>

(* Mutant: the first frame clears the timer. *)
TimeoutConnecting(t) ==
  /\ turn[t].status = "connecting"
  /\ terminal[t] = "none" /\ Current(t)
  /\ terminal' = [terminal EXCEPT ![t] = "timeout"]
  /\ Show(t, Ended(t, "error"))
  /\ aborted' = [aborted EXCEPT ![t] = TRUE]
  /\ UNCHANGED <<mounted, active, turns, loop, stream>>

(* The timer, cleared by the finally clause only. *)
Timeout(t) ==
  /\ loop[t] \in {"iterating", "failing", "closing"}
  /\ terminal[t] = "none" /\ Current(t)
  /\ terminal' = [terminal EXCEPT ![t] = "timeout"]
  /\ Show(t, Ended(t, "error"))
  /\ aborted' = [aborted EXCEPT ![t] = TRUE]
  /\ UNCHANGED <<mounted, active, turns, loop, stream>>

(* Mutant: an answered request is cancelled too. *)
CancelLate ==
  /\ mounted
  /\ active # NoTurn
  /\ terminal' = [terminal EXCEPT ![active] = "cancelled"]
  /\ aborted' = [aborted EXCEPT ![active] = TRUE]
  /\ active' = NoTurn
  /\ Show(active, Ended(active, "cancelled"))
  /\ UNCHANGED <<mounted, turns, loop, stream>>

Cancel ==
  /\ mounted
  /\ active # NoTurn /\ terminal[active] = "none"
  /\ terminal' = [terminal EXCEPT ![active] = "cancelled"]
  /\ aborted' = [aborted EXCEPT ![active] = TRUE]
  /\ active' = NoTurn
  /\ Show(active, Ended(active, "cancelled"))
  /\ UNCHANGED <<mounted, turns, loop, stream>>

Abandon ==
  /\ aborted' = [t \in Turns |-> aborted[t] \/ t = active]
  /\ active' = NoTurn

Reset ==
  /\ mounted
  /\ Abandon
  /\ turns' = <<>>
  /\ turn' = [t \in Turns |-> Blank("idle")]
  /\ view' = Blank("idle")
  /\ UNCHANGED <<mounted, terminal, loop, stream>>

Unmount ==
  /\ mounted
  /\ mounted' = FALSE
  /\ Abandon
  /\ UNCHANGED <<turns, turn, view, terminal, loop, stream>>

-----------------------------------------------------------------------------
(* The relay yields what upstream sends as it comes, up to a terminal.     *)
Yield(t, f) == pending' = [pending EXCEPT ![t] = Append(@, f)]

RelayForward(t) ==
  /\ relay[t] = "open"
  /\ turn[t].text + Len(pending[t]) < MaxFrames
  /\ \E f \in {"status", "delta", "bad"} : Yield(t, f)
  /\ UNCHANGED <<hook, relay>>

(* A final that satisfies the contract is the answer.  An invalid one, an  *)
(* error event, a stream that ends or raises before its terminal, and a    *)
(* bridge that is not configured are answered "unavailable".               *)
RelayFinal(t) ==
  /\ relay[t] = "open"
  /\ \E v \in Verdicts : Yield(t, v)
  /\ relay' = [relay EXCEPT ![t] = "finished"]
  /\ UNCHANGED hook

(* The connection breaks; the hook may still read what had arrived. *)
RelayGone(t) ==
  /\ relay[t] \in {"open", "finished"}
  /\ relay' = [relay EXCEPT ![t] = "gone"]
  /\ UNCHANGED <<hook, pending>>

-----------------------------------------------------------------------------
LoopStep(t) ==
  \/ IgnoreLate(t) \/ TakeProgress(t) \/ TakeFinal(t) \/ ReadFails(t)
  \/ Catch(t) \/ Finish(t)

Next ==
  \/ \E t \in Turns : Start(t) \/ LoopStep(t) \/ Timeout(t)
  \/ Cancel \/ Reset \/ Unmount
  \/ \E t \in Turns : RelayForward(t) \/ RelayFinal(t) \/ RelayGone(t)

Spec == Init /\ [][Next]_vars

(* The event loop gets to whatever is ready, timers included; the relay    *)
(* may hang for ever.                                                      *)
Fairness == \A t \in Turns : WF_vars(LoopStep(t)) /\ WF_vars(Timeout(t))
FairSpec == Spec /\ Fairness

-----------------------------------------------------------------------------
TypeOK ==
  /\ mounted \in BOOLEAN
  /\ active \in Turns \cup {NoTurn}
  /\ turns \in Seq(Turns)
  /\ turn \in [Turns -> Shown]
  /\ view \in Shown
  /\ terminal \in [Turns -> {"none", "final", "error", "cancelled", "timeout"}]
  /\ aborted \in [Turns -> BOOLEAN]
  /\ loop \in [Turns -> {"off", "iterating", "failing", "closing", "ended"}]
  /\ relay \in [Turns -> {"off", "open", "finished", "gone"}]
  /\ pending \in [Turns -> Seq(Frames)]

(* What the page shows as the current answer is the last turn of the       *)
(* conversation, to the letter: no late frame, timeout or cancellation of  *)
(* an earlier turn shows through.                                          *)
ViewIsLastTurn ==
  view = IF turns = <<>> THEN Blank("idle") ELSE turn[turns[Len(turns)]]

(* At most the last turn is still open: whatever replaces a request first  *)
(* settles its turn, so none keeps spinning in the list.                   *)
OnlyLastIsOpen ==
  \A i \in 1 .. Len(turns) - 1 : turn[turns[i]].status \in Settled

(* What the list shows of a turn is how its request ended: no outcome is   *)
(* lost between the request's own record and the page, although updateTurn *)
(* drops what comes after the request is aborted.                          *)
Outcome(t) ==
  CASE terminal[t] = "none"      -> {"connecting", "streaming"}
    [] terminal[t] = "final"     -> {"complete"}
    [] terminal[t] = "cancelled" -> {"cancelled"}
    [] OTHER                     -> {"error"}

OutcomeIsShown == \A t \in Turns : Listed(t) => turn[t].status \in Outcome(t)

(* The inductive invariant: a turn that was not asked yet is untouched, a   *)
(* turn is listed once, the active request is the last turn's, and while   *)
(* the page is there an open turn has its request active.                  *)
OffInv ==
  \A t \in Turns : loop[t] = "off" =>
    /\ ~Listed(t) /\ active # t /\ ~aborted[t]
    /\ terminal[t] = "none" /\ turn[t] = Blank("idle")

ListedOnce ==
  \A i, j \in 1 .. Len(turns) : turns[i] = turns[j] => i = j

ActiveInv ==
  active # NoTurn =>
    /\ mounted /\ turns # <<>> /\ turns[Len(turns)] = active
    /\ terminal[active] = "none" =>
         ~aborted[active] /\ loop[active] \in {"iterating", "failing"}

OpenIsActive ==
  mounted => \A t \in Turns : Listed(t) /\ terminal[t] = "none" => active = t

IInv ==
  /\ TypeOK /\ OffInv /\ ListedOnce /\ ActiveInv /\ OpenIsActive
  /\ ViewIsLastTurn /\ OnlyLastIsOpen /\ OutcomeIsShown

(* A settled turn never changes again, until the conversation is reset. *)
SettledStays ==
  [][\A t \in Turns :
       turn[t].status \in Settled /\ turns' # <<>> => turn'[t] = turn[t]]_vars

(* A turn settles although the relay hangs, unless the conversation is     *)
(* reset or its page left.                                                 *)
TurnsSettle ==
  \A t \in Turns :
    turn[t].status \in {"connecting", "streaming"}
      ~> turn[t].status \notin {"connecting", "streaming"} \/ ~mounted
=============================================================================
