--------------------------- MODULE EntityCuration ---------------------------
(***************************************************************************)
(* Curating the entity graph: the review queue and the guarded mutations   *)
(* of EntityGraph (src/src/app/routes/EntityGraph.tsx), their mutations    *)
(* and invalidations (src/src/hooks/useJournals.ts), and the router that   *)
(* turns them into CLI commands (src/backend/routers/entities.py).         *)
(*                                                                         *)
(* The page previews an operation, shows the preview, lets the user accept *)
(* it, and then confirms: the CLI writes and the router checks the graph.  *)
(* Both sections share one preview mutation and one confirm mutation, so   *)
(* one call of each kind is under way; a preview may be asked for while a  *)
(* confirmation is, and other programs write the graph meanwhile.          *)
(*                                                                         *)
(* The graph is the set of its entities and a version that counts writes.  *)
(* A selection outlives the entity it names, so any entity can be asked    *)
(* for.  The type filter, the statistics and the other read-only sections  *)
(* are left out; the entity list stands for every query of the page.       *)
(***************************************************************************)
EXTENDS Naturals

CONSTANTS
  Entities,   \* ids
  Selections, \* entities that the selects may hold: source and target
  Items,      \* cards of the review queue: [id, source, target]
  NoEntity,   \* a card or a request that lacks one
  MaxWrites   \* bound: versions of the graph

ASSUME CurationAssumption ==
  /\ NoEntity \notin Entities /\ Selections \subseteq Entities \X Entities
  /\ \A i \in Items : i.id # NoEntity
  /\ MaxWrites \in Nat

ReviewActions == {"merge_as_alias", "skip"}
NoItem == NoEntity

VARIABLES
  gate,       \* what the CLI's version allows
  form,       \* MutationSection: pendingRequest, preview, previewAccepted
  card,       \* ReviewSection: activeReview
  asked,      \* the preview under way
  confirm,    \* the confirmation under way
  result,     \* what the last confirmation told the page
  list,       \* useEntityList: data, and the fetch under way
  graph       \* the CLI's graph

vars == <<gate, form, card, asked, confirm, result, list, graph>>

NoRequest == [operation |-> "none", item |-> NoItem, source |-> NoEntity, target |-> NoEntity]
Delete(e) == [operation |-> "delete", item |-> NoItem, source |-> e, target |-> NoEntity]
Merge(s, t) == [operation |-> "merge_as_alias", item |-> NoItem, source |-> s, target |-> t]
Review(i, choice) == [operation |-> choice, item |-> i.id, source |-> i.source, target |-> i.target]

Requests ==
  {Delete(p[1]) : p \in Selections}
  \cup {Merge(p[1], p[2]) : p \in {q \in Selections : q[1] # q[2]}}
  \cup {Review(i, c) : i \in Items, c \in ReviewActions}

NoForm == [pending |-> NoRequest, preview |-> NoRequest, accepted |-> FALSE]
NoCard == [item |-> NoItem, request |-> NoRequest, preview |-> NoRequest, accepted |-> FALSE]
NoAsked == [step |-> "none", by |-> "form", request |-> NoRequest, ok |-> FALSE]
NoConfirm == [step |-> "none", request |-> NoRequest, wrote |-> 0, checked |-> 0]
NoResult == [wrote |-> 0, checked |-> 0]

\* A fetch that is asked for has read nothing yet; an invalidation may have
\* joined it instead of starting another.
NoFetch == [step |-> "none", joined |-> FALSE, version |-> 0]
Fetch == [step |-> "asked", joined |-> FALSE, version |-> 0]

Init ==
  /\ gate = "closed"
  /\ form = NoForm /\ card = NoCard
  /\ asked = NoAsked /\ confirm = NoConfirm /\ result = NoResult
  /\ list = [has |-> FALSE, version |-> 0, stale |-> FALSE, joined |-> FALSE, failed |-> FALSE,
             fetch |-> NoFetch]
  /\ graph = [entities |-> Entities, version |-> 0]

-----------------------------------------------------------------------------
(* The version check answers, first or again.  A query that it enables is  *)
(* fetched if it has no data or was invalidated; cards need a newer CLI    *)
(* than the rest.                                                          *)
VersionAnswers(g) ==
  /\ gate # g
  /\ gate' = g
  /\ list' = IF gate = "closed" /\ (~list.has \/ list.stale) /\ list.fetch = NoFetch
             THEN [list EXCEPT !.fetch = Fetch] ELSE list
  /\ UNCHANGED <<form, card, asked, confirm, result, graph>>

\* isPending of the shared mutations
PreviewPending == asked.step # "none"
ConfirmPending == confirm.step # "none"

AskFormEager(req) ==   \* mutant: the request is taken before its preview answers
  /\ gate # "closed" /\ list.has /\ ~PreviewPending
  /\ req.item = NoItem
  /\ form' = [form EXCEPT !.accepted = FALSE, !.pending = req]
  /\ asked' = [step |-> "sent", by |-> "form", request |-> req, ok |-> FALSE]
  /\ result' = NoResult
  /\ UNCHANGED <<gate, card, confirm, list, graph>>

(* MutationSection's handlePreview: the old preview stays on the page until *)
(* the new one answers.                                                    *)
AskForm(req) ==
  /\ gate # "closed" /\ list.has /\ ~PreviewPending
  /\ req.item = NoItem
  /\ form' = [form EXCEPT !.accepted = FALSE]
  /\ asked' = [step |-> "sent", by |-> "form", request |-> req, ok |-> FALSE]
  /\ result' = NoResult
  /\ UNCHANGED <<gate, card, confirm, list, graph>>

AskCardLacking(i, choice) ==   \* mutant: a card that lacks its source is asked for
  /\ gate = "all" /\ ~PreviewPending /\ ~ConfirmPending
  /\ card' = [item |-> i.id, request |-> Review(i, choice), preview |-> NoRequest, accepted |-> FALSE]
  /\ asked' = [step |-> "sent", by |-> "card", request |-> Review(i, choice), ok |-> FALSE]
  /\ UNCHANGED <<gate, form, confirm, result, list, graph>>

(* ReviewSection's handlePreview.  A card whose contract lacks the source  *)
(* shows an error and asks for nothing.                                    *)
AskCard(i, choice) ==
  /\ gate = "all" /\ ~PreviewPending /\ ~ConfirmPending
  /\ card' = [item |-> i.id, request |-> Review(i, choice), preview |-> NoRequest, accepted |-> FALSE]
  /\ asked' = IF i.source = NoEntity THEN asked
              ELSE [step |-> "sent", by |-> "card", request |-> Review(i, choice), ok |-> FALSE]
  /\ UNCHANGED <<gate, form, confirm, result, list, graph>>

(* _validate_mutation_request *)
Valid(req) ==
  /\ req.source # NoEntity
  /\ req.operation \in {"merge_as_alias", "keep_separate"} =>
       req.target # NoEntity /\ req.target # req.source

\* The CLI finds what the request names.
Possible(req, g) == {req.source, req.target} \ {NoEntity} \subseteq g.entities

(* preview_entity_mutation: the CLI reads, or fails, or takes over 30 s. *)
PreviewRuns ==
  /\ asked.step = "sent"
  /\ \E ok \in {FALSE, Valid(asked.request) /\ Possible(asked.request, graph)} :
       asked' = [asked EXCEPT !.step = "answered", !.ok = ok]
  /\ UNCHANGED <<gate, form, card, confirm, result, list, graph>>

(* The rest of the handlePreview that asked. *)
PreviewAnswers ==
  /\ asked.step = "answered"
  /\ asked' = NoAsked
  /\ IF asked.by = "form"
     THEN /\ form' = IF asked.ok
                     THEN [form EXCEPT !.pending = asked.request, !.preview = asked.request]
                     ELSE [form EXCEPT !.pending = NoRequest, !.preview = NoRequest]
          /\ UNCHANGED card
     ELSE /\ card' = [item |-> asked.request.item, request |-> asked.request, accepted |-> FALSE,
                      preview |-> IF asked.ok THEN asked.request ELSE NoRequest]
          /\ UNCHANGED form
  /\ UNCHANGED <<gate, confirm, result, list, graph>>

(* The checkboxes stand below a preview. *)
TickForm(b) ==
  /\ form.preview # NoRequest /\ form.accepted # b
  /\ form' = [form EXCEPT !.accepted = b]
  /\ UNCHANGED <<gate, card, asked, confirm, result, list, graph>>

TickCard(b) ==
  /\ gate = "all" /\ card.preview # NoRequest /\ card.accepted # b
  /\ card' = [card EXCEPT !.accepted = b]
  /\ UNCHANGED <<gate, form, asked, confirm, result, list, graph>>

-----------------------------------------------------------------------------
Send(req) == confirm' = [step |-> "sent", request |-> req, wrote |-> 0, checked |-> 0]

(* handleConfirm of MutationSection; the gate does not hide it. *)
ConfirmForm ==
  /\ form.pending # NoRequest /\ form.preview # NoRequest /\ form.accepted
  /\ ~ConfirmPending
  /\ Send(form.pending)
  /\ UNCHANGED <<gate, form, card, asked, result, list, graph>>

(* handleApply of ReviewSection. *)
ApplyCard ==
  /\ gate = "all" /\ card.preview # NoRequest /\ card.accepted
  /\ ~ConfirmPending
  /\ Send(card.request)
  /\ UNCHANGED <<gate, form, card, asked, result, list, graph>>

Without(req, g) ==
  [version |-> g.version + 1,
   entities |-> IF req.operation \in {"delete", "merge_as_alias"}
                THEN g.entities \ {req.source} ELSE g.entities]

(* confirm_entity_mutation: under the write lock the CLI writes or refuses. *)
(* A write whose answer is lost, cut off or not JSON ends as an error.      *)
MutationWrites ==
  /\ confirm.step = "sent"
  /\ Valid(confirm.request) /\ Possible(confirm.request, graph)
  /\ graph.version < MaxWrites
  /\ graph' = Without(confirm.request, graph)
  /\ confirm' \in {[confirm EXCEPT !.step = "written", !.wrote = graph.version + 1],
                   [confirm EXCEPT !.step = "failed"]}
  /\ UNCHANGED <<gate, form, card, asked, result, list>>

MutationRefused ==
  /\ confirm.step = "sent"
  /\ confirm' = [confirm EXCEPT !.step = "failed"]
  /\ UNCHANGED <<gate, form, card, asked, result, list, graph>>

(* entity --check after the write; its failure is told, not an error. *)
CheckRuns ==
  /\ confirm.step = "written"
  /\ \E v \in {0, graph.version} :
       confirm' = [confirm EXCEPT !.step = "checked", !.checked = v]
  /\ UNCHANGED <<gate, form, card, asked, result, list, graph>>

InvalidatedJoins(l, g) ==   \* mutant: a fetch under way is joined
  IF l.fetch # NoFetch \/ g = "closed" THEN [l EXCEPT !.stale = TRUE]
  ELSE [l EXCEPT !.stale = TRUE, !.fetch = Fetch]

(* invalidateQueries cancels the fetch under way and fetches again.  Where  *)
(* the query has no data, or is disabled, the fetch it has is joined, and    *)
(* its answer makes the query fresh.                                         *)
Invalidated(l, g) ==
  IF l.fetch # NoFetch /\ (~l.has \/ g = "closed")
  THEN [l EXCEPT !.stale = TRUE, !.fetch.joined = TRUE]
  ELSE IF g = "closed" THEN [l EXCEPT !.stale = TRUE]
  ELSE [l EXCEPT !.stale = TRUE, !.fetch = Fetch]

(* The rest of handleApply puts the card back as it was when it was applied; *)
(* the form is left as it is.                                               *)
CardAnswered == IF confirm.request.item = NoItem THEN card ELSE [card EXCEPT !.accepted = TRUE]

(* onSuccess of useEntityMutationConfirm, then the handler that waited. *)
ConfirmAnswers ==
  /\ confirm.step = "checked"
  /\ result' = [wrote |-> confirm.wrote, checked |-> confirm.checked]
  /\ list' = Invalidated(list, gate)
  /\ card' = CardAnswered
  /\ confirm' = NoConfirm
  /\ UNCHANGED <<gate, form, asked, graph>>

(* The error is shown; preview and checkbox stand, so it can be sent again. *)
ConfirmFails ==
  /\ confirm.step = "failed"
  /\ card' = CardAnswered
  /\ confirm' = NoConfirm
  /\ result' = NoResult
  /\ UNCHANGED <<gate, form, asked, list, graph>>

-----------------------------------------------------------------------------
(* handleRetry, or the window getting the focus. *)
Refetch ==
  /\ gate # "closed"
  /\ list' = Invalidated(list, gate)
  /\ list' # list
  /\ UNCHANGED <<gate, form, card, asked, confirm, result, graph>>

ListReads ==
  /\ list.fetch.step = "asked"
  /\ list' = [list EXCEPT !.fetch.step = "read", !.fetch.version = graph.version]
  /\ UNCHANGED <<gate, form, card, asked, confirm, result, graph>>

\* The answer, or an error after the retry: the data stays what it was.
ListAnswers ==
  /\ list.fetch.step = "read"
  /\ list' \in {[has |-> TRUE, version |-> list.fetch.version, stale |-> FALSE,
                 joined |-> list.fetch.joined, failed |-> FALSE, fetch |-> NoFetch],
                [list EXCEPT !.failed = TRUE, !.fetch = NoFetch]}
  /\ UNCHANGED <<gate, form, card, asked, confirm, result, graph>>

(* Another program, or another tab, changes the graph. *)
OthersWrite(es) ==
  /\ graph.version < MaxWrites
  /\ graph' = [entities |-> es, version |-> graph.version + 1]
  /\ UNCHANGED <<gate, form, card, asked, confirm, result, list>>

User ==
  \/ \E r \in Requests : AskForm(r)
  \/ \E i \in Items, c \in ReviewActions : AskCard(i, c)
  \/ \E b \in BOOLEAN : TickForm(b) \/ TickCard(b)
  \/ ConfirmForm \/ ApplyCard \/ Refetch

Calls ==
  \/ PreviewRuns \/ PreviewAnswers
  \/ MutationWrites \/ MutationRefused \/ CheckRuns \/ ConfirmAnswers \/ ConfirmFails
  \/ ListReads \/ ListAnswers

Next ==
  \/ User \/ Calls
  \/ \E g \in {"closed", "mutations", "all"} : VersionAnswers(g)
  \/ \E es \in SUBSET Entities : OthersWrite(es)

Spec == Init /\ [][Next]_vars

-----------------------------------------------------------------------------
Versions == 0..MaxWrites
RequestOrNone == Requests \cup {NoRequest}

(* Every variable stays in its domain, one call of a kind is under way, and  *)
(* what is asked of the CLI names what it is about.                          *)
TypeOK ==
  /\ gate \in {"closed", "mutations", "all"}
  /\ form \in [pending : RequestOrNone, preview : RequestOrNone, accepted : BOOLEAN]
  /\ card \in [item : {i.id : i \in Items} \cup {NoItem}, request : RequestOrNone,
               preview : RequestOrNone, accepted : BOOLEAN]
  /\ asked \in [step : {"none", "sent", "answered"}, by : {"form", "card"},
                request : RequestOrNone, ok : BOOLEAN]
  /\ confirm \in [step : {"none", "sent", "written", "failed", "checked"},
                  request : RequestOrNone, wrote : Versions, checked : Versions]
  /\ result \in [wrote : Versions, checked : Versions]
  /\ list \in [has : BOOLEAN, version : Versions, stale : BOOLEAN, joined : BOOLEAN,
               failed : BOOLEAN,
               fetch : [step : {"none", "asked", "read"}, joined : BOOLEAN, version : Versions]]
  /\ graph \in [entities : SUBSET Entities, version : Versions]
  /\ PreviewPending => asked.request.source # NoEntity
  /\ ConfirmPending => confirm.request.source # NoEntity

(* Whatever was asked for meanwhile, the request that a confirm button sends *)
(* is the one whose preview the page shows: pendingRequest is replaced with  *)
(* the preview, not when the preview is asked for.                           *)
ConfirmsWhatIsShown ==
  /\ form.pending = form.preview
  /\ card.preview # NoRequest => card.request = card.preview

(* What the page shows after a write follows it.  A confirmation that reports *)
(* a good check was checked on a graph that has its write, whoever wrote in   *)
(* between.  And once nothing is under way, the list is not older than the    *)
(* last write this page has confirmed: the fetch that was under way is given  *)
(* up (useEntityMutationConfirm).  A fetch that the invalidation had to join  *)
(* may be older.                                                              *)
ShownFollowsWrites ==
  /\ result.checked # 0 => result.checked >= result.wrote
  /\ list.fetch = NoFetch /\ list.has /\ ~list.joined /\ ~list.failed /\ gate # "closed"
       => list.version >= result.wrote

(* "Entity mutations require an accepted preview before confirmation"        *)
(* (backend/routers/entities.py): what a section confirms was accepted after *)
(* its preview had answered.  The box of a preview can be ticked while the   *)
(* next one is under way, and stays ticked when that one takes its place.    *)
AcceptedIsShown ==
  [][form'.preview # form.preview => ~form'.accepted]_form
=============================================================================
