--------------------------- MODULE MetadataDrawer ---------------------------
(***************************************************************************)
(* The smart fill of the metadata drawer: MetadataSidebar                  *)
(* (src/src/components/editor/MetadataSidebar.tsx) on the write page, with *)
(* useHostAgentMetadataProposal (src/src/hooks/useHostAgent.ts).           *)
(*                                                                         *)
(* The drawer asks the host agent for metadata of the draft it shows and   *)
(* keeps what the draft held then.  While the answer is under way the user *)
(* writes, edits fields, opens another draft in the same drawer, or closes *)
(* it.  One record of the last answer outlives the drawer, for five        *)
(* minutes.  React runs the drawer's effects before the browser turns to   *)
(* anything else, so an action ends with all effects run.                  *)
(*                                                                         *)
(* A draft is its text, which stands for content and date, and the fields  *)
(* a proposal may fill.  A proposal is known by the draft and the text it  *)
(* was made for.  Location and weather are in JournalDraft.  What a saved  *)
(* draft becomes is the write page's affair.                               *)
(***************************************************************************)
EXTENDS Naturals, FiniteSets

CONSTANTS
  Scopes,     \* drafts the drawer may show
  Texts,      \* what they may say
  Fields,     \* PROPOSAL_TARGET_FIELDS
  Empty,      \* an empty field
  Own,        \* what the user enters in a field
  None,       \* no record, no scope
  MaxRequests \* bound: metadataProposalSequence

Proposals == Scopes \X Texts
Values == {Empty, Own} \cup Proposals
Blank == [f \in Fields |-> Empty]

VARIABLES
  drafts,     \* per scope: text and fields
  scope,      \* draftScope of the mounted drawer, None when it is closed
  ready,      \* smartMetadataReady
  request,    \* activeProposalRequestId and its snapshot
  call,       \* useMutation: what is under way or was answered
  review,     \* proposalReview
  cache,      \* metadataProposalCache: at most one record
  requests    \* metadataProposalSequence

vars == <<drafts, scope, ready, request, call, review, cache, requests>>

NoSnapshot == [scope |-> None, text |-> None, base |-> Blank, late |-> FALSE]
NoCall == [step |-> "none", of |-> None]

\* A cached record: what it was made for, what it filled and whether five
\* minutes have passed since.
Record(s, t, applied, fresh) ==
  [scope |-> s, text |-> t, applied |-> applied, fresh |-> fresh, id |-> requests, old |-> FALSE]

Init ==
  /\ drafts \in [Scopes -> [text : Texts, fields : {Blank}]]
  /\ scope = None /\ ready = FALSE
  /\ request = NoSnapshot /\ call = NoCall
  /\ review = None /\ cache = None
  /\ requests = 0

Open == scope # None
Text == drafts[scope].text

-----------------------------------------------------------------------------
(* readMetadataProposalCache: expired records are purged, and only a record *)
(* of the draft itself is seen.                                             *)
Purged(c) == IF c # None /\ c.old THEN None ELSE c
Cached(s) == IF Purged(cache) # None /\ cache.scope = s THEN cache ELSE None

(* The effect on a draft or a text that is not the one before.  The state   *)
(* keeps a review of the draft when the cache has none.                     *)
Reviewed(s) ==
  /\ cache' = Purged(cache)
  /\ review' = IF Cached(s) # None THEN Cached(s)
               ELSE IF review # None /\ review.scope = s THEN review ELSE None

(* Mounting takes the review from the cache; the mutation has no data. *)
Mount(s) ==
  /\ ~Open
  /\ scope' = s
  /\ request' = NoSnapshot /\ call' = NoCall
  /\ cache' = Purged(cache) /\ review' = Cached(s)
  /\ UNCHANGED <<drafts, ready, requests>>

(* Unmounting leaves the call to its end, which nobody sees. *)
Unmount ==
  /\ Open
  /\ scope' = None
  /\ request' = NoSnapshot /\ call' = NoCall /\ review' = None
  /\ UNCHANGED <<drafts, ready, cache, requests>>

(* The write page moves to another draft with the drawer open. *)
OpenDraft(s) ==
  /\ Open /\ s # scope
  /\ scope' = s
  /\ Reviewed(s)
  /\ UNCHANGED <<drafts, ready, request, call, requests>>

Write(t) ==
  /\ Open /\ t # Text
  /\ drafts' = [drafts EXCEPT ![scope].text = t]
  /\ Reviewed(scope)
  /\ UNCHANGED <<scope, ready, request, call, requests>>

(* Any of the drawer's inputs; a proposal's values are not in its context. *)
EditField(f, v) ==
  /\ Open /\ v \in {Empty, Own} /\ drafts[scope].fields[f] # v
  /\ drafts' = [drafts EXCEPT ![scope].fields[f] = v]
  /\ UNCHANGED <<scope, ready, request, call, review, cache, requests>>

HealthAnswers(b) ==
  /\ Open /\ ready # b
  /\ ready' = b
  /\ UNCHANGED <<drafts, scope, request, call, review, cache, requests>>

-----------------------------------------------------------------------------
(* metadataIssueEnvelope: an answer without fields, or an error. *)
Issue == call.step = "issue"

(* handleStatusCapsuleClick asks where there is nothing to tell; where there *)
(* is an issue, its panel has a retry.  A review only opens and closes.      *)
CanAsk == Open /\ ready /\ call.step # "pending" /\ (Issue \/ review = None)

\* handleRequestProposal, when the cache answers
RequestFromCache ==
  /\ CanAsk
  /\ Cached(scope) # None /\ Cached(scope).text = Text
  /\ cache' = Purged(cache) /\ review' = Cached(scope)
  /\ UNCHANGED <<drafts, scope, ready, request, call, requests>>

(* handleRequestProposal, when it does not: a new id, its snapshot, and the *)
(* mutation.                                                                *)
RequestProposal ==
  /\ CanAsk /\ requests < MaxRequests
  /\ ~(Cached(scope) # None /\ Cached(scope).text = Text)
  /\ requests' = requests + 1
  /\ request' = [scope |-> scope, text |-> Text, base |-> drafts[scope].fields, late |-> FALSE]
  /\ call' = [step |-> "pending", of |-> <<scope, Text>>]
  /\ review' = None /\ cache' = Purged(cache)
  /\ UNCHANGED <<drafts, scope, ready>>

(* evaluateMetadataProposal: a field is filled if it was empty when the     *)
(* request was made, and still is.                                          *)
FillableAtRequest(fields, base) == {f \in fields : base[f] = Empty}   \* mutant
Fillable(fields, base) ==
  {f \in fields : base[f] = Empty /\ drafts[scope].fields[f] = base[f]}

(* requestContextIsFresh *)
Fresh == request.scope = scope /\ request.text = Text /\ ~request.late

(* The host agent proposes some fields: the effect fills what it may, keeps  *)
(* the record, and shows it, be it of another draft.                         *)
Proposed(fields) ==
  /\ call.step = "pending" /\ fields # {}
  /\ LET filled == IF Fresh THEN Fillable(fields, request.base) ELSE {}
         record == Record(request.scope, request.text, filled, Fresh)
     IN  /\ drafts' = [drafts EXCEPT ![scope].fields =
                         [f \in Fields |-> IF f \in filled THEN call.of ELSE @[f]]]
         /\ cache' = record /\ review' = record
  /\ call' = [call EXCEPT !.step = "answered"]
  /\ request' = NoSnapshot
  /\ UNCHANGED <<scope, ready, requests>>

(* An error, an answer without fields, or an agent that is not there; or    *)
(* fields that are not supported or not PROPOSED, which are passed over.    *)
NotProposed ==
  /\ call.step = "pending"
  /\ \E step \in {"issue", "answered"} : call' = [call EXCEPT !.step = step]
  /\ UNCHANGED <<drafts, scope, ready, request, review, cache, requests>>

\* Five minutes pass.
TimePasses ==
  /\ request.scope # None \/ cache # None
  /\ request' = [request EXCEPT !.late = request.scope # None]
  /\ cache' = IF cache = None THEN None ELSE [cache EXCEPT !.old = TRUE]
  /\ review' = IF review = None THEN None ELSE [review EXCEPT !.old = TRUE]
  /\ <<request, cache, review>>' # <<request, cache, review>>
  /\ UNCHANGED <<drafts, scope, ready, call, requests>>

AnswerStep == NotProposed \/ \E fields \in SUBSET Fields : Proposed(fields)

Next ==
  \/ Unmount \/ RequestFromCache \/ RequestProposal \/ TimePasses \/ AnswerStep
  \/ \E s \in Scopes : Mount(s) \/ OpenDraft(s)
  \/ \E t \in Texts : Write(t)
  \/ \E f \in Fields, v \in {Empty, Own} : EditField(f, v)
  \/ \E b \in BOOLEAN : HealthAnswers(b)

Spec == Init /\ [][Next]_vars

-----------------------------------------------------------------------------
Stale(r) == ~r.fresh \/ r.old \/ r.scope # scope \/ r.text # Text

(* metadataAgentStatus *)
Status ==
  IF call.step = "pending" THEN "extracting"
  ELSE IF Issue THEN "issue"
  ELSE IF review # None
  THEN IF Stale(review) THEN "stale"
       ELSE IF review.applied = {} THEN "reviewed"
       ELSE IF \E f \in Fields : drafts[scope].fields[f] = Empty THEN "partial" ELSE "filled"
  ELSE IF ready THEN "ready" ELSE "offline"

Records == [scope : Scopes, text : Texts, applied : SUBSET Fields, fresh : BOOLEAN,
            id : 1..MaxRequests, old : BOOLEAN]

(* Every variable stays in its domain; a pending call has its snapshot. *)
TypeOK ==
  /\ drafts \in [Scopes -> [text : Texts, fields : [Fields -> Values]]]
  /\ scope \in Scopes \cup {None} /\ ready \in BOOLEAN
  /\ request \in [scope : Scopes \cup {None}, text : Texts \cup {None},
                  base : [Fields -> Values], late : BOOLEAN]
  /\ call \in [step : {"none", "pending", "answered", "issue"}, of : Proposals \cup {None}]
  /\ review \in Records \cup {None} /\ cache \in Records \cup {None}
  /\ requests \in 0..MaxRequests
  /\ call.step = "pending" => call.of = <<request.scope, request.text>>

(* "Existing values and edits made while the request is pending always win"  *)
(* (docs/HOST_AGENT_HANDOFF.md), and what comes into a draft from the host    *)
(* agent was proposed for this draft as it reads at that moment: whichever    *)
(* drafts were open and closed, and whatever was written, in between.         *)
FillsOwnGaps ==
  [][\A s \in Scopes, f \in Fields :
       LET was == drafts[s].fields[f]  is == drafts'[s].fields[f]
       IN  /\ was = Own => is \in {Own, Empty}
           /\ is \in Proposals /\ is # was => is = <<s, drafts[s].text>>]_drafts

(* The capsule says that fields were filled only where the last answer that  *)
(* filled any was for the draft and text it is shown with.                   *)
FilledIsOfThisText ==
  Open /\ Status \in {"filled", "partial"} =>
    cache # None /\ cache.scope = scope /\ cache.text = Text
=============================================================================
