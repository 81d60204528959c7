-------------------------- MODULE MaintenanceProofs --------------------------
(***************************************************************************)
(* What the curation of the entity graph promises, for any entities, cards *)
(* and number of writes.                                                   *)
(*                                                                         *)
(* That the list follows a write is not inductive: the fetch that will     *)
(* bring it is under way, or still to be made when the gate opens.  The    *)
(* invariant adds that an answer on its way is as new as the write unless  *)
(* it was joined (ReadIsNew), that data which is not marked stale is       *)
(* (FreshIsNew), that an open page refetches what is stale (StaleIsFetched)*)
(* and that no write is newer than the graph (WrittenIsThere).             *)
(***************************************************************************)
EXTENDS Maintenance, TLAPS

-----------------------------------------------------------------------------
\* A request of the form names its source.
LEMMA FormRequests ==
  ASSUME NEW req \in Requests, req.item = NoItem
  PROVE  req.source # NoEntity
<1>1. CASE req \in {Delete(p[1]) : p \in Selections}
  BY <1>1, CurationAssumption DEF Delete
<1>2. CASE req \in {Merge(p[1], p[2]) : p \in {q \in Selections : q[1] # q[2]}}
  BY <1>2, CurationAssumption DEF Merge
<1>3. CASE req \in {Review(i, c) : i \in Items, c \in ReviewActions}
  BY <1>3, CurationAssumption DEF Review, NoItem
<1> QED BY <1>1, <1>2, <1>3 DEF Requests

Ids == {i.id : i \in Items} \cup {NoItem}

\* The card of a request.
LEMMA RequestItems ==
  ASSUME NEW req \in RequestOrNone
  PROVE  req.item \in Ids
<1>1. CASE req = NoRequest  BY <1>1 DEF NoRequest, Ids
<1>2. CASE req \in {Delete(p[1]) : p \in Selections}  BY <1>2 DEF Delete, Ids
<1>3. CASE req \in {Merge(p[1], p[2]) : p \in {q \in Selections : q[1] # q[2]}}
  BY <1>3 DEF Merge, Ids
<1>4. CASE req \in {Review(i, c) : i \in Items, c \in ReviewActions}  BY <1>4 DEF Review, Ids
<1> QED BY <1>1, <1>2, <1>3, <1>4 DEF RequestOrNone, Requests

\* The types, per variable: what a step of the page has to keep.
FormType == [pending : RequestOrNone, preview : RequestOrNone, accepted : BOOLEAN]
CardType == [item : Ids, request : RequestOrNone,
             preview : RequestOrNone, accepted : BOOLEAN]
AskedType == [step : {"none", "sent", "answered"}, by : {"form", "card"},
              request : RequestOrNone, ok : BOOLEAN]
ConfirmType == [step : {"none", "sent", "written", "failed", "checked"},
                request : RequestOrNone, wrote : Versions, checked : Versions]
FetchType == [step : {"none", "asked", "read"}, joined : BOOLEAN, version : Versions]
ListType == [has : BOOLEAN, version : Versions, stale : BOOLEAN, joined : BOOLEAN,
             failed : BOOLEAN, fetch : FetchType]

FormOK == /\ form \in FormType /\ form.pending = form.preview
          /\ form.pending # NoRequest => form.pending.source # NoEntity
CardOK == /\ card \in CardType
          /\ card.preview # NoRequest => card.request = card.preview
          /\ card.preview # NoRequest => card.preview.source # NoEntity
AskedOK == asked \in AskedType /\ (asked.step # "none" => asked.request.source # NoEntity)
ConfirmOK == /\ confirm \in ConfirmType
             /\ confirm.step # "none" => confirm.request.source # NoEntity
RestOK == /\ gate \in {"closed", "mutations", "all"}
          /\ result \in [wrote : Versions, checked : Versions]
          /\ list \in ListType
          /\ graph \in [entities : SUBSET Entities, version : Versions]

Types == FormOK /\ CardOK /\ AskedOK /\ ConfirmOK /\ RestOK

WrittenIsThere ==
  /\ confirm.wrote <= graph.version
  /\ result.wrote <= graph.version
  /\ confirm.step # "checked" => confirm.checked = 0
  /\ confirm.checked # 0 => confirm.checked >= confirm.wrote
  /\ result.checked # 0 => result.checked >= result.wrote

OneNoFetch == list.fetch.step = "none" => list.fetch = NoFetch

ReadIsNew == list.fetch.step = "read" /\ ~list.fetch.joined => list.fetch.version >= result.wrote

FreshIsNew ==
  list.fetch = NoFetch /\ list.has /\ ~list.joined /\ ~list.failed /\ ~list.stale
    => list.version >= result.wrote

StaleIsFetched ==
  list.fetch = NoFetch /\ list.has /\ ~list.failed /\ gate # "closed" => ~list.stale

Follows == WrittenIsThere /\ OneNoFetch /\ ReadIsNew /\ FreshIsNew /\ StaleIsFetched
IInv == Types /\ Follows
\* The types, by part, are the type invariant and the first property.
LEMMA TypesGive ==
  ASSUME Types
  PROVE  TypeOK /\ ConfirmsWhatIsShown
<1>1. ConfirmsWhatIsShown  BY DEF Types, FormOK, CardOK, ConfirmsWhatIsShown
<1>2. gate \in {"closed", "mutations", "all"}  BY DEF Types, RestOK
<1>3. form \in [pending : RequestOrNone, preview : RequestOrNone, accepted : BOOLEAN]
  BY DEF Types, FormOK, FormType
<1>4. card \in [item : {i.id : i \in Items} \cup {NoItem}, request : RequestOrNone,
                preview : RequestOrNone, accepted : BOOLEAN]
  BY DEF Types, CardOK, CardType, Ids
<1>5. asked \in [step : {"none", "sent", "answered"}, by : {"form", "card"},
                 request : RequestOrNone, ok : BOOLEAN]
  BY DEF Types, AskedOK, AskedType
<1>6. confirm \in [step : {"none", "sent", "written", "failed", "checked"},
                   request : RequestOrNone, wrote : Versions, checked : Versions]
  BY DEF Types, ConfirmOK, ConfirmType
<1>7. result \in [wrote : Versions, checked : Versions]  BY DEF Types, RestOK
<1>8. list \in [has : BOOLEAN, version : Versions, stale : BOOLEAN, joined : BOOLEAN,
                failed : BOOLEAN,
                fetch : [step : {"none", "asked", "read"}, joined : BOOLEAN, version : Versions]]
  BY DEF Types, RestOK, ListType, FetchType
<1>9. graph \in [entities : SUBSET Entities, version : Versions]  BY DEF Types, RestOK
<1>10. PreviewPending => asked.request.source # NoEntity
  BY DEF Types, AskedOK, PreviewPending
<1>11. ConfirmPending => confirm.request.source # NoEntity
  BY DEF Types, ConfirmOK, ConfirmPending
<1> QED
  BY <1>1, <1>2, <1>3, <1>4, <1>5, <1>6, <1>7, <1>8, <1>9, <1>10, <1>11 DEF TypeOK

LEMMA Zero == /\ 0 \in Versions /\ NoRequest \in RequestOrNone /\ Requests \subseteq RequestOrNone
              /\ NoResult \in [wrote : Versions, checked : Versions]
              /\ NoAsked \in AskedType /\ NoConfirm \in ConfirmType
              /\ NoForm \in FormType /\ NoCard \in CardType
              /\ NoFetch \in FetchType /\ Fetch \in FetchType
<1>1. 0 \in Versions /\ NoRequest \in RequestOrNone /\ Requests \subseteq RequestOrNone
  BY CurationAssumption DEF Versions, RequestOrNone
<1> QED BY <1>1 DEF NoResult, NoAsked, NoConfirm, NoForm, NoCard, NoFetch, Fetch, AskedType,
                    ConfirmType, FormType, CardType, FetchType, Ids

LEMMA TypesAskForm ==
  ASSUME Types, NEW req \in Requests, AskForm(req)
  PROVE  Types'
<1>1. FormOK'  BY DEF AskForm, FormOK, FormType, Types
<1>2. AskedOK'  BY Zero, FormRequests DEF AskForm, AskedOK, AskedType
<1>3. CardOK' /\ ConfirmOK'  BY DEF AskForm, CardOK, ConfirmOK, Types
<1>4. RestOK'  BY Zero DEF AskForm, RestOK, Types
<1> QED BY <1>1, <1>2, <1>3, <1>4 DEF Types

LEMMA TypesAskCard ==
  ASSUME Types, NEW i \in Items, NEW choice \in ReviewActions, AskCard(i, choice)
  PROVE  Types'
<1>1. Review(i, choice) \in RequestOrNone  BY Zero DEF Requests
<1>2. Review(i, choice).source = i.source  BY DEF Review
<1>3. CardOK'  BY <1>1, Zero DEF AskCard, CardOK, CardType, Ids, Review
<1>4. AskedOK'  BY <1>1, <1>2 DEF AskCard, AskedOK, AskedType, Types
<1>5. FormOK' /\ ConfirmOK' /\ RestOK'  BY DEF AskCard, FormOK, ConfirmOK, RestOK, Types
<1> QED BY <1>3, <1>4, <1>5 DEF Types

LEMMA TypesPreview ==
  ASSUME Types, PreviewRuns \/ PreviewAnswers
  PROVE  Types'
<1>1. CASE PreviewRuns
  <2>1. AskedOK'
    <3>1. PICK ok \in {FALSE, Valid(asked.request) /\ Possible(asked.request, graph)} :
            asked' = [asked EXCEPT !.step = "answered", !.ok = ok]
      BY <1>1 DEF PreviewRuns
    <3>2. ok \in BOOLEAN  BY DEF Valid, Possible
    <3> QED BY <1>1, <3>1, <3>2 DEF PreviewRuns, AskedOK, AskedType, Types
  <2> QED BY <1>1, <2>1 DEF PreviewRuns, FormOK, CardOK, ConfirmOK, RestOK, Types
<1>2. CASE PreviewAnswers
  <2>1. asked.request \in RequestOrNone /\ asked.request.source # NoEntity /\ asked \in AskedType
    BY <1>2 DEF PreviewAnswers, AskedOK, AskedType, Types
  <2>2. FormOK'
    <3>1. CASE asked.by = "form"
      BY <1>2, <2>1, <3>1, Zero DEF PreviewAnswers, FormOK, FormType, Types
    <3>2. CASE asked.by # "form"
      BY <1>2, <3>2 DEF PreviewAnswers, FormOK, Types
    <3> QED BY <3>1, <3>2
  <2>3. CardOK'
    <3>1. CASE asked.by = "form"
      BY <1>2, <3>1 DEF PreviewAnswers, CardOK, Types
    <3>2. CASE asked.by # "form"
      <4>1. asked.request.item \in Ids  BY <2>1, RequestItems
      <4>2. PICK r \in {asked.request, NoRequest} :
              card' = [item |-> asked.request.item, request |-> asked.request,
                       accepted |-> FALSE, preview |-> r]
        BY <1>2, <3>2 DEF PreviewAnswers
      <4>3. card' \in CardType  BY <2>1, <4>1, <4>2, Zero DEF CardType
      <4> QED BY <2>1, <4>2, <4>3 DEF CardOK
    <3> QED BY <3>1, <3>2
  <2>4. AskedOK'  BY <1>2, Zero DEF PreviewAnswers, AskedOK, NoAsked
  <2> QED BY <1>2, <2>2, <2>3, <2>4 DEF PreviewAnswers, ConfirmOK, RestOK, Types
<1> QED BY <1>1, <1>2
LEMMA TypesTick ==
  ASSUME Types, NEW b \in BOOLEAN, TickForm(b) \/ TickCard(b)
  PROVE  Types'
<1>1. CASE TickForm(b)
  BY <1>1 DEF TickForm, Types, FormOK, FormType, CardOK, AskedOK, ConfirmOK, RestOK
<1>2. CASE TickCard(b)
  BY <1>2 DEF TickCard, Types, FormOK, CardOK, CardType, AskedOK, ConfirmOK, RestOK
<1> QED BY <1>1, <1>2

LEMMA TypesSend ==
  ASSUME Types, ConfirmForm \/ ApplyCard
  PROVE  Types'
<1>1. CASE ConfirmForm
  <2>1. form.pending \in RequestOrNone /\ form.pending.source # NoEntity
    BY <1>1 DEF ConfirmForm, Types, FormOK, FormType
  <2>2. ConfirmOK'  BY <1>1, <2>1, Zero DEF ConfirmForm, Send, ConfirmOK, ConfirmType
  <2> QED BY <1>1, <2>2 DEF ConfirmForm, Types, FormOK, CardOK, AskedOK, RestOK
<1>2. CASE ApplyCard
  <2>1. card.request \in RequestOrNone /\ card.request.source # NoEntity
    BY <1>2 DEF ApplyCard, Types, CardOK, CardType
  <2>2. ConfirmOK'  BY <1>2, <2>1, Zero DEF ApplyCard, Send, ConfirmOK, ConfirmType
  <2> QED BY <1>2, <2>2 DEF ApplyCard, Types, FormOK, CardOK, AskedOK, RestOK
<1> QED BY <1>1, <1>2

LEMMA TypesCli ==
  ASSUME Types, MutationWrites \/ MutationRefused \/ CheckRuns
  PROVE  Types'
<1>1. CASE MutationWrites
  <2>1. graph.version + 1 \in Versions
    BY <1>1, CurationAssumption DEF MutationWrites, Types, RestOK, Versions
  <2>2. graph' \in [entities : SUBSET Entities, version : Versions]
    BY <1>1, <2>1 DEF MutationWrites, Without, Types, RestOK
  <2>3. ConfirmOK'  BY <1>1, <2>1 DEF MutationWrites, Types, ConfirmOK, ConfirmType
  <2> QED BY <1>1, <2>2, <2>3 DEF MutationWrites, Types, FormOK, CardOK, AskedOK, RestOK
<1>2. CASE MutationRefused
  BY <1>2 DEF MutationRefused, Types, FormOK, CardOK, AskedOK, ConfirmOK, ConfirmType, RestOK
<1>3. CASE CheckRuns
  <2>1. PICK v \in {0, graph.version} :
          confirm' = [confirm EXCEPT !.step = "checked", !.checked = v]
    BY <1>3 DEF CheckRuns
  <2>2. v \in Versions  BY Zero DEF Types, RestOK
  <2>3. ConfirmOK'  BY <1>3, <2>1, <2>2 DEF CheckRuns, Types, ConfirmOK, ConfirmType
  <2> QED BY <1>3, <2>3 DEF CheckRuns, Types, FormOK, CardOK, AskedOK, RestOK
<1> QED BY <1>1, <1>2, <1>3

\* What an invalidation leaves of the list: its data, and a fetch.
LEMMA InvalidatedKeeps ==
  ASSUME NEW l \in ListType, NEW g
  PROVE  /\ Invalidated(l, g) \in ListType
         /\ Invalidated(l, g).has = l.has /\ Invalidated(l, g).version = l.version
         /\ Invalidated(l, g).joined = l.joined /\ Invalidated(l, g).failed = l.failed
         /\ Invalidated(l, g).stale
         /\ \/ /\ l.fetch # NoFetch
               /\ Invalidated(l, g).fetch = [l.fetch EXCEPT !.joined = TRUE]
            \/ /\ g = "closed" /\ l.fetch = NoFetch
               /\ Invalidated(l, g).fetch = NoFetch
            \/ Invalidated(l, g).fetch = Fetch
<1> DEFINE f == [l.fetch EXCEPT !.joined = TRUE]
<1>1. f \in FetchType /\ f = [l.fetch EXCEPT !.joined = TRUE]  BY DEF ListType, FetchType
<1>2. CASE l.fetch # NoFetch /\ (~l.has \/ g = "closed")
  <2>1. Invalidated(l, g) = [l EXCEPT !.stale = TRUE, !.fetch = f]
    BY <1>2 DEF Invalidated, ListType
  <2> HIDE DEF f
  <2> QED BY <1>1, <1>2, <2>1 DEF ListType
<1>3. CASE ~(l.fetch # NoFetch /\ (~l.has \/ g = "closed")) /\ g = "closed"
  <2>1. Invalidated(l, g) = [l EXCEPT !.stale = TRUE]  BY <1>3 DEF Invalidated
  <2> QED BY <1>3, <2>1 DEF ListType
<1>4. CASE ~(l.fetch # NoFetch /\ (~l.has \/ g = "closed")) /\ g # "closed"
  <2>1. Invalidated(l, g) = [l EXCEPT !.stale = TRUE, !.fetch = Fetch]  BY <1>4 DEF Invalidated
  <2> QED BY <2>1, Zero DEF ListType
<1> QED BY <1>2, <1>3, <1>4

LEMMA TypesAnswers ==
  ASSUME Types, ConfirmAnswers \/ ConfirmFails
  PROVE  Types'
<1>1. card \in CardType /\ confirm \in ConfirmType /\ list \in ListType
  BY DEF Types, CardOK, ConfirmOK, RestOK
<1>2. /\ CardAnswered \in CardType
      /\ CardAnswered.request = card.request /\ CardAnswered.preview = card.preview
  BY <1>1 DEF CardAnswered, CardType
<1>3. card' = CardAnswered => CardOK'  BY <1>2 DEF Types, CardOK
<1>4. confirm' = NoConfirm => ConfirmOK'  BY Zero DEF ConfirmOK, NoConfirm
<1>5. CASE ConfirmAnswers
  <2>1. result' \in [wrote : Versions, checked : Versions]
    BY <1>1, <1>5 DEF ConfirmAnswers, ConfirmType
  <2>2. list' \in ListType  BY <1>1, <1>5, InvalidatedKeeps DEF ConfirmAnswers
  <2> QED BY <1>3, <1>4, <1>5, <2>1, <2>2 DEF ConfirmAnswers, Types, FormOK, AskedOK, RestOK
<1>6. CASE ConfirmFails
  BY <1>3, <1>4, <1>6, Zero DEF ConfirmFails, Types, FormOK, AskedOK, RestOK
<1> QED BY <1>5, <1>6

LEMMA TypesList ==
  ASSUME Types, Refetch \/ ListReads \/ ListAnswers
                \/ \E g \in {"closed", "mutations", "all"} : VersionAnswers(g)
  PROVE  Types'
<1>1. list \in ListType  BY DEF Types, RestOK
<1>2. list' \in ListType
  <2>1. CASE Refetch  BY <1>1, <2>1, InvalidatedKeeps DEF Refetch
  <2>2. CASE ListReads
    <3> DEFINE f == [list.fetch EXCEPT !.step = "read", !.version = graph.version]
    <3>1. f \in FetchType  BY <1>1 DEF Types, RestOK, ListType, FetchType
    <3>2. list' = [list EXCEPT !.fetch = f]  BY <1>1, <2>2 DEF ListReads, ListType
    <3> HIDE DEF f
    <3> QED BY <1>1, <3>1, <3>2 DEF ListType
  <2>3. CASE ListAnswers
    <3>1. list.fetch \in FetchType /\ list.fetch.version \in Versions /\ list.fetch.joined \in BOOLEAN
      BY <1>1 DEF ListType, FetchType
    <3>2. CASE list' = [has |-> TRUE, version |-> list.fetch.version, stale |-> FALSE,
                        joined |-> list.fetch.joined, failed |-> FALSE, fetch |-> NoFetch]
      BY <3>1, <3>2, Zero DEF ListType
    <3>3. CASE list' = [list EXCEPT !.failed = TRUE, !.fetch = NoFetch]
      BY <1>1, <3>3, Zero DEF ListType
    <3> QED BY <2>3, <3>2, <3>3 DEF ListAnswers
  <2>4. CASE \E g \in {"closed", "mutations", "all"} : VersionAnswers(g)
    BY <1>1, <2>4, Zero DEF VersionAnswers, ListType
  <2> QED BY <2>1, <2>2, <2>3, <2>4
<1>3. UNCHANGED <<form, card, asked, confirm, result, graph>>
  BY DEF Refetch, ListReads, ListAnswers, VersionAnswers
<1>4. gate' \in {"closed", "mutations", "all"}
  BY DEF Refetch, ListReads, ListAnswers, VersionAnswers, Types, RestOK
<1> QED BY <1>2, <1>3, <1>4 DEF Types, FormOK, CardOK, AskedOK, ConfirmOK, RestOK

LEMMA TypesOthers ==
  ASSUME Types, NEW es \in SUBSET Entities, OthersWrite(es)
  PROVE  Types'
<1>1. graph' \in [entities : SUBSET Entities, version : Versions]
  BY CurationAssumption DEF OthersWrite, Types, RestOK, Versions
<1> QED BY <1>1 DEF OthersWrite, Types, FormOK, CardOK, AskedOK, ConfirmOK, RestOK
LEMMA TypesInit ==
  ASSUME Init
  PROVE  Types
<1>1. FormOK /\ CardOK  BY Zero DEF Init, FormOK, CardOK, NoForm, NoCard
<1>2. AskedOK /\ ConfirmOK  BY Zero DEF Init, AskedOK, ConfirmOK, NoAsked, NoConfirm
<1>3. RestOK  BY Zero DEF Init, RestOK, ListType
<1> QED BY <1>1, <1>2, <1>3 DEF Types

LEMMA TypesNext ==
  ASSUME Types, [Next]_vars
  PROVE  Types'
<1>1. CASE User
  BY <1>1, TypesAskForm, TypesAskCard, TypesTick, TypesSend, TypesList DEF User
<1>2. CASE Calls
  BY <1>2, TypesPreview, TypesCli, TypesAnswers, TypesList DEF Calls
<1>3. CASE \E g \in {"closed", "mutations", "all"} : VersionAnswers(g)  BY <1>3, TypesList
<1>4. CASE \E es \in SUBSET Entities : OthersWrite(es)  BY <1>4, TypesOthers
<1>5. CASE UNCHANGED vars
  BY <1>5 DEF vars, Types, FormOK, CardOK, AskedOK, ConfirmOK, RestOK
<1> QED BY <1>1, <1>2, <1>3, <1>4, <1>5 DEF Next
-----------------------------------------------------------------------------
\* The versions of the page and of the graph are numbers.
LEMMA Numbers ==
  ASSUME Types
  PROVE  /\ graph.version \in Nat /\ confirm.wrote \in Nat /\ confirm.checked \in Nat
         /\ result.wrote \in Nat /\ result.checked \in Nat
         /\ list.version \in Nat /\ list.fetch.version \in Nat
         /\ confirm \in ConfirmType /\ list \in ListType /\ list.fetch \in FetchType
BY DEF Types, ConfirmOK, ConfirmType, RestOK, ListType, FetchType, Versions

\* A step that leaves the list, the gate, the writes and the graph alone.
LEMMA FollowsStill ==
  ASSUME Follows, UNCHANGED <<gate, confirm, result, list, graph>>
  PROVE  Follows'
BY DEF Follows, WrittenIsThere, OneNoFetch, ReadIsNew, FreshIsNew, StaleIsFetched

\* A form that asks forgets the last result, and a result of nothing is followed.
LEMMA FollowsNothing ==
  ASSUME Types, Follows, Types', result' = NoResult, WrittenIsThere',
         UNCHANGED <<gate, list>>
  PROVE  Follows'
<1>1. result'.wrote = 0 /\ result'.checked = 0  BY DEF NoResult
<1>2. list.version \in Nat /\ list.fetch.version \in Nat  BY Numbers
<1> QED BY <1>1, <1>2 DEF Follows, OneNoFetch, ReadIsNew, FreshIsNew, StaleIsFetched

LEMMA FollowsWrites ==
  ASSUME Types, Follows,
         MutationWrites \/ MutationRefused \/ CheckRuns \/ ConfirmForm \/ ApplyCard
           \/ \E es \in SUBSET Entities : OthersWrite(es)
  PROVE  Follows'
<1>1. WrittenIsThere'
  <2>1. CASE MutationWrites
    <3>1. graph'.version = graph.version + 1 /\ result' = result
      BY <2>1 DEF MutationWrites, Without
    <3>2. confirm'.wrote \in {confirm.wrote, graph.version + 1} /\ confirm'.checked = confirm.checked
      BY <2>1, Numbers DEF MutationWrites, ConfirmType
    <3>3. confirm.checked = 0  BY <2>1 DEF MutationWrites, Follows, WrittenIsThere
    <3> QED BY <3>1, <3>2, <3>3, Numbers DEF Follows, WrittenIsThere
  <2>2. CASE MutationRefused
    BY <2>2, Numbers DEF MutationRefused, Follows, WrittenIsThere, ConfirmType
  <2>3. CASE CheckRuns  BY <2>3, Numbers DEF CheckRuns, Follows, WrittenIsThere, ConfirmType
  <2>4. CASE ConfirmForm \/ ApplyCard
    BY <2>4, Numbers DEF ConfirmForm, ApplyCard, Send, Follows, WrittenIsThere
  <2>5. CASE \E es \in SUBSET Entities : OthersWrite(es)
    BY <2>5, Numbers DEF OthersWrite, Follows, WrittenIsThere
  <2> QED BY <2>1, <2>2, <2>3, <2>4, <2>5
<1>2. UNCHANGED <<gate, result, list>>
  BY DEF MutationWrites, MutationRefused, CheckRuns, ConfirmForm, ApplyCard, OthersWrite
<1> QED BY <1>1, <1>2 DEF Follows, OneNoFetch, ReadIsNew, FreshIsNew, StaleIsFetched

LEMMA FollowsAnswers ==
  ASSUME Types, Follows, ConfirmAnswers
  PROVE  Follows'
<1>1. /\ list' = Invalidated(list, gate) /\ gate' = gate /\ graph' = graph
      /\ result'.wrote = confirm.wrote /\ result'.checked = confirm.checked
      /\ confirm'.wrote = 0 /\ confirm'.checked = 0
  BY DEF ConfirmAnswers, NoConfirm
<1>2. WrittenIsThere'  BY <1>1, Numbers DEF Follows, WrittenIsThere
<1>3. list'.stale  BY <1>1, Numbers, InvalidatedKeeps
<1>4. CASE list.fetch # NoFetch /\ list'.fetch = [list.fetch EXCEPT !.joined = TRUE]
  <2>1. list'.fetch.joined /\ list'.fetch # NoFetch /\ list'.fetch.step = list.fetch.step
    BY <1>4, Numbers DEF FetchType, NoFetch
  <2> QED BY <1>2, <1>3, <1>4, <2>1
          DEF Follows, OneNoFetch, ReadIsNew, FreshIsNew, StaleIsFetched
<1>5. CASE gate = "closed" /\ list'.fetch = NoFetch
  BY <1>1, <1>2, <1>3, <1>5 DEF Follows, OneNoFetch, ReadIsNew, FreshIsNew, StaleIsFetched, NoFetch
<1>6. CASE list'.fetch = Fetch
  BY <1>2, <1>3, <1>6
     DEF Follows, OneNoFetch, ReadIsNew, FreshIsNew, StaleIsFetched, NoFetch, Fetch
<1> QED BY <1>1, <1>4, <1>5, <1>6, Numbers, InvalidatedKeeps

LEMMA FollowsRefetch ==
  ASSUME Types, Follows, Refetch
  PROVE  Follows'
<1>1. /\ list' = Invalidated(list, gate) /\ gate' = gate /\ gate # "closed"
      /\ UNCHANGED <<confirm, result, graph>>
  BY DEF Refetch
<1>2. WrittenIsThere'  BY <1>1 DEF Follows, WrittenIsThere
<1>3. list'.stale  BY <1>1, Numbers, InvalidatedKeeps
<1>4. CASE list.fetch # NoFetch /\ list'.fetch = [list.fetch EXCEPT !.joined = TRUE]
  <2>1. list'.fetch.joined /\ list'.fetch # NoFetch /\ list'.fetch.step = list.fetch.step
    BY <1>4, Numbers DEF FetchType, NoFetch
  <2> QED BY <1>2, <1>3, <1>4, <2>1
          DEF Follows, OneNoFetch, ReadIsNew, FreshIsNew, StaleIsFetched
<1>5. CASE list'.fetch = Fetch
  BY <1>2, <1>3, <1>5
     DEF Follows, OneNoFetch, ReadIsNew, FreshIsNew, StaleIsFetched, NoFetch, Fetch
<1> QED BY <1>1, <1>4, <1>5, Numbers, InvalidatedKeeps

LEMMA FollowsReads ==
  ASSUME Types, Follows, ListReads
  PROVE  Follows'
<1> DEFINE f == [list.fetch EXCEPT !.step = "read", !.version = graph.version]
<1>1. f.step = "read" /\ f.version = graph.version /\ f # NoFetch
  BY Numbers DEF FetchType, NoFetch
<1>2. list' = [list EXCEPT !.fetch = f]  BY Numbers DEF ListReads, ListType
<1> HIDE DEF f
<1>3. list'.fetch = f  BY <1>2, Numbers DEF ListType
<1>4. UNCHANGED <<gate, confirm, result, graph>>  BY DEF ListReads
<1> QED BY <1>1, <1>3, <1>4
        DEF Follows, WrittenIsThere, OneNoFetch, ReadIsNew, FreshIsNew, StaleIsFetched

LEMMA FollowsListAnswers ==
  ASSUME Types, Follows, ListAnswers
  PROVE  Follows'
<1>1. UNCHANGED <<gate, confirm, result, graph>> /\ list.fetch.step = "read"  BY DEF ListAnswers
<1>2. CASE list' = [has |-> TRUE, version |-> list.fetch.version, stale |-> FALSE,
                    joined |-> list.fetch.joined, failed |-> FALSE, fetch |-> NoFetch]
  BY <1>1, <1>2
     DEF Follows, WrittenIsThere, OneNoFetch, ReadIsNew, FreshIsNew, StaleIsFetched, NoFetch
<1>3. CASE list' = [list EXCEPT !.failed = TRUE, !.fetch = NoFetch]
  <2>1. list'.failed /\ list'.fetch = NoFetch  BY <1>3, Numbers DEF ListType
  <2> QED BY <1>1, <2>1
          DEF Follows, WrittenIsThere, OneNoFetch, ReadIsNew, FreshIsNew, StaleIsFetched, NoFetch
<1> QED BY <1>2, <1>3 DEF ListAnswers

LEMMA FollowsVersion ==
  ASSUME Types, Follows, NEW g \in {"closed", "mutations", "all"}, VersionAnswers(g)
  PROVE  Follows'
<1>1. UNCHANGED <<confirm, result, graph>> /\ gate' = g  BY DEF VersionAnswers
<1>2. CASE gate = "closed" /\ (~list.has \/ list.stale) /\ list.fetch = NoFetch
  <2>1. list'.fetch = Fetch  BY <1>2, Numbers DEF VersionAnswers, ListType
  <2> QED BY <1>1, <2>1
          DEF Follows, WrittenIsThere, OneNoFetch, ReadIsNew, FreshIsNew, StaleIsFetched,
              NoFetch, Fetch
<1>3. CASE ~(gate = "closed" /\ (~list.has \/ list.stale) /\ list.fetch = NoFetch)
  <2>1. list' = list  BY <1>3 DEF VersionAnswers
  <2> QED BY <1>1, <1>3, <2>1
          DEF Follows, WrittenIsThere, OneNoFetch, ReadIsNew, FreshIsNew, StaleIsFetched
<1> QED BY <1>2, <1>3

LEMMA FollowsUser ==
  ASSUME Types, Follows, Types', User
  PROVE  Follows'
<1>1. CASE \E r \in Requests : AskForm(r)
  <2>1. WrittenIsThere'  BY <1>1, Numbers DEF AskForm, NoResult, Follows, WrittenIsThere
  <2> QED BY <1>1, <2>1, FollowsNothing DEF AskForm
<1>2. CASE \E i \in Items, c \in ReviewActions : AskCard(i, c)
  BY <1>2, FollowsStill DEF AskCard
<1>3. CASE \E b \in BOOLEAN : TickForm(b) \/ TickCard(b)
  BY <1>3, FollowsStill DEF TickForm, TickCard
<1>4. CASE ConfirmForm \/ ApplyCard  BY <1>4, FollowsWrites
<1>5. CASE Refetch  BY <1>5, FollowsRefetch
<1> QED BY <1>1, <1>2, <1>3, <1>4, <1>5 DEF User

LEMMA FollowsNext ==
  ASSUME Types, Follows, Types', [Next]_vars
  PROVE  Follows'
<1>1. CASE User  BY <1>1, FollowsUser
<1>2. CASE Calls
  <2>1. CASE PreviewRuns \/ PreviewAnswers
    BY <2>1, FollowsStill DEF PreviewRuns, PreviewAnswers
  <2>2. CASE MutationWrites \/ MutationRefused \/ CheckRuns  BY <2>2, FollowsWrites
  <2>3. CASE ConfirmAnswers  BY <2>3, FollowsAnswers
  <2>4. CASE ConfirmFails
    <3>1. WrittenIsThere'
      BY <2>4, Numbers DEF ConfirmFails, NoResult, NoConfirm, Follows, WrittenIsThere
    <3> QED BY <2>4, <3>1, FollowsNothing DEF ConfirmFails
  <2>5. CASE ListReads  BY <2>5, FollowsReads
  <2>6. CASE ListAnswers  BY <2>6, FollowsListAnswers
  <2> QED BY <1>2, <2>1, <2>2, <2>3, <2>4, <2>5, <2>6 DEF Calls
<1>3. CASE \E g \in {"closed", "mutations", "all"} : VersionAnswers(g)  BY <1>3, FollowsVersion
<1>4. CASE \E es \in SUBSET Entities : OthersWrite(es)  BY <1>4, FollowsWrites
<1>5. CASE UNCHANGED vars  BY <1>5, FollowsStill DEF vars
<1> QED BY <1>1, <1>2, <1>3, <1>4, <1>5 DEF Next

LEMMA FollowsInit ==
  ASSUME Init
  PROVE  Follows
BY DEF Init, NoConfirm, NoResult, NoFetch, Follows, WrittenIsThere, OneNoFetch, ReadIsNew,
       FreshIsNew, StaleIsFetched
-----------------------------------------------------------------------------
\* IInv holds throughout: the sections of EntityGraph ask, accept and confirm
\* what they show, and a write is followed by a fetch.
THEOREM Inductive == Spec => []IInv
<1>1. Init => IInv  BY TypesInit, FollowsInit DEF IInv
<1>2. IInv /\ [Next]_vars => IInv'
  <2> SUFFICES ASSUME IInv, [Next]_vars PROVE IInv'  OBVIOUS
  <2>1. Types'  BY TypesNext DEF IInv
  <2>2. Follows'  BY <2>1, FollowsNext DEF IInv
  <2> QED BY <2>1, <2>2 DEF IInv
<1> QED BY <1>1, <1>2, PTL DEF Spec

\* The state of EntityGraph and of its mutations stays in its domains.
THEOREM TypeCorrect == Spec => []TypeOK
<1>1. IInv => TypeOK  BY TypesGive DEF IInv
<1> QED BY <1>1, Inductive, PTL

\* The confirm button sends the request whose preview the page shows.
THEOREM ConfirmsShown == Spec => []ConfirmsWhatIsShown
<1>1. IInv => ConfirmsWhatIsShown  BY TypesGive DEF IInv
<1> QED BY <1>1, Inductive, PTL

\* The entity list follows a confirmed write, and a good check is of a graph
\* that has it (useEntityMutationConfirm).
THEOREM ListFollowsWrites == Spec => []ShownFollowsWrites
<1>1. IInv => ShownFollowsWrites
  BY DEF IInv, Follows, WrittenIsThere, FreshIsNew, StaleIsFetched, ShownFollowsWrites
<1> QED BY <1>1, Inductive, PTL
-----------------------------------------------------------------------------
(* The repair of the index.  What a post-check judges is read after the      *)
(* repair: an issue is checked only when its repair has run (Repairs), and a *)
(* fetch that was answered while a check waits began after it (ReadAfterAsk).*)
PanelType == [selected : Issues \cup {NoIssue}, planOf : Issues \cup {NoIssue},
              dryOf : Issues \cup {NoIssue}, confirmed : BOOLEAN, ticked : Issues \cup {NoIssue},
              applied : Issues \cup {NoIssue}, post : Doctor!Judgements]
AuditType == [fetch : {"no", "asked", "read"}, has : BOOLEAN, data : Doctor!Findings,
              read : Doctor!Findings]
ApplyType == [n : 1..MaxApplies, issue : Issues, ran : BOOLEAN]

\* What the tick in the box, the result and the judgement on the panel say.
PanelOK ==
  /\ panel \in PanelType
  /\ panel.confirmed => panel.ticked = panel.selected /\ panel.dryOf = panel.selected
  /\ panel.applied \in repaired \cup {NoIssue}
  /\ panel.post.shown /\ panel.post.fresh => panel.post.after

Repairs ==
  /\ applies \subseteq ApplyType
  /\ \A a \in applies : a.ran => a.issue \in repaired
  /\ checks \subseteq repaired /\ repaired \subseteq Issues

AuditOK ==
  /\ audit \in AuditType
  /\ audit.fetch = "read" => checks \subseteq audit.read.after

CachesOK ==
  /\ planned \subseteq Issues /\ dry \in [Issues -> {"none", "good", "bad"}] /\ dryAsked \in BOOLEAN
  /\ broken \subseteq Issues
  /\ sent \in 0..MaxApplies /\ breaks \in 0..MaxBreaks

DoctorInv == PanelOK /\ Repairs /\ AuditOK /\ CachesOK

LEMMA DoctorGives ==
  ASSUME DoctorInv
  PROVE  Doctor!TypeOK /\ Doctor!JudgedAfterRepair
<1>1. Doctor!JudgedAfterRepair  BY DEF DoctorInv, PanelOK, Doctor!JudgedAfterRepair
<1>2. panel \in PanelType /\ audit \in AuditType /\ applies \subseteq ApplyType
  BY DEF DoctorInv, PanelOK, AuditOK, Repairs
<1>3. Doctor!TypeOK
  BY <1>2 DEF DoctorInv, PanelOK, Repairs, AuditOK, CachesOK, PanelType, AuditType, ApplyType,
              Doctor!TypeOK
<1> QED BY <1>1, <1>3

LEMMA NoFindings ==
  /\ Doctor!Finding({}, {}) \in Doctor!Findings
  /\ Doctor!NoPost \in Doctor!Judgements /\ ~Doctor!NoPost.shown
  /\ Doctor!NoPanel \in PanelType
  /\ ~Doctor!NoPanel.confirmed /\ Doctor!NoPanel.applied = NoIssue
  /\ Doctor!NoPanel.post = Doctor!NoPost
<1>1. Doctor!NoPost \in Doctor!Judgements /\ ~Doctor!NoPost.shown
  BY DEF Doctor!NoPost, Doctor!Judgement, Doctor!Judgements
<1>2. Doctor!Finding({}, {}) \in Doctor!Findings  BY DEF Doctor!Finding, Doctor!Findings
<1> QED BY <1>1, <1>2 DEF Doctor!NoPanel, PanelType

\* A panel that forgot what followed a step is a panel without a tick.
LEMMA ForgetKeeps ==
  ASSUME NEW p \in PanelType
  PROVE  /\ Doctor!Forget(p) \in PanelType
         /\ ~Doctor!Forget(p).confirmed /\ Doctor!Forget(p).applied = NoIssue
         /\ Doctor!Forget(p).post = Doctor!NoPost
<1> DEFINE a == [p EXCEPT !.confirmed = FALSE]
           b == [a EXCEPT !.ticked = NoIssue]
           c == [b EXCEPT !.applied = NoIssue]
           d == [c EXCEPT !.post = Doctor!NoPost]
<1>1. d \in PanelType /\ ~d.confirmed /\ d.applied = NoIssue /\ d.post = Doctor!NoPost
  BY NoFindings DEF PanelType
<1>2. Doctor!Forget(p) = d  BY NoFindings DEF Doctor!Forget, PanelType
<1> QED BY <1>1, <1>2

LEMMA RefetchedKeeps ==
  ASSUME NEW q \in AuditType
  PROVE  Doctor!Refetched(q) \in AuditType /\ Doctor!Refetched(q).fetch = "asked"
<1> DEFINE a == [q EXCEPT !.fetch = "asked"]
           b == [a EXCEPT !.read = Doctor!Finding({}, {})]
<1>1. b \in AuditType /\ b.fetch = "asked"  BY NoFindings DEF AuditType
<1>2. Doctor!Refetched(q) = b  BY NoFindings DEF Doctor!Refetched, AuditType
<1> QED BY <1>1, <1>2

LEMMA DoctorStarts == Doctor!Init => DoctorInv
<1> SUFFICES ASSUME Doctor!Init PROVE DoctorInv  OBVIOUS
<1>1. PanelOK  BY NoFindings DEF Doctor!Init, PanelOK
<1>2. AuditOK  BY NoFindings DEF Doctor!Init, AuditOK, AuditType
<1>3. /\ applies = {} /\ checks = {} /\ repaired = {} /\ planned = {} /\ dryAsked = FALSE
      /\ dry = [i \in Issues |-> "none"] /\ broken \in SUBSET Issues /\ sent = 0 /\ breaks = 0
  BY DEF Doctor!Init
<1>4. Repairs  BY <1>3 DEF Repairs
<1>5. 0 \in 0..MaxApplies /\ 0 \in 0..MaxBreaks  BY DoctorAssumption
<1>6. CachesOK  BY <1>3, <1>5 DEF CachesOK
<1> QED BY <1>1, <1>2, <1>4, <1>6 DEF DoctorInv

\* The steps of the user that show another part of the panel.
LEMMA PanelAsks ==
  ASSUME DoctorInv,
         \/ \E i \in Issues : Doctor!SelectIssue(i)
         \/ Doctor!AskPlan \/ Doctor!AskDryRun \/ (\E on \in BOOLEAN : Doctor!Tick(on))
  PROVE  DoctorInv'
<1> DEFINE q == Doctor!Forget(panel)
<1>1. panel \in PanelType /\ panel.selected \in Issues \cup {NoIssue}
  BY DEF DoctorInv, PanelOK, PanelType
<1>2. q \in PanelType /\ ~q.confirmed /\ q.applied = NoIssue /\ ~q.post.shown
  BY <1>1, ForgetKeeps, NoFindings
<1>3. UNCHANGED <<audit, planned, dry, applies, checks, broken, repaired, sent, breaks>>
  BY DEF Doctor!SelectIssue, Doctor!AskPlan, Doctor!AskDryRun, Doctor!Tick
<1>4. Repairs' /\ AuditOK'  BY <1>3 DEF DoctorInv, Repairs, AuditOK
<1>5. PanelOK' /\ dryAsked' \in BOOLEAN
  <2>1. CASE \E i \in Issues : Doctor!SelectIssue(i)
    <3>1. PICK i \in Issues : Doctor!SelectIssue(i)  BY <2>1
    <3> DEFINE a == [q EXCEPT !.selected = i]
               b == [a EXCEPT !.planOf = NoIssue]
               c == [b EXCEPT !.dryOf = NoIssue]
    <3>2. c \in PanelType /\ ~c.confirmed /\ c.applied = NoIssue /\ ~c.post.shown
      BY <1>2 DEF PanelType
    <3>3. panel' = c  BY <3>1, <1>2 DEF Doctor!SelectIssue, PanelType
    <3>4. dryAsked' = FALSE  BY <3>1 DEF Doctor!SelectIssue
    <3> HIDE DEF c, q
    <3> QED BY <3>2, <3>3, <3>4 DEF PanelOK
  <2>2. CASE Doctor!AskPlan
    <3> DEFINE a == [q EXCEPT !.planOf = panel.selected]
               b == [a EXCEPT !.dryOf = NoIssue]
    <3>2. b \in PanelType /\ ~b.confirmed /\ b.applied = NoIssue /\ ~b.post.shown
      BY <1>1, <1>2 DEF PanelType
    <3>3. panel' = b  BY <2>2, <1>2 DEF Doctor!AskPlan, PanelType
    <3>4. dryAsked' = FALSE  BY <2>2 DEF Doctor!AskPlan
    <3> HIDE DEF b, q
    <3> QED BY <3>2, <3>3, <3>4 DEF PanelOK
  <2>3. CASE Doctor!AskDryRun
    <3> DEFINE a == [q EXCEPT !.dryOf = panel.selected]
    <3>2. a \in PanelType /\ ~a.confirmed /\ a.applied = NoIssue /\ ~a.post.shown
      BY <1>1, <1>2 DEF PanelType
    <3>3. panel' = a  BY <2>3, <1>2 DEF Doctor!AskDryRun
    <3>4. dryAsked' \in BOOLEAN  BY <2>3 DEF Doctor!AskDryRun
    <3> HIDE DEF a, q
    <3> QED BY <3>2, <3>3, <3>4 DEF PanelOK
  <2>4. CASE \E on \in BOOLEAN : Doctor!Tick(on)
    <3>1. PICK on \in BOOLEAN : Doctor!Tick(on)  BY <2>4
    <3> DEFINE k == IF on THEN panel.dryOf ELSE NoIssue
               a == [panel EXCEPT !.confirmed = on]
               b == [a EXCEPT !.ticked = k]
    <3>2. k \in Issues \cup {NoIssue}  BY <1>1 DEF PanelType
    <3>3. /\ b \in PanelType /\ b.confirmed = on /\ b.ticked = k /\ b.selected = panel.selected
          /\ b.dryOf = panel.dryOf /\ b.applied = panel.applied /\ b.post = panel.post
      BY <1>1, <3>2 DEF PanelType
    <3>4. panel' = b /\ panel.selected = panel.dryOf
      BY <1>1, <3>1 DEF Doctor!Tick, Doctor!DryRunSuccess, PanelType
    <3>5. dryAsked' = dryAsked  BY <3>1 DEF Doctor!Tick
    <3> HIDE DEF b
    <3> QED BY <1>3, <3>3, <3>4, <3>5 DEF DoctorInv, PanelOK, CachesOK
  <2> QED BY <2>1, <2>2, <2>3, <2>4
<1> QED BY <1>3, <1>4, <1>5 DEF DoctorInv, CachesOK

\* The repair runs, answers or fails.
LEMMA ApplySteps ==
  ASSUME DoctorInv,
         Doctor!Apply \/ \E a \in applies : Doctor!ApplyRuns(a) \/ Doctor!ApplyAnswers(a) \/ Doctor!ApplyFails(a)
  PROVE  DoctorInv'
<1>1. /\ panel \in PanelType /\ audit \in AuditType /\ applies \subseteq ApplyType
      /\ repaired \subseteq Issues /\ sent \in 0..MaxApplies
  BY DEF DoctorInv, PanelOK, AuditOK, Repairs, CachesOK
<1>2. CASE Doctor!Apply
  <2> DEFINE a == [n |-> sent', issue |-> panel.selected, ran |-> FALSE]
  <2>1. sent' \in 1..MaxApplies /\ sent' \in 0..MaxApplies
    BY <1>1, <1>2, DoctorAssumption DEF Doctor!Apply
  <2>2. panel.selected \in Issues  BY <1>1, <1>2 DEF Doctor!Apply, Doctor!ShowsPlan, PanelType
  <2>3. a \in ApplyType /\ ~a.ran  BY <2>1, <2>2 DEF ApplyType
  <2>4. applies' = applies \cup {a}  BY <1>2 DEF Doctor!Apply
  <2>5. UNCHANGED <<panel, audit, planned, dry, dryAsked, checks, broken, repaired, breaks>>
    BY <1>2 DEF Doctor!Apply
  <2> HIDE DEF a
  <2>6. Repairs'  BY <2>3, <2>4, <2>5 DEF DoctorInv, Repairs
  <2>7. PanelOK' /\ AuditOK'  BY <2>5 DEF DoctorInv, PanelOK, AuditOK
  <2> QED BY <2>1, <2>5, <2>6, <2>7 DEF DoctorInv, CachesOK
<1>3. CASE \E a \in applies : Doctor!ApplyRuns(a)
  <2>1. PICK a \in applies : Doctor!ApplyRuns(a)  BY <1>3
  <2> DEFINE b == [a EXCEPT !.ran = TRUE]
  <2>2. b \in ApplyType /\ b.issue = a.issue /\ a.issue \in Issues  BY <1>1 DEF ApplyType
  <2>3. /\ applies' = (applies \ {a}) \cup {b} /\ repaired' = repaired \cup {a.issue}
        /\ broken' \in {broken, broken \ {a.issue}}
        /\ UNCHANGED <<panel, audit, planned, dry, dryAsked, checks, sent, breaks>>
    BY <2>1 DEF Doctor!ApplyRuns
  <2> HIDE DEF b
  <2>4. Repairs'  BY <2>2, <2>3 DEF DoctorInv, Repairs
  <2>5. PanelOK' /\ AuditOK'  BY <2>3 DEF DoctorInv, PanelOK, AuditOK
  <2> QED BY <2>3, <2>4, <2>5 DEF DoctorInv, CachesOK
<1>4. CASE \E a \in applies : Doctor!ApplyAnswers(a)
  <2>1. PICK a \in applies : Doctor!ApplyAnswers(a)  BY <1>4
  <2>2. a.ran /\ a.issue \in Issues /\ a.issue \in repaired
    BY <1>1, <2>1 DEF Doctor!ApplyAnswers, DoctorInv, Repairs, ApplyType
  <2>3. /\ applies' = applies \ {a} /\ audit' = Doctor!Refetched(audit)
        /\ dryAsked' \in BOOLEAN
        /\ UNCHANGED <<planned, dry, checks, broken, repaired, sent, breaks>>
    BY <2>1 DEF Doctor!ApplyAnswers
  <2>4. AuditOK'  BY <1>1, <2>3, RefetchedKeeps DEF AuditOK
  <2>5. PanelOK'
    <3>1. CASE a.n = sent
      <4> DEFINE p == [panel EXCEPT !.applied = a.issue]
                 q == [p EXCEPT !.post = Doctor!NoPost]
      <4>1. /\ q \in PanelType /\ q.confirmed = panel.confirmed /\ q.ticked = panel.ticked
            /\ q.selected = panel.selected /\ q.dryOf = panel.dryOf /\ q.applied = a.issue
            /\ ~q.post.shown
        BY <1>1, <2>2, NoFindings DEF PanelType
      <4>2. panel' = q  BY <1>1, <2>1, <3>1 DEF Doctor!ApplyAnswers, PanelType
      <4> HIDE DEF q
      <4> QED BY <2>2, <2>3, <4>1, <4>2 DEF DoctorInv, PanelOK
    <3>2. CASE a.n # sent
      <4>1. panel' = panel  BY <2>1, <3>2 DEF Doctor!ApplyAnswers
      <4> QED BY <2>3, <4>1 DEF DoctorInv, PanelOK
    <3> QED BY <3>1, <3>2
  <2>6. Repairs'  BY <2>3 DEF DoctorInv, Repairs
  <2> QED BY <2>3, <2>4, <2>5, <2>6 DEF DoctorInv, CachesOK
<1>5. CASE \E a \in applies : Doctor!ApplyFails(a)
  <2>1. PICK a \in applies : Doctor!ApplyFails(a)  BY <1>5
  <2>2. /\ applies' = applies \ {a}
        /\ UNCHANGED <<panel, audit, planned, dry, dryAsked, checks, broken, repaired, sent, breaks>>
    BY <2>1 DEF Doctor!ApplyFails
  <2> QED BY <2>2 DEF DoctorInv, PanelOK, Repairs, AuditOK, CachesOK
<1> QED BY <1>2, <1>3, <1>4, <1>5

\* What a judgement leaves of the panel: its result, and a post-check that was
\* fresh only when every issue that waited had been repaired before the look.
LEMMA JudgesKeeps ==
  ASSUME DoctorInv, NEW found \in Doctor!Findings, NEW fresh \in BOOLEAN,
         fresh => checks \subseteq found.after,
         Doctor!Judges(found, fresh), repaired' = repaired
  PROVE  PanelOK' /\ checks' = {}
<1>1. panel \in PanelType  BY DEF DoctorInv, PanelOK
<1>2. checks' = {}  BY DEF Doctor!Judges
<1>3. CASE checks = {}
  <2>1. panel' = panel  BY <1>3 DEF Doctor!Judges
  <2> QED BY <1>2, <2>1 DEF DoctorInv, PanelOK
<1>4. CASE checks # {}
  <2>1. PICK i \in checks : panel' = [panel EXCEPT !.post =
                 Doctor!Judgement(i \notin found.issues, fresh, i \in found.after)]
    BY <1>4 DEF Doctor!Judges
  <2> DEFINE j == Doctor!Judgement(i \notin found.issues, fresh, i \in found.after)
             q == [panel EXCEPT !.post = j]
  <2>2. j \in Doctor!Judgements /\ (j.fresh => j.after)
    BY DEF Doctor!Judgement, Doctor!Judgements
  <2> HIDE DEF j
  <2>3. /\ q \in PanelType /\ q.confirmed = panel.confirmed /\ q.ticked = panel.ticked
        /\ q.selected = panel.selected /\ q.dryOf = panel.dryOf /\ q.applied = panel.applied
        /\ q.post = j
    BY <1>1, <2>2 DEF PanelType
  <2>4. panel' = q  BY <2>1 DEF j
  <2> HIDE DEF q
  <2> QED BY <1>2, <2>2, <2>3, <2>4 DEF DoctorInv, PanelOK
<1> QED BY <1>2, <1>3, <1>4

\* A post-check and the audit it waits for.
LEMMA AuditSteps ==
  ASSUME DoctorInv,
         \/ Doctor!AskPostCheck \/ Doctor!AuditRuns \/ Doctor!AuditAnswers \/ Doctor!AuditFails
         \/ Doctor!Retry
  PROVE  DoctorInv'
<1>1. /\ audit \in AuditType /\ audit.data \in Doctor!Findings /\ audit.read \in Doctor!Findings
      /\ repaired \subseteq Issues /\ broken \subseteq Issues
  BY DEF DoctorInv, AuditOK, AuditType, Repairs, CachesOK
<1>2. CASE Doctor!AskPostCheck \/ Doctor!Retry
  <2>1. /\ audit' = Doctor!Refetched(audit) /\ dryAsked' \in BOOLEAN
        /\ checks' \in {checks, checks \cup {panel.applied}} /\ (checks' # checks => panel.applied # NoIssue)
        /\ UNCHANGED <<panel, planned, dry, applies, broken, repaired, sent, breaks>>
    BY <1>2 DEF Doctor!AskPostCheck, Doctor!Retry, DoctorInv, CachesOK
  <2>2. AuditOK'  BY <1>1, <2>1, RefetchedKeeps DEF AuditOK
  <2>3. Repairs'  BY <2>1 DEF DoctorInv, Repairs, PanelOK
  <2>4. PanelOK'  BY <2>1 DEF DoctorInv, PanelOK
  <2> QED BY <2>1, <2>2, <2>3, <2>4 DEF DoctorInv, CachesOK
<1>3. CASE Doctor!AuditRuns
  <2> DEFINE f == Doctor!Finding(broken, repaired)
             a == [audit EXCEPT !.fetch = "read"]
             b == [a EXCEPT !.read = f]
  <2>1. f \in Doctor!Findings /\ f.after = repaired  BY <1>1 DEF Doctor!Finding, Doctor!Findings
  <2> HIDE DEF f
  <2>2. b \in AuditType /\ b.read = f  BY <1>1, <2>1 DEF AuditType
  <2>3. audit' = b  BY <1>1, <1>3 DEF Doctor!AuditRuns, AuditType, f
  <2>4. UNCHANGED <<panel, planned, dry, dryAsked, applies, checks, broken, repaired, sent, breaks>>
    BY <1>3 DEF Doctor!AuditRuns
  <2> HIDE DEF b
  <2>5. AuditOK'  BY <2>1, <2>2, <2>3, <2>4 DEF DoctorInv, Repairs, AuditOK
  <2> QED BY <2>4, <2>5 DEF DoctorInv, PanelOK, Repairs, CachesOK
<1>4. CASE Doctor!AuditAnswers
  <2> DEFINE a == [audit EXCEPT !.fetch = "no"]
             b == [a EXCEPT !.has = TRUE]
             c == [b EXCEPT !.data = audit.read]
             d == [c EXCEPT !.read = Doctor!Finding({}, {})]
  <2>1. d \in AuditType /\ d.fetch = "no"  BY <1>1, NoFindings DEF AuditType
  <2>2. audit' = d  BY <1>1, <1>4 DEF Doctor!AuditAnswers, AuditType
  <2>3. UNCHANGED <<planned, dry, dryAsked, applies, broken, repaired, sent, breaks>>
    BY <1>4 DEF Doctor!AuditAnswers
  <2>4. PanelOK' /\ checks' = {}
    <3>1. checks \subseteq audit.read.after  BY <1>4 DEF Doctor!AuditAnswers, DoctorInv, AuditOK
    <3>2. Doctor!Judges(audit.read, TRUE)  BY <1>4 DEF Doctor!AuditAnswers
    <3> QED BY <1>1, <2>3, <3>1, <3>2, JudgesKeeps
  <2> HIDE DEF d
  <2>5. AuditOK'  BY <2>1, <2>2 DEF AuditOK
  <2> QED BY <2>3, <2>4, <2>5 DEF DoctorInv, Repairs, CachesOK
<1>5. CASE Doctor!AuditFails
  <2> DEFINE a == [audit EXCEPT !.fetch = "no"]
             d == [a EXCEPT !.read = Doctor!Finding({}, {})]
  <2>1. d \in AuditType /\ d.fetch = "no"  BY <1>1, NoFindings DEF AuditType
  <2>2. audit' = d  BY <1>1, <1>5 DEF Doctor!AuditFails, AuditType
  <2>3. UNCHANGED <<planned, dry, dryAsked, applies, broken, repaired, sent, breaks>>
    BY <1>5 DEF Doctor!AuditFails
  <2>4. PanelOK' /\ checks' = {}
    <3>1. Doctor!Judges(audit.data, FALSE)  BY <1>5 DEF Doctor!AuditFails
    <3> QED BY <1>1, <2>3, <3>1, JudgesKeeps
  <2> HIDE DEF d
  <2>5. AuditOK'  BY <2>1, <2>2 DEF AuditOK
  <2> QED BY <2>3, <2>4, <2>5 DEF DoctorInv, Repairs, CachesOK
<1> QED BY <1>2, <1>3, <1>4, <1>5

\* The answers to the panel's questions, and what other programs do.
LEMMA CacheSteps ==
  ASSUME DoctorInv, Doctor!PlanAnswers \/ Doctor!DryRunAnswers \/ Doctor!ElsewhereChanges
  PROVE  DoctorInv'
<1>1. UNCHANGED <<panel, audit, applies, checks, repaired, sent>>
  BY DEF Doctor!PlanAnswers, Doctor!DryRunAnswers, Doctor!ElsewhereChanges
<1>2. PanelOK' /\ Repairs' /\ AuditOK'  BY <1>1 DEF DoctorInv, PanelOK, Repairs, AuditOK
<1>3. CASE Doctor!PlanAnswers
  <2>1. panel.planOf \in Issues  BY <1>3 DEF Doctor!PlanAnswers, DoctorInv, PanelOK, PanelType
  <2> QED BY <1>2, <1>3, <2>1 DEF Doctor!PlanAnswers, DoctorInv, CachesOK
<1>4. CASE Doctor!DryRunAnswers
  <2>1. PICK r \in {"good", "bad", dry[panel.dryOf]} : dry' = [dry EXCEPT ![panel.dryOf] = r]
    BY <1>4 DEF Doctor!DryRunAnswers
  <2>2. dry' \in [Issues -> {"none", "good", "bad"}]  BY <2>1 DEF DoctorInv, CachesOK
  <2> QED BY <1>2, <1>4, <2>2 DEF Doctor!DryRunAnswers, DoctorInv, CachesOK
<1>5. CASE Doctor!ElsewhereChanges
  <2>1. breaks' \in 0..MaxBreaks
    BY <1>5, DoctorAssumption DEF Doctor!ElsewhereChanges, DoctorInv, CachesOK
  <2>2. broken' \subseteq Issues  BY <1>5 DEF Doctor!ElsewhereChanges, DoctorInv, CachesOK
  <2> QED BY <1>1, <1>2, <1>5, <2>1, <2>2 DEF Doctor!ElsewhereChanges, DoctorInv, CachesOK
<1> QED BY <1>3, <1>4, <1>5

LEMMA DoctorSteps ==
  ASSUME DoctorInv, Doctor!Next \/ UNCHANGED doctorVars
  PROVE  DoctorInv'
<1>1. CASE Doctor!Next
  BY <1>1, PanelAsks, ApplySteps, AuditSteps, CacheSteps DEF Doctor!Next, Doctor!Clicks, Doctor!Answers
<1>2. CASE UNCHANGED doctorVars
  BY <1>2 DEF doctorVars, DoctorInv, PanelOK, Repairs, AuditOK, CachesOK
<1> QED BY <1>1, <1>2

-----------------------------------------------------------------------------
\* The diagnostic center: whichever child it shows, each page keeps its own
\* invariant and leaves the other's state alone.
CenterInv == IInv /\ DoctorInv

\* The invariant of the two maintenance pages holds in every behaviour.
THEOREM CenterInductive == CenterSpec => []CenterInv
<1>1. CenterInit => CenterInv
  BY TypesInit, FollowsInit, DoctorStarts DEF CenterInit, CenterInv, IInv
<1>2. CenterInv /\ [CenterNext]_allVars => CenterInv'
  <2> SUFFICES ASSUME CenterInv, [CenterNext]_allVars PROVE CenterInv'  OBVIOUS
  <2>1. [Next]_vars /\ (Doctor!Next \/ UNCHANGED doctorVars)
    BY DEF CenterNext, allVars, vars, doctorVars
  <2>2. Types'  BY <2>1, TypesNext DEF CenterInv, IInv
  <2>3. Follows'  BY <2>1, <2>2, FollowsNext DEF CenterInv, IInv
  <2>4. DoctorInv'  BY <2>1, DoctorSteps DEF CenterInv
  <2> QED BY <2>2, <2>3, <2>4 DEF CenterInv, IInv
<1> QED BY <1>1, <1>2, PTL DEF CenterSpec

\* The state of the diagnostic center stays in its domains, and the box under
\* an apply button was ticked over the dry run of the issue it repairs.
THEOREM CenterTypesCorrect == CenterSpec => []CenterTypeOK
<1>1. CenterInv => CenterTypeOK  BY TypesGive, DoctorGives DEF CenterInv, IInv, CenterTypeOK
<1> QED BY <1>1, CenterInductive, PTL

\* In the diagnostic center too, the confirm button of the entity page sends
\* the request whose preview the page shows.
THEOREM CenterConfirmsShown == CenterSpec => []ConfirmsWhatIsShown
<1>1. CenterInv => ConfirmsWhatIsShown  BY TypesGive DEF CenterInv, IInv
<1> QED BY <1>1, CenterInductive, PTL

\* In the diagnostic center too, the entity list follows a confirmed write.
THEOREM CenterListFollows == CenterSpec => []ShownFollowsWrites
<1>1. CenterInv => ShownFollowsWrites
  BY DEF CenterInv, IInv, Follows, WrittenIsThere, FreshIsNew, StaleIsFetched, ShownFollowsWrites
<1> QED BY <1>1, CenterInductive, PTL

\* A post-check whose refetch was answered judged an audit that the CLI made
\* after it had repaired the issue (handlePostCheck of IndexDiagnostics).
THEOREM RepairIsJudged == CenterSpec => []JudgedAfterRepair
<1>1. CenterInv => JudgedAfterRepair  BY DoctorGives DEF CenterInv, JudgedAfterRepair
<1> QED BY <1>1, CenterInductive, PTL
=============================================================================
