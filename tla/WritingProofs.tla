--------------------------- MODULE WritingProofs ---------------------------
(***************************************************************************)
(* Proofs about the pages on which journals are written, for any journals, *)
(* texts, fields and numbers of writes.                                    *)
(*                                                                         *)
(* The write page keeps its draft when the user waits for what was         *)
(* started.  The drawer and the detail page need no such user.             *)
(***************************************************************************)
EXTENDS Writing, TLAPS

(* A draft is well formed, the blank one too, and changing the weather     *)
(* keeps it so.                                                            *)
LEMMA DraftTypes ==
  /\ Blank \in Drafts /\ Blank.text = Empty
  /\ \A d \in Drafts : d.text \in Texts \cup {Empty} /\ d \notin {Loading, Failed}
  /\ \A d \in Drafts, w \in Weathers :
       [d EXCEPT !.weather = w] \in Drafts /\ [d EXCEPT !.weather = w].text = d.text
BY MarksAssumption DEF Drafts, Blank

(* What a page that settles shows is a draft, and it is the slot's if the  *)
(* slot has one.                                                           *)
LEMMA ShownTypes ==
  ASSUME NEW s \in Scopes, NEW got \in [Journals -> Drafts \cup {Loading, Failed}],
         NEW held \in Drafts, NEW slots \in [Scopes -> Drafts], NEW ref
  PROVE  /\ Shown(s, got, held, slots, ref) \in Drafts
         /\ slots[s] # Blank => Shown(s, got, held, slots, ref) = slots[s]
<1>1. slots[s] \in Drafts OBVIOUS
<1>2. Loads(s, got, ref) => got[s] \in Drafts BY DEF Loads, Has
<1> QED BY <1>1, <1>2 DEF Shown

(* A settled page has types, keeps every slot that held a draft, shows     *)
(* what its slot holds, and has loaded its journal if it is known.         *)
LEMMA SettleKeeps ==
  ASSUME NEW s \in Scopes, NEW got \in [Journals -> Drafts \cup {Loading, Failed}],
         NEW held \in Drafts, NEW slots \in [Scopes -> Drafts],
         NEW ref \in Journals \cup {NoScope},
         Settle(s, got, held, slots, ref)
  PROVE  /\ draft' \in Drafts /\ cache' \in [Scopes -> Drafts]
         /\ recovered' \in Scopes \cup {NoScope} /\ loaded' \in Journals \cup {NoScope}
         /\ cache'[s] = draft'
         /\ \A r \in Scopes : slots[r] # Blank => cache'[r] = slots[r]
         /\ recovered' # s => slots[s] = Blank
         /\ s \in Journals /\ Has(got, s) => loaded' = s
<1> DEFINE seen == Shown(s, got, held, slots, ref)
<1>1. seen \in Drafts /\ (slots[s] # Blank => seen = slots[s]) BY ShownTypes
<1>2. draft' = seen /\ cache' = [slots EXCEPT ![s] = seen] BY DEF Settle
<1> HIDE DEF seen
<1>3. cache' \in [Scopes -> Drafts] /\ cache'[s] = draft' BY <1>1, <1>2
<1>4. \A r \in Scopes : slots[r] # Blank => cache'[r] = slots[r] BY <1>1, <1>2
<1>5. recovered' = IF slots[s] # Blank THEN s ELSE NoScope BY DEF Settle
<1>6. loaded' = IF s = New THEN NoScope ELSE IF Loads(s, got, ref) THEN s ELSE ref
  BY DEF Settle
<1>7. s = New \/ s \in Journals BY DEF Scopes
<1>8. loaded' \in Journals \cup {NoScope} BY <1>6, <1>7 DEF Loads
<1>9. s \in Journals /\ Has(got, s) => loaded' = s
  BY <1>6, ScopesAssumption DEF Loads
<1>10. recovered' \in Scopes \cup {NoScope} /\ (recovered' # s => slots[s] = Blank)
  BY <1>5
<1> QED BY <1>1, <1>2, <1>3, <1>4, <1>8, <1>9, <1>10

(* The inductive invariant holds initially. *)
LEMMA InitInv == Init => IInv
<1> SUFFICES ASSUME Init PROVE IInv OBVIOUS
<1>1. TypeOK
  <2>1. draft \in Drafts /\ save.draft \in Drafts /\ query.draft \in Drafts
    BY DraftTypes DEF Init, NoSave, NoQuery
  <2>2. cache \in [Scopes -> Drafts] BY DraftTypes DEF Init
  <2>3. server \in [Journals -> Drafts] BY DEF Init, Written
  <2>4. known \in [Journals -> Drafts \cup {Loading, Failed}] BY DEF Init
  <2>5. save \in [step : {"none", "sending", "clearing", "leaving"},
                  scope : Scopes \cup {NoScope}, draft : Drafts]
    BY DraftTypes DEF Init, NoSave
  <2>6. query \in [scope : Scopes \cup {NoScope}, draft : Drafts]
    BY DraftTypes DEF Init, NoQuery
  <2> QED BY <2>1, <2>2, <2>3, <2>4, <2>5, <2>6 DEF Init, TypeOK, Scopes
<1>2. RefreshKeepsDraft BY DEF Init, RefreshKeepsDraft
<1>3. ShownIsCached BY DEF Init, ShownIsCached
<1>4. LoadInv BY DEF Init, LoadInv
<1>5. SaveInv BY DEF Init, SaveInv, NoSave
<1>6. QueryInv BY DEF Init, QueryInv
<1> QED BY <1>1, <1>2, <1>3, <1>4, <1>5, <1>6 DEF IInv

(* Slots that keep their drafts keep what is unsaved. *)
LEMMA KeptSlots ==
  ASSUME RefreshKeepsDraft, unsaved' = unsaved,
         \A r \in Scopes : cache[r] # Blank => cache'[r] = cache[r]
  PROVE  RefreshKeepsDraft'
BY DraftTypes DEF RefreshKeepsDraft

-----------------------------------------------------------------------------
(* Opening a page keeps the invariant: a slot with a draft is recovered, and *)
(* one without has nothing unsaved.                                        *)
LEMMA OpenStep == ASSUME IInv, Waits, NEW s \in Scopes, Open(s) PROVE IInv'
<1> USE DEF IInv
<1> DEFINE ref == IF open THEN loaded ELSE NoScope
<1>1. save = NoSave /\ query = NoQuery BY DEF Open
<1>2. /\ open' = TRUE /\ scope' = s /\ server' = server /\ save' = save /\ here' = here
      /\ query' = query /\ unsaved' = unsaved
      /\ Settle(s, known', draft, cache, ref)
  BY DEF Open
<1>3. known' \in [Journals -> Drafts \cup {Loading, Failed}]
  BY DEF Open, TypeOK
<1>4. ref \in Journals \cup {NoScope} BY DEF TypeOK
<1> HIDE DEF ref
<1>5. /\ draft' \in Drafts /\ cache' \in [Scopes -> Drafts]
      /\ recovered' \in Scopes \cup {NoScope} /\ loaded' \in Journals \cup {NoScope}
      /\ cache'[s] = draft'
      /\ \A r \in Scopes : cache[r] # Blank => cache'[r] = cache[r]
      /\ recovered' # s => cache[s] = Blank
      /\ s \in Journals /\ Has(known', s) => loaded' = s
  <2> DEFINE got == known'
  <2> HIDE DEF got
  <2>1. got \in [Journals -> Drafts \cup {Loading, Failed}] BY <1>3 DEF got
  <2>2. Settle(s, got, draft, cache, ref) BY <1>2 DEF got
  <2>3. draft \in Drafts /\ cache \in [Scopes -> Drafts] BY DEF TypeOK
  <2> QED BY <2>1, <2>2, <2>3, <1>4, SettleKeeps DEF got
<1>6. TypeOK' BY <1>2, <1>3, <1>5 DEF TypeOK
<1>7. RefreshKeepsDraft' BY <1>2, <1>5, KeptSlots
<1>8. ShownIsCached' BY <1>2, <1>5 DEF ShownIsCached
<1>9. LoadInv'
  <2>1. recovered' # s => unsaved[s] = Empty BY <1>5, DraftTypes DEF RefreshKeepsDraft
  <2>2. Has(known, scope)' <=> Has(known', scope') BY DEF Has
  <2> QED BY <1>2, <1>5, <2>1, <2>2 DEF LoadInv
<1>10. SaveInv' BY <1>1, <1>2 DEF SaveInv, NoSave
<1>11. QueryInv' BY <1>1, <1>2 DEF QueryInv
<1> QED BY <1>6, <1>7, <1>8, <1>9, <1>10, <1>11

(* Leaving the page changes neither store nor slots, and nothing was under *)
(* way.                                                                    *)
LEMMA LeaveStep == ASSUME IInv, Waits, Leave PROVE IInv'
<1> USE DEF IInv
<1>1. /\ save = NoSave /\ save' = save /\ open' = FALSE /\ here' = FALSE /\ query' = NoQuery
      /\ draft' = draft /\ scope' = scope /\ loaded' = loaded /\ recovered' = recovered
      /\ cache' = cache /\ known' = known /\ server' = server /\ unsaved' = unsaved
  BY DEF Leave, remote
<1>2. NoQuery \in [scope : Scopes \cup {NoScope}, draft : Drafts] BY DraftTypes DEF NoQuery
<1>3. TypeOK' BY <1>1, <1>2 DEF TypeOK
<1>4. RefreshKeepsDraft' BY <1>1 DEF RefreshKeepsDraft
<1>5. ShownIsCached' /\ LoadInv' /\ QueryInv' BY <1>1 DEF ShownIsCached, LoadInv, QueryInv
<1>6. SaveInv' BY <1>1 DEF SaveInv, NoSave
<1> QED BY <1>3, <1>4, <1>5, <1>6

(* A refresh finds in the slot of an open page what was unsaved there. *)
LEMMA RefreshStep == ASSUME IInv, Waits, Refresh PROVE IInv'
<1> USE DEF IInv
<1>1. /\ save' = NoSave /\ here' = FALSE /\ query' = NoQuery
      /\ open' = open /\ scope' = scope /\ unsaved' = unsaved
      /\ known' = [j \in Journals |-> Loading]
  BY DEF Refresh
<1>2. server' \in [Journals -> Drafts] BY DEF Refresh, Written
<1>3. known' \in [Journals -> Drafts \cup {Loading, Failed}] BY <1>1
<1>4. NoQuery \in [scope : Scopes \cup {NoScope}, draft : Drafts] BY DraftTypes DEF NoQuery
<1>5. NoSave \in [step : {"none", "sending", "clearing", "leaving"},
                   scope : Scopes \cup {NoScope}, draft : Drafts]
  BY DraftTypes DEF NoSave
<1>6. SaveInv' /\ QueryInv' BY <1>1 DEF SaveInv, QueryInv, NoSave
<1>7. CASE open
  <2> DEFINE got == known'
  <2>1. Settle(scope, got, Blank, cache, NoScope) BY <1>7 DEF Refresh
  <2> HIDE DEF got
  <2>2. scope \in Scopes /\ cache \in [Scopes -> Drafts] BY DEF TypeOK
  <2>3. got \in [Journals -> Drafts \cup {Loading, Failed}] BY <1>3 DEF got
  <2>4. /\ draft' \in Drafts /\ cache' \in [Scopes -> Drafts]
        /\ recovered' \in Scopes \cup {NoScope} /\ loaded' \in Journals \cup {NoScope}
        /\ cache'[scope] = draft'
        /\ \A r \in Scopes : cache[r] # Blank => cache'[r] = cache[r]
        /\ recovered' # scope => cache[scope] = Blank
        /\ scope \in Journals /\ Has(got, scope) => loaded' = scope
    BY <2>1, <2>2, <2>3, DraftTypes, SettleKeeps
  <2>5. TypeOK' BY <1>1, <1>2, <1>3, <1>4, <1>5, <2>4 DEF TypeOK
  <2>6. RefreshKeepsDraft' BY <1>1, <2>4, KeptSlots
  <2>7. ShownIsCached' BY <1>1, <2>4 DEF ShownIsCached
  <2>8. LoadInv'
    <3>1. recovered' # scope => unsaved[scope] = Empty
      BY <2>2, <2>4, DraftTypes DEF RefreshKeepsDraft
    <3>2. Has(known, scope)' <=> Has(got, scope) BY <1>1 DEF Has, got
    <3> QED BY <1>1, <2>4, <3>1, <3>2 DEF LoadInv
  <2> QED BY <1>6, <2>5, <2>6, <2>7, <2>8
<1>8. CASE ~open
  <2>1. draft' = Blank /\ cache' = cache /\ loaded' = loaded /\ recovered' = recovered
    BY <1>8 DEF Refresh
  <2>2. TypeOK' BY <1>1, <1>2, <1>3, <1>4, <1>5, <2>1, DraftTypes DEF TypeOK
  <2>3. RefreshKeepsDraft' BY <1>1, <2>1 DEF RefreshKeepsDraft
  <2>4. ShownIsCached' /\ LoadInv' BY <1>1, <1>8 DEF ShownIsCached, LoadInv
  <2> QED BY <1>6, <2>2, <2>3, <2>4
<1> QED BY <1>7, <1>8

(* Typing keeps store and slot equal; the page has loaded its journal. *)
LEMMA EnterStep == ASSUME IInv, Waits, NEW d \in Drafts, Enter(d) PROVE IInv'
<1> USE DEF IInv
<1>1. /\ draft' = d /\ cache' = [cache EXCEPT ![scope] = d]
      /\ unsaved' = [unsaved EXCEPT ![scope] = d.text]
      /\ open' = open /\ scope' = scope /\ loaded' = loaded /\ recovered' = recovered
      /\ known' = known /\ server' = server /\ save' = save /\ here' = here /\ query' = query
  BY DEF Enter, page, remote
<1>2. open /\ save = NoSave /\ query = NoQuery BY DEF Enter, Editing, Undisturbed
<1>3. scope \in Journals => Has(known, scope)
  BY DEF Enter, Editing, Busy, Undisturbed, Has
<1>4. scope \in Scopes /\ cache \in [Scopes -> Drafts] /\ unsaved \in [Scopes -> Texts \cup {Empty}]
  BY DEF TypeOK
<1>5. cache'[scope] = d /\ unsaved'[scope] = d.text
      /\ \A r \in Scopes \ {scope} : cache'[r] = cache[r] /\ unsaved'[r] = unsaved[r]
  BY <1>1, <1>4
<1>6. TypeOK'
  <2>1. cache' \in [Scopes -> Drafts] BY <1>1, <1>4
  <2>2. unsaved' \in [Scopes -> Texts \cup {Empty}] BY <1>1, <1>4, DraftTypes
  <2> QED BY <1>1, <2>1, <2>2 DEF TypeOK
<1>7. RefreshKeepsDraft' BY <1>5 DEF RefreshKeepsDraft
<1>8. ShownIsCached' BY <1>1, <1>5 DEF ShownIsCached
<1>9. LoadInv' BY <1>1, <1>2, <1>3 DEF LoadInv, Has
<1>10. SaveInv' BY <1>1, <1>2 DEF SaveInv, NoSave
<1>11. QueryInv' BY <1>1, <1>2 DEF QueryInv
<1> QED BY <1>6, <1>7, <1>8, <1>9, <1>10, <1>11

-----------------------------------------------------------------------------
(* A journal that arrives is loaded only where nothing was entered. *)
LEMMA FetchedStep == ASSUME IInv, Waits, NEW j \in Journals, Fetched(j) PROVE IInv'
<1> USE DEF IInv
<1>1. /\ known' = [known EXCEPT ![j] = server[j]]
      /\ open' = open /\ scope' = scope /\ recovered' = recovered /\ server' = server
      /\ save' = save /\ here' = here /\ query' = query /\ unsaved' = unsaved
  BY DEF Fetched
<1>2. /\ known \in [Journals -> Drafts \cup {Loading, Failed}] /\ server[j] \in Drafts
      /\ cache \in [Scopes -> Drafts] /\ j \in Scopes
  BY DEF TypeOK, Scopes
<1>3. /\ known' \in [Journals -> Drafts \cup {Loading, Failed}]
      /\ \A i \in Journals \ {j} : known'[i] = known[i]
  BY <1>1, <1>2
<1> DEFINE first == open /\ scope = j /\ loaded # j
<1>4. CASE first /\ recovered # j
  <2>1. loaded' = j /\ draft' = server[j] /\ cache' = [cache EXCEPT ![j] = server[j]]
    BY <1>4 DEF Fetched
  <2>2. unsaved[j] = Empty BY <1>4 DEF LoadInv
  <2>3. save.step # "sending" /\ query = NoQuery BY <1>4 DEF SaveInv, QueryInv, Settled
  <2>4. cache'[j] = server[j] /\ \A r \in Scopes \ {j} : cache'[r] = cache[r]
    BY <1>2, <2>1
  <2>5. cache' \in [Scopes -> Drafts] BY <1>2, <2>1
  <2>6. TypeOK' BY <1>1, <1>2, <1>3, <2>1, <2>5 DEF TypeOK
  <2>7. RefreshKeepsDraft' BY <1>1, <2>2, <2>4 DEF RefreshKeepsDraft
  <2>8. ShownIsCached' BY <1>1, <1>4, <2>1, <2>4 DEF ShownIsCached
  <2>9. LoadInv' BY <1>1, <1>4, <2>1 DEF LoadInv
  <2>10. SaveInv' /\ QueryInv' BY <1>1, <2>3 DEF SaveInv, QueryInv
  <2> QED BY <2>6, <2>7, <2>8, <2>9, <2>10
<1>5. CASE ~(first /\ recovered # j)
  <2>1. draft' = draft /\ cache' = cache BY <1>5 DEF Fetched
  <2>2. loaded' = IF first THEN j ELSE loaded BY DEF Fetched
  <2>3. TypeOK' BY <1>1, <1>3, <2>1, <2>2 DEF TypeOK
  <2>4. RefreshKeepsDraft' /\ ShownIsCached' BY <1>1, <2>1 DEF RefreshKeepsDraft, ShownIsCached
  <2>5. LoadInv' BY <1>1, <1>3, <1>5, <2>2 DEF LoadInv, Has
  <2>6. Settled => Settled' BY <1>1, <2>2 DEF Settled
  <2>7. SaveInv' BY <1>1, <2>1, <2>6 DEF SaveInv
  <2>8. QueryInv' BY <1>1, <2>1, <2>6 DEF QueryInv
  <2> QED BY <2>3, <2>4, <2>5, <2>7, <2>8
<1> QED BY <1>4, <1>5

(* What becomes unknown is not loaded anew into a page. *)
LEMMA UnknownStep ==
  ASSUME IInv, Waits, NEW j \in Journals, FetchFails(j) \/ Forget(j) PROVE IInv'
<1> USE DEF IInv
<1>1. /\ draft' = draft /\ open' = open /\ scope' = scope /\ loaded' = loaded
      /\ recovered' = recovered /\ cache' = cache /\ server' = server /\ save' = save
      /\ here' = here /\ query' = query /\ unsaved' = unsaved
  BY DEF FetchFails, Forget, page
<1>2. \E v \in {Loading, Failed} : known' = [known EXCEPT ![j] = v]
  BY DEF FetchFails, Forget
<1>3. PICK v \in {Loading, Failed} : known' = [known EXCEPT ![j] = v] BY <1>2
<1>4. known \in [Journals -> Drafts \cup {Loading, Failed}] BY DEF TypeOK
<1>5. /\ known' \in [Journals -> Drafts \cup {Loading, Failed}]
      /\ \A i \in Journals : known'[i] \in {known[i], Loading, Failed}
  BY <1>3, <1>4
<1>6. TypeOK' BY <1>1, <1>5 DEF TypeOK
<1>7. RefreshKeepsDraft' /\ ShownIsCached' BY <1>1 DEF RefreshKeepsDraft, ShownIsCached
<1>8. LoadInv' BY <1>1, <1>5 DEF LoadInv, Has
<1>9. SaveInv' /\ QueryInv' BY <1>1 DEF SaveInv, QueryInv, Settled
<1> QED BY <1>6, <1>7, <1>8, <1>9

(* The query remembers the page and the draft it was made for. *)
LEMMA QueryStep == ASSUME IInv, Waits, QueryWeather PROVE IInv'
<1> USE DEF IInv
<1>1. /\ draft' = draft /\ open' = open /\ scope' = scope /\ loaded' = loaded
      /\ recovered' = recovered /\ cache' = cache /\ known' = known /\ server' = server
      /\ save' = save /\ here' = here /\ unsaved' = unsaved
      /\ query' = [scope |-> scope, draft |-> draft]
  BY DEF QueryWeather, page, remote
<1>2. open /\ save = NoSave /\ Settled
  BY DEF QueryWeather, Editing, Busy, Undisturbed, LoadInv, Has, Settled
<1>3. query' \in [scope : Scopes \cup {NoScope}, draft : Drafts]
      /\ query'.scope = scope /\ query'.draft = draft
  BY <1>1 DEF TypeOK
<1>4. TypeOK' BY <1>1, <1>3 DEF TypeOK
<1>5. RefreshKeepsDraft' /\ ShownIsCached' /\ LoadInv' /\ SaveInv'
  BY <1>1 DEF RefreshKeepsDraft, ShownIsCached, LoadInv, SaveInv, Settled, Has
<1>6. QueryInv' BY <1>1, <1>2, <1>3 DEF QueryInv, Settled
<1> QED BY <1>4, <1>5, <1>6

(* The answer finds the draft it was asked for, so slot and store agree. *)
LEMMA AnswerStep ==
  ASSUME IInv, Waits, NEW w \in Weathers, WeatherAnswers(w) PROVE IInv'
<1> USE DEF IInv
<1> DEFINE d == [draft EXCEPT !.weather = w]
<1>1. open /\ Settled /\ save = NoSave /\ query.scope = scope /\ query.draft = draft
  BY DEF WeatherAnswers, QueryInv
<1>2. /\ draft' = d /\ query' = NoQuery
      /\ open' = open /\ scope' = scope /\ loaded' = loaded /\ recovered' = recovered
      /\ known' = known /\ server' = server /\ save' = save /\ here' = here
      /\ unsaved' = unsaved
  BY DEF WeatherAnswers, page, remote
<1>3. draft \in Drafts /\ scope \in Scopes /\ cache \in [Scopes -> Drafts] BY DEF TypeOK
<1>4. d \in Drafts /\ d.text = draft.text BY <1>3, DraftTypes
<1>5. LET persisted == [cache EXCEPT ![scope] = d]
      IN  cache' = IF draft' = draft THEN persisted ELSE [persisted EXCEPT ![scope] = draft']
  BY <1>1 DEF WeatherAnswers
<1>6. cache' = [cache EXCEPT ![scope] = d]
  <2> HIDE DEF d
  <2> QED BY <1>2, <1>3, <1>5
<1> HIDE DEF d
<1>7. /\ cache' \in [Scopes -> Drafts] /\ cache'[scope] = d
      /\ \A r \in Scopes \ {scope} : cache'[r] = cache[r]
  BY <1>3, <1>4, <1>6
<1>8. NoQuery \in [scope : Scopes \cup {NoScope}, draft : Drafts] BY DraftTypes DEF NoQuery
<1>9. TypeOK' BY <1>2, <1>4, <1>7, <1>8 DEF TypeOK
<1>10. cache[scope] = draft BY <1>1 DEF ShownIsCached, NoSave
<1>11. RefreshKeepsDraft' BY <1>2, <1>3, <1>4, <1>7, <1>10 DEF RefreshKeepsDraft
<1>12. ShownIsCached' BY <1>2, <1>7 DEF ShownIsCached
<1>13. LoadInv' /\ QueryInv' BY <1>2 DEF LoadInv, QueryInv, Has
<1>14. SaveInv' BY <1>1, <1>2 DEF SaveInv, NoSave
<1> QED BY <1>9, <1>11, <1>12, <1>13, <1>14

(* A query without answer changes nothing. *)
LEMMA NoAnswerStep == ASSUME IInv, Waits, WeatherUnavailable PROVE IInv'
<1> USE DEF IInv
<1>1. /\ draft' = draft /\ open' = open /\ scope' = scope /\ loaded' = loaded
      /\ recovered' = recovered /\ cache' = cache /\ known' = known /\ server' = server
      /\ save' = save /\ here' = here /\ unsaved' = unsaved /\ query' = NoQuery
  BY DEF WeatherUnavailable, page, remote
<1>2. NoQuery \in [scope : Scopes \cup {NoScope}, draft : Drafts] BY DraftTypes DEF NoQuery
<1>3. TypeOK' BY <1>1, <1>2 DEF TypeOK
<1>4. RefreshKeepsDraft' /\ ShownIsCached' /\ LoadInv' /\ SaveInv' /\ QueryInv'
  BY <1>1 DEF RefreshKeepsDraft, ShownIsCached, LoadInv, SaveInv, QueryInv, Settled, Has
<1> QED BY <1>3, <1>4

-----------------------------------------------------------------------------
(* A save begins with a page that has loaded what it edits. *)
LEMMA SaveStep == ASSUME IInv, Waits, Save PROVE IInv'
<1> USE DEF IInv
<1>1. /\ draft' = draft /\ open' = open /\ scope' = scope /\ loaded' = loaded
      /\ recovered' = recovered /\ cache' = cache /\ known' = known /\ server' = server
      /\ unsaved' = unsaved /\ query' = NoQuery /\ here' = TRUE
      /\ save' = [step |-> "sending", scope |-> scope, draft |-> draft]
  BY DEF Save, page, remote
<1>2. open /\ save = NoSave /\ Settled /\ draft.text # Empty
  BY DEF Save, Editing, Busy, Undisturbed, LoadInv, Has, Settled
<1>3. /\ save' \in [step : {"none", "sending", "clearing", "leaving"},
                     scope : Scopes \cup {NoScope}, draft : Drafts]
      /\ save'.step = "sending" /\ save'.scope = scope /\ save'.draft = draft
  BY <1>1 DEF TypeOK
<1>4. NoQuery \in [scope : Scopes \cup {NoScope}, draft : Drafts] BY DraftTypes DEF NoQuery
<1>5. TypeOK' BY <1>1, <1>3, <1>4 DEF TypeOK
<1>6. RefreshKeepsDraft' /\ LoadInv' /\ QueryInv'
  BY <1>1 DEF RefreshKeepsDraft, LoadInv, QueryInv, Has
<1>7. ShownIsCached' BY <1>1, <1>2 DEF ShownIsCached, NoSave
<1>8. SaveInv' BY <1>1, <1>2, <1>3 DEF SaveInv, Settled
<1> QED BY <1>5, <1>6, <1>7, <1>8

(* A failed save leaves store and slots alone. *)
LEMMA SaveFailsStep == ASSUME IInv, Waits, SaveFails PROVE IInv'
<1> USE DEF IInv
<1>1. /\ draft' = draft /\ open' = open /\ scope' = scope /\ loaded' = loaded
      /\ recovered' = recovered /\ cache' = cache /\ known' = known
      /\ query' = query /\ unsaved' = unsaved /\ save' = NoSave /\ here' = FALSE
      /\ save.step = "sending"
  BY DEF SaveFails, page
<1>2. server' \in [Journals -> Drafts] BY DEF SaveFails
<1>3. NoSave \in [step : {"none", "sending", "clearing", "leaving"},
                  scope : Scopes \cup {NoScope}, draft : Drafts]
  BY DraftTypes DEF NoSave
<1>4. TypeOK' BY <1>1, <1>2, <1>3 DEF TypeOK
<1>5. RefreshKeepsDraft' /\ LoadInv' BY <1>1 DEF RefreshKeepsDraft, LoadInv, Has
<1>6. ShownIsCached' BY <1>1 DEF ShownIsCached
<1>7. query = NoQuery BY <1>1 DEF QueryInv, NoSave
<1>8. SaveInv' /\ QueryInv' BY <1>1, <1>7 DEF SaveInv, QueryInv, NoSave
<1> QED BY <1>4, <1>5, <1>6, <1>8

(* A save that lands clears the slot of what it saved, which was the last  *)
(* thing entered there.                                                    *)
LEMMA SaveLandsStep == ASSUME IInv, Waits, SaveLands PROVE IInv'
<1> USE DEF IInv
<1>1. /\ cache' = [cache EXCEPT ![save.scope] = Blank]
      /\ unsaved' = [unsaved EXCEPT ![save.scope] = IF @ = save.draft.text THEN Empty ELSE @]
      /\ save' = [save EXCEPT !.step = "clearing"]
      /\ draft' = draft /\ open' = open /\ scope' = scope /\ loaded' = loaded
      /\ recovered' = recovered /\ known' = known /\ here' = here /\ query' = query
  BY DEF SaveLands, page
<1>2. /\ save.step = "sending" /\ open /\ here /\ scope = save.scope /\ draft = save.draft
      /\ query = NoQuery
  BY DEF SaveLands, SaveInv, QueryInv, NoSave
<1>3. server' \in [Journals -> Drafts]
  <2>1. server' = [j \in Journals |-> IF j = save.scope THEN save.draft ELSE server[j]]
    BY DEF SaveLands
  <2> QED BY <2>1 DEF TypeOK
<1>4. /\ scope \in Scopes /\ cache \in [Scopes -> Drafts]
      /\ unsaved \in [Scopes -> Texts \cup {Empty}]
  BY DEF TypeOK
<1>5. /\ save' \in [step : {"none", "sending", "clearing", "leaving"},
                     scope : Scopes \cup {NoScope}, draft : Drafts]
      /\ save'.step = "clearing" /\ save'.scope = save.scope /\ save'.draft = save.draft
  BY <1>1 DEF TypeOK
<1>6. cache[scope] = draft BY <1>2 DEF ShownIsCached
<1>7. unsaved'[scope] = Empty
  BY <1>1, <1>2, <1>4, <1>6 DEF RefreshKeepsDraft
<1>8. /\ \A r \in Scopes \ {scope} : cache'[r] = cache[r] /\ unsaved'[r] = unsaved[r]
      /\ cache' \in [Scopes -> Drafts] /\ unsaved' \in [Scopes -> Texts \cup {Empty}]
  <2>1. cache' \in [Scopes -> Drafts] BY <1>1, <1>4, DraftTypes
  <2>2. unsaved' \in [Scopes -> Texts \cup {Empty}] BY <1>1, <1>4
  <2>3. \A r \in Scopes \ {scope} : cache'[r] = cache[r] /\ unsaved'[r] = unsaved[r]
    BY <1>1, <1>2, <1>4
  <2> QED BY <2>1, <2>2, <2>3
<1>9. TypeOK' BY <1>1, <1>3, <1>5, <1>8 DEF TypeOK
<1>10. RefreshKeepsDraft' BY <1>7, <1>8 DEF RefreshKeepsDraft
<1>11. ShownIsCached' BY <1>5 DEF ShownIsCached
<1>12. LoadInv' BY <1>1, <1>7 DEF LoadInv, Has
<1>13. SaveInv' BY <1>1, <1>2, <1>5, <1>7 DEF SaveInv
<1>14. QueryInv' BY <1>1, <1>2 DEF QueryInv
<1> QED BY <1>9, <1>10, <1>11, <1>12, <1>13, <1>14

(* The reset clears the slot of the page that saved, where nothing is      *)
(* unsaved, and recovers the draft of a new entry.                         *)
LEMMA SaveResetsStep == ASSUME IInv, Waits, SaveResets PROVE IInv'
<1> USE DEF IInv
<1> DEFINE cleared == IF open /\ draft # Blank THEN [cache EXCEPT ![scope] = Blank] ELSE cache
<1>1. /\ save.step = "clearing" /\ save' = [save EXCEPT !.step = "leaving"]
      /\ open' = open /\ known' = known /\ server' = server /\ here' = here
      /\ query' = query /\ unsaved' = unsaved
  BY DEF SaveResets, remote
<1>2. open /\ here /\ scope = save.scope /\ unsaved[scope] = Empty /\ query = NoQuery
  BY <1>1 DEF SaveInv, QueryInv, NoSave
<1>3. /\ save' \in [step : {"none", "sending", "clearing", "leaving"},
                     scope : Scopes \cup {NoScope}, draft : Drafts]
      /\ save'.step = "leaving"
  BY <1>1 DEF TypeOK
<1>4. /\ scope \in Scopes /\ cache \in [Scopes -> Drafts] /\ New \in Scopes
      /\ loaded \in Journals \cup {NoScope} /\ recovered \in Scopes \cup {NoScope}
      /\ known \in [Journals -> Drafts \cup {Loading, Failed}]
  BY DEF TypeOK, Scopes
<1>5. /\ cleared \in [Scopes -> Drafts]
      /\ \A r \in Scopes \ {scope} : cleared[r] = cache[r]
  BY <1>4, DraftTypes
<1>6. CASE scope # New
  <2>1. scope' = New /\ Settle(New, known, Blank, cleared, loaded)
    BY <1>2, <1>6 DEF SaveResets
  <2> HIDE DEF cleared
  <2>2. /\ draft' \in Drafts /\ cache' \in [Scopes -> Drafts]
        /\ recovered' \in Scopes \cup {NoScope} /\ loaded' \in Journals \cup {NoScope}
        /\ \A r \in Scopes : cleared[r] # Blank => cache'[r] = cleared[r]
    BY <1>4, <1>5, <2>1, DraftTypes, SettleKeeps
  <2>3. TypeOK' BY <1>1, <1>3, <1>4, <2>1, <2>2 DEF TypeOK
  <2>4. RefreshKeepsDraft'
    BY <1>1, <1>2, <1>5, <2>2, DraftTypes DEF RefreshKeepsDraft
  <2>5. LoadInv' BY <2>1, ScopesAssumption DEF LoadInv
  <2> QED BY <1>1, <1>2, <1>3, <2>3, <2>4, <2>5 DEF ShownIsCached, SaveInv, QueryInv
<1>7. CASE scope = New
  <2>1. draft' = Blank /\ cache' = cleared /\ scope' = scope /\ loaded' = loaded
        /\ recovered' = recovered
    BY <1>7 DEF SaveResets
  <2> HIDE DEF cleared
  <2>2. TypeOK' BY <1>1, <1>3, <1>4, <1>5, <2>1, DraftTypes DEF TypeOK
  <2>3. RefreshKeepsDraft' BY <1>1, <1>2, <1>5, <2>1 DEF RefreshKeepsDraft
  <2>4. LoadInv' BY <1>7, <2>1, ScopesAssumption DEF LoadInv
  <2> QED BY <1>1, <1>2, <1>3, <2>2, <2>3, <2>4 DEF ShownIsCached, SaveInv, QueryInv
<1> QED BY <1>6, <1>7

(* Leaving for the saved journal ends the save. *)
LEMMA DepartStep == ASSUME IInv, Waits, Depart PROVE IInv'
<1> USE DEF IInv
<1>1. /\ draft' = draft /\ scope' = scope /\ loaded' = loaded /\ recovered' = recovered
      /\ cache' = cache /\ known' = known /\ server' = server /\ unsaved' = unsaved
      /\ open' = FALSE /\ here' = FALSE /\ save' = NoSave /\ query' = NoQuery
  BY DEF Depart, remote
<1>2. NoQuery \in [scope : Scopes \cup {NoScope}, draft : Drafts] BY DraftTypes DEF NoQuery
<1>3. NoSave \in [step : {"none", "sending", "clearing", "leaving"},
                  scope : Scopes \cup {NoScope}, draft : Drafts]
  BY DraftTypes DEF NoSave
<1>4. TypeOK' BY <1>1, <1>2, <1>3 DEF TypeOK
<1>5. RefreshKeepsDraft' /\ ShownIsCached' /\ LoadInv' /\ SaveInv' /\ QueryInv'
  BY <1>1 DEF RefreshKeepsDraft, ShownIsCached, LoadInv, SaveInv, QueryInv, NoSave
<1> QED BY <1>4, <1>5

-----------------------------------------------------------------------------
(* Every step of a user who waits preserves the inductive invariant. *)
LEMMA StepInv == ASSUME Waits, IInv, [Next]_vars PROVE IInv'
<1>1. CASE UNCHANGED vars
  BY <1>1 DEF vars, page, remote, IInv, TypeOK, RefreshKeepsDraft, ShownIsCached, LoadInv,
              SaveInv, QueryInv, Settled, Has
<1>2. ASSUME NEW s \in Scopes, Open(s) PROVE IInv' BY <1>2, OpenStep
<1>3. ASSUME NEW d \in Drafts, Enter(d) PROVE IInv' BY <1>3, EnterStep
<1>4. ASSUME NEW j \in Journals, Fetched(j) \/ FetchFails(j) \/ Forget(j) PROVE IInv'
  BY <1>4, FetchedStep, UnknownStep
<1>5. ASSUME NEW w \in Weathers, WeatherAnswers(w) PROVE IInv' BY <1>5, AnswerStep
<1>6. CASE Leave \/ Refresh BY <1>6, LeaveStep, RefreshStep
<1>7. CASE QueryWeather \/ WeatherUnavailable BY <1>7, QueryStep, NoAnswerStep
<1>8. CASE Save \/ SaveFails BY <1>8, SaveStep, SaveFailsStep
<1>9. CASE SaveLands \/ SaveResets \/ Depart
  BY <1>9, SaveLandsStep, SaveResetsStep, DepartStep
<1> QED BY <1>1, <1>2, <1>3, <1>4, <1>5, <1>6, <1>7, <1>8, <1>9 DEF Next

(* For a user who waits the inductive invariant always holds. *)
THEOREM Inductive == Waits => (Spec => []IInv)
<1> SUFFICES ASSUME Waits PROVE Spec => []IInv OBVIOUS
<1>1. IInv /\ [Next]_vars => IInv' BY StepInv
<1> QED BY InitInv, <1>1, PTL DEF Spec

(* The state of the write page keeps its type. *)
THEOREM TypeCorrect == Waits => (Spec => []TypeOK)
<1>1. IInv => TypeOK BY DEF IInv
<1> QED BY Inductive, <1>1, PTL

(* A refresh brings back what was entered and not saved. *)
THEOREM DraftSurvives == Waits => (Spec => []RefreshKeepsDraft)
<1>1. IInv => RefreshKeepsDraft BY DEF IInv
<1> QED BY Inductive, <1>1, PTL

(* The editor shows the draft that is in the slot of its scope. *)
THEOREM EditorIsCached == Waits => (Spec => []ShownIsCached)
<1>1. IInv => ShownIsCached BY DEF IInv
<1> QED BY Inductive, <1>1, PTL
-----------------------------------------------------------------------------
(* A journal that is edited in place.  A save sends edits only (SendsEdits), *)
(* because a field of the form holds what its snapshot says or an edit of    *)
(* it; what is displayed is of the URL because the data of a journal is its  *)
(* own, and the override of a mounted page is of the journal at its URL.     *)
PageType == [at : Details \cup {NoScope}, edit : BOOLEAN, editing : BOOLEAN,
             snap : Detail!Contents, draft : Detail!Vals, override : Detail!Contents,
             failed : BOOLEAN, bypass : BOOLEAN, saving : BOOLEAN]

\* A field of the form holds what the snapshot says, or an edit of it.
EditsSnapshot(p) ==
  p.editing => /\ p.snap.of \in Details
               /\ \A x \in DetailFields : p.draft[x] \in {p.snap.vals[x], p.snap.of}

\* A page between two effects: all but that only its edit mode edits.
Effected(p) ==
  /\ p \in PageType
  /\ EditsSnapshot(p)
  /\ p.override # Detail!NoContent => p.override.of = p.at /\ p.at \in Details
  /\ p.at = NoScope => ~p.editing

PageOK(p) == Effected(p) /\ (p.editing => p.edit)

\* What is edited is of the URL.
EditsOwn(p) == p.editing => p.snap.of = p.at

DataOK(d) ==
  /\ d \in [Details -> Detail!Contents]
  /\ \A j \in Details : d[j] # Detail!NoContent => d[j].of = j

SaveType == [step : {"none", "sent", "written", "failed", "refetching"},
             id : Details \cup {NoScope}, diff : SUBSET DetailFields, sent : Detail!Vals,
             here : BOOLEAN, on : Details \cup {NoScope}]

SendsEdits(s) == \A x \in s.diff : s.sent[x] \in Details

EditOK(s, at) ==
  /\ s \in SaveType
  /\ s = Detail!NoSave \/ (s.step # "none" /\ s.id \in Details /\ s.on \in Details)
  /\ SendsEdits(s)
  /\ s.here => s.on = at

DetailInv ==
  /\ PageOK(detail)
  /\ EditOK(edit, detail.at)
  /\ DataOK(data)
  /\ files \in [Details -> Detail!Vals]
  /\ dropped \in {"none", "cancelled", "prompted", "saved", "unprompted"}

LEMMA Blanks ==
  /\ Detail!First \in Detail!Vals /\ Detail!NoContent \in Detail!Contents
  /\ Detail!NoPage \in PageType /\ ~Detail!NoPage.editing /\ Detail!NoPage.at = NoScope
  /\ Detail!NoPage.override = Detail!NoContent /\ ~Detail!NoPage.saving
  /\ ~Detail!NoPage.bypass
  /\ Detail!NoSave \in SaveType /\ Detail!NoSave.diff = {} /\ ~Detail!NoSave.here
  /\ Detail!NoSave.step = "none"
<1>1. Detail!First \in Detail!Vals  BY DEF Detail!First, Detail!Vals, Detail!Values
<1>2. Detail!NoContent \in Detail!Contents
  BY <1>1 DEF Detail!NoContent, Detail!Content, Detail!Contents
<1> QED BY <1>1, <1>2 DEF Detail!NoPage, Detail!NoSave, PageType, SaveType

LEMMA DetailGives ==
  ASSUME DetailInv
  PROVE  Detail!TypeOK /\ Detail!DisplayedIsOfUrl
<1>1. detail \in PageType /\ edit \in SaveType /\ data \in [Details -> Detail!Contents]
      /\ (detail.editing => detail.edit)
  BY DEF DetailInv, PageOK, Effected, EditOK, DataOK
<1>2. edit.step \in {"none", "sent", "written", "failed", "refetching"} /\ edit.diff \subseteq DetailFields
  BY <1>1 DEF SaveType
<1>3. Detail!TypeOK  BY <1>1, <1>2 DEF DetailInv, PageType, Detail!TypeOK
<1>4. Detail!DisplayedIsOfUrl
  <2> SUFFICES ASSUME detail.at # NoScope
               PROVE  Detail!Displayed(detail, data).of \in {detail.at, NoScope}
    BY DEF Detail!DisplayedIsOfUrl
  <2>1. detail.at \in Details  BY <1>1 DEF PageType
  <2>2. Detail!NoContent.of = NoScope  BY DEF Detail!NoContent, Detail!Content
  <2> QED BY <2>1, <2>2 DEF Detail!Displayed, DetailInv, PageOK, Effected, DataOK
<1> QED BY <1>3, <1>4

\* What beginning and leaving an edit change of a page.
LEMMA BeginKeeps ==
  ASSUME NEW p, Effected(p), NEW c \in Detail!Contents, c.of \in Details, p.at # NoScope
  PROVE  /\ Effected(Detail!Begin(p, c))
         /\ Detail!Begin(p, c).at = p.at /\ Detail!Begin(p, c).edit = p.edit
         /\ Detail!Begin(p, c).saving = p.saving
         /\ Detail!Begin(p, c).snap = c /\ Detail!Begin(p, c).bypass = p.bypass
<1> DEFINE q == [p EXCEPT !.editing = TRUE]
           r == [q EXCEPT !.snap = c]
           s == [r EXCEPT !.draft = c.vals]
           t == [s EXCEPT !.failed = FALSE]
<1>1. p \in PageType /\ c.vals \in Detail!Vals  BY DEF Effected, Detail!Contents
<1>2. /\ t \in PageType /\ t.editing /\ t.snap = c /\ t.draft = c.vals
      /\ t.override = p.override /\ t.at = p.at /\ t.edit = p.edit /\ t.saving = p.saving
      /\ t.bypass = p.bypass
  BY <1>1 DEF PageType
<1>3. Detail!Begin(p, c) = t  BY <1>1 DEF Detail!Begin, PageType
<1> HIDE DEF t
<1> QED BY <1>2, <1>3 DEF Effected, EditsSnapshot

LEMMA ResetKeeps ==
  ASSUME NEW p, Effected(p)
  PROVE  /\ Effected(Detail!ResetEdit(p)) /\ ~Detail!ResetEdit(p).editing
         /\ Detail!ResetEdit(p).at = p.at /\ Detail!ResetEdit(p).edit = p.edit
         /\ Detail!ResetEdit(p).saving = p.saving /\ Detail!ResetEdit(p).override = p.override
         /\ Detail!ResetEdit(p).bypass = p.bypass
<1> DEFINE q == [p EXCEPT !.editing = FALSE]
           r == [q EXCEPT !.snap = Detail!NoContent]
           s == [r EXCEPT !.draft = Detail!First]
           t == [s EXCEPT !.failed = FALSE]
<1>1. p \in PageType  BY DEF Effected
<1>2. /\ t \in PageType /\ ~t.editing
      /\ t.override = p.override /\ t.at = p.at /\ t.edit = p.edit /\ t.saving = p.saving
      /\ t.bypass = p.bypass
  BY <1>1, Blanks DEF PageType
<1>3. Detail!ResetEdit(p) = t  BY <1>1, Blanks DEF Detail!ResetEdit, PageType
<1> HIDE DEF t
<1> QED BY <1>2, <1>3 DEF Effected, EditsSnapshot

LEMMA DisplayedKeeps ==
  ASSUME NEW p, Effected(p), NEW d, DataOK(d), p.at # NoScope,
         Detail!Displayed(p, d) # Detail!NoContent
  PROVE  /\ Detail!Displayed(p, d) \in Detail!Contents
         /\ Detail!Displayed(p, d).of = p.at /\ p.at \in Details
<1>1. p.at \in Details /\ p.override \in Detail!Contents  BY DEF Effected, PageType
<1> QED BY <1>1 DEF Effected, DataOK, Detail!Displayed

\* The effect of the mode ends with a page that edits only in its edit mode.
LEMMA EffectKeeps ==
  ASSUME NEW p, Effected(p), NEW d, DataOK(d)
  PROVE  /\ PageOK(Detail!Settled(p, d)) /\ Detail!Settled(p, d).at = p.at
         /\ EditsOwn(p) => EditsOwn(Detail!Settled(p, d))
         /\ Detail!Settled(p, d).bypass = p.bypass
<1>1. p.at = NoScope => ~p.editing  BY DEF Effected
<1>2. CASE p.at = NoScope  BY <1>1, <1>2 DEF Detail!Settled, PageOK
<1>3. CASE /\ p.at # NoScope /\ p.edit /\ ~p.editing /\ ~p.saving
           /\ Detail!Displayed(p, d) # Detail!NoContent
  <2>1. Detail!Settled(p, d) = Detail!Begin(p, Detail!Displayed(p, d))
    BY <1>3 DEF Detail!Settled
  <2> QED BY <1>3, <2>1, DisplayedKeeps, BeginKeeps DEF PageOK, EditsOwn
<1>4. CASE /\ p.at # NoScope
           /\ ~(p.edit /\ ~p.editing /\ ~p.saving /\ Detail!Displayed(p, d) # Detail!NoContent)
  <2>1. CASE ~p.edit /\ p.editing
    <3>1. Detail!Settled(p, d) = Detail!ResetEdit(p)  BY <1>4, <2>1 DEF Detail!Settled
    <3> QED BY <3>1, ResetKeeps DEF PageOK, EditsOwn
  <2>2. CASE ~(~p.edit /\ p.editing)
    <3>1. Detail!Settled(p, d) = p  BY <1>4, <2>2 DEF Detail!Settled
    <3> QED BY <2>2, <3>1 DEF PageOK, Effected, PageType
  <2> QED BY <2>1, <2>2
<1> QED BY <1>2, <1>3, <1>4

LEMMA MoveKeeps ==
  ASSUME NEW p, Effected(p), p.at # NoScope, NEW j \in Details, NEW e \in BOOLEAN,
         NEW d, DataOK(d)
  PROVE  /\ PageOK(Detail!Moved(p, j, e, d)) /\ Detail!Moved(p, j, e, d).at = j
         /\ EditsOwn(p) /\ (e => j = p.at \/ p.override = Detail!NoContent) =>
              EditsOwn(Detail!Moved(p, j, e, d))
         /\ ~p.bypass \/ (p.edit /\ ~e) => ~Detail!Moved(p, j, e, d).bypass
<1> DEFINE by == IF p.edit /\ ~e THEN FALSE ELSE p.bypass
           q1 == [p EXCEPT !.at = j]
           q2 == [q1 EXCEPT !.edit = e]
           q == [q2 EXCEPT !.bypass = by]
           r == Detail!ResetEdit(q)
           fresh == [r EXCEPT !.override = Detail!NoContent]
<1>1. p \in PageType /\ j # NoScope /\ by \in BOOLEAN
  BY DetailAssumption DEF Effected, PageType
<1>2. [p EXCEPT !.at = j, !.edit = e, !.bypass = by] = q  BY <1>1 DEF PageType
<1>3. /\ q \in PageType /\ q.at = j /\ q.edit = e /\ q.override = p.override
      /\ q.editing = p.editing /\ q.snap = p.snap /\ q.draft = p.draft
      /\ ~p.bypass \/ (p.edit /\ ~e) => ~q.bypass
  BY <1>1 DEF PageType
<1> HIDE DEF q, by
<1>4. CASE j = p.at
  <2>1. Detail!Moved(p, j, e, d) = Detail!Settled(q, d)
    BY <1>2, <1>4 DEF Detail!Moved, by
  <2>2. Effected(q) /\ (EditsOwn(p) => EditsOwn(q))
    BY <1>1, <1>3, <1>4 DEF Effected, EditsSnapshot, EditsOwn
  <2> QED BY <1>3, <2>1, <2>2, EffectKeeps
<1>5. CASE j # p.at
  <2> DEFINE n == [q EXCEPT !.override = Detail!NoContent]
  <2>1. /\ n \in PageType /\ n.at = j /\ n.edit = e /\ n.override = Detail!NoContent
        /\ n.editing = p.editing /\ n.snap = p.snap /\ n.draft = p.draft
    BY <1>3, Blanks DEF PageType
  <2>2. r \in PageType /\ ~r.editing /\ r.at = j /\ r.edit = e /\ r.bypass = q.bypass
    <3> DEFINE a == [q EXCEPT !.editing = FALSE]
               b == [a EXCEPT !.snap = Detail!NoContent]
               c == [b EXCEPT !.draft = Detail!First]
               g == [c EXCEPT !.failed = FALSE]
    <3>1. g \in PageType /\ ~g.editing /\ g.at = j /\ g.edit = e /\ g.bypass = q.bypass
      BY <1>3, Blanks DEF PageType
    <3>2. r = g  BY <1>3, Blanks DEF Detail!ResetEdit, PageType
    <3> HIDE DEF g
    <3> QED BY <3>1, <3>2
  <2> HIDE DEF r
  <2>3. /\ fresh \in PageType /\ ~fresh.editing /\ fresh.at = j /\ fresh.edit = e
        /\ fresh.override = Detail!NoContent /\ fresh.bypass = r.bypass
    BY <2>2, Blanks DEF PageType
  <2> HIDE DEF fresh
  <2>4. Effected(fresh) /\ EditsOwn(fresh)
    BY <1>1, <2>3 DEF Effected, EditsSnapshot, EditsOwn
  <2>5. CASE e /\ ~p.editing /\ ~p.saving /\ p.override # Detail!NoContent
    <3>1. p.override \in Detail!Contents /\ p.override.of \in Details
      BY <1>1, <2>5 DEF Effected, PageType
    <3>2. Detail!Moved(p, j, e, d) = Detail!Begin(fresh, p.override)
      BY <1>2, <1>5, <2>5 DEF Detail!Moved, by, fresh, r
    <3> DEFINE m == Detail!Begin(fresh, p.override)
    <3>3. /\ Effected(m) /\ m.at = j /\ m.edit = e /\ m.bypass = fresh.bypass
      BY <1>1, <2>3, <2>4, <3>1, BeginKeeps
    <3> HIDE DEF m
    <3>4. PageOK(m)  BY <2>5, <3>3 DEF PageOK
    <3>5. ~p.bypass \/ (p.edit /\ ~e) => ~m.bypass  BY <1>3, <2>2, <2>3, <3>3
    <3> QED BY <1>5, <2>5, <3>2, <3>3, <3>4, <3>5 DEF m
  <2>6. CASE ~(e /\ ~p.editing /\ ~p.saving /\ p.override # Detail!NoContent)
    <3>1. Detail!Moved(p, j, e, d) = Detail!Settled(fresh, d)
      BY <1>2, <1>5, <2>6 DEF Detail!Moved, by, fresh, r
    <3> QED BY <1>3, <2>2, <2>3, <2>4, <3>1, EffectKeeps
  <2> QED BY <2>5, <2>6
<1> QED BY <1>4, <1>5

\* The same, out of the edit mode.
LEMMA MoveOut ==
  ASSUME NEW p, Effected(p), p.at # NoScope, NEW j \in Details, NEW d, DataOK(d)
  PROVE  /\ PageOK(Detail!Moved(p, j, FALSE, d)) /\ Detail!Moved(p, j, FALSE, d).at = j
         /\ EditsOwn(p) => EditsOwn(Detail!Moved(p, j, FALSE, d))
         /\ ~p.bypass \/ p.edit => ~Detail!Moved(p, j, FALSE, d).bypass
<1> DEFINE e == FALSE
<1>1. e \in BOOLEAN /\ ~e  OBVIOUS
<1> HIDE DEF e
<1>2. /\ PageOK(Detail!Moved(p, j, e, d)) /\ Detail!Moved(p, j, e, d).at = j
      /\ EditsOwn(p) => EditsOwn(Detail!Moved(p, j, e, d))
      /\ ~p.bypass \/ p.edit => ~Detail!Moved(p, j, e, d).bypass
  BY <1>1, MoveKeeps
<1> QED BY <1>2, Zenon DEF e

LEMMA AtKeeps ==
  ASSUME NEW p, PageOK(p), NEW j \in Details \cup {NoScope}, NEW e \in BOOLEAN,
         NEW d, DataOK(d)
  PROVE  /\ PageOK(Detail!At(p, j, e, d)) /\ Detail!At(p, j, e, d).at = j
         /\ EditsOwn(p) /\ (e /\ j # NoScope => j = p.at \/ p.override = Detail!NoContent) =>
              EditsOwn(Detail!At(p, j, e, d))
         /\ ~p.bypass => ~Detail!At(p, j, e, d).bypass
<1>1. CASE j = NoScope
  <2>1. Detail!At(p, j, e, d) = Detail!NoPage  BY <1>1 DEF Detail!At
  <2> QED BY <1>1, <2>1, Blanks DEF PageOK, Effected, EditsSnapshot, EditsOwn
<1>2. CASE j # NoScope /\ p.at = NoScope
  <2> DEFINE a == [Detail!NoPage EXCEPT !.at = j]
             q == [a EXCEPT !.edit = e]
  <2>1. /\ q \in PageType /\ ~q.editing /\ q.at = j /\ q.override = Detail!NoContent
        /\ ~q.bypass
    BY Blanks DEF PageType
  <2>2. [Detail!NoPage EXCEPT !.at = j, !.edit = e] = q  BY Blanks DEF PageType
  <2> HIDE DEF q
  <2>3. Detail!At(p, j, e, d) = Detail!Settled(q, d)  BY <1>2, <2>2 DEF Detail!At
  <2>4. Effected(q) /\ EditsOwn(q)  BY <1>2, <2>1 DEF Effected, EditsSnapshot, EditsOwn
  <2> QED BY <2>1, <2>3, <2>4, EffectKeeps
<1>3. CASE j # NoScope /\ p.at # NoScope
  <2>1. Detail!At(p, j, e, d) = Detail!Moved(p, j, e, d)  BY <1>3 DEF Detail!At
  <2> QED BY <1>3, <2>1, MoveKeeps DEF PageOK
<1> QED BY <1>1, <1>2, <1>3

LEMMA AtOut ==
  ASSUME NEW p, PageOK(p), NEW j \in Details \cup {NoScope}, NEW d, DataOK(d)
  PROVE  /\ PageOK(Detail!At(p, j, FALSE, d)) /\ Detail!At(p, j, FALSE, d).at = j
         /\ EditsOwn(p) => EditsOwn(Detail!At(p, j, FALSE, d))
         /\ ~p.bypass => ~Detail!At(p, j, FALSE, d).bypass
<1> DEFINE e == FALSE
<1>1. e \in BOOLEAN /\ ~e  OBVIOUS
<1> HIDE DEF e
<1>2. /\ PageOK(Detail!At(p, j, e, d)) /\ Detail!At(p, j, e, d).at = j
      /\ EditsOwn(p) => EditsOwn(Detail!At(p, j, e, d))
      /\ ~p.bypass => ~Detail!At(p, j, e, d).bypass
  BY <1>1, AtKeeps
<1> QED BY <1>2, Zenon DEF e

LEMMA DetailStarts == Detail!Init => DetailInv
<1> SUFFICES ASSUME Detail!Init PROVE DetailInv  OBVIOUS
<1>1. PageOK(detail)  BY Blanks DEF Detail!Init, PageOK, Effected, EditsSnapshot
<1>2. EditOK(edit, detail.at)  BY Blanks DEF Detail!Init, EditOK, SendsEdits
<1>3. DataOK(data)  BY Blanks DEF Detail!Init, DataOK
<1>4. files \in [Details -> Detail!Vals]  BY Blanks DEF Detail!Init
<1> QED BY <1>1, <1>2, <1>3, <1>4 DEF Detail!Init, DetailInv

\* What is read of a journal is its own.
LEMMA ReadKeeps ==
  ASSUME DetailInv, NEW j \in Details
  PROVE  /\ Detail!Content(j, files[j]) \in Detail!Contents
         /\ Detail!Content(j, files[j]).of = j
         /\ DataOK([data EXCEPT ![j] = Detail!Content(j, files[j])])
<1>1. /\ Detail!Content(j, files[j]) \in Detail!Contents
      /\ Detail!Content(j, files[j]).of = j
  BY DEF DetailInv, Detail!Content, Detail!Contents
<1> DEFINE c == Detail!Content(j, files[j])
<1> HIDE DEF c
<1>2. DataOK([data EXCEPT ![j] = c])  BY <1>1 DEF DetailInv, DataOK, c
<1> QED BY <1>1, <1>2 DEF c

\* The user goes to another URL, and useJournal answers.
LEMMA GoKeeps ==
  ASSUME DetailInv, NEW j \in Details \cup {NoScope}, NEW e \in BOOLEAN, Detail!Go(j, e)
  PROVE  DetailInv'
<1>1. /\ detail' = Detail!At(detail, j, e, data) /\ data' = data /\ files' = files
      /\ dropped' \in {"none", "cancelled", "prompted", "saved", "unprompted"}
      /\ edit' = IF j = NoScope THEN [edit EXCEPT !.here = FALSE]
                 ELSE IF edit.here THEN [edit EXCEPT !.on = j] ELSE edit
  BY DEF Detail!Go, DetailInv
<1>2. PageOK(detail') /\ detail'.at = j
  <2>1. PageOK(detail) /\ DataOK(data)  BY DEF DetailInv
  <2>2. PageOK(Detail!At(detail, j, e, data)) /\ Detail!At(detail, j, e, data).at = j
    BY <2>1, AtKeeps
  <2> QED BY <1>1, <2>2
<1>3. edit \in SaveType /\ (edit.here => edit.on \in Details /\ edit.on = detail.at)
  BY Blanks DEF DetailInv, EditOK
<1>4. EditOK(edit', j)
  <2>1. CASE j = NoScope
    <3> DEFINE s == [edit EXCEPT !.here = FALSE]
    <3>1. /\ s \in SaveType /\ ~s.here /\ s.step = edit.step /\ s.id = edit.id /\ s.on = edit.on
          /\ s.diff = edit.diff /\ s.sent = edit.sent
      BY <1>3 DEF SaveType
    <3>2. edit = Detail!NoSave => s = Detail!NoSave
      <4> SUFFICES ASSUME edit = Detail!NoSave PROVE s = edit  OBVIOUS
      <4>1. edit.here = FALSE  BY DEF Detail!NoSave
      <4> QED BY <1>3, <4>1 DEF SaveType
    <3>3. edit' = s  BY <1>1, <2>1
    <3> HIDE DEF s
    <3> QED BY <3>1, <3>2, <3>3 DEF DetailInv, EditOK, SendsEdits
  <2>2. CASE j # NoScope /\ edit.here
    <3> DEFINE s == [edit EXCEPT !.on = j]
    <3>1. /\ s \in SaveType /\ s.here /\ s.step = edit.step /\ s.id = edit.id /\ s.on = j
          /\ s.diff = edit.diff /\ s.sent = edit.sent
      BY <1>3, <2>2 DEF SaveType
    <3>2. edit # Detail!NoSave  BY <2>2, Blanks
    <3>3. edit' = s  BY <1>1, <2>2
    <3> HIDE DEF s
    <3> QED BY <2>2, <3>1, <3>2, <3>3 DEF DetailInv, EditOK, SendsEdits
  <2>3. CASE j # NoScope /\ ~edit.here
    <3>1. edit' = edit  BY <1>1, <2>3
    <3> QED BY <2>3, <3>1 DEF DetailInv, EditOK, SendsEdits
  <2> QED BY <2>1, <2>2, <2>3
<1> QED BY <1>1, <1>2, <1>4 DEF DetailInv

LEMMA LoadsKeeps ==
  ASSUME DetailInv, Detail!Loads
  PROVE  DetailInv'
<1>1. detail.at \in Details  BY DEF Detail!Loads, DetailInv, PageOK, Effected, PageType
<1>2. /\ data' = [data EXCEPT ![detail.at] = Detail!Content(detail.at, files[detail.at])]
      /\ detail' = Detail!Settled(detail, data')
      /\ UNCHANGED <<edit, files, writes, dropped>>
  BY DEF Detail!Loads
<1>3. DataOK(data')  BY <1>1, <1>2, ReadKeeps
<1>4. PageOK(detail') /\ detail'.at = detail.at
  <2>1. Effected(detail)  BY DEF DetailInv, PageOK
  <2> QED BY <1>2, <1>3, <2>1, EffectKeeps
<1> QED BY <1>2, <1>3, <1>4 DEF DetailInv

\* A field of the form is edited, or the edit is cancelled.
LEMMA FormKeeps ==
  ASSUME DetailInv, Detail!Cancel \/ \E x \in DetailFields : Detail!Edit(x)
  PROVE  DetailInv'
<1>1. detail \in PageType /\ Effected(detail)  BY DEF DetailInv, PageOK, Effected
<1>2. UNCHANGED <<edit, data, files, writes>>  BY DEF Detail!Cancel, Detail!Edit
<1>3. CASE Detail!Cancel
  <2> DEFINE p == [detail EXCEPT !.bypass = TRUE]
             q == Detail!ResetEdit(p)
  <2>1. detail' = Detail!Moved(q, p.at, FALSE, data)
        /\ dropped' \in {"none", "cancelled", "prompted", "saved", "unprompted"}
    BY <1>3 DEF Detail!Cancel, Detail!Exit, DetailInv
  <2>2. detail.at \in Details /\ detail.editing
    BY <1>1, <1>3 DEF Detail!Cancel, Effected, PageType
  <2>3. /\ p \in PageType /\ p.at = detail.at /\ p.editing = detail.editing /\ p.snap = detail.snap
        /\ p.draft = detail.draft /\ p.override = detail.override
    BY <1>1 DEF PageType
  <2> HIDE DEF p
  <2>4. Effected(p)  BY <1>1, <2>3 DEF Effected, EditsSnapshot
  <2>5. Effected(q) /\ q.at = detail.at  BY <2>3, <2>4, ResetKeeps
  <2> HIDE DEF q
  <2>6. PageOK(detail') /\ detail'.at = detail.at
    <3>1. DataOK(data) /\ q.at # NoScope /\ p.at \in Details
      BY <2>2, <2>3, <2>5, DetailAssumption DEF DetailInv
    <3> QED BY <2>1, <2>3, <2>5, <3>1, MoveOut
  <2> QED BY <1>2, <2>1, <2>6 DEF DetailInv
<1>4. CASE \E x \in DetailFields : Detail!Edit(x)
  <2>1. PICK x \in DetailFields : Detail!Edit(x)  BY <1>4
  <2>2. PICK v \in {detail.snap.of, detail.snap.vals[x]} : detail' = [detail EXCEPT !.draft[x] = v]
    BY <2>1 DEF Detail!Edit
  <2> DEFINE d == [detail.draft EXCEPT ![x] = v]
             p == [detail EXCEPT !.draft = d]
  <2>3. /\ detail.editing /\ detail.snap.of \in Details /\ detail.snap \in Detail!Contents
        /\ detail.draft \in Detail!Vals
        /\ \A y \in DetailFields : detail.draft[y] \in {detail.snap.vals[y], detail.snap.of}
    BY <1>1, <2>1 DEF Detail!Edit, Effected, EditsSnapshot, PageType
  <2>4. v \in Detail!Values
    BY <2>3 DEF Detail!Values, Detail!Vals, Detail!Contents
  <2>5. /\ d \in Detail!Vals
        /\ \A y \in DetailFields : d[y] \in {detail.snap.vals[y], detail.snap.of}
    BY <2>3, <2>4 DEF Detail!Vals
  <2>6. detail' = p  BY <2>2
  <2> HIDE DEF d
  <2>7. /\ p \in PageType /\ p.at = detail.at /\ p.edit = detail.edit /\ p.editing = detail.editing
        /\ p.snap = detail.snap /\ p.draft = d /\ p.override = detail.override
    BY <1>1, <2>5 DEF PageType
  <2> HIDE DEF p
  <2>8. PageOK(detail') /\ detail'.at = detail.at
    BY <2>3, <2>5, <2>6, <2>7 DEF DetailInv, PageOK, Effected, EditsSnapshot
  <2>9. dropped' = dropped  BY <2>1 DEF Detail!Edit
  <2> QED BY <1>2, <2>8, <2>9 DEF DetailInv
<1> QED BY <1>3, <1>4

\* A page whose saving alone changes.
LEMMA SavingKeeps ==
  ASSUME NEW p, Effected(p), NEW b \in BOOLEAN
  PROVE  /\ Effected([p EXCEPT !.saving = b]) /\ [p EXCEPT !.saving = b].at = p.at
         /\ [p EXCEPT !.saving = b].edit = p.edit /\ [p EXCEPT !.saving = b].editing = p.editing
         /\ [p EXCEPT !.saving = b].bypass = p.bypass
<1> DEFINE q == [p EXCEPT !.saving = b]
<1>1. p \in PageType  BY DEF Effected
<1>2. /\ q \in PageType /\ q.at = p.at /\ q.edit = p.edit /\ q.editing = p.editing
      /\ q.snap = p.snap /\ q.draft = p.draft /\ q.override = p.override /\ q.bypass = p.bypass
  BY <1>1 DEF PageType
<1> HIDE DEF q
<1>3. Effected(q)  BY <1>2 DEF Effected, EditsSnapshot
<1> QED BY <1>2, <1>3 DEF q

LEMMA FailedKeeps ==
  ASSUME NEW p, Effected(p), NEW b \in BOOLEAN
  PROVE  /\ Effected([p EXCEPT !.failed = b]) /\ [p EXCEPT !.failed = b].at = p.at
         /\ [p EXCEPT !.failed = b].bypass = p.bypass
<1> DEFINE q == [p EXCEPT !.failed = b]
<1>1. p \in PageType  BY DEF Effected
<1>2. /\ q \in PageType /\ q.at = p.at /\ q.edit = p.edit /\ q.editing = p.editing
      /\ q.snap = p.snap /\ q.draft = p.draft /\ q.override = p.override /\ q.bypass = p.bypass
  BY <1>1 DEF PageType
<1> HIDE DEF q
<1>3. Effected(q)  BY <1>2 DEF Effected, EditsSnapshot
<1> QED BY <1>2, <1>3 DEF q

\* A save starts: it sends what differs from the snapshot, edits all of it.
LEMMA SaveStarts ==
  ASSUME DetailInv, Detail!Save \/ Detail!RetryRefresh
  PROVE  DetailInv'
<1>1. /\ detail' = [detail EXCEPT !.saving = TRUE]
      /\ UNCHANGED <<data, files, dropped>>
  BY DEF Detail!Save, Detail!RetryRefresh
<1>2. Effected(detail) /\ detail \in PageType  BY DEF DetailInv, PageOK, Effected
<1>3. PageOK(detail') /\ detail'.at = detail.at
  BY <1>1, <1>2, SavingKeeps DEF DetailInv, PageOK
<1>4. detail.editing /\ detail.at \in Details
  BY <1>2 DEF Detail!Save, Detail!RetryRefresh, Detail!Dirty, Effected, PageType
<1>5. EditOK(edit', detail.at)
  <2>1. CASE Detail!Save
    <3> DEFINE df == Detail!Diff(detail.snap.vals, detail.draft)
               s == [step |-> "sent", id |-> detail.at, diff |-> df,
                     sent |-> detail.draft, here |-> TRUE, on |-> detail.at]
    <3>1. edit' = s  BY <2>1 DEF Detail!Save
    <3>2. /\ df \subseteq DetailFields /\ detail.draft \in Detail!Vals
          /\ \A x \in df : detail.draft[x] \in Details
      BY <1>2, <1>4 DEF Detail!Diff, Effected, EditsSnapshot, PageType
    <3> HIDE DEF df
    <3>3. s \in SaveType  BY <1>4, <3>2 DEF SaveType
    <3> QED BY <1>4, <3>1, <3>2, <3>3 DEF EditOK, SendsEdits
  <2>2. CASE Detail!RetryRefresh
    <3> DEFINE a == [Detail!NoSave EXCEPT !.step = "refetching"]
               b == [a EXCEPT !.id = detail.at]
               c == [b EXCEPT !.here = TRUE]
               s == [c EXCEPT !.on = detail.at]
    <3>1. edit' = s  BY <2>2, Blanks DEF Detail!RetryRefresh, Detail!NoSave
    <3>2. /\ s \in SaveType /\ s.step = "refetching" /\ s.id = detail.at /\ s.here
          /\ s.on = detail.at /\ s.diff = {}
      BY <1>4, Blanks DEF SaveType
    <3> HIDE DEF s
    <3> QED BY <1>4, <3>1, <3>2 DEF EditOK, SendsEdits
  <2> QED BY <2>1, <2>2
<1> QED BY <1>1, <1>3, <1>5 DEF DetailInv

\* The backend writes what the save sent, or refuses it, and answers.
LEMMA WriteKeeps ==
  ASSUME DetailInv, Detail!EditWrites \/ Detail!EditRefused \/ Detail!SaveReturns
  PROVE  DetailInv'
<1>1. UNCHANGED <<detail, data, dropped>>
  BY DEF Detail!EditWrites, Detail!EditRefused, Detail!SaveReturns
<1>2. edit \in SaveType /\ edit.step # "none" /\ edit.id \in Details /\ edit.on \in Details
  BY Blanks DEF DetailInv, EditOK, Detail!EditWrites, Detail!EditRefused, Detail!SaveReturns
<1>3. files' \in [Details -> Detail!Vals]
  <2>1. CASE Detail!EditWrites
    <3> DEFINE v == [x \in DetailFields |-> IF x \in edit.diff THEN edit.sent[x] ELSE files[edit.id][x]]
    <3>1. files' = [files EXCEPT ![edit.id] = v]  BY <2>1 DEF Detail!EditWrites
    <3>2. v \in Detail!Vals  BY <1>2 DEF DetailInv, SaveType, Detail!Vals
    <3> HIDE DEF v
    <3> QED BY <3>1, <3>2 DEF DetailInv
  <2>2. CASE Detail!EditRefused \/ Detail!SaveReturns
    BY <2>2 DEF DetailInv, Detail!EditRefused, Detail!SaveReturns
  <2> QED BY <2>1, <2>2
<1>4. EditOK(edit', detail.at)
  <2>1. CASE Detail!EditWrites \/ Detail!EditRefused
    <3>1. PICK step \in {"written", "failed"} : edit' = [edit EXCEPT !.step = step]
      BY <2>1 DEF Detail!EditWrites, Detail!EditRefused
    <3> DEFINE s == [edit EXCEPT !.step = step]
    <3>2. /\ s \in SaveType /\ s.step # "none" /\ s.id = edit.id /\ s.on = edit.on
          /\ s.here = edit.here /\ s.diff = edit.diff /\ s.sent = edit.sent
      BY <1>2 DEF SaveType
    <3>3. edit' = s  BY <3>1
    <3> HIDE DEF s
    <3> QED BY <1>2, <3>2, <3>3 DEF DetailInv, EditOK, SendsEdits
  <2>2. CASE Detail!SaveReturns
    <3> DEFINE a == [edit EXCEPT !.step = "refetching"]
               b == [a EXCEPT !.diff = {}]
               s == [b EXCEPT !.sent = Detail!First]
    <3>1. edit' = s  BY <1>2, <2>2 DEF Detail!SaveReturns, SaveType
    <3>2. /\ s \in SaveType /\ s.step # "none" /\ s.id = edit.id /\ s.on = edit.on
          /\ s.here = edit.here /\ s.diff = {}
      BY <1>2, Blanks DEF SaveType
    <3> HIDE DEF s
    <3> QED BY <1>2, <3>1, <3>2 DEF DetailInv, EditOK, SendsEdits
  <2> QED BY <2>1, <2>2
<1> QED BY <1>1, <1>3, <1>4 DEF DetailInv

LEMMA NoSaveOK == \A at : EditOK(Detail!NoSave, at)
BY Blanks DEF EditOK, SendsEdits

LEMMA UnsavingKeeps ==
  ASSUME DetailInv
  PROVE  /\ Effected(Detail!Unsaving(detail)) /\ Detail!Unsaving(detail).at = detail.at
         /\ Detail!Unsaving(detail).edit = detail.edit
         /\ Detail!Unsaving(detail).editing = detail.editing
         /\ Detail!Unsaving(detail).bypass = detail.bypass
<1>1. Effected(detail)  BY DEF DetailInv, PageOK
<1> QED BY <1>1, SavingKeeps DEF Detail!Unsaving

\* The save fails, or what it wrote cannot be read again.
LEMMA FailKeeps ==
  ASSUME DetailInv, Detail!SaveFails \/ Detail!RefetchFails
  PROVE  DetailInv'
<1>1. edit' = Detail!NoSave /\ UNCHANGED <<data, files, dropped>>
  BY DEF Detail!SaveFails, Detail!RefetchFails
<1>2. PageOK(detail')
  <2>1. CASE Detail!SaveFails
    BY <2>1, UnsavingKeeps, EffectKeeps DEF Detail!SaveFails, DetailInv
  <2>2. CASE Detail!RefetchFails
    <3>1. Effected([Detail!Unsaving(detail) EXCEPT !.failed = TRUE])
      BY UnsavingKeeps, FailedKeeps
    <3> QED BY <2>2, <3>1, EffectKeeps DEF Detail!RefetchFails, DetailInv
  <2> QED BY <2>1, <2>2
<1> QED BY <1>1, <1>2, NoSaveOK DEF DetailInv

\* The page shows what was read again, and is at the journal that was saved.
LEMMA RefetchKeeps ==
  ASSUME DetailInv, Detail!RefetchReturns
  PROVE  DetailInv'
<1> DEFINE read == Detail!Content(edit.on, files[edit.on])
           d == [data EXCEPT ![edit.on] = read]
           u == Detail!Unsaving(detail)
           p == [u EXCEPT !.override = read, !.bypass = TRUE]
           seen == Detail!ResetEdit(p)
<1>1. edit.id \in Details /\ edit.on \in Details /\ (edit.here => edit.on = detail.at)
  BY Blanks DEF DetailInv, EditOK, Detail!RefetchReturns
<1>2. /\ edit' = Detail!NoSave /\ files' = files /\ data' = d
      /\ IF edit.here
         THEN /\ detail' = Detail!Moved(seen, edit.id, FALSE, d)
              /\ dropped' = IF Detail!Dirty(detail) THEN "saved" ELSE dropped
         ELSE \/ /\ detail' = Detail!At(detail, edit.id, FALSE, d)
                 /\ dropped' = IF Detail!Dirty(detail) THEN "prompted" ELSE dropped
              \/ /\ Detail!Dirty(detail)
                 /\ UNCHANGED <<detail, dropped>>
  BY DEF Detail!RefetchReturns
<1>3. read \in Detail!Contents /\ read.of = edit.on /\ DataOK(d)  BY <1>1, ReadKeeps
<1>4. Effected(u) /\ u.at = detail.at  BY UnsavingKeeps
<1> HIDE DEF read, d, u, p
<1>5. edit.here => Effected(seen) /\ seen.at = detail.at
  <2> SUFFICES ASSUME edit.here PROVE Effected(seen) /\ seen.at = detail.at  OBVIOUS
  <2> DEFINE a == [u EXCEPT !.override = read]
             b == [a EXCEPT !.bypass = TRUE]
  <2>1. u \in PageType  BY <1>4 DEF Effected
  <2>2. /\ b \in PageType /\ b.at = u.at /\ b.editing = u.editing /\ b.snap = u.snap
        /\ b.draft = u.draft /\ b.override = read
    BY <1>3, <2>1 DEF PageType
  <2>3. p = b  BY <1>3, <2>1 DEF p, PageType
  <2> HIDE DEF b
  <2>4. Effected(p)  BY <1>1, <1>3, <1>4, <2>2, <2>3 DEF Effected, EditsSnapshot
  <2> QED BY <1>4, <2>2, <2>3, <2>4, ResetKeeps
<1> HIDE DEF seen
<1>6. PageOK(detail')
  <2>1. CASE edit.here
    <3>1. seen.at # NoScope  BY <1>1, <1>5, <2>1, DetailAssumption
    <3>2. PageOK(Detail!Moved(seen, edit.id, FALSE, d))
      BY <1>1, <1>3, <1>5, <2>1, <3>1, MoveOut
    <3> QED BY <1>2, <2>1, <3>2
  <2>2. CASE ~edit.here
    <3>1. PageOK(Detail!At(detail, edit.id, FALSE, d))  BY <1>1, <1>3, AtOut DEF DetailInv
    <3> QED BY <1>2, <2>2, <3>1 DEF DetailInv
  <2> QED BY <2>1, <2>2
<1>7. dropped' \in {"none", "cancelled", "prompted", "saved", "unprompted"}
  BY <1>2 DEF DetailInv
<1> QED BY <1>2, <1>3, <1>6, <1>7, NoSaveOK DEF DetailInv

LEMMA OthersKeep ==
  ASSUME DetailInv, NEW j \in Details, NEW x \in DetailFields, Detail!OthersWrite(j, x)
  PROVE  DetailInv'
<1>1. UNCHANGED <<detail, edit, data, dropped>> /\ files' = [files EXCEPT ![j][x] = "theirs"]
  BY DEF Detail!OthersWrite
<1> DEFINE v == [files[j] EXCEPT ![x] = "theirs"]
<1>2. v \in Detail!Vals  BY DEF DetailInv, Detail!Vals, Detail!Values
<1>3. files' = [files EXCEPT ![j] = v]  BY <1>1
<1> HIDE DEF v
<1>4. files' \in [Details -> Detail!Vals]  BY <1>2, <1>3 DEF DetailInv
<1> QED BY <1>1, <1>4 DEF DetailInv

LEMMA DetailSteps ==
  ASSUME DetailInv, Detail!Next \/ UNCHANGED detailVars
  PROVE  DetailInv'
<1>1. CASE Detail!Next
  BY <1>1, GoKeeps, LoadsKeeps, FormKeeps, SaveStarts, WriteKeeps, FailKeeps, RefetchKeeps,
     OthersKeep DEF Detail!Next, Detail!SaveStep
<1>2. CASE UNCHANGED detailVars
  BY <1>2 DEF detailVars, DetailInv
<1> QED BY <1>1, <1>2

\* A save replaces what another program wrote by an edit only.
LEMMA DetailOthers ==
  ASSUME DetailInv, Detail!Next \/ UNCHANGED detailVars,
         NEW j \in Details, NEW x \in DetailFields, files[j][x] = "theirs"
  PROVE  files'[j][x] \in {"theirs"} \cup Details
<1>1. files \in [Details -> Detail!Vals]  BY DEF DetailInv
<1>2. CASE Detail!EditWrites
  <2> DEFINE v == [y \in DetailFields |-> IF y \in edit.diff THEN edit.sent[y] ELSE files[edit.id][y]]
  <2>1. files' = [files EXCEPT ![edit.id] = v]  BY <1>2 DEF Detail!EditWrites
  <2>2. \A y \in edit.diff : edit.sent[y] \in Details  BY DEF DetailInv, EditOK, SendsEdits
  <2>3. j = edit.id => v[x] \in {"theirs"} \cup Details  BY <2>2
  <2> HIDE DEF v
  <2> QED BY <1>1, <2>1, <2>3
<1>3. CASE \E i \in Details, y \in DetailFields : Detail!OthersWrite(i, y)
  <2>1. PICK i \in Details, y \in DetailFields : Detail!OthersWrite(i, y)  BY <1>3
  <2> DEFINE v == [files[i] EXCEPT ![y] = "theirs"]
  <2>2. files' = [files EXCEPT ![i] = v]  BY <2>1 DEF Detail!OthersWrite
  <2>3. i = j => v[x] = "theirs"  BY <1>1 DEF Detail!Vals
  <2> HIDE DEF v
  <2> QED BY <1>1, <2>2, <2>3
<1>4. CASE files' = files  BY <1>4
<1>5. Detail!EditWrites \/ (\E i \in Details, y \in DetailFields : Detail!OthersWrite(i, y))
      \/ files' = files
  BY DEF Detail!Next, Detail!Go, Detail!Loads, Detail!Edit, Detail!Cancel, Detail!Save,
         Detail!RetryRefresh, Detail!SaveStep, Detail!EditRefused, Detail!SaveFails,
         Detail!SaveReturns, Detail!RefetchFails, Detail!RefetchReturns, detailVars
<1> QED BY <1>2, <1>3, <1>4, <1>5

-----------------------------------------------------------------------------
(* The drawer.  While a call is pending its request names the draft and text *)
(* it was made for (AskedOK), and a review that has not expired is the       *)
(* record in the cache (ReviewIsCached): that is why a capsule which says    *)
(* "filled" speaks of the draft it is shown with.                            *)
DraftsOK == drawn \in [Forms -> [text : Texts, fields : [ProposalFields -> Drawer!Values]]]

RequestType == [scope : Forms \cup {NoScope}, text : Texts \cup {NoScope},
                base : [ProposalFields -> Drawer!Values], late : BOOLEAN]
CallType == [step : {"none", "pending", "answered", "issue"}, of : Drawer!Proposals \cup {NoScope}]

AskedOK ==
  /\ request \in RequestType /\ call \in CallType
  /\ call.step = "pending" =>
       /\ drawer # NoScope /\ requests # 0
       /\ request.scope \in Forms /\ request.text \in Texts
       /\ call.of = <<request.scope, request.text>>

ReviewIsCached ==
  /\ review \in Drawer!Records \cup {NoScope} /\ proposals \in Drawer!Records \cup {NoScope}
  /\ review # NoScope => review.old \/ review = proposals

DrawerInv ==
  /\ DraftsOK /\ AskedOK /\ ReviewIsCached
  /\ drawer \in Forms \cup {NoScope} /\ ready \in BOOLEAN
  /\ requests \in 0..MaxRequests

LEMMA DrawerGives ==
  ASSUME DrawerInv
  PROVE  Drawer!TypeOK /\ Drawer!FilledIsOfThisText
<1>1. request \in RequestType /\ call \in CallType  BY DEF DrawerInv, AskedOK
<1>2. call.step = "pending" => call.of = <<request.scope, request.text>>
  BY DEF DrawerInv, AskedOK
<1>3. Drawer!TypeOK
  BY <1>1, <1>2 DEF DrawerInv, DraftsOK, ReviewIsCached, RequestType, CallType, Drawer!TypeOK
<1>4. Drawer!FilledIsOfThisText
  <2> SUFFICES ASSUME Drawer!Status \in {"filled", "partial"}
               PROVE  proposals # NoScope /\ proposals.scope = drawer /\ proposals.text = Drawer!Text
    BY DEF Drawer!FilledIsOfThisText
  <2>1. review # NoScope /\ ~Drawer!Stale(review)  BY DEF Drawer!Status
  <2>2. ~review.old /\ review.scope = drawer /\ review.text = Drawer!Text
    BY <2>1 DEF Drawer!Stale
  <2>3. review = proposals  BY <2>1, <2>2 DEF DrawerInv, ReviewIsCached
  <2> QED BY <2>1, <2>2, <2>3
<1> QED BY <1>3, <1>4

LEMMA DrawerBlanks ==
  /\ Drawer!NoSnapshot \in RequestType /\ Drawer!NoCall \in CallType
  /\ Drawer!NoCall.step = "none" /\ Drawer!Blank \in [ProposalFields -> Drawer!Values]
<1>1. Drawer!Blank \in [ProposalFields -> Drawer!Values]  BY DEF Drawer!Blank, Drawer!Values
<1> QED BY <1>1 DEF Drawer!NoSnapshot, Drawer!NoCall, RequestType, CallType

LEMMA DrawerStarts == Drawer!Init => DrawerInv
<1> SUFFICES ASSUME Drawer!Init PROVE DrawerInv  OBVIOUS
<1>1. DraftsOK  BY DrawerBlanks DEF Drawer!Init, DraftsOK
<1>2. AskedOK  BY DrawerBlanks DEF Drawer!Init, AskedOK
<1>3. ReviewIsCached  BY DEF Drawer!Init, ReviewIsCached
<1>4. drawer \in Forms \cup {NoScope} /\ ready \in BOOLEAN  BY DEF Drawer!Init
<1>5. requests \in 0..MaxRequests  BY DrawerAssumption DEF Drawer!Init
<1> QED BY <1>1, <1>2, <1>3, <1>4, <1>5 DEF DrawerInv

\* What is read of the cache is the record there, once expired ones are gone.
LEMMA CacheReads ==
  ASSUME ReviewIsCached, NEW s
  PROVE  /\ Drawer!Purged(proposals) \in Drawer!Records \cup {NoScope}
         /\ Drawer!Purged(proposals) \in {proposals, NoScope}
         /\ proposals # NoScope /\ ~proposals.old => Drawer!Purged(proposals) = proposals
         /\ Drawer!Cached(s) \in Drawer!Records \cup {NoScope}
         /\ Drawer!Cached(s) # NoScope =>
              Drawer!Cached(s) = proposals /\ Drawer!Purged(proposals) = proposals
<1>1. /\ Drawer!Purged(proposals) \in Drawer!Records \cup {NoScope}
      /\ Drawer!Purged(proposals) \in {proposals, NoScope}
      /\ proposals # NoScope /\ ~proposals.old => Drawer!Purged(proposals) = proposals
  BY DEF ReviewIsCached, Drawer!Purged
<1> QED BY <1>1 DEF ReviewIsCached, Drawer!Cached

LEMMA ReviewedKeeps ==
  ASSUME ReviewIsCached, NEW s, Drawer!Reviewed(s)
  PROVE  ReviewIsCached'
<1>1. proposals' = Drawer!Purged(proposals)
      /\ review' = IF Drawer!Cached(s) # NoScope THEN Drawer!Cached(s)
                   ELSE IF review # NoScope /\ review.scope = s THEN review ELSE NoScope
  BY DEF Drawer!Reviewed
<1> QED BY <1>1, CacheReads DEF ReviewIsCached

\* The drawer opens, closes, or moves to another draft or text.
LEMMA ScopeSteps ==
  ASSUME DrawerInv,
         \/ Drawer!Unmount
         \/ \E s \in Forms : Drawer!Mount(s) \/ Drawer!OpenDraft(s)
         \/ \E t \in Texts : Drawer!Write(t)
  PROVE  DrawerInv'
<1>1. CASE Drawer!Unmount
  BY <1>1, DrawerBlanks DEF Drawer!Unmount, DrawerInv, DraftsOK, AskedOK, ReviewIsCached
<1>2. CASE \E s \in Forms : Drawer!Mount(s)
  <2>1. PICK s \in Forms : Drawer!Mount(s)  BY <1>2
  <2>2. ReviewIsCached'  BY <2>1, CacheReads DEF Drawer!Mount, DrawerInv, ReviewIsCached
  <2> QED BY <2>1, <2>2, DrawerBlanks DEF Drawer!Mount, DrawerInv, DraftsOK, AskedOK
<1>3. CASE \E s \in Forms : Drawer!OpenDraft(s)
  <2>1. PICK s \in Forms : Drawer!OpenDraft(s)  BY <1>3
  <2>2. ReviewIsCached'  BY <2>1, ReviewedKeeps DEF Drawer!OpenDraft, DrawerInv
  <2>3. AskedOK'
    <3>1. drawer' = s /\ UNCHANGED <<request, call, requests>> /\ drawer # NoScope
      BY <2>1 DEF Drawer!OpenDraft, Drawer!Open
    <3>2. s # NoScope \/ call.step # "pending"
      BY DrawerAssumption
    <3> QED BY <3>1, <3>2 DEF DrawerInv, AskedOK
  <2> QED BY <2>1, <2>2, <2>3 DEF Drawer!OpenDraft, DrawerInv, DraftsOK
<1>4. CASE \E t \in Texts : Drawer!Write(t)
  <2>1. PICK t \in Texts : Drawer!Write(t)  BY <1>4
  <2>2. ReviewIsCached'  BY <2>1, ReviewedKeeps DEF Drawer!Write, DrawerInv
  <2> DEFINE d == [drawn[drawer] EXCEPT !.text = t]
  <2>3. drawn' = [drawn EXCEPT ![drawer] = d]  BY <2>1 DEF Drawer!Write
  <2>4. d \in [text : Texts, fields : [ProposalFields -> Drawer!Values]]
    BY <2>1 DEF Drawer!Write, Drawer!Open, DrawerInv, DraftsOK
  <2> HIDE DEF d
  <2>5. DraftsOK'  BY <2>3, <2>4 DEF DrawerInv, DraftsOK
  <2> QED BY <2>1, <2>2, <2>5 DEF Drawer!Write, DrawerInv, AskedOK
<1> QED BY <1>1, <1>2, <1>3, <1>4

LEMMA FieldSteps ==
  ASSUME DrawerInv,
         \/ \E x \in ProposalFields, v \in {Empty, Own} : Drawer!EditField(x, v)
         \/ \E b \in BOOLEAN : Drawer!HealthAnswers(b)
  PROVE  DrawerInv'
<1>1. CASE \E x \in ProposalFields, v \in {Empty, Own} : Drawer!EditField(x, v)
  <2>1. PICK x \in ProposalFields, v \in {Empty, Own} : Drawer!EditField(x, v)  BY <1>1
  <2> DEFINE k == [drawn[drawer].fields EXCEPT ![x] = v]
             d == [drawn[drawer] EXCEPT !.fields = k]
  <2>2. drawn[drawer] \in [text : Texts, fields : [ProposalFields -> Drawer!Values]]
    BY <2>1 DEF Drawer!EditField, Drawer!Open, DrawerInv, DraftsOK
  <2>3. drawn' = [drawn EXCEPT ![drawer] = d]  BY <2>1 DEF Drawer!EditField
  <2>4. k \in [ProposalFields -> Drawer!Values]  BY <2>2 DEF Drawer!Values
  <2> HIDE DEF k
  <2>5. d \in [text : Texts, fields : [ProposalFields -> Drawer!Values]]  BY <2>2, <2>4
  <2> HIDE DEF d
  <2>6. DraftsOK'  BY <2>3, <2>5 DEF DrawerInv, DraftsOK
  <2> QED BY <2>1, <2>6 DEF Drawer!EditField, DrawerInv, AskedOK, ReviewIsCached
<1>2. CASE \E b \in BOOLEAN : Drawer!HealthAnswers(b)
  BY <1>2 DEF Drawer!HealthAnswers, DrawerInv, DraftsOK, AskedOK, ReviewIsCached
<1> QED BY <1>1, <1>2

\* The capsule is asked: the cache answers, or a request is made.
LEMMA AskSteps ==
  ASSUME DrawerInv, Drawer!RequestFromCache \/ Drawer!RequestProposal
  PROVE  DrawerInv'
<1>1. CASE Drawer!RequestFromCache
  <2>1. ReviewIsCached'
    BY <1>1, CacheReads DEF Drawer!RequestFromCache, DrawerInv, ReviewIsCached
  <2> QED BY <1>1, <2>1 DEF Drawer!RequestFromCache, DrawerInv, DraftsOK, AskedOK
<1>2. CASE Drawer!RequestProposal
  <2>1. drawer \in Forms /\ drawer # NoScope
    BY <1>2 DEF Drawer!RequestProposal, Drawer!CanAsk, Drawer!Open, DrawerInv
  <2>2. drawn[drawer].text \in Texts /\ drawn[drawer].fields \in [ProposalFields -> Drawer!Values]
    BY <2>1 DEF DrawerInv, DraftsOK
  <2> DEFINE r == [scope |-> drawer, text |-> drawn[drawer].text, base |-> drawn[drawer].fields,
                   late |-> FALSE]
             c == [step |-> "pending", of |-> <<drawer, drawn[drawer].text>>]
  <2>3. request' = r /\ call' = c  BY <1>2 DEF Drawer!RequestProposal, Drawer!Text
  <2>4. <<drawer, drawn[drawer].text>> \in Drawer!Proposals  BY <2>1, <2>2 DEF Drawer!Proposals
  <2>5. r \in RequestType /\ c \in CallType  BY <2>1, <2>2, <2>4 DEF RequestType, CallType
  <2>6. requests' \in 0..MaxRequests /\ requests' # 0
    BY <1>2, DrawerAssumption DEF Drawer!RequestProposal, DrawerInv
  <2>7. drawer' = drawer  BY <1>2 DEF Drawer!RequestProposal
  <2>8. AskedOK'  BY <2>1, <2>2, <2>3, <2>5, <2>6, <2>7 DEF AskedOK
  <2>9. ReviewIsCached'
    BY <1>2, CacheReads DEF Drawer!RequestProposal, DrawerInv, ReviewIsCached
  <2> QED BY <1>2, <2>6, <2>8, <2>9 DEF Drawer!RequestProposal, DrawerInv, DraftsOK
<1> QED BY <1>1, <1>2

\* What an answer with fields leaves in the draft that is shown.
LEMMA FillKeeps ==
  ASSUME DrawerInv, NEW fields \in SUBSET ProposalFields, Drawer!Proposed(fields)
  PROVE  \E filled \in SUBSET fields :
           /\ drawn' = [drawn EXCEPT ![drawer] = [drawn[drawer] EXCEPT !.fields =
                          [x \in ProposalFields |-> IF x \in filled THEN call.of ELSE drawn[drawer].fields[x]]]]
           /\ proposals' = Drawer!Record(request.scope, request.text, filled, Drawer!Fresh)
           /\ review' = proposals'
           /\ filled # {} => Drawer!Fresh
           /\ \A x \in filled : drawn[drawer].fields[x] = Empty
<1> DEFINE filled == IF Drawer!Fresh THEN Drawer!Fillable(fields, request.base) ELSE {}
<1>1. /\ filled \in SUBSET fields /\ (filled # {} => Drawer!Fresh)
      /\ \A x \in filled : drawn[drawer].fields[x] = Empty
  BY DEF Drawer!Fillable
<1>2. /\ drawn' = [drawn EXCEPT ![drawer] = [drawn[drawer] EXCEPT !.fields =
                     [x \in ProposalFields |-> IF x \in filled THEN call.of ELSE drawn[drawer].fields[x]]]]
      /\ proposals' = Drawer!Record(request.scope, request.text, filled, Drawer!Fresh)
      /\ review' = proposals'
  BY DEF Drawer!Proposed
<1> HIDE DEF filled
<1> QED BY <1>1, <1>2

LEMMA AnswerSteps ==
  ASSUME DrawerInv, Drawer!AnswerStep
  PROVE  DrawerInv'
<1>1. request \in RequestType /\ call \in CallType /\ drawer \in Forms \cup {NoScope}
  BY DEF DrawerInv, AskedOK
<1>2. CASE Drawer!NotProposed
  <2>1. PICK step \in {"issue", "answered"} : call' = [call EXCEPT !.step = step]
    BY <1>2 DEF Drawer!NotProposed
  <2>2. call' \in CallType /\ call'.step # "pending"  BY <1>1, <2>1 DEF CallType
  <2>3. AskedOK'  BY <1>1, <1>2, <2>2 DEF Drawer!NotProposed, AskedOK
  <2> QED BY <1>2, <2>3 DEF Drawer!NotProposed, DrawerInv, DraftsOK, ReviewIsCached
<1>3. CASE \E fields \in SUBSET ProposalFields : Drawer!Proposed(fields)
  <2>1. PICK fields \in SUBSET ProposalFields : Drawer!Proposed(fields)  BY <1>3
  <2>2. /\ call.step = "pending" /\ call' = [call EXCEPT !.step = "answered"]
        /\ request' = Drawer!NoSnapshot /\ UNCHANGED <<drawer, ready, requests>>
    BY <2>1 DEF Drawer!Proposed
  <2>3. /\ drawer \in Forms /\ requests # 0 /\ request.scope \in Forms /\ request.text \in Texts
        /\ call.of \in Drawer!Proposals
    BY <2>2 DEF DrawerInv, AskedOK, Drawer!Proposals
  <2>4. PICK filled \in SUBSET fields :
           /\ drawn' = [drawn EXCEPT ![drawer] = [drawn[drawer] EXCEPT !.fields =
                          [x \in ProposalFields |-> IF x \in filled THEN call.of ELSE drawn[drawer].fields[x]]]]
           /\ proposals' = Drawer!Record(request.scope, request.text, filled, Drawer!Fresh)
           /\ review' = proposals'
    BY <2>1, FillKeeps
  <2>5. call' \in CallType /\ call'.step # "pending"  BY <1>1, <2>2 DEF CallType
  <2>6. AskedOK'  BY <2>2, <2>5, DrawerBlanks DEF AskedOK
  <2>7. ReviewIsCached'
    <3>1. requests \in 1..MaxRequests  BY <2>3, DrawerAssumption DEF DrawerInv
    <3>2. Drawer!Fresh \in BOOLEAN  BY DEF Drawer!Fresh
    <3>3. Drawer!Record(request.scope, request.text, filled, Drawer!Fresh) \in Drawer!Records
      BY <2>3, <3>1, <3>2 DEF Drawer!Record, Drawer!Records
    <3> QED BY <2>4, <3>3 DEF ReviewIsCached
  <2>8. DraftsOK'
    <3> DEFINE k == [x \in ProposalFields |-> IF x \in filled THEN call.of ELSE drawn[drawer].fields[x]]
               d == [drawn[drawer] EXCEPT !.fields = k]
    <3>1. drawn[drawer] \in [text : Texts, fields : [ProposalFields -> Drawer!Values]]
      BY <2>3 DEF DrawerInv, DraftsOK
    <3>2. k \in [ProposalFields -> Drawer!Values]  BY <2>3, <3>1 DEF Drawer!Values
    <3>3. drawn' = [drawn EXCEPT ![drawer] = d]  BY <2>4
    <3> HIDE DEF k
    <3>4. d \in [text : Texts, fields : [ProposalFields -> Drawer!Values]]  BY <3>1, <3>2
    <3> HIDE DEF d
    <3> QED BY <3>3, <3>4 DEF DrawerInv, DraftsOK
  <2> QED BY <2>2, <2>6, <2>7, <2>8 DEF DrawerInv
<1> QED BY <1>2, <1>3 DEF Drawer!AnswerStep

LEMMA TimeKeeps ==
  ASSUME DrawerInv, Drawer!TimePasses
  PROVE  DrawerInv'
<1>1. /\ request' = [request EXCEPT !.late = request.scope # NoScope]
      /\ proposals' = IF proposals = NoScope THEN NoScope ELSE [proposals EXCEPT !.old = TRUE]
      /\ review' = IF review = NoScope THEN NoScope ELSE [review EXCEPT !.old = TRUE]
      /\ UNCHANGED <<drawn, drawer, ready, call, requests>>
  BY DEF Drawer!TimePasses
<1>2. AskedOK'
  <2>1. /\ request' \in RequestType /\ request'.scope = request.scope
        /\ request'.text = request.text
    BY <1>1 DEF DrawerInv, AskedOK, RequestType
  <2> QED BY <1>1, <2>1 DEF DrawerInv, AskedOK
<1>3. ReviewIsCached'
  <2>1. \A r \in Drawer!Records :
          [r EXCEPT !.old = TRUE] \in Drawer!Records /\ [r EXCEPT !.old = TRUE].old
    BY DEF Drawer!Records
  <2> QED BY <1>1, <2>1 DEF DrawerInv, ReviewIsCached
<1> QED BY <1>1, <1>2, <1>3 DEF DrawerInv, DraftsOK

LEMMA DrawerSteps ==
  ASSUME DrawerInv, Drawer!Next \/ UNCHANGED drawerVars
  PROVE  DrawerInv'
<1>1. CASE Drawer!Next
  BY <1>1, ScopeSteps, FieldSteps, AskSteps, AnswerSteps, TimeKeeps DEF Drawer!Next
<1>2. CASE UNCHANGED drawerVars
  BY <1>2 DEF drawerVars, DrawerInv, DraftsOK, AskedOK, ReviewIsCached
<1> QED BY <1>1, <1>2

\* A proposal fills a field only where it is empty, and only of the draft and
\* the text that it was made for.
LEMMA DrawerFills ==
  ASSUME DrawerInv, Drawer!Next \/ UNCHANGED drawerVars, NEW s \in Forms, NEW x \in ProposalFields
  PROVE  LET was == drawn[s].fields[x]  is == drawn'[s].fields[x]
         IN  /\ was = Own => is \in {Own, Empty}
             /\ is \in Drawer!Proposals /\ is # was => is = <<s, drawn[s].text>>
<1> DEFINE was == drawn[s].fields[x]
           is == drawn'[s].fields[x]
<1>1. drawn[s] \in [text : Texts, fields : [ProposalFields -> Drawer!Values]]
  BY DEF DrawerInv, DraftsOK
<1>2. CASE is = was  BY <1>2
<1>3. CASE \E t \in Texts : Drawer!Write(t)
  <2>1. PICK t \in Texts : drawn' = [drawn EXCEPT ![drawer].text = t]
    BY <1>3 DEF Drawer!Write
  <2> DEFINE d == [drawn[drawer] EXCEPT !.text = t]
  <2>2. drawn' = [drawn EXCEPT ![drawer] = d]  BY <2>1
  <2>3. s = drawer => d.fields = drawn[s].fields  BY <1>1
  <2> HIDE DEF d
  <2>4. drawn'[s].fields = drawn[s].fields  BY <2>2, <2>3 DEF DrawerInv, DraftsOK
  <2> QED BY <1>2, <2>4
<1>4. CASE \E y \in ProposalFields, v \in {Empty, Own} : Drawer!EditField(y, v)
  <2>1. PICK y \in ProposalFields, v \in {Empty, Own} : drawn' = [drawn EXCEPT ![drawer].fields[y] = v]
    BY <1>4 DEF Drawer!EditField
  <2> DEFINE k == [drawn[drawer].fields EXCEPT ![y] = v]
             d == [drawn[drawer] EXCEPT !.fields = k]
  <2>2. drawn' = [drawn EXCEPT ![drawer] = d]  BY <2>1
  <2>3. s = drawer => d.fields = k  BY <1>1
  <2>4. s = drawer => k[x] \in {v, was}  BY <1>1
  <2> HIDE DEF d, k
  <2>5. is \in {v, was}  BY <2>2, <2>3, <2>4 DEF DrawerInv, DraftsOK
  <2>6. v \notin Drawer!Proposals /\ v \in {Own, Empty}  BY DrawerAssumption
  <2> HIDE DEF is, was
  <2> QED BY <2>5, <2>6 DEF is, was
<1>5. CASE \E fields \in SUBSET ProposalFields : Drawer!Proposed(fields)
  <2>1. PICK fields \in SUBSET ProposalFields : Drawer!Proposed(fields)  BY <1>5
  <2>2. PICK filled \in SUBSET fields :
           /\ drawn' = [drawn EXCEPT ![drawer] = [drawn[drawer] EXCEPT !.fields =
                          [y \in ProposalFields |-> IF y \in filled THEN call.of ELSE drawn[drawer].fields[y]]]]
           /\ filled # {} => Drawer!Fresh
           /\ \A y \in filled : drawn[drawer].fields[y] = Empty
    BY <2>1, FillKeeps
  <2> DEFINE k == [y \in ProposalFields |-> IF y \in filled THEN call.of ELSE drawn[drawer].fields[y]]
             d == [drawn[drawer] EXCEPT !.fields = k]
  <2>3. drawn' = [drawn EXCEPT ![drawer] = d]  BY <2>2
  <2>4. s = drawer => d.fields = k  BY <1>1
  <2>5. k[x] = IF x \in filled THEN call.of ELSE drawn[drawer].fields[x]  OBVIOUS
  <2> HIDE DEF k, d
  <2>6. is = IF s = drawer /\ x \in filled THEN call.of ELSE was
    BY <2>3, <2>4, <2>5 DEF DrawerInv, DraftsOK
  <2>7. call.of = <<request.scope, request.text>>
    BY <2>1 DEF Drawer!Proposed, DrawerInv, AskedOK
  <2>8. s = drawer /\ x \in filled =>
          was = Empty /\ request.scope = s /\ request.text = drawn[s].text
    BY <2>2 DEF Drawer!Fresh, Drawer!Text
  <2>9. Own # Empty  BY DrawerAssumption
  <2> HIDE DEF is, was
  <2> QED BY <2>6, <2>7, <2>8, <2>9 DEF is, was
<1>6. \/ drawn' = drawn \/ (\E t \in Texts : Drawer!Write(t))
      \/ (\E y \in ProposalFields, v \in {Empty, Own} : Drawer!EditField(y, v))
      \/ (\E fields \in SUBSET ProposalFields : Drawer!Proposed(fields))
  BY DEF Drawer!Next, Drawer!Unmount, Drawer!Mount, Drawer!OpenDraft, Drawer!HealthAnswers,
         Drawer!RequestFromCache, Drawer!RequestProposal, Drawer!TimePasses, Drawer!AnswerStep,
         Drawer!NotProposed, drawerVars
<1>7. CASE drawn' = drawn  BY <1>2, <1>7
<1> QED BY <1>3, <1>4, <1>5, <1>6, <1>7

-----------------------------------------------------------------------------
\* Every page keeps its own invariant and leaves the state of the others alone.
LEMMA PageSteps ==
  ASSUME [PagesNext]_allVars
  PROVE  /\ [Next]_vars
         /\ Drawer!Next \/ UNCHANGED drawerVars
         /\ Detail!Next \/ UNCHANGED detailVars
<1>1. CASE UNCHANGED allVars  BY <1>1 DEF allVars
<1>2. CASE PagesNext  BY <1>2 DEF PagesNext
<1> QED BY <1>1, <1>2

PagesInv == DrawerInv /\ DetailInv

\* The invariant of the drawer and of the detail page holds in every behaviour.
THEOREM PagesInductive == PagesSpec => []PagesInv
<1>1. PagesInit => PagesInv  BY DrawerStarts, DetailStarts DEF PagesInit, PagesInv
<1>2. PagesInv /\ [PagesNext]_allVars => PagesInv'
  BY PageSteps, DrawerSteps, DetailSteps DEF PagesInv
<1> QED BY <1>1, <1>2, PTL DEF PagesSpec

\* The capsule of the drawer says "filled" of the draft and text it is shown
\* with (metadataAgentStatus of MetadataSidebar), and what JournalDetail
\* displays outside the form is the journal of its URL, whatever save of
\* another journal ended meanwhile.
THEOREM PagesShowTheirOwn == PagesSpec => []ShownIsOfPage
<1>1. PagesInv => ShownIsOfPage  BY DrawerGives, DetailGives DEF PagesInv, ShownIsOfPage
<1> QED BY <1>1, PagesInductive, PTL

\* Edits made while a request is pending win over its proposal, and a proposal
\* enters the draft and text it was made for (evaluateMetadataProposal).
THEOREM ProposalsFillOwnGaps == PagesSpec => FillsOwnGaps
<1>1. PagesInv /\ [PagesNext]_allVars =>
        [\A s \in Forms, f \in ProposalFields :
           LET was == drawn[s].fields[f]  is == drawn'[s].fields[f]
           IN  /\ was = Own => is \in {Own, Empty}
               /\ is \in Drawer!Proposals /\ is # was => is = <<s, drawn[s].text>>]_drawn
  BY PageSteps, DrawerFills DEF PagesInv
<1> QED BY <1>1, PagesInductive, PTL DEF PagesSpec, FillsOwnGaps, Drawer!FillsOwnGaps

\* A field that another program wrote is replaced by an edit of that field
\* only (buildJournalEditDiff of JournalDetail).
THEOREM SavesKeepOthers == PagesSpec => OthersSurvive
<1>1. PagesInv /\ [PagesNext]_allVars =>
        [\A j \in Details, f \in DetailFields :
           files[j][f] = "theirs" => files'[j][f] \in {"theirs"} \cup Details]_files
  BY PageSteps, DetailOthers DEF PagesInv
<1> QED BY <1>1, PagesInductive, PTL DEF PagesSpec, OthersSurvive, Detail!OthersSurvive

\* On these pages too, a user who waits finds the draft after a refresh.
THEOREM PagesKeepDraft == Waits => (PagesSpec => []RefreshKeepsDraft)
<1> SUFFICES ASSUME Waits PROVE PagesSpec => []RefreshKeepsDraft  OBVIOUS
<1>1. PagesInit => IInv  BY InitInv DEF PagesInit
<1>2. IInv /\ [PagesNext]_allVars => IInv'  BY PageSteps, StepInv
<1>3. IInv => RefreshKeepsDraft  BY DEF IInv
<1> QED BY <1>1, <1>2, <1>3, PTL DEF PagesSpec
-----------------------------------------------------------------------------
(* What is edited is not always of the URL: the effect of the mode begins an *)
(* edit of the override of the URL that was left.  It is the one way: as     *)
(* long as nobody opens the editor of another journal from a page that shows *)
(* what a save read again, what is edited is the text of the URL.            *)
NoEditAfterSave ==
  [][\A j \in Details :
       Detail!Go(j, TRUE) => j = detail.at \/ detail.override = Detail!NoContent]_detailVars

\* The form, the save and its answers leave what is edited as it was.
LEMMA FormOwns ==
  ASSUME DetailInv, EditsOwn(detail),
         \/ Detail!Cancel \/ \E x \in DetailFields : Detail!Edit(x)
         \/ Detail!Save \/ Detail!RetryRefresh
  PROVE  EditsOwn(detail')
<1>1. detail \in PageType /\ Effected(detail)  BY DEF DetailInv, PageOK, Effected
<1>2. CASE Detail!Cancel
  <2> DEFINE p == [detail EXCEPT !.bypass = TRUE]
             q == Detail!ResetEdit(p)
  <2>1. detail' = Detail!Moved(q, p.at, FALSE, data)  BY <1>2 DEF Detail!Cancel, Detail!Exit
  <2>2. detail.at \in Details
    BY <1>1, <1>2 DEF Detail!Cancel, Effected, PageType
  <2>3. /\ p \in PageType /\ p.at = detail.at /\ p.editing = detail.editing /\ p.snap = detail.snap
        /\ p.draft = detail.draft /\ p.override = detail.override
    BY <1>1 DEF PageType
  <2> HIDE DEF p
  <2>4. Effected(p)  BY <1>1, <2>3 DEF Effected, EditsSnapshot
  <2>5. Effected(q) /\ q.at = detail.at /\ ~q.editing  BY <2>3, <2>4, ResetKeeps
  <2> HIDE DEF q
  <2>6. DataOK(data) /\ q.at # NoScope /\ p.at \in Details /\ EditsOwn(q)
    BY <2>2, <2>3, <2>5, DetailAssumption DEF DetailInv, EditsOwn
  <2> QED BY <2>1, <2>5, <2>6, MoveOut
<1>3. CASE \E x \in DetailFields : Detail!Edit(x)
  <2>1. PICK x \in DetailFields : Detail!Edit(x)  BY <1>3
  <2>2. PICK v : detail' = [detail EXCEPT !.draft[x] = v]  BY <2>1 DEF Detail!Edit
  <2> DEFINE d == [detail.draft EXCEPT ![x] = v]
  <2>3. detail' = [detail EXCEPT !.draft = d]  BY <2>2
  <2> HIDE DEF d
  <2> QED BY <1>1, <2>3 DEF EditsOwn, PageType
<1>4. CASE Detail!Save \/ Detail!RetryRefresh
  <2>1. detail' = [detail EXCEPT !.saving = TRUE]  BY <1>4 DEF Detail!Save, Detail!RetryRefresh
  <2> QED BY <1>1, <2>1 DEF EditsOwn, PageType
<1> QED BY <1>2, <1>3, <1>4

LEMMA UnsavingOwns ==
  ASSUME DetailInv, EditsOwn(detail)
  PROVE  /\ EditsOwn(Detail!Unsaving(detail))
         /\ EditsOwn([Detail!Unsaving(detail) EXCEPT !.failed = TRUE])
<1>1. detail \in PageType  BY DEF DetailInv, PageOK, Effected
<1> DEFINE u == Detail!Unsaving(detail)
<1>2. u \in PageType /\ u.editing = detail.editing /\ u.snap = detail.snap /\ u.at = detail.at
  BY <1>1 DEF Detail!Unsaving, PageType
<1> HIDE DEF u
<1>3. EditsOwn(u) /\ EditsOwn([u EXCEPT !.failed = TRUE])  BY <1>2 DEF EditsOwn, PageType
<1> QED BY <1>3 DEF u

LEMMA FailOwns ==
  ASSUME DetailInv, EditsOwn(detail), Detail!SaveFails \/ Detail!RefetchFails
  PROVE  EditsOwn(detail')
<1>1. DataOK(data) /\ Effected(Detail!Unsaving(detail))  BY UnsavingKeeps DEF DetailInv
<1>2. CASE Detail!SaveFails
  BY <1>1, <1>2, UnsavingOwns, EffectKeeps DEF Detail!SaveFails
<1>3. CASE Detail!RefetchFails
  <2>1. Effected([Detail!Unsaving(detail) EXCEPT !.failed = TRUE])  BY <1>1, FailedKeeps
  <2> QED BY <1>1, <1>3, <2>1, UnsavingOwns, EffectKeeps DEF Detail!RefetchFails
<1> QED BY <1>2, <1>3

LEMMA RefetchOwns ==
  ASSUME DetailInv, EditsOwn(detail), Detail!RefetchReturns
  PROVE  EditsOwn(detail')
<1> DEFINE read == Detail!Content(edit.on, files[edit.on])
           d == [data EXCEPT ![edit.on] = read]
           u == Detail!Unsaving(detail)
           p == [u EXCEPT !.override = read, !.bypass = TRUE]
           seen == Detail!ResetEdit(p)
<1>1. edit.id \in Details /\ edit.on \in Details /\ (edit.here => edit.on = detail.at)
  BY Blanks DEF DetailInv, EditOK, Detail!RefetchReturns
<1>2. IF edit.here THEN detail' = Detail!Moved(seen, edit.id, FALSE, d)
      ELSE detail' = Detail!At(detail, edit.id, FALSE, d) \/ detail' = detail
  BY DEF Detail!RefetchReturns
<1>3. read \in Detail!Contents /\ read.of = edit.on /\ DataOK(d)  BY <1>1, ReadKeeps
<1>4. Effected(u) /\ u.at = detail.at  BY UnsavingKeeps
<1> HIDE DEF read, d, u, p
<1>5. edit.here => Effected(seen) /\ seen.at = detail.at /\ ~seen.editing
  <2> SUFFICES ASSUME edit.here PROVE Effected(seen) /\ seen.at = detail.at /\ ~seen.editing
    OBVIOUS
  <2> DEFINE a == [u EXCEPT !.override = read]
             b == [a EXCEPT !.bypass = TRUE]
  <2>1. u \in PageType  BY <1>4 DEF Effected
  <2>2. /\ b \in PageType /\ b.at = u.at /\ b.editing = u.editing /\ b.snap = u.snap
        /\ b.draft = u.draft /\ b.override = read
    BY <1>3, <2>1 DEF PageType
  <2>3. p = b  BY <1>3, <2>1 DEF p, PageType
  <2> HIDE DEF b
  <2>4. Effected(p)  BY <1>1, <1>3, <1>4, <2>2, <2>3 DEF Effected, EditsSnapshot
  <2> QED BY <1>4, <2>2, <2>3, <2>4, ResetKeeps
<1> HIDE DEF seen
<1>6. CASE edit.here
  <2>1. seen.at # NoScope /\ EditsOwn(seen)  BY <1>1, <1>5, <1>6, DetailAssumption DEF EditsOwn
  <2>2. EditsOwn(Detail!Moved(seen, edit.id, FALSE, d))
    BY <1>1, <1>3, <1>5, <1>6, <2>1, MoveOut
  <2> QED BY <1>2, <1>6, <2>2
<1>7. CASE ~edit.here
  <2>1. EditsOwn(Detail!At(detail, edit.id, FALSE, d))  BY <1>1, <1>3, AtOut DEF DetailInv
  <2> QED BY <1>2, <1>7, <2>1
<1> QED BY <1>6, <1>7

LEMMA DetailOwns ==
  ASSUME DetailInv, EditsOwn(detail), Detail!Next \/ UNCHANGED detailVars,
         \A j \in Details : Detail!Go(j, TRUE) => j = detail.at \/ detail.override = Detail!NoContent
  PROVE  EditsOwn(detail')
<1>1. CASE \E j \in Details \cup {NoScope}, e \in BOOLEAN : Detail!Go(j, e)
  <2>1. PICK j \in Details \cup {NoScope}, e \in BOOLEAN : Detail!Go(j, e)  BY <1>1
  <2>2. detail' = Detail!At(detail, j, e, data)  BY <2>1 DEF Detail!Go
  <2>3. e = TRUE \/ ~e  BY <2>1
  <2>4. e /\ j # NoScope => j = detail.at \/ detail.override = Detail!NoContent  BY <2>1, <2>3, Zenon
  <2>5. PageOK(detail) /\ DataOK(data)  BY DEF DetailInv
  <2> QED BY <2>2, <2>4, <2>5, AtKeeps
<1>2. CASE Detail!Loads
  <2>1. detail.at \in Details  BY <1>2 DEF Detail!Loads, DetailInv, PageOK, Effected, PageType
  <2>2. /\ data' = [data EXCEPT ![detail.at] = Detail!Content(detail.at, files[detail.at])]
        /\ detail' = Detail!Settled(detail, data')
    BY <1>2 DEF Detail!Loads
  <2>3. DataOK(data') /\ Effected(detail)  BY <2>1, <2>2, ReadKeeps DEF DetailInv, PageOK
  <2> QED BY <2>2, <2>3, EffectKeeps
<1>3. CASE \/ Detail!EditWrites \/ Detail!EditRefused \/ Detail!SaveReturns
           \/ \E j \in Details, x \in DetailFields : Detail!OthersWrite(j, x)
           \/ UNCHANGED detailVars
  BY <1>3 DEF Detail!EditWrites, Detail!EditRefused, Detail!SaveReturns, Detail!OthersWrite,
              detailVars
<1>4. CASE \/ Detail!Cancel \/ \E x \in DetailFields : Detail!Edit(x)
           \/ Detail!Save \/ Detail!RetryRefresh
  BY <1>4, FormOwns
<1>5. CASE Detail!SaveFails \/ Detail!RefetchFails \/ Detail!RefetchReturns
  BY <1>5, FailOwns, RefetchOwns
<1> QED BY <1>1, <1>2, <1>3, <1>4, <1>5 DEF Detail!Next, Detail!SaveStep

\* Where nobody edits from what a save read again, the text that JournalDetail
\* edits is of the journal at its URL.
THEOREM EditsAreOfUrl == PagesSpec /\ NoEditAfterSave => []EditIsOfUrl
<1>1. PagesInit => EditsOwn(detail)  BY Blanks DEF PagesInit, Detail!Init, EditsOwn
<1>2. PagesInv /\ EditsOwn(detail) /\ [PagesNext]_allVars
      /\ [\A j \in Details :
            Detail!Go(j, TRUE) => j = detail.at \/ detail.override = Detail!NoContent]_detailVars
      => EditsOwn(detail')
  BY PageSteps, DetailOwns DEF PagesInv, detailVars
<1>3. EditsOwn(detail) => EditIsOfUrl  BY DEF EditsOwn, EditIsOfUrl, Detail!EditIsOfUrl
<1> DEFINE own == EditsOwn(detail)
<1>4. PagesInit => own  BY <1>1
<1>5. PagesInv /\ own /\ [PagesNext]_allVars
      /\ [\A j \in Details :
            Detail!Go(j, TRUE) => j = detail.at \/ detail.override = Detail!NoContent]_detailVars
      => own'
  BY <1>2
<1>6. own => EditIsOfUrl  BY <1>3
<1> HIDE DEF own
<1> QED BY <1>4, <1>5, <1>6, PagesInductive, PTL DEF PagesSpec, NoEditAfterSave

-----------------------------------------------------------------------------
(* Edits are left unprompted after one history only: a page that saves is    *)
(* taken out of its edit mode, and the save that ends there sets the bypass, *)
(* which no later change of the mode clears.  While a page that saves stays  *)
(* in its edit mode, nobody leaves edits unprompted.                         *)
SavesStay == [][Detail!RefetchReturns /\ edit.here => detail.edit]_detailVars

Prompts == ~detail.bypass /\ dropped # "unprompted"

\* The bypass does not outlast the exit that set it (exitEditMode).
LEMMA CancelPrompts ==
  ASSUME DetailInv, Prompts, Detail!Cancel
  PROVE  Prompts'
<1>1. detail \in PageType /\ Effected(detail) /\ DataOK(data)  BY DEF DetailInv, PageOK, Effected
<1> DEFINE p == [detail EXCEPT !.bypass = TRUE]
           q == Detail!ResetEdit(p)
<1>2. /\ detail' = Detail!Moved(q, p.at, FALSE, data)
      /\ dropped' # "unprompted"
  BY DEF Detail!Cancel, Detail!Exit, Prompts
<1>3. detail.at \in Details /\ detail.edit
  BY <1>1 DEF Detail!Cancel, Effected, PageType, DetailInv, PageOK
<1>4. /\ p \in PageType /\ p.at = detail.at /\ p.editing = detail.editing /\ p.snap = detail.snap
      /\ p.draft = detail.draft /\ p.override = detail.override /\ p.edit = detail.edit
  BY <1>1 DEF PageType
<1> HIDE DEF p
<1>5. Effected(p)  BY <1>1, <1>4 DEF Effected, EditsSnapshot
<1>6. Effected(q) /\ q.at = detail.at /\ q.edit = detail.edit  BY <1>4, <1>5, ResetKeeps
<1> HIDE DEF q
<1>7. q.at # NoScope /\ p.at \in Details /\ q.edit  BY <1>3, <1>4, <1>6, DetailAssumption
<1> QED BY <1>1, <1>2, <1>6, <1>7, MoveOut DEF Prompts

\* Nor the return of a save to a page that is in its edit mode.
LEMMA RefetchPrompts ==
  ASSUME DetailInv, Prompts, Detail!RefetchReturns, edit.here => detail.edit
  PROVE  Prompts'
<1> DEFINE read == Detail!Content(edit.on, files[edit.on])
           d == [data EXCEPT ![edit.on] = read]
           u == Detail!Unsaving(detail)
           p == [u EXCEPT !.override = read, !.bypass = TRUE]
           seen == Detail!ResetEdit(p)
<1>1. edit.id \in Details /\ edit.on \in Details /\ (edit.here => edit.on = detail.at)
  BY Blanks DEF DetailInv, EditOK, Detail!RefetchReturns
<1>2. IF edit.here THEN detail' = Detail!Moved(seen, edit.id, FALSE, d)
      ELSE detail' = Detail!At(detail, edit.id, FALSE, d) \/ detail' = detail
  BY DEF Detail!RefetchReturns
<1>3. dropped' # "unprompted"  BY DEF Detail!RefetchReturns, Prompts
<1>4. read \in Detail!Contents /\ read.of = edit.on /\ DataOK(d)  BY <1>1, ReadKeeps
<1>5. Effected(u) /\ u.at = detail.at /\ u.edit = detail.edit  BY UnsavingKeeps
<1> HIDE DEF read, d, u, p
<1>6. CASE edit.here
  <2> DEFINE a == [u EXCEPT !.override = read]
             b == [a EXCEPT !.bypass = TRUE]
  <2>1. u \in PageType  BY <1>5 DEF Effected
  <2>2. /\ b \in PageType /\ b.at = u.at /\ b.editing = u.editing /\ b.snap = u.snap
        /\ b.draft = u.draft /\ b.override = read /\ b.edit = u.edit
    BY <1>4, <2>1 DEF PageType
  <2>3. p = b  BY <1>4, <2>1 DEF p, PageType
  <2> HIDE DEF b
  <2>4. Effected(p)
    BY <1>1, <1>4, <1>5, <1>6, <2>2, <2>3 DEF Effected, EditsSnapshot
  <2>5. Effected(seen) /\ seen.at = detail.at /\ seen.edit
    BY <1>5, <1>6, <2>2, <2>3, <2>4, ResetKeeps
  <2> HIDE DEF seen
  <2>6. seen.at # NoScope  BY <1>1, <1>6, <2>5, DetailAssumption
  <2>7. ~Detail!Moved(seen, edit.id, FALSE, d).bypass
    BY <1>1, <1>4, <2>5, <2>6, MoveOut
  <2> QED BY <1>2, <1>3, <1>6, <2>7 DEF Prompts
<1>7. CASE ~edit.here
  <2>1. ~Detail!At(detail, edit.id, FALSE, d).bypass  BY <1>1, <1>4, AtOut DEF DetailInv, Prompts
  <2> QED BY <1>2, <1>3, <1>7, <2>1 DEF Prompts
<1> QED BY <1>6, <1>7

LEMMA DetailPrompts ==
  ASSUME DetailInv, Prompts, Detail!Next \/ UNCHANGED detailVars,
         Detail!RefetchReturns /\ edit.here => detail.edit
  PROVE  Prompts'
<1>1. detail \in PageType /\ Effected(detail) /\ DataOK(data)  BY DEF DetailInv, PageOK, Effected
<1>2. CASE \E j \in Details \cup {NoScope}, e \in BOOLEAN : Detail!Go(j, e)
  <2>1. PICK j \in Details \cup {NoScope}, e \in BOOLEAN : Detail!Go(j, e)  BY <1>2
  <2>2. /\ detail' = Detail!At(detail, j, e, data)
        /\ dropped' = IF ~Detail!Dirty(detail) THEN dropped
                      ELSE IF detail.bypass THEN "unprompted" ELSE "prompted"
    BY <2>1 DEF Detail!Go
  <2>3. ~detail'.bypass  BY <2>2, AtKeeps DEF DetailInv, Prompts
  <2> QED BY <2>2, <2>3 DEF Prompts
<1>3. CASE Detail!Loads
  <2>1. detail.at \in Details  BY <1>1, <1>3 DEF Detail!Loads, PageType
  <2>2. /\ data' = [data EXCEPT ![detail.at] = Detail!Content(detail.at, files[detail.at])]
        /\ detail' = Detail!Settled(detail, data') /\ dropped' = dropped
    BY <1>3 DEF Detail!Loads
  <2>3. DataOK(data')  BY <2>1, <2>2, ReadKeeps
  <2> QED BY <1>1, <2>2, <2>3, EffectKeeps DEF Prompts
<1>4. CASE \/ Detail!EditWrites \/ Detail!EditRefused \/ Detail!SaveReturns
           \/ \E j \in Details, x \in DetailFields : Detail!OthersWrite(j, x)
           \/ UNCHANGED detailVars
  BY <1>4 DEF Detail!EditWrites, Detail!EditRefused, Detail!SaveReturns, Detail!OthersWrite,
              detailVars, Prompts
<1>5. CASE \E x \in DetailFields : Detail!Edit(x)
  <2>1. PICK x \in DetailFields : Detail!Edit(x)  BY <1>5
  <2>2. PICK v : detail' = [detail EXCEPT !.draft[x] = v]  BY <2>1 DEF Detail!Edit
  <2> DEFINE d == [detail.draft EXCEPT ![x] = v]
  <2>3. detail' = [detail EXCEPT !.draft = d] /\ dropped' = dropped  BY <2>1, <2>2 DEF Detail!Edit
  <2> HIDE DEF d
  <2> QED BY <1>1, <2>3 DEF Prompts, PageType
<1>6. CASE Detail!Save \/ Detail!RetryRefresh
  <2>1. detail' = [detail EXCEPT !.saving = TRUE] /\ dropped' = dropped
    BY <1>6 DEF Detail!Save, Detail!RetryRefresh
  <2> QED BY <1>1, <2>1 DEF Prompts, PageType
<1>7. CASE Detail!SaveFails \/ Detail!RefetchFails
  <2>1. dropped' = dropped /\ Effected(Detail!Unsaving(detail)) /\ ~Detail!Unsaving(detail).bypass
    BY <1>7, UnsavingKeeps DEF Detail!SaveFails, Detail!RefetchFails, Prompts
  <2>2. LET f == [Detail!Unsaving(detail) EXCEPT !.failed = TRUE]
        IN  Effected(f) /\ ~f.bypass
    BY <2>1, FailedKeeps
  <2> DEFINE u == Detail!Unsaving(detail)
             f == [u EXCEPT !.failed = TRUE]
  <2>3. Effected(u) /\ ~u.bypass /\ Effected(f) /\ ~f.bypass  BY <2>1, <2>2
  <2>4. detail' \in {Detail!Settled(u, data), Detail!Settled(f, data), detail}
    BY <1>7 DEF Detail!SaveFails, Detail!RefetchFails
  <2> HIDE DEF u, f
  <2>5. ~Detail!Settled(u, data).bypass /\ ~Detail!Settled(f, data).bypass
    BY <1>1, <2>3, EffectKeeps
  <2> QED BY <2>1, <2>4, <2>5 DEF Prompts
<1> QED BY <1>2, <1>3, <1>4, <1>5, <1>6, <1>7, CancelPrompts, RefetchPrompts
     DEF Detail!Next, Detail!SaveStep

\* Where saves end in the edit mode they began in, the blocker of JournalDetail
\* prompts before edits are left.
THEOREM NobodyLeavesUnprompted == PagesSpec /\ SavesStay => []LeavingPrompts
<1>1. PagesInit => Prompts  BY Blanks DEF PagesInit, Detail!Init, Prompts
<1>2. PagesInv /\ Prompts /\ [PagesNext]_allVars
      /\ [Detail!RefetchReturns /\ edit.here => detail.edit]_detailVars => Prompts'
  BY PageSteps, DetailPrompts DEF PagesInv, detailVars, Prompts
<1>3. Prompts => LeavingPrompts  BY DEF Prompts, LeavingPrompts, Detail!LeavingPrompts
<1> QED BY <1>1, <1>2, <1>3, PagesInductive, PTL DEF PagesSpec, SavesStay
=============================================================================
