---------------------------- MODULE JournalDraft ----------------------------
(***************************************************************************)
(* The write page and its draft: TheCore (src/src/app/routes/TheCore.tsx)  *)
(* over the draft store (src/src/stores/journal-draft.ts), the browser's   *)
(* draft cache (src/src/lib/journal-draft-cache.ts) and useJournal         *)
(* (src/src/hooks/useJournals.ts).                                         *)
(*                                                                         *)
(* The store is one for the whole page; the cache has a slot per scope, a  *)
(* new entry or the edit of a journal.  React runs the page's effects, and *)
(* the renders they cause, before the browser turns to anything else, so   *)
(* an action ends with all effects run.  Saves, the weather query and the  *)
(* loading of a journal cross the network: they end in actions of their    *)
(* own, whatever the user has opened or left in between.                   *)
(*                                                                         *)
(* A draft is its text and one metadata field, the weather, which an       *)
(* answer of the backend may change; the other fields behave as one or the *)
(* other.  Attachments are left out.  One save and one weather query are   *)
(* under way at a time.                                                    *)
(***************************************************************************)

CONSTANTS
  Journals,   \* journals that can be opened for editing
  New,        \* the scope of a new entry
  Texts,      \* what the user writes
  Weathers,   \* what the weather query answers
  Empty,      \* '' in either field
  Loading,    \* useJournal has no data yet
  Failed,     \* useJournal gave up
  NoScope,    \* a ref that is null
  Waits       \* the user lets saves, queries and loading end before going on

ASSUME ScopesAssumption == New \notin Journals /\ NoScope \notin Journals \cup {New}
ASSUME TextsAssumption == Empty \notin Texts \cup Weathers
ASSUME WaitsAssumption == Waits \in BOOLEAN

Scopes == Journals \cup {New}
Drafts == [text : Texts \cup {Empty}, weather : Weathers \cup {Empty}]
Blank == [text |-> Empty, weather |-> Empty]
Written == {d \in Drafts : d.text # Empty}

ASSUME MarksAssumption == Loading \notin Drafts /\ Failed \notin Drafts

VARIABLES
  draft,      \* useJournalDraftStore: content and metadata
  open,       \* a write page is mounted
  scope,      \* its draftScope
  loaded,     \* its editLoadedRef
  recovered,  \* its recoveredDraftScopeRef
  cache,      \* localStorage, Blank where there is no draft
  known,      \* per journal: useJournal's data
  server,     \* per journal: what the journal holds
  save,       \* handleSave: its step, and the scope and draft it closed over
  here,       \* the page that saves is still mounted
  query,      \* queryWeatherForLocation: the scope and draft it closed over
  unsaved     \* history: the text last entered under a scope and not saved

page == <<open, scope, loaded, recovered>>
remote == <<known, server>>
vars == <<draft, page, cache, remote, save, here, query, unsaved>>

NoSave == [step |-> "none", scope |-> NoScope, draft |-> Blank]
NoQuery == [scope |-> NoScope, draft |-> Blank]

Init ==
  /\ draft = Blank
  /\ open = FALSE /\ scope = New /\ loaded = NoScope /\ recovered = NoScope
  /\ cache = [s \in Scopes |-> Blank]
  /\ known = [j \in Journals |-> Loading]
  /\ server \in [Journals -> Written]
  /\ save = NoSave /\ here = FALSE
  /\ query = NoQuery
  /\ unsaved = [s \in Scopes |-> Empty]

-----------------------------------------------------------------------------
(* isWriteBusy or showSaveTransition: a loader hides the editor. *)
Busy ==
  \/ here /\ save.step \in {"sending", "leaving"}
  \/ scope \in Journals /\ known[scope] = Loading

Editing == open /\ ~Busy

(* A user who waits does not touch a page that something is still to reach. *)
Undisturbed ==
  Waits => /\ save = NoSave /\ query = NoQuery
           /\ scope \in Journals => known[scope] # Failed

Has(data, j) == data[j] \notin {Loading, Failed}

Loads(s, data, ref) == s \in Journals /\ ref # s /\ Has(data, s)

ShownFetched(s, data, held, slots, ref) ==   \* mutant
  IF Loads(s, data, ref) THEN data[s] ELSE IF slots[s] # Blank THEN slots[s] ELSE held

Shown(s, data, held, slots, ref) ==
  IF slots[s] # Blank THEN slots[s] ELSE IF Loads(s, data, ref) THEN data[s] ELSE held

(* The effects of a page that is mounted with, or moves to, scope s: the   *)
(* slot of s is recovered, else the journal is loaded if it is known, else *)
(* the store keeps what it held.  Whatever the store ends with is written  *)
(* to the slot of s.                                                       *)
Settle(s, data, held, slots, ref) ==
  /\ draft' = Shown(s, data, held, slots, ref)
  /\ cache' = [slots EXCEPT ![s] = Shown(s, data, held, slots, ref)]
  /\ recovered' = IF slots[s] # Blank THEN s ELSE NoScope
  /\ loaded' = IF s = New THEN NoScope ELSE IF Loads(s, data, ref) THEN s ELSE ref

(* Navigation to the write page, or from one scope to another, when the    *)
(* page stays mounted.  A journal that failed to load is fetched again.    *)
(* The loader takes the metadata drawer away.                              *)
Open(s) ==
  /\ ~open \/ scope # s
  /\ Waits => save = NoSave /\ query = NoQuery
  /\ open' = TRUE /\ scope' = s
  /\ known' = [j \in Journals |-> IF j = s /\ known[j] = Failed THEN Loading ELSE known[j]]
  /\ Settle(s, known', draft, cache, IF open THEN loaded ELSE NoScope)
  /\ query' = IF s \in Journals /\ known'[s] = Loading THEN NoQuery ELSE query
  /\ UNCHANGED <<server, save, here, unsaved>>

(* Any other page is opened; what was under way goes on without the page. *)
Leave ==
  /\ open
  /\ Waits => save = NoSave /\ query = NoQuery
  /\ open' = FALSE /\ here' = FALSE /\ query' = NoQuery
  /\ UNCHANGED <<draft, scope, loaded, recovered, cache, remote, save, unsaved>>

(* The browser reloads, at any moment: only the cache and the backend      *)
(* remain.  A save that was sent may reach the backend or not.             *)
Saved(j) == IF save.step = "sending" /\ save.scope = j THEN {server[j], save.draft} ELSE {server[j]}

Refresh ==
  /\ known' = [j \in Journals |-> Loading]
  /\ server' \in {f \in [Journals -> Written] : \A j \in Journals : f[j] \in Saved(j)}
  /\ save' = NoSave /\ here' = FALSE /\ query' = NoQuery
  /\ IF open THEN Settle(scope, known', Blank, cache, NoScope)
     ELSE draft' = Blank /\ UNCHANGED <<cache, loaded, recovered>>
  /\ UNCHANGED <<open, scope, unsaved>>

(* Typing in the editor or in the metadata drawer: the store and the slot. *)
Enter(d) ==
  /\ Editing /\ Undisturbed
  /\ d # draft
  /\ draft' = d
  /\ cache' = [cache EXCEPT ![scope] = d]
  /\ unsaved' = [unsaved EXCEPT ![scope] = d.text]
  /\ UNCHANGED <<page, remote, save, here, query>>

-----------------------------------------------------------------------------
(* useJournal answers; the first answer is loaded into the editor, unless  *)
(* a draft was recovered when the page came to this journal.               *)
Fetched(j) ==
  /\ known[j] # server[j]
  /\ known' = [known EXCEPT ![j] = server[j]]
  /\ IF open /\ scope = j /\ loaded # j
     THEN /\ loaded' = j
          /\ IF recovered = j THEN UNCHANGED <<draft, cache>>
             ELSE /\ draft' = server[j]
                  /\ cache' = [cache EXCEPT ![j] = server[j]]
     ELSE UNCHANGED <<loaded, draft, cache>>
  /\ UNCHANGED <<open, scope, recovered, server, save, here, query, unsaved>>

FetchFails(j) ==
  /\ known[j] = Loading
  /\ known' = [known EXCEPT ![j] = Failed]
  /\ UNCHANGED <<draft, page, cache, server, save, here, query, unsaved>>

(* The query cache drops a journal no page shows. *)
Forget(j) ==
  /\ ~(open /\ scope = j)
  /\ known[j] # Loading
  /\ known' = [known EXCEPT ![j] = Loading]
  /\ UNCHANGED <<draft, page, cache, server, save, here, query, unsaved>>

(* The weather query of the metadata drawer; its answer goes to onUpdate   *)
(* as it was when the query began.                                         *)
QueryWeather ==
  /\ Editing /\ Undisturbed
  /\ query = NoQuery
  /\ query' = [scope |-> scope, draft |-> draft]
  /\ UNCHANGED <<draft, page, cache, remote, save, here, unsaved>>

(* handleMetadataUpdate: the store takes the weather, the slot that was    *)
(* current takes the text that was current, and the persisting effect      *)
(* follows only if the store changed.                                      *)
WeatherAnswers(w) ==
  /\ query # NoQuery
  /\ draft' = [draft EXCEPT !.weather = w]
  /\ LET persisted == [cache EXCEPT ![query.scope] = [query.draft EXCEPT !.weather = w]]
     IN  cache' = IF draft' = draft THEN persisted ELSE [persisted EXCEPT ![scope] = draft']
  /\ query' = NoQuery
  /\ UNCHANGED <<page, remote, save, here, unsaved>>

WeatherStatusEntered ==   \* mutant
  /\ query # NoQuery
  /\ draft' = [draft EXCEPT !.weather = Failed]
  /\ query' = NoQuery
  /\ UNCHANGED <<page, cache, remote, save, here, unsaved>>

(* No answer, or a drawer that was closed before it. *)
WeatherUnavailable ==
  /\ query # NoQuery
  /\ query' = NoQuery
  /\ UNCHANGED <<draft, page, cache, remote, save, here, unsaved>>

-----------------------------------------------------------------------------
(* handleSave; the loader takes the drawer away. *)
Save ==
  /\ Editing /\ Undisturbed
  /\ save = NoSave
  /\ draft.text # Empty
  /\ save' = [step |-> "sending", scope |-> scope, draft |-> draft]
  /\ here' = TRUE
  /\ query' = NoQuery
  /\ UNCHANGED <<draft, page, cache, remote, unsaved>>

SaveFailsCleared ==   \* mutant
  /\ save.step = "sending"
  /\ save' = NoSave /\ here' = FALSE
  /\ cache' = [cache EXCEPT ![save.scope] = Blank]
  /\ UNCHANGED <<draft, page, remote, query, unsaved>>

(* An error, whether or not the write was made. *)
SaveFails ==
  /\ save.step = "sending"
  /\ save' = NoSave /\ here' = FALSE
  /\ server' \in {f \in [Journals -> Drafts] : \A j \in Journals : f[j] \in Saved(j)}
  /\ UNCHANGED <<draft, page, cache, known, query, unsaved>>

(* The write was made: finishSaveAndNavigate clears the slot, then waits   *)
(* for the attachments to be cleared.                                      *)
SaveLands ==
  /\ save.step = "sending"
  /\ server' = [j \in Journals |-> IF j = save.scope THEN save.draft ELSE server[j]]
  /\ cache' = [cache EXCEPT ![save.scope] = Blank]
  /\ unsaved' = [unsaved EXCEPT ![save.scope] = IF @ = save.draft.text THEN Empty ELSE @]
  /\ save' = [save EXCEPT !.step = "clearing"]
  /\ UNCHANGED <<draft, page, known, here, query>>

(* draft.reset, whose effects a page that is open runs for its scope, then *)
(* setSearchParams, which moves that page to a new entry.                  *)
SaveResets ==
  /\ save.step = "clearing"
  /\ save' = [save EXCEPT !.step = "leaving"]
  /\ LET cleared == IF open /\ draft # Blank THEN [cache EXCEPT ![scope] = Blank] ELSE cache
     IN  IF open /\ scope # New
         THEN scope' = New /\ Settle(New, known, Blank, cleared, loaded)
         ELSE draft' = Blank /\ cache' = cleared /\ UNCHANGED <<scope, loaded, recovered>>
  /\ UNCHANGED <<open, remote, here, query, unsaved>>

(* navigate to the journal that was saved. *)
Depart ==
  /\ save.step = "leaving"
  /\ open' = FALSE /\ here' = FALSE
  /\ save' = NoSave /\ query' = NoQuery
  /\ UNCHANGED <<draft, scope, loaded, recovered, cache, remote, unsaved>>

-----------------------------------------------------------------------------
Next ==
  \/ \E s \in Scopes : Open(s)
  \/ \E d \in Drafts : Enter(d)
  \/ \E j \in Journals : Fetched(j) \/ FetchFails(j) \/ Forget(j)
  \/ \E w \in Weathers : WeatherAnswers(w)
  \/ Leave \/ Refresh \/ QueryWeather \/ WeatherUnavailable
  \/ Save \/ SaveFails \/ SaveLands \/ SaveResets \/ Depart

Spec == Init /\ [][Next]_vars

-----------------------------------------------------------------------------
TypeOK ==
  /\ draft \in Drafts
  /\ open \in BOOLEAN
  /\ scope \in Scopes
  /\ loaded \in Journals \cup {NoScope}
  /\ recovered \in Scopes \cup {NoScope}
  /\ cache \in [Scopes -> Drafts]
  /\ known \in [Journals -> Drafts \cup {Loading, Failed}]
  /\ server \in [Journals -> Drafts]
  /\ save \in [step : {"none", "sending", "clearing", "leaving"},
               scope : Scopes \cup {NoScope}, draft : Drafts]
  /\ here \in BOOLEAN
  /\ query \in [scope : Scopes \cup {NoScope}, draft : Drafts]
  /\ unsaved \in [Scopes -> Texts \cup {Empty}]

(* A refresh must not lose the draft (TheCore.test.tsx, "unsaved draft     *)
(* recovery"): what the user last entered under a scope and has not saved  *)
(* is in the slot of that scope, whatever other scopes, loads and saves    *)
(* came in between.                                                        *)
RefreshKeepsDraft == \A s \in Scopes : unsaved[s] # Empty => cache[s].text = unsaved[s]

(* The editor never shows what a refresh would not bring back, until its   *)
(* draft is saved.                                                         *)
ShownIsCached == open /\ save.step \in {"none", "sending"} => cache[scope] = draft

(* After a save the write page is empty, or shows the unsaved draft of a   *)
(* new entry (TheCore.test.tsx, "clears the recovered draft after a        *)
(* successful save").                                                      *)
SavedDraftIsGone ==
  save.step = "leaving" /\ open => draft = Blank \/ draft.text = unsaved[scope]
-----------------------------------------------------------------------------
(* The inductive invariant, for a user who waits. *)

(* An open page of a journal that is known has loaded it; until it is      *)
(* loaded, or recovered a draft, nothing was entered.                      *)
LoadInv ==
  open /\ scope \in Journals =>
    /\ Has(known, scope) => loaded = scope
    /\ loaded # scope /\ recovered # scope => unsaved[scope] = Empty

Settled == scope \in Journals => loaded = scope

(* The page that saves, or asks for the weather, is the page that is open, *)
(* loaded, and its draft is the one that is saved or asked for.            *)
SaveInv ==
  /\ save.step = "none" => save = NoSave
  /\ save.step \in {"sending", "clearing"} => open /\ here /\ scope = save.scope
  /\ save.step = "sending" => Settled /\ draft = save.draft /\ draft.text # Empty
  /\ save.step = "clearing" => unsaved[save.scope] = Empty
  /\ save.step = "leaving" => here

QueryInv ==
  query # NoQuery =>
    open /\ Settled /\ save = NoSave /\ query.scope = scope /\ query.draft = draft

IInv == TypeOK /\ RefreshKeepsDraft /\ ShownIsCached /\ LoadInv /\ SaveInv /\ QueryInv
=============================================================================
