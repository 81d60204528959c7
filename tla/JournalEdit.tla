---------------------------- MODULE JournalEdit ----------------------------
(***************************************************************************)
(* Reading and editing a journal in place: JournalDetail                   *)
(* (src/src/app/routes/JournalDetail.tsx), useJournal and useUpdateJournal *)
(* (src/src/hooks/useJournals.ts), and edit_journal                        *)
(* (src/backend/routers/journals.py).                                      *)
(*                                                                         *)
(* The URL says which journal is shown and whether it is edited.  The page *)
(* stays mounted from one journal to another, so its state is moved along  *)
(* by effects; a save that was started for one journal goes on when the    *)
(* user has left for another.  React runs the effects of a render before   *)
(* the browser turns to anything else, so an action ends with all of them  *)
(* run.                                                                    *)
(*                                                                         *)
(* A field holds what the journal said at first, what another program put  *)
(* there, or an edit, which is known by the journal whose text was edited. *)
(* One save is under way at a time.                                        *)
(***************************************************************************)
EXTENDS Naturals

CONSTANTS
  Journals,
  Fields,      \* journalEditFields
  None,        \* no journal: another page, or no data
  MaxWrites    \* bound: saves, and writes of other programs

Values == {"first", "theirs"} \cup Journals
Vals == [Fields -> Values]
First == [f \in Fields |-> "first"]

VARIABLES
  page,        \* the URL and the state of the mounted JournalDetail
  save,        \* the handleSave, or the refresh, under way
  known,       \* per journal: useJournal's data
  server,      \* per journal: what its file says
  writes,      \* saves and writes of other programs so far
  dropped      \* history: how edits last left the page

vars == <<page, save, known, server, writes, dropped>>

Content(j, vals) == [of |-> j, vals |-> vals]
NoContent == Content(None, First)

\* at and edit are the URL; snap is editSnapshot, draft is editDraft.
NoPage == [at |-> None, edit |-> FALSE, editing |-> FALSE, snap |-> NoContent, draft |-> First,
           override |-> NoContent, failed |-> FALSE, bypass |-> FALSE, saving |-> FALSE]

\* The journal and the fields the save closed over, whether its page is still
\* mounted, and the journal its query observes.
NoSave == [step |-> "none", id |-> None, diff |-> {}, sent |-> First, here |-> FALSE, on |-> None]

Init ==
  /\ page = NoPage /\ save = NoSave
  /\ known = [j \in Journals |-> NoContent]
  /\ server = [j \in Journals |-> First]
  /\ writes = 0
  /\ dropped = "none"

-----------------------------------------------------------------------------
DiffAll(snap, draft) == Fields   \* mutant: the whole draft is sent
Diff(snap, draft) == {f \in Fields : draft[f] # snap[f]}   \* buildJournalEditDiff
Dirty(p) == p.editing /\ Diff(p.snap.vals, p.draft) # {}

\* displayedJournal
Displayed(p, data) == IF p.override # NoContent THEN p.override ELSE data[p.at]

Begin(p, c) == [p EXCEPT !.editing = TRUE, !.snap = c, !.draft = c.vals, !.failed = FALSE]
ResetEdit(p) == [p EXCEPT !.editing = FALSE, !.snap = NoContent, !.draft = First, !.failed = FALSE]

(* The effect of editModeRequested. *)
Settled(p, data) ==
  IF p.at = None THEN p
  ELSE IF p.edit /\ ~p.editing /\ ~p.saving /\ Displayed(p, data) # NoContent
  THEN Begin(p, Displayed(p, data))
  ELSE IF ~p.edit /\ p.editing THEN ResetEdit(p) ELSE p

(* The page at another URL.  The effect of the id forgets the override and  *)
(* the draft; the effect of the mode still sees what was displayed before.  *)
(* The bypass ends when the mode does.                                      *)
MovedKeepsOverride(p, j, e, data) ==   \* mutant: the effect of the id forgets the draft only
  LET q == [p EXCEPT !.at = j, !.edit = e, !.bypass = IF p.edit /\ ~e THEN FALSE ELSE p.bypass]
  IN  IF j = p.at THEN Settled(q, data) ELSE Settled(ResetEdit(q), data)

Moved(p, j, e, data) ==
  LET q == [p EXCEPT !.at = j, !.edit = e, !.bypass = IF p.edit /\ ~e THEN FALSE ELSE p.bypass]
      fresh == [ResetEdit(q) EXCEPT !.override = NoContent]
  IN  IF j = p.at THEN Settled(q, data)
      ELSE IF e /\ ~p.editing /\ ~p.saving /\ p.override # NoContent THEN Begin(fresh, p.override)
      ELSE Settled(fresh, data)

At(p, j, e, data) ==
  IF j = None THEN NoPage
  ELSE IF p.at = None THEN Settled([NoPage EXCEPT !.at = j, !.edit = e], data)
  ELSE Moved(p, j, e, data)

(* The user follows a link or the history.  The blocker prompts before edits *)
(* are left, unless the bypass is set; who stays changes nothing.            *)
Go(j, e) ==
  /\ <<j, e>> # <<page.at, page.edit>> /\ (j = None => ~e)
  /\ page' = At(page, j, e, known)
  /\ save' = IF j = None THEN [save EXCEPT !.here = FALSE]
             ELSE IF save.here THEN [save EXCEPT !.on = j] ELSE save
  /\ dropped' = IF ~Dirty(page) THEN dropped
                ELSE IF page.bypass THEN "unprompted" ELSE "prompted"
  /\ UNCHANGED <<known, server, writes>>

(* useJournal answers: on mount, on focus, after an invalidation. *)
Loads ==
  /\ page.at # None /\ known[page.at] # Content(page.at, server[page.at])
  /\ known' = [known EXCEPT ![page.at] = Content(page.at, server[page.at])]
  /\ page' = Settled(page, known')
  /\ UNCHANGED <<save, server, writes, dropped>>

(* updateDraftField: the form is not disabled while a save is under way. *)
Edit(f) ==
  /\ page.editing
  /\ page' \in {[page EXCEPT !.draft[f] = page.snap.of], [page EXCEPT !.draft[f] = page.snap.vals[f]]}
  /\ page' # page
  /\ UNCHANGED <<save, known, server, writes, dropped>>

(* exitEditMode *)
Exit(p, data) == Moved(ResetEdit([p EXCEPT !.bypass = TRUE]), p.at, FALSE, data)

Cancel ==
  /\ page.editing /\ ~page.saving
  /\ page' = Exit(page, known)
  /\ dropped' = IF Dirty(page) THEN "cancelled" ELSE dropped
  /\ UNCHANGED <<save, known, server, writes>>

-----------------------------------------------------------------------------
(* handleSave *)
Save ==
  /\ Dirty(page) /\ ~page.saving /\ ~page.failed
  /\ save = NoSave /\ writes < MaxWrites
  /\ writes' = writes + 1
  /\ save' = [step |-> "sent", id |-> page.at, diff |-> Diff(page.snap.vals, page.draft),
              sent |-> page.draft, here |-> TRUE, on |-> page.at]
  /\ page' = [page EXCEPT !.saving = TRUE]
  /\ UNCHANGED <<known, server, dropped>>

(* edit_journal: the CLI sets the fields it is given.  Its answer may be    *)
(* lost, or come after 30 s.                                                *)
EditWrites ==
  /\ save.step = "sent"
  /\ server' = [server EXCEPT ![save.id] =
                  [f \in Fields |-> IF f \in save.diff THEN save.sent[f] ELSE @[f]]]
  /\ \E step \in {"written", "failed"} : save' = [save EXCEPT !.step = step]
  /\ UNCHANGED <<page, known, writes, dropped>>

EditRefused ==
  /\ save.step = "sent"
  /\ save' = [save EXCEPT !.step = "failed"]
  /\ UNCHANGED <<page, known, server, writes, dropped>>

\* isSaving of the page that saves, if it is still there
UnsavingOnSuccess(p) == p   \* mutant: no finally
Unsaving(p) == IF save.here THEN [p EXCEPT !.saving = FALSE] ELSE p

SaveFails ==
  /\ save.step = "failed"
  /\ page' = Settled(Unsaving(page), known)
  /\ save' = NoSave
  /\ UNCHANGED <<known, server, writes, dropped>>

(* mutateAsync returns: refetch() reads the journal that the page's query   *)
(* observes now.                                                            *)
SaveReturns ==
  /\ save.step = "written"
  /\ save' = [save EXCEPT !.step = "refetching", !.diff = {}, !.sent = First]
  /\ UNCHANGED <<page, known, server, writes, dropped>>

(* refreshCanonicalDetail fails. *)
RefetchFails ==
  /\ save.step = "refetching"
  /\ page' = IF save.here THEN Settled([Unsaving(page) EXCEPT !.failed = TRUE], known) ELSE page
  /\ save' = NoSave
  /\ UNCHANGED <<known, server, writes, dropped>>

(* refreshCanonicalDetail succeeds: the page shows what was read, and goes  *)
(* to the journal that was saved.  Another page, or another JournalDetail,  *)
(* is left for it, with a prompt if that one has edits.                     *)
RefetchReturns ==
  /\ save.step = "refetching"
  /\ LET read == Content(save.on, server[save.on])
         data == [known EXCEPT ![save.on] = read]
         shown == ResetEdit([Unsaving(page) EXCEPT !.override = read, !.bypass = TRUE])
     IN  /\ known' = data
         /\ IF save.here
            THEN /\ page' = Moved(shown, save.id, FALSE, data)
                 /\ dropped' = IF Dirty(page) THEN "saved" ELSE dropped
            ELSE \/ /\ page' = At(page, save.id, FALSE, data)
                    /\ dropped' = IF Dirty(page) THEN "prompted" ELSE dropped
                 \/ /\ Dirty(page)
                    /\ UNCHANGED <<page, dropped>>
  /\ save' = NoSave
  /\ UNCHANGED <<server, writes>>

(* handleRefreshRetry *)
RetryRefresh ==
  /\ page.editing /\ page.failed /\ ~page.saving
  /\ save = NoSave
  /\ save' = [NoSave EXCEPT !.step = "refetching", !.id = page.at, !.here = TRUE, !.on = page.at]
  /\ page' = [page EXCEPT !.saving = TRUE]
  /\ UNCHANGED <<known, server, writes, dropped>>

(* Another program writes a field. *)
OthersWrite(j, f) ==
  /\ writes < MaxWrites /\ server[j][f] # "theirs"
  /\ server' = [server EXCEPT ![j][f] = "theirs"]
  /\ writes' = writes + 1
  /\ UNCHANGED <<page, save, known, dropped>>

SaveStep == EditWrites \/ EditRefused \/ SaveFails \/ SaveReturns \/ RefetchFails \/ RefetchReturns

Next ==
  \/ \E j \in Journals \cup {None}, e \in BOOLEAN : Go(j, e)
  \/ \E f \in Fields : Edit(f) \/ \E j \in Journals : OthersWrite(j, f)
  \/ Loads \/ Cancel \/ Save \/ RetryRefresh \/ SaveStep

(* The backend answers, and the browser goes on with what was answered. *)
Spec == Init /\ [][Next]_vars
FairSpec == Spec /\ WF_vars(SaveStep)

-----------------------------------------------------------------------------
Contents == [of : Journals \cup {None}, vals : Vals]

(* Every variable stays in its domain; only a page that is edited has a     *)
(* draft.                                                                   *)
TypeOK ==
  /\ page \in [at : Journals \cup {None}, edit : BOOLEAN, editing : BOOLEAN, snap : Contents,
               draft : Vals, override : Contents, failed : BOOLEAN, bypass : BOOLEAN,
               saving : BOOLEAN]
  /\ save.step \in {"none", "sent", "written", "failed", "refetching"}
  /\ save.diff \subseteq Fields
  /\ known \in [Journals -> Contents]
  /\ server \in [Journals -> Vals]
  /\ dropped \in {"none", "cancelled", "prompted", "saved", "unprompted"}
  /\ page.editing => page.edit

(* What is displayed outside the form is the journal of the URL, even when a *)
(* save of another journal ended meanwhile.                                  *)
DisplayedIsOfUrl ==
  page.at # None => Displayed(page, known).of \in {page.at, None}

(* A save does not undo what another program wrote: a field that somebody    *)
(* else has changed is only replaced by an edit of that field.               *)
OthersSurvive ==
  [][\A j \in Journals, f \in Fields :
       server[j][f] = "theirs" => server'[j][f] \in {"theirs"} \cup Journals]_server

(* A page that saves does not stay so.                                       *)
SavingEnds == page.saving ~> ~page.saving

(* "blocks dirty detail Back until Leave is confirmed and keeps the draft    *)
(* while blocked" (JournalDetail.test.tsx): nobody leaves edits unprompted.  *)
LeavingPrompts == dropped # "unprompted"

(* What is edited at the URL of a journal is the text of that journal.       *)
EditIsOfUrl == page.editing => page.snap.of = page.at
=============================================================================
