------------------------------ MODULE Writing ------------------------------
(***************************************************************************)
(* The pages on which journals are written: the write page with its draft  *)
(* (JournalDraft), the metadata drawer of that page (MetadataDrawer), and  *)
(* the journal that is edited in place (JournalEdit).  Each is looked at   *)
(* by itself: a behaviour is of one of them, the others stay as they were. *)
(***************************************************************************)
EXTENDS JournalDraft, Naturals

CONSTANTS
  Forms, ProposalFields, Own, MaxRequests,   \* MetadataDrawer
  Details, DetailFields, MaxWrites             \* JournalEdit

VARIABLES
  shown,                                                             \* the page
  drawn, drawer, ready, request, call, review, proposals, requests,  \* MetadataDrawer
  detail, edit, data, files, writes, dropped                          \* JournalEdit

Drawer == INSTANCE MetadataDrawer WITH
  Scopes <- Forms, Fields <- ProposalFields, None <- NoScope,
  drafts <- drawn, scope <- drawer, cache <- proposals
Detail == INSTANCE JournalEdit WITH
  Journals <- Details, Fields <- DetailFields, None <- NoScope,
  page <- detail, save <- edit, known <- data, server <- files

ASSUME DrawerAssumption ==
  /\ MaxRequests \in Nat /\ NoScope \notin Forms
  /\ Own # Empty /\ {Own, Empty} \cap Drawer!Proposals = {}
ASSUME DetailAssumption == NoScope \notin Details

drawerVars == <<drawn, drawer, ready, request, call, review, proposals, requests>>
detailVars == <<detail, edit, data, files, writes, dropped>>
allVars == <<shown, vars, drawerVars, detailVars>>

PagesInit ==
  /\ shown \in {"draft", "drawer", "detail"}
  /\ Init /\ Drawer!Init /\ Detail!Init
  \* what is not shown does not matter
  /\ shown # "draft" => server = [j \in Journals |-> CHOOSE d \in Written : TRUE]
  /\ shown # "drawer" => \A s \in Forms : drawn[s].text = CHOOSE t \in Texts : TRUE

PagesNext ==
  \/ shown = "draft" /\ Next /\ UNCHANGED <<shown, drawerVars, detailVars>>
  \/ shown = "drawer" /\ Drawer!Next /\ UNCHANGED <<shown, vars, detailVars>>
  \/ shown = "detail" /\ Detail!Next /\ UNCHANGED <<shown, vars, drawerVars>>

PagesSpec == PagesInit /\ [][PagesNext]_allVars

(* The backend answers a save, and the page goes on with what was answered. *)
Saves == shown = "detail" /\ Detail!SaveStep /\ UNCHANGED <<shown, vars, drawerVars>>
FairPages == PagesSpec /\ WF_allVars(Saves)

-----------------------------------------------------------------------------
(* What a page says is of the draft or journal it shows: the capsule of the   *)
(* drawer, and what the detail page displays whatever save has ended          *)
(* meanwhile.  Their variables stay in their domains.                         *)
ShownIsOfPage ==
  /\ shown = "drawer" => Drawer!TypeOK /\ Drawer!FilledIsOfThisText
  /\ shown = "detail" => Detail!TypeOK /\ Detail!DisplayedIsOfUrl

(* A proposal fills the gaps of the draft it was made for: see               *)
(* MetadataDrawer.                                                           *)
FillsOwnGaps == Drawer!FillsOwnGaps

(* A save does not undo what another program wrote: see JournalEdit. *)
OthersSurvive == Detail!OthersSurvive

(* A page that saves does not stay so: see JournalEdit. *)
SavingEnds == Detail!SavingEnds

(* Nobody leaves edits of a journal unprompted: see JournalEdit. *)
LeavingPrompts == shown = "detail" => Detail!LeavingPrompts

(* What is edited at the URL of a journal is the text of that journal: see   *)
(* JournalEdit.                                                              *)
EditIsOfUrl == shown = "detail" => Detail!EditIsOfUrl
=============================================================================
