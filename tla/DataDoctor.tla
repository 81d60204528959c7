----------------------------- MODULE DataDoctor -----------------------------
(***************************************************************************)
(* Repairing the index from the browser: IndexDiagnostics                  *)
(* (src/src/app/routes/IndexDiagnostics.tsx), DataDoctorRepairPanel        *)
(* (src/src/components/maintenance/DataDoctorRepairPanel.tsx),             *)
(* useMaintenanceRepair (src/src/hooks/useMaintenanceRepair.ts), the       *)
(* router (src/backend/routers/maintenance.py) and the CLI calls behind it *)
(* (src/backend/adapter/cli_adapter.py).                                   *)
(*                                                                         *)
(* The user picks an issue of the audit, asks for its plan, then for a dry *)
(* run, confirms, applies, and asks for a post-check.  Every answer comes  *)
(* when it comes: the apply button is not disabled while an apply is under *)
(* way, and the user may pick another issue meanwhile.                     *)
(***************************************************************************)
EXTENDS Naturals

CONSTANTS
  Issues,       \* issues the audit may report
  NoIssue,
  MaxApplies,   \* bound: applies sent
  MaxBreaks     \* bound: changes made by other programs

VARIABLES
  panel,     \* the state of IndexDiagnostics
  audit,     \* the audit query
  planned,   \* issues with a plan in the query cache
  dry,       \* per issue: the dry run in the query cache
  dryAsked,  \* a dry run of panel.dryOf is under way
  applies,   \* mutations under way
  checks,    \* issues whose post-check waits for the audit
  broken,    \* issues there are on disk
  repaired,  \* history: issues whose repair has run
  sent, breaks

vars == <<panel, audit, planned, dry, dryAsked, applies, checks, broken, repaired, sent, breaks>>

\* What a post-check said; fresh, after (history): it judged an audit made for
\* it, one the CLI made after the repair.
Judgement(passed, fresh, after) == [shown |-> TRUE, passed |-> passed, fresh |-> fresh, after |-> after]
NoPost == [Judgement(FALSE, FALSE, FALSE) EXCEPT !.shown = FALSE]

\* applied: the issue of applyResult.  ticked: history, the issue whose dry run was shown when the box was ticked.
NoPanel == [selected |-> NoIssue, planOf |-> NoIssue, dryOf |-> NoIssue, confirmed |-> FALSE,
            ticked |-> NoIssue, applied |-> NoIssue, post |-> NoPost]

\* What the CLI found, and (history) the issues whose repair ran before it looked.
Finding(issues, after) == [issues |-> issues, after |-> after]

Init ==
  /\ panel = NoPanel
  /\ broken \in SUBSET Issues
  /\ audit = [fetch |-> "asked", has |-> FALSE, data |-> Finding({}, {}), read |-> Finding({}, {})]
  /\ planned = {} /\ dry = [i \in Issues |-> "none"] /\ dryAsked = FALSE
  /\ applies = {} /\ checks = {} /\ repaired = {}
  /\ sent = 0 /\ breaks = 0

-----------------------------------------------------------------------------
ShowsPlan == panel.selected # NoIssue /\ panel.selected = panel.planOf /\ panel.selected \in planned
DryRunSuccess == panel.selected # NoIssue /\ panel.selected = panel.dryOf /\ dry[panel.selected] = "good"

(* refetch and invalidateQueries drop the fetch under way and start another. *)
Refetched(q) == [q EXCEPT !.fetch = "asked", !.read = Finding({}, {})]

(* A step of the repair starts: what followed it is forgotten. *)
Forget(p) == [p EXCEPT !.confirmed = FALSE, !.ticked = NoIssue, !.applied = NoIssue, !.post = NoPost]

(* handleSelectIssue *)
SelectIssue(i) ==
  /\ audit.has /\ i \in audit.data.issues
  /\ panel' = [Forget(panel) EXCEPT !.selected = i, !.planOf = NoIssue, !.dryOf = NoIssue]
  /\ dryAsked' = FALSE
  /\ UNCHANGED <<audit, planned, dry, applies, checks, broken, repaired, sent, breaks>>

(* handlePlan *)
AskPlan ==
  /\ panel.selected # NoIssue /\ panel.applied = NoIssue /\ ~ShowsPlan
  /\ panel' = [Forget(panel) EXCEPT !.planOf = panel.selected, !.dryOf = NoIssue]
  /\ dryAsked' = FALSE
  /\ UNCHANGED <<audit, planned, dry, applies, checks, broken, repaired, sent, breaks>>

PlanAnswers ==
  /\ panel.planOf # NoIssue /\ panel.planOf \notin planned
  /\ planned' = planned \cup {panel.planOf}
  /\ UNCHANGED <<panel, audit, dry, dryAsked, applies, checks, broken, repaired, sent, breaks>>

(* handleDryRun: a dry run in the cache is shown at once, and made again when *)
(* it is older than staleTime.                                                *)
AskDryRun ==
  /\ ShowsPlan /\ panel.applied = NoIssue
  /\ panel.dryOf # panel.selected \/ dry[panel.selected] = "none"
  /\ panel' = [Forget(panel) EXCEPT !.dryOf = panel.selected]
  /\ dryAsked' \in {TRUE, dry[panel.selected] = "none"}
  /\ UNCHANGED <<audit, planned, dry, applies, checks, broken, repaired, sent, breaks>>

(* The CLI reports a dry run or an error; no answer leaves what there was. *)
DryRunAnswers ==
  /\ dryAsked
  /\ dryAsked' = FALSE
  /\ \E r \in {"good", "bad", dry[panel.dryOf]} : dry' = [dry EXCEPT ![panel.dryOf] = r]
  /\ UNCHANGED <<panel, audit, planned, applies, checks, broken, repaired, sent, breaks>>

(* onConfirmationToggle *)
Tick(on) ==
  /\ ShowsPlan /\ panel.applied = NoIssue /\ DryRunSuccess /\ panel.confirmed # on
  /\ panel' = [panel EXCEPT !.confirmed = on, !.ticked = IF on THEN panel.dryOf ELSE NoIssue]
  /\ UNCHANGED <<audit, planned, dry, dryAsked, applies, checks, broken, repaired, sent, breaks>>

(* handleApply *)
Apply ==
  /\ ShowsPlan /\ DryRunSuccess /\ panel.confirmed /\ panel.applied = NoIssue
  /\ sent < MaxApplies
  /\ sent' = sent + 1
  /\ applies' = applies \cup {[n |-> sent', issue |-> panel.selected, ran |-> FALSE]}
  /\ UNCHANGED <<panel, audit, planned, dry, dryAsked, checks, broken, repaired, breaks>>

(* maintenance_repair_apply: under the write lock, one at a time. *)
ApplyRuns(a) ==
  /\ ~a.ran
  /\ applies' = (applies \ {a}) \cup {[a EXCEPT !.ran = TRUE]}
  /\ broken' \in {broken, broken \ {a.issue}}
  /\ repaired' = repaired \cup {a.issue}
  /\ UNCHANGED <<panel, audit, planned, dry, dryAsked, checks, sent, breaks>>

(* The answer: the hook forgets every maintenance query, the callback of the *)
(* last mutate shows the result, whatever is selected by then.               *)
ApplyAnswers(a) ==
  /\ a.ran
  /\ applies' = applies \ {a}
  /\ audit' = Refetched(audit) /\ dryAsked' = (panel.dryOf # NoIssue)
  /\ panel' = IF a.n = sent THEN [panel EXCEPT !.applied = a.issue, !.post = NoPost] ELSE panel
  /\ UNCHANGED <<planned, dry, checks, broken, repaired, sent, breaks>>

(* An error envelope, or no answer: nothing is shown. *)
ApplyFails(a) ==
  /\ applies' = applies \ {a}
  /\ UNCHANGED <<panel, audit, planned, dry, dryAsked, checks, broken, repaired, sent, breaks>>

(* handlePostCheck *)
AskPostCheckKnown ==   \* mutant: the audit at hand is judged
  /\ panel.applied # NoIssue /\ ~panel.post.shown /\ checks' = checks \cup {panel.applied}
  /\ audit' = [audit EXCEPT !.fetch = "read", !.read = audit.data]
  /\ UNCHANGED <<panel, planned, dry, dryAsked, applies, broken, repaired, sent, breaks>>

AskPostCheck ==
  /\ panel.applied # NoIssue /\ ~panel.post.shown
  /\ checks' = checks \cup {panel.applied}
  /\ audit' = Refetched(audit)
  /\ UNCHANGED <<panel, planned, dry, dryAsked, applies, broken, repaired, sent, breaks>>

(* maintenance_audit: the CLI looks. *)
AuditRuns ==
  /\ audit.fetch = "asked"
  /\ audit' = [audit EXCEPT !.fetch = "read", !.read = Finding(broken, repaired)]
  /\ UNCHANGED <<panel, planned, dry, dryAsked, applies, checks, broken, repaired, sent, breaks>>

(* The post-checks that waited judge what the query now holds; the last one *)
(* is shown, whatever is selected by then.                                  *)
Judges(found, fresh) ==
  /\ checks' = {}
  /\ IF checks = {} THEN panel' = panel
     ELSE \E i \in checks :
            panel' = [panel EXCEPT !.post = Judgement(i \notin found.issues, fresh, i \in found.after)]

AuditAnswers ==
  /\ audit.fetch = "read"
  /\ audit' = [audit EXCEPT !.fetch = "no", !.has = TRUE, !.data = audit.read, !.read = Finding({}, {})]
  /\ Judges(audit.read, TRUE)
  /\ UNCHANGED <<planned, dry, dryAsked, applies, broken, repaired, sent, breaks>>

(* refetch does not throw: the audit there was is judged. *)
AuditFails ==
  /\ audit.fetch # "no"
  /\ audit' = [audit EXCEPT !.fetch = "no", !.read = Finding({}, {})]
  /\ Judges(audit.data, FALSE)
  /\ UNCHANGED <<planned, dry, dryAsked, applies, broken, repaired, sent, breaks>>

(* handleRetry: the queries of the page are fetched again. *)
Retry ==
  /\ audit.fetch = "no"
  /\ audit' = Refetched(audit) /\ dryAsked' = (panel.dryOf # NoIssue)
  /\ UNCHANGED <<panel, planned, dry, applies, checks, broken, repaired, sent, breaks>>

(* Another program breaks or mends the index. *)
ElsewhereChanges ==
  /\ breaks < MaxBreaks
  /\ breaks' = breaks + 1
  /\ \E i \in Issues : broken' = IF i \in broken THEN broken \ {i} ELSE broken \cup {i}
  /\ UNCHANGED <<panel, audit, planned, dry, dryAsked, applies, checks, repaired, sent>>

\* The controls of the panel, each shown where its handler would do something.
Clicks ==
  \/ \E i \in Issues : SelectIssue(i)
  \/ \E on \in BOOLEAN : Tick(on)
  \/ AskPlan \/ AskDryRun \/ Apply \/ AskPostCheck \/ Retry

Answers ==
  \/ PlanAnswers \/ DryRunAnswers \/ AuditRuns \/ AuditAnswers \/ AuditFails
  \/ \E a \in applies : ApplyRuns(a) \/ ApplyAnswers(a) \/ ApplyFails(a)

Next == Clicks \/ Answers \/ ElsewhereChanges

Spec == Init /\ [][Next]_vars

-----------------------------------------------------------------------------
Findings == [issues : SUBSET Issues, after : SUBSET Issues]
Judgements == [shown : BOOLEAN, passed : BOOLEAN, fresh : BOOLEAN, after : BOOLEAN]

(* Every variable stays in its domain.  The box under an apply button was    *)
(* ticked over the dry run of the issue which that button repairs:           *)
(* handleSelectIssue, handlePlan and handleDryRun take the tick away.        *)
TypeOK ==
  /\ panel \in [selected : Issues \cup {NoIssue}, planOf : Issues \cup {NoIssue},
                dryOf : Issues \cup {NoIssue}, confirmed : BOOLEAN, ticked : Issues \cup {NoIssue},
                applied : Issues \cup {NoIssue}, post : Judgements]
  /\ audit \in [fetch : {"no", "asked", "read"}, has : BOOLEAN, data : Findings, read : Findings]
  /\ planned \subseteq Issues /\ dry \in [Issues -> {"none", "good", "bad"}] /\ dryAsked \in BOOLEAN
  /\ applies \subseteq [n : 1..MaxApplies, issue : Issues, ran : BOOLEAN]
  /\ checks \subseteq Issues /\ broken \subseteq Issues /\ repaired \subseteq Issues
  /\ sent \in 0..MaxApplies /\ breaks \in 0..MaxBreaks
  /\ panel.confirmed => panel.ticked = panel.selected /\ panel.dryOf = panel.selected

(* A post-check whose refetch was answered judged an audit that the CLI made *)
(* after it had repaired the issue (handlePostCheck), however many fetches   *)
(* of the audit were under way.                                              *)
JudgedAfterRepair == panel.post.shown /\ panel.post.fresh => panel.post.after
=============================================================================
