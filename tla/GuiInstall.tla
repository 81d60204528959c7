----------------------------- MODULE GuiInstall -----------------------------
(***************************************************************************)
(* The install tools: gui-upgrade, which looks at a checkout with one      *)
(* command after the other and says what is to be done about it            *)
(* (scripts/lib/gui-upgrade-atom.mjs), and sync-skill, which tells the     *)
(* skill registry of the host agent where the checkout is                  *)
(* (scripts/lib/sync-skill.mjs).  The checkout and the registry are other  *)
(* people's: they change while the tools look.                             *)
(***************************************************************************)
EXTENDS Naturals, Sequences, FiniteSets

CONSTANTS Faults,       \* what may be wrong with a checkout or its programs
          Failing,      \* the probes that may fail, whatever is wrong or not
          MaxFaults,    \* bound: faults at a time
          MaxChanges,   \* bound: changes of the checkout by its owner
          Checkouts     \* checkouts that may be delivered to a registry

HumanFaults == {"dirty", "ahead", "no-upstream", "detached", "unreachable",
                "local-upstream"}
InstallFaults == {"behind", "moved", "node", "python", "modules", "cli-old",
                  "cli-missing"}
Probes == {"status", "branch", "head", "upstream", "counts", "remote",
           "node", "python", "modules", "cli"}

VARIABLES facts,    \* the faults of the checkout
          changes,  \* how often its owner has changed it
          plan,     \* the run of gui-upgrade
          skills    \* [Targets -> the checkout its SKILL.md names, or "absent"]

vars == <<facts, changes, plan, skills>>

\* A skill lies in a registry, directly or one directory below.
Roots == {"hermes", "claude"}
Targets == Roots \X {"direct", "nested"}

Order == <<"status", "branch", "head", "upstream", "counts", "remote",
           "node", "python", "modules", "cli">>
NoPlan == [next |-> 0, seen |-> {}, failed |-> {}, aged |-> FALSE,
           verdict |-> "none"]
Verdicts == {"none", "success", "reinstall", "unknown", "dirty", "ahead",
             "diverged"}

TypeOK ==
    /\ facts \subseteq Faults /\ Cardinality(facts) <= MaxFaults
    /\ changes \in 0..MaxChanges
    /\ plan \in [next : 0..Len(Order) + 1, seen : SUBSET Faults,
                 failed : SUBSET Failing, aged : BOOLEAN, verdict : Verdicts]
    /\ plan.verdict # "none" => plan.next = 0
    /\ skills \in [Targets -> Checkouts \cup {"absent"}]

Init == /\ facts \in SUBSET Faults /\ Cardinality(facts) <= MaxFaults
        /\ changes = 0
        /\ plan = NoPlan
        /\ skills = [t \in Targets |-> "absent"]

-----------------------------------------------------------------------------
OwnerChanges ==
    /\ changes < MaxChanges
    /\ \E f \in Faults : facts' = IF f \in facts THEN facts \ {f} ELSE facts \cup {f}
    /\ Cardinality(facts') <= MaxFaults
    /\ changes' = changes + 1
    /\ plan' = [plan EXCEPT !.aged = TRUE]
    /\ UNCHANGED skills

BeginPlan ==
    /\ plan.next = 0
    /\ plan' = [NoPlan EXCEPT !.next = 1]
    /\ UNCHANGED <<facts, changes, skills>>

\* What each probe can tell.
Shows(probe) ==
    CASE probe = "status"   -> {"dirty"}
      [] probe = "branch"   -> {"detached"}
      [] probe = "upstream" -> {"no-upstream", "local-upstream"}
      [] probe = "counts"   -> {"ahead", "behind"}
      [] probe = "remote"   -> {"unreachable", "moved"}
      [] probe = "node"     -> {"node"}
      [] probe = "python"   -> {"python"}
      [] probe = "modules"  -> {"modules"}
      [] probe = "cli"      -> {"cli-old", "cli-missing"}
      [] OTHER              -> {}

\* A probe that fails shows nothing.
Probe ==
    /\ plan.next \in 1..Len(Order)
    /\ LET probe == Order[plan.next] IN
         plan' \in {[plan EXCEPT !.next = @ + 1, !.seen = @ \cup (facts \cap Shows(probe))]}
                   \cup {[plan EXCEPT !.next = @ + 1, !.failed = @ \cup {p}] :
                           p \in {probe} \cap Failing}
    /\ UNCHANGED <<facts, changes, skills>>

-----------------------------------------------------------------------------
(* What detectRepo makes of the answers; plan.seen and plan.failed. *)
Saw(f) == f \in plan.seen
Failed(p) == p \in plan.failed

Upstream == ~Saw("no-upstream") /\ ~Failed("upstream")
Detached == Saw("detached") \/ Failed("branch")
Counted(f) == Saw(f) /\ ~Failed("counts") /\ Upstream

\* The remote is asked only for a branch of a remote, and its answer compared
\* with HEAD only when the counts say that nothing differs.
Asked == Upstream /\ ~Detached /\ ~Saw("local-upstream")
RemoteUnreachable == Asked /\ (Saw("unreachable") \/ Failed("remote"))
HeadDiffers == Saw("moved") \/ Saw("ahead") \/ Saw("behind")
StaleTracking == /\ Asked /\ ~RemoteUnreachable /\ ~Failed("head")
                 /\ HeadDiffers /\ ~Counted("ahead") /\ ~Counted("behind")

\* By the rank of what stands in the way of a judgement.
Judge(behind) ==
    IF ~Upstream \/ Detached \/ RemoteUnreachable THEN "unknown"
    ELSE IF Saw("dirty") /\ ~Failed("status")      THEN "dirty"
    ELSE IF Counted("ahead") /\ Counted("behind")  THEN "diverged"
    ELSE IF Counted("ahead")                       THEN "ahead"
    ELSE IF behind                                 THEN "behind" ELSE "current"

\* mutant: the counts of a branch whose tracking is stale are believed.
FreshnessByCounts == Judge(Counted("behind"))

Freshness == Judge(Counted("behind") \/ StaleTracking)

\* What detectNode, detectPython and detectCliDependency find; python's modules
\* are not looked at when its version is wrong.
ProgramsBroken ==
    \/ Saw("node") \/ Saw("python") \/ Failed("python")
    \/ Saw("modules") \/ Failed("modules")
    \/ Saw("cli-old") \/ Saw("cli-missing") \/ Failed("cli")

\* buildPlanData: a checkout that is its owner's to look at gets no other action.
Verdict ==
    IF Freshness \in {"unknown", "dirty", "ahead", "diverged"} THEN Freshness
    ELSE IF Freshness = "behind" \/ ProgramsBroken THEN "reinstall" ELSE "success"

Decide ==
    /\ plan.next = Len(Order) + 1
    /\ plan' = [plan EXCEPT !.verdict = Verdict, !.next = 0]
    /\ UNCHANGED <<facts, changes, skills>>

-----------------------------------------------------------------------------
(* sync-skill: which registries there are depends on the moment it is run. *)
Present(roots) == {t \in Targets : t[1] \in roots /\ skills[t] # "absent"}

\* mutant: only the direct place in a registry is looked at.
TargetsOfDirect(roots) ==
    LET present == {t \in Present(roots) : t[2] = "direct"} IN
    IF present # {} THEN {t \in present : Cardinality(present) = 1}
    ELSE {t \in Targets : t[2] = "direct" /\ roots = {t[1]}}

\* The one skill there is, or else a new one in the one registry there is.
TargetsOf(roots) ==
    IF Present(roots) # {} THEN {t \in Present(roots) : Cardinality(Present(roots)) = 1}
    ELSE {t \in Targets : t[2] = "direct" /\ roots = {t[1]}}

Sync(checkout, roots) ==
    /\ \E t \in TargetsOf(roots) : skills' = [skills EXCEPT ![t] = checkout]
    /\ UNCHANGED <<facts, changes, plan>>

\* The owner says where: only the direct place is considered.
SyncInto(checkout, root) ==
    /\ skills' = [skills EXCEPT ![<<root, "direct">>] = checkout]
    /\ UNCHANGED <<facts, changes, plan>>

\* The registry's owner files a skill away, or removes it.
OwnerMoves ==
    /\ \E t \in Targets : /\ skills[t] # "absent"
         /\ \/ skills' = [skills EXCEPT ![t] = "absent"]
            \/ /\ t[2] = "direct" /\ skills[<<t[1], "nested">>] = "absent"
               /\ skills' = [skills EXCEPT ![t] = "absent",
                                           ![<<t[1], "nested">>] = skills[t]]
    /\ UNCHANGED <<facts, changes, plan>>

\* Whatever registries exist, those with a skill among them.
SyncAuto ==
    \E c \in Checkouts, roots \in SUBSET Roots :
      Present(Roots) = Present(roots) /\ Sync(c, roots)

Next == \/ OwnerChanges \/ BeginPlan \/ Probe \/ Decide
        \/ SyncAuto
        \/ \E c \in Checkouts, root \in Roots : SyncInto(c, root)
        \/ OwnerMoves

Spec == Init /\ [][Next]_vars

-----------------------------------------------------------------------------
\* Of a checkout that has not changed under it, gui-upgrade says what is so:
\* success exactly when nothing is wrong, and a fresh install exactly when
\* something is and the state of the checkout is not its owner's to resolve,
\* however the faults combine and though a later probe is worth less than an
\* earlier one.  And one that was seen to be dirty, ahead or detached is never
\* to be replaced, even when it changes while it is looked at (detectRepo,
\* buildPlanData).
VerdictIsTrue ==
  /\ plan.verdict = "reinstall" =>
       plan.seen \cap {"dirty", "ahead", "detached", "no-upstream", "unreachable"} = {}
  /\ plan.verdict # "none" /\ ~plan.aged =>
      LET unknown == HumanFaults \cup {"branch", "upstream", "remote"}
          human == (facts \cup plan.failed) \cap unknown # {}
          wrong == facts \cup plan.failed # {}
      IN  /\ plan.verdict = "success" <=> ~wrong
          /\ plan.verdict = "reinstall" <=> (wrong /\ ~human)

\* A skill delivered without a place named is the only one in its registries: no
\* sync adds a second next to one that was filed away (findExistingTargets).
OneSkill(delivered) == Cardinality({t \in Targets : delivered[t] # "absent"}) = 1
OneSkillPerSync == [][SyncAuto => OneSkill(skills')]_vars

\* Git state that is not known is left to a human: the documentation says that it
\* fails closed, but a failed status, head or count shows a clean and current
\* checkout, and a branch that tracks a local one is never compared with a remote.
UnknownFailsClosed ==
    plan.verdict = "success" =>
      /\ plan.failed = {} /\ "local-upstream" \notin plan.seen
=============================================================================
