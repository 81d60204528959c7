----------------------------- MODULE Operations -----------------------------
(***************************************************************************)
(* The scripts beside the program: those that start and stop its processes *)
(* (AgentOps), and those that look at a checkout and deliver the skill     *)
(* (GuiInstall).  The two kinds share nothing: a behaviour is of one kind. *)
(***************************************************************************)
EXTENDS AgentOps

CONSTANTS Faults, Failing, MaxFaults, MaxChanges, Checkouts   \* GuiInstall

ASSUME InstallAssumption ==
  MaxFaults \in Nat /\ MaxChanges \in Nat /\ "absent" \notin Checkouts

VARIABLES
  kind,                           \* of the scripts that are used
  facts, changes, plan, skills    \* GuiInstall

Install == INSTANCE GuiInstall

installVars == <<facts, changes, plan, skills>>
allVars == <<kind, stackVars, installVars>>

ScriptsInit ==
  /\ kind \in {"stack", "install"}
  /\ StackInit /\ Install!Init
  /\ kind = "stack" => facts = {}   \* what is not used does not matter

ScriptsNext ==
  \/ kind = "stack" /\ StackNext /\ UNCHANGED <<kind, installVars>>
  \/ kind = "install" /\ Install!Next /\ UNCHANGED <<kind, stackVars>>

ScriptsSpec == ScriptsInit /\ [][ScriptsNext]_allVars

-----------------------------------------------------------------------------
(* Every variable stays in its domain: of the scripts in use. *)
ScriptsTypeOK == StackTypeOK /\ (kind = "install" => Install!TypeOK)

(* gui-upgrade says of a checkout what is so, and never has one replaced that *)
(* its owner has to resolve (detectRepo, buildPlanData): see GuiInstall.      *)
VerdictIsTrue == kind = "install" => Install!VerdictIsTrue

(* sync-skill leaves one skill in the registries: see GuiInstall. *)
OneSkillPerSync == [][kind = "install" /\ Install!SyncAuto => Install!OneSkill(skills')]_allVars

(* What is not known of a checkout is left to a human: see GuiInstall. *)
UnknownFailsClosed == kind = "install" => Install!UnknownFailsClosed
=============================================================================
