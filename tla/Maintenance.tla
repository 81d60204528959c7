---------------------------- MODULE Maintenance ----------------------------
(***************************************************************************)
(* The diagnostic center: the routes entities (EntityCuration) and index   *)
(* (DataDoctor) below /maintenance (src/src/App.tsx).  The layout shows    *)
(* one of them at a time, and they share no state but the query cache, in  *)
(* which each has keys of its own.  A behaviour is one visit of one of     *)
(* them; the other stays as it was.                                        *)
(***************************************************************************)
EXTENDS EntityCuration

CONSTANTS Issues, NoIssue, MaxApplies, MaxBreaks   \* DataDoctor

ASSUME DoctorAssumption == MaxApplies \in Nat /\ MaxBreaks \in Nat

VARIABLES
  route,                                            \* the child that is shown
  panel, audit, planned, dry, dryAsked, applies,    \* DataDoctor
  checks, broken, repaired, sent, breaks

Doctor == INSTANCE DataDoctor

doctorVars == <<panel, audit, planned, dry, dryAsked, applies, checks, broken, repaired, sent, breaks>>
allVars == <<route, vars, doctorVars>>

CenterInit ==
  /\ route \in {"entities", "index"}
  /\ Init /\ Doctor!Init
  /\ route = "entities" => broken = {}   \* what is not shown does not matter

CenterNext ==
  \/ route = "entities" /\ Next /\ UNCHANGED <<route, doctorVars>>
  \/ route = "index" /\ Doctor!Next /\ UNCHANGED <<route, vars>>

CenterSpec == CenterInit /\ [][CenterNext]_allVars

-----------------------------------------------------------------------------
(* Every variable stays in its domain: of the page that is shown. *)
CenterTypeOK == TypeOK /\ (route = "index" => Doctor!TypeOK)

(* A post-check that was answered judged an audit made after the repair: see *)
(* DataDoctor (handlePostCheck).                                             *)
JudgedAfterRepair == route = "index" => Doctor!JudgedAfterRepair
=============================================================================
