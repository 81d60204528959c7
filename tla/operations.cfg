SPECIFICATION ScriptsSpec
CONSTANTS
  agent = agent
  user = user
  Terminals = {agent, user}
  Commands <- Shells
  Pids = {p1, p2, p3}
  None = None
  Foreign = Foreign
  MaxForeign = 1
  PidReuse = FALSE
  Interrupts = {user}
  Faults <- KnownFaults
  Failing <- ClosedProbes
  MaxFaults = 2
  MaxChanges = 1
  Checkouts = {old, fresh}
SYMMETRY PidSymmetry
CONSTRAINT Scope
INVARIANTS
  ScriptsTypeOK
  SparesOthers
  ReportIsTrue
  StopAllStops
  
PROPERTIES
  ReusedBridgeIsSpared
  OneSkillPerSync
