SPECIFICATION FairSpec
CONSTANTS
  Requests = {q1, q2}
  Jobs = {j1, j2}
  NoJob = NoJob
INVARIANTS
  ReadyIsActive
  NoStaleCodes
PROPERTY
  StartSettles
VIEW LiveView
