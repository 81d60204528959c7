SPECIFICATION Spec
CONSTANTS
  Requests = {q1}
  Jobs = {j1}
  NoJob = NoJob
INVARIANT
  FailsClosed
