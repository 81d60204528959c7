SPECIFICATION Spec
CONSTANTS
  Requests = {q1, q2}
  Plans = {p1}
  Reviews = {v1}
  Roots = {a, b}
  CompatTTL = 1
  StoreTTL = 1
  PreviewLimit = 1
  MaxLeft = 1
  None = None
  Lost = Lost
SYMMETRY Symmetry
INVARIANTS
  RootIsBound
  HeldByRunning
PROPERTIES
  AdmitsKnownCli
