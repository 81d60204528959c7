SPECIFICATION Spec
CONSTANTS
  Requests = {q1, q2}
  Plans = {p1}
  Reviews = {v1}
  Roots = {a}
  CompatTTL = 1
  StoreTTL = 0
  PreviewLimit = 1
  MaxLeft = 1
  None = None
  Lost = Lost
INVARIANT
  WritesSerialized
