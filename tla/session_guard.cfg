SPECIFICATION FairSpec
CONSTANTS
  Callers = {c1, c2}
  Ids = {i1, i2, i3}
  Digests = {d1, d2}
  Records = {r1, r2, r3}
  MaxRetained = 1
  Unboundable = {i3}
  NoRecord = NoRecord
  NoDigest = NoDigest
VIEW LiveView
INVARIANTS
  WaitersExact
  AnswersOwnRequest
  RetentionBounded
PROPERTIES
  ImplementsLedger
  CallsReturn
