SPECIFICATION CenterSpec
CONSTANTS
  e1 = e1
  e2 = e2
  i1 = i1
  i2 = i2
  Entities <- MCEntities
  Selections <- MCSelections
  Items <- MCItems
  NoEntity = NoEntity
  MaxWrites = 2
  Issues = {i1, i2}
  NoIssue = NoIssue
  MaxApplies = 2
  MaxBreaks = 1
CONSTRAINT Bounded
INVARIANTS
  CenterTypeOK
  ConfirmsWhatIsShown
  ShownFollowsWrites
  JudgedAfterRepair
