SPECIFICATION FairSpec
CONSTANTS
  Turns = {t1, t2}
  NoTurn = NoTurn
  MaxFrames = 1
\* The hook stops for good when its page is left.
CHECK_DEADLOCK FALSE
INVARIANTS
  ViewIsLastTurn
  OutcomeIsShown
PROPERTIES
  SettledStays
  TurnsSettle
