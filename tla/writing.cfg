SPECIFICATION FairPages
CONSTANTS
  a = a
  b = b
  Journals = {j1}
  New = new
  Texts = {a, b}
  Weathers = {sunny}
  Empty = empty
  Loading = loading
  Failed = failed
  NoScope = none
  Waits = TRUE
  Forms = {newDraft, entry}
  ProposalFields = {field1}
  Own = own
  MaxRequests = 2
  Details = {k1, k2}
  DetailFields = {"title", "content"}
  MaxWrites = 2
INVARIANTS
  RefreshKeepsDraft
  ShownIsOfPage
PROPERTIES
  FillsOwnGaps
  OthersSurvive
  SavingEnds
