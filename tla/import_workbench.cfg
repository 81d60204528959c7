SPECIFICATION FairSpec
CONSTANTS
  Parents = {p1}
  NProps = 2
  Filters = {"pending"}
  MaxRev = 1
  None = None

  
PROPERTIES
  
  OperationsEnd
