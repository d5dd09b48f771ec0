CONSTANTS
  Projects = {p, q}
  NoProject = NoProject
  Txns = {x1}
  MaxOpens = 3
SPECIFICATION FairSpec
CHECK_DEADLOCK FALSE
INVARIANTS
  TypeOK
  EditsGoHome
  ReadyShowsProject
  ClosedLeavesNothing
  CanvasShowsStores
PROPERTIES
  LoadsKeepEdits
  OpensSettle
