CONSTANTS
  x1 = x1
  x2 = x2
  Tabs = {a}
  Dialogs = {}
  Projects = {p}
  Txns = {x1, x2}
  Loops = {l1}
  NoLoop = NoLoop
  NoProject = NoProject
  NoTxn = NoTxn
  MaxRetryRecovery = 0
  MaxAllowedApiErrors = 1
  MaxQueue = 2
  Handlers = {h1, h2}
  Cyclic = {x2}
  Restricted = {}
  AssetTxns = {x1}
  NoClient = NoClient
  MaxFaults = 2
  MaxLoads = 2
SPECIFICATION FairSpec
INVARIANTS
  CommittedOnce
PROPERTIES
  EditsSettle
