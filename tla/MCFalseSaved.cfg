CONSTANTS
  x1 = x1
  x2 = x2
  Tabs = {a}
  Dialogs = {}
  Projects = {p}
  Txns = {x1, x2}
  Loops = {l1}
  NoLoop = NoLoop
  NoProject = NoProject
  NoTxn = NoTxn
  MaxRetryRecovery = 0
  MaxAllowedApiErrors = 0
  MaxQueue = 1
  Handlers = {h1, h2}
  Cyclic = {x1}
  Restricted = {}
  AssetTxns = {}
  NoClient = NoClient
  MaxFaults = 1
  MaxLoads = 1
SPECIFICATION Spec
SYMMETRY Symmetry
INVARIANTS
  SavedIsCommitted
