CONSTANTS
  x1 = x1
  x2 = x2
  Tabs = {a, b}
  Dialogs = {b}
  Projects = {p}
  Txns = {x1, x2}
  Loops = {l1, l2}
  NoLoop = NoLoop
  NoProject = NoProject
  NoTxn = NoTxn
  MaxRetryRecovery = 0
  MaxAllowedApiErrors = 0
  MaxQueue = 2
  Handlers = {h1, h2}
  Cyclic = {}
  Restricted = {}
  AssetTxns = {}
  NoClient = NoClient
  MaxFaults = 1
  MaxLoads = 3
SPECIFICATION Spec
SYMMETRY FullSymmetry
INVARIANTS
  SavedIsCommitted
  NoMissingBase
  NoBlindWrite
PROPERTIES
  HaltMeansStale
