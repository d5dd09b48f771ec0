CONSTANTS
  t1 = t1
  t2 = t2
  Projects = {p}
  Txns = {t1, t2, i1, i2}
  Clients = {c}
  Handlers = {h}
  Requests <- SmallRequests
  Cyclic = {}
  Restricted = {}
  AssetTxns = {t1, t2, i1, i2}
  NoClient = NoClient
  NoTxn = NoTxn
  MaxVersion = 3
  Imports = {i1, i2}
  FolderTxns = {t2}
SPECIFICATION TabsSpec
SYMMETRY ImportSymmetry
INVARIANTS
  AssetsOfVisible
PROPERTIES
  ImportLogSpec
  AcceptedIsVisible
