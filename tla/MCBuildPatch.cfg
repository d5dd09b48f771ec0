CONSTANTS
  t1 = t1
  t2 = t2
  t3 = t3
  Projects = {p}
  Txns = {t1, t2, t3}
  Clients = {c}
  Handlers = {h1, h2}
  Requests <- SmallRequests
  Cyclic = {t2}
  Restricted = {t3}
  AssetTxns = {t1}
  NoClient = NoClient
  NoTxn = NoTxn
  MaxVersion = 2
SPECIFICATION BPSpec
SYMMETRY HandlerSymmetry
INVARIANTS
  BPTypeOK
  AssetsBeforeBuild
  BPInv
PROPERTIES
  BuildLogSpec
