CONSTANTS
  Tabs = {tab}
  Dialogs = {tab}
  Projects = {p, q}
  Txns = {x1, x2}
  Loops = {l1, l2}
  NoLoop = NoLoop
  NoProject = NoProject
  NoTxn = NoTxn
  MaxRetryRecovery = 1
  MaxAllowedApiErrors = 1
  MaxQueue = 2
  MaxVersion = 2
  Callers = {}
SPECIFICATION TCSpec
SYMMETRY Symmetry
INVARIANTS
  PQTypeOK
  OneLiveLoop
  SentByOneLoop
PROPERTIES
  AnsweredOnce
