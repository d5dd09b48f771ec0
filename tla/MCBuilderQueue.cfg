CONSTANTS
  Tabs = {tab}
  Dialogs = {}
  Projects = {p}
  Txns = {x1, x2}
  Loops = {l1}
  NoLoop = NoLoop
  NoProject = NoProject
  NoTxn = NoTxn
  MaxRetryRecovery = 0
  MaxAllowedApiErrors = 0
  MaxQueue = 2
  MaxVersion = 2
  Callers = {k1}
SPECIFICATION TCFairSpec
INVARIANTS
  NoEditLost
  IdleMeansSaved
  SavedInOrder
  DetailsPrecedeTransactions
  ConfirmedWhenCalled
  WaitsForUnanswered
PROPERTIES
  EditsAnswered
