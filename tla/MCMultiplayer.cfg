CONSTANTS
  MaxEdits = 2
  Others = {z}
  MaxCopies = 1
  MaxEvents = 2
SPECIFICATION FairSpec
CHECK_DEADLOCK FALSE
INVARIANTS
  TypeOK
  DurableMeansSaved
  IdleMeansSaved
  OvertakesOnlyDetained
PROPERTY EditsSettle
