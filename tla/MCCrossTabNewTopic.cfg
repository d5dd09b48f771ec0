CONSTANTS
  Tabs = {1, 2}
  TopicOrder <- MCTopicOrder
  MaxVersions = 1
  MaxQueue = 1
  MaxFaults = 0
SPECIFICATION Spec
CHECK_DEADLOCK FALSE
INVARIANT NoTopicWaits
