CONSTANTS
  Tabs = {1, 2}
  TopicOrder <- MCTopicOrder
  MaxVersions = 1
  MaxQueue = 1
  MaxFaults = 2
SPECIFICATION FairSpec
CHECK_DEADLOCK FALSE
INVARIANTS
  TypeOK
  FollowersWatch
PROPERTIES
  OneLeaderRemains
  ListenersCatchUp
