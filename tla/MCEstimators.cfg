CONSTANTS
  MaxTime = 4
  MaxPoses = 2
  MaxDelay = 2
  MaxQueue = 3
  MaxWait = 1
  MaxJumps = 2
SPECIFICATION FairSpec
INVARIANTS
  TypesOK
  OnlyStarvedFusesTwice
  InOrderOnce
  OnlyQueriesHideTime
PROPERTIES
  ForwardOnly QueueDrains
