SPECIFICATION MCFairSpec
CONSTANTS
  MaxTries = 5
  MaxPending = 6
PROPERTY
  StopEnds
