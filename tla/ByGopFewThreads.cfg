SPECIFICATION FairSpec
CONSTANTS
  pyramid_size = 2
  Slots = 2
  Threads = 2
  InputLen = 2
  Cuts <- MCCuts
  MaxFrames = 6
CHECK_DEADLOCK FALSE
PROPERTY DropFlushes
