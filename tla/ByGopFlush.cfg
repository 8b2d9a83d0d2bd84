SPECIFICATION FairSpec
CONSTANTS
  pyramid_size = 2
  Slots = 2
  Threads = 5
  InputLen = 2
  Cuts <- MCCuts
  MaxFrames = 9
INVARIANTS
  TypeOK
  DeliveredInOrder
  GopsStartAtCuts
  OneGopPerWorker
  SplitInBounds
PROPERTIES
  DropFlushes
  ImplementsService
