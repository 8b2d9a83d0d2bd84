SPECIFICATION ChanFairSpec
CONSTANTS
  LowLatency = FALSE
  SpeedMultiref = TRUE
  StillPicture = FALSE
  RcFrameLimit = 1000
  SwitchFrameInterval = 0
  SecondPass = TRUE
  RdoLookaheadFrames = 1
  MaxKeyFrameInterval = 5
  Params <- OneParams
  SceneCuts <- NoCuts
  MaxFrames = 13
  EmitPassData = TRUE
  PassData <- ThirteenFrames
  ReservoirDelay = 3
  InputLen = 2
  MaxPassIn = 1
  SendsNone = TRUE
  Quits <- SomeQuits
INVARIANTS
  PanicsOnlyIfAbandoned
  PassDataComplete
PROPERTIES
  SecondPassInStep
  ChannelEnds
  ChannelImplementsService
