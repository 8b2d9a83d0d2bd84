SPECIFICATION SyncFairSpec
CONSTANTS
  LowLatency = TRUE
  SpeedMultiref = TRUE
  StillPicture = FALSE
  RcFrameLimit = 1000
  SwitchFrameInterval = 3
  SecondPass = TRUE
  RdoLookaheadFrames = 2
  MaxKeyFrameInterval = 10
  Params <- OneParams
  SceneCuts <- MCCuts
  MaxFrames = 12
INVARIANTS
  TypeOK
PROPERTIES
  FlushCompletes
  ImplementsService
