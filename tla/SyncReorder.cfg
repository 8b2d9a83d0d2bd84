SPECIFICATION SyncSpec
CONSTANTS
  LowLatency = FALSE
  SpeedMultiref = TRUE
  StillPicture = FALSE
  RcFrameLimit = 1000
  SwitchFrameInterval = 0
  SecondPass = FALSE
  RdoLookaheadFrames = 2
  MaxKeyFrameInterval = 21
  Params <- OneParams
  SceneCuts <- MCCuts
  MaxFrames = 24
INVARIANTS
  KeyframeIntervalRespected
  DecidedBeforeBuilt
  NeededIsResident
  NoDrift
  DisplaysInput
