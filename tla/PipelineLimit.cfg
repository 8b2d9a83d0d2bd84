SPECIFICATION Spec
CONSTANTS
  LowLatency = FALSE
  SpeedMultiref = TRUE
  StillPicture = FALSE
  RcFrameLimit = 6
  SwitchFrameInterval = 0
  SecondPass = FALSE
  RdoLookaheadFrames = 1
  MaxKeyFrameInterval = 20
  Params <- AllParams
  SceneCuts <- NoCuts
  MaxFrames = 9
CHECK_DEADLOCK FALSE
INVARIANT LookaheadEnds
