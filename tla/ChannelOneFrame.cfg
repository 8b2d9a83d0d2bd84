SPECIFICATION ChanSpec
CONSTANTS
  LowLatency = FALSE
  SpeedMultiref = TRUE
  StillPicture = FALSE
  RcFrameLimit = 1000
  SwitchFrameInterval = 0
  SecondPass = TRUE
  RdoLookaheadFrames = 1
  MaxKeyFrameInterval = 5
  Params <- OneParams
  SceneCuts <- NoCuts
  MaxFrames = 8
  EmitPassData = FALSE
  PassData <- OneFrame
  ReservoirDelay = 0
  InputLen = 2
  MaxPassIn = 1
  SendsNone = FALSE
  Quits <- NoQuits
CHECK_DEADLOCK FALSE
INVARIANT PanicsOnlyIfAbandoned
