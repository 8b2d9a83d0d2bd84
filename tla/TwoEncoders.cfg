SPECIFICATION TwoSpec
CONSTANTS
  LowLatency = FALSE
  SpeedMultiref = TRUE
  StillPicture = FALSE
  RcFrameLimit = 1000
  SwitchFrameInterval = 0
  SecondPass = FALSE
  RdoLookaheadFrames = 1
  MaxKeyFrameInterval = 5
  Params <- AllParams
  SceneCuts <- NoCuts
  MaxFrames = 9
  NoFrame = NoFrame
  Eyes = {0, 1}
  MB_COUNT = 2
  NVal = 2
  MVs <- MCMVs
  Residuals = {0, 1}
  Bands <- TwoBands
  LAZY_BASE_COPY_MAX_MB_PER_TILE = 1
INVARIANTS
  InDisplayOrder
  NeverStarvedAfterFlush
  ForcedKeyframesHonoured
  OpaqueDelivered
  LookaheadEnds
  LoopTypeOK
  ClosedLoop
  UndamagedDecodes
