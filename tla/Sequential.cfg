SPECIFICATION SeqFairSpec
CONSTANTS
  Frames <- MCFrames
  MAX_TILE_WIDTH = 512
  MAX_TILE_AREA = 131072
  MAX_TILE_COLS = 4
  MAX_TILE_ROWS = 4
  RateArea = 100000
  WINDOW_SIZE = 24
  CDF_LEN_SMALL = 3
  CDF_LEN_MAX = 5
  Layout <- MCLayout
  InitialFc <- MCFc
  DirectCdfs <- MCDirect
  Symbols <- MCSymbols
  MaxSymbols = 4
  MaxMarks = 2
  Jobs <- MCJobs
  ReservoirDelay = 3
  Streams <- MCStreams
  HDR = 2
  PKT = 2
  MaxPiece = 5
  FrameCount = 12
  Keyint = 5
  RATE_WINDOW_FRAMES = 4
  RATE_WINDOW_BYTES = 8
  KEY_RAW_CODED_BYTES = 3
  TIGHT_WINDOW_BYTES = 7
  PSizes <- MCPSizes
  BudgetSteps = 2
  RecoverySteps = 2
  EmbeddedStreams <- MCEmbedded
  BenchIterations = 2
  MaxBenchFrames = 3
  MaxBenchSamples = 5
INVARIANTS
  DivisionSound
  QueueDrains
  DecidedBeforeWritten
  LrfCodedWhereRead
  RollbackComplete
  BitstreamDecodes
  CodesInvert
  MetricsOfTheSameFrame
  OverrunsAnnounced
PROPERTIES
  SecondPassCompletes
  ReservedKeyFollows
  CloseExits
