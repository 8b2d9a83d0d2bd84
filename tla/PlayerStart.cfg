SPECIFICATION PlayerFairSpec
CONSTANTS
  EmbeddedStreams <- MCEmbedded
  BenchIterations = 2
  MaxBenchFrames = 3
  MaxBenchSamples = 5
CHECK_DEADLOCK FALSE
PROPERTY StartExits
