SPECIFICATION LfSpec
CONSTANTS
  Frames <- MCFrames
  MAX_TILE_WIDTH = 512
  MAX_TILE_AREA = 131072
  MAX_TILE_COLS = 4
  MAX_TILE_ROWS = 4
  RateArea = 100000
CHECK_DEADLOCK FALSE
INVARIANT TilesReached
