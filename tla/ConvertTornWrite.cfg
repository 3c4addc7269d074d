CONSTANTS
  PAGE = 4
  BLOCK_ALIGN = 2
  TRAILER = 1
  AMAP_FIRST = 4
  AMAP_EVERY = 28
  MAP_SLOTS = 2
  INNER_FAN = 3
  LEAF_FAN <- MCLeafFan
  SOURCES <- MCSources
  STORE = 33
  ESSENTIAL = {33, 290}
  HEAP_SIG = 9
  MAX_DATA = 2
  FAN <- MCFan
  TOP_FAN <- MCFan
  MAX_NEST = 1
  CHUNK = 2
  RECOVERS = TRUE
SPECIFICATION Spec
INVARIANT CostsNothingElse
CHECK_DEADLOCK FALSE
