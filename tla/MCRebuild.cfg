CONSTANTS
  PAGE = 4
  BLOCK_ALIGN = 2
  TRAILER = 1
  AMAP_FIRST = 4
  AMAP_EVERY = 28
  MAP_SLOTS = 2
  HEADER = 3
  ESSENTIAL = {33, 290}
  TARGETS = {"out"}
  INNER_FAN = 2
  LEAF_FAN <- MCLeafFan
  BLOCK_LISTS <- MCBlockLists
  NODE_LISTS <- MCNodeLists
SPECIFICATION Spec
INVARIANTS TypeOK RebuiltFileResolves MapSlotsEmpty IdsFresh ReportHonest
PROPERTY ImplementsOutput
CHECK_DEADLOCK FALSE
