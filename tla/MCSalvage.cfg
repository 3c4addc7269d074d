CONSTANTS
  ALIGN = 2
  BACK = 1
  LONGEST = 3
  SWEEP_WINDOW = 4
  FILES <- MCFiles
  PAGE = 4
  BLOCK_ALIGN = 2
  TRAILER = 1
  AMAP_FIRST = 4
  AMAP_EVERY = 28
  MAP_SLOTS = 2
  SIZES = {1, 15}
  LIMIT = 54
SPECIFICATION Spec
INVARIANTS InsideWindow SameAsUnwindowed FindsAll
           ClearOfMaps ForwardAndDisjoint NoHoleLeft Aligned
PROPERTIES Ends Settles
CHECK_DEADLOCK FALSE
