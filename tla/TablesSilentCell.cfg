CONSTANTS
  NODES <- MCNodes
  NONE = NONE
  DEEP = 4
  NOHEAP = NOHEAP
  CODEPAGE = 90
  WINDOWS_1252 = 1252
  RECIPIENTS <- MCRecipients
SPECIFICATION Spec
INVARIANT NeverSilent
CHECK_DEADLOCK FALSE
