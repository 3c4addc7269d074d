CONSTANTS
  FILES <- MCFiles
  ROLES <- MCRoles
  MAX_DEPTH = 2
  MAX_WARNINGS = 2
  NOTHING = NOTHING
SPECIFICATION Spec
INVARIANT AllClear
CHECK_DEADLOCK FALSE
