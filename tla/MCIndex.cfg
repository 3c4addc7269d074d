CONSTANTS
  FILES <- MCFiles
  ROLES <- MCRoles
  MAX_DEPTH = 2
  MAX_WARNINGS = 2
  NOTHING = NOTHING
SPECIFICATION Spec
INVARIANTS LossRecorded HealthyPathsRead OneIndex NoGhosts NothingUnsaid
CHECK_DEADLOCK FALSE
