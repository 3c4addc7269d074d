CONSTANTS
  NIDS <- MCNids
  FOLDERS = {7, 8}
  PAGES = 5
  SLOTS = 3
  KINDS <- MCKinds
  MAX_EDITS = 2
  WINDOW = 3
SPECIFICATION Spec
INVARIANTS SweepAgrees LiveBlocksResolve NothingSweptIsLost ListedWins Accounted
PROPERTY Finishes
CHECK_DEADLOCK FALSE
