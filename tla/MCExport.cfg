CONSTANTS
  MAILBOXES <- MCMailboxes
  FORMATS <- MCFormats
  ROOT_FOLDER = "f0"
  WHOLE = WHOLE
  DIR = DIR
  SECTOR = 4
  MINI_SECTOR = 2
  MINI_CUTOFF = 6
  IDS = 3
  DIRS = 2
  DIFAT_IN_HEADER = 4
  STORAGE = STORAGE
  FREESECT = FREESECT
  ENDOFCHAIN = ENDOFCHAIN
  FATSECT = FATSECT
  DIFSECT = DIFSECT
  NOSTREAM = NOSTREAM
SPECIFICATION Spec
INVARIANTS EachIsThere OnlyChosen MsgReads
CHECK_DEADLOCK FALSE
