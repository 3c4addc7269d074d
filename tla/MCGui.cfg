CONSTANTS
  FILES <- MCFiles
  FOLDERS = {7, 8}
  MAILS <- MCMails
  MAX_POSTED = 2
SPECIFICATION Spec
INVARIANTS OneJob JobAsAsked IdleStatus RowsAreShown
PROPERTY JobEnds
CHECK_DEADLOCK FALSE
