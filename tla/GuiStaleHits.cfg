CONSTANTS
  FILES <- MCFiles
  FOLDERS = {7, 8}
  MAILS <- MCMails
  MAX_POSTED = 2
SPECIFICATION Spec
INVARIANT HitsOfOpenFile
CHECK_DEADLOCK FALSE
