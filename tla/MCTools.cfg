CONSTANTS
  Logs <- MCLogs
  WINDOW <- MCWindow
  RUN <- MCRun
  Archives <- MCArchives
  HEAD = 1
  ENTRY = 1
  LENGTH = 2
  Flat <- MCFlat
  Unwritable <- MCUnwritable
SPECIFICATION Spec
INVARIANTS VerdictRight ExtractedWhole
CHECK_DEADLOCK FALSE
