SPECIFICATION SSpec
CONSTANTS
  Ranks <- TheRanks
  Comms <- TheComms
  MaxCalls = 2
  MaxLogs = 2
  WithAction = FALSE
  LogsToStdout = FALSE
  Printers = {}
  MaxDirs = 2
  MaxQuestions = 2
  MaxRefusals = 1
CHECK_DEADLOCK FALSE
INVARIANTS RanksAgree LoggedOnce
PROPERTIES StartUpEnds
