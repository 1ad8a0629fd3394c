SPECIFICATION Spec
CONSTANTS
  Ranks <- TheRanks
  Comms <- TheComms
  MaxCalls = 1
  MaxLogs = 2
  WithAction = FALSE
  LogsToStdout = TRUE
  Printers = {}
CHECK_DEADLOCK FALSE
INVARIANTS InOwnStream
