SPECIFICATION Spec
CONSTANTS
  Ranks <- TheRanks
  Comms <- TheComms
  MaxCalls = 2
  MaxLogs = 2
  WithAction = FALSE
  LogsToStdout = FALSE
  Printers = {1}
CHECK_DEADLOCK FALSE
INVARIANTS TypeOK InOwnStream CallWindow
