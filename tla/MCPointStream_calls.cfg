SPECIFICATION FairSpec
CONSTANTS
  Ranks <- TheRanks
  Comms <- TheComms
  MaxCalls = 4
  MaxLogs = 0
  WithAction = TRUE
  LogsToStdout = FALSE
  Printers = {}
CHECK_DEADLOCK FALSE
INVARIANTS InStep CallOrder
PROPERTIES EveryCallReturns
