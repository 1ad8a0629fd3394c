SPECIFICATION NSpec
CONSTANTS
  Keys = {init, a, u}
  Configured = {init, a}
  Matched = {init, a}
  WithSampler = {a}
  Comms = {w, s}
  Actions = {act1}
  World = w
  InitKey = init
  Null = Null
  MaxDepth = 4
  MaxLeaks = 1
INVARIANTS NeverRefused StackIsLoops ActionsFollowLoops
PROPERTIES EndRunsWhatBeginRan EnclosingLoopsRun IterationsAreInnermost
