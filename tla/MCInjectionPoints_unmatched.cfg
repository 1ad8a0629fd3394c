SPECIFICATION Spec
CONSTANTS
  Keys = {init, a, b}
  Configured = {init, a, b}
  Matched = {init, a}
  WithSampler = {a}
  Comms = {w, s}
  Actions = {act}
  World = w
  InitKey = init
  Null = Null
  MaxDepth = 2
  MaxLeaks = 0
CHECK_DEADLOCK FALSE
INVARIANTS NeverNull
