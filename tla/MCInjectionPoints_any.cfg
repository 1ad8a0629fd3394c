SPECIFICATION Spec
CONSTANTS
  Keys = {init, a, b, u}
  Configured = {init, a, b}
  Matched = {init, a}
  WithSampler = {a}
  Comms = {w, s}
  Actions = {act1, act2}
  World = w
  InitKey = init
  Null = Null
  MaxDepth = 2
  MaxLeaks = 1
INVARIANTS TypeOK Lockstep OpenCommsKept Defined
CHECK_DEADLOCK FALSE
