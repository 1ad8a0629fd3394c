SPECIFICATION Spec
CONSTANTS
  a = a
  b = b
  c = c
  d = d
  self = self
  dest = dest
  stage = stage
  Ranks = {r0, r1}
  Root = r0
  Jobs = {a, b, c, d}
  Order <- KillOrder
  Before = {a, b, c}
  KillOnError = {a}
  Depends <- KillDepends
  Requires <- KillRequires
  Codes = {0, 1}
  Files = {dest}
  Stagings = {stage}
  Dest <- TheDest
  MayDie = {b}
  Self = self
CHECK_DEADLOCK FALSE
INVARIANTS WaitsForWorkflow
