SPECIFICATION FairSpec
CONSTANTS
  a = a
  b = b
  c = c
  d = d
  self = self
  dest = dest
  stage = stage
  Ranks = {r0, r1}
  Root = r0
  Jobs = {a, b, c, d}
  Order <- TheOrder
  Before = {a, b, c}
  KillOnError = {}
  Depends <- FairDepends
  Requires <- FairRequires
  Codes = {0, 1}
  Files = {dest}
  Stagings = {stage}
  Dest <- TheDest
  MayDie = {}
  Self = self
CHECK_DEADLOCK FALSE
INVARIANTS DependencyOrder
PROPERTIES WorkflowEnds ImplementsWorkflow
