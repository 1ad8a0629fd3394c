SPECIFICATION FairSpec
CONSTANTS
  large = large
  trio = trio
  left = left
  right = right
  zero = zero
  None = None
  Size = 4
  Tests = {large, trio, left, right, zero}
  Cores <- TheCores
  MayThrow = {left}
CHECK_DEADLOCK FALSE
INVARIANTS AllRun NobodyIsGone
PROPERTIES TestsEnd ImplementsPlacement
