\* Two or three blocks of a few sizes around the limits.
CONSTANTS
  Blocks = {b1, b2, b3}
  Sizes = {0, 1, 2, 3}
  Header = 1
  Limits = {0, 4, 6}
  Default = 5
SPECIFICATION Spec
INVARIANTS
  CountIsSum
  WithinLargest
