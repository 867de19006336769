\* Any modules, cycles included.  A kernel that an exception reached has no next
\* state.
CONSTANTS
  Paths = {a, b}
  MaxDeps = 2
  MaxDepth = 4
  MaxEvals = 5
SPECIFICATION FairSpec
CHECK_DEADLOCK FALSE
INVARIANTS
  CacheHoldsOwn
  ExportsRestored
PROPERTIES
  CacheStable
  CycleEndsInThrow
