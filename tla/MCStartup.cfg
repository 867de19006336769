\* The engine's thread against the caller's first native_next.
CONSTANTS
  MaxYields = 1
  CallerRetries = FALSE
SPECIFICATION FairSpec
INVARIANT
  FirstYieldGetsCode
