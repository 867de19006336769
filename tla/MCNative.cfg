\* The engine under any caller: native_next may be called again after a
\* timeout or a dead result.
CONSTANTS
  MaxYields = 3
  CallerRetries = TRUE
SPECIFICATION FairSpec
INVARIANT
  PromiseFresh
PROPERTIES
  DestroyEnds
  DeadIsHeard
  ImplementsProtocol
