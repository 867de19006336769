\* The engine as the driver of this repository uses it.  A process that crashed
\* has no next state.
CONSTANTS
  MaxYields = 3
  CallerRetries = FALSE
SPECIFICATION SmFairSpec
CHECK_DEADLOCK FALSE
INVARIANTS
  ContextWhileRunning
  CrashesOnlyAtEnds
PROPERTIES
  SmCallsReturn
  DestroyEndsOrWaits
  ImplementsProtocol
