\* The first run of an engine.
CHECK_DEADLOCK FALSE
CONSTANTS
  MaxCalls = 1
  MaxSignals = 1
SPECIFICATION FairSpec
INVARIANT
  NeverBoth
