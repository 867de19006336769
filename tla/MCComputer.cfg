\* Up to four outputs of a script, two of them component calls, in one life
\* after another.  That runThreaded does not retry is shown, not assumed.
\* Nothing happens once the process has died.
CHECK_DEADLOCK FALSE
CONSTANTS
  MaxYields = 3
  CallerRetries = TRUE
  MaxCalls = 2
  MaxSignals = 1
SPECIFICATION ComputerFairSpec
INVARIANTS
  AnswersReachRequests
  DriverStops
  ScriptRunsWithMachine
PROPERTIES
  ImplementsArchitecture
  CallsReturn
  ComputerStops
