\* One computer, turned on and off, signalled and connected at any moment.  Nothing
\* happens once its process has died.
CHECK_DEADLOCK FALSE
CONSTANTS
  MaxCalls = 3
  MaxSignals = 2
SPECIFICATION FairSpec
INVARIANTS
  AnswersMatchRequests
  BothOnlyAtBoot
PROPERTIES
  ImplementsRemoteCall
  CallsAnswered
  StopsEnd
