\* Two handlers, of which any may sleep, registered and deregistered three times
\* while two signals are delivered, the second perhaps within the first.
CONSTANTS
  Handlers = {f, g}
  Names = {"signal", "key"}
  MaxSignals = 2
  MaxChanges = 3
SPECIFICATION FairSpec
PROPERTIES
  RightListeners
  OvertakenOnlyAcrossSleep
  SleepsEnd
\* A program that sleeps when no more signals come sleeps on.
CHECK_DEADLOCK FALSE
