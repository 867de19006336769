\* All pairs of paths of up to three parts; MAX_OBJ_KEYS is 1000 in the code, and
\* two here, below the largest array and object that scripts send.
CONSTANTS
  Names = {"a", "b"}
  MaxParts = 3
  Engines = {"duktape", "spidermonkey"}
  MaxKeys = 2
  MaxDepth = 1
  Recoded <- MCRecoded
  Lone = {"lone"}
  Sendable <- MCSendable
INIT LibrariesInit
NEXT LibrariesNext
INVARIANTS
  PathsLead
  RewritingKeepsMeaning
  PlainSurvives
  SecondEchoSame
