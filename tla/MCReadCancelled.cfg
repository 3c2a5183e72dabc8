\* One byte and a limit above it: no read fails, but one may be abandoned.
SPECIFICATION Spec
CONSTANTS
  MaxOps = 2
  WriteSize = 1
  ReadMax = 1
  EndLimit = 1
  CmdCap = 2
  MaxFrames = 2
  MaxBytes = 1
  MaxCredit = 1
  MaxStreams = 1
  MaxOpens = 1
  Scenario <- MCScenario
INVARIANTS
  ReadToEndIsWhole
CHECK_DEADLOCK FALSE
