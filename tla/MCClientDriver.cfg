\* Three operations suffice for an abandoned one, its successor and one on the other
\* half; two bytes each way with a limit of one make reads that are short, exact and too
\* long, and writes that block half way.
SPECIFICATION FairSpec
CONSTANTS
  MaxOps = 3
  WriteSize = 2
  ReadMax = 1
  EndLimit = 1
  CmdCap = 2
  MaxFrames = 2
  MaxBytes = 2
  MaxCredit = 3
  MaxStreams = 2
  MaxOpens = 1
  Scenario <- MCScenario
INVARIANTS
  TypeOK
  NoLostWakeup
  ServedInOrder
  OkMeansDone
PROPERTIES
  EveryoneIsAnswered
  ConnectSettles
CHECK_DEADLOCK FALSE
