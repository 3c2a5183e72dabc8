\* A channel of one and three connections: one accepted, one in the channel, one queued.
SPECIFICATION FairSpec
CONSTANTS
  MaxConn = 3
  MaxOps = 2
  AcceptCap = 1
  CmdCap = 1
INVARIANTS
  TypeOK
  OfferedOnceInOrder
  BooksMatchCore
PROPERTIES
  DriverKeepsServing
CHECK_DEADLOCK FALSE
