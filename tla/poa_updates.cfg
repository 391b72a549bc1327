SPECIFICATION Spec
CONSTANTS
  Account = {1, 2}
  Node = {1, 2}
  Founder = 1
  Joined = {1}
  FirstMiners <- Alone
  Conn <- OneConnection
  Amount = {35}
  Turns = 0
  MaxTxs = 4
  MaxBlocks = 4
  MaxUpdates = 1
  MaxStops = 0
  MaxDrops = 0
  Genesis = Genesis
  None = None
INVARIANT TypeOK
INVARIANT ScheduleAgrees
INVARIANT NoFork
INVARIANT ScheduleKept
CHECK_DEADLOCK FALSE
