SPECIFICATION FairSpec
CONSTANTS
  Account = {1, 2}
  Node = {1, 2}
  Founder = 1
  Joined = {1, 2}
  FirstMiners <- Both
  Conn <- OneConnection
  Amount = {15}
  Turns = 2
  MaxTxs = 1
  MaxBlocks = 3
  MaxUpdates = 0
  MaxStops = 1
  MaxDrops = 1
  Genesis = Genesis
  None = None
PROPERTY HandedOver
CHECK_DEADLOCK FALSE
