SPECIFICATION FairSpec
CONSTANTS
  Account = {1, 2}
  Node = {1, 2}
  Founder = 1
  Miner = {1}
  Conn <- OneConnection
  Amount = {25}
  MaxTxs = 2
  MaxBlocks = 3
  MaxDrops = 1
  Genesis = Genesis
  None = None
PROPERTY Settled
PROPERTY CatchUp
CHECK_DEADLOCK FALSE
