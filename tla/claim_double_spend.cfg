SPECIFICATION Spec
CONSTANTS
  Account = {1, 2}
  Node = {1}
  Founder = 1
  Miner = {1}
  Conn <- NoConnection
  Amount = {10, 38}
  MaxTxs = 5
  MaxBlocks = 5
  MaxDrops = 0
  Genesis = Genesis
  None = None
INVARIANT NoDoubleSpend
CHECK_DEADLOCK FALSE
