SPECIFICATION Spec
CONSTANTS
  Account = {1, 2}
  Node = {1, 2}
  Founder = 1
  Miner = {1, 2}
  Conn <- OneConnection
  Amount = {15}
  MaxTxs = 2
  MaxBlocks = 3
  MaxDrops = 1
  Genesis = Genesis
  None = None
INVARIANT TypeOK
INVARIANT NoDuplicateTx
INVARIANT CandidateFromPool
INVARIANT PoolHasNoCopies
PROPERTY ReplicaSpec
CHECK_DEADLOCK FALSE
