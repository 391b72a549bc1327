SPECIFICATION Spec
CONSTANTS
  Account = {1, 2}
  Node = {1, 2}
  Founder = 1
  Joined = {1, 2}
  FirstMiners <- Both
  Conn <- OneConnection
  Amount = {30}
  Turns = 2
  MaxTxs = 2
  MaxBlocks = 3
  MaxUpdates = 0
  MaxStops = 0
  MaxDrops = 0
  Genesis = Genesis
  None = None
INVARIANT Solvent
PROPERTY ReplicaSpec
CHECK_DEADLOCK FALSE
