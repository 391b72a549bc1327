SPECIFICATION FairSpec
CONSTANTS
  Account = {1, 2, 3}
  Node = {1, 2}
  Founder = 1
  Joined = {1, 2}
  Staker = {2}
  Faulty = {2}
  Conn <- OneConnection
  Start <- MidEpoch
  Sender = {1, 2}
  Slow = {}
  Late = {"new_block"}
  Opening = 20
  Amount = {5}
  StakeAmount = {8}
  MaxTxs = 2
  MaxStakes = 2
  MaxBlocks = 1
  MaxSlashes = 1
  MAX_OUTPUT = 2
  Genesis = Genesis
  None = None
INVARIANT TypeOK
 
PROPERTY DoubleSignerSlashed
 
PROPERTY EpochReopens
CHECK_DEADLOCK FALSE
