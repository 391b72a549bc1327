SPECIFICATION Spec
CONSTANTS
  Account = {1, 2}
  Node = {1, 2}
  Founder = 1
  Joined = {1}
  Staker = {1, 2}
  Faulty = {}
  Conn <- OneConnection
  Start <- MidEpoch
  Sender = {2}
  Slow = {}
  Late = {}
  Opening = 20
  Amount = {5}
  StakeAmount = {10}
  MaxTxs = 3
  MaxStakes = 3
  MaxBlocks = 2
  MaxSlashes = 0
  MAX_OUTPUT = 2
  Genesis = Genesis
  None = None
INVARIANT StakeCounted
INVARIANT NoDuplicateTx
PROPERTY ReplicaSteps
CHECK_DEADLOCK FALSE
