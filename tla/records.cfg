SPECIFICATION RecordsSpec
CONSTANTS
  Account = {1, 2}
  Node = {1, 2}
  Founder = 1
  Miner = {1, 2}
  Conn <- OneConnection
  Amount = {1}
  MaxTxs = 2
  MaxBlocks = 2
  MaxDrops = 0
  Genesis = Genesis
  None = None
  Deploy = Deploy
  Invoke = Invoke
  DeployCost = 10
  InvokeCost = 10
  MaxDeploys = 1
  Cid = {1}
  Slow = {}
  MaxUploads = 1
INVARIANT FilesKept
INVARIANT FilesLetGo
 
INVARIANT DeployedFirst
CHECK_DEADLOCK FALSE
