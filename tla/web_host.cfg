SPECIFICATION FairSpec
CONSTANTS
  Kind = {"pow","poa","pos"}
  Elsewhere = {"poa","pow","pos"}
  Port <- OnePort
  Miner = {TRUE,FALSE}
  MaxStarts = 2
  MaxTxs = 1
  MaxBlocks = 1
  MaxStakes = 1
  Account = {0,1,2,3}
  Genesis = Genesis
  None = None
INVARIANT TypeOK
INVARIANT NoDuplicateTx
INVARIANT ServersAnswered
PROPERTY ChainKept
CHECK_DEADLOCK FALSE
