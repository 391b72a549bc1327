SPECIFICATION FairSpec
CONSTANTS
  Node = {1,2,3}
  Founder = 1
  Given <- Names
  Lower <- LowerCase
  Saver = {3}
  Load = {TRUE}
  None = None
  MAX_CONNECTIONS = 1
  Hasty = FALSE
  MaxStops = 1
  Sought <- Pairs
  Fragile = {3}
INVARIANT TypeOK
INVARIANT EntriesCurrent
 
INVARIANT SavedPeers
PROPERTY EveryoneMeets
PROPERTY Joins
CHECK_DEADLOCK FALSE
