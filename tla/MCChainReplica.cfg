SPECIFICATION MCSpec
CONSTANTS
  Node = {n1, n2, n3}
  n1 = n1
  n2 = n2
  n3 = n3
  Joined = {n1}
  Hash = {0, 1, 2, 3}
  None = None
INVARIANT TypeOK
INVARIANT PrefixAgreement
PROPERTY ChainsGrow
CHECK_DEADLOCK FALSE
