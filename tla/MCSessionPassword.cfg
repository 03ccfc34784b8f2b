SPECIFICATION Spec
CONSTANTS
  s1 = s1
  s2 = s2
  k1 = k1
  k2 = k2
  k3 = k3
  t1 = t1
  t2 = t2
  Sessions <- MCSessions
  Tokens <- MCTokens
  Txs <- MCTxs
  MaxPassword = 1
  NoRow = NoRow
SYMMETRY MCSymmetry
INVARIANT
  NoSessionOfOldPassword
