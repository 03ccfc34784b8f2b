SPECIFICATION FairSpec
CONSTANTS
  t1 = t1
  t2 = t2
  Users <- MCPair
  Txs <- MCTxs
  NoTx = NoTx
INVARIANTS
  SomeActiveAdmin
  GuardInv
PROPERTIES
  ImplementsRegistry
  RequestsAreAnswered
