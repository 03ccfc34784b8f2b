SPECIFICATION MCSpec
CONSTANTS
  w1 = w1
  w2 = w2
  reset = reset
  Workers <- MCWorkers
  Tests <- MCNone
  Secrets <- MCSecrets
  MaxDay = 2
  MaxRetries = 1
  MaxMailboxes = 2
  MaxExcuses = 1
INVARIANTS
  CopiesExplained
  QueueInv
PROPERTIES
  JobsFinish
  SecretsAreSpent
  ImplementsCopies
