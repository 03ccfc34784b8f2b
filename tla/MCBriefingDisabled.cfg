SPECIFICATION MCSpec
CONSTANTS
  w1 = w1
  w2 = w2
  reset = reset
  Workers <- MCWorkers
  Tests <- MCNone
  Secrets <- MCNone
  MaxDay = 1
  MaxRetries = 1
  MaxMailboxes = 1
  MaxExcuses = 0
INVARIANTS
  DisabledMeansQuiet
