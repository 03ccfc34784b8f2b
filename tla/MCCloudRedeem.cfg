SPECIFICATION Spec
CONSTANTS
  e1 = e1
  e2 = e2
  k1 = k1
  h1 = h1
  h2 = h2
  None = None
  Edits <- MCEdits
  Commands <- MCNone
  Handlers <- MCOne
  MaxTries = 2
  MaxFlips = 2
  MaxExpiry = 0

INVARIANT
  TimetableEditsSurvive
