SPECIFICATION Spec
CONSTANTS
  e1 = e1
  e2 = e2
  k1 = k1
  h1 = h1
  h2 = h2
  None = None
  Edits <- MCEdits
  Commands <- MCCommands
  Handlers <- MCHandlers
  MaxTries = 2
  MaxFlips = 2
  MaxExpiry = 1
SYMMETRY MCSymmetry
INVARIANTS
  AppliedOnce
  NoLostEdit
  AcknowledgedIsWritten
  DocumentInv
PROPERTIES
  TimetableKept
