SPECIFICATION Spec
CONSTANTS
  r1 = r1
  r2 = r2
  x1 = x1
  c1 = c1
  d1 = d1
  a1 = a1
  a2 = a2
  h1 = h1
  h2 = h2
  None = None
  Registrations <- MCRegistrations
  Changes <- MCChanges
  Resets <- MCResets
  Devices <- MCDevices
  Accounts <- MCAccounts
  Handlers <- MCHandlers
  MaxAttempts = 1
  MaxIssued = 2
SYMMETRY MCSymmetry
INVARIANTS
  OlderCodesAreOver
  ApprovalHolds
  CodesInv
PROPERTIES
  AcceptedOnce
