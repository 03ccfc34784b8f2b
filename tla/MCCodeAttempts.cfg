SPECIFICATION Spec
CONSTANTS
  r1 = r1
  r2 = r2
  x1 = x1
  c1 = c1
  d1 = d1
  a1 = a1
  a2 = a2
  h1 = h1
  h2 = h2
  None = None
  Registrations <- MCRegistrations
  Changes <- MCNone
  Resets <- MCNone
  Devices <- MCNone
  Accounts <- MCAccounts
  Handlers <- MCHandlers
  MaxAttempts = 2
  MaxIssued = 1
SYMMETRY MCSymmetry
INVARIANT
  LockedAtCap
