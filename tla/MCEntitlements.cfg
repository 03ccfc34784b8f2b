SPECIFICATION MCSpec
CONSTANTS
  ask = ask
  again = again
  other = other
  talk1 = talk1
  m1 = m1
  m2 = m2
  code = code
  r1 = r1
  r2 = r2
  Calls <- MCCalls
  KeyOf <- MCKeyOf
  TalkOf <- MCTalkOf
  Reservation <- MCReservation
  Costs <- MCCosts
  FreeLimit = 2
  OwnLimit = 1
  Allowances <- MCAllowances
  CreditPoints = 1
  MaxPoints = 3
  MaxMonth = 2
  MaxChanges = 1
  Members <- MCMembers
  RedeemCodes <- MCRedeemCodes
  Redeemers <- MCRedeemers
  GrantDays = 1
  LastDay = 2
  LastEnd = 3
  MaxUses = 2
  Nobody = Nobody
INVARIANTS
  EntitlementsInv
  ChargedInFull
  ReservationsHeld
  ChargedOnce
  QuestionsSettled
  UsesAreRedemptions
  ExtensionsAddUp
SYMMETRY MCSymmetry
CHECK_DEADLOCK FALSE
