-------------------------------- MODULE MCCodes --------------------------------
\* Small instances of OneTimeCodes: two registration codes, of which one may replace the other, a
\* code or token of each other kind, and two accounts, on two concurrent handlers.
EXTENDS OneTimeCodes, TLC

CONSTANTS r1, r2, x1, c1, d1, a1, a2, h1, h2

MCRegistrations == {r1, r2}
MCChanges  == {x1}
MCResets   == {c1}
MCDevices  == {d1}
MCAccounts == {a1, a2}
MCHandlers == {h1, h2}
MCNone     == {}

MCSymmetry == Permutations(MCRegistrations) \cup Permutations(MCAccounts) \cup Permutations(MCHandlers)
=============================================================================
