-------------------------------- MODULE MCCloud --------------------------------
(* Two edits, at most one command, two handlers. *)
EXTENDS CloudDocument, TLC

CONSTANTS e1, e2, k1, h1, h2

MCEdits    == {e1, e2}
MCCommands == {k1}
MCHandlers == {h1, h2}
MCOne      == {h1}
MCNone     == {}

MCSymmetry == Permutations(MCEdits) \cup Permutations(MCHandlers)
=============================================================================
