---------------------------- MODULE MCAuthSessions ----------------------------
(* Two sessions, three tokens, two concurrent requests, one password change. *)
EXTENDS AuthSessions, TLC

CONSTANTS s1, s2, k1, k2, k3, t1, t2

MCSessions == {s1, s2}
MCTokens   == {k1, k2, k3}
MCTxs      == {t1, t2}

\* Row identities and requests are interchangeable (for runs without liveness).
MCSymmetry == Permutations(MCSessions) \cup Permutations(MCTokens) \cup Permutations(MCTxs)
=============================================================================
