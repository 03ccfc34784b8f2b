---------------------------- MODULE MCAdminGuard ----------------------------
(* Two accounts and two concurrent administration requests. *)
EXTENDS AdminGuard

CONSTANTS t1, t2

MCPair   == 1..2
MCTxs    == {t1, t2}
=============================================================================
