--------------------------- MODULE SessionLifecycle ---------------------------
(***************************************************************************)
(* What a login session is to its owner: it is opened once, lives while it *)
(* can be refreshed, and once it is over it never comes back.  Module      *)
(* AuthSessions shows that the two tables behind it (auth_sessions and     *)
(* refresh_tokens), changed by concurrent transactions, keep this promise. *)
(***************************************************************************)
CONSTANT Sessions

VARIABLE life  \* "new", "alive" or "over", for each session

LifecycleInit == life = [s \in Sessions |-> "new"]

Open(s) ==
  /\ life[s] = "new"
  /\ life' = [life EXCEPT ![s] = "alive"]

End(S) ==
  /\ \A s \in S : life[s] = "alive"
  /\ life' = [s \in Sessions |-> IF s \in S THEN "over" ELSE life[s]]

LifecycleNext == (\E s \in Sessions : Open(s)) \/ (\E S \in SUBSET Sessions : End(S))

LifecycleSpec == LifecycleInit /\ [][LifecycleNext]_life
=============================================================================
