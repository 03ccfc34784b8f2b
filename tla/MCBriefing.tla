------------------------------ MODULE MCBriefing ------------------------------
(***************************************************************************)
(* Two workers and a few mails, one cause of trouble at a time: days that  *)
(* pass, an administrator's retries and broken SMTP sessions on one day,   *)
(* and mails with a secret.                                                *)
(***************************************************************************)
EXTENDS BriefingDelivery

CONSTANTS w1, w2, reset

MCWorkers == {w1, w2}
MCSecrets == {reset}
MCNone    == {}

VARIABLE scenario

MCInit == Init /\ scenario \in {"days", "copies", "secrets"}
Stay   == UNCHANGED scenario

LastDay == CASE scenario = "days" -> 2 [] scenario = "copies" -> 1 [] scenario = "secrets" -> 0

MCDeliver(w) ==
  \/ Acquire(w) /\ Stay
  \/ PoolExhausted(w) /\ Stay
  \/ Accept(w) /\ Stay
  \/ Reject(w) /\ Stay
  \/ scenario # "days" /\ QuitFails(w) /\ Stay
  \/ Fail(w) /\ Stay
  \/ Complete(w) /\ Stay

MCNext ==
  \/ scenario # "secrets" /\ Enable /\ Stay
  \/ Disable /\ Stay
  \/ CancelWaiting /\ Stay
  \/ DisableFails /\ Stay
  \/ DeleteSubscription /\ Stay
  \/ \E j \in Jobs :
       \/ scenario = "secrets" /\ Queue(j) /\ Stay
       \/ scenario # "days" /\ AdminRetry(j) /\ Stay
       \/ BecomesDue(j) /\ Stay
  \/ \E w \in Workers :
       \/ ListDue(w) /\ Stay
       \/ Schedule(w) /\ Stay
       \/ MCDeliver(w)
       \/ Crash(w) /\ Stay
       \/ \E j \in Jobs : Claim(w, j) /\ Stay
  \/ today < LastDay /\ DayPasses /\ Stay

mcVars == <<vars, scenario>>

\* The fairness of BriefingDelivery.
MCFairness ==
  /\ \A w \in Workers : WF_mcVars(Schedule(w) /\ Stay) /\ WF_mcVars(MCDeliver(w))
  /\ \A j \in Jobs : WF_mcVars(BecomesDue(j) /\ Stay) /\ SF_mcVars(\E w \in Workers : Claim(w, j) /\ Stay)

MCSpec == MCInit /\ [][MCNext]_mcVars /\ MCFairness
=============================================================================
