---------------------------- MODULE MCEntitlements ----------------------------
(***************************************************************************)
(* The two things an account may be entitled to: AI points and             *)
(* memberships.  Their operations share no lock and no row but the         *)
(* membership's end, which AIQuota lets start and end at any time; so each *)
(* part is explored with the other at rest, and part says which.           *)
(***************************************************************************)
EXTENDS AIQuota, Memberships, TLC

CONSTANTS ask, again, other, talk1, m1, m2, code, r1, r2

\* A question, the same sent again, and another one in the same conversation.
MCCalls       == {ask, again, other}
MCKeyOf       == (ask :> 1) @@ (again :> 1) @@ (other :> 2)
MCTalkOf      == [c \in MCCalls |-> talk1]
MCReservation == [c \in MCCalls |-> 1]
MCCosts       == {3}
MCAllowances  == {2}

MCMembers     == {m1, m2}
MCRedeemCodes == {code}
MCRedeemers   == {r1, r2}

VARIABLE part

MCInit ==
  /\ part \in {"ai", "redeem"}
  /\ AIInit /\ mode = "INHERIT" /\ member
  /\ MembershipsInit

\* Bounds: two calls at a time, and one grant of days.
Few     == Cardinality({c \in Calls : at[c] \notin {"new", "over"}}) < 2
NoGrant == \A r \in Redeemers : step[r] # "grant"

InAI     == part = "ai" /\ UNCHANGED <<part, memberships>>
InRedeem == part = "redeem" /\ UNCHANGED <<part, aiVars>>

MCNext ==
  \/ \E c \in Calls :
       \/ Replay(c) /\ InAI
       \/ Refuse(c) /\ InAI
       \/ Few /\ Admit(c) /\ InAI
       \/ Create(c) /\ InAI
       \/ RefuseLate(c) /\ InAI
       \/ ProviderAnswers(c) /\ InAI
       \/ ProviderFails(c) /\ InAI
       \/ Abandon(c) /\ InAI
       \/ Settle(c) /\ InAI
       \/ SettleDeleted(c) /\ InAI
       \/ Charge(c) /\ InAI
       \/ RollBackCharge(c) /\ InAI
       \/ Finish(c) /\ InAI
       \/ FinishDeleted(c) /\ InAI
  \/ \E t \in Talks : DeleteConversation(t) /\ InAI
  \/ ReadUsage /\ InAI
  \/ MonthEnds /\ InAI
  \/ ChangeSettings /\ InAI
  \/ GrantCredits /\ InAI
  \/ \E c \in RedeemCodes :
       \/ RevokeCode(c) /\ InRedeem
       \/ \E n \in 1..MaxUses : GenerateCode(c, n) /\ InRedeem
  \/ \E expiring \in SUBSET RedeemCodes : DayEnds(expiring) /\ InRedeem
  \/ \E r \in Redeemers :
       \/ NoGrant /\ \E m \in Members : StartGrant(r, m) /\ InRedeem
       \/ \E m \in Members, c \in RedeemCodes : StartRedeem(r, m, c) /\ InRedeem
       \/ CountUse(r) /\ InRedeem
       \/ ReadMembership(r) /\ InRedeem
       \/ CommitRedeem(r) /\ InRedeem
       \/ RollBackRedeem(r) /\ InRedeem
       \/ AbandonRedeem(r) /\ InRedeem
       \/ CommitGrant(r) /\ InRedeem
  \/ \E m \in Members, end \in {0, LastEnd} : SetEnd(m, end) /\ InRedeem

MCSpec == MCInit /\ [][MCNext]_<<part, aiVars, memberships>>

\* Each part, while the other rests, keeps its inductive invariant: where a call or a request is, what
\* it has read and what it holds fits the rows, and these fit what was charged and redeemed.
EntitlementsInv ==
  /\ part = "ai" => AIInv
  /\ part = "redeem" => MembershipsInv

\* The question and its repetition, the accounts and the requests differ in name only.
MCSymmetry == Permutations({ask, again}) \cup Permutations(MCMembers) \cup Permutations(MCRedeemers)
=============================================================================
