---------------------------- MODULE MembershipsProofs ----------------------------
(***************************************************************************)
(* Theorems about memberships and redeem codes, for any set of requests    *)
(* and codes and any finite set of accounts.  First what a code's count    *)
(* and a membership's end become, then one lemma per group of actions; at  *)
(* last that points and memberships together keep their invariants.        *)
(***************************************************************************)
EXTENDS MCEntitlements, AIQuotaProofs

\* Nobody has redeemed anything yet, and no membership has begun.
LEMMA NothingRedeemed == MembershipsInit => MembershipsInv
<1> SUFFICES ASSUME MembershipsInit PROVE MembershipsInv OBVIOUS
<1> USE DEF MembershipsInit
<1>1. MembershipsTypeOK BY DEF MembershipsTypeOK, Redemption, NoRedemption
<1>2. UsesAreRedemptions BY FS_EmptySet DEF UsesAreRedemptions
<1>3. ExtensionsAddUp BY RedeemBoundsAssumption DEF ExtensionsAddUp
<1>4. RedeemersFit BY DEF RedeemersFit
<1>5. UnissuedUnused BY DEF UnissuedUnused
<1> QED BY <1>1, <1>2, <1>3, <1>4, <1>5 DEF MembershipsInv

\* Steps that change neither table keep what is said of the tables alone.
LEMMA TablesStay ==
  ASSUME MembershipsInv, UNCHANGED <<ends, allowed, uses, redemptions, prolonged, overtaken>>,
         \A c \in RedeemCodes : codes'[c] = "none" => codes[c] = "none"
  PROVE  UsesAreRedemptions' /\ ExtensionsAddUp' /\ UnissuedUnused'
BY DEF MembershipsInv, UsesAreRedemptions, ExtensionsAddUp, UnissuedUnused

\* A request that ends frees the row it holds and nothing else.
LEMMA LeavingFits ==
  ASSUME MembershipsInv, NEW r \in Redeemers, Leave(r),
         \A c \in RedeemCodes : codes[c] # "none" => codes'[c] # "none",
         \A c \in RedeemCodes : counting[c] # r /\ HasUsesLeft(c) => HasUsesLeft(c)'
  PROVE  RedeemersFit' /\ step' \in [Redeemers -> {"idle", "count", "read", "write", "grant"}]
         /\ redeeming' \in [Redeemers -> Redemption] /\ counting' \in [RedeemCodes -> Redeemers \cup {Nobody}]
<1> USE DEF MembershipsInv, MembershipsTypeOK, Leave, Proceed
<1>1. NoRedemption \in Redemption BY DEF NoRedemption, Redemption
<1>2. /\ step' \in [Redeemers -> {"idle", "count", "read", "write", "grant"}]
      /\ redeeming' \in [Redeemers -> Redemption] /\ counting' \in [RedeemCodes -> Redeemers \cup {Nobody}]
  BY <1>1
<1>3. ASSUME NEW s \in Redeemers, step'[s] # "idle"
      PROVE  s # r /\ step'[s] = step[s] /\ redeeming'[s] = redeeming[s]
  BY <1>3
<1>4. RedeemersFit' BY <1>3 DEF RedeemersFit
<1> QED BY <1>2, <1>4

-----------------------------------------------------------------------------
\* Codes are issued and withdrawn, days pass.
LEMMA CodesChange ==
  ASSUME MembershipsInv,
         \/ \E c \in RedeemCodes : RevokeCode(c) \/ \E n \in 1..MaxUses : GenerateCode(c, n)
         \/ \E expiring \in SUBSET RedeemCodes : DayEnds(expiring)
  PROVE  MembershipsInv'
<1> USE DEF MembershipsInv, MembershipsTypeOK, requests
<1>1. ASSUME NEW c \in RedeemCodes, RevokeCode(c) PROVE MembershipsInv'
  <2>1. MembershipsTypeOK' BY <1>1 DEF RevokeCode
  <2>2. UsesAreRedemptions' /\ ExtensionsAddUp' /\ UnissuedUnused' BY <1>1, TablesStay DEF RevokeCode
  <2>3. RedeemersFit' BY <1>1 DEF RevokeCode, RedeemersFit, HasUsesLeft
  <2> QED BY <2>1, <2>2, <2>3
<1>2. ASSUME NEW c \in RedeemCodes, NEW n \in 1..MaxUses, GenerateCode(c, n) PROVE MembershipsInv'
  <2>1. MembershipsTypeOK' BY <1>2, RedeemBoundsAssumption DEF GenerateCode
  <2>2. UsesAreRedemptions' BY <1>2, RedeemBoundsAssumption DEF GenerateCode, UsesAreRedemptions, UnissuedUnused
  <2>3. ExtensionsAddUp' /\ UnissuedUnused' BY <1>2 DEF GenerateCode, ExtensionsAddUp, UnissuedUnused
  <2>4. RedeemersFit' BY <1>2 DEF GenerateCode, RedeemersFit, HasUsesLeft
  <2> QED BY <2>1, <2>2, <2>3, <2>4
<1>3. ASSUME NEW expiring \in SUBSET RedeemCodes, DayEnds(expiring) PROVE MembershipsInv'
  <2>1. MembershipsTypeOK' BY <1>3 DEF DayEnds
  <2>2. UsesAreRedemptions' /\ ExtensionsAddUp' /\ UnissuedUnused' BY <1>3, TablesStay DEF DayEnds
  <2>3. RedeemersFit' BY <1>3 DEF DayEnds, RedeemersFit, HasUsesLeft
  <2> QED BY <2>1, <2>2, <2>3
<1> QED BY <1>1, <1>2, <1>3

\* The steps of a request up to its write, and those that give up, change the request only.
LEMMA RequestsProceed ==
  ASSUME MembershipsInv, NEW r \in Redeemers,
         \/ \E m \in Members : StartGrant(r, m) \/ \E c \in RedeemCodes : StartRedeem(r, m, c)
         \/ CountUse(r) \/ ReadMembership(r) \/ RollBackRedeem(r) \/ AbandonRedeem(r)
  PROVE  MembershipsInv'
<1> USE DEF MembershipsInv, MembershipsTypeOK, tables, HasUsesLeft
<1>0. UNCHANGED <<day, tables, prolonged, overtaken>>
  BY DEF StartGrant, StartRedeem, CountUse, ReadMembership, RollBackRedeem, AbandonRedeem
<1>1. UsesAreRedemptions' /\ ExtensionsAddUp' /\ UnissuedUnused' BY <1>0, TablesStay
<1>2. ASSUME Leave(r) PROVE MembershipsInv'
  BY <1>0, <1>1, <1>2, LeavingFits
<1>3. ASSUME NEW m \in Members, StartGrant(r, m) PROVE MembershipsInv'
  <2> DEFINE new == [NoRedemption EXCEPT !.member = m, !.now = day, !.seen = ends[m], !.base = Base(day, ends[m])]
  <2>1. /\ new.member = m /\ new.seen = ends[m] /\ new.base = Base(day, ends[m])
        /\ new \in Redemption
    BY DEF NoRedemption, Redemption, Base, Later
  <2>2. new.base >= new.seen BY <2>1 DEF Base, Later
  <2>3. /\ step' = [step EXCEPT ![r] = "grant"] /\ redeeming' = [redeeming EXCEPT ![r] = new] /\ counting' = counting
    BY <1>3 DEF StartGrant, Proceed
  <2> HIDE DEF new
  <2>4. MembershipsTypeOK' BY <1>0, <2>1, <2>3
  <2>5. RedeemersFit' BY <1>0, <2>1, <2>2, <2>3 DEF RedeemersFit
  <2> QED BY <1>1, <2>4, <2>5
<1>4. ASSUME NEW m \in Members, NEW c \in RedeemCodes, StartRedeem(r, m, c) PROVE MembershipsInv'
  <2> DEFINE new == [NoRedemption EXCEPT !.member = m, !.code = c, !.now = day]
  <2>1. new.member = m /\ new.code = c /\ new \in Redemption
    BY DEF NoRedemption, Redemption
  <2>2. /\ step' = [step EXCEPT ![r] = "count"] /\ redeeming' = [redeeming EXCEPT ![r] = new] /\ counting' = counting
        /\ codes[c] = "valid"
    BY <1>4 DEF StartRedeem, Proceed
  <2> HIDE DEF new
  <2>3. MembershipsTypeOK' BY <1>0, <2>1, <2>2
  <2>4. RedeemersFit' BY <1>0, <2>1, <2>2 DEF RedeemersFit
  <2> QED BY <1>1, <2>3, <2>4
<1>5. ASSUME CountUse(r) PROVE MembershipsInv'
  <2>1. CASE Leave(r) BY <2>1, <1>2
  <2>2. CASE /\ CanCount(redeeming[r].code)
             /\ counting' = [counting EXCEPT ![redeeming[r].code] = r]
             /\ Proceed(r, "read", redeeming[r])
    <3>1. step[r] = "count" /\ counting[redeeming[r].code] = Nobody BY <1>5 DEF CountUse
    <3>2. redeeming' = redeeming /\ step' = [step EXCEPT ![r] = "read"] BY <2>2 DEF Proceed
    <3>3. MembershipsTypeOK' BY <1>0, <2>2, <3>2
    <3>4. RedeemersFit'
      BY <1>0, <2>2, <3>1, <3>2, RedeemersAssumption DEF RedeemersFit, CanCount
    <3> QED BY <1>1, <3>3, <3>4
  <2> QED BY <1>5, <2>1, <2>2 DEF CountUse
<1>6. ASSUME ReadMembership(r) PROVE MembershipsInv'
  <2> DEFINE end == ends[redeeming[r].member]
             new == [redeeming[r] EXCEPT !.seen = end, !.base = Base(redeeming[r].now, end)]
  <2>1. step[r] = "read" /\ redeeming[r].member \in Members /\ redeeming[r] \in Redemption
    BY <1>6 DEF ReadMembership, RedeemersFit
  <2>2. end \in Nat /\ redeeming[r].now \in Nat BY <2>1 DEF Redemption
  <2>3. Base(redeeming[r].now, end) \in Nat /\ Base(redeeming[r].now, end) >= end BY <2>2 DEF Base, Later
  <2>4. /\ new.member = redeeming[r].member /\ new.code = redeeming[r].code /\ new.seen = end
        /\ new.base = Base(redeeming[r].now, end) /\ new \in Redemption
    BY <2>1, <2>2, <2>3 DEF Redemption
  <2>5. new.base >= new.seen BY <2>3, <2>4
  <2>6. /\ step' = [step EXCEPT ![r] = "write"] /\ redeeming' = [redeeming EXCEPT ![r] = new] /\ counting' = counting
    BY <1>6 DEF ReadMembership, Proceed
  <2> HIDE DEF new, end
  <2>7. MembershipsTypeOK' BY <1>0, <2>4, <2>6
  <2>8. RedeemersFit' BY <1>0, <2>1, <2>4, <2>5, <2>6 DEF RedeemersFit
  <2> QED BY <1>1, <2>7, <2>8
<1>7. ASSUME RollBackRedeem(r) \/ AbandonRedeem(r) PROVE MembershipsInv'
  BY <1>2, <1>7 DEF RollBackRedeem, AbandonRedeem
<1> QED BY <1>3, <1>4, <1>5, <1>6, <1>7

-----------------------------------------------------------------------------
\* Writing an end that was computed from the one that is still there adds the days to it; another
\* one makes the account an exception.
LEMMA ProlongingAddsUp ==
  ASSUME MembershipsInv, NEW r \in Redeemers, step[r] \in {"write", "grant"}, Prolong(r)
  PROVE  ExtensionsAddUp' /\ ends' \in [Members -> Nat] /\ prolonged' \in [Members -> Nat] /\ overtaken' \subseteq Members
<1> DEFINE m == redeeming[r].member
<1>1. /\ m \in Members /\ redeeming[r].base \in Nat /\ redeeming[r].seen \in Nat
      /\ redeeming[r].base >= redeeming[r].seen
      /\ ends[m] \in Nat /\ prolonged[m] \in Nat /\ GrantDays \in Nat
  BY RedeemBoundsAssumption DEF MembershipsInv, MembershipsTypeOK, RedeemersFit, Redemption
<1>2. /\ ends' = [ends EXCEPT ![m] = redeeming[r].base + GrantDays]
      /\ prolonged' = [prolonged EXCEPT ![m] = prolonged[m] + 1]
      /\ overtaken' = IF ends[m] = redeeming[r].seen THEN overtaken ELSE overtaken \cup {m}
  BY DEF Prolong
<1> HIDE DEF m
<1>3. ends' \in [Members -> Nat] /\ prolonged' \in [Members -> Nat] /\ overtaken' \subseteq Members
  BY <1>1, <1>2 DEF MembershipsInv, MembershipsTypeOK
<1>4. ASSUME NEW k \in Members \ overtaken' PROVE ends'[k] >= GrantDays * prolonged'[k]
  <2>0. k \in Members \ overtaken BY <1>2
  <2>1. CASE k # m
    BY <1>2, <2>0, <2>1 DEF MembershipsInv, MembershipsTypeOK, ExtensionsAddUp
  <2>2. CASE k = m
    <3>1. redeeming[r].base >= ends[m] BY <1>1, <1>2, <2>2
    <3>2. ends[m] >= GrantDays * prolonged[m] BY <2>0, <2>2 DEF MembershipsInv, ExtensionsAddUp
    <3>3. GrantDays * (prolonged[m] + 1) = GrantDays * prolonged[m] + GrantDays BY <1>1
    <3>4. GrantDays * prolonged[m] \in Nat BY <1>1
    <3>5. redeeming[r].base + GrantDays >= GrantDays * (prolonged[m] + 1) BY <1>1, <3>1, <3>2, <3>3, <3>4
    <3>6. ends'[k] = redeeming[r].base + GrantDays /\ prolonged'[k] = prolonged[m] + 1
      BY <1>1, <1>2, <2>2 DEF MembershipsInv, MembershipsTypeOK
    <3> QED BY <3>5, <3>6
  <2> QED BY <2>1, <2>2
<1>5. ExtensionsAddUp' BY <1>4 DEF ExtensionsAddUp
<1> QED BY <1>3, <1>5

\* A redemption that commits counts one use and one account that had not redeemed the code.
LEMMA RedemptionCommits ==
  ASSUME MembershipsInv, NEW r \in Redeemers, CommitRedeem(r) PROVE MembershipsInv'
<1> DEFINE c == redeeming[r].code
           m == redeeming[r].member
<1>1. step[r] = "write" /\ m \notin redemptions[c] BY DEF CommitRedeem, RedeemedAlready
<1>2. /\ c \in RedeemCodes /\ m \in Members /\ counting[c] = r /\ uses[c] < allowed[c] /\ codes[c] # "none"
  BY <1>1 DEF MembershipsInv, RedeemersFit, HasUsesLeft
<1>3. /\ uses' = [uses EXCEPT ![c] = uses[c] + 1]
      /\ redemptions' = [redemptions EXCEPT ![c] = redemptions[c] \cup {m}]
      /\ Leave(r) /\ Prolong(r) /\ UNCHANGED <<day, codes, allowed>>
  BY DEF CommitRedeem
<1> HIDE DEF c, m
<1> USE DEF MembershipsInv, MembershipsTypeOK
<1>4. ASSUME NEW d \in RedeemCodes, d # c PROVE uses'[d] = uses[d] /\ redemptions'[d] = redemptions[d] BY <1>3, <1>4
<1>5. uses'[c] = uses[c] + 1 /\ redemptions'[c] = redemptions[c] \cup {m} BY <1>2, <1>3
<1>6. UsesAreRedemptions'
  <2>1. redemptions[c] \subseteq Members /\ IsFiniteSet(redemptions[c])
    BY <1>2, RedeemersAssumption, FS_Subset
  <2>2. Cardinality(redemptions[c] \cup {m}) = Cardinality(redemptions[c]) + 1
    BY <1>1, <2>1, FS_AddElement DEF c, m
  <2>3. uses[c] = Cardinality(redemptions[c]) /\ uses[c] \in Nat /\ allowed[c] \in Nat BY <1>2 DEF UsesAreRedemptions
  <2>4. uses'[c] = Cardinality(redemptions'[c]) /\ uses'[c] <= allowed'[c] BY <1>2, <1>3, <1>5, <2>2, <2>3
  <2> QED BY <1>3, <1>4, <2>4 DEF UsesAreRedemptions
<1>7. ASSUME NEW d \in RedeemCodes, counting[d] # r, HasUsesLeft(d) PROVE HasUsesLeft(d)'
  BY <1>2, <1>3, <1>4, <1>7 DEF HasUsesLeft
<1>8. /\ RedeemersFit' /\ step' \in [Redeemers -> {"idle", "count", "read", "write", "grant"}]
      /\ redeeming' \in [Redeemers -> Redemption] /\ counting' \in [RedeemCodes -> Redeemers \cup {Nobody}]
  BY <1>3, <1>7, LeavingFits
<1>9. ExtensionsAddUp' /\ ends' \in [Members -> Nat] /\ prolonged' \in [Members -> Nat] /\ overtaken' \subseteq Members
  BY <1>1, <1>3, ProlongingAddsUp
<1>10. uses' \in [RedeemCodes -> Nat] /\ redemptions' \in [RedeemCodes -> SUBSET Members] BY <1>2, <1>3
<1>11. MembershipsTypeOK' BY <1>3, <1>8, <1>9, <1>10
<1>12. UnissuedUnused' BY <1>2, <1>3, <1>4 DEF UnissuedUnused
<1> QED BY <1>6, <1>8, <1>9, <1>11, <1>12

\* An administrator's grant, and an end that is set.
LEMMA EndsAreSet ==
  ASSUME MembershipsInv,
         \/ \E r \in Redeemers : CommitGrant(r)
         \/ \E m \in Members, end \in 0..LastEnd : SetEnd(m, end)
  PROVE  MembershipsInv'
<1> USE DEF MembershipsInv, MembershipsTypeOK
<1>1. ASSUME NEW r \in Redeemers, CommitGrant(r) PROVE MembershipsInv'
  <2>1. step[r] = "grant" /\ Leave(r) /\ Prolong(r) /\ UNCHANGED <<day, codes, allowed, uses, redemptions>>
    BY <1>1 DEF CommitGrant
  <2>2. /\ RedeemersFit' /\ step' \in [Redeemers -> {"idle", "count", "read", "write", "grant"}]
        /\ redeeming' \in [Redeemers -> Redemption] /\ counting' \in [RedeemCodes -> Redeemers \cup {Nobody}]
    BY <2>1, LeavingFits DEF HasUsesLeft
  <2>3. ExtensionsAddUp' /\ ends' \in [Members -> Nat] /\ prolonged' \in [Members -> Nat] /\ overtaken' \subseteq Members
    BY <2>1, ProlongingAddsUp
  <2>4. UsesAreRedemptions' /\ UnissuedUnused' BY <2>1 DEF UsesAreRedemptions, UnissuedUnused
  <2> QED BY <2>1, <2>2, <2>3, <2>4
<1>2. ASSUME NEW m \in Members, NEW end \in 0..LastEnd, SetEnd(m, end) PROVE MembershipsInv'
  <2>1. MembershipsTypeOK' BY <1>2, RedeemBoundsAssumption DEF SetEnd, requests
  <2>2. UsesAreRedemptions' /\ UnissuedUnused' BY <1>2 DEF SetEnd, UsesAreRedemptions, UnissuedUnused
  <2>3. RedeemersFit' BY <1>2 DEF SetEnd, requests, RedeemersFit, HasUsesLeft
  <2>4. ASSUME NEW k \in Members \ overtaken' PROVE ends'[k] >= GrantDays * prolonged'[k]
    <3>1. CASE k # m BY <1>2, <3>1 DEF SetEnd, ExtensionsAddUp
    <3>2. CASE k = m
      <4>1. prolonged'[k] = 0 /\ ends'[k] = end /\ end \in Nat BY <1>2, <3>2, RedeemBoundsAssumption DEF SetEnd
      <4>2. GrantDays * 0 = 0 BY RedeemBoundsAssumption
      <4> QED BY <4>1, <4>2
    <3> QED BY <3>1, <3>2
  <2>5. ExtensionsAddUp' BY <2>4 DEF ExtensionsAddUp
  <2> QED BY <2>1, <2>2, <2>3, <2>5
<1> QED BY <1>1, <1>2

\* Every step keeps the invariant.
LEMMA MembershipsStep == MembershipsInv /\ [MembershipsNext]_memberships => MembershipsInv'
<1> SUFFICES ASSUME MembershipsInv, [MembershipsNext]_memberships PROVE MembershipsInv' OBVIOUS
<1>1. CASE UNCHANGED memberships
  BY <1>1 DEF memberships, tables, requests, MembershipsInv, MembershipsTypeOK, UsesAreRedemptions, ExtensionsAddUp,
     RedeemersFit, HasUsesLeft, UnissuedUnused
<1>2. CASE MembershipsNext
  BY <1>2, CodesChange, RequestsProceed, RedemptionCommits, EndsAreSet DEF MembershipsNext
<1> QED BY <1>1, <1>2

\* The inductive invariant of codes, memberships and the requests that redeem and grant.
THEOREM MembershipsInvariant == MembershipsSpec => []MembershipsInv
BY NothingRedeemed, MembershipsStep, PTL DEF MembershipsSpec

\* However many requests redeem a code at once, it is redeemed as often as allowed, by each account
\* once, and counted right.
THEOREM CodesRedeemedWithinLimit == MembershipsSpec => []UsesAreRedemptions
<1>1. MembershipsInv => UsesAreRedemptions BY DEF MembershipsInv
<1> QED BY <1>1, MembershipsInvariant, PTL

\* Extensions add up for every account of which no end was written over one it did not know.
THEOREM ExtensionsCountInFull == MembershipsSpec => []ExtensionsAddUp
<1>1. MembershipsInv => ExtensionsAddUp BY DEF MembershipsInv
<1> QED BY <1>1, MembershipsInvariant, PTL

\* Whichever of calls and redemptions run while the others rest, they keep their invariants.
LEMMA EntitlementsStep ==
  ASSUME EntitlementsInv, [MCNext]_<<part, aiVars, memberships>>
  PROVE  EntitlementsInv'
<1>1. CASE UNCHANGED <<part, aiVars, memberships>>
  BY <1>1, AIStep, MembershipsStep DEF EntitlementsInv
<1>2. CASE AINext /\ InAI
  BY <1>2, AIStep DEF EntitlementsInv, InAI
<1>3. CASE MembershipsNext /\ InRedeem
  BY <1>3, MembershipsStep DEF EntitlementsInv, InRedeem
<1>4. MCNext => (AINext /\ InAI) \/ (MembershipsNext /\ InRedeem)
  <2>1. ASSUME MCNext, ~InRedeem PROVE AINext /\ InAI
    BY <2>1 DEF MCNext, AINext
  <2>2. ASSUME MCNext, InRedeem, ~InAI PROVE MembershipsNext
    BY <2>2, RedeemBoundsAssumption DEF MCNext, MembershipsNext
  <2>3. ~(InAI /\ InRedeem)
    BY DEF InAI, InRedeem
  <2> QED BY <2>1, <2>2, <2>3
<1> QED BY <1>1, <1>2, <1>3, <1>4

\* Calls of the AI and redemptions keep their inductive invariants, for any accounts, codes, calls,
\* costs, limits and days.
THEOREM EntitlementsInvariant == MCSpec => []EntitlementsInv
<1>1. MCInit => EntitlementsInv
  BY AIInitially, NothingRedeemed DEF MCInit, EntitlementsInv
<1>2. EntitlementsInv /\ [MCNext]_<<part, aiVars, memberships>> => EntitlementsInv'
  BY EntitlementsStep
<1> QED BY <1>1, <1>2, PTL DEF MCSpec
=============================================================================
