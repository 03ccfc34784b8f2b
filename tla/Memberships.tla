------------------------------ MODULE Memberships ------------------------------
(***************************************************************************)
(* Memberships and redeem codes (internal/store/membership.go, with        *)
(* handlers_admin.go and handlers_membership.go).  A code prolongs the     *)
(* membership of the account that redeems it; it may be redeemed a number  *)
(* of times, by each account once.  Administrators grant days, set an end  *)
(* and withdraw codes and memberships meanwhile.                           *)
(*                                                                         *)
(* The database is PostgreSQL at READ COMMITTED: the UPDATE that counts a  *)
(* redemption locks the code's row until the transaction ends, while the   *)
(* membership is read without a lock and written at the end; that write    *)
(* and the commit are one step here.                                       *)
(***************************************************************************)
EXTENDS Naturals, FiniteSets

CONSTANTS
  Members,         \* accounts
  RedeemCodes,
  Redeemers,       \* requests handled at the same time
  GrantDays,       \* grant_days; the days an administrator grants, too
  LastDay,         \* bound: days that pass
  LastEnd,         \* bound: ends of memberships
  MaxUses,         \* bound: max_redemptions, 100000 in the code
  Nobody

ASSUME RedeemersAssumption == Nobody \notin Redeemers /\ IsFiniteSet(Members)
ASSUME RedeemBoundsAssumption ==
  /\ GrantDays \in Nat \ {0} /\ LastDay \in Nat /\ LastEnd \in Nat /\ MaxUses \in Nat

VARIABLES
  day,         \* today
  ends,        \* memberships.expires_at, 0 when there is none
  codes,       \* each code: "none", "valid", then "over" (revoked or expired)
  allowed,     \* max_redemptions
  uses,        \* current_redemptions
  redemptions, \* redeem_redemptions: the accounts that redeemed a code
  counting,    \* who holds the lock of a code's row
  step,        \* where each request is
  redeeming,   \* its locals
  prolonged,   \* history: how often a membership was prolonged since its end was last set or revoked
  overtaken    \* history: accounts of which an end was written that was computed from an older one

tables      == <<ends, codes, allowed, uses, redemptions>>
requests    == <<counting, step, redeeming>>
memberships == <<day, tables, requests, prolonged, overtaken>>

\* A request's locals: the account, the code, the end it has read and the one it has computed.
Redemption == [member : Members \cup {Nobody}, code : RedeemCodes \cup {Nobody}, now : Nat, seen : Nat, base : Nat]
NoRedemption == [member |-> Nobody, code |-> Nobody, now |-> 0, seen |-> 0, base |-> 0]

MembershipsInit ==
  /\ day = 1
  /\ ends = [m \in Members |-> 0]
  /\ codes = [c \in RedeemCodes |-> "none"]
  /\ allowed = [c \in RedeemCodes |-> 1] /\ uses = [c \in RedeemCodes |-> 0]
  /\ redemptions = [c \in RedeemCodes |-> {}]
  /\ counting = [c \in RedeemCodes |-> Nobody]
  /\ step = [r \in Redeemers |-> "idle"]
  /\ redeeming = [r \in Redeemers |-> NoRedemption]
  /\ prolonged = [m \in Members |-> 0]
  /\ overtaken = {}

Proceed(r, at, locals) ==
  /\ step' = [step EXCEPT ![r] = at]
  /\ redeeming' = [redeeming EXCEPT ![r] = locals]

\* The transaction ends and gives the code's row free.
Leave(r) ==
  /\ Proceed(r, "idle", NoRedemption)
  /\ counting' = [c \in RedeemCodes |-> IF counting[c] = r THEN Nobody ELSE counting[c]]

Later(a, b) == IF a > b THEN a ELSE b

-----------------------------------------------------------------------------
\* Codes are generated in one transaction, for one use (UNIQUE) or several (CAMPAIGN); they expire, or
\* are revoked, which waits for a redemption that holds the row.
GenerateCode(c, n) ==
  /\ codes[c] = "none"
  /\ codes' = [codes EXCEPT ![c] = "valid"]
  /\ allowed' = [allowed EXCEPT ![c] = n]
  /\ UNCHANGED <<day, ends, uses, redemptions, requests, prolonged, overtaken>>

RevokeCode(c) ==
  /\ codes[c] = "valid" /\ counting[c] = Nobody
  /\ codes' = [codes EXCEPT ![c] = "over"]
  /\ UNCHANGED <<day, ends, allowed, uses, redemptions, requests, prolonged, overtaken>>

DayEnds(expiring) ==
  /\ day < LastDay
  /\ day' = day + 1
  /\ codes' = [c \in RedeemCodes |-> IF c \in expiring /\ codes[c] = "valid" THEN "over" ELSE codes[c]]
  /\ UNCHANGED <<ends, allowed, uses, redemptions, requests, prolonged, overtaken>>

\* redeem reads the code and whether the account has redeemed it; what it refuses changes nothing.
HasUsesLeft(c) == uses[c] < allowed[c]
StartRedeem(r, m, c) ==
  /\ step[r] = "idle"
  /\ codes[c] = "valid" /\ HasUsesLeft(c) /\ m \notin redemptions[c]
  /\ Proceed(r, "count", [NoRedemption EXCEPT !.member = m, !.code = c, !.now = day])
  /\ UNCHANGED <<day, tables, counting, prolonged, overtaken>>

\* UPDATE ... SET current_redemptions = current_redemptions + 1 WHERE current_redemptions < max: it
\* waits for the row and then looks at it again.  It does not look at revoked_at.
CanCountUnchecked(c) == TRUE
CanCount(c)          == HasUsesLeft(c)

CountUse(r) ==
  /\ step[r] = "count" /\ counting[redeeming[r].code] = Nobody
  /\ IF CanCount(redeeming[r].code)
     THEN /\ counting' = [counting EXCEPT ![redeeming[r].code] = r]
          /\ Proceed(r, "read", redeeming[r])
     ELSE Leave(r)
  /\ UNCHANGED <<day, tables, prolonged, overtaken>>

\* SELECT * FROM memberships, without a lock.
BaseToday(now, end) == now
Base(now, end)      == Later(now, end)

ReadMembership(r) ==
  /\ step[r] = "read"
  /\ LET end == ends[redeeming[r].member]
     IN Proceed(r, "write", [redeeming[r] EXCEPT !.seen = end, !.base = Base(redeeming[r].now, end)])
  /\ UNCHANGED <<day, tables, counting, prolonged, overtaken>>

\* What the membership becomes, whatever it is by now.
Prolong(r) ==
  LET m == redeeming[r].member
  IN /\ redeeming[r].base + GrantDays <= LastEnd
     /\ ends' = [ends EXCEPT ![m] = redeeming[r].base + GrantDays]
     /\ prolonged' = [prolonged EXCEPT ![m] = @ + 1]
     /\ overtaken' = IF ends[m] = redeeming[r].seen THEN overtaken ELSE overtaken \cup {m}

\* The membership and the redemption are written, of which UNIQUE(code, user_id) allows one; commit.
RedeemedAlreadyUnchecked(m, c) == FALSE
RedeemedAlready(m, c)          == m \in redemptions[c]

CommitRedeem(r) ==
  /\ step[r] = "write"
  /\ ~RedeemedAlready(redeeming[r].member, redeeming[r].code)
  /\ Prolong(r)
  /\ uses' = [uses EXCEPT ![redeeming[r].code] = @ + 1]
  /\ redemptions' = [redemptions EXCEPT ![redeeming[r].code] = @ \cup {redeeming[r].member}]
  /\ Leave(r)
  /\ UNCHANGED <<day, codes, allowed>>

RollBackRedeem(r) ==
  /\ step[r] = "write" /\ RedeemedAlready(redeeming[r].member, redeeming[r].code)
  /\ Leave(r)
  /\ UNCHANGED <<day, tables, prolonged, overtaken>>

\* Any statement fails, the client goes, or the process dies.
AbandonRedeem(r) ==
  /\ step[r] # "idle"
  /\ Leave(r)
  /\ UNCHANGED <<day, tables, prolonged, overtaken>>

-----------------------------------------------------------------------------
\* adminGrantMembership with grantDays: the handler reads the end, computes the new one, and only
\* then has SetMembership write it.
StartGrant(r, m) ==
  /\ step[r] = "idle"
  /\ Proceed(r, "grant", [NoRedemption EXCEPT !.member = m, !.now = day, !.seen = ends[m], !.base = Base(day, ends[m])])
  /\ UNCHANGED <<day, tables, counting, prolonged, overtaken>>

CommitGrant(r) ==
  /\ step[r] = "grant"
  /\ Prolong(r)
  /\ Leave(r)
  /\ UNCHANGED <<day, codes, allowed, uses, redemptions>>

\* An administrator sets a date, or revokes; an account that is deleted loses its membership.
SetEnd(m, end) ==
  /\ end = 0 \/ end > day
  /\ ends' = [ends EXCEPT ![m] = end]
  /\ prolonged' = [prolonged EXCEPT ![m] = 0]
  /\ UNCHANGED <<day, codes, allowed, uses, redemptions, requests, overtaken>>

MembershipsNext ==
  \/ \E c \in RedeemCodes : RevokeCode(c) \/ \E n \in 1..MaxUses : GenerateCode(c, n)
  \/ \E expiring \in SUBSET RedeemCodes : DayEnds(expiring)
  \/ \E r \in Redeemers :
       \/ \E m \in Members : StartGrant(r, m) \/ \E c \in RedeemCodes : StartRedeem(r, m, c)
       \/ CountUse(r) \/ ReadMembership(r) \/ CommitRedeem(r) \/ RollBackRedeem(r) \/ AbandonRedeem(r)
       \/ CommitGrant(r)
  \/ \E m \in Members, end \in 0..LastEnd : SetEnd(m, end)

MembershipsSpec == MembershipsInit /\ [][MembershipsNext]_memberships

-----------------------------------------------------------------------------
MembershipsTypeOK ==
  /\ day \in Nat /\ ends \in [Members -> Nat]
  /\ codes \in [RedeemCodes -> {"none", "valid", "over"}]
  /\ allowed \in [RedeemCodes -> Nat] /\ uses \in [RedeemCodes -> Nat] /\ redemptions \in [RedeemCodes -> SUBSET Members]
  /\ counting \in [RedeemCodes -> Redeemers \cup {Nobody}]
  /\ step \in [Redeemers -> {"idle", "count", "read", "write", "grant"}]
  /\ redeeming \in [Redeemers -> Redemption]
  /\ prolonged \in [Members -> Nat] /\ overtaken \subseteq Members

\* However many requests redeem a code at once, it is redeemed as often as it was counted and not
\* more often than allowed, by each account once.
UsesAreRedemptions ==
  \A c \in RedeemCodes : uses[c] = Cardinality(redemptions[c]) /\ uses[c] <= allowed[c]

\* Every code and every grant counts in full: an account that was prolonged n times since its end
\* was last set has a membership to n times the days at least.  The exception is real: an end that
\* another request has replaced between the read and the write of a redemption or a grant is lost.
ExtensionsAddUp ==
  \A m \in Members \ overtaken : ends[m] >= GrantDays * prolonged[m]

\* What the requests know: a code that is redeemed has been issued; a redemption that has counted
\* holds the code's row, and there were uses left; what it or a grant is to write prolongs the end
\* it has read.
RedeemersFit ==
  \A r \in Redeemers :
    /\ step[r] # "idle" => redeeming[r].member \in Members
    /\ step[r] \in {"count", "read", "write"} => redeeming[r].code \in RedeemCodes /\ codes[redeeming[r].code] # "none"
    /\ step[r] \in {"read", "write"} => counting[redeeming[r].code] = r /\ HasUsesLeft(redeeming[r].code)
    /\ step[r] \in {"write", "grant"} => redeeming[r].base >= redeeming[r].seen

UnissuedUnused == \A c \in RedeemCodes : codes[c] = "none" => uses[c] = 0

\* The inductive invariant.
MembershipsInv == MembershipsTypeOK /\ UsesAreRedemptions /\ ExtensionsAddUp /\ RedeemersFit /\ UnissuedUnused
=============================================================================
