-------------------------------- MODULE AIQuota --------------------------------
(***************************************************************************)
(* The AI quota of an account (internal/store/ai.go and aiChat in          *)
(* internal/httpapi/handlers_ai.go).  A call reserves points, has the      *)
(* provider answer, charges what the answer cost to the month's quota and  *)
(* then to the credits of a member, and stores the answer.  Each of these  *)
(* is a transaction of its own, and a call may end between any two.  A     *)
(* call that repeats a client_request_id gets the stored answer instead.   *)
(*                                                                         *)
(* The database is PostgreSQL at READ COMMITTED: what a transaction reads  *)
(* may have changed when it writes.  Its writes and the commit are one     *)
(* step.  All rows are of one account; accounts share nothing here.        *)
(***************************************************************************)
EXTENDS Naturals, FiniteSets

CONSTANTS
  Calls,         \* requests POST /ai/chat, each handled once
  KeyOf,         \* the client_request_id of each
  TalkOf,        \* its conversation, new or not
  Reservation,   \* the points it reserves, an estimate
  Costs,         \* what answers cost
  FreeLimit,     \* FreeMonthlyLimit (500)
  OwnLimit,      \* monthly_limit of an account with LIMITED quota
  Allowances,    \* default_monthly_limit an administrator may configure
  CreditPoints,  \* the points an administrator grants
  MaxPoints,     \* bound of reservations and costs
  MaxMonth,      \* bound: months
  MaxChanges     \* bound: what administrators and membership change

Talks  == {TalkOf[c] : c \in Calls}
Months == 1..MaxMonth

ASSUME CallsAssumption == IsFiniteSet(Calls) /\ DOMAIN KeyOf = Calls /\ DOMAIN TalkOf = Calls
ASSUME PointsAssumption ==
  /\ MaxPoints \in Nat /\ Costs \subseteq 1..MaxPoints /\ Reservation \in [Calls -> 1..MaxPoints]
  /\ FreeLimit \in Nat /\ OwnLimit \in Nat /\ Allowances \subseteq Nat /\ CreditPoints \in Nat
ASSUME MonthsAssumption == MaxMonth \in Nat \ {0} /\ MaxChanges \in Nat

VARIABLES
  month,     \* aiPeriod
  mode,      \* ai_user_quotas.mode
  member,    \* a membership that has not expired
  enabled,   \* ai_config.enabled
  allowance, \* ai_config.default_monthly_limit
  balance,   \* ai_credit_wallets.balance
  rowed,     \* the months that have a row in ai_usage_monthly
  used, reserved,
  talk,      \* ai_conversations: "none", "open", "deleted"
  request,   \* ai_requests.status, by call
  counted,   \* ai_requests.quota_counted
  question,  \* status of the USER message in ai_messages
  at,        \* where each call is
  local,     \* its locals
  changes,   \* bound
  granted,   \* history: points granted
  bill,      \* history: how a call was charged
  freed,     \* history: the month in which a call's reservation was given back
  answered   \* history: how a call was answered

settings == <<month, mode, member, enabled, allowance>>
usage    == <<rowed, used, reserved, balance>>
rows     == <<talk, request, counted, question>>
handler  == <<at, local>>
billing  == <<granted, bill, freed, answered>>
aiVars   == <<settings, usage, rows, handler, changes, billing>>

\* A call's locals: the period it was reserved in, whether its transaction inserted the month's row,
\* the period it is charged in, the answer's cost, and the shares of the month and of the credits.
Local   == [month : 0..MaxMonth, opens : BOOLEAN, in : 0..MaxMonth, cost : 0..MaxPoints, monthly : Nat, credit : Nat]
NoLocal == [month |-> 0, opens |-> FALSE, in |-> 0, cost |-> 0, monthly |-> 0, credit |-> 0]
NoBill  == [in |-> 0, cost |-> 0, monthly |-> 0, credit |-> 0]

Modes == {"INHERIT", "LIMITED", "UNLIMITED", "BLOCKED"}
Live  == {"PENDING", "COMPLETE", "FAILED"}

AIInit ==
  /\ month = 1 /\ mode \in Modes /\ member \in BOOLEAN /\ enabled = TRUE /\ allowance \in Allowances
  /\ balance = 0 /\ rowed = {}
  /\ used = [m \in Months |-> 0] /\ reserved = [m \in Months |-> 0]
  /\ talk = [t \in Talks |-> "none"]
  /\ request = [c \in Calls |-> "none"]
  /\ counted = [c \in Calls |-> FALSE]
  /\ question = [c \in Calls |-> "none"]
  /\ at = [c \in Calls |-> "new"]
  /\ local = [c \in Calls |-> NoLocal]
  /\ changes = 0 /\ granted = 0
  /\ bill = [c \in Calls |-> NoBill]
  /\ freed = [c \in Calls |-> 0]
  /\ answered = [c \in Calls |-> "no"]

Lesser(a, b) == IF a < b THEN a ELSE b
Less(a, b)   == IF a > b THEN a - b ELSE 0

GoTo(c, place) == at' = [at EXCEPT ![c] = place]
Answer(c, how) == answered' = [answered EXCEPT ![c] = how]

-----------------------------------------------------------------------------
\* aiUsageTx inserts the row of the month, or waits for the transaction that is inserting it; from
\* then on the row is read without a lock.
CanRead(c) == \A d \in Calls \ {c} : local[d].opens => local[d].month # month
Opens      == month \notin rowed

\* The limit that holds, and the credits of a member; those of others are frozen.
Unlimited == mode = "UNLIMITED"
Limit     == IF mode = "LIMITED" THEN OwnLimit
             ELSE IF mode = "BLOCKED" THEN 0
             ELSE IF member THEN allowance ELSE FreeLimit
Credit    == IF member THEN balance ELSE 0

Exceeds(c) ==
  \/ mode = "BLOCKED"
  \/ ~Unlimited /\ used[month] + reserved[month] + Reservation[c] > Limit + Credit

\* The requests that are known under the call's client_request_id.
Earlier(c) == {d \in Calls \ {c} : KeyOf[d] = KeyOf[c] /\ request[d] \in Live}

\* StartAIRequest reads: a known request is answered with what it has stored, also when it is still
\* running or has failed, which is nothing ...
Replay(c) ==
  /\ at[c] = "new" /\ CanRead(c) /\ Earlier(c) # {}
  /\ rowed' = rowed \cup {month}
  /\ GoTo(c, "over")
  /\ Answer(c, IF \E d \in Earlier(c) : request[d] = "COMPLETE" THEN "replayed" ELSE "empty")
  /\ UNCHANGED <<settings, used, reserved, balance, rows, local, changes, granted, bill, freed>>

\* ... one for which AI is off or too little is left is refused, and rolled back ...
Refuse(c) ==
  /\ at[c] = "new" /\ CanRead(c) /\ Earlier(c) = {}
  /\ ~enabled \/ Exceeds(c)
  /\ GoTo(c, "over") /\ Answer(c, "refused")
  /\ UNCHANGED <<settings, usage, rows, local, changes, granted, bill, freed>>

Admit(c) ==
  /\ at[c] = "new" /\ CanRead(c) /\ Earlier(c) = {}
  /\ enabled /\ ~Exceeds(c)
  /\ GoTo(c, "create")
  /\ local' = [local EXCEPT ![c] = [NoLocal EXCEPT !.month = month, !.opens = Opens]]
  /\ UNCHANGED <<settings, usage, rows, changes, billing>>

\* ... and others are inserted: UNIQUE(user_id, client_request_id) refuses a call that another one
\* has overtaken, the conversation must not have been deleted.
KnownUnchecked(c) == FALSE
Known(c)          == Earlier(c) # {}

Create(c) ==
  /\ at[c] = "create" /\ ~Known(c) /\ talk[TalkOf[c]] # "deleted"
  /\ talk' = [talk EXCEPT ![TalkOf[c]] = "open"]
  /\ request' = [request EXCEPT ![c] = "PENDING"]
  /\ question' = [question EXCEPT ![c] = "PENDING"]
  /\ reserved' = [reserved EXCEPT ![local[c].month] = @ + Reservation[c]]
  /\ rowed' = rowed \cup {local[c].month}
  /\ local' = [local EXCEPT ![c].opens = FALSE]
  /\ GoTo(c, "stream")
  /\ UNCHANGED <<settings, used, balance, counted, changes, billing>>

RefuseLate(c) ==
  /\ at[c] = "create" /\ (Known(c) \/ talk[TalkOf[c]] = "deleted")
  /\ local' = [local EXCEPT ![c] = NoLocal]
  /\ GoTo(c, "over") /\ Answer(c, "refused")
  /\ UNCHANGED <<settings, usage, rows, changes, granted, bill, freed>>

-----------------------------------------------------------------------------
\* The provider answers at some cost; or it is not configured, fails, or answers nothing.
ProviderAnswers(c) ==
  /\ at[c] = "stream"
  /\ \E cost \in Costs : local' = [local EXCEPT ![c].cost = cost]
  /\ GoTo(c, "settle")
  /\ UNCHANGED <<settings, usage, rows, changes, billing>>

ProviderFails(c) ==
  /\ at[c] = "stream"
  /\ GoTo(c, "fail")
  /\ UNCHANGED <<settings, usage, rows, local, changes, billing>>

\* The handler ends without another transaction: the process dies, the client has gone and its
\* context fails every statement, or the history could not be read.
Abandon(c) ==
  /\ at[c] \in {"create", "stream", "settle", "charge", "complete", "fail"}
  /\ local' = [local EXCEPT ![c].opens = FALSE]
  /\ GoTo(c, "over") /\ Answer(c, "lost")
  /\ UNCHANGED <<settings, usage, rows, changes, granted, bill, freed>>

-----------------------------------------------------------------------------
\* SettleAIQuota reads the usage and shares the cost: the month's quota, then credits, and what is
\* left over is the month's again.
MonthlyShare(cost) == IF Unlimited THEN cost ELSE Lesser(cost, Less(Limit, used[month]))
CreditShare(cost)  == IF Unlimited THEN 0 ELSE Lesser(cost - MonthlyShare(cost), Credit)

Settle(c) ==
  /\ at[c] = "settle" /\ CanRead(c) /\ request[c] \in Live
  /\ LET credit == CreditShare(local[c].cost)
     IN local' = [local EXCEPT ![c] = [@ EXCEPT !.opens = Opens, !.in = month, !.credit = credit, !.monthly = local[c].cost - credit]]
  /\ GoTo(c, "charge")
  /\ UNCHANGED <<settings, usage, rows, changes, billing>>

SettleDeleted(c) ==
  /\ at[c] = "settle" /\ request[c] \notin Live
  /\ GoTo(c, "fail")
  /\ UNCHANGED <<settings, usage, rows, local, changes, billing>>

\* CASE WHEN reserved >= ? THEN reserved - ? ELSE 0 END, in the month of the day.
GiveBack(c, m) ==
  /\ reserved' = [reserved EXCEPT ![m] = Less(@, Reservation[c])]
  /\ freed' = [freed EXCEPT ![c] = m]

\* The UPDATEs and the commit; UPDATE ai_credit_wallets ... WHERE balance >= ? rolls all back when
\* others have spent the credits meanwhile.
LacksCreditUnchecked(c) == FALSE
LacksCredit(c)          == balance < local[c].credit

Charge(c) ==
  /\ at[c] = "charge" /\ ~LacksCredit(c)
  /\ GiveBack(c, local[c].in)
  /\ used' = [used EXCEPT ![local[c].in] = @ + local[c].monthly]
  /\ balance' = Less(balance, local[c].credit)
  /\ rowed' = rowed \cup {local[c].in}
  /\ counted' = [counted EXCEPT ![c] = request[c] \in Live]
  /\ bill' = [bill EXCEPT ![c] = [in |-> local[c].in, cost |-> local[c].cost, monthly |-> local[c].monthly, credit |-> local[c].credit]]
  /\ local' = [local EXCEPT ![c].opens = FALSE]
  /\ GoTo(c, "complete")
  /\ UNCHANGED <<settings, talk, request, question, changes, granted, answered>>

RollBackCharge(c) ==
  /\ at[c] = "charge" /\ LacksCredit(c)
  /\ local' = [local EXCEPT ![c].opens = FALSE]
  /\ GoTo(c, "fail")
  /\ UNCHANGED <<settings, usage, rows, changes, billing>>

-----------------------------------------------------------------------------
\* FinishAIRequest: a request that was not charged gives its points back; its status is written, and
\* that of every question of the conversation that is still pending.
MustGiveBackAlways(c) == TRUE
MustGiveBack(c)       == ~counted[c]

Outcome(c) == IF at[c] = "complete" THEN "COMPLETE" ELSE "FAILED"

QuestionsIfComplete(c) ==
  [d \in Calls |-> IF TalkOf[d] = TalkOf[c] /\ question[d] = "PENDING" /\ at[c] = "complete" THEN "COMPLETE" ELSE question[d]]
Questions(c) ==
  [d \in Calls |-> IF TalkOf[d] = TalkOf[c] /\ question[d] = "PENDING" THEN Outcome(c) ELSE question[d]]

Finish(c) ==
  /\ at[c] \in {"complete", "fail"} /\ request[c] \in Live
  /\ IF MustGiveBack(c)
     THEN CanRead(c) /\ GiveBack(c, month) /\ rowed' = rowed \cup {month}
     ELSE UNCHANGED <<reserved, freed, rowed>>
  /\ request' = [request EXCEPT ![c] = Outcome(c)]
  /\ question' = Questions(c)
  /\ GoTo(c, "over") /\ Answer(c, IF at[c] = "complete" THEN "done" ELSE "error")
  /\ UNCHANGED <<settings, used, balance, talk, counted, local, changes, granted, bill>>

\* The request has been deleted with its conversation.
FinishDeleted(c) ==
  /\ at[c] \in {"complete", "fail"} /\ request[c] \notin Live
  /\ GoTo(c, "over") /\ Answer(c, "error")
  /\ UNCHANGED <<settings, usage, rows, local, changes, granted, bill, freed>>

\* DeleteAIConversation; its messages and requests go with it (ON DELETE CASCADE).
DeleteConversation(t) ==
  /\ talk[t] = "open"
  /\ talk' = [talk EXCEPT ![t] = "deleted"]
  /\ request' = [c \in Calls |-> IF TalkOf[c] = t /\ request[c] \in Live THEN "deleted" ELSE request[c]]
  /\ question' = [c \in Calls |-> IF TalkOf[c] = t THEN "none" ELSE question[c]]
  /\ UNCHANGED <<settings, usage, counted, handler, changes, billing>>

-----------------------------------------------------------------------------
\* GET /ai/usage/me leaves the month's row behind.
ReadUsage ==
  /\ Opens /\ \A c \in Calls : CanRead(c)
  /\ rowed' = rowed \cup {month}
  /\ UNCHANGED <<settings, used, reserved, balance, rows, handler, changes, billing>>

MonthEnds ==
  /\ month < MaxMonth
  /\ month' = month + 1
  /\ UNCHANGED <<mode, member, enabled, allowance, usage, rows, handler, changes, billing>>

\* Administrators set the account's quota and the configuration; the membership starts or ends.
ChangeSettings ==
  /\ changes < MaxChanges /\ changes' = changes + 1
  /\ \/ mode' \in Modes \ {mode} /\ UNCHANGED <<member, enabled, allowance>>
     \/ member' = ~member /\ UNCHANGED <<mode, enabled, allowance>>
     \/ enabled' \in BOOLEAN /\ allowance' \in Allowances /\ UNCHANGED <<mode, member>>
  /\ UNCHANGED <<month, usage, rows, handler, billing>>

GrantCredits ==
  /\ changes < MaxChanges /\ changes' = changes + 1
  /\ balance' = balance + CreditPoints
  /\ granted' = granted + CreditPoints
  /\ UNCHANGED <<settings, rowed, used, reserved, rows, handler, bill, freed, answered>>

AINext ==
  \/ \E c \in Calls :
       \/ Replay(c) \/ Refuse(c) \/ Admit(c) \/ Create(c) \/ RefuseLate(c)
       \/ ProviderAnswers(c) \/ ProviderFails(c) \/ Abandon(c)
       \/ Settle(c) \/ SettleDeleted(c) \/ Charge(c) \/ RollBackCharge(c)
       \/ Finish(c) \/ FinishDeleted(c)
  \/ \E t \in Talks : DeleteConversation(t)
  \/ ReadUsage \/ MonthEnds \/ ChangeSettings \/ GrantCredits

AISpec == AIInit /\ [][AINext]_aiVars

-----------------------------------------------------------------------------
AITypeOK ==
  /\ month \in Months /\ mode \in Modes /\ member \in BOOLEAN /\ enabled \in BOOLEAN /\ allowance \in Allowances
  /\ balance \in Nat /\ rowed \subseteq Months
  /\ used \in [Months -> Nat] /\ reserved \in [Months -> Nat]
  /\ talk \in [Talks -> {"none", "open", "deleted"}]
  /\ request \in [Calls -> Live \cup {"none", "deleted"}]
  /\ counted \in [Calls -> BOOLEAN]
  /\ question \in [Calls -> {"none", "PENDING", "COMPLETE", "FAILED"}]
  /\ at \in [Calls -> {"new", "create", "stream", "settle", "charge", "complete", "fail", "over"}]
  /\ local \in [Calls -> Local]
  /\ changes \in Nat /\ granted \in Nat
  /\ bill \in [Calls -> [in : 0..MaxMonth, cost : 0..MaxPoints, monthly : 0..MaxPoints, credit : 0..MaxPoints]]
  /\ freed \in [Calls -> 0..MaxMonth]
  /\ answered \in [Calls -> {"no", "replayed", "empty", "refused", "done", "error", "lost"}]

\* The points of some calls, of which each has an amount: the number of pairs of a call and a point.
Points(some, amount) == Cardinality({p \in some \X (1..MaxPoints) : p[2] <= amount[p[1]]})

Billed(m)   == {c \in Calls : bill[c].in = m}
Spent       == {c \in Calls : bill[c].in # 0}
Monthly     == [c \in Calls |-> bill[c].monthly]
Credited    == [c \in Calls |-> bill[c].credit]

\* Whatever fails and however calls overlap, each answer that was paid for is charged once and in
\* full: the month's usage and what has left the wallet are the shares of the answers, no more.
ChargedInFull ==
  /\ \A m \in Months : used[m] = Points(Billed(m), Monthly)
  /\ balance + Points(Spent, Credited) = granted
  /\ \A c \in Spent : bill[c].monthly + bill[c].credit = bill[c].cost

\* Reservations still to be given back, and those that were given back in a month they are not of.
Held(m)    == {c \in Calls : local[c].month = m /\ freed[c] # m /\ request[c] # "none"}
Foreign(m) == {c \in Calls : local[c].month # m /\ freed[c] = m}

\* No reservation is given back twice or forgotten by one that ends: the points reserved in a month
\* are those of its calls under way (or given up on), short at most of those that calls begun
\* in an earlier month have taken from it.
ReservationsHeld ==
  \A m \in Months :
    /\ reserved[m] <= Points(Held(m), Reservation)
    /\ Points(Held(m), Reservation) <= reserved[m] + Points(Foreign(m), Reservation)

\* Calls with the same client_request_id are charged once, unless a conversation was deleted, and
\* with it what was known of them; a stored answer has been charged.
ChargedOnce ==
  /\ \A c, d \in Calls :
       c # d /\ KeyOf[c] = KeyOf[d] /\ c \in Spent /\ d \in Spent => "deleted" \in {request[c], request[d]}
  /\ \A c \in Calls : request[c] = "COMPLETE" \/ answered[c] = "replayed" =>
       \E d \in Spent : KeyOf[d] = KeyOf[c]

\* A request that has ended has its question settled, as itself or another call of the conversation
\* ended: a question that is not in the history belongs to a call that failed or to one that was
\* under way when another failed.
QuestionsSettled ==
  \A c \in Calls : request[c] \in {"COMPLETE", "FAILED"} =>
    /\ question[c] \in {"COMPLETE", "FAILED"}
    /\ \E d \in Calls : TalkOf[d] = TalkOf[c] /\ request[d] = question[c]

\* What the rows say of a call, wherever it is: it is charged, and gives its reservation back, once,
\* after its request was inserted and before that is answered.
CallFits(c) ==
  /\ at[c] \in {"new", "create"} => request[c] = "none"
  /\ at[c] = "create" \/ request[c] # "none" => local[c].month \in Months
  /\ at[c] \in {"stream", "settle", "charge", "complete", "fail"} => request[c] \in {"PENDING", "deleted"}
  /\ at[c] \notin {"complete", "over"} => c \notin Spent /\ freed[c] = 0
  /\ at[c] = "charge" => local[c].in \in Months /\ local[c].monthly + local[c].credit = local[c].cost
  /\ at[c] = "complete" => c \in Spent /\ (request[c] \in Live => counted[c])
  /\ c \in Spent => request[c] # "none"
  /\ request[c] = "COMPLETE" => c \in Spent

CallsFit == \A c \in Calls : CallFits(c)

\* A client_request_id is that of one request, and a question says what a request has come to.
RowsFit ==
  /\ \A c, d \in Calls : c # d /\ KeyOf[c] = KeyOf[d] => ~(request[c] \in Live /\ request[d] \in Live)
  /\ \A c \in Calls :
       /\ request[c] \in Live => question[c] # "none"
       /\ question[c] \in {"COMPLETE", "FAILED"} => \E d \in Calls : TalkOf[d] = TalkOf[c] /\ request[d] = question[c]

CallsKnown == AITypeOK /\ CallsFit /\ RowsFit

\* The inductive invariant.
AIInv == CallsKnown /\ ChargedInFull /\ ReservationsHeld /\ ChargedOnce /\ QuestionsSettled
=============================================================================
