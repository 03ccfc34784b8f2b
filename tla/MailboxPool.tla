------------------------------ MODULE MailboxPool ------------------------------
(***************************************************************************)
(* The pool of mailboxes and their daily quotas (internal/store/           *)
(* briefings.go, deliverOne in internal/worker/worker.go).  To send a mail *)
(* a worker reserves a place in the quota of the mailbox least used today, *)
(* and gives it back when the attempt fails.  Counts are of one date; the  *)
(* first worker that comes with another one sets them to zero.             *)
(*                                                                         *)
(* The database is PostgreSQL at READ COMMITTED.  A reservation is one     *)
(* transaction: an UPDATE that waits for the rows it resets, a SELECT that *)
(* locks every mailbox with quota left and skips what others have locked,  *)
(* and the UPDATE that counts.  Its writes appear at the commit.  What     *)
(* becomes of the mail is in BriefingDelivery.                             *)
(***************************************************************************)
EXTENDS Naturals, FiniteSets

CONSTANTS
  Mailboxes,
  Quotas,      \* values of daily_quota
  Senders,     \* workers, one in each server process
  LastDate,    \* bound: days that pass
  NoSender

ASSUME SendersAssumption == NoSender \notin Senders /\ IsFiniteSet(Senders)
ASSUME QuotasAssumption  == Quotas \subseteq Nat \ {0} /\ LastDate \in Nat \ {0}

VARIABLES
  date,       \* time.Now().Format("2006-01-02")
  box,        \* mailboxes: "none", "on", "off" (enabled = 0) or "deleted"
  quota,      \* daily_quota
  usedToday,  \* used_today
  usageDate,  \* usage_date, 0 for ''
  locker,     \* who holds each row's lock
  stage,      \* where each worker is
  delivery,   \* its locals
  accepted,   \* history: mails that servers accepted through a mailbox, by the date their deliveries began on
  limit,      \* history: the quota in force when a place of a date was last taken
  unheard,    \* history: those of accepted that were taken for failed
  uncounted,  \* history: places that deliveries of a date took and that the row counts for no or another date
  turned      \* history: the latest date that a mailbox's counts were reset from to an earlier one

columns  == <<box, quota, usedToday, usageDate>>
senders  == <<stage, delivery>>
ledger   == <<accepted, limit, unheard, uncounted, turned>>
poolVars == <<date, columns, locker, senders, ledger>>

Dates == 1..LastDate
Pool  == {m \in Mailboxes : box[m] \in {"on", "off"}}

\* A delivery: its usageDate, its excluded mailboxes, those its transaction resets, and the one it uses.
Delivery   == [on : 0..LastDate, excluded : SUBSET Mailboxes, stale : SUBSET Mailboxes, uses : SUBSET Mailboxes]
NoDelivery == [on |-> 0, excluded |-> {}, stale |-> {}, uses |-> {}]

Stages     == {"idle", "acquire", "reset", "select", "reserve", "send", "release"}

PoolInit ==
  /\ date = 1
  /\ box = [m \in Mailboxes |-> "none"]
  /\ quota = [m \in Mailboxes |-> 0] /\ usedToday = [m \in Mailboxes |-> 0] /\ usageDate = [m \in Mailboxes |-> 0]
  /\ locker = [m \in Mailboxes |-> NoSender]
  /\ stage = [w \in Senders |-> "idle"]
  /\ delivery = [w \in Senders |-> NoDelivery]
  /\ accepted = [m \in Mailboxes |-> [d \in Dates |-> 0]] /\ limit = accepted /\ unheard = accepted
  /\ uncounted = accepted /\ turned = [m \in Mailboxes |-> 0]

Step(w, to, locals) ==
  /\ stage' = [stage EXCEPT ![w] = to]
  /\ delivery' = [delivery EXCEPT ![w] = locals]
StopDelivery(w) == Step(w, "idle", NoDelivery)

\* Histories are of the dates after turned only.
Kept(history) == [m \in Mailboxes |-> [d \in Dates |-> IF d > turned'[m] THEN history[m][d] ELSE 0]]

\* One more, for the mailbox and the date of a delivery.
Tally(history, w) ==
  [m \in Mailboxes |-> [d \in Dates |->
    IF m \in delivery[w].uses /\ d = delivery[w].on THEN history[m][d] + 1 ELSE history[m][d]]]

Unlock(w) == locker' = [m \in Mailboxes |-> IF locker[m] = w THEN NoSender ELSE locker[m]]

-----------------------------------------------------------------------------
\* deliverOne has claimed a mail and takes the day's date, once for all its attempts.
StartDelivery(w) ==
  /\ stage[w] = "idle"
  /\ Step(w, "acquire", [NoDelivery EXCEPT !.on = date])
  /\ UNCHANGED <<date, columns, locker, ledger>>

\* UPDATE mailboxes SET used_today = 0, usage_date = ? WHERE usage_date <> ? finds its rows ...
StartReset(w) ==
  /\ stage[w] = "acquire"
  /\ Step(w, "reset", [delivery[w] EXCEPT !.stale = {m \in Pool : usageDate[m] # delivery[w].on}])
  /\ UNCHANGED <<date, columns, locker, ledger>>

\* ... waits for them, and looks at them again.
ResetDates(w) ==
  LET stale == {m \in delivery[w].stale \cap Pool : usageDate[m] # delivery[w].on}
  IN /\ stage[w] = "reset" /\ \A m \in delivery[w].stale : locker[m] = NoSender
     /\ locker' = [m \in Mailboxes |-> IF m \in stale THEN w ELSE locker[m]]
     /\ Step(w, "select", [delivery[w] EXCEPT !.stale = stale])
     /\ UNCHANGED <<date, columns, ledger>>

\* SELECT ... WHERE enabled = 1 AND used_today < daily_quota FOR UPDATE SKIP LOCKED; the least used
\* mailbox that is not excluded is taken.
Uses(w, m)            == IF m \in delivery[w].stale THEN 0 ELSE usedToday[m]
HasQuotaAtLimit(w, m) == Uses(w, m) <= quota[m]
HasQuota(w, m)        == Uses(w, m) < quota[m]
WithQuota(w)          == {m \in Pool : box[m] = "on" /\ HasQuota(w, m) /\ locker[m] \in {NoSender, w}}
Candidates(w)         == WithQuota(w) \ delivery[w].excluded

SelectMailbox(w, m) ==
  /\ stage[w] = "select"
  /\ m \in Candidates(w) /\ \A n \in Candidates(w) : Uses(w, m) <= Uses(w, n)
  /\ locker' = [n \in Mailboxes |-> IF n \in WithQuota(w) THEN w ELSE locker[n]]
  /\ Step(w, "reserve", [delivery[w] EXCEPT !.uses = {m}])
  /\ UNCHANGED <<date, columns, ledger>>

\* There is none, also when another worker has locked them all: the reset is rolled back, and the
\* delivery fails as "mailbox pool exhausted".
FindNone(w) ==
  /\ stage[w] = "select" /\ Candidates(w) = {}
  /\ Unlock(w) /\ StopDelivery(w)
  /\ UNCHANGED <<date, columns, ledger>>

\* UPDATE ... SET used_today = used_today + 1 of the row it holds, and the commit.  (A mailbox created
\* since the reset has no date yet, and what is sent through it first counts for none.)
Taken(w, m)     == IF m \in delivery[w].uses THEN 1 ELSE 0
DateOf(w, m)    == IF m \in delivery[w].stale THEN delivery[w].on ELSE usageDate[m]
CountsElsewhere(w, m) == m \in delivery[w].uses /\ DateOf(w, m) # delivery[w].on
TurnsBack(w, m) == m \in delivery[w].stale /\ delivery[w].on < usageDate[m]
Greatest(a, b)  == IF a > b THEN a ELSE b

Reserve(w) ==
  /\ stage[w] = "reserve"
  /\ usedToday' = [m \in Mailboxes |-> Uses(w, m) + Taken(w, m)]
  /\ usageDate' = [m \in Mailboxes |-> DateOf(w, m)]
  /\ turned' = [m \in Mailboxes |-> IF TurnsBack(w, m) THEN Greatest(turned[m], usageDate[m]) ELSE turned[m]]
  /\ limit' = Kept([m \in Mailboxes |-> [d \in Dates |->
                IF m \in delivery[w].uses /\ d = DateOf(w, m) THEN quota[m] ELSE limit[m][d]]])
  /\ uncounted' = Kept([m \in Mailboxes |-> IF CountsElsewhere(w, m) THEN Tally(uncounted, w)[m] ELSE uncounted[m]])
  /\ accepted' = Kept(accepted) /\ unheard' = Kept(unheard)
  /\ Unlock(w) /\ Step(w, "send", [delivery[w] EXCEPT !.stale = {}])
  /\ UNCHANGED <<date, box, quota>>

\* A statement fails, or the transaction is the victim of a deadlock, and is rolled back; or the answer
\* to its commit is lost.  The delivery fails, and keeps the place it may have.
FailReservation(w) ==
  /\ stage[w] \in {"acquire", "reset", "select", "reserve", "send"}
  /\ Unlock(w) /\ StopDelivery(w)
  /\ UNCHANGED <<date, columns, ledger>>

-----------------------------------------------------------------------------
\* The server accepts the mail, and the session ends well (or the process dies).
SendMail(w) ==
  /\ stage[w] = "send"
  /\ UNCHANGED <<date, columns, locker, limit, unheard, uncounted, turned>>
  /\ accepted' = Kept(Tally(accepted, w))
  /\ StopDelivery(w)

\* It accepts the mail, but QUIT fails: to deliverOne the attempt has failed.
QuitFails(w) ==
  /\ stage[w] = "send"
  /\ UNCHANGED <<date, columns, locker, limit, uncounted, turned>>
  /\ accepted' = Kept(Tally(accepted, w)) /\ unheard' = Kept(Tally(unheard, w))
  /\ Step(w, "release", delivery[w])

\* There is no mail.
FailAttempt(w) ==
  /\ stage[w] = "send"
  /\ Step(w, "release", delivery[w])
  /\ UNCHANGED <<date, columns, locker, ledger>>

\* ReleaseMailboxReservation: one UPDATE of the mailbox WHERE usage_date = ?, which waits for the row.
SameDateUnchecked(w, m) == TRUE
SameDate(w, m)          == usageDate[m] = delivery[w].on

Matches(w)     == {m \in delivery[w].uses \cap Pool : SameDate(w, m)}
GivesBack(w)   == {m \in Matches(w) : usedToday[m] > 0}

\* Then the next mailbox is tried, or the delivery has failed (classifyMailError).
NextOrStop(w) ==
  \/ Step(w, "acquire", [delivery[w] EXCEPT !.excluded = @ \cup delivery[w].uses, !.uses = {}])
  \/ StopDelivery(w)

Release(w) ==
  /\ stage[w] = "release" /\ \A m \in Matches(w) : locker[m] = NoSender
  /\ usedToday' = [m \in Mailboxes |-> IF m \in GivesBack(w) THEN usedToday[m] - 1 ELSE usedToday[m]]
  /\ NextOrStop(w)
  /\ UNCHANGED <<date, box, quota, usageDate, locker, ledger>>

\* Its error is ignored.
FailRelease(w) ==
  /\ stage[w] = "release"
  /\ NextOrStop(w)
  /\ UNCHANGED <<date, columns, locker, ledger>>

\* The process dies; its transaction is rolled back.
CrashSender(w) ==
  /\ stage[w] # "idle"
  /\ Unlock(w) /\ StopDelivery(w)
  /\ UNCHANGED <<date, columns, ledger>>

-----------------------------------------------------------------------------
\* Administrators create mailboxes, change and delete them; the latter wait for the row.
WriteMailbox(m, q, enabled) ==
  /\ box' = [box EXCEPT ![m] = IF enabled THEN "on" ELSE "off"]
  /\ quota' = [quota EXCEPT ![m] = q]
  /\ UNCHANGED <<date, usedToday, usageDate, locker, senders, ledger>>

CreateMailbox(m, q, enabled) == box[m] = "none" /\ WriteMailbox(m, q, enabled)
UpdateMailbox(m, q, enabled) == m \in Pool /\ locker[m] = NoSender /\ WriteMailbox(m, q, enabled)

DeleteMailbox(m) ==
  /\ m \in Pool /\ locker[m] = NoSender
  /\ box' = [box EXCEPT ![m] = "deleted"]
  /\ UNCHANGED <<date, quota, usedToday, usageDate, locker, senders, ledger>>

Midnight ==
  /\ date < LastDate
  /\ date' = date + 1
  /\ UNCHANGED <<columns, locker, senders, ledger>>

PoolNext ==
  \/ \E w \in Senders :
       \/ StartDelivery(w) \/ StartReset(w) \/ ResetDates(w) \/ FindNone(w) \/ Reserve(w) \/ FailReservation(w)
       \/ SendMail(w) \/ QuitFails(w) \/ FailAttempt(w) \/ Release(w) \/ FailRelease(w) \/ CrashSender(w)
       \/ \E m \in Mailboxes : SelectMailbox(w, m)
  \/ \E m \in Mailboxes :
       \/ \E q \in Quotas, enabled \in BOOLEAN : CreateMailbox(m, q, enabled) \/ UpdateMailbox(m, q, enabled)
       \/ DeleteMailbox(m)
  \/ Midnight

PoolSpec == PoolInit /\ [][PoolNext]_poolVars

-----------------------------------------------------------------------------
PoolTypeOK ==
  /\ date \in Dates
  /\ box \in [Mailboxes -> {"none", "on", "off", "deleted"}]
  /\ quota \in [Mailboxes -> Nat] /\ usedToday \in [Mailboxes -> Nat] /\ usageDate \in [Mailboxes -> 0..LastDate]
  /\ locker \in [Mailboxes -> Senders \cup {NoSender}]
  /\ stage \in [Senders -> Stages]
  /\ delivery \in [Senders -> Delivery]
  /\ accepted \in [Mailboxes -> [Dates -> Nat]] /\ limit \in [Mailboxes -> [Dates -> Nat]]
  /\ unheard \in [Mailboxes -> [Dates -> Nat]] /\ uncounted \in [Mailboxes -> [Dates -> Nat]]
  /\ turned \in [Mailboxes -> 0..LastDate]

\* Workers that reserve, give back and die at the same time, also while the date or the quota changes,
\* have no more mails accepted through a mailbox, for deliveries begun on a date, than the quota that
\* was in force when its last place was taken - and as many more as the code loses count of:
\*   - unheard: the server accepted the mail, QUIT failed, and the place was given back;
\*   - uncounted: the row was not of the delivery's date and had not been reset to it (the mailbox was
\*     created, or another worker changed the date, between the two statements);
\*   - on dates up to turned, any number: a worker that took its date before midnight and reserves
\*     after another has reset the counts resets them back, and forgets what was sent on both dates.
QuotaKept ==
  \A m \in Mailboxes, d \in Dates :
    d > turned[m] => accepted[m][d] <= limit[m][d] + unheard[m][d] + uncounted[m][d]

\* Mails of a date that may yet be accepted.
Underway(m, d) ==
  {w \in Senders : stage[w] \in {"send", "release"} /\ delivery[w].on = d /\ m \in delivery[w].uses}

\* What a row counts, or counted before its date went on, is within the limit and stands for every
\* mail accepted or underway.
CountOf(m, d) == IF d = usageDate[m] THEN usedToday[m] ELSE IF d > usageDate[m] THEN 0 ELSE limit[m][d]

CountFits(m, d) ==
  /\ d = usageDate[m] => usedToday[m] <= limit[m][d]
  /\ accepted[m][d] + Cardinality(Underway(m, d)) <= CountOf(m, d) + unheard[m][d] + uncounted[m][d]

CountsFit == \A m \in Mailboxes, d \in Dates : d > turned[m] => CountFits(m, d)

\* A transaction has locked what it is to write, and there was quota left.
ReservationFits(w) ==
  /\ stage[w] # "idle" => delivery[w].on \in Dates
  /\ stage[w] \in {"select", "reserve"} => \A m \in delivery[w].stale : locker[m] = w /\ usageDate[m] # delivery[w].on
  /\ stage[w] = "reserve" => \A m \in delivery[w].uses : locker[m] = w /\ HasQuota(w, m)
  /\ stage[w] \in {"idle", "acquire", "send", "release"} => \A m \in Mailboxes : locker[m] # w

ReservationsFit ==
  /\ \A m \in Mailboxes : locker[m] # NoSender => m \in Pool
  /\ \A w \in Senders : ReservationFits(w)

\* The inductive invariant.
PoolInv == PoolTypeOK /\ CountsFit /\ ReservationsFit
=============================================================================
