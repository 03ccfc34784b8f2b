--------------------------- MODULE BriefingDelivery ---------------------------
(***************************************************************************)
(* The mail queue of internal/store/briefings.go and the workers that      *)
(* drain it (internal/worker/worker.go): one account's daily briefing, its *)
(* test mails, and mails with a secret (verification codes, reset tokens). *)
(*                                                                         *)
(* Each server process runs one worker, a single goroutine that now and    *)
(* then schedules the briefings that are due and delivers one queued mail. *)
(* Handlers enable, disable and delete the subscription and queue mails;   *)
(* an administrator may ask for any mail to be tried again.                *)
(***************************************************************************)
EXTENDS Naturals, FiniteSets

CONSTANTS
  Workers,
  Tests, Secrets,  \* mails queued by handlers: EMAIL_TEST, and those with a secret payload
  MaxDay,          \* bound: days that pass; on day 0 no briefing is due yet
  MaxRetries,      \* failed attempts after which a job is FAILED (4 in the code)
  MaxMailboxes,    \* enabled mailboxes (with or without quota left)
  MaxExcuses       \* bound: administrator's retries and failed QUITs, per job

ASSUME WorkersAssumption == IsFiniteSet(Workers)
ASSUME BoundsAssumption ==
  MaxDay \in Nat /\ MaxRetries \in Nat /\ MaxMailboxes \in Nat \ {0} /\ MaxExcuses \in Nat

VARIABLES
  today,     \* the account's local date
  sub,       \* briefing_subscriptions.enabled: "none", "on" or "off"
  lastDay,   \* the day of last_scheduled_at
  handler,   \* what the PUT of the subscription is doing
  job,       \* briefing_jobs: status and retry_count of each
  due,       \* scheduled_at has passed
  payload,   \* the secret is still in the row
  pc,        \* where each worker is
  plan,      \* the day it schedules, as computed when it listed the subscriptions
  claimed,   \* the job it delivers, as read when it was claimed
  tried,     \* mailboxes it has excluded
  accepted,  \* history: how often an SMTP server took each mail
  excuses,   \* history: administrator's retries and failed QUITs
  dropped    \* history: mails a worker was delivering when it died

user    == <<today, sub, lastDay, handler>>
queue   == <<job, due, payload>>
worker  == <<pc, plan, claimed, tried>>
history == <<accepted, excuses, dropped>>
vars    == <<user, queue, worker, history>>

Days == 1..MaxDay       \* the formal briefing of a day is known by (user, target_date, channel)
Jobs == Days \cup Tests \cup Secrets

Briefings == Days \cup Tests  \* channels EMAIL and EMAIL_TEST
NoJob     == [id |-> 0, retries |-> 0, secret |-> FALSE]

Absent   == [status |-> "ABSENT", retries |-> 0]
Statuses == {"ABSENT", "PENDING", "PROCESSING", "SENT", "RETRY", "FAILED", "CANCELLED"}
Waiting(j) == job[j].status \in {"PENDING", "RETRY"}

Init ==
  /\ today = 0 /\ sub = "none" /\ lastDay = 0 /\ handler = "answered"
  /\ job = [j \in Jobs |-> Absent]
  /\ due = [j \in Jobs |-> FALSE]
  /\ payload = [j \in Jobs |-> FALSE]
  /\ pc = [w \in Workers |-> "idle"]
  /\ plan = [w \in Workers |-> 0]
  /\ claimed = [w \in Workers |-> NoJob]
  /\ tried = [w \in Workers |-> 0]
  /\ accepted = [j \in Jobs |-> 0]
  /\ excuses = [j \in Jobs |-> 0]
  /\ dropped = {}

\* A row inserted as PENDING, to be sent at once.
Insert(j) ==
  /\ job' = [job EXCEPT ![j] = [status |-> "PENDING", retries |-> 0]]
  /\ due' = [due EXCEPT ![j] = TRUE]
  /\ payload' = [payload EXCEPT ![j] = j \in Secrets]

-----------------------------------------------------------------------------
\* PUT /briefings/daily: one statement writes the subscription; when it disables, a second one
\* cancels what waits.  The two are not one transaction.
Enable ==
  /\ handler # "cancel"
  /\ sub' = "on" /\ handler' = "answered"
  /\ UNCHANGED <<today, lastDay, queue, worker, history>>

Disable ==
  /\ handler # "cancel"
  /\ sub' = "off" /\ handler' = "cancel"
  /\ UNCHANGED <<today, lastDay, queue, worker, history>>

Cancellable(j) == j \in Briefings /\ Waiting(j)

CancelWaiting ==
  /\ handler = "cancel"
  /\ job' = [j \in Jobs |-> IF Cancellable(j) THEN [job[j] EXCEPT !.status = "CANCELLED"] ELSE job[j]]
  /\ payload' = [j \in Jobs |-> payload[j] /\ ~Cancellable(j)]
  /\ handler' = "answered"
  /\ UNCHANGED <<today, sub, lastDay, due, worker, history>>

\* The second statement fails, or the process dies between the two.
DisableFails ==
  /\ handler = "cancel"
  /\ handler' = "failed"
  /\ UNCHANGED <<today, sub, lastDay, queue, worker, history>>

\* DELETE /briefings/daily removes the row; what is queued stays.
DeleteSubscription ==
  /\ handler # "cancel"
  /\ sub' = "none" /\ lastDay' = 0 /\ handler' = "answered"
  /\ UNCHANGED <<today, queue, worker, history>>

\* Handlers queue test mails and mails with a secret, each under a target_date of its own.
Queue(j) ==
  /\ j \in Tests \cup Secrets /\ job[j] = Absent
  /\ Insert(j)
  /\ UNCHANGED <<user, worker, history>>

\* RetryBriefingJob: the administrator's retry looks at no status and moves no scheduled_at.
AdminRetry(j) ==
  /\ job[j] # Absent /\ excuses[j] < MaxExcuses
  /\ job' = [job EXCEPT ![j] = [status |-> "PENDING", retries |-> @.retries + 1]]
  /\ excuses' = [excuses EXCEPT ![j] = @ + 1]
  /\ UNCHANGED <<user, due, payload, worker, accepted, dropped>>

-----------------------------------------------------------------------------
\* The worker lists the subscriptions, and computes who is due today ...
ListDue(w) ==
  /\ pc[w] = "idle"
  /\ sub = "on" /\ today > 0 /\ lastDay # today
  /\ pc'   = [pc EXCEPT ![w] = "schedule"]
  /\ plan' = [plan EXCEPT ![w] = today]
  /\ UNCHANGED <<user, queue, claimed, tried, history>>

\* ... and inserts their jobs later, one by one: a row of that user, day and channel is a conflict,
\* otherwise the day is noted if the subscription is still enabled.
RowExistsUnchecked(d) == FALSE
RowExists(d) == job[d] # Absent

Schedule(w) ==
  /\ pc[w] = "schedule"
  /\ IF RowExists(plan[w])
     THEN UNCHANGED <<queue, lastDay>>
     ELSE Insert(plan[w]) /\ lastDay' = IF sub = "on" THEN plan[w] ELSE lastDay
  /\ pc'   = [pc EXCEPT ![w] = "idle"]
  /\ plan' = [plan EXCEPT ![w] = 0]
  /\ UNCHANGED <<today, sub, handler, claimed, tried, history>>

\* ClaimBriefingJob: SELECT ... FOR UPDATE SKIP LOCKED and UPDATE, one transaction.
ClaimableAlsoTaken(j) == (Waiting(j) \/ job[j].status = "PROCESSING") /\ due[j]
ClaimableAlsoFailed(j) == (Waiting(j) \/ job[j].status = "FAILED") /\ due[j]
Claimable(j) == Waiting(j) /\ due[j]

Claim(w, j) ==
  /\ pc[w] = "idle" /\ Claimable(j)
  /\ job' = [job EXCEPT ![j].status = "PROCESSING"]
  /\ pc' = [pc EXCEPT ![w] = "acquire"]
  /\ claimed' = [claimed EXCEPT ![w] = [id |-> j, retries |-> job[j].retries, secret |-> payload[j]]]
  /\ UNCHANGED <<user, due, payload, plan, tried, history>>

\* AcquireMailboxExcluding finds a mailbox with quota that has not been tried ...
Acquire(w) ==
  /\ pc[w] = "acquire" /\ tried[w] < MaxMailboxes
  /\ pc' = [pc EXCEPT ![w] = "send"]
  /\ UNCHANGED <<user, queue, plan, claimed, tried, history>>

\* ... or none, which fails the job.
PoolExhaustedForgets(w) ==
  /\ pc[w] = "acquire"
  /\ pc' = [pc EXCEPT ![w] = "idle"]
  /\ claimed' = [claimed EXCEPT ![w] = NoJob]
  /\ tried' = [tried EXCEPT ![w] = 0]
  /\ UNCHANGED <<user, queue, plan, history>>
PoolExhausted(w) ==
  /\ pc[w] = "acquire"
  /\ pc' = [pc EXCEPT ![w] = "fail"]
  /\ UNCHANGED <<user, queue, plan, claimed, tried, history>>

\* mailContent refuses a mail whose secret is gone.
HasContent(w) == claimed[w].id \in Secrets => claimed[w].secret

\* send: the server accepts the mail and the session ends.
Accept(w) ==
  /\ pc[w] = "send" /\ HasContent(w)
  /\ accepted' = [accepted EXCEPT ![claimed[w].id] = @ + 1]
  /\ pc' = [pc EXCEPT ![w] = "complete"]
  /\ UNCHANGED <<user, queue, plan, claimed, tried, excuses, dropped>>

\* A failed attempt: connection and authentication errors move on to the next mailbox, others fail
\* the job (classifyMailError).
NextMailbox(w) ==
  /\ pc'    = [pc EXCEPT ![w] = "acquire"]
  /\ tried' = [tried EXCEPT ![w] = @ + 1]
GiveUp(w) ==
  /\ pc' = [pc EXCEPT ![w] = "fail"]
  /\ UNCHANGED tried

\* The server does not take the mail.
Reject(w) ==
  /\ pc[w] = "send"
  /\ NextMailbox(w) \/ GiveUp(w)
  /\ UNCHANGED <<user, queue, plan, claimed, history>>

\* The server accepts the mail, but QUIT fails, which counts as a failed attempt.
QuitFails(w) ==
  /\ pc[w] = "send" /\ HasContent(w)
  /\ excuses[claimed[w].id] < MaxExcuses
  /\ accepted' = [accepted EXCEPT ![claimed[w].id] = @ + 1]
  /\ excuses'  = [excuses EXCEPT ![claimed[w].id] = @ + 1]
  /\ NextMailbox(w) \/ GiveUp(w)
  /\ UNCHANGED <<user, queue, plan, claimed, dropped>>

\* The worker is done with its job.
Done(w) ==
  /\ pc'      = [pc EXCEPT ![w] = "idle"]
  /\ claimed' = [claimed EXCEPT ![w] = NoJob]
  /\ tried'   = [tried EXCEPT ![w] = 0]

\* FailBriefingJob decides on the retry_count read at the claim and writes whatever the status is.
Fail(w) ==
  /\ pc[w] = "fail"
  /\ LET j == claimed[w].id
         last == claimed[w].retries >= MaxRetries
     IN /\ job' = [job EXCEPT ![j] = [status |-> IF last THEN "FAILED" ELSE "RETRY", retries |-> @.retries + 1]]
        /\ due' = [due EXCEPT ![j] = last]
  /\ Done(w)
  /\ UNCHANGED <<user, payload, plan, history>>

\* CompleteBriefingJob, and the payload is cleared.
ClearPayloadNot(j) == payload
ClearPayload(j) == [payload EXCEPT ![j] = FALSE]

Complete(w) ==
  /\ pc[w] = "complete"
  /\ job'     = [job EXCEPT ![claimed[w].id].status = "SENT"]
  /\ payload' = ClearPayload(claimed[w].id)
  /\ Done(w)
  /\ UNCHANGED <<user, due, plan, history>>

\* The process dies, or the statement that was to record the outcome fails.
Crash(w) ==
  /\ pc[w] # "idle"
  /\ Done(w)
  /\ plan' = [plan EXCEPT ![w] = 0]
  /\ dropped' = dropped \cup ({claimed[w].id} \cap Jobs)
  /\ UNCHANGED <<user, queue, accepted, excuses>>

-----------------------------------------------------------------------------
\* The delay of a retry passes (an administrator's retry does not shorten it); the day ends.
BecomesDue(j) ==
  /\ Waiting(j) /\ ~due[j]
  /\ due' = [due EXCEPT ![j] = TRUE]
  /\ UNCHANGED <<user, job, payload, worker, history>>

DayPasses ==
  /\ today < MaxDay
  /\ today' = today + 1
  /\ UNCHANGED <<sub, lastDay, handler, queue, worker, history>>

Deliver(w) ==
  \/ Acquire(w) \/ PoolExhausted(w)
  \/ Accept(w) \/ Reject(w) \/ QuitFails(w)
  \/ Fail(w) \/ Complete(w)

Next ==
  \/ Enable \/ Disable \/ CancelWaiting \/ DisableFails \/ DeleteSubscription
  \/ \E j \in Jobs : Queue(j) \/ AdminRetry(j) \/ BecomesDue(j)
  \/ \E w \in Workers : ListDue(w) \/ Schedule(w) \/ Deliver(w) \/ Crash(w) \/ \E j \in Jobs : Claim(w, j)
  \/ DayPasses

Spec == Init /\ [][Next]_vars

\* The worker's loop goes on, the oldest job is claimed first, and delays end.
Fairness ==
  /\ \A w \in Workers : WF_vars(Schedule(w)) /\ WF_vars(Deliver(w))
  /\ \A j \in Jobs : WF_vars(BecomesDue(j)) /\ SF_vars(\E w \in Workers : Claim(w, j))
FairSpec == Spec /\ Fairness

-----------------------------------------------------------------------------
TypeOK ==
  /\ today \in 0..MaxDay /\ lastDay \in {0} \cup Days
  /\ sub \in {"none", "on", "off"} /\ handler \in {"answered", "cancel", "failed"}
  /\ job \in [Jobs -> [status : Statuses, retries : Nat]]
  /\ due \in [Jobs -> BOOLEAN] /\ payload \in [Jobs -> BOOLEAN]
  /\ pc \in [Workers -> {"idle", "schedule", "acquire", "send", "complete", "fail"}]
  /\ plan \in [Workers -> {0} \cup Days]
  /\ claimed \in [Workers -> [id : Jobs, retries : Nat, secret : BOOLEAN] \cup {NoJob}]
  /\ tried \in [Workers -> 0..MaxMailboxes]
  /\ accepted \in [Jobs -> Nat] /\ excuses \in [Jobs -> 0..MaxExcuses]
  /\ dropped \subseteq Jobs

\* Workers that have not yet had job j accepted.
Delivering(j) == {w \in Workers : pc[w] \in {"acquire", "send", "fail"} /\ claimed[w].id = j}

\* A mail is sent once, and once more at most for each time an administrator had it tried again or
\* a server accepted it and then broke the session: the workers' claims, retries, crashes and the
\* cancellation add no copy of their own.
CopiesExplained == \A j \in Jobs : accepted[j] <= 1 + excuses[j]

\* The invariant behind it: every copy still to come has a worker on it or a row waiting, and each
\* of them is accounted for.
CopiesToCome(j) == Cardinality(Delivering(j)) + IF Waiting(j) THEN 1 ELSE 0
CopiesBounded == \A j \in Jobs : accepted[j] + CopiesToCome(j) <= 1 + excuses[j]

\* A worker schedules for a day and delivers a mail that is in the queue.
WorkersFit ==
  \A w \in Workers :
    /\ pc[w] = "schedule" => plan[w] \in Days
    /\ pc[w] \in {"acquire", "send", "complete", "fail"} => claimed[w].id \in Jobs /\ job[claimed[w].id] # Absent
    /\ pc[w] = "send" => tried[w] < MaxMailboxes
AbsentAreNew == \A j \in Jobs : job[j] = Absent => accepted[j] = 0

\* The inductive invariant.
QueueInv == TypeOK /\ WorkersFit /\ AbsentAreNew /\ CopiesBounded

\* The copies of a mail are used up one by one, as MailCopies has it: claims, failures, crashes and
\* cancellations move or lose the copies that are to come and make none.
Copies == INSTANCE MailCopies
            WITH Mails <- Jobs, queued <- {j \in Jobs : job[j] # Absent},
                 toCome <- [j \in Jobs |-> CopiesToCome(j)], sent <- accepted, excused <- excuses
ImplementsCopies == Copies!CopiesSpec

\* Once a mail with a secret has been recorded as sent and no worker has it in hand, it is never
\* sent again, whatever an administrator has tried again: the secret has left the queue.
Spent(j) == job[j].status = "SENT" /\ \A w \in Workers : claimed[w].id # j
SecretsAreSpent ==
  \A j \in Secrets, n \in 0..(1 + MaxExcuses) :
    [](Spent(j) /\ accepted[j] = n => [](accepted[j] = n))

\* Every queued mail is finally sent, failed or cancelled, unless a worker died with it: nothing
\* takes up a job left PROCESSING.
Settled(j) == job[j].status \in {"SENT", "FAILED", "CANCELLED"}
JobsFinish == \A j \in Jobs : Waiting(j) ~> Settled(j) \/ j \in dropped

\* Claimed by the documentation: disabling the subscription cancels the mails that are pending, so
\* none is waiting to be sent once the request has been answered.
DisabledMeansQuiet ==
  sub = "off" /\ handler = "answered" => \A j \in Days : ~Waiting(j)
=============================================================================
