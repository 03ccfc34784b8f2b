# TLA+ models of classing_backend

This directory is a verification development for the Go backend of *classing*:
TLA+ modules for the parts of the server whose correctness depends on the order
in which concurrent requests, workers and crashes meet, TLC configurations that
check them on small instances, and TLAPS proofs of their main properties for
every instance.  Paths below are relative to `src/`.

Contents: [1 The system](#1-the-system) - [2 Plan](#2-plan) -
[3 Modules](#3-modules) - [4 Runs](#4-runs) - [5 Fairness](#5-fairness) -
[6 Proofs](#6-proofs) - [7 Disagreements found](#7-disagreements-found) -
[8 Limits](#8-limits) - [9 Running it](#9-running-it)


## 1 The system

One Go program, `cmd/server`, serves an HTTP API (`internal/httpapi`) over a
relational store (`internal/store`, PostgreSQL or SQLite) and runs one mail
worker (`internal/worker`).  Several server processes may share one PostgreSQL
database.  Handlers run concurrently, one goroutine per request; everything
they share is rows in the database, apart from three small maps in memory (rate
limiter, login failures, refresh replay cache).  So components interact through
tables, and what makes them hard is the atomicity of SQL statements and
transactions at READ COMMITTED:

* a statement sees what is committed when it starts;
* `UPDATE` and `SELECT ... FOR UPDATE` lock rows one at a time, wait, and look
  at each row's `WHERE` clause again once they have the lock;
* what two `SELECT`s of one transaction see may differ;
* waiting in a cycle ends with the database aborting one transaction;
* a request's context ends when its client goes away, and the deferred
  `Rollback` runs.

On SQLite the pool has a single connection, so transactions do not overlap:
its executions are among those modelled.

| Component | State | Operations | What is hard | What makes it correct |
|---|---|---|---|---|
| **Account administration** (`store/users.go`, `handlers_admin.go`, `handlers_account.go`) | `users.role`, `users.status` | registration, verification, AdminUpdateUser, AdminDeleteUser, DeleteAccount | several requests take administrators away at once; locks are taken in different orders | an active administrator is always left; every request is answered |
| **Sessions** (`store/users.go`, `handlers_auth.go`) | `auth_sessions`, `refresh_tokens` | login, refresh with reuse detection, logout, revoke-all by password, email or status change | rotation against revocation; login against password change; opposite lock orders | a token is spent once; an ended session never comes back |
| **Refresh replay cache** (`refresh_replay.go`) | map of recent answers | join, rotate, complete, expire, invalidateUser | a rotation in flight while its user is invalidated; retries after the answer is forgotten | retries get one answer and do not end the session; none after revocation |
| **Mail queue and worker** (`store/briefings.go`, `worker/worker.go`, `handlers_briefings.go`) | `briefing_subscriptions`, `briefing_jobs` | subscribe, disable, delete, schedule, claim, send, fail, complete, administrator's retry | several workers; crashes after sending; cancellation while a worker acts; duplicate mails | copies are accounted for; every mail comes to an end; secrets are used up |
| **Mailbox pool and quotas** (`store/briefings.go`, `worker/worker.go`) | `mailboxes`: counts, their date, quota | acquire, release, reset; create, update, delete | workers with different dates; locks that are skipped; places given back after the reset, or although the mail was accepted | mails accepted within the daily quota, up to named exceptions |
| **Cloud document** (`store/cloud.go`, `handlers_cloud.go`) | `cloud_documents`, `idempotency_keys` | GET, PUT with If-Match and Idempotency-Key, merge for non-members, server's commands, cleanup | resent and concurrent puts; merge before the transaction; membership changing meanwhile | no lost update; each put written once; the timetable is kept |
| **Cloud and runtime events** (`store/events.go`, `handlers_cloud.go`) | event rows, version numbers | append, poll, cleanup | resumption with a position that is ahead | every change is seen |
| **One-time codes** (`store/users.go`, `handlers_auth.go`, `handlers_account.go`) | `email_verification_challenges`, `email_change_requests`, `password_reset_tokens` | request, replace, withdraw, attempt, consume, expire, clean up | increments lost; a code used while it is replaced, locked or withdrawn | a code is accepted once; a replaced one is over; wrong codes are limited |
| **Device authorization** (`store/device_authorizations.go`) | `device_authorizations` | start, approve, poll | two polls, two approvals at once | one session, of the account that approved |
| **Membership, redeem codes** (`store/membership.go`) | `memberships`, `redeem_codes`, redemptions | redeem, grant, revoke | uses left for one of several; extensions computed from stale reads | no use beyond the limit; no extension lost |
| **AI quota and requests** (`store/ai.go`, `handlers_ai.go`) | usage per month, credits, requests, questions | start, replay, settle, finish, delete, grant | check before reserve; a crash or cancellation after it; repeated ids; month's end; several calls in one conversation | every answer charged once and in full; reservations given back once |
| **Timetable projects** (`store/timetables.go`) | versioned rows | create, update, delete | delete against update | no lost update |
| **Briefing contents** (`worker/briefing.go`) | none | lessons of a day from a document | week arithmetic at the turn of year and before the semester; exceptions in the order of the document | weeks follow each other; every lesson on the list, and every one missing, has its reason |
| **Releases, storage audit** (`store/releases.go`, `handlers_releases.go`, `cmd/storage-audit`) | rows, files, files in quarantine | upload, publish, delete, audit | file and row change at different times; audit against upload; crash between | a listed release has its file; no artifact is lost before its row; no file without a reason |
| **Rate limiting** (`middleware.go`, `handlers_auth.go`) | windows in memory | count, look, reset, sweep, evict | looked at before and written after the password is verified; eviction at the limit of entries | the maps are bounded; guesses are, up to the requests at the same time |
| **AI provider, web console, SMTP servers** | external | | success, failure, lost answers | |
| **Settings, audit log, statistics, migrations, configuration, tokens and hashes** | rows; none | single statements or start-up | nothing of their own | |

Interactions.  Account administration, password and email changes, resets and
deletion all end the account's sessions in the same transaction.  One-time codes
and test mails are delivered through the mail queue, as rows with a secret
payload.  Briefing contents come from the cloud document, or from a timetable
project where there is none; test commands of the application are written into it.  Membership decides what of the cloud document
is sent and accepted.  The device authorization opens sessions.  The worker
cleans up expired keys, codes, tokens and authorizations.

The hazards, each at its line, are in `PROJECT.json`.


## 2 Plan

Ordered by what would hurt most if it went wrong.

| Step | Modules | Abstract specification | Main questions | State |
|---|---|---|---|---|
| 1 | `AccountRegistry`, `AdminGuard` | `AccountRegistry`: atomic operations | last administrator; deadlocks | done, proved |
| 2 | `SessionLifecycle`, `AuthSessions` | `SessionLifecycle`: new, alive, over | double spending; sessions that come back | done, proved |
| 3 | `BriefingDelivery` | `MailCopies`: copies queued, sent, lost | duplicates, lost mails, secrets | done, safety proved |
| 4 | `CloudDocument` | each edit written once and kept | lost updates, resent puts, merge | done, proved |
| 5 | `OneTimeCodes`: registration, email change, reset and device authorization, in four tables of one shape | accepted once, then over | races for a code, replacement, approvals, attempts beyond the limit | done, proved |
| 6 | `AIQuota`: start, settle, finish, deletions, grants, months | the sums of what was charged, reserved and granted | leaked and misplaced reservations, repeated requests, questions left pending | done, proved |
| 7 | `Memberships`: codes, redemptions, grants | a code's uses are its redemptions | limit of uses, lost extensions | done, proved |
| 8 | `MailboxPool`, beside the queue of step 3 | mails accepted, by date | limit per day across midnight, skipped locks | done, proved |
| 9 | `RefreshReplay`, in front of the rotation of step 2 | one answer per token and client | answers after revocation, retries taken for reuse | done, proved |
| 10 | `ReleaseStorage`: files and rows, audit | listed implies stored | crash between file and row, audit against upload | done, proved |
| 11 | `LoginLimiter` | a map of bounded size | eviction, concurrent guesses | done, proved |
| 12 | `BriefingCalendar`, `BriefingDigest` | weeks that follow each other; a reason for each lesson | boundaries of the calendar, order of exceptions | done, proved |
| 13 | timetable projects, cloud events | compare-and-set; every change is seen | resumption ahead of the document | open, see section 8 |

All modules keep bounds and identities as constants with named assumptions, have
one action per operation, and no recursive operators.


## 3 Modules

Each component has its module, an `MC` module that gives constants their
values, and a `Proofs` module with its theorems.  Small components that share
nothing have one `MC` module together (`MCEntitlements`, `MCServer`): its variable
`part` says which of them is explored, while the others rest in their initial
states.  `ServerProofs` holds the theorems of the five components of `MCServer`, and
`MembershipsProofs` those of `Memberships`; both extend the `MC` module, for the theorem that
the parts keep their invariants together.  `PROJECT.json` maps every definition to the lines it stands for.

### AccountRegistry and AdminGuard

`AccountRegistry` says what the administration promises: roles and statuses
change one account at a time, in one step, and never take the last active
administrator away.  `AdminGuard` models the transactions of `AdminUpdateUser`
and `deleteAccount`: the request is admitted by middleware and handler
(`Begin`), the target's row is locked and read (`LockTarget`), the permission
is checked on that row, active administrators are selected for update in the
order of ids, each lock waited for and each row looked at again (`StartCount`,
`LockCounted`), the others counted (`EndCount`), and the row written and the
locks released (`Commit`).  Every early return is `Refuse`; a request cancelled
by its client `Cancel`; the victim of a deadlock `Abort`.  The requester is
abstracted to whether it is the target itself; that it may lose its own role
while its request runs is part of the model, since nothing looks at it again.

| Variable | Code |
|---|---|
| `role`, `status` | columns of `users`; `ABSENT` is no row |
| `cur` | `current` in `AdminUpdateUser` and `deleteAccount` |
| `todo`, `found` | the rows `activeAdminIDs` has yet to lock, has returned |
| `owner` | who holds each row's lock (database) |

### SessionLifecycle and AuthSessions

The sessions and tokens of one account.  `AuthSessions` models
`CreateRefreshToken`, `RotateRefreshTokenSession`, `RevokeSession` and the
operations that revoke everything, statement by statement.  Tokens are live or
revoked, sessions active or revoked; expiry of a row is not told apart from
revocation, being checked in the same places.  Locks are sets of rows held per
transaction.  The account's row has three modes, because the foreign key of an
inserted session or token takes `KEY SHARE`, which waits for
`SELECT ... FOR UPDATE` and for an `UPDATE` of the unique email, but not for
that of the password.  Writes of a transaction appear at its commit.

The history variables record what properties speak of: `opened` (the password
a login had verified), `ended` (sessions that a committed revocation was to
end), `told` (sessions whose logout was answered).

`SessionLifecycle` is what remains for the owner: a session is opened once, is
alive while it can be refreshed, and never comes back.  The mapping takes
a session to `alive` when its row is active and it has a live token.

### BriefingDelivery and MailCopies

One account's subscription, its formal briefings (one per day), test mails and
mails with a secret, and any number of workers.  The two statements of
disabling (`Disable`, `CancelWaiting`) are separate actions, as are listing due
subscriptions (`ListDue`) and inserting the job of one (`Schedule`).  `Claim`
is one action, being one transaction with `FOR UPDATE SKIP LOCKED`.  An attempt
acquires a mailbox, sends, and completes, moves on to the next mailbox or
fails, as `classifyMailError` has it; `Fail` decides with the `retry_count` read
at the claim and writes whatever the status has become.  `Crash` stands for
the death of the process and for a failure of the statement that was to record
the outcome.  A mail's text is left out; whether its secret is still there is
kept.  A mailbox is found or not: the counts behind it
are in `MailboxPool`.

`MailCopies` is the promise, with neither rows nor workers: a bookkeeper who queues a mail
once with one copy to come, counts copies down as they are sent, and may lose
them.  The mapping takes `queued` to the jobs with a row, `toCome` to the copies a mail still
has before it (one if it waits, and one for each worker that has claimed it and not had it
accepted yet), `sent` to what servers accepted and `excused` to the administrator's retries and
broken sessions.  Claims, failures, crashes and cancellations must then be steps that move
or lose copies.

### CloudDocument

One account's document, as the set of edits it contains: in the settings (with
the server's commands), in the list of their changes, and in the timetable.
`Pull` is `getCloudDocument`, `PutArrives` to `Conflict` are `putCloudDocument`
with the merge for non-members and the two look-ups of the key, the others
`enqueueAppBriefingTestCommand`, which reads, adds and calls
`PutCloudDocument` up to four times.  A client may send its put any number of
times, also at the same time, and its membership may change at any time.
`Pull` treats GET's reads of membership and document as one.  Clients add edits
and remove none, so that a missing edit is a lost one.

`blind` is true once a command has replaced a document that it had not read:
`PutCloudDocument` compares nothing when no version is expected.  `NoLostEdit`
excuses that write, and nothing else.

### OneTimeCodes

Everything that is handed out to be used once: registration codes, codes for a
change of email, reset tokens, and the QR login of a watch.  Their tables have
one shape, so one set of rows serves for all, divided by the constants
`Registrations`, `Changes`, `Resets` and `Devices`; where the tables differ
the actions say so.  A request for a code is three statements and a commit
(`RequestCode`, `PassGate`, `Supersede`, `Insert`), then the mail (`Mail`,
`MailFails`, which takes the code back).  A code is presented in two steps:
its row is read and judged (`PresentRight`, `PresentWrong`, `Poll`, `Approve`),
and the row written where nobody has used it meanwhile (`Grant`,
`CommitApproval`, else `Refuse`) or with the count read plus one (`Fail`).

| Variable | Code |
|---|---|
| `code` | the row: none, open, approved (`approved_at`), closed (`used_at`, `consumed_at`), deleted |
| `age` | younger than 60 seconds, valid, past `expires_at` |
| `failures`, `holder` | `failed_attempts`, `user_id` |
| `pc`, `work` | where a handler is, and its locals |

A row's lock is held from a transaction's first write to its commit; a handler
writes the row it is about once, so write and commit are one step, whose
condition is that of the `UPDATE` as PostgreSQL evaluates it with the lock.
`ToSupersede` is different: which rows that `UPDATE` finds is settled when it
starts, and `Insert` looks at each of them again.  History variables record
which codes were accepted, how many wrong ones were refused (`wrong`), who was
told to have approved a watch (`told`), to whom it was logged in (`given`), and
which codes a newer one was to replace (`retired`).

### AIQuota

The calls of one account to `aiChat`.  A call reserves points (`Admit` reads,
`Create` writes: a transaction is split where it reads and where it writes and
commits), has the provider answer (`ProviderAnswers`, `ProviderFails`), charges
what the answer cost (`Settle`, `Charge`, `RollBackCharge` when the credits are
gone meanwhile) and stores it or its failure (`Finish`).  `Abandon` is a client
that goes before the answer is complete, with which `FinishAIRequest` fails too.
`Replay` answers a repeated `client_request_id` from the row, `Refuse` and
`RefuseLate` end with an error.  Conversations are deleted, months end, credits
are granted, modes, the switch, the default limit and the membership change at any time between.

| Variable | Code |
|---|---|
| `month` | `aiPeriod()` |
| `rowed`, `used`, `reserved` | `ai_usage_monthly` |
| `request`, `counted` | `ai_requests.status`, `quota_counted` |
| `question` | status of the question's row in `ai_messages` |
| `at`, `local` | where a call is, and its locals |

Texts and models are left out: a call has an estimate and a cost.  History:
`bill` (how a call was charged), `freed` (in which month its reservation was given
back), `answered`, `granted`.

### Memberships

Codes, the memberships they prolong, and administrators' grants.  A redemption is
split where others can come between: `StartRedeem` (the code's row is read and
judged), `CountUse` (the `UPDATE` with its condition, which locks the row),
`ReadMembership` (without a lock), `CommitRedeem`; `RollBackRedeem` when the
account has redeemed the code before.  A grant reads the end before its transaction
(`StartGrant`) and writes what it has computed (`CommitGrant`).  Time is days; an
`expires_at` is the day it falls on.  History: `prolonged` (how often an end was
prolonged since it was last set), `overtaken` (accounts of which an end computed from an
older one was written).

### RefreshReplay

The cache in front of `refresh`, for one session and several clients (an address
and a User-Agent).  `do` sweeps the map and waits for the entry that is there (`Join`)
or makes one (`StartRotation`); `ReadToken` to `FailRotation` are the rotation, whose rows
change as in `AuthSessions`, `Complete` is what follows it, `Hear` and `LeaveWait` the two
ways a waiting request ends.  `Revoke` ends the session in the tables and
`EmptyCache` drops the entries of the account afterwards, as every handler that revokes
does; `LogoutElsewhere` drops them without ending this session; `Restart` loses the
map.  An entry expires at any time once it is complete.  A request whose rotation was committed
may fail afterwards (`undone`).

### LoginLimiter

The two limiters of `login`: requests by address, counted by the middleware, and wrong
passwords by identifier, looked at before the password is verified (`Visit`) and
written after it (`FailLogin`, `Succeed`).  A window is a start and a count.
`WithRoom` is `ensureCapacity`: a full map is swept, then the oldest entries go
until three quarters are left; which of two equally old ones goes is open, as the map's
order is.  The other limiters are the same code with other limits.

### ReleaseStorage

Rows of `app_releases`, files in the storage directory, and files under quarantine
names.  Uploads (`StartUpload` to `LeaveDraft`), publication, which verifies and then
writes (`VerifyForPublish`, `Publish`), deletion (`StartDelete`, `Isolate`,
`DeleteRow`, `RestoreArtifact`, `FailRestore`, `RemoveQuarantined`), and
`cmd/storage-audit -delete-orphans` (`ListRows`, `ReadDirectory`, `LookAt`,
`FinishAudit`), a process of its own.  `CrashServer` ends all requests wherever they
are; files and rows stay.  A failed `DeleteRow` may have deleted the row all the same,
when only its answer was lost.  History: `interrupted`, `torn`, `pending` and `swept`
name the ways a row and a file come apart.

### MailboxPool

`AcquireMailboxExcluding` and `ReleaseMailboxReservation`, and the loop of
`deliverOne` around them.  A reservation is one transaction of three statements:
`StartReset` takes the rows that have another date (found when the `UPDATE` starts, and
looked at again under the lock: `ResetDates`), `SelectMailbox` locks every
mailbox with quota left that nobody else has locked and uses the one least used,
`Reserve` counts and commits.  `FailReservation` is an error in between, or the lost answer to
the commit, after which the place stays taken.  `SendMail` and `QuitFails` are the two ends of
an attempt whose mail the server accepted, `FailAttempt` that of any other; after the last two
`Release` gives the place back, where the date is still the same.  A worker takes its date once, at
the beginning of a delivery (`StartDelivery`), and `Midnight` may come at any time.  History, of
each mailbox and date that deliveries begin on: `accepted` (mails), `limit` (the quota in force when the
last place was taken), `unheard` (mails accepted and taken for failed), `uncounted` (places that
the row counts for no or another date); and `turned`, the latest date a mailbox's counts were reset from
to an earlier one.  The others are kept for the dates after it.

### BriefingCalendar and BriefingDigest

`BriefingCalendar` is the arithmetic of `weekIndex`, on day numbers, with Go's
division towards zero.  Its behaviours are the days one after the other, since what
matters is how the numbers of neighbouring days relate.  `BriefingDigest` is
`lessonsForDate`: the lessons held (`StartDigest`), one step per exception
(`ApplyException`), the final sort (`FinishDigest`).  The list is a function from places: a
lesson held stands at its place in the timetable, one that an exception adds behind all there were,
and a place that is given up stays free.  So what is removed is a domain, what is
appended one more place, and the sort moves each lesson behind all that precede it
(`Rank`); the order is that of the code's slice.  Which exceptions a date has and in which order is
open: documents are merged by clients.  (Exceptions of another type than the three do nothing
and are left out.)  Lessons have an id, a title (a number; 0 is the empty one, and `Blank` is one of
nothing but spaces, which `normalizeLesson` trims), minutes, and what `startTime` and `endTime`
say (`opens`, `closes`), taken again whenever a minute is 0; teacher, place and note follow the title.  The history
`applied` is the sequence of exceptions so far.


## 4 Runs

| Run | Expect | Instance | What it shows |
|---|---|---|---|
| `admin_guard` | pass, 18,000 states | 2 accounts, 2 requests | two administrators remove each other or themselves, locking rows in opposite orders: safety, refinement, and that every request is answered |
| `sessions` | pass, 170,000 states | 2 sessions, 3 tokens, 2 requests, 1 password change | a session with a token and its successor, next to another session; every pair of operations overlaps |
| `session_logout` | violation | the same | a logout answered with success, its session alive |
| `session_password` | violation | the same | a session opened with the password of before |
| `briefing` | pass, 89,000 states | 2 workers, in one of three scenarios: 2 days; 1 day with an administrator's retry and a broken QUIT; a mail with a secret | two workers on one mail, and on the next day's; copies; liveness; what happens to the secret |
| `briefing_disabled` | violation | 2 workers, 1 day | a briefing waits although the subscription is off |
| `cloud` | pass, 665,000 states | 2 edits, 1 command, 2 handlers, 2 membership changes, 1 expired key | any two requests overlap: two clients', one sent twice, a command |
| `cloud_redeem` | violation | 2 edits, 1 handler | a member's put erases the timetable |
| `codes` | pass, 240,000 states | 2 registration codes, 1 email change, 1 reset, 1 watch, of which 2 are issued; 2 accounts, 2 handlers, cap 1 | any two requests about one code, or about a code and its replacement, overlap; two accounts approve one watch |
| `code_attempts` | violation | 2 registration codes, of which 1 is issued, 2 handlers, cap 2 | a code is open after as many wrong ones as its cap |
| `entitlements` | pass, 475,000 states | 3 calls, 2 of them with one id, in one conversation, 2 months; or 2 accounts, 1 code, 2 requests, 2 days | charges, reservations and questions; uses and extensions |
| `server` | pass, 783,000 states | one of: 3 refreshes of 2 clients, 2 tokens; 2 logins, 3 identifiers; 2 releases, 2 administrators, the audit; 2 mailboxes, 2 workers, 2 dates; a briefing on every day of 2024 to 2029 | the small components, each with the others at rest |

Bounds.  `MaxPassword`, `MaxDay`, `MaxRetries`, `MaxMailboxes`, `MaxExcuses`,
`MaxTries`, `MaxFlips`, `MaxExpiry`, `MaxAttempts`, `MaxIssued`, `MaxMonth`, `MaxChanges`,
`MaxPoints`, `LastDay`, `LastEnd`, `MaxUses`, `MaxTokens`, `LastTick`, `MaxVisits`, `LastDate`,
`FirstYear`, `LastYear`, `MaxExceptions` and the number of sessions and tokens are those of the
modules, all constants; `MCBriefing`, `MCEntitlements` and `MCServer` add the ones named below.  Retries and tries are smaller than the
code's 4: each counter is compared in one place, and with one the cases "goes
on" and "gives up" both happen.  `MaxAttempts` is 1, and 2 where attempts are
counted, instead of 10: it is compared in two places, and a count that is lost
is lost at any cap.  `MaxIssued` bounds the codes ever issued: one that exists and one
that replaces it, or two that race.  A second edit, day or session is there so that
something can go wrong *between* two of them; a third would only repeat it.  Beyond
the instances, the proofs hold for any number of all of these.

`entitlements`: of the three calls two are under way at a time (`Few`); one question,
the same sent again, and another of the same conversation.  An answer
costs 3, more than the month's 2 or 1, so that it is shared with the credits, which may be gone.
One thing that administrators change is enough to come between a check and a charge.  In
the other part one grant is under way at a time (`NoGrant`) and ends are set
to nothing or to the last day; two redemptions, or a redemption and a grant, overlap.

`server`: two tokens are one rotation and a retry after it; a third request is
needed to wait for a second one's entry.  The limiters' maps hold two entries, so
that a third identifier evicts one, in windows of two of four ticks.  Mailboxes are created
before any place is taken (`Beginning`), the first one also between the two statements of a
reservation (`Reserving`), and changed on the first day, to quotas of one and two.  A second one is needed for
a worker to go on to the next, or to find everything locked; while there are two, each has a quota of one,
neither is changed, no worker dies or loses an answer while it has a place (`OnlyOne`, `Changes`, `Losing`), and QUIT does not fail.  With one
it fails once (`AllHeard`), which is enough to exceed a quota.  The briefing is explored on each day from
1 January 2024 to 31 December 2029, with each of the seven days weeks may begin on, by
semester and by year: this has 1 January at all its distances from the beginning
of a week, years of both lengths, and years of 52 and of 53 weeks.  Digests
are made on the first 12 days with weeks from Monday (`Listing`), from up to 3 of 8 exceptions, one of which calls a lesson
by the name of those that have none, and one by spaces only.

The condition `RowMatches`, looked at again under the lock, can only fail with a third
account: with two, whoever would change the second waits for the first.  Liveness
with three accounts takes too long; for them the safety of `AdminGuard`
rests on its proof.

Symmetry is used for requests, sessions, tokens, edits, codes, handlers, workers, members,
releases, administrators and mailboxes, which the modules compare for equality only, and in safety
runs only.  In `server` releases share their names with mailboxes, and administrators with
workers, so that two pairs of names make all the symmetry; only one part moves at a time.  In AdminGuard account
ids are not symmetric, since locks are taken in their order.

Deadlock is checked in every run but `entitlements` and `server`, whose behaviours end
when months, ticks, dates or requests are used up: each request there is handled once.

Properties and what they are about:

* `SomeActiveAdmin`: whatever is done at the same time, an active
  administrator is left.  `ImplementsRegistry`: the
  transactions implement the atomic operations.  `RequestsAreAnswered`.
* `OneLiveToken`: no session has two tokens that can be spent.  `EndedForGood`:
  what a committed revocation was to end is never usable again, although a
  rotation was in flight.  `ImplementsLifecycle`.
* `CopiesExplained`: a mail is accepted once, and once more at most for each
  administrator's retry and each session broken after acceptance.
  `ImplementsCopies`: the queue implements `MailCopies`, so that no step makes a copy but a new
  mail or an administrator's retry; a claim that also took failed jobs would break it, and not
  `CopiesExplained` in this instance.  `SecretsAreSpent`: a secret recorded as sent is not sent again.
  `JobsFinish`: every mail is sent, failed or cancelled unless a worker died
  with it.
* `AppliedOnce`, `NoLostEdit`: a put is written once, and then stays.
  `AcknowledgedIsWritten`: what a client was told to be saved was written, whether it is the
  answer of the write or one given again for its key.
  `TimetableKept`: a non-member's put, merged with what was read *before* the
  transaction, undoes nobody's timetable.
* `AcceptedOnce`: a code is accepted once, never after it is over, and nothing
  opens it again.  `OlderCodesAreOver`: a code that was unused when a newer one
  was asked for is over once that is issued, although it may have been
  used, locked or deleted between the three statements.  (Two requests *at the same
  time* may each issue a code; neither is older.)  `ApprovalHolds`: who
  was told to have approved a watch, and to whom it was logged in, is its holder.
* `ChargedInFull`: usage and credits are the sums of what answers cost.
  `ReservationsHeld`: the points reserved in a month are those of its calls under way or given up
  on, short at most of those that calls of an earlier month have taken from it.  `ChargedOnce`:
  calls with one `client_request_id` are charged once, unless a conversation was deleted.
  `QuestionsSettled`: a request that has ended leaves no question pending.
* `UsesAreRedemptions`: a code is redeemed as often as it was counted, within its limit.
  `ExtensionsAddUp`: each extension counts in full, unless another write overtook it.
* `ReuseExplained`: a client that repeats its refresh does not end its session, unless the answer was
  lost, too old or dropped.  `NoSessionAfterRevocation`: after a revocation only
  rotations committed before it are answered with a session.
* `GuessesBounded`: concurrent logins try fewer passwords than the limit and their number.
* `ListedMeansThere`, `ArtifactKept`, `NoStrayFiles`: rows and files agree up to the
  exceptions these name.  `SweptWhileUploading`: the audit removes a listed release's file only
  if the row came after it had listed the rows.
* `QuotaKept`: no more mails are accepted through a mailbox, for the deliveries begun on a date, than
  the quota in force when its last place was taken, but for those that the code loses
  count of: mails accepted before QUIT failed (`unheard`), places counted for no or another date
  (`uncounted`), and anything on the dates its counts were reset back from, or before (`turned`).  Section 7
  says how they come about.
* `WeekAdvances`: the number of the week goes up by one with each week, and returns to one with
  the week of 4 January.  `DigestExplained`: every lesson is on the list as often as the timetable and
  the exceptions say, and by its name, unless an exception without one added it when there was no
  other to take it from, or the document itself calls it like those.
* `GuardInv`, `SessionInv`, `QueueInv`, `DocumentInv`, `CodesInv`, `EntitlementsInv`, `ServerInv`: the
  inductive invariants of the proofs, each with the module's type invariant; the last two are
  those of all parts of the run, explored or at rest.  They contain `DecidesOnCurrentRow` (what a
  transaction has read of its target stays true until it commits), `CallsKnown` (an id is that of one
  request, and a call is charged after it was inserted and before it is answered) and
  `MapsBounded` (the limiters' maps keep their bound).


## 5 Fairness

Safety needs none.  `RequestsAreAnswered` assumes that a handler that can go on
does, that waiters for a row lock are served in turn (PostgreSQL queues them),
which is strong fairness of a request's steps, and that deadlock detection goes
on (weak fairness of `Abort`).  Nothing is assumed of clients.

`JobsFinish` assumes that a worker's loop goes on (weak fairness of scheduling
and delivering; a worker is a single goroutine on a ticker, and restarts with its
process), that the delay of a retry ends, and that a waiting mail is claimed if
it can be again and again: `ClaimBriefingJob` orders by `scheduled_at`, so the
oldest comes first, and each retry comes back later.  A crash is never forced
nor excluded.  `MCBriefing` restates this fairness with its scenario, which no step changes.


## 6 Proofs

| Module | Theorem | Statement |
|---|---|---|
| `AdminGuardProofs` | `GuardInvariant`, `NeverWithoutAdmin`, `NoStaleDecision`, `Refinement` | `[]GuardInv`, `[]SomeActiveAdmin`, `[]DecidesOnCurrentRow`, `Spec => Registry!RegistrySpec` |
| `AuthSessionsProofs` | `SessionInvariant`, `NeverTwoTokens`, `NoSessionComesBack`, `LifecycleRefinement` | `[]SessionInv`, `[]OneLiveToken`, `[]EndedForGood`, `Spec => Lifecycle!LifecycleSpec` |
| `BriefingDeliveryProofs` | `QueueInvariant`, `EveryCopyExplained`, `SecretsStaySpent`, `CopiesRefinement` | `[]QueueInv`, `[]CopiesExplained`, `SecretsAreSpent`, `Spec => Copies!CopiesSpec` |
| `CloudDocumentProofs` | `DocumentInvariant`, `WrittenOnce`, `EditsSurvive`, `AcknowledgedEditsWritten`, `OnlyMembersChangeTimetable` | `[]DocumentInv`, `[]AppliedOnce`, `[]NoLostEdit`, `[]AcknowledgedIsWritten`, the action property `TimetableKept` |
| `OneTimeCodesProofs` | `CodesInvariant`, `OlderAreOver`, `ApprovalsHold`, `CodesAcceptedOnce` | `[]CodesInv`, `[]OlderCodesAreOver`, `[]ApprovalHolds`, the action property `AcceptedOnce` |
| `MembershipsProofs` | `MembershipsInvariant`, `CodesRedeemedWithinLimit`, `ExtensionsCountInFull` | `[]MembershipsInv`, `[]UsesAreRedemptions`, `[]ExtensionsAddUp` |
| | `EntitlementsInvariant` | `MCSpec => []EntitlementsInv` (with `Memberships` and `AIQuota`) |
| `AIQuotaProofs` | `AIInvariant`, `CallsAreKnown`, `EachAnswerChargedInFull`, `ReservationsAreHeld`, `SameQuestionChargedOnce`, `NoQuestionLeftPending` | `[]AIInv` and each of its parts |
| `ServerProofs` | `ReplayInvariant`, `NoRetryEndsASession`, `RevocationReachesTheCache` | `[]ReplayInv`, `[]ReuseExplained`, the action property `NoSessionAfterRevocation` |
| | `LimiterInvariant`, `LimiterMapsBounded`, `GuessingIsBounded` | `[]LimiterInv`, `[]MapsBounded`, `[]GuessesBounded` |
| | `ReleasesInvariant`, `ListedReleasesAreThere`, `ArtifactsAreKept`, `StrayFilesExplained`, `AuditSweepsOrphansOnly` | `[]ReleasesInv` and its parts, the action property `SweptWhileUploading` |
| | `PoolInvariant`, `DailyQuotaKept` | `[]PoolInv`, `[]QuotaKept` |
| | `WeeksFollowEachOther` | the action property `WeekAdvances` |
| | `DigestInvariant`, `BriefingsExplained` | `[]DigestInv`, `[]DigestExplained` |
| | `ServerInvariant` | `MCSpec => []ServerInv` |

Assumptions are those on constants: account ids are naturals, identities of
different kinds differ, bounds, quotas and points are naturals (positive where the code checks
it), and what is counted by `Cardinality` is finite: the workers of the mail queue, the calls of
`AIQuota`, the accounts of `Memberships`, the logins of `LoginLimiter`, the workers of `MailboxPool`.
All other sets may be infinite.  `BriefingCalendar` is proved from the year 2 on, for dates
that semesters start at of any set.  A timetable may be any finite sequence of lessons, and exceptions may
say anything of the three types; that `Unnamed` is neither empty nor blank is the code's constant.

*AdminGuard.*  `SomeActiveAdmin` is not inductive: nothing in it forbids two
transactions about to demote each other.  `RemainingIsHeld` does: a
transaction about to write holds the lock of another active administrator,
whose row can therefore not be written by anybody else.  It follows from what
was found under lock (`LocksAreLive`) once the target is taken off, and the
refusals depend on `cur` being the current row (`DecidesOnCurrentRow`).  The
same facts give the refinement: `Commit` is `Assign`, everything else stutters.

*AuthSessions.*  A revocation that has started with the sessions has each of
those it must end revoked, in its hands or on its list (`RevocationCovers`),
and none can get back to active, since rotation touches only `expires_at`.
`LiveTokenIsAlone` holds because a rotation holds the token it spends
(`HoldsByPlace`, `LocksExclude`, `HeldAreUnrevoked`) until its successor
appears, and identities are fresh (`DrawnAreFresh`).

*BriefingDelivery.*  For each mail, copies accepted plus copies to come (workers
on it, and one if it waits in the queue) are at most one more than the excuses
(`CopiesBounded`).  A claim moves a copy from the queue to a worker; a
failure back; an administrator's retry adds one and an excuse.  The worker that
writes `RETRY` over a `SENT` of another is covered, because both were
there as an excuse before.

The same counts give the refinement: every step of a worker moves a copy, loses it or
has it accepted (`CopiesOfClaim`, `CopiesOfDone`, `CopiesOfAccept`, `LosingCopies`), each of
them `Send`, `SendUnnoticed`, `Lose` or a stutter of `MailCopies`.  The only lemma about sets behind it
is that one worker more or less with a mail is one copy more or less (`CopiesAreCounted`).

A spent secret stays out of reach: once a mail is `SENT` and nobody has it in hand, its row
holds no secret (`SentCleared`), an administrator's retry of it fails before anything is
sent, and only the insertion of a row that was not there brings a secret (`RowsOfStep`).  Being out of
reach (`OutOfReach`) is stable, and the
count of accepted copies is so while it holds; the property nests two temporal operators, each
of which is one such stability.

*CloudDocument.*  Everything a handler or client has read at a version is as
old as that version and equal to what is stored while the version is current
(`ReadsAreOld`, `DraftIsOld`); an edit that was written was drafted from a
version that has passed (`WrittenHavePassed`), which is why it is not
written again even when its key has expired: If-Match protects it.

*OneTimeCodes.*  What every step does to a row is stated once (`Advances`): it is
never unknown again, stays over, and keeps its account once it is settled.
Handlers that do not move then keep what they know (`HandlerFits`), in particular
that the account a poll has read is the holder.  A code to be replaced is on
the list of the `UPDATE` or over already (`BeforeCovered`).  Nobody was
told and no session given while a watch is open (`RowTells`), so that the
approval that is written is the only one.

*AIQuota.*  Sums over calls are cardinalities of pairs of a call and a point
(`Points`), so that they need no recursion; a step that charges one call adds its pairs, and
finite set theory does the rest.  What makes charges and reservations add up is where a
call is: `CallFits` says that one that is not at `complete` or over has not been
charged nor given anything back, although its row may have been deleted.

*Memberships.*  Between the counting and the commit a redemption holds the
code's row, and there were uses left when it took it (`RedeemersFit`); so uses and
redemptions change together.  What is to be written is at least the end it was computed from;
if that is no longer stored, the account is `overtaken`.

*RefreshReplay.*  An entry is running exactly while its request rotates, and running and
complete ones are in the table (`EntriesFit`); a token that was replaced was rotated by a request
that asked with it (`TokensFit`).  Hence a second rotation of a client with the same token finds
no entry only when the first one is expired, dropped or lost.  After a revocation nothing is live, so
that no rotation commits, and what was committed is in `missed` or was dropped (`AnswersFit`).

*LoginLimiter.*  The bound of the maps holds because the sweep and the eviction leave one
place at least; `MapsBounded` says two for a bound of one, where "three quarters, at least one"
leaves none.  Guesses are what was counted plus what is being verified, and a login is only let
through below the limit.

*ReleaseStorage.*  Who may move a file: an upload that has not inserted its row, or the
deletion that holds it in quarantine, which excludes any other (`AdminsFit`); and
every row the audit did not list is in `pending` (`AuditFits`).

*MailboxPool.*  A reservation has locked what it is about to write, and read it under the lock
(`ReservationFits`), so that the count it raises is the stored one and below the quota;
outside a transaction a worker has no lock.  `QuotaKept` alone is not inductive: a mail underway is not
yet accepted.  So `CountsFit` has them both: on a date after `turned`, mails accepted and deliveries
underway (`Underway`) are no more than what the row counts, `unheard` and `uncounted` together; and the
row's count is within `limit` when it is of that date.  When the date goes on the count
was within `limit` for good; taking a place adds one delivery underway and one to the count, or to
`uncounted`; giving one back ends a delivery underway whose mail was not accepted, or is `unheard`.
Of a delivery that dies the count keeps the place, so that it is a bound and not the number.

*BriefingCalendar.*  A year has 365 or 366 days (`LengthOfYear`), the first week begins within three days of
1 January (`FirstWeek`), and two days of the same weekday less than a week apart
are the same (`SameWeekday`).  So of the three years `weekOfWeekBasedYear` looks at exactly one counts, and the two
formulas for neighbouring days differ by a whole week or not at all.

*BriefingDigest.*  `DigestExplained` is not inductive: how many lessons of an id are listed does not say
which of them the next exception takes for its original.  `ListFits` does, for the loop: the
places of a lesson are those of the timetable, unless one took it off, and those of the exceptions
that last; and one that is gone although none lasts was cancelled, since moving puts it back.
So an exception without a title either finds a lesson whose title is known, or is among
those that `Nameless` names (the first of several, a least place of a set, is there since the
order of naturals is well-founded).  Places are numbers and the sort is a bijection of them: of two lessons
one precedes the other, fewer precede the one that does, and so ranks differ (`RanksDiffer`).  Counting what the sort
left needs no induction over sequences that way.

*The parts together.*  In `MCEntitlements` and `MCServer` a step of one part leaves the variables of the
others alone, and each part's inductive invariant depends on its own variables only.

Only model-checked: `RequestsAreAnswered` and `JobsFinish`, liveness under fairness being
out of the prover's reach, and the five violations, which TLC refutes on an instance.  Every
other property of a run is the statement of a theorem.


## 7 Disagreements found

Each is a run that ends in a counterexample to what the documentation says;
`PROJECT.json` quotes it.

1. `session_logout`: `logout` ignores the error of `RevokeSession` and answers
   success.  Rotation locks token, then session; logout session, then tokens.
   When both overlap PostgreSQL aborts one, and if it is the logout its session
   lives on.
2. `session_password`: a login inserts its session after the password it
   verified was changed and all sessions were revoked.
3. `briefing_disabled`: disabling is two statements; a worker that listed the
   subscription before, or fails a delivery after, leaves a job waiting.
4. `cloud_redeem`: the filtered document carries the ETag of the full one, so
   after a renewed membership it replaces the timetable.
5. `code_attempts`: wrong codes tried at the same time all write the count they
   have read plus one, so that a challenge takes more of them than its cap.

Other disagreements, met while modelling.  The models take the code's side; where a
property has an exception for one of them, it is named.

* The hash kept with an `Idempotency-Key` is that of the *merged* document, so that the same
  put sent again by a non-member may be refused as a reused key
  (`docs/API-官方云同步与同步项目.md:119` promises the first answer).
* A rotation that was committed before a revocation and completes after the cache was emptied is
  cached and answers retries with 200 for five seconds (`missed` in `NoSessionAfterRevocation`);
  `docs/CHANGELOG.md:211` says no cached 200 is sent.  The session it answers with is over.
* A request that waits for another one's rotation gets that one's error, also when it only
  failed because the other client had gone.
* Two extensions of a membership at the same time may count as one (`overtaken` in
  `ExtensionsAddUp`), since the end is read without a lock, although section 3 of
  `docs/API-兑换码与会员状态.md` asks for one atomic transaction.
* `docs/API-Ask-AI.md:6` lets only members call the AI; the code gives everybody
  `FreeMonthlyLimit` points.
* A mailbox may send more than its quota around midnight: a worker that took its date before it, and
  reserves after another one has reset the counts, resets them back (`turned` in
  `QuotaKept`).  The same may happen on any day when the server accepts a mail and QUIT fails
  (`worker/worker.go:308`): the attempt counts as failed, and its place is given back (`:168`; `unheard`).
  And a place is counted for no or another date when the mailbox was created, or another worker
  changed its date, between the two statements of a reservation (`store/briefings.go:80-97`;
  `uncounted`).  A worker that reserves at the same moment as another finds the pool
  exhausted, because the other has locked every mailbox with quota left.
  `docs/实现架构与安全边界.md:62` and `docs/API-每日简报与邮件集群投递.md:101-104` know neither.
* An upload with `publish=true` publishes without verifying the file again
  (`docs/API-公告与版本发布.md:156`); the audit may have swept it in between (`swept`).
* A deletion interrupted by a crash leaves its release listed with the artifact in quarantine;
  it can then be neither downloaded nor deleted, for deleting begins with renaming the artifact.
  The same happens when restoring the file fails, whose error is ignored (`interrupted`).
* A make-up class of another day, or one rescheduled after it was cancelled, is listed without its
  name, at midnight if the exception gives no time (the exception of `DigestExplained`); with nothing
  for a name if the exception's title is all spaces, which is tested before it is trimmed.


## 8 Limits

Not modelled yet: timetable projects, whose versioned updates are the compare-and-set
of the cloud document once more, and cloud events, whose stream only repeats the document's
version (a client that comes back with a `Last-Event-ID` ahead of it, as after the restoration of
a backup, hears nothing until the document has caught up).  (Runtime events are written and never read by a handler.)  Within the
modelled components: the access token's epoch and device logins, which insert sessions as logins
do (sessions); validation of documents against their schema (cloud), profile data; that a registration
refreshes the pending password, and that a new email may be taken meanwhile
(one-time codes); announcements, and which release a client is offered (releases); decoding of
documents and rendering of mails (briefings); tiers and event logs (memberships).

`RefreshReplay` leaves out the row locks that `AuthSessions` has: in it a statement applies or fails.
The parts of `entitlements` and `server` do not overlap; they share no rows, files or maps, except
the membership's end, which `AIQuota` lets come and go at any time.

Not going to be modelled: migrations, configuration and start-up (they run
once, alone), settings, audit rows and statistics (single statements, or rows
appended in the transaction of what they record), password hashes and token
signatures (pure), the web console (a client; `CloudDocument` models what it
does with a document), the AI provider and SMTP servers (external; only their
outcomes matter, and these are in `AIQuota` and `BriefingDelivery`).

A database that loses committed transactions and clocks that go
backwards are not considered.


## 9 Running it

```
tlc -workers 2 -config MCAdminGuard.cfg MCAdminGuard.tla
tlapm AdminGuardProofs.tla
```

and likewise for the other configurations and `*Proofs.tla`.  Most passing
runs take about a minute or less with two workers, `briefing` and `server` two to three.
