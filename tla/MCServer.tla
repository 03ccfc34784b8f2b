------------------------------- MODULE MCServer -------------------------------
(***************************************************************************)
(* Five parts of the server that share nothing with each other: the        *)
(* replay cache, the limiters in front of login, the storage of releases,  *)
(* the pool of mailboxes, and the contents of briefings.  Each is explored *)
(* with the others at rest, and part says which.                           *)
(***************************************************************************)
EXTENDS RefreshReplay, LoginLimiter, ReleaseStorage, MailboxPool, BriefingDigest, TLC

CONSTANTS q1, q2, q3, phone, watch, ip, anna, ben, chen, h1, h2, x1, x2, a1, a2, maths, sport, art

MCRequests    == {q1, q2, q3}
MCClients     == {phone, watch}
MCAddresses   == {ip}
MCIdentifiers == {anna, ben, chen}
MCLogins      == {h1, h2}
\* Names are shared between parts, so that few permutations make the symmetry.
MCReleases    == {x1, x2}
MCMailboxes   == {x1, x2}
MCAdmins      == {a1, a2}
MCSenders     == {a1, a2}
MCQuotas      == {1, 2}

\* A semester from 4 January 2024, a Thursday; two lessons on Thursdays at eight and one on Tuesdays.
MCAnchors   == {YearStart(2024) + 3}
Lesson(id, title, day, from, until, parity, begin) ==
  [id |-> id, title |-> title, day |-> day, from |-> from, until |-> until, parity |-> parity, begin |-> begin, end |-> 0,
   opens |-> 480, closes |-> 0]
MCTimetable ==
  <<Lesson(maths, 2, 4, 1, 2, "ODD", 480), Lesson(sport, 1, 4, 0, 0, "ALL", 0), Lesson(art, 3, 2, 1, 30, "EVEN", 600)>>
Exception(lesson, kind, title, begin) == [lesson |-> lesson, kind |-> kind, title |-> title, begin |-> begin, end |-> -1]
MCExceptions ==
  {Exception(maths, "CANCEL", 0, -1), Exception(maths, "RESCHEDULE", 0, 600), Exception(maths, "RESCHEDULE", 4, 0),
   Exception(maths, "MAKE_UP", Blank, -1), Exception(art, "MAKE_UP", 0, 540), Exception(sport, "CANCEL", 0, -1),
   Exception(sport, "RESCHEDULE", Unnamed, -1), Exception(NoLesson, "MAKE_UP", 0, -1)}

VARIABLE part

MCInit ==
  /\ part \in {"replay", "limiter", "releases", "pool", "briefing"}
  /\ ReplayInit /\ (part # "replay" => asks = [r \in Requests |-> <<1, phone>>])
  /\ LimiterInit /\ ReleasesInit /\ PoolInit
  /\ DigestInit /\ (part # "briefing" => settings.mode = "NATURAL" /\ settings.first = 0)

InReplay   == part = "replay" /\ UNCHANGED <<part, limiterVars, releaseVars, poolVars, digestVars>>
InLimiter  == part = "limiter" /\ UNCHANGED <<part, replayVars, releaseVars, poolVars, digestVars>>
InReleases == part = "releases" /\ UNCHANGED <<part, replayVars, limiterVars, poolVars, digestVars>>
InPool     == part = "pool" /\ UNCHANGED <<part, replayVars, limiterVars, releaseVars, digestVars>>
InBriefing == part = "briefing" /\ UNCHANGED <<part, replayVars, limiterVars, releaseVars, poolVars>>

ReplayPart ==
  \/ \E r \in Requests :
       \/ Join(r) /\ InReplay
       \/ StartRotation(r) /\ InReplay
       \/ ReadToken(r) /\ InReplay
       \/ Reuse(r) /\ InReplay
       \/ CommitRotation(r) /\ InReplay
       \/ FailRotation(r) /\ InReplay
       \/ Complete(r) /\ InReplay
       \/ Hear(r) /\ InReplay
       \/ LeaveWait(r) /\ InReplay
       \/ Expire(r) /\ InReplay
  \/ Revoke /\ InReplay
  \/ EmptyCache /\ InReplay
  \/ LogoutElsewhere /\ InReplay
  \/ Restart /\ InReplay

LimiterPart ==
  \/ \E h \in Logins :
       \/ \E a \in Addresses, i \in Identifiers : Visit(a, h, i) /\ InLimiter
       \/ FailLogin(h) /\ InLimiter
       \/ Succeed(h) /\ InLimiter
  \/ Tick /\ InLimiter

ReleasesPart ==
  \/ \E r \in Releases :
       \/ StartUpload(r) /\ InReleases
       \/ FinalizeArtifact(r) /\ InReleases
       \/ RefuseUpload(r) /\ InReleases
       \/ InsertRelease(r) /\ InReleases
       \/ FailUpload(r) /\ InReleases
       \/ PublishUpload(r) /\ InReleases
       \/ LeaveDraft(r) /\ InReleases
       \/ LookAt(r) /\ InReleases
  \/ \E a \in Admins :
       \/ \E r \in Releases : VerifyForPublish(a, r) /\ InReleases
       \/ \E r \in Releases : StartDelete(a, r) /\ InReleases
       \/ Publish(a) /\ InReleases
       \/ Isolate(a) /\ InReleases
       \/ DeleteRow(a) /\ InReleases
       \/ RestoreArtifact(a) /\ InReleases
       \/ FailRestore(a) /\ InReleases
       \/ RemoveQuarantined(a) /\ InReleases
  \/ CrashServer /\ InReleases
  \/ ListRows /\ InReleases
  \/ ReadDirectory /\ InReleases
  \/ FinishAudit /\ InReleases

\* Bounds: mailboxes are created at the beginning, the first also while a worker reserves, and changed
\* on the first day.  While there are two neither is changed, and no place is lost or given back for a
\* mail that was accepted.  QUIT fails once.
AllIdle   == \A w \in Senders : stage[w] = "idle"
Beginning == date = 1 /\ AllIdle /\ \A m \in Mailboxes : quota[m] < 2 /\ usageDate[m] = 0 /\ usedToday[m] = 0
Reserving == (\A m \in Mailboxes : box[m] = "none") /\ \E w \in Senders : stage[w] = "select"
OnlyOne   == \E m \in Mailboxes : box[m] = "none"
Changes   == OnlyOne /\ date = 1
Losing(w) == stage[w] \in {"send", "release"} => OnlyOne
AllHeard  == OnlyOne /\ \A m \in Mailboxes, d \in Dates : unheard[m][d] = 0

PoolPart ==
  \/ \E w \in Senders :
       \/ StartDelivery(w) /\ InPool
       \/ StartReset(w) /\ InPool
       \/ ResetDates(w) /\ InPool
       \/ \E m \in Mailboxes : SelectMailbox(w, m) /\ InPool
       \/ FindNone(w) /\ InPool
       \/ Reserve(w) /\ InPool
       \/ Losing(w) /\ FailReservation(w) /\ InPool
       \/ SendMail(w) /\ InPool
       \/ AllHeard /\ QuitFails(w) /\ InPool
       \/ FailAttempt(w) /\ InPool
       \/ Release(w) /\ InPool
       \/ Losing(w) /\ FailRelease(w) /\ InPool
       \/ Losing(w) /\ CrashSender(w) /\ InPool
  \/ \E m \in Mailboxes :
       \/ \E q \in Quotas : (Beginning \/ Reserving) /\ q = 1 /\ CreateMailbox(m, q, TRUE) /\ InPool
       \/ Changes /\ \E q \in Quotas, enabled \in BOOLEAN : UpdateMailbox(m, q, enabled) /\ InPool
       \/ Changes /\ DeleteMailbox(m) /\ InPool
  \/ Midnight /\ InPool

\* Bound: digests of the first days, and where weeks begin on Mondays.
Listing == target < YearStart(FirstYear) + 12 /\ settings.first = 1

BriefingPart ==
  \/ Listing /\ StartDigest /\ InBriefing
  \/ \E e \in Exceptions : ApplyException(e) /\ InBriefing
  \/ FinishDigest /\ InBriefing
  \/ NextBriefing /\ InBriefing

MCNext == ReplayPart \/ LimiterPart \/ ReleasesPart \/ PoolPart \/ BriefingPart

MCSpec == MCInit /\ [][MCNext]_<<part, replayVars, limiterVars, releaseVars, poolVars, digestVars>>

\* Each part, while the others rest, keeps its inductive invariant: what its requests, handlers or
\* workers have read and locked fits the tables, maps and files whatever the others of them do.
ServerInv ==
  /\ part = "replay" => ReplayInv
  /\ part = "limiter" => LimiterInv
  /\ part = "releases" => ReleasesInv
  /\ part = "pool" => PoolInv
  /\ part = "briefing" => DigestInv

\* Releases, administrators, mailboxes and workers differ in name only.
MCSymmetry == Permutations(MCReleases \cup MCMailboxes) \cup Permutations(MCAdmins \cup MCSenders)
=============================================================================
