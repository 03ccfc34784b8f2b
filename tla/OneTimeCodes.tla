----------------------------- MODULE OneTimeCodes -----------------------------
(***************************************************************************)
(* What is handed out to be used once (internal/store/users.go and         *)
(* device_authorizations.go, with their handlers): registration codes,     *)
(* codes for a change of email, tokens for a password reset, and the QR    *)
(* login of a watch, which an account approves.  Each has its own table;   *)
(* a request is a transaction that reads its row and later writes it with  *)
(* a condition that nobody has used it meanwhile.                          *)
(*                                                                         *)
(* The database is PostgreSQL at READ COMMITTED.  From its first write a   *)
(* transaction holds the row's lock and others wait, so the writes and the *)
(* commit of a transaction are one step here, in which conditions are      *)
(* about the rows as they are then.                                        *)
(***************************************************************************)
EXTENDS Naturals, FiniteSets

CONSTANTS
  Registrations,  \* email_verification_challenges, by identity
  Changes,        \* email_change_requests
  Resets,         \* password_reset_tokens
  Devices,        \* device_authorizations
  Accounts,
  Handlers,       \* requests handled at the same time
  MaxAttempts,    \* maxVerificationAttempts (10 in the code)
  MaxIssued,      \* bound: codes issued
  None            \* no account, no code

Guessed == Registrations \cup Changes  \* six digits, of which wrong ones are counted
Mailed  == Guessed \cup Resets
Codes   == Mailed \cup Devices

ASSUME TablesAssumption ==
  /\ Registrations \cap Changes = {} /\ Guessed \cap Resets = {} /\ Mailed \cap Devices = {}
  /\ None \notin Codes \cup Accounts
ASSUME BoundsAssumption == MaxAttempts \in Nat \ {0} /\ MaxIssued \in Nat

VARIABLES
  status,    \* users.status
  code,      \* each row: "open", for devices "approved", then "closed" (used_at or consumed_at set), "deleted"
  age,       \* of the row; codes are "recent" for 60 seconds
  failures,  \* failed_attempts
  holder,    \* user_id; of a device the account that approved it
  pc, work,  \* where each handler is, and its locals
  granted,   \* history: how often each code was accepted
  wrong,     \* history: wrong codes answered as such
  told,      \* history: accounts whose approval of a device was answered with success
  given,     \* history: accounts a device got a session of
  retired    \* history: codes that a newer one, issued meanwhile, was to replace

rows    == <<status, code, age, failures, holder>>
history == <<granted, wrong, told, given, retired>>
vars    == <<rows, pc, work, history>>

\* A handler's locals: the code it is about, the account, the codes its UPDATE has found and those
\* that were unused when it arrived, failed_attempts as read.
Locals == [code : Codes \cup {None}, account : Accounts \cup {None}, found : SUBSET Codes, before : SUBSET Codes, failures : Nat]
NoWork == [code |-> None, account |-> None, found |-> {}, before |-> {}, failures |-> 0]

Unused(c)  == code[c] \in {"open", "approved"}
Expired(c) == age[c] = "expired"

SameTable(c, d) == \E T \in {Registrations, Changes, Resets, Devices} : c \in T /\ d \in T
Siblings(c, a)  == {d \in Codes : SameTable(c, d) /\ holder[d] = a /\ code[d] \notin {"none", "deleted"}}

Init ==
  /\ status \in [Accounts -> {"PENDING", "ACTIVE"}]
  /\ code = [c \in Codes |-> "none"]
  /\ age = [c \in Codes |-> "recent"]
  /\ failures = [c \in Codes |-> 0]
  /\ holder = [c \in Codes |-> None]
  /\ pc = [h \in Handlers |-> "idle"]
  /\ work = [h \in Handlers |-> NoWork]
  /\ granted = [c \in Codes |-> 0] /\ wrong = [c \in Codes |-> 0]
  /\ told = [d \in Devices |-> {}] /\ given = [d \in Devices |-> {}]
  /\ retired = {}

Continue(h, at, locals) ==
  /\ pc'   = [pc EXCEPT ![h] = at]
  /\ work' = [work EXCEPT ![h] = locals]

\* The request is answered; a transaction that has not committed is rolled back.
Done(h) == Continue(h, "idle", NoWork)

Code(h)    == work[h].code
Account(h) == work[h].account

-----------------------------------------------------------------------------
\* Time passes; the worker deletes the rows of a table that have expired (CleanupExpiredSecurityData;
\* what was used a day ago, which it deletes too, has expired as well).
Ages == <<"recent", "valid", "expired">>
GrowsOlder(c) ==
  /\ code[c] \notin {"none", "deleted"}
  /\ \E i \in 1..2 : age[c] = Ages[i] /\ age' = [age EXCEPT ![c] = Ages[i + 1]]
  /\ UNCHANGED <<status, code, failures, holder, pc, work, history>>

WithoutRows(T) == [c \in Codes |-> IF c \in T THEN "deleted" ELSE code[c]]
CleanUp(T) ==
  /\ \E c \in T : Expired(c) /\ code[c] # "deleted"
  /\ code' = WithoutRows({c \in T : Expired(c)})
  /\ UNCHANGED <<status, age, failures, holder, pc, work, history>>

\* AdminUpdateUser; an account that is deleted is like a disabled one to all that follows.
SetStatus(a, s) ==
  /\ status[a] # s
  /\ status' = [status EXCEPT ![a] = s]
  /\ UNCHANGED <<code, age, failures, holder, pc, work, history>>

-----------------------------------------------------------------------------
\* Identities are random: no two requests draw the same one.
Fresh(c) == code[c] = "none" /\ \A o \in Handlers : Code(o) # c
Known    == {c \in Codes : ~Fresh(c)}

Request(h, c, a, at) ==
  /\ pc[h] = "idle" /\ Fresh(c) /\ Cardinality(Known) < MaxIssued
  /\ Continue(h, at, [NoWork EXCEPT !.code = c, !.account = a, !.before = {d \in Siblings(c, a) : c \in Guessed /\ Unused(d)}])
  /\ UNCHANGED <<status, age, failures, holder, history>>

\* A registration for a pending account (its password is refreshed), an email change by its owner,
\* a password reset for anybody's.
RequestCode(h, c, a) ==
  /\ c \in Registrations => status[a] = "PENDING"
  /\ c \in Changes => status[a] = "ACTIVE"
  /\ Request(h, c, a, IF c \in Guessed THEN "gate" ELSE "insert")
  /\ UNCHANGED code

\* The start of a device login first deletes the rows that have expired for a day.
StartDevice(h, d) ==
  /\ Request(h, d, None, "insert")
  /\ \E T \in SUBSET {e \in Devices : Expired(e)} : code' = WithoutRows(T)

\* SELECT MAX(created_at): within 60 seconds no other code is issued.
PassGate(h) ==
  /\ pc[h] = "gate" /\ \A d \in Siblings(Code(h), Account(h)) : age[d] # "recent"
  /\ Continue(h, "supersede", work[h])
  /\ UNCHANGED <<rows, history>>

HitGate(h) ==
  /\ pc[h] = "gate" /\ \E d \in Siblings(Code(h), Account(h)) : age[d] = "recent"
  /\ Done(h)
  /\ UNCHANGED <<rows, history>>

\* UPDATE ... SET used_at WHERE user_id = ? AND used_at = 0 finds the codes to close.
ToSupersedeExpired(h) == {d \in Siblings(Code(h), Account(h)) : Unused(d) /\ Expired(d)}
ToSupersede(h) == {d \in Siblings(Code(h), Account(h)) : Unused(d)}

Supersede(h) ==
  /\ pc[h] = "supersede"
  /\ Continue(h, "insert", [work[h] EXCEPT !.found = ToSupersede(h)])
  /\ UNCHANGED <<rows, history>>

\* INSERT and commit.
Insert(h) ==
  /\ pc[h] = "insert"
  /\ code' = [c \in Codes |-> IF c = Code(h) THEN "open" ELSE IF c \in work[h].found /\ Unused(c) THEN "closed" ELSE code[c]]
  /\ holder' = [holder EXCEPT ![Code(h)] = Account(h)]
  /\ retired' = retired \cup work[h].before
  /\ IF Code(h) \in Devices THEN Done(h) ELSE Continue(h, "mail", work[h])
  /\ UNCHANGED <<status, age, failures, granted, wrong, told, given>>

Mail(h) ==
  /\ pc[h] = "mail"
  /\ Done(h)
  /\ UNCHANGED <<rows, history>>

\* The mail cannot be queued: registration code and reset token are taken back.  A code for a change
\* of email is not, so that for it the failure is no other step than Mail.
MailFails(h) ==
  /\ pc[h] = "mail" /\ Code(h) \notin Changes
  /\ code' = [code EXCEPT ![Code(h)] = IF ~Unused(Code(h)) THEN @ ELSE IF Code(h) \in Resets THEN "deleted" ELSE "closed"]
  /\ Done(h)
  /\ UNCHANGED <<status, age, failures, holder, history>>

-----------------------------------------------------------------------------
\* Somebody presents a code: its row is read.  Used, expired and locked ones are refused at once.
Acceptable(c) == code[c] = "open" /\ ~Expired(c) /\ failures[c] < MaxAttempts

PresentRight(h, c) ==
  /\ pc[h] = "idle" /\ c \in Mailed /\ Acceptable(c)
  /\ Continue(h, "grant", [NoWork EXCEPT !.code = c, !.account = holder[c]])
  /\ UNCHANGED <<rows, history>>

PresentWrong(h, c) ==
  /\ pc[h] = "idle" /\ c \in Guessed /\ Acceptable(c)
  /\ Continue(h, "fail", [NoWork EXCEPT !.code = c, !.failures = failures[c]])
  /\ UNCHANGED <<rows, history>>

\* A watch polls: its row is read, then the account that has approved it.
Poll(h, d) ==
  /\ pc[h] = "idle" /\ d \in Devices /\ code[d] = "approved" /\ ~Expired(d)
  /\ Continue(h, "user", [NoWork EXCEPT !.code = d, !.account = holder[d]])
  /\ UNCHANGED <<rows, history>>

ReadUser(h) ==
  /\ pc[h] = "user"
  /\ IF status[Account(h)] = "ACTIVE" THEN Continue(h, "grant", work[h]) ELSE Done(h)
  /\ UNCHANGED <<rows, history>>

\* UPDATE ... SET used_at WHERE id = ? AND used_at = 0, then what the code is good for, and commit:
\* a pending account becomes active, the watch gets a session of the account read before.
StillUnusedUnchecked(c) == code[c] # "deleted"
StillUnused(c) == Unused(c)

Activated(h) ==
  IF Code(h) \in Registrations /\ status[Account(h)] = "PENDING"
  THEN [status EXCEPT ![Account(h)] = "ACTIVE"] ELSE status

Grant(h) ==
  /\ pc[h] = "grant" /\ StillUnused(Code(h))
  /\ code' = [code EXCEPT ![Code(h)] = "closed"]
  /\ status' = Activated(h)
  /\ granted' = [granted EXCEPT ![Code(h)] = @ + 1]
  /\ given' = [d \in Devices |-> IF d = Code(h) THEN given[d] \cup {Account(h)} ELSE given[d]]
  /\ Done(h)
  /\ UNCHANGED <<age, failures, holder, wrong, told, retired>>

\* recordFailedAttempt: the count read, plus one, and the code is locked with the last attempt.
Fail(h) ==
  /\ pc[h] = "fail"
  /\ LET c == Code(h)
         n == work[h].failures + 1
     IN /\ failures' = [failures EXCEPT ![c] = IF code[c] = "deleted" THEN @ ELSE n]
        /\ code' = [code EXCEPT ![c] = IF n >= MaxAttempts /\ @ # "deleted" THEN "closed" ELSE @]
        /\ wrong' = [wrong EXCEPT ![c] = @ + 1]
  /\ Done(h)
  /\ UNCHANGED <<status, age, holder, granted, told, given, retired>>

\* An account approves a device: the row is read; to have approved it already is a success.
Answer(d, a) == told' = [told EXCEPT ![d] = @ \cup {a}]

Approve(h, d, a) ==
  /\ pc[h] = "idle" /\ status[a] = "ACTIVE" /\ code[d] = "open" /\ ~Expired(d)
  /\ Continue(h, "approve", [NoWork EXCEPT !.code = d, !.account = a])
  /\ UNCHANGED <<rows, history>>

ApproveAgain(d, a) ==
  /\ status[a] = "ACTIVE" /\ code[d] = "approved" /\ ~Expired(d) /\ holder[d] = a
  /\ Answer(d, a)
  /\ UNCHANGED <<rows, pc, work, granted, wrong, given, retired>>

\* UPDATE ... SET user_id, approved_at WHERE approved_at = 0 AND consumed_at = 0, and commit.
StillUnapprovedUnchecked(d) == Unused(d)
StillUnapproved(d) == code[d] = "open"

CommitApproval(h) ==
  /\ pc[h] = "approve" /\ StillUnapproved(Code(h))
  /\ code'   = [code EXCEPT ![Code(h)] = "approved"]
  /\ holder' = [holder EXCEPT ![Code(h)] = Account(h)]
  /\ Answer(Code(h), Account(h))
  /\ Done(h)
  /\ UNCHANGED <<status, age, failures, granted, wrong, given, retired>>

\* Somebody else has written the row meanwhile.
Refuse(h) ==
  /\ \/ pc[h] = "grant" /\ ~StillUnused(Code(h))
     \/ pc[h] = "approve" /\ ~StillUnapproved(Code(h))
  /\ Done(h)
  /\ UNCHANGED <<rows, history>>

\* The client goes away, a statement fails, or the process dies.
Cancel(h) ==
  /\ pc[h] # "idle"
  /\ Done(h)
  /\ UNCHANGED <<rows, history>>

-----------------------------------------------------------------------------
Step(h) ==
  \/ PassGate(h) \/ HitGate(h) \/ Supersede(h) \/ Insert(h) \/ Mail(h) \/ MailFails(h)
  \/ ReadUser(h) \/ Grant(h) \/ Fail(h) \/ CommitApproval(h) \/ Refuse(h) \/ Cancel(h)

Next ==
  \/ \E c \in Codes : GrowsOlder(c)
  \/ \E T \in {Registrations, Changes, Resets} : CleanUp(T)
  \/ \E a \in Accounts : (\E s \in {"ACTIVE", "DISABLED"} : SetStatus(a, s)) \/ (\E d \in Devices : ApproveAgain(d, a))
  \/ \E h \in Handlers :
       \/ \E c \in Mailed, a \in Accounts : RequestCode(h, c, a)
       \/ \E d \in Devices : StartDevice(h, d) \/ Poll(h, d) \/ \E a \in Accounts : Approve(h, d, a)
       \/ \E c \in Codes : PresentRight(h, c) \/ PresentWrong(h, c)
       \/ Step(h)

Spec == Init /\ [][Next]_vars

-----------------------------------------------------------------------------
TypeOK ==
  /\ status \in [Accounts -> {"PENDING", "ACTIVE", "DISABLED"}]
  /\ code \in [Codes -> {"none", "open", "approved", "closed", "deleted"}]
  /\ age \in [Codes -> {"recent", "valid", "expired"}]
  /\ failures \in [Codes -> Nat]
  /\ holder \in [Codes -> Accounts \cup {None}]
  /\ pc \in [Handlers -> {"idle", "gate", "supersede", "insert", "mail", "grant", "fail", "user", "approve"}]
  /\ work \in [Handlers -> Locals]
  /\ granted \in [Codes -> Nat] /\ wrong \in [Codes -> Nat]
  /\ told \in [Devices -> SUBSET Accounts] /\ given \in [Devices -> SUBSET Accounts]
  /\ retired \subseteq Codes

\* Whoever presents a code, and however many do at the same time: it is accepted once, never after
\* it has been closed by its use, its lock, a newer code or its withdrawal, and nothing opens it again.
Over(c) == code[c] \in {"closed", "deleted"}
AcceptedOnce ==
  [][\A c \in Codes :
       /\ granted'[c] # granted[c] => ~Over(c) /\ Over(c)'
       /\ Over(c) => Over(c)']_vars

\* A code that was unused when a newer one was asked for is over once the newer one is issued,
\* whatever happened between the three statements.
OlderCodesAreOver == \A c \in retired : Over(c)

\* The account a watch is logged in to is the one that approved it, and who was told that it
\* approved a watch is that account: approvals that overlap do not overwrite each other.
ApprovalHolds == \A d \in Devices : told[d] \cup given[d] \subseteq {holder[d]}

\* The inductive invariant.  A handler that issues a code is about a row that nobody knows yet, any
\* other about one that exists, or existed; of a watch it polls for it knows the account.
Issuing(h) == pc[h] \in {"gate", "supersede", "insert"}
HandlerFits(h) ==
  /\ pc[h] = "idle" => work[h] = NoWork
  /\ pc[h] # "idle" => Code(h) \in Codes /\ (code[Code(h)] = "none" <=> Issuing(h))
  /\ pc[h] = "fail" => Code(h) \in Guessed
  /\ pc[h] = "mail" => Code(h) \in Mailed
  /\ pc[h] \in {"user", "approve"} => Code(h) \in Devices /\ Account(h) \in Accounts
  /\ pc[h] \in {"user", "grant"} /\ Code(h) \in Devices =>
       Account(h) = holder[Code(h)] /\ Account(h) \in Accounts /\ code[Code(h)] # "open"
IssuedAlone == \A h, o \in Handlers : Issuing(h) /\ o # h => Code(o) # Code(h)

\* The codes to be replaced belong to the account, and are on the list or over.
BeforeCovered(h) ==
  /\ work[h].before # {} => Code(h) \in Guessed
  /\ \A c \in work[h].before : SameTable(Code(h), c) /\ holder[c] = Account(h) /\ code[c] # "none"
  /\ pc[h] = "insert" => \A c \in work[h].before : c \in work[h].found \/ Over(c)

\* What has happened to a code shows in its row.
RowTells(c) ==
  /\ code[c] = "none" => age[c] = "recent"
  /\ granted[c] > 0 => granted[c] = 1 /\ Over(c)
  /\ code[c] = "approved" => c \in Devices /\ holder[c] \in Accounts
  /\ c \in Devices /\ code[c] \in {"none", "open"} => told[c] = {} /\ given[c] = {}

CodesInv ==
  /\ TypeOK
  /\ \A h \in Handlers : HandlerFits(h) /\ BeforeCovered(h)
  /\ IssuedAlone
  /\ \A c \in Codes : RowTells(c)
  /\ OlderCodesAreOver
  /\ ApprovalHolds

\* Claimed by a comment of the code: once so many wrong codes have been tried the challenge is
\* locked, and no further attempts are accepted.
LockedAtCap == \A c \in Guessed : wrong[c] >= MaxAttempts => ~Unused(c)
=============================================================================
