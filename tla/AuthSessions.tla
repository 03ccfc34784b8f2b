----------------------------- MODULE AuthSessions -----------------------------
(***************************************************************************)
(* Sessions and refresh tokens of one account (internal/store/users.go,    *)
(* handlers_auth.go): logins, refreshes, logouts and the operations that   *)
(* revoke every session, each a transaction of several SQL statements.     *)
(*                                                                         *)
(* The database is PostgreSQL at READ COMMITTED.  A statement sees what is *)
(* committed when it starts; an UPDATE locks the rows it found one by one, *)
(* waits for each, and skips a row that no longer satisfies its WHERE      *)
(* clause; what a transaction writes is visible when it commits, and then  *)
(* its locks go.  The foreign key of an inserted row takes a KEY SHARE     *)
(* lock on the account's row, which conflicts with SELECT ... FOR UPDATE   *)
(* and with an UPDATE of a unique column, not with other UPDATEs.          *)
(***************************************************************************)
EXTENDS Naturals, FiniteSets

CONSTANTS
  Sessions, Tokens,  \* row identities, drawn when rows are inserted
  Txs,               \* concurrent requests, each with its transaction
  MaxPassword,       \* bound: password changes
  NoRow              \* no session (of a token that does not exist)

\* Rows of different tables are different things to lock, and so is the account's row.
UserModes == {"UPDATE", "NO KEY UPDATE", "KEY SHARE"}
ASSUME NoRowAssumption == NoRow \notin Sessions
ASSUME RowsAssumption ==
  /\ Sessions \cap Tokens = {}
  /\ UserModes \cap (Sessions \cup Tokens) = {}
ASSUME MaxPasswordAssumption == MaxPassword \in Nat

VARIABLES
  status,    \* users.status
  password,  \* how often users.password_hash has changed
  session,   \* auth_sessions: "none", "active" (revoked_at = 0) or "revoked"
  token,     \* refresh_tokens: "none", "live" (revoked_at = 0) or "revoked"
  of,        \* refresh_tokens.session_id
  pc, req,   \* where each request is, and what it asks for
  todo,      \* rows its current UPDATE has found and not yet locked
  holds,     \* the locks of its transaction
  opened,    \* history: the password a session's login had checked
  ended,     \* history: sessions a committed revocation was to end
  told       \* history: sessions whose logout was answered with success

tables == <<status, password, session, token, of>>
locals == <<pc, req, todo, holds>>
logs   == <<opened, ended, told>>
vars   == <<tables, locals, logs>>

\* The operations that revoke every session of the account: UpdatePassword and ConsumeResetToken,
\* ConsumeEmailChangeRequest, and AdminUpdateUser or deleteAccount.
Changes == {"password", "email", "disable", "enable"}

Requests ==
  [op : {"login"}, session : Sessions, new : Tokens, password : Nat]
  \cup [op : {"refresh"}, token : Tokens, new : Tokens]
  \cup [op : {"logout"}, session : Sessions]
  \cup [op : {"revoke"}, change : Changes, before : SUBSET Sessions]
  \cup [op : {"none"}]
NoRequest == [op |-> "none"]

\* Locks: a row, or one of three modes on the account's row.
Conflict(i, j) ==
  IF i \in UserModes /\ j \in UserModes
  THEN "UPDATE" \in {i, j} \/ (i = j /\ i = "NO KEY UPDATE")
  ELSE i = j

Holders(t, i) == {o \in Txs \ {t} : \E j \in holds[o] : Conflict(i, j)}
CanLock(t, i) == Holders(t, i) = {}

\* Row identities are random: two inserts never draw the same one.
Drawn == {req[t].new : t \in {o \in Txs : req[o].op \in {"login", "refresh"}}}
FreshTokens   == {k \in Tokens : token[k] = "none"} \ Drawn
FreshSessions == {s \in Sessions : session[s] = "none"} \ {req[t].session : t \in {o \in Txs : req[o].op = "login"}}

LiveTokens     == {k \in Tokens : token[k] = "live"}
ActiveSessions == {s \in Sessions : session[s] = "active"}

\* A session somebody can still refresh.
Usable(s) == session[s] = "active" /\ \E k \in LiveTokens : of[k] = s

Init ==
  /\ status = "ACTIVE" /\ password = 0
  /\ session = [s \in Sessions |-> "none"]
  /\ token = [k \in Tokens |-> "none"]
  /\ of = [k \in Tokens |-> NoRow]
  /\ pc = [t \in Txs |-> "idle"]
  /\ req = [t \in Txs |-> NoRequest]
  /\ todo = [t \in Txs |-> {}]
  /\ holds = [t \in Txs |-> {}]
  /\ opened = [s \in Sessions |-> 0]
  /\ ended = {} /\ told = {}

Arrive(t, r, at) ==
  /\ pc[t] = "idle"
  /\ pc'  = [pc EXCEPT ![t] = at]
  /\ req' = [req EXCEPT ![t] = r]
  /\ UNCHANGED <<tables, todo, holds, logs>>

\* The next statement waits for no row.
Goto(t, at, found) ==
  /\ pc'   = [pc EXCEPT ![t] = at]
  /\ todo' = [todo EXCEPT ![t] = found]

Lock(t, i) == CanLock(t, i) /\ holds' = [holds EXCEPT ![t] = @ \cup {i}]

\* Commit or rollback: the transaction's locks go, the request is answered.
End(t) ==
  /\ pc'    = [pc EXCEPT ![t] = "idle"]
  /\ req'   = [req EXCEPT ![t] = NoRequest]
  /\ todo'  = [todo EXCEPT ![t] = {}]
  /\ holds' = [holds EXCEPT ![t] = {}]

Rollback(t) == End(t) /\ UNCHANGED <<tables, logs>>

-----------------------------------------------------------------------------
\* login: the account is read and the password verified against what was read ...
LoginArrives(t) ==
  /\ status = "ACTIVE"
  /\ \E s \in FreshSessions, k \in FreshTokens :
       Arrive(t, [op |-> "login", session |-> s, new |-> k, password |-> password], "insert")

\* ... and CreateRefreshToken inserts a session and its first token, whatever the account is by then.
LoginInserts(t) ==
  /\ pc[t] = "insert" /\ req[t].op = "login"
  /\ CanLock(t, "KEY SHARE")
  /\ session' = [session EXCEPT ![req[t].session] = "active"]
  /\ token'   = [token EXCEPT ![req[t].new] = "live"]
  /\ of'      = [of EXCEPT ![req[t].new] = req[t].session]
  /\ opened'  = [opened EXCEPT ![req[t].session] = req[t].password]
  /\ End(t)
  /\ UNCHANGED <<status, password, ended, told>>

-----------------------------------------------------------------------------
\* RotateRefreshTokenSession reads the token: a revoked or expired one ends its session.
RefreshArrives(t) ==
  \E k \in Tokens, n \in FreshTokens :
    /\ token[k] # "none"
    /\ \/ Arrive(t, [op |-> "refresh", token |-> k, new |-> n], "reuse")
       \/ token[k] = "live" /\ Arrive(t, [op |-> "refresh", token |-> k, new |-> n], "check")

\* The session of the token presented.
SessionOf(t) == of[req[t].token]

\* UPDATE auth_sessions SET revoked_at WHERE id = ? AND revoked_at = 0, and commit.
ReuseEndsSession(t) ==
  /\ pc[t] = "reuse"
  /\ CanLock(t, SessionOf(t))
  /\ session' = [session EXCEPT ![SessionOf(t)] = "revoked"]
  /\ ended'   = ended \cup {SessionOf(t)}
  /\ End(t)
  /\ UNCHANGED <<status, password, token, of, opened, told>>

\* The session is looked up: Forbidden unless it is active.
CheckSession(t) ==
  /\ pc[t] = "check" /\ session[SessionOf(t)] = "active"
  /\ Goto(t, "take", {})
  /\ UNCHANGED <<tables, req, holds, logs>>

\* UPDATE refresh_tokens SET revoked_at WHERE id = ? AND revoked_at = 0: one row, or Forbidden.
StillLiveUnchecked(k) == TRUE
StillLive(k) == token[k] = "live"

TakeToken(t) ==
  /\ pc[t] = "take" /\ StillLive(req[t].token)
  /\ Lock(t, req[t].token)
  /\ Goto(t, "insert", {})
  /\ UNCHANGED <<tables, req, logs>>

\* INSERT of the successor.
InsertSuccessor(t) ==
  /\ pc[t] = "insert" /\ req[t].op = "refresh"
  /\ Lock(t, "KEY SHARE")
  /\ Goto(t, "touch", {})
  /\ UNCHANGED <<tables, req, logs>>

\* UPDATE auth_sessions SET expires_at WHERE id = ?, the account is read and found ACTIVE (the KEY
\* SHARE lock keeps it so), commit.
CommitRefreshReactivating(t) ==
  /\ pc[t] = "touch" /\ status = "ACTIVE"
  /\ CanLock(t, SessionOf(t))
  /\ token'   = [token EXCEPT ![req[t].token] = "revoked", ![req[t].new] = "live"]
  /\ of'      = [of EXCEPT ![req[t].new] = SessionOf(t)]
  /\ session' = [session EXCEPT ![SessionOf(t)] = "active"]
  /\ End(t)
  /\ UNCHANGED <<status, password, logs>>
CommitRefresh(t) ==
  /\ pc[t] = "touch" /\ status = "ACTIVE"
  /\ CanLock(t, SessionOf(t))
  /\ token' = [token EXCEPT ![req[t].token] = "revoked", ![req[t].new] = "live"]
  /\ of'    = [of EXCEPT ![req[t].new] = SessionOf(t)]
  /\ End(t)
  /\ UNCHANGED <<status, password, session, logs>>

RefuseRefresh(t) ==
  /\ \/ pc[t] = "check" /\ session[SessionOf(t)] # "active"
     \/ pc[t] = "take" /\ ~StillLive(req[t].token)
     \/ pc[t] = "touch" /\ CanLock(t, SessionOf(t)) /\ status # "ACTIVE"
  /\ Rollback(t)

-----------------------------------------------------------------------------
\* requireAuth lets a logout through while its session is active.
LogoutArrives(t) ==
  /\ status = "ACTIVE"
  /\ \E s \in ActiveSessions : Arrive(t, [op |-> "logout", session |-> s], "session")

\* RevokeSession: UPDATE auth_sessions ... AND revoked_at = 0, then the UPDATE of its tokens starts.
LogoutTakesSession(t) ==
  /\ pc[t] = "session" /\ session[req[t].session] = "active"
  /\ Lock(t, req[t].session)
  /\ Goto(t, "tokens", {k \in LiveTokens : of[k] = req[t].session})
  /\ UNCHANGED <<tables, req, logs>>

\* RevokeSession fails; logout ignores the error and answers success.
LogoutAnswers(t) == told' = told \cup {req[t].session}

LogoutFindsNone(t) ==
  /\ pc[t] = "session" /\ session[req[t].session] # "active"
  /\ LogoutAnswers(t) /\ End(t)
  /\ UNCHANGED <<tables, opened, ended>>

-----------------------------------------------------------------------------
\* Password changes in progress (they count towards the bound).
PasswordChanges == {o \in Txs : req[o].op = "revoke" /\ req[o].change = "password"}

RevokeArrives(t) ==
  \E c \in Changes :
    /\ c = "password" => password + Cardinality(PasswordChanges) < MaxPassword
    /\ Arrive(t, [op |-> "revoke", change |-> c, before |-> {s \in Sessions : session[s] # "none"}], "user")

\* The account's row is locked: UPDATE users SET password_hash changes no key, an UPDATE of the
\* unique email and SELECT ... FOR UPDATE exclude everybody.
UserLock(t) == IF req[t].change = "password" THEN "NO KEY UPDATE" ELSE "UPDATE"

\* The status the change leaves.
NewStatus(t) ==
  CASE req[t].change = "disable" -> "DISABLED"
    [] req[t].change = "enable"  -> "ACTIVE"
    [] OTHER                     -> status

\* AdminUpdateUser revokes nothing where role and status stay as they are.
ChangesNothing(t) == req[t].change \in {"disable", "enable"} /\ NewStatus(t) = status

RevokeTakesUser(t) ==
  /\ pc[t] = "user" /\ ~ChangesNothing(t)
  /\ Lock(t, UserLock(t))
  /\ Goto(t, "tokens", LiveTokens)
  /\ UNCHANGED <<tables, req, logs>>

RevokesNothing(t) ==
  /\ pc[t] = "user" /\ ChangesNothing(t) /\ CanLock(t, UserLock(t))
  /\ Rollback(t)

\* The UPDATE of the tokens is done, that of the sessions starts.
SessionsToRevokeNone == {}
SessionsToRevoke == ActiveSessions

RevokeStartsSessions(t) ==
  /\ pc[t] = "tokens" /\ todo[t] = {} /\ req[t].op = "revoke"
  /\ Goto(t, "sessions", SessionsToRevoke)
  /\ UNCHANGED <<tables, req, holds, logs>>

\* An UPDATE ... WHERE revoked_at = 0 takes the next row it found, or skips it.
Unrevoked(i) == i \in LiveTokens \cup ActiveSessions

RevokeRow(t, i) ==
  /\ pc[t] \in {"tokens", "sessions"} /\ i \in todo[t]
  /\ CanLock(t, i)
  /\ holds' = [holds EXCEPT ![t] = IF Unrevoked(i) THEN @ \cup {i} ELSE @]
  /\ todo'  = [todo EXCEPT ![t] = @ \ {i}]
  /\ UNCHANGED <<tables, pc, req, logs>>

\* Commit: what the UPDATEs took is revoked.
RevokeHeld(t) ==
  /\ token'   = [k \in Tokens |-> IF k \in holds[t] THEN "revoked" ELSE token[k]]
  /\ session' = [s \in Sessions |-> IF s \in holds[t] THEN "revoked" ELSE session[s]]
  /\ UNCHANGED of

CommitLogout(t) ==
  /\ pc[t] = "tokens" /\ todo[t] = {} /\ req[t].op = "logout"
  /\ RevokeHeld(t)
  /\ ended' = ended \cup {req[t].session}
  /\ LogoutAnswers(t) /\ End(t)
  /\ UNCHANGED <<status, password, opened>>

CommitRevoke(t) ==
  /\ pc[t] = "sessions" /\ todo[t] = {}
  /\ RevokeHeld(t)
  /\ status' = NewStatus(t)
  /\ password' = IF req[t].change = "password" THEN password + 1 ELSE password
  /\ ended' = ended \cup req[t].before
  /\ End(t)
  /\ UNCHANGED <<opened, told>>

-----------------------------------------------------------------------------
\* The client goes away: the request's context ends and the deferred rollback runs.
Cancel(t) == pc[t] # "idle" /\ Rollback(t)

\* What the transaction may be waiting for.
Needs(t) ==
  CASE pc[t] = "take"                          -> {req[t].token}
    [] pc[t] = "insert"                        -> {"KEY SHARE"}
    [] pc[t] \in {"reuse", "touch"}            -> {SessionOf(t)}
    [] pc[t] = "session"                       -> {req[t].session}
    [] pc[t] = "user"                          -> {UserLock(t)}
    [] OTHER                                   -> todo[t]

\* The database aborts a transaction that waits in a cycle.
InWaitCycle(t) ==
  \E S \in SUBSET Txs :
    /\ t \in S
    /\ \A s \in S : S \cap UNION {Holders(s, i) : i \in Needs(s)} # {}

Abort(t) ==
  /\ pc[t] # "idle" /\ InWaitCycle(t)
  /\ IF req[t].op = "logout" THEN LogoutAnswers(t) ELSE UNCHANGED told
  /\ End(t)
  /\ UNCHANGED <<tables, opened, ended>>

Step(t) ==
  \/ LoginInserts(t)
  \/ ReuseEndsSession(t) \/ CheckSession(t) \/ TakeToken(t) \/ InsertSuccessor(t)
  \/ CommitRefresh(t) \/ RefuseRefresh(t)
  \/ LogoutTakesSession(t) \/ LogoutFindsNone(t) \/ CommitLogout(t)
  \/ RevokeTakesUser(t) \/ RevokesNothing(t) \/ RevokeStartsSessions(t) \/ CommitRevoke(t)
  \/ \E i \in Tokens \cup Sessions : RevokeRow(t, i)

Next ==
  \E t \in Txs :
    \/ LoginArrives(t) \/ RefreshArrives(t) \/ LogoutArrives(t) \/ RevokeArrives(t)
    \/ Step(t) \/ Cancel(t) \/ Abort(t)

Spec == Init /\ [][Next]_vars

-----------------------------------------------------------------------------
TypeOK ==
  /\ status \in {"ACTIVE", "DISABLED"}
  /\ password \in Nat
  /\ session \in [Sessions -> {"none", "active", "revoked"}]
  /\ token \in [Tokens -> {"none", "live", "revoked"}]
  /\ of \in [Tokens -> Sessions \cup {NoRow}]
  /\ pc \in [Txs -> {"idle", "insert", "reuse", "check", "take", "touch", "session", "user", "tokens", "sessions"}]
  /\ req \in [Txs -> Requests]
  /\ todo \in [Txs -> SUBSET (Tokens \cup Sessions)]
  /\ holds \in [Txs -> SUBSET (Tokens \cup Sessions \cup UserModes)]
  /\ opened \in [Sessions -> Nat]
  /\ ended \in SUBSET Sessions
  /\ told \in SUBSET Sessions

\* Of two refreshes with the same token only one gets a successor: a session never has two tokens
\* that can be spent.
OneLiveToken == \A s \in Sessions : Cardinality({k \in LiveTokens : of[k] = s}) <= 1

\* A committed logout, password or email change, status change or detected reuse ends every session
\* that existed when it was requested, for good: no rotation in flight carries one past it.
EndedForGood == \A s \in ended : ~Usable(s)

\* To its owner a session is opened once and never comes back once it is over, whatever the two
\* tables go through.
Lifecycle == INSTANCE SessionLifecycle WITH
  life <- [s \in Sessions |-> IF session[s] = "none" THEN "new" ELSE IF Usable(s) THEN "alive" ELSE "over"]
ImplementsLifecycle == Lifecycle!LifecycleSpec

\* The inductive invariant.  What a transaction holds: nothing before its first statement has
\* locked a row; then the rows its UPDATEs have taken, none of them held by another.
HoldsByPlace(t) ==
  /\ pc[t] \in {"idle", "reuse", "check", "take", "session", "user"} => holds[t] = {}
  /\ pc[t] = "insert" => holds[t] = IF req[t].op = "login" THEN {} ELSE {req[t].token}
  /\ pc[t] = "touch"  => holds[t] = {req[t].token, "KEY SHARE"}
  /\ pc[t] \in {"tokens", "sessions"} /\ req[t].op = "logout" => req[t].session \in holds[t]
LocksExclude == \A t, o \in Txs : t # o => \A i \in holds[t], j \in holds[o] : ~Conflict(i, j)

\* The place of a request tells what it asks for.
PlaceOf(op) ==
  CASE op = "none"    -> {"idle"}
    [] op = "login"   -> {"insert"}
    [] op = "refresh" -> {"reuse", "check", "take", "insert", "touch"}
    [] op = "logout"  -> {"session", "tokens"}
    [] op = "revoke"  -> {"user", "tokens", "sessions"}
PlacesFit == \A t \in Txs : pc[t] \in PlaceOf(req[t].op)

\* A row that a transaction holds is as its UPDATE found it: live, or active.
HeldAreUnrevoked ==
  \A t \in Txs :
    /\ \A k \in holds[t] \cap Tokens : token[k] = "live"
    /\ \A s \in holds[t] \cap Sessions : session[s] = "active"

\* The identities that requests have drawn are nobody else's.
DrawnAreFresh ==
  \A t \in Txs :
    /\ req[t].op \in {"login", "refresh"} =>
         token[req[t].new] = "none" /\ \A o \in Txs \ {t} : req[o].op \in {"login", "refresh"} => req[o].new # req[t].new
    /\ req[t].op = "login" =>
         session[req[t].session] = "none" /\ \A o \in Txs \ {t} : req[o].op = "login" => req[o].session # req[t].session

\* A token that exists belongs to a session that exists; requests name rows that exist.
TokensBelong == \A k \in Tokens : token[k] # "none" => of[k] \in Sessions /\ session[of[k]] # "none"
RequestedExist ==
  \A t \in Txs :
    /\ req[t].op = "refresh" => token[req[t].token] # "none"
    /\ req[t].op = "logout"  => session[req[t].session] # "none"
    /\ req[t].op = "revoke"  => \A s \in req[t].before : session[s] # "none"

\* While the sessions are revoked, none of those to end can get away.
RevocationCovers ==
  \A t \in Txs : pc[t] = "sessions" =>
    \A s \in req[t].before : session[s] = "revoked" \/ s \in todo[t] \/ s \in holds[t]

\* What OneLiveToken and EndedForGood come from.
LiveTokenIsAlone == \A k, l \in LiveTokens : of[k] = of[l] => k = l
EndedAreRevoked  == \A s \in ended : session[s] = "revoked"

SessionInv ==
  /\ TypeOK
  /\ PlacesFit
  /\ \A t \in Txs : HoldsByPlace(t)
  /\ LocksExclude
  /\ HeldAreUnrevoked
  /\ DrawnAreFresh
  /\ TokensBelong
  /\ RequestedExist
  /\ RevocationCovers
  /\ LiveTokenIsAlone
  /\ EndedAreRevoked

\* Claimed by the documentation: a session whose logout was answered is over.
LogoutEndsSession == \A s \in told : ~Usable(s)

\* Claimed by the documentation: once the password has changed, no session opened with the old one
\* is left.
NoSessionOfOldPassword == \A s \in Sessions : Usable(s) => opened[s] = password
=============================================================================
