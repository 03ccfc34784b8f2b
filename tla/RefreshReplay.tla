----------------------------- MODULE RefreshReplay -----------------------------
(***************************************************************************)
(* The replay cache in front of the rotation of refresh tokens             *)
(* (internal/httpapi/refresh_replay.go, refresh in handlers_auth.go).  A   *)
(* refresh token is good for one rotation, and one that is presented again *)
(* ends its session; so the first request with a token rotates it, those   *)
(* that come meanwhile wait for its result, and for a few seconds later    *)
(* ones are answered with it.  Revoking an account empties the cache.      *)
(*                                                                         *)
(* One session of one account.  Its rows change as in AuthSessions, whose  *)
(* locks are left out here: a statement either applies or fails.           *)
(***************************************************************************)
EXTENDS Naturals

CONSTANTS
  Requests,   \* requests POST /auth/refresh, each handled once
  Clients,    \* IP address and User-Agent
  MaxTokens,  \* bound: tokens of the session
  NoRequest

Tokens == 1..MaxTokens

ASSUME RequestsAssumption == NoRequest \notin Requests
ASSUME TokensAssumption   == MaxTokens \in Nat \ {0}

VARIABLES
  latest,     \* the newest token, which replaced the one before
  live,       \* the token that is not revoked, or 0
  alive,      \* auth_sessions.revoked_at = 0
  table,      \* refreshReplayCache.entries: who made the entry of a token and a client
  entry,      \* the entry a request has made, also once it has left the table
  place,      \* where each request is
  asks,       \* the token and the client of each
  waitsFor,   \* whose entry it waits for
  reply,      \* what it was answered
  leaving,    \* the session's revocation: "no", "tables" (committed), "done" (cache emptied)
  spentBy,    \* history: the request that rotated a token
  accused,    \* history: the requests that ended the session with a spent token
  missed      \* history: the rotations committed and not yet in the cache when it was emptied

tokens      == <<latest, live, alive, spentBy, accused>>
cache       == <<table, entry>>
callers     == <<place, asks, waitsFor, reply>>
revocation  == <<leaving, missed>>
replayVars  == <<tokens, cache, callers, revocation>>

Keys     == Tokens \X Clients
Rotating == {"read", "write", "committed", "undone"}

ReplayInit ==
  /\ latest = 1 /\ live = 1 /\ alive = TRUE
  /\ table = [k \in Keys |-> NoRequest]
  /\ entry = [r \in Requests |-> "none"]
  /\ place = [r \in Requests |-> "new"]
  /\ asks \in [Requests -> Keys]
  /\ waitsFor = [r \in Requests |-> NoRequest]
  /\ reply = [r \in Requests |-> "none"]
  /\ leaving = "no"
  /\ spentBy = [t \in Tokens |-> NoRequest]
  /\ accused = {} /\ missed = {}

Token(r) == asks[r][1]
Move(r, to) == place' = [place EXCEPT ![r] = to]

-----------------------------------------------------------------------------
\* do: the table is swept of expired entries; what is left under the key is waited for ...
Fresh(k) == table[k] # NoRequest /\ entry[table[k]] # "expired"
Swept    == [k \in Keys |-> IF Fresh(k) THEN table[k] ELSE NoRequest]

JoinsCompleted(r) == Fresh(asks[r]) /\ entry[table[asks[r]]] # "running"
Joins(r)          == Fresh(asks[r])

Join(r) ==
  /\ place[r] = "new" /\ Token(r) <= latest /\ Joins(r)
  /\ table' = Swept
  /\ waitsFor' = [waitsFor EXCEPT ![r] = table[asks[r]]]
  /\ Move(r, "wait")
  /\ UNCHANGED <<tokens, entry, asks, reply, revocation>>

\* ... or else the request makes an entry and rotates the token itself.
StartRotation(r) ==
  /\ place[r] = "new" /\ Token(r) <= latest /\ ~Joins(r)
  /\ table' = [Swept EXCEPT ![asks[r]] = r]
  /\ entry' = [entry EXCEPT ![r] = "running"]
  /\ Move(r, "read")
  /\ UNCHANGED <<tokens, asks, waitsFor, reply, revocation>>

\* RotateRefreshTokenSession reads the token: a revoked one ends the session (an error of that
\* UPDATE is ignored), a session that is over is refused.
ReadToken(r) ==
  /\ place[r] = "read" /\ Token(r) = live
  /\ Move(r, IF alive THEN "write" ELSE "undone")
  /\ UNCHANGED <<tokens, cache, asks, waitsFor, reply, revocation>>

Reuse(r) ==
  /\ place[r] = "read" /\ Token(r) # live
  /\ alive' = FALSE
  /\ accused' = IF alive THEN accused \cup {r} ELSE accused
  /\ Move(r, "undone")
  /\ UNCHANGED <<latest, live, spentBy, cache, asks, waitsFor, reply, revocation>>

\* UPDATE refresh_tokens ... WHERE revoked_at = 0, the successor, the commit; also after the session
\* was ended meanwhile by a reuse, which leaves tokens as they are.  The commit's answer may be lost.
CommitRotation(r) ==
  /\ place[r] = "write" /\ Token(r) = live /\ latest < MaxTokens
  /\ latest' = latest + 1 /\ live' = latest + 1
  /\ spentBy' = [spentBy EXCEPT ![live] = r]
  /\ \/ Move(r, "committed")
     \/ Move(r, "undone")
  /\ UNCHANGED <<alive, accused, cache, asks, waitsFor, reply, revocation>>

\* Another request was faster; or any statement fails, as all do when the caller has gone.
FailRotation(r) ==
  /\ place[r] \in {"read", "write"}
  /\ Move(r, "undone")
  /\ UNCHANGED <<tokens, cache, asks, waitsFor, reply, revocation>>

\* The entry is completed: a session is kept until its time is over, a failure is not.
Complete(r) ==
  /\ place[r] \in {"committed", "undone"}
  /\ entry' = [entry EXCEPT ![r] = IF place[r] = "committed" THEN "cached" ELSE "failed"]
  /\ table' = IF place[r] = "committed" THEN table ELSE [table EXCEPT ![asks[r]] = NoRequest]
  /\ reply' = [reply EXCEPT ![r] = IF place[r] = "committed" THEN "session" ELSE "refused"]
  /\ Move(r, "over")
  /\ UNCHANGED <<tokens, asks, waitsFor, revocation>>

Hear(r) ==
  /\ place[r] = "wait" /\ entry[waitsFor[r]] # "running"
  /\ reply' = [reply EXCEPT ![r] = IF entry[waitsFor[r]] \in {"cached", "expired"} THEN "session" ELSE "refused"]
  /\ Move(r, "over")
  /\ UNCHANGED <<tokens, cache, asks, waitsFor, revocation>>

\* The context of a request that waits is done.
LeaveWait(r) ==
  /\ place[r] = "wait"
  /\ Move(r, "over")
  /\ UNCHANGED <<tokens, cache, asks, waitsFor, reply, revocation>>

Expire(r) ==
  /\ entry[r] = "cached"
  /\ entry' = [entry EXCEPT ![r] = "expired"]
  /\ UNCHANGED <<tokens, table, callers, revocation>>

-----------------------------------------------------------------------------
\* invalidateUser drops the completed entries of the account; who waits for one learns it, too.
Listed == {r \in Requests : table[asks[r]] = r /\ entry[r] \in {"cached", "expired"}}
AfterDroppingUnmarked(r) == entry[r]
AfterDropping(r)         == IF r \in Listed THEN "invalidated" ELSE entry[r]

Invalidate ==
  /\ table' = [k \in Keys |-> IF table[k] \in Listed THEN NoRequest ELSE table[k]]
  /\ entry' = [r \in Requests |-> AfterDropping(r)]

\* Logout, a changed or reset password, an administrator: the session and its tokens are revoked,
\* then the cache is emptied.
Revoke ==
  /\ leaving = "no" /\ leaving' = "tables"
  /\ alive' = FALSE /\ live' = 0
  /\ UNCHANGED <<latest, spentBy, accused, cache, callers, missed>>

EmptyCache ==
  /\ leaving = "tables" /\ leaving' = "done"
  /\ missed' = {r \in Requests : place[r] = "committed"}
  /\ Invalidate
  /\ UNCHANGED <<tokens, callers>>

\* Another session of the account is logged out, which empties the cache for this one.
LogoutElsewhere ==
  /\ Invalidate
  /\ UNCHANGED <<tokens, callers, revocation>>

\* The server restarts.
Restart ==
  /\ table' = [k \in Keys |-> NoRequest]
  /\ entry' = [r \in Requests |-> IF entry[r] \in {"running", "cached"} THEN "lost" ELSE entry[r]]
  /\ place' = [r \in Requests |-> IF place[r] = "new" THEN "new" ELSE "over"]
  /\ UNCHANGED <<tokens, asks, waitsFor, reply, revocation>>

ReplayNext ==
  \/ \E r \in Requests :
       \/ Join(r) \/ StartRotation(r) \/ ReadToken(r) \/ Reuse(r) \/ CommitRotation(r) \/ FailRotation(r)
       \/ Complete(r) \/ Hear(r) \/ LeaveWait(r) \/ Expire(r)
  \/ Revoke \/ EmptyCache \/ LogoutElsewhere \/ Restart

ReplaySpec == ReplayInit /\ [][ReplayNext]_replayVars

-----------------------------------------------------------------------------
ReplayTypeOK ==
  /\ latest \in Tokens /\ live \in {0, latest} /\ alive \in BOOLEAN
  /\ table \in [Keys -> Requests \cup {NoRequest}]
  /\ entry \in [Requests -> {"none", "running", "cached", "expired", "invalidated", "failed", "lost"}]
  /\ place \in [Requests -> Rotating \cup {"new", "wait", "over"}]
  /\ asks \in [Requests -> Keys]
  /\ waitsFor \in [Requests -> Requests \cup {NoRequest}]
  /\ reply \in [Requests -> {"none", "session", "refused"}]
  /\ leaving \in {"no", "tables", "done"}
  /\ spentBy \in [Tokens -> Requests \cup {NoRequest}]
  /\ accused \subseteq Requests /\ missed \subseteq Requests

\* A client that sends its refresh token more than once does not lose its session: a token that was
\* taken for a reused one was rotated for another client, or in a rotation whose answer was lost or
\* is no longer kept because its time is over, the account emptied the cache or the server restarted.
ReuseExplained ==
  \A r \in accused : LET s == spentBy[Token(r)] IN
    /\ s # NoRequest
    /\ asks[s] = asks[r] => entry[s] \in {"expired", "invalidated", "failed", "lost"}

\* Once a revocation has emptied the cache, no request hears of a session but from a rotation that was
\* committed before the revocation and completed after the cache was emptied; or from an entry that
\* had run out of time before, when the request has waited for it for so long.
Source(r) == IF waitsFor[r] = NoRequest THEN r ELSE waitsFor[r]

NoSessionAfterRevocation ==
  [][\A r \in Requests : leaving = "done" /\ reply'[r] = "session" /\ reply[r] # "session" =>
       Source(r) \in missed \/ entry[Source(r)] = "expired"]_replayVars

\* What the table and the entries have to do with each other and with the tokens.
EntriesFit ==
  /\ \A k \in Keys : table[k] # NoRequest =>
       asks[table[k]] = k /\ entry[table[k]] \in {"running", "cached", "expired"}
  /\ \A r \in Requests :
       /\ entry[r] = "running" <=> place[r] \in Rotating
       /\ place[r] \in {"new", "wait"} => entry[r] = "none"
       /\ place[r] = "wait" => waitsFor[r] # NoRequest /\ asks[waitsFor[r]] = asks[r]
       /\ entry[r] \in {"running", "cached"} => table[asks[r]] = r
  /\ leaving # "no" => live = 0 /\ ~alive

TokensFit ==
  /\ live = 0 => ~alive
  /\ \A t \in Tokens : t < latest <=> spentBy[t] # NoRequest
  /\ \A t \in Tokens : spentBy[t] # NoRequest =>
       /\ Token(spentBy[t]) = t
       /\ entry[spentBy[t]] # "none" /\ place[spentBy[t]] \in {"committed", "undone", "over"}

\* What an answer can come from.
AnswersFit ==
  /\ \A r \in Requests :
       /\ place[r] # "new" => Token(r) <= latest
       /\ place[r] \in Rotating \cup {"new"} => waitsFor[r] = NoRequest
  /\ leaving = "done" => \A r \in Requests : place[r] = "committed" \/ entry[r] = "cached" => r \in missed

\* The inductive invariant.
ReplayInv == ReplayTypeOK /\ ReuseExplained /\ EntriesFit /\ TokensFit /\ AnswersFit
=============================================================================
