-------------------------- MODULE AuthSessionsProofs --------------------------
(***************************************************************************)
(* Proofs about AuthSessions, for any numbers of sessions, tokens and      *)
(* concurrent requests: the inductive invariant SessionInv, what follows   *)
(* from it, and the refinement of SessionLifecycle.                        *)
(***************************************************************************)
EXTENDS AuthSessions, FiniteSetTheorems, TLAPS

\* What a request of each kind carries.
LEMMA RequestFields ==
  ASSUME TypeOK, NEW t \in Txs
  PROVE  /\ req[t].op \in {"none", "login", "refresh", "logout", "revoke"}
         /\ req[t].op = "login"   => req[t].session \in Sessions /\ req[t].new \in Tokens /\ req[t].password \in Nat
         /\ req[t].op = "refresh" => req[t].token \in Tokens /\ req[t].new \in Tokens
         /\ req[t].op = "logout"  => req[t].session \in Sessions
         /\ req[t].op = "revoke"  => req[t].change \in Changes /\ req[t].before \subseteq Sessions
<1>1. req[t] \in Requests
  BY DEF TypeOK
<1> QED BY <1>1 DEF Requests

\* Where a request is tells its kind.
LEMMA OpAt ==
  ASSUME TypeOK, PlacesFit, NEW t \in Txs
  PROVE  /\ pc[t] = "idle" => req[t].op = "none"
         /\ pc[t] = "insert" => req[t].op \in {"login", "refresh"}
         /\ pc[t] \in {"reuse", "check", "take", "touch"} => req[t].op = "refresh"
         /\ pc[t] = "session" => req[t].op = "logout"
         /\ pc[t] \in {"user", "sessions"} => req[t].op = "revoke"
         /\ pc[t] = "tokens" => req[t].op \in {"logout", "revoke"}
         /\ req[t].op = "none" => pc[t] = "idle"
BY RequestFields DEF PlacesFit, PlaceOf

\* Two transactions never hold the same row; conflicts are mutual.
LEMMA ConflictFacts ==
  /\ \A i \in Tokens \cup Sessions : Conflict(i, i)
  /\ \A i, j : Conflict(i, j) <=> Conflict(j, i)
BY RowsAssumption DEF Conflict, UserModes

\* Identities drawn stay fresh while neither requests nor rows change.
LEMMA FreshKept ==
  ASSUME DrawnAreFresh, req' = req, token' = token, session' = session
  PROVE  DrawnAreFresh'
BY DEF DrawnAreFresh

\* A row that can be locked is held by nobody else.
LEMMA LockableIsFree ==
  ASSUME NEW t \in Txs, NEW i, CanLock(t, i), NEW o \in Txs \ {t}
  PROVE  \A j \in holds[o] : ~Conflict(i, j) /\ ~Conflict(j, i)
BY ConflictFacts DEF CanLock, Holders

-----------------------------------------------------------------------------
\* There is nothing at the start.
LEMMA InitSessions == Init => SessionInv
<1> SUFFICES ASSUME Init PROVE SessionInv
  OBVIOUS
<1> USE DEF Init
<1>1. TypeOK
  BY DEF TypeOK, NoRequest, Requests
<1>2. PlacesFit
  BY DEF PlacesFit, PlaceOf, NoRequest
<1>3. \A t \in Txs : HoldsByPlace(t)
  BY DEF HoldsByPlace
<1>4. LocksExclude /\ HeldAreUnrevoked
  BY DEF LocksExclude, HeldAreUnrevoked
<1>5. DrawnAreFresh /\ RequestedExist /\ RevocationCovers
  BY DEF DrawnAreFresh, RequestedExist, RevocationCovers, NoRequest
<1>6. TokensBelong /\ LiveTokenIsAlone /\ EndedAreRevoked
  BY DEF TokensBelong, LiveTokenIsAlone, LiveTokens, EndedAreRevoked
<1> QED BY <1>1, <1>2, <1>3, <1>4, <1>5, <1>6 DEF SessionInv

-----------------------------------------------------------------------------
\* A transaction that goes on to its next statement, having locked more rows perhaps, changes no
\* table: what has to be seen is that it may hold what it holds there.
LEMMA GoOn ==
  ASSUME SessionInv, NEW t \in Txs,
         UNCHANGED <<tables, req, logs>>,
         pc' \in [Txs -> {"idle", "insert", "reuse", "check", "take", "touch", "session", "user", "tokens", "sessions"}],
         todo' \in [Txs -> SUBSET (Tokens \cup Sessions)],
         holds' \in [Txs -> SUBSET (Tokens \cup Sessions \cup UserModes)],
         \A o \in Txs \ {t} : pc'[o] = pc[o] /\ todo'[o] = todo[o] /\ holds'[o] = holds[o],
         pc'[t] \in PlaceOf(req[t].op), HoldsByPlace(t)',
         \A k \in holds'[t] \cap Tokens : token[k] = "live",
         \A s \in holds'[t] \cap Sessions : session[s] = "active",
         \A o \in Txs \ {t} : \A i \in holds'[t], j \in holds[o] : ~Conflict(i, j),
         pc'[t] = "sessions" =>
           \A s \in req[t].before : session[s] = "revoked" \/ s \in todo'[t] \/ s \in holds'[t]
  PROVE  SessionInv'
<1> USE DEF SessionInv
<1>0. token' = token /\ session' = session /\ of' = of /\ req' = req /\ ended' = ended
  BY DEF tables, logs
<1>1. TypeOK'
  BY <1>0 DEF TypeOK, tables, logs
<1>2. PlacesFit'
  BY <1>0 DEF PlacesFit, PlaceOf
<1>3. \A o \in Txs : HoldsByPlace(o)'
  <2> SUFFICES ASSUME NEW o \in Txs, o # t PROVE HoldsByPlace(o)'
    OBVIOUS
  <2>1. HoldsByPlace(o) /\ pc'[o] = pc[o] /\ holds'[o] = holds[o]
    OBVIOUS
  <2> QED BY <1>0, <2>1 DEF HoldsByPlace
<1>4. LocksExclude'
  <2> SUFFICES ASSUME NEW o \in Txs, NEW q \in Txs, o # q, NEW i \in holds'[o], NEW j \in holds'[q]
               PROVE  ~Conflict(i, j)
    BY DEF LocksExclude, Conflict
  <2>1. CASE o = t
    BY <2>1
  <2>2. CASE q = t
    <3>1. ~Conflict(j, i)
      BY <2>2
    <3> QED BY <3>1, ConflictFacts
  <2>3. CASE o # t /\ q # t
    BY <2>3 DEF LocksExclude
  <2> QED BY <2>1, <2>2, <2>3
<1>5. HeldAreUnrevoked'
  BY <1>0 DEF HeldAreUnrevoked
<1>6. DrawnAreFresh'
  BY <1>0, FreshKept
<1>7. RequestedExist'
  BY <1>0 DEF RequestedExist
<1>8. TokensBelong' /\ EndedAreRevoked'
  BY <1>0 DEF TokensBelong, EndedAreRevoked
<1>9. RevocationCovers'
  BY <1>0 DEF RevocationCovers
<1>10. LiveTokenIsAlone'
  BY <1>0 DEF LiveTokenIsAlone, LiveTokens
<1> QED BY <1>1, <1>2, <1>3, <1>4, <1>5, <1>6, <1>7, <1>8, <1>9, <1>10

\* A request that arrives has drawn identities of its own and names rows that exist.
LEMMA ArriveSessions ==
  ASSUME SessionInv, NEW t \in Txs, NEW r \in Requests, NEW at,
         Arrive(t, r, at),
         at \in PlaceOf(r.op), at \in {"insert", "reuse", "check", "session", "user"},
         at = "insert" => r.op = "login",
         r.op \in {"login", "refresh"} => r.new \in FreshTokens,
         r.op = "login"   => r.session \in FreshSessions,
         r.op = "refresh" => token[r.token] # "none",
         r.op = "logout"  => session[r.session] # "none",
         r.op = "revoke"  => \A s \in r.before : session[s] # "none"
  PROVE  SessionInv'
<1> USE DEF SessionInv
<1>0. /\ token' = token /\ session' = session /\ of' = of /\ ended' = ended /\ holds' = holds /\ todo' = todo
      /\ pc[t] = "idle" /\ pc' = [pc EXCEPT ![t] = at] /\ req' = [req EXCEPT ![t] = r] /\ holds[t] = {}
  BY DEF Arrive, tables, logs, HoldsByPlace
<1>1. TypeOK'
  BY <1>0 DEF Arrive, TypeOK, tables, logs
<1>2. PlacesFit'
  BY <1>0 DEF PlacesFit, TypeOK, PlaceOf
<1>3. \A o \in Txs : HoldsByPlace(o)'
  <2> SUFFICES ASSUME NEW o \in Txs PROVE HoldsByPlace(o)'
    OBVIOUS
  <2>1. CASE o = t
    BY <1>0, <2>1 DEF HoldsByPlace, TypeOK
  <2>2. CASE o # t
    <3>1. HoldsByPlace(o) /\ pc'[o] = pc[o] /\ req'[o] = req[o]
      BY <1>0, <2>2 DEF TypeOK
    <3> QED BY <1>0, <3>1 DEF HoldsByPlace
  <2> QED BY <2>1, <2>2
<1>4. LocksExclude' /\ HeldAreUnrevoked'
  BY <1>0 DEF LocksExclude, HeldAreUnrevoked, Conflict
<1>5. DrawnAreFresh'
  <2>1. req[t].op = "none"
    BY <1>0, OpAt
  <2>2. r.op \in {"login", "refresh"} =>
          token[r.new] = "none" /\ \A o \in Txs \ {t} : req[o].op \in {"login", "refresh"} => req[o].new # r.new
    BY DEF FreshTokens, Drawn
  <2>3. r.op = "login" =>
          session[r.session] = "none" /\ \A o \in Txs \ {t} : req[o].op = "login" => req[o].session # r.session
    BY DEF FreshSessions
  <2>4. req'[t] = r /\ \A o \in Txs \ {t} : req'[o] = req[o]
    BY <1>0 DEF TypeOK
  <2>5. ASSUME NEW q \in Txs, req'[q].op \in {"login", "refresh"}
        PROVE  /\ token[req'[q].new] = "none"
               /\ \A o \in Txs \ {q} : req'[o].op \in {"login", "refresh"} => req'[o].new # req'[q].new
    <3>1. CASE q = t
      BY <2>2, <2>4, <2>5, <3>1
    <3>2. CASE q # t
      BY <2>2, <2>4, <2>5, <3>2 DEF DrawnAreFresh
    <3> QED BY <3>1, <3>2
  <2>6. ASSUME NEW q \in Txs, req'[q].op = "login"
        PROVE  /\ session[req'[q].session] = "none"
               /\ \A o \in Txs \ {q} : req'[o].op = "login" => req'[o].session # req'[q].session
    <3>1. CASE q = t
      BY <2>3, <2>4, <2>6, <3>1
    <3>2. CASE q # t
      BY <2>3, <2>4, <2>6, <3>2 DEF DrawnAreFresh
    <3> QED BY <3>1, <3>2
  <2> QED BY <1>0, <2>5, <2>6 DEF DrawnAreFresh
<1>6. RequestedExist'
  BY <1>0 DEF RequestedExist, TypeOK
<1>7. RevocationCovers'
  BY <1>0 DEF RevocationCovers, TypeOK
<1>8. TokensBelong' /\ EndedAreRevoked'
  BY <1>0 DEF TokensBelong, EndedAreRevoked
<1>9. LiveTokenIsAlone'
  BY <1>0 DEF LiveTokenIsAlone, LiveTokens
<1> QED BY <1>1, <1>2, <1>3, <1>4, <1>5, <1>6, <1>7, <1>8, <1>9

\* A transaction that ends: it may change rows others neither hold nor have drawn, and takes no row
\* back from being there or from being revoked.
LEMMA EndSessions ==
  ASSUME SessionInv, NEW t \in Txs, End(t),
         token' \in [Tokens -> {"none", "live", "revoked"}],
         session' \in [Sessions -> {"none", "active", "revoked"}],
         of' \in [Tokens -> Sessions \cup {NoRow}],
         status' \in {"ACTIVE", "DISABLED"}, password' \in Nat,
         opened' \in [Sessions -> Nat], ended' \subseteq Sessions, told' \subseteq Sessions,
         \A o \in Txs \ {t} : \A k \in holds[o] \cap Tokens : token'[k] = token[k],
         \A o \in Txs \ {t} : \A s \in holds[o] \cap Sessions : session'[s] = session[s],
         \A o \in Txs \ {t} : req[o].op \in {"login", "refresh"} => token'[req[o].new] = token[req[o].new],
         \A o \in Txs \ {t} : req[o].op = "login" => session'[req[o].session] = session[req[o].session],
         \A k \in Tokens : token[k] # "none" => token'[k] # "none",
         \A s \in Sessions : session[s] # "none" => session'[s] # "none",
         \A s \in Sessions : session[s] = "revoked" => session'[s] = "revoked",
         TokensBelong', LiveTokenIsAlone', EndedAreRevoked'
  PROVE  SessionInv'
<1> USE DEF SessionInv
<1>0. /\ pc' = [pc EXCEPT ![t] = "idle"] /\ req' = [req EXCEPT ![t] = NoRequest]
      /\ todo' = [todo EXCEPT ![t] = {}] /\ holds' = [holds EXCEPT ![t] = {}]
  BY DEF End
<1>1. TypeOK'
  BY <1>0 DEF TypeOK, NoRequest, Requests
<1>a. /\ pc'[t] = "idle" /\ req'[t].op = "none" /\ holds'[t] = {}
      /\ \A o \in Txs \ {t} : pc'[o] = pc[o] /\ req'[o] = req[o] /\ todo'[o] = todo[o] /\ holds'[o] = holds[o]
  BY <1>0 DEF TypeOK, NoRequest
<1>2. PlacesFit'
  BY <1>a DEF PlacesFit, PlaceOf
<1>3. \A o \in Txs : HoldsByPlace(o)'
  <2> SUFFICES ASSUME NEW o \in Txs PROVE HoldsByPlace(o)'
    OBVIOUS
  <2>1. CASE o = t
    BY <1>a, <2>1 DEF HoldsByPlace
  <2>2. CASE o # t
    <3>1. HoldsByPlace(o) /\ pc'[o] = pc[o] /\ req'[o] = req[o] /\ holds'[o] = holds[o]
      BY <1>a, <2>2
    <3> QED BY <3>1 DEF HoldsByPlace
  <2> QED BY <2>1, <2>2
<1>4. LocksExclude'
  <2> SUFFICES ASSUME NEW o \in Txs, NEW q \in Txs, o # q, NEW i \in holds'[o], NEW j \in holds'[q]
               PROVE  ~Conflict(i, j)
    BY DEF LocksExclude, Conflict
  <2>1. o # t /\ q # t
    BY <1>a
  <2> QED BY <1>a, <2>1 DEF LocksExclude
<1>5. HeldAreUnrevoked'
  BY <1>a DEF HeldAreUnrevoked
<1>6. DrawnAreFresh'
  BY <1>a DEF DrawnAreFresh
<1>7. RequestedExist'
  <2> SUFFICES ASSUME NEW o \in Txs \ {t}
               PROVE  /\ req[o].op = "refresh" => token'[req[o].token] # "none"
                      /\ req[o].op = "logout"  => session'[req[o].session] # "none"
                      /\ req[o].op = "revoke"  => \A s \in req[o].before : session'[s] # "none"
    BY <1>a DEF RequestedExist
  <2> QED BY RequestFields DEF RequestedExist
<1>8. RevocationCovers'
  <2> SUFFICES ASSUME NEW o \in Txs \ {t}, pc[o] = "sessions", NEW s \in req[o].before
               PROVE  session'[s] = "revoked" \/ s \in todo[o] \/ s \in holds[o]
    BY <1>a DEF RevocationCovers
  <2>1. s \in Sessions
    BY OpAt, RequestFields
  <2> QED BY <2>1 DEF RevocationCovers
<1> QED BY <1>1, <1>2, <1>3, <1>4, <1>5, <1>6, <1>7, <1>8

\* A rollback, or a commit that changed nothing.
LEMMA RollbackSessions ==
  ASSUME SessionInv, NEW t \in Txs, End(t), UNCHANGED <<tables, opened, ended>>, told' \subseteq Sessions
  PROVE  SessionInv'
<1> USE DEF SessionInv
<1>0. /\ token' = token /\ session' = session /\ of' = of /\ ended' = ended /\ opened' = opened
      /\ status' = status /\ password' = password
  BY DEF tables
<1>1. TokensBelong' /\ EndedAreRevoked'
  BY <1>0 DEF TokensBelong, EndedAreRevoked
<1>2. LiveTokenIsAlone'
  BY <1>0 DEF LiveTokenIsAlone, LiveTokens
<1>3. TypeOK
  OBVIOUS
<1> QED BY <1>0, <1>1, <1>2, <1>3, EndSessions DEF TypeOK

-----------------------------------------------------------------------------
\* The four kinds of request arrive.
LEMMA ArrivalSessions ==
  ASSUME SessionInv, NEW t \in Txs,
         LoginArrives(t) \/ RefreshArrives(t) \/ LogoutArrives(t) \/ RevokeArrives(t)
  PROVE  SessionInv'
<1>0. TypeOK
  BY DEF SessionInv
<1>1. CASE LoginArrives(t)
  <2>1. PICK s \in FreshSessions, k \in FreshTokens :
          Arrive(t, [op |-> "login", session |-> s, new |-> k, password |-> password], "insert")
    BY <1>1 DEF LoginArrives
  <2> DEFINE r == [op |-> "login", session |-> s, new |-> k, password |-> password]
  <2>2. r \in Requests
    BY <1>0 DEF Requests, FreshSessions, FreshTokens, TypeOK
  <2> QED BY <2>1, <2>2, ArriveSessions DEF PlaceOf
<1>2. CASE RefreshArrives(t)
  <2>1. PICK k \in Tokens, n \in FreshTokens, at \in {"reuse", "check"} :
          token[k] # "none" /\ Arrive(t, [op |-> "refresh", token |-> k, new |-> n], at)
    BY <1>2 DEF RefreshArrives
  <2> DEFINE r == [op |-> "refresh", token |-> k, new |-> n]
  <2>2. r \in Requests
    BY DEF Requests, FreshTokens
  <2> QED BY <2>1, <2>2, ArriveSessions DEF PlaceOf
<1>3. CASE LogoutArrives(t)
  <2>1. PICK s \in ActiveSessions : Arrive(t, [op |-> "logout", session |-> s], "session")
    BY <1>3 DEF LogoutArrives
  <2> DEFINE r == [op |-> "logout", session |-> s]
  <2>2. r \in Requests /\ session[s] # "none"
    BY DEF Requests, ActiveSessions
  <2> QED BY <2>1, <2>2, ArriveSessions DEF PlaceOf
<1>4. CASE RevokeArrives(t)
  <2> DEFINE b == {s \in Sessions : session[s] # "none"}
  <2>1. PICK c \in Changes : Arrive(t, [op |-> "revoke", change |-> c, before |-> b], "user")
    BY <1>4 DEF RevokeArrives
  <2> DEFINE r == [op |-> "revoke", change |-> c, before |-> b]
  <2>2. r \in Requests /\ \A s \in b : session[s] # "none"
    BY DEF Requests
  <2> QED BY <2>1, <2>2, ArriveSessions DEF PlaceOf
<1> QED BY <1>1, <1>2, <1>3, <1>4

\* A rotation locks its token, and then the account's row.
LEMMA RotationSessions ==
  ASSUME SessionInv, NEW t \in Txs, CheckSession(t) \/ TakeToken(t) \/ InsertSuccessor(t)
  PROVE  SessionInv'
<1> USE DEF SessionInv
<1>0. pc[t] \in {"check", "take"} \/ (pc[t] = "insert" /\ req[t].op = "refresh")
  BY DEF CheckSession, TakeToken, InsertSuccessor
<1>1. req[t].op = "refresh" /\ req[t].token \in Tokens
  BY <1>0, OpAt, RequestFields
<1>2. UNCHANGED <<tables, req, logs>> /\ req' = req
  BY DEF CheckSession, TakeToken, InsertSuccessor
<1>3. CASE CheckSession(t)
  <2>1. /\ pc' = [pc EXCEPT ![t] = "take"] /\ todo' = [todo EXCEPT ![t] = {}] /\ holds' = holds
        /\ holds[t] = {}
    BY <1>3 DEF CheckSession, Goto, HoldsByPlace
  <2>2. pc'[t] = "take" /\ holds'[t] = {}
    BY <2>1 DEF TypeOK
  <2>3. pc'[t] \in PlaceOf(req[t].op) /\ HoldsByPlace(t)'
    BY <1>1, <1>2, <2>2 DEF PlaceOf, HoldsByPlace
  <2> QED BY <1>2, <2>1, <2>2, <2>3, GoOn DEF TypeOK
<1>4. CASE TakeToken(t)
  <2>1. holds[t] = {} /\ CanLock(t, req[t].token) /\ token[req[t].token] = "live"
    BY <1>4 DEF TakeToken, Lock, HoldsByPlace, StillLive
  <2>2. /\ pc' = [pc EXCEPT ![t] = "insert"] /\ todo' = [todo EXCEPT ![t] = {}]
        /\ holds' = [holds EXCEPT ![t] = {req[t].token}]
    BY <1>4, <2>1 DEF TakeToken, Goto, Lock
  <2>3. pc'[t] = "insert" /\ holds'[t] = {req[t].token}
    BY <2>2 DEF TypeOK
  <2>4. pc'[t] \in PlaceOf(req[t].op) /\ HoldsByPlace(t)'
    BY <1>1, <1>2, <2>3 DEF PlaceOf, HoldsByPlace
  <2>5. \A o \in Txs \ {t} : \A i \in holds'[t], j \in holds[o] : ~Conflict(i, j)
    BY <2>1, <2>3, LockableIsFree
  <2>6. holds'[t] \cap Sessions = {} /\ \A k \in holds'[t] : token[k] = "live"
    BY <1>1, <2>1, <2>3, RowsAssumption
  <2> QED BY <1>1, <1>2, <2>2, <2>3, <2>4, <2>5, <2>6, GoOn DEF TypeOK
<1>5. CASE InsertSuccessor(t)
  <2>1. holds[t] = {req[t].token} /\ CanLock(t, "KEY SHARE")
    BY <1>0, <1>1, <1>5 DEF InsertSuccessor, Lock, HoldsByPlace
  <2>2. /\ pc' = [pc EXCEPT ![t] = "touch"] /\ todo' = [todo EXCEPT ![t] = {}]
        /\ holds' = [holds EXCEPT ![t] = holds[t] \cup {"KEY SHARE"}]
    BY <1>5 DEF InsertSuccessor, Goto, Lock
  <2>3. pc'[t] = "touch" /\ holds'[t] = {req[t].token, "KEY SHARE"}
    BY <2>1, <2>2 DEF TypeOK
  <2>4. pc'[t] \in PlaceOf(req[t].op) /\ HoldsByPlace(t)'
    BY <1>1, <1>2, <2>3 DEF PlaceOf, HoldsByPlace
  <2>5. \A o \in Txs \ {t} : \A i \in holds'[t], j \in holds[o] : ~Conflict(i, j)
    BY <2>1, <2>3, LockableIsFree DEF LocksExclude
  <2>6. token[req[t].token] = "live"
    BY <1>1, <2>1 DEF HeldAreUnrevoked
  <2>7. holds'[t] \cap Sessions = {} /\ \A k \in holds'[t] \cap Tokens : token[k] = "live"
    BY <1>1, <2>3, <2>6, RowsAssumption DEF UserModes
  <2>8. holds'[t] \subseteq Tokens \cup Sessions \cup UserModes
    BY <1>1, <2>3 DEF UserModes
  <2> QED BY <1>2, <2>2, <2>3, <2>4, <2>5, <2>7, <2>8, GoOn DEF TypeOK
<1> QED BY <1>3, <1>4, <1>5

\* A logout locks its session, a revocation the account's row; the rows of the next UPDATE are found.
LEMMA RevocationStarts ==
  ASSUME SessionInv, NEW t \in Txs, LogoutTakesSession(t) \/ RevokeTakesUser(t) \/ RevokeStartsSessions(t)
  PROVE  SessionInv'
<1> USE DEF SessionInv
<1>1. UNCHANGED <<tables, req, logs>> /\ req' = req
  BY DEF LogoutTakesSession, RevokeTakesUser, RevokeStartsSessions
<1>2. CASE LogoutTakesSession(t)
  <2>1. req[t].op = "logout" /\ req[t].session \in Sessions
    BY <1>2, OpAt, RequestFields DEF LogoutTakesSession
  <2>2. holds[t] = {} /\ CanLock(t, req[t].session) /\ session[req[t].session] = "active"
    BY <1>2 DEF LogoutTakesSession, Lock, HoldsByPlace
  <2>3. /\ pc' = [pc EXCEPT ![t] = "tokens"]
        /\ todo' = [todo EXCEPT ![t] = {k \in LiveTokens : of[k] = req[t].session}]
        /\ holds' = [holds EXCEPT ![t] = {req[t].session}]
    BY <1>2, <2>2 DEF LogoutTakesSession, Goto, Lock
  <2>4. pc'[t] = "tokens" /\ holds'[t] = {req[t].session}
    BY <2>3 DEF TypeOK
  <2>5. pc'[t] \in PlaceOf(req[t].op) /\ HoldsByPlace(t)'
    BY <1>1, <2>1, <2>4 DEF PlaceOf, HoldsByPlace
  <2>6. \A o \in Txs \ {t} : \A i \in holds'[t], j \in holds[o] : ~Conflict(i, j)
    BY <2>2, <2>4, LockableIsFree
  <2>7. holds'[t] \cap Tokens = {} /\ \A s \in holds'[t] : session[s] = "active"
    BY <2>1, <2>2, <2>4, RowsAssumption
  <2>8. {k \in LiveTokens : of[k] = req[t].session} \subseteq Tokens
    BY DEF LiveTokens
  <2> QED BY <1>1, <2>1, <2>3, <2>4, <2>5, <2>6, <2>7, <2>8, GoOn DEF TypeOK
<1>3. CASE RevokeTakesUser(t)
  <2>1. req[t].op = "revoke"
    BY <1>3, OpAt DEF RevokeTakesUser
  <2>2. holds[t] = {} /\ CanLock(t, UserLock(t))
    BY <1>3 DEF RevokeTakesUser, Lock, HoldsByPlace
  <2>3. /\ pc' = [pc EXCEPT ![t] = "tokens"] /\ todo' = [todo EXCEPT ![t] = LiveTokens]
        /\ holds' = [holds EXCEPT ![t] = {UserLock(t)}]
    BY <1>3, <2>2 DEF RevokeTakesUser, Goto, Lock
  <2>4. pc'[t] = "tokens" /\ holds'[t] = {UserLock(t)}
    BY <2>3 DEF TypeOK
  <2>5. pc'[t] \in PlaceOf(req[t].op) /\ HoldsByPlace(t)'
    BY <1>1, <2>1, <2>4 DEF PlaceOf, HoldsByPlace
  <2>6. \A o \in Txs \ {t} : \A i \in holds'[t], j \in holds[o] : ~Conflict(i, j)
    BY <2>2, <2>4, LockableIsFree
  <2>7. holds'[t] \subseteq UserModes /\ LiveTokens \subseteq Tokens
    BY <2>4 DEF LiveTokens, UserLock, UserModes
  <2>8. holds'[t] \cap Tokens = {} /\ holds'[t] \cap Sessions = {}
    BY <2>7, RowsAssumption
  <2> QED BY <1>1, <2>3, <2>4, <2>5, <2>6, <2>7, <2>8, GoOn DEF TypeOK
<1>4. CASE RevokeStartsSessions(t)
  <2>1. req[t].op = "revoke" /\ req[t].before \subseteq Sessions
    BY <1>4, RequestFields DEF RevokeStartsSessions
  <2>2. pc' = [pc EXCEPT ![t] = "sessions"] /\ todo' = [todo EXCEPT ![t] = ActiveSessions] /\ holds' = holds
    BY <1>4 DEF RevokeStartsSessions, Goto, SessionsToRevoke
  <2>3. pc'[t] = "sessions" /\ todo'[t] = ActiveSessions /\ holds'[t] = holds[t]
    BY <2>2 DEF TypeOK
  <2>4. pc'[t] \in PlaceOf(req[t].op) /\ HoldsByPlace(t)'
    BY <1>1, <2>1, <2>3 DEF PlaceOf, HoldsByPlace
  <2>5. \A s \in req[t].before : session[s] = "revoked" \/ s \in todo'[t]
    <3> SUFFICES ASSUME NEW s \in req[t].before PROVE session[s] = "revoked" \/ s \in ActiveSessions
      BY <2>3
    <3>1. s \in Sessions /\ session[s] # "none"
      BY <2>1 DEF RequestedExist
    <3> QED BY <3>1 DEF ActiveSessions, TypeOK
  <2>6. ActiveSessions \subseteq Sessions
    BY DEF ActiveSessions
  <2>7. \A o \in Txs \ {t} : \A i \in holds'[t], j \in holds[o] : ~Conflict(i, j)
    BY <2>3 DEF LocksExclude
  <2>8. (\A k \in holds'[t] \cap Tokens : token[k] = "live") /\ (\A s \in holds'[t] \cap Sessions : session[s] = "active")
    BY <2>3 DEF HeldAreUnrevoked
  <2> QED BY <1>1, <2>2, <2>3, <2>4, <2>5, <2>6, <2>7, <2>8, GoOn DEF TypeOK
<1> QED BY <1>2, <1>3, <1>4

\* An UPDATE takes the next row or skips it.
LEMMA RevokeRowSessions ==
  ASSUME SessionInv, NEW t \in Txs, NEW i, RevokeRow(t, i)
  PROVE  SessionInv'
<1> USE DEF SessionInv
<1>1. /\ pc[t] \in {"tokens", "sessions"} /\ i \in todo[t] /\ CanLock(t, i)
      /\ UNCHANGED <<tables, req, logs>> /\ req' = req /\ pc' = pc
      /\ todo' = [todo EXCEPT ![t] = @ \ {i}]
      /\ holds' = [holds EXCEPT ![t] = IF Unrevoked(i) THEN @ \cup {i} ELSE @]
  BY DEF RevokeRow, tables, logs
<1>2. i \in Tokens \cup Sessions
  BY <1>1 DEF TypeOK
<1>3. /\ todo'[t] = todo[t] \ {i}
      /\ holds'[t] = IF Unrevoked(i) THEN holds[t] \cup {i} ELSE holds[t]
  BY <1>1 DEF TypeOK
<1>4. pc'[t] \in PlaceOf(req[t].op)
  BY <1>1 DEF PlacesFit
<1>5. HoldsByPlace(t)'
  <2>1. pc'[t] \in {"tokens", "sessions"} /\ (req[t].op = "logout" => req[t].session \in holds[t])
    BY <1>1 DEF HoldsByPlace
  <2>2. req[t].op = "logout" => req[t].session \in holds'[t]
    BY <1>3, <2>1
  <2> QED BY <1>1, <2>1, <2>2 DEF HoldsByPlace
<1>6. \A k \in holds'[t] \cap Tokens : token[k] = "live"
  BY <1>3, RowsAssumption DEF Unrevoked, LiveTokens, ActiveSessions, HeldAreUnrevoked
<1>7. \A s \in holds'[t] \cap Sessions : session[s] = "active"
  BY <1>3, RowsAssumption DEF Unrevoked, LiveTokens, ActiveSessions, HeldAreUnrevoked
<1>8. \A o \in Txs \ {t} : \A h \in holds'[t], j \in holds[o] : ~Conflict(h, j)
  <2> SUFFICES ASSUME NEW o \in Txs \ {t}, NEW h \in holds'[t], NEW j \in holds[o] PROVE ~Conflict(h, j)
    OBVIOUS
  <2>1. CASE h \in holds[t]
    BY <2>1 DEF LocksExclude
  <2>2. CASE h = i
    BY <1>1, <2>2, LockableIsFree
  <2> QED BY <1>3, <2>1, <2>2
<1>9. pc'[t] = "sessions" => \A s \in req[t].before : session[s] = "revoked" \/ s \in todo'[t] \/ s \in holds'[t]
  <2> SUFFICES ASSUME pc[t] = "sessions", NEW s \in req[t].before
               PROVE  session[s] = "revoked" \/ s \in todo'[t] \/ s \in holds'[t]
    BY <1>1
  <2>1. s \in Sessions /\ session[s] \in {"active", "revoked"}
    BY OpAt, RequestFields DEF RequestedExist, TypeOK
  <2>2. CASE s = i
    BY <1>3, <2>1, <2>2 DEF Unrevoked, ActiveSessions
  <2>3. CASE s # i
    BY <1>3, <2>3 DEF RevocationCovers
  <2> QED BY <2>2, <2>3
<1>10. /\ todo' \in [Txs -> SUBSET (Tokens \cup Sessions)]
       /\ holds' \in [Txs -> SUBSET (Tokens \cup Sessions \cup UserModes)]
       /\ \A o \in Txs \ {t} : todo'[o] = todo[o] /\ holds'[o] = holds[o]
  BY <1>1, <1>2 DEF TypeOK
<1> QED BY <1>1, <1>4, <1>5, <1>6, <1>7, <1>8, <1>9, <1>10, GoOn DEF TypeOK

-----------------------------------------------------------------------------
\* A login adds a session and a token that were not there.
LEMMA LoginSessions ==
  ASSUME SessionInv, NEW t \in Txs, LoginInserts(t)
  PROVE  SessionInv'
<1> USE DEF SessionInv
<1> DEFINE s == req[t].session
           k == req[t].new
<1>1. s \in Sessions /\ k \in Tokens /\ req[t].password \in Nat
  BY RequestFields DEF LoginInserts
<1>2. /\ session[s] = "none" /\ token[k] = "none"
      /\ \A o \in Txs \ {t} : req[o].op \in {"login", "refresh"} => req[o].new # k
      /\ \A o \in Txs \ {t} : req[o].op = "login" => req[o].session # s
  BY DEF LoginInserts, DrawnAreFresh
<1>3. /\ session' = [session EXCEPT ![s] = "active"] /\ token' = [token EXCEPT ![k] = "live"]
      /\ of' = [of EXCEPT ![k] = s] /\ opened' = [opened EXCEPT ![s] = req[t].password]
      /\ status' = status /\ password' = password /\ ended' = ended /\ told' = told /\ End(t)
  BY DEF LoginInserts
<1> HIDE DEF s, k
<1>4. /\ session' \in [Sessions -> {"none", "active", "revoked"}]
      /\ token' \in [Tokens -> {"none", "live", "revoked"}]
      /\ of' \in [Tokens -> Sessions \cup {NoRow}]
      /\ opened' \in [Sessions -> Nat]
      /\ status' \in {"ACTIVE", "DISABLED"} /\ password' \in Nat /\ ended' \subseteq Sessions /\ told' \subseteq Sessions
  BY <1>1, <1>3 DEF TypeOK
<1>5. \A o \in Txs \ {t} : \A l \in holds[o] \cap Tokens : token'[l] = token[l]
  BY <1>2, <1>3 DEF HeldAreUnrevoked, TypeOK
<1>6. \A o \in Txs \ {t} : \A z \in holds[o] \cap Sessions : session'[z] = session[z]
  BY <1>2, <1>3 DEF HeldAreUnrevoked, TypeOK
<1>7. /\ \A o \in Txs \ {t} : req[o].op \in {"login", "refresh"} => token'[req[o].new] = token[req[o].new]
      /\ \A o \in Txs \ {t} : req[o].op = "login" => session'[req[o].session] = session[req[o].session]
  BY <1>2, <1>3, RequestFields DEF TypeOK
<1>8. /\ \A l \in Tokens : token[l] # "none" => token'[l] # "none"
      /\ \A z \in Sessions : session[z] # "none" => session'[z] # "none"
      /\ \A z \in Sessions : session[z] = "revoked" => session'[z] = "revoked"
  BY <1>2, <1>3 DEF TypeOK
<1>9. TokensBelong'
  <2> SUFFICES ASSUME NEW l \in Tokens, token'[l] # "none"
               PROVE  of'[l] \in Sessions /\ session'[of'[l]] # "none"
    BY DEF TokensBelong
  <2>1. CASE l = k
    BY <1>1, <1>3, <2>1 DEF TypeOK
  <2>2. CASE l # k
    <3>1. token[l] # "none" /\ of'[l] = of[l]
      BY <1>1, <1>3, <2>2 DEF TypeOK
    <3> QED BY <1>8, <3>1 DEF TokensBelong
  <2> QED BY <2>1, <2>2
<1>10. LiveTokenIsAlone'
  <2>1. \A l \in Tokens : token[l] = "live" => of[l] # s
    BY <1>2 DEF TokensBelong
  <2>2. \A l \in Tokens \ {k} : token'[l] = token[l] /\ of'[l] = of[l]
    BY <1>1, <1>3 DEF TypeOK
  <2>3. of'[k] = s
    BY <1>1, <1>3 DEF TypeOK
  <2> QED BY <2>1, <2>2, <2>3 DEF LiveTokenIsAlone, LiveTokens
<1>11. EndedAreRevoked'
  BY <1>3, <1>8 DEF EndedAreRevoked, TypeOK
<1> QED BY <1>3, <1>4, <1>5, <1>6, <1>7, <1>8, <1>9, <1>10, <1>11, EndSessions

\* A reused token ends its session, which nobody else is holding.
LEMMA ReuseSessions ==
  ASSUME SessionInv, NEW t \in Txs, ReuseEndsSession(t)
  PROVE  SessionInv'
<1> USE DEF SessionInv
<1> DEFINE s == SessionOf(t)
<1>1. req[t].op = "refresh" /\ req[t].token \in Tokens /\ token[req[t].token] # "none"
  BY OpAt, RequestFields DEF ReuseEndsSession, RequestedExist
<1>2. s \in Sessions /\ session[s] # "none"
  BY <1>1 DEF SessionOf, TokensBelong
<1>3. /\ session' = [session EXCEPT ![s] = "revoked"] /\ token' = token /\ of' = of /\ opened' = opened
      /\ status' = status /\ password' = password /\ ended' = ended \cup {s} /\ told' = told /\ End(t)
      /\ CanLock(t, s)
  BY DEF ReuseEndsSession
<1> HIDE DEF s
<1>4. /\ session' \in [Sessions -> {"none", "active", "revoked"}]
      /\ token' \in [Tokens -> {"none", "live", "revoked"}]
      /\ of' \in [Tokens -> Sessions \cup {NoRow}]
      /\ opened' \in [Sessions -> Nat]
      /\ status' \in {"ACTIVE", "DISABLED"} /\ password' \in Nat /\ ended' \subseteq Sessions /\ told' \subseteq Sessions
  BY <1>2, <1>3 DEF TypeOK
<1>5. \A o \in Txs \ {t} : s \notin holds[o]
  BY <1>2, <1>3, LockableIsFree, ConflictFacts
<1>6. \A o \in Txs \ {t} : \A z \in holds[o] \cap Sessions : session'[z] = session[z]
  BY <1>3, <1>5 DEF TypeOK
<1>7. \A o \in Txs \ {t} : req[o].op = "login" => session'[req[o].session] = session[req[o].session]
  BY <1>2, <1>3, RequestFields DEF DrawnAreFresh, TypeOK
<1>8. /\ \A z \in Sessions : session[z] # "none" => session'[z] # "none"
      /\ \A z \in Sessions : session[z] = "revoked" => session'[z] = "revoked"
  BY <1>3 DEF TypeOK
<1>9. TokensBelong' /\ LiveTokenIsAlone'
  BY <1>3, <1>8 DEF TokensBelong, LiveTokenIsAlone, LiveTokens
<1>10. EndedAreRevoked'
  BY <1>2, <1>3, <1>8 DEF EndedAreRevoked, TypeOK
<1> QED BY <1>3, <1>4, <1>6, <1>7, <1>8, <1>9, <1>10, EndSessions

\* A refresh replaces the one live token of its session, which it holds, by another.
LEMMA RefreshSessions ==
  ASSUME SessionInv, NEW t \in Txs, CommitRefresh(t)
  PROVE  SessionInv'
<1> USE DEF SessionInv
<1> DEFINE old == req[t].token
           k == req[t].new
           s == SessionOf(t)
<1>1. req[t].op = "refresh" /\ old \in Tokens /\ k \in Tokens
  BY OpAt, RequestFields DEF CommitRefresh
<1>2. /\ token[k] = "none"
      /\ \A o \in Txs \ {t} : req[o].op \in {"login", "refresh"} => req[o].new # k
  BY <1>1 DEF DrawnAreFresh
<1>3. old \in holds[t]
  BY DEF CommitRefresh, HoldsByPlace
<1>4. token[old] = "live" /\ s = of[old]
  BY <1>1, <1>3 DEF HeldAreUnrevoked, SessionOf
<1>5. s \in Sessions /\ session[s] # "none"
  BY <1>1, <1>4 DEF TokensBelong
<1>6. /\ token' = [token EXCEPT ![old] = "revoked", ![k] = "live"] /\ of' = [of EXCEPT ![k] = s]
      /\ session' = session /\ opened' = opened
      /\ status' = status /\ password' = password /\ ended' = ended /\ told' = told /\ End(t)
  BY DEF CommitRefresh, logs
<1> HIDE DEF old, k, s
<1>7. /\ token' \in [Tokens -> {"none", "live", "revoked"}]
      /\ session' \in [Sessions -> {"none", "active", "revoked"}]
      /\ of' \in [Tokens -> Sessions \cup {NoRow}]
      /\ opened' \in [Sessions -> Nat]
      /\ status' \in {"ACTIVE", "DISABLED"} /\ password' \in Nat /\ ended' \subseteq Sessions /\ told' \subseteq Sessions
  BY <1>1, <1>5, <1>6 DEF TypeOK
<1>8. \A l \in Tokens \ {old, k} : token'[l] = token[l] /\ of'[l] = of[l]
  BY <1>6 DEF TypeOK
<1>9. /\ old # k /\ token'[old] = "revoked" /\ token'[k] = "live"
      /\ of'[old] = s /\ of'[k] = s
  BY <1>1, <1>2, <1>4, <1>6 DEF TypeOK
<1>10. \A o \in Txs \ {t} : \A l \in holds[o] \cap Tokens : token'[l] = token[l]
  <2> SUFFICES ASSUME NEW o \in Txs \ {t}, NEW l \in holds[o] \cap Tokens PROVE l # old /\ l # k
    BY <1>8
  <2>1. l # old
    BY <1>3, ConflictFacts DEF LocksExclude
  <2>2. l # k
    BY <1>2 DEF HeldAreUnrevoked
  <2> QED BY <2>1, <2>2
<1>11. \A o \in Txs \ {t} : req[o].op \in {"login", "refresh"} => token'[req[o].new] = token[req[o].new]
  <2> SUFFICES ASSUME NEW o \in Txs \ {t}, req[o].op \in {"login", "refresh"}
               PROVE  token'[req[o].new] = token[req[o].new]
    OBVIOUS
  <2>1. req[o].new \in Tokens /\ token[req[o].new] = "none"
    BY RequestFields DEF DrawnAreFresh
  <2>2. req[o].new # old /\ req[o].new # k
    BY <1>2, <1>4, <2>1
  <2> QED BY <1>8, <2>1, <2>2
<1>12. \A l \in Tokens : token[l] # "none" => token'[l] # "none"
  BY <1>8, <1>9
<1>13. TokensBelong'
  <2> SUFFICES ASSUME NEW l \in Tokens, token'[l] # "none"
               PROVE  of'[l] \in Sessions /\ session[of'[l]] # "none"
    BY <1>6 DEF TokensBelong
  <2>1. CASE l \in {old, k}
    BY <1>5, <1>9, <2>1
  <2>2. CASE l \notin {old, k}
    BY <1>8, <2>2 DEF TokensBelong
  <2> QED BY <2>1, <2>2
<1>14. LiveTokenIsAlone'
  <2>1. \A l \in Tokens \ {old} : token[l] = "live" => of[l] # s
    BY <1>1, <1>4 DEF LiveTokenIsAlone, LiveTokens
  <2> QED BY <1>8, <1>9, <2>1 DEF LiveTokenIsAlone, LiveTokens
<1>15. EndedAreRevoked'
  BY <1>6 DEF EndedAreRevoked
<1> QED BY <1>6, <1>7, <1>10, <1>11, <1>12, <1>13, <1>14, <1>15, EndSessions

\* A commit that revokes the rows held: they are nobody else's, and drawn by nobody.
LEMMA RevokeHeldSessions ==
  ASSUME SessionInv, NEW t \in Txs, NEW S \in SUBSET Sessions,
         CommitLogout(t) \/ CommitRevoke(t),
         ended' = ended \cup S,
         \A s \in S : session[s] = "revoked" \/ s \in holds[t]
  PROVE  SessionInv'
<1> USE DEF SessionInv
<1>1. /\ token'   = [k \in Tokens |-> IF k \in holds[t] THEN "revoked" ELSE token[k]]
      /\ session' = [s \in Sessions |-> IF s \in holds[t] THEN "revoked" ELSE session[s]]
      /\ of' = of /\ opened' = opened /\ End(t)
  BY DEF CommitLogout, CommitRevoke, RevokeHeld
<1>2. status' \in {"ACTIVE", "DISABLED"} /\ password' \in Nat
  BY DEF CommitLogout, CommitRevoke, NewStatus, TypeOK
<1>3. told' \subseteq Sessions
  <2>1. CASE CommitLogout(t)
    <3>1. req[t].op = "logout" /\ told' = told \cup {req[t].session}
      BY <2>1 DEF CommitLogout, LogoutAnswers
    <3> QED BY <3>1, RequestFields DEF TypeOK
  <2>2. CASE CommitRevoke(t)
    BY <2>2 DEF CommitRevoke, TypeOK
  <2> QED BY <2>1, <2>2
<1>4. /\ session' \in [Sessions -> {"none", "active", "revoked"}]
      /\ token' \in [Tokens -> {"none", "live", "revoked"}]
      /\ of' \in [Tokens -> Sessions \cup {NoRow}]
      /\ opened' \in [Sessions -> Nat]
      /\ ended' \subseteq Sessions
  BY <1>1 DEF TypeOK
<1>5. \A o \in Txs \ {t} : \A i \in holds[o] \cap (Tokens \cup Sessions) : i \notin holds[t]
  BY ConflictFacts DEF LocksExclude
<1>6. /\ \A o \in Txs \ {t} : \A k \in holds[o] \cap Tokens : token'[k] = token[k]
      /\ \A o \in Txs \ {t} : \A s \in holds[o] \cap Sessions : session'[s] = session[s]
  BY <1>1, <1>5
<1>7. /\ \A k \in Tokens : token[k] = "none" => k \notin holds[t]
      /\ \A s \in Sessions : session[s] = "none" => s \notin holds[t]
  BY DEF HeldAreUnrevoked
<1>8. \A o \in Txs \ {t} : req[o].op \in {"login", "refresh"} => token'[req[o].new] = token[req[o].new]
  BY <1>1, <1>7, RequestFields DEF DrawnAreFresh
<1>9. \A o \in Txs \ {t} : req[o].op = "login" => session'[req[o].session] = session[req[o].session]
  BY <1>1, <1>7, RequestFields DEF DrawnAreFresh
<1>10. /\ \A k \in Tokens : token[k] # "none" => token'[k] # "none"
       /\ \A s \in Sessions : session[s] # "none" => session'[s] # "none"
       /\ \A s \in Sessions : session[s] = "revoked" => session'[s] = "revoked"
  BY <1>1
<1>11. TokensBelong'
  BY <1>1, <1>7, <1>10 DEF TokensBelong
<1>12. LiveTokenIsAlone'
  <2>1. \A k \in Tokens : token'[k] = "live" => token[k] = "live"
    BY <1>1
  <2> QED BY <1>1, <2>1 DEF LiveTokenIsAlone, LiveTokens
<1>13. EndedAreRevoked'
  BY <1>1, <1>10 DEF EndedAreRevoked, TypeOK
<1> QED BY <1>1, <1>2, <1>3, <1>4, <1>6, <1>8, <1>9, <1>10, <1>11, <1>12, <1>13, EndSessions

\* A logout ends its session; a revocation every session it was to end.
LEMMA CommitSessions ==
  ASSUME SessionInv, NEW t \in Txs, CommitLogout(t) \/ CommitRevoke(t)
  PROVE  SessionInv'
<1> USE DEF SessionInv
<1>1. CASE CommitLogout(t)
  <2>1. req[t].op = "logout" /\ req[t].session \in Sessions /\ req[t].session \in holds[t]
    BY <1>1, RequestFields DEF CommitLogout, HoldsByPlace
  <2>2. ended' = ended \cup {req[t].session} /\ {req[t].session} \in SUBSET Sessions
    BY <1>1, <2>1 DEF CommitLogout
  <2> QED BY <1>1, <2>1, <2>2, RevokeHeldSessions
<1>2. CASE CommitRevoke(t)
  <2>1. req[t].op = "revoke" /\ req[t].before \in SUBSET Sessions /\ todo[t] = {} /\ pc[t] = "sessions"
    BY <1>2, OpAt, RequestFields DEF CommitRevoke
  <2>2. ended' = ended \cup req[t].before
    BY <1>2 DEF CommitRevoke
  <2>3. \A s \in req[t].before : session[s] = "revoked" \/ s \in holds[t]
    BY <2>1 DEF RevocationCovers
  <2> QED BY <1>2, <2>1, <2>2, <2>3, RevokeHeldSessions
<1> QED BY <1>1, <1>2

\* What ends without a change.
LEMMA RefusalSessions ==
  ASSUME SessionInv, NEW t \in Txs,
         RefuseRefresh(t) \/ LogoutFindsNone(t) \/ RevokesNothing(t) \/ Cancel(t) \/ Abort(t)
  PROVE  SessionInv'
<1> USE DEF SessionInv
<1>1. End(t) /\ UNCHANGED <<tables, opened, ended>>
  BY DEF RefuseRefresh, LogoutFindsNone, RevokesNothing, Cancel, Abort, Rollback, logs
<1>2. told' = told \/ (req[t].op = "logout" /\ told' = told \cup {req[t].session})
  <2>1. pc[t] = "session" => req[t].op = "logout"
    BY OpAt
  <2> QED BY <2>1 DEF RefuseRefresh, LogoutFindsNone, RevokesNothing, Cancel, Abort, Rollback, logs, LogoutAnswers
<1>3. told' \subseteq Sessions
  BY <1>2, RequestFields DEF TypeOK
<1> QED BY <1>1, <1>3, RollbackSessions

\* Nothing happens.
LEMMA StutterSessions == SessionInv /\ UNCHANGED vars => SessionInv'
<1> SUFFICES ASSUME SessionInv, UNCHANGED vars PROVE SessionInv'
  OBVIOUS
<1> USE DEF SessionInv
<1>1. /\ token' = token /\ session' = session /\ of' = of /\ ended' = ended /\ req' = req /\ pc' = pc
      /\ holds' = holds /\ todo' = todo /\ told' = told /\ opened' = opened /\ status' = status /\ password' = password
  BY DEF vars, tables, locals, logs
<1>2. TypeOK'
  BY <1>1 DEF TypeOK
<1>3. PlacesFit' /\ \A t \in Txs : HoldsByPlace(t)'
  BY <1>1 DEF PlacesFit, HoldsByPlace
<1>4. LocksExclude' /\ HeldAreUnrevoked'
  BY <1>1 DEF LocksExclude, Conflict, HeldAreUnrevoked
<1>5. DrawnAreFresh'
  BY <1>1, FreshKept
<1>6. RequestedExist'
  BY <1>1 DEF RequestedExist
<1>7. TokensBelong' /\ EndedAreRevoked'
  BY <1>1 DEF TokensBelong, EndedAreRevoked
<1>8. RevocationCovers'
  BY <1>1 DEF RevocationCovers
<1>9. LiveTokenIsAlone'
  BY <1>1 DEF LiveTokenIsAlone, LiveTokens
<1> QED BY <1>2, <1>3, <1>4, <1>5, <1>6, <1>7, <1>8, <1>9

LEMMA StepSessions == SessionInv /\ [Next]_vars => SessionInv'
<1> SUFFICES ASSUME SessionInv, Next PROVE SessionInv'
  BY StutterSessions
<1>1. PICK t \in Txs : \/ LoginArrives(t) \/ RefreshArrives(t) \/ LogoutArrives(t) \/ RevokeArrives(t)
                       \/ Step(t) \/ Cancel(t) \/ Abort(t)
  BY DEF Next
<1>2. CASE LoginArrives(t) \/ RefreshArrives(t) \/ LogoutArrives(t) \/ RevokeArrives(t)
  BY <1>2, ArrivalSessions
<1>3. CASE Step(t)
  <2>1. CASE LoginInserts(t)
    BY <2>1, LoginSessions
  <2>2. CASE ReuseEndsSession(t)
    BY <2>2, ReuseSessions
  <2>3. CASE CheckSession(t) \/ TakeToken(t) \/ InsertSuccessor(t)
    BY <2>3, RotationSessions
  <2>4. CASE CommitRefresh(t)
    BY <2>4, RefreshSessions
  <2>5. CASE RefuseRefresh(t) \/ LogoutFindsNone(t) \/ RevokesNothing(t)
    BY <2>5, RefusalSessions
  <2>6. CASE LogoutTakesSession(t) \/ RevokeTakesUser(t) \/ RevokeStartsSessions(t)
    BY <2>6, RevocationStarts
  <2>7. CASE CommitLogout(t) \/ CommitRevoke(t)
    BY <2>7, CommitSessions
  <2>8. CASE \E i \in Tokens \cup Sessions : RevokeRow(t, i)
    BY <2>8, RevokeRowSessions
  <2> QED BY <1>3, <2>1, <2>2, <2>3, <2>4, <2>5, <2>6, <2>7, <2>8 DEF Step
<1>4. CASE Cancel(t) \/ Abort(t)
  BY <1>4, RefusalSessions
<1> QED BY <1>1, <1>2, <1>3, <1>4

\* The inductive invariant holds for any numbers of sessions, tokens and requests.
THEOREM SessionInvariant == Spec => []SessionInv
BY InitSessions, StepSessions, PTL DEF Spec

\* Of two refreshes with the same token only one gets a successor (RotateRefreshTokenSession's
\* UPDATE ... AND revoked_at = 0), so a session never has two tokens that can be spent.
THEOREM NeverTwoTokens == Spec => []OneLiveToken
<1>1. SessionInv => OneLiveToken
  <2> SUFFICES ASSUME SessionInv, NEW s \in Sessions
               PROVE  Cardinality({k \in LiveTokens : of[k] = s}) <= 1
    BY DEF OneLiveToken
  <2> DEFINE K == {k \in LiveTokens : of[k] = s}
  <2>1. \A k, l \in K : k = l
    BY DEF SessionInv, LiveTokenIsAlone
  <2>2. CASE K = {}
    BY <2>2, FS_EmptySet
  <2>3. CASE K # {}
    <3>1. PICK k : K = {k}
      BY <2>1, <2>3
    <3> QED BY <3>1, FS_Singleton
  <2> QED BY <2>2, <2>3
<1> QED BY <1>1, SessionInvariant, PTL

\* A session ended by a committed logout, revocation or detected reuse stays over, whatever
\* rotations were in flight.
THEOREM NoSessionComesBack == Spec => []EndedForGood
<1>1. SessionInv => EndedForGood
  BY DEF SessionInv, EndedForGood, EndedAreRevoked, Usable
<1> QED BY <1>1, SessionInvariant, PTL

-----------------------------------------------------------------------------
\* What a session is to its owner (the refinement mapping).
life == [s \in Sessions |-> IF session[s] = "none" THEN "new" ELSE IF Usable(s) THEN "alive" ELSE "over"]

\* A login opens a session.
LEMMA LoginOpens ==
  ASSUME SessionInv, NEW t \in Txs, LoginInserts(t)
  PROVE  \E s \in Sessions : life[s] = "new" /\ life' = [life EXCEPT ![s] = "alive"]
<1> USE DEF SessionInv
<1>0. PICK s \in Sessions, k \in Tokens : s = req[t].session /\ k = req[t].new
  BY RequestFields DEF LoginInserts
<1>1. session[s] = "none" /\ token[k] = "none"
  BY <1>0 DEF LoginInserts, DrawnAreFresh
<1>2. /\ session' = [session EXCEPT ![s] = "active"] /\ token' = [token EXCEPT ![k] = "live"]
      /\ of' = [of EXCEPT ![k] = s]
  BY <1>0 DEF LoginInserts
<1>3. session'[s] = "active" /\ token'[k] = "live" /\ of'[k] = s
  BY <1>1, <1>2 DEF TypeOK
<1>4. Usable(s)'
  BY <1>1, <1>3 DEF Usable, LiveTokens
<1>5. ASSUME NEW z \in Sessions \ {s}
      PROVE  session'[z] = session[z] /\ (Usable(z)' <=> Usable(z))
  <2>1. session'[z] = session[z]
    BY <1>2 DEF TypeOK
  <2>2. \A l \in Tokens \ {k} : token'[l] = token[l] /\ of'[l] = of[l]
    BY <1>2 DEF TypeOK
  <2> QED BY <1>1, <1>3, <2>1, <2>2 DEF Usable, LiveTokens
<1>6. life[s] = "new" /\ life'[s] = "alive"
  BY <1>1, <1>3, <1>4 DEF life
<1>7. \A z \in Sessions \ {s} : life'[z] = life[z]
  BY <1>5 DEF life
<1> QED BY <1>1, <1>6, <1>7 DEF life

\* Nothing else makes a session usable, or adds or removes one.
LEMMA OthersOnlyEnd ==
  ASSUME SessionInv, Next, \A t \in Txs : ~LoginInserts(t), NEW s \in Sessions
  PROVE  (session'[s] = "none" <=> session[s] = "none") /\ (Usable(s)' => Usable(s))
<1> USE DEF SessionInv
<1>1. PICK t \in Txs : \/ LoginArrives(t) \/ RefreshArrives(t) \/ LogoutArrives(t) \/ RevokeArrives(t)
                       \/ Step(t) \/ Cancel(t) \/ Abort(t)
  BY DEF Next
<1>2. CASE UNCHANGED tables
  BY <1>2 DEF tables, Usable, LiveTokens
<1>3. CASE ReuseEndsSession(t)
  BY <1>3, OpAt, RequestFields DEF ReuseEndsSession, Usable, LiveTokens, TypeOK, SessionOf, TokensBelong, RequestedExist
<1>4. CASE CommitRefresh(t)
  <2> DEFINE old == req[t].token
             k == req[t].new
  <2>1. req[t].op = "refresh" /\ old \in Tokens /\ k \in Tokens
    BY <1>4, OpAt, RequestFields DEF CommitRefresh
  <2>2. token[old] = "live"
    BY <1>4, <2>1 DEF CommitRefresh, HoldsByPlace, HeldAreUnrevoked
  <2>3. /\ session' = session
        /\ token' = [token EXCEPT ![old] = "revoked", ![k] = "live"] /\ of' = [of EXCEPT ![k] = of[old]]
    BY <1>4 DEF CommitRefresh, SessionOf
  <2> HIDE DEF old, k
  <2>4. ASSUME NEW l \in Tokens, token'[l] = "live", of'[l] = s
        PROVE  \E m \in Tokens : token[m] = "live" /\ of[m] = s
    <3>1. CASE l = k
      BY <2>1, <2>2, <2>3, <2>4, <3>1 DEF TypeOK
    <3>2. CASE l # k
      BY <2>3, <2>4, <3>2 DEF TypeOK
    <3> QED BY <3>1, <3>2
  <2> QED BY <2>3, <2>4 DEF Usable, LiveTokens
<1>5. CASE CommitLogout(t) \/ CommitRevoke(t)
  <2>1. /\ token'   = [k \in Tokens |-> IF k \in holds[t] THEN "revoked" ELSE token[k]]
        /\ session' = [z \in Sessions |-> IF z \in holds[t] THEN "revoked" ELSE session[z]]
        /\ of' = of
    BY <1>5 DEF CommitLogout, CommitRevoke, RevokeHeld
  <2>2. s \in holds[t] => session[s] = "active"
    BY DEF HeldAreUnrevoked
  <2> QED BY <2>1, <2>2 DEF Usable, LiveTokens
<1>6. CASE LoginArrives(t) \/ RefreshArrives(t) \/ LogoutArrives(t) \/ RevokeArrives(t)
  <2>1. UNCHANGED tables
    BY <1>6 DEF LoginArrives, RefreshArrives, LogoutArrives, RevokeArrives, Arrive
  <2> QED BY <1>2, <2>1
<1>7. CASE Step(t) /\ ~ReuseEndsSession(t) /\ ~CommitRefresh(t) /\ ~CommitLogout(t) /\ ~CommitRevoke(t)
  <2>1. UNCHANGED tables
    BY <1>7 DEF Step, CheckSession, TakeToken, InsertSuccessor, RefuseRefresh, LogoutTakesSession, LogoutFindsNone,
                RevokeTakesUser, RevokesNothing, RevokeStartsSessions, RevokeRow, Rollback
  <2> QED BY <1>2, <2>1
<1>8. CASE Cancel(t) \/ Abort(t)
  <2>1. UNCHANGED tables
    BY <1>8 DEF Cancel, Abort, Rollback
  <2> QED BY <1>2, <2>1
<1> QED BY <1>1, <1>3, <1>4, <1>5, <1>6, <1>7, <1>8

LEMMA StepLifecycle == SessionInv /\ [Next]_vars => [Lifecycle!LifecycleNext]_life
<1> SUFFICES ASSUME SessionInv, [Next]_vars
             PROVE  Lifecycle!LifecycleNext \/ life' = life
  BY DEF life
<1>1. CASE \E t \in Txs : LoginInserts(t)
  BY <1>1, LoginOpens DEF Lifecycle!LifecycleNext, Lifecycle!Open, life
<1>2. CASE Next /\ ~\E t \in Txs : LoginInserts(t)
  <2>0. PICK E \in SUBSET Sessions : E = {s \in Sessions : life[s] = "alive" /\ life'[s] = "over"}
    OBVIOUS
  <2>1. \A s \in Sessions : (session'[s] = "none" <=> session[s] = "none") /\ (Usable(s)' => Usable(s))
    BY <1>2, OthersOnlyEnd
  <2>2. \A s \in Sessions \ E : life'[s] = life[s]
    BY <2>0, <2>1 DEF life
  <2>3. life' = [s \in Sessions |-> IF s \in E THEN "over" ELSE life[s]]
    BY <2>0, <2>2 DEF life
  <2>4. Lifecycle!End(E)
    BY <2>0, <2>3 DEF Lifecycle!End, life
  <2> QED BY <2>4 DEF Lifecycle!LifecycleNext
<1>3. CASE UNCHANGED vars
  BY <1>3 DEF vars, tables, life, Usable, LiveTokens
<1> QED BY <1>1, <1>2, <1>3

\* The two tables keep the promise of SessionLifecycle: opened once, and never back once over.
THEOREM LifecycleRefinement == Spec => ImplementsLifecycle
<1>1. Init => Lifecycle!LifecycleInit
  BY DEF Init, Lifecycle!LifecycleInit
<1> QED BY <1>1, SessionInvariant, StepLifecycle, PTL
        DEF Spec, ImplementsLifecycle, Lifecycle!LifecycleSpec, life
=============================================================================
