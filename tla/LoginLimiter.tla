------------------------------ MODULE LoginLimiter ------------------------------
(***************************************************************************)
(* The limiters in front of login (internal/httpapi/middleware.go, login   *)
(* in handlers_auth.go).  Each keeps windows of attempts in a map of       *)
(* bounded size.  The first counts every request of an address; the        *)
(* second one counts the wrong passwords for an identifier, is looked at   *)
(* before the password is verified and written after it, and forgets an    *)
(* identifier that has logged in.                                          *)
(***************************************************************************)
EXTENDS Naturals, FiniteSets

CONSTANTS
  Addresses,
  Identifiers,
  Logins,       \* requests POST /auth/login, handled at the same time
  AddressLimit, \* requests of an address in a window
  FailureLimit, \* wrong passwords for an identifier in a window
  Window,       \* ticks of a window
  MaxEntries,   \* of the map, 8192 in the code
  LastTick,     \* bound: ticks
  MaxVisits,    \* bound: requests of an address in a window
  NoIdentifier

ASSUME LoginsAssumption == IsFiniteSet(Logins) /\ NoIdentifier \notin Identifiers
ASSUME LimitsAssumption ==
  /\ AddressLimit \in Nat /\ FailureLimit \in Nat \ {0} /\ Window \in Nat \ {0}
  /\ MaxEntries \in Nat \ {0} /\ LastTick \in Nat /\ MaxVisits \in Nat

VARIABLES
  tick,     \* now
  visits,   \* limiter.clients, by address
  failures, \* loginFailLimiter.clients, by identifier
  verifying,\* the identifier whose password each request is verifying
  guesses   \* history: passwords tried since the identifier's window began, and those being tried
            \* as it did

limiterVars == <<tick, visits, failures, verifying, guesses>>

\* A map of windows: who has one, when it started, and what it has counted.
AreWindows(windows, K) ==
  /\ DOMAIN windows \subseteq K /\ IsFiniteSet(DOMAIN windows)
  /\ windows \in [DOMAIN windows -> [started : 0..LastTick, count : Nat]]
NoWindows == [k \in {} |-> 0]

LimiterInit ==
  /\ tick = 0
  /\ visits = NoWindows /\ failures = NoWindows
  /\ verifying = [h \in Logins |-> NoIdentifier]
  /\ guesses = [i \in Identifiers |-> 0]

-----------------------------------------------------------------------------
Current(windows, k) == k \in DOMAIN windows /\ tick - windows[k].started < Window
Only(windows, S)    == [k \in S |-> windows[k]]

\* ensureCapacity, when a window is to be added: a full map is swept of the windows that are over;
\* if it still is full, the oldest go until three quarters are left, at least one.
Unswept(windows) == {k \in DOMAIN windows : Current(windows, k)}
Greater(a, b)    == IF a > b THEN a ELSE b
Target           == Greater((MaxEntries * 3) \div 4, 1)

KeptAfterEviction(windows, size) ==
  {S \in SUBSET DOMAIN windows :
     /\ Cardinality(S) = size
     /\ \A k \in S, gone \in DOMAIN windows \ S : windows[gone].started <= windows[k].started}

\* What may be left of a map when room has been made.
WithRoomUnchecked(windows) == {windows}
WithRoom(windows) ==
  IF Cardinality(DOMAIN windows) < MaxEntries THEN {windows}
  ELSE LET swept == Only(windows, Unswept(windows))
       IN IF Cardinality(DOMAIN swept) < MaxEntries \/ Cardinality(DOMAIN swept) <= Target
          THEN {swept}
          ELSE {Only(swept, S) : S \in KeptAfterEviction(swept, Target)}

\* allow and recordFailure count in the current window or in a new one, for which room is made.
Put(windows, k, window) == [j \in DOMAIN windows \cup {k} |-> IF j = k THEN window ELSE windows[j]]
Counted(windows, k) ==
  IF Current(windows, k)
  THEN {Put(windows, k, [windows[k] EXCEPT !.count = @ + 1])}
  ELSE {Put(left, k, [started |-> tick, count |-> 1]) : left \in WithRoom(windows)}

InFlight(i) == Cardinality({h \in Logins : verifying[h] = i})

-----------------------------------------------------------------------------
\* authRateLimit counts the request of the address and lets it through or not; then login looks
\* whether the identifier is limited, and verifies the password.
LimitedNever(i) == FALSE
Limited(i)      == Current(failures, i) /\ failures[i].count >= FailureLimit

LetThrough(a) == visits'[a].count <= AddressLimit

Visit(a, h, i) ==
  /\ verifying[h] = NoIdentifier
  /\ Current(visits, a) => visits[a].count < MaxVisits
  /\ visits' \in Counted(visits, a)
  /\ IF LetThrough(a) /\ ~Limited(i)
     THEN /\ verifying' = [verifying EXCEPT ![h] = i]
          /\ guesses' = [guesses EXCEPT ![i] = @ + 1]
     ELSE UNCHANGED <<verifying, guesses>>
  /\ UNCHANGED <<tick, failures>>

\* recordFailure: the password was wrong, or the account is none or not active.
FailLogin(h) ==
  /\ verifying[h] # NoIdentifier
  /\ failures' \in Counted(failures, verifying[h])
  /\ verifying' = [verifying EXCEPT ![h] = NoIdentifier]
  /\ guesses' = [guesses EXCEPT ![verifying[h]] = IF Current(failures, verifying[h]) THEN @ ELSE InFlight(verifying[h])]
  /\ UNCHANGED <<tick, visits>>

\* reset: the password was right.
Succeed(h) ==
  /\ verifying[h] # NoIdentifier
  /\ failures' = Only(failures, DOMAIN failures \ {verifying[h]})
  /\ verifying' = [verifying EXCEPT ![h] = NoIdentifier]
  /\ guesses' = [guesses EXCEPT ![verifying[h]] = 0]
  /\ UNCHANGED <<tick, visits>>

Tick ==
  /\ tick < LastTick
  /\ tick' = tick + 1
  /\ UNCHANGED <<visits, failures, verifying, guesses>>

LimiterNext ==
  \/ \E h \in Logins :
       \/ \E a \in Addresses, i \in Identifiers : Visit(a, h, i)
       \/ FailLogin(h) \/ Succeed(h)
  \/ Tick

LimiterSpec == LimiterInit /\ [][LimiterNext]_limiterVars

-----------------------------------------------------------------------------
LimiterTypeOK ==
  /\ tick \in 0..LastTick
  /\ AreWindows(visits, Addresses) /\ AreWindows(failures, Identifiers)
  /\ verifying \in [Logins -> Identifiers \cup {NoIdentifier}]
  /\ guesses \in [Identifiers -> Nat]

\* However many keys come, the maps stay within their bound, except that a bound of one holds two.
MapsBounded ==
  \A windows \in {visits, failures} : Cardinality(DOMAIN windows) <= Greater(MaxEntries, 2)

\* Requests that verify a password at the same time get past the limit together, but no more of them
\* than there are: what has been tried for an identifier that is in its window, and has not been
\* forgotten, is what was counted and what is being tried, fewer than the limit and the requests.
GuessesBounded ==
  \A i \in Identifiers : Current(failures, i) =>
    guesses[i] = failures[i].count + InFlight(i) /\ guesses[i] < FailureLimit + Cardinality(Logins)

\* The inductive invariant.
LimiterInv == LimiterTypeOK /\ MapsBounded /\ GuessesBounded
=============================================================================
