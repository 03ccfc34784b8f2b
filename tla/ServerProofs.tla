----------------------------- MODULE ServerProofs -----------------------------
(***************************************************************************)
(* What RefreshReplay, LoginLimiter, ReleaseStorage, MailboxPool and       *)
(* BriefingCalendar promise, proved for any requests, clients, keys,       *)
(* limits, releases, administrators, mailboxes, workers and years.  Each   *)
(* has an inductive invariant and one lemma per action that keeps it.      *)
(***************************************************************************)
EXTENDS MCServer, FiniteSetTheorems, WellFoundedInduction, TLAPS

-----------------------------------------------------------------------------
\* The replay cache: what each step of a request, of a revocation and a restart keeps.
LEMMA JoinStep ==
  ASSUME ReplayInv, NEW r \in Requests, Join(r)
  PROVE  ReplayInv'
<1> USE RequestsAssumption, TokensAssumption DEF Join, Move, Token, Keys, Tokens, ReplayInv, ReplayTypeOK, tokens, cache, callers, revocation, Rotating
<1>1. ReplayTypeOK'
  BY DEF Swept
<1>2. ReuseExplained'
  BY DEF ReuseExplained
<1>3. EntriesFit'
  BY DEF EntriesFit, Swept, Fresh, Joins
<1>4. TokensFit'
  BY DEF EntriesFit, TokensFit
<1>5. AnswersFit'
  BY DEF EntriesFit, AnswersFit
<1> QED
  BY <1>1, <1>2, <1>3, <1>4, <1>5

LEMMA StartRotationStep ==
  ASSUME ReplayInv, NEW r \in Requests, StartRotation(r)
  PROVE  ReplayInv'
<1> USE RequestsAssumption, TokensAssumption DEF StartRotation, Move, Token, Keys, Tokens, ReplayInv, ReplayTypeOK, tokens, cache, callers, revocation, Rotating
<1>1. ReplayTypeOK'
  BY DEF Swept
<1>2. ReuseExplained'
  <2>1. SUFFICES ASSUME NEW q \in accused
                 PROVE  /\ spentBy[Token(q)] # NoRequest
                        /\ asks[spentBy[Token(q)]] = asks[q] =>
                             entry'[spentBy[Token(q)]] \in {"expired", "invalidated", "failed", "lost"}
    BY DEF ReuseExplained
  <2>2. /\ spentBy[Token(q)] \in Requests
        /\ asks[spentBy[Token(q)]] = asks[q] =>
             entry[spentBy[Token(q)]] \in {"expired", "invalidated", "failed", "lost"}
    BY DEF ReuseExplained
  <2>3. entry[spentBy[Token(q)]] # "none" /\ place[r] = "new" => spentBy[Token(q)] # r
    BY <2>2 DEF EntriesFit
  <2> QED
    BY <2>2, <2>3 DEF EntriesFit
<1>3. EntriesFit'
  BY DEF EntriesFit, Swept, Fresh, Joins
<1>4. TokensFit'
  BY DEF EntriesFit, TokensFit
<1>5. AnswersFit'
  BY DEF EntriesFit, AnswersFit
<1> QED
  BY <1>1, <1>2, <1>3, <1>4, <1>5

LEMMA ReadTokenStep ==
  ASSUME ReplayInv, NEW r \in Requests, ReadToken(r)
  PROVE  ReplayInv'
<1> USE RequestsAssumption, TokensAssumption DEF ReadToken, Move, Token, Keys, Tokens, ReplayInv, ReplayTypeOK, tokens, cache, callers, revocation, Rotating
<1>1. ReplayTypeOK'
  OBVIOUS
<1>2. ReuseExplained'
  BY DEF ReuseExplained
<1>3. EntriesFit'
  BY DEF EntriesFit
<1>4. TokensFit'
  BY DEF EntriesFit, TokensFit
<1>5. AnswersFit'
  BY DEF EntriesFit, AnswersFit
<1> QED
  BY <1>1, <1>2, <1>3, <1>4, <1>5

LEMMA ReuseStep ==
  ASSUME ReplayInv, NEW r \in Requests, Reuse(r)
  PROVE  ReplayInv'
<1> USE RequestsAssumption, TokensAssumption DEF Reuse, Move, Token, Keys, Tokens, ReplayInv, ReplayTypeOK, tokens, cache, callers, revocation, Rotating
<1>1. ReplayTypeOK'
  OBVIOUS
<1>2. ReuseExplained'
  <2>1. SUFFICES ASSUME alive
                 PROVE  /\ spentBy[Token(r)] # NoRequest
                        /\ asks[spentBy[Token(r)]] = asks[r] =>
                             entry[spentBy[Token(r)]] \in {"expired", "invalidated", "failed", "lost"}
    BY DEF ReuseExplained
  <2>2. Token(r) \in Tokens /\ Token(r) < latest
    <3>1. Token(r) \in 1..MaxTokens /\ latest \in 1..MaxTokens
      OBVIOUS
    <3>2. Token(r) <= latest
      BY DEF AnswersFit
    <3>3. live = latest /\ Token(r) # latest
      BY <2>1 DEF TokensFit
    <3> HIDE DEF Token, ReplayInv, ReplayTypeOK, Reuse
    <3> QED
      BY <3>1, <3>2, <3>3
  <2>3. spentBy[Token(r)] \in Requests
    BY <2>2 DEF TokensFit
  <2>4. entry[spentBy[Token(r)]] # "none" /\ place[spentBy[Token(r)]] \in {"committed", "undone", "over"}
    BY <2>2, <2>3 DEF TokensFit
  <2>5. spentBy[Token(r)] # r /\ entry[r] = "running"
    BY <2>4 DEF EntriesFit
  <2>6. table[asks[r]] = r
    BY <2>5 DEF EntriesFit
  <2> QED
    BY <2>3, <2>4, <2>5, <2>6 DEF EntriesFit
<1>3. EntriesFit'
  BY DEF EntriesFit
<1>4. TokensFit'
  BY DEF EntriesFit, TokensFit
<1>5. AnswersFit'
  BY DEF EntriesFit, AnswersFit
<1> QED
  BY <1>1, <1>2, <1>3, <1>4, <1>5

LEMMA CommitRotationStep ==
  ASSUME ReplayInv, NEW r \in Requests, CommitRotation(r)
  PROVE  ReplayInv'
<1> USE RequestsAssumption, TokensAssumption DEF CommitRotation, Move, Token, Keys, Tokens, ReplayInv, ReplayTypeOK, tokens, cache, callers, revocation, Rotating
<1>1. ReplayTypeOK'
  <2>1. latest' \in 1..MaxTokens /\ live' \in {0, latest'} /\ live \in 1..MaxTokens
    OBVIOUS
  <2>2. spentBy' \in [1..MaxTokens -> Requests \cup {NoRequest}]
    BY <2>1
  <2>3. place' \in [Requests -> Rotating \cup {"new", "wait", "over"}]
    <3>1. PICK to \in {"committed", "undone"} : place' = [place EXCEPT ![r] = to]
      OBVIOUS
    <3>2. place \in [Requests -> Rotating \cup {"new", "wait", "over"}]
      OBVIOUS
    <3> HIDE DEF CommitRotation, Move, ReplayInv, ReplayTypeOK
    <3> QED
      BY <3>1, <3>2
  <2> QED
    BY <2>1, <2>2, <2>3
<1>2. ReuseExplained'
  BY DEF ReuseExplained, EntriesFit, TokensFit, AnswersFit
<1>3. EntriesFit'
  BY DEF EntriesFit
<1>4. TokensFit'
  BY DEF EntriesFit, TokensFit
<1>5. AnswersFit'
  BY DEF EntriesFit, AnswersFit
<1> QED
  BY <1>1, <1>2, <1>3, <1>4, <1>5

LEMMA FailRotationStep ==
  ASSUME ReplayInv, NEW r \in Requests, FailRotation(r)
  PROVE  ReplayInv'
<1> USE RequestsAssumption, TokensAssumption DEF FailRotation, Move, Token, Keys, Tokens, ReplayInv, ReplayTypeOK, tokens, cache, callers, revocation, Rotating
<1>1. ReplayTypeOK'
  OBVIOUS
<1>2. ReuseExplained'
  BY DEF ReuseExplained
<1>3. EntriesFit'
  BY DEF EntriesFit
<1>4. TokensFit'
  BY DEF EntriesFit, TokensFit
<1>5. AnswersFit'
  BY DEF EntriesFit, AnswersFit
<1> QED
  BY <1>1, <1>2, <1>3, <1>4, <1>5

LEMMA CompleteStep ==
  ASSUME ReplayInv, NEW r \in Requests, Complete(r)
  PROVE  ReplayInv'
<1> USE RequestsAssumption, TokensAssumption DEF Complete, Move, Token, Keys, Tokens, ReplayInv, ReplayTypeOK, tokens, cache, callers, revocation, Rotating
<1>1. ReplayTypeOK'
  OBVIOUS
<1>2. ReuseExplained'
  <2>1. SUFFICES ASSUME NEW q \in accused
                 PROVE  /\ spentBy[Token(q)] # NoRequest
                        /\ asks[spentBy[Token(q)]] = asks[q] =>
                             entry'[spentBy[Token(q)]] \in {"expired", "invalidated", "failed", "lost"}
    BY DEF ReuseExplained
  <2>2. /\ spentBy[Token(q)] \in Requests
        /\ asks[spentBy[Token(q)]] = asks[q] =>
             entry[spentBy[Token(q)]] \in {"expired", "invalidated", "failed", "lost"}
    BY DEF ReuseExplained
  <2>3. entry[r] = "running"
    BY DEF EntriesFit
  <2> QED
    BY <2>2, <2>3 DEF EntriesFit
<1>3. EntriesFit'
  BY DEF EntriesFit
<1>4. TokensFit'
  BY DEF EntriesFit, TokensFit
<1>5. AnswersFit'
  BY DEF EntriesFit, AnswersFit
<1> QED
  BY <1>1, <1>2, <1>3, <1>4, <1>5

LEMMA HearStep ==
  ASSUME ReplayInv, NEW r \in Requests, Hear(r)
  PROVE  ReplayInv'
<1> USE RequestsAssumption, TokensAssumption DEF Hear, Move, Token, Keys, Tokens, ReplayInv, ReplayTypeOK, tokens, cache, callers, revocation, Rotating
<1>1. ReplayTypeOK'
  OBVIOUS
<1>2. ReuseExplained'
  BY DEF ReuseExplained
<1>3. EntriesFit'
  BY DEF EntriesFit
<1>4. TokensFit'
  BY DEF EntriesFit, TokensFit
<1>5. AnswersFit'
  BY DEF EntriesFit, AnswersFit
<1> QED
  BY <1>1, <1>2, <1>3, <1>4, <1>5

LEMMA LeaveWaitStep ==
  ASSUME ReplayInv, NEW r \in Requests, LeaveWait(r)
  PROVE  ReplayInv'
<1> USE RequestsAssumption, TokensAssumption DEF LeaveWait, Move, Token, Keys, Tokens, ReplayInv, ReplayTypeOK, tokens, cache, callers, revocation, Rotating
<1>1. ReplayTypeOK'
  OBVIOUS
<1>2. ReuseExplained'
  BY DEF ReuseExplained
<1>3. EntriesFit'
  BY DEF EntriesFit
<1>4. TokensFit'
  BY DEF EntriesFit, TokensFit
<1>5. AnswersFit'
  BY DEF EntriesFit, AnswersFit
<1> QED
  BY <1>1, <1>2, <1>3, <1>4, <1>5

LEMMA ExpireStep ==
  ASSUME ReplayInv, NEW r \in Requests, Expire(r)
  PROVE  ReplayInv'
<1> USE RequestsAssumption, TokensAssumption DEF Expire, Move, Token, Keys, Tokens, ReplayInv, ReplayTypeOK, tokens, cache, callers, revocation, Rotating
<1>1. ReplayTypeOK'
  OBVIOUS
<1>2. ReuseExplained'
  BY DEF ReuseExplained, EntriesFit, TokensFit, AnswersFit
<1>3. EntriesFit'
  BY DEF EntriesFit
<1>4. TokensFit'
  BY DEF EntriesFit, TokensFit
<1>5. AnswersFit'
  BY DEF EntriesFit, AnswersFit
<1> QED
  BY <1>1, <1>2, <1>3, <1>4, <1>5

LEMMA RevokeStep ==
  ASSUME ReplayInv, Revoke
  PROVE  ReplayInv'
<1> USE RequestsAssumption, TokensAssumption DEF Revoke, Move, Token, Keys, Tokens, ReplayInv, ReplayTypeOK, tokens, cache, callers, revocation, Rotating
<1>1. ReplayTypeOK'
  OBVIOUS
<1>2. ReuseExplained'
  BY DEF ReuseExplained
<1>3. EntriesFit'
  BY DEF EntriesFit
<1>4. TokensFit'
  BY DEF EntriesFit, TokensFit
<1>5. AnswersFit'
  BY DEF EntriesFit, AnswersFit
<1> QED
  BY <1>1, <1>2, <1>3, <1>4, <1>5

LEMMA EmptyCacheStep ==
  ASSUME ReplayInv, EmptyCache
  PROVE  ReplayInv'
<1> USE RequestsAssumption, TokensAssumption DEF EmptyCache, Move, Token, Keys, Tokens, ReplayInv, ReplayTypeOK, tokens, cache, callers, revocation, Rotating
<1>1. ReplayTypeOK'
  BY DEF Invalidate, AfterDropping
<1>2. ReuseExplained'
  BY DEF ReuseExplained, EntriesFit, TokensFit, AnswersFit, Invalidate, AfterDropping
<1>3. EntriesFit'
  BY DEF EntriesFit, Invalidate, AfterDropping, Listed
<1>4. TokensFit'
  BY DEF EntriesFit, TokensFit, Invalidate, AfterDropping
<1>5. AnswersFit'
  BY DEF EntriesFit, AnswersFit, Invalidate, AfterDropping, Listed
<1> QED
  BY <1>1, <1>2, <1>3, <1>4, <1>5

LEMMA LogoutElsewhereStep ==
  ASSUME ReplayInv, LogoutElsewhere
  PROVE  ReplayInv'
<1> USE RequestsAssumption, TokensAssumption DEF LogoutElsewhere, Move, Token, Keys, Tokens, ReplayInv, ReplayTypeOK, tokens, cache, callers, revocation, Rotating
<1>1. ReplayTypeOK'
  BY DEF Invalidate, AfterDropping
<1>2. ReuseExplained'
  BY DEF ReuseExplained, EntriesFit, TokensFit, AnswersFit, Invalidate, AfterDropping
<1>3. EntriesFit'
  BY DEF EntriesFit, Invalidate, AfterDropping, Listed
<1>4. TokensFit'
  BY DEF EntriesFit, TokensFit, Invalidate, AfterDropping
<1>5. AnswersFit'
  BY DEF EntriesFit, AnswersFit, Invalidate, AfterDropping, Listed
<1> QED
  BY <1>1, <1>2, <1>3, <1>4, <1>5

LEMMA RestartStep ==
  ASSUME ReplayInv, Restart
  PROVE  ReplayInv'
<1> USE RequestsAssumption, TokensAssumption DEF Restart, Move, Token, Keys, Tokens, ReplayInv, ReplayTypeOK, tokens, cache, callers, revocation, Rotating
<1>1. ReplayTypeOK'
  OBVIOUS
<1>2. ReuseExplained'
  BY DEF ReuseExplained, EntriesFit, TokensFit, AnswersFit
<1>3. EntriesFit'
  BY DEF EntriesFit
<1>4. TokensFit'
  BY DEF EntriesFit, TokensFit
<1>5. AnswersFit'
  BY DEF EntriesFit, AnswersFit
<1> QED
  BY <1>1, <1>2, <1>3, <1>4, <1>5

\* The invariant holds in the initial states, and every step keeps it.
LEMMA ReplayInitially == ReplayInit => ReplayInv
  BY RequestsAssumption, TokensAssumption
  DEF ReplayInit, ReplayInv, ReplayTypeOK, ReuseExplained, EntriesFit, TokensFit, AnswersFit, Keys, Tokens, Token, Rotating

LEMMA ReplayStep ==
  ASSUME ReplayInv, [ReplayNext]_replayVars
  PROVE  ReplayInv'
<1>1. CASE UNCHANGED replayVars
  BY <1>1 DEF replayVars, tokens, cache, callers, revocation, ReplayInv, ReplayTypeOK, ReuseExplained,
              EntriesFit, TokensFit, AnswersFit, Token
<1>2. CASE ReplayNext
  <2>1. ASSUME NEW r \in Requests,
               Join(r) \/ StartRotation(r) \/ ReadToken(r) \/ Reuse(r) \/ CommitRotation(r)
        PROVE  ReplayInv'
    BY <2>1, JoinStep, StartRotationStep, ReadTokenStep, ReuseStep, CommitRotationStep
  <2>2. ASSUME NEW r \in Requests,
               FailRotation(r) \/ Complete(r) \/ Hear(r) \/ LeaveWait(r) \/ Expire(r)
        PROVE  ReplayInv'
    BY <2>2, FailRotationStep, CompleteStep, HearStep, LeaveWaitStep, ExpireStep
  <2>3. ASSUME Revoke \/ EmptyCache \/ LogoutElsewhere \/ Restart
        PROVE  ReplayInv'
    BY <2>3, RevokeStep, EmptyCacheStep, LogoutElsewhereStep, RestartStep
  <2> QED
    BY <1>2, <2>1, <2>2, <2>3 DEF ReplayNext
<1> QED
  BY <1>1, <1>2

\* The replay cache fits the tokens: an entry under its key is the one of the request that runs or has
\* completed it, and every rotated token was rotated by a request that has got that far.
THEOREM ReplayInvariant == ReplaySpec => []ReplayInv
<1>1. ReplayInit => ReplayInv
  BY ReplayInitially
<1>2. ReplayInv /\ [ReplayNext]_replayVars => ReplayInv'
  BY ReplayStep
<1> QED
  BY <1>1, <1>2, PTL DEF ReplaySpec

\* A client that sends its refresh token more than once does not lose its session: a token that
\* was taken for a reused one was not in the cache for that client any more.
THEOREM NoRetryEndsASession == ReplaySpec => []ReuseExplained
<1>1. ReplayInv => ReuseExplained
  BY DEF ReplayInv
<1> QED
  BY <1>1, ReplayInvariant, PTL

\* What a request hears of a session after the cache was emptied comes from a rotation that had been
\* committed before the revocation, or from an entry whose time was over.
LEMMA NoSessionStep ==
  ASSUME ReplayInv, [ReplayNext]_replayVars, NEW r \in Requests,
         leaving = "done", reply'[r] = "session", reply[r] # "session"
  PROVE  Source(r) \in missed \/ entry[Source(r)] = "expired"
<1>1. CASE \E q \in Requests : Complete(q)
  <2>1. PICK q \in Requests : Complete(q)
    BY <1>1
  <2>2. q = r /\ place[r] = "committed"
    BY <2>1 DEF Complete, ReplayInv, ReplayTypeOK
  <2>3. waitsFor[r] = NoRequest
    BY <2>2 DEF ReplayInv, AnswersFit, Rotating
  <2> QED
    BY <2>2, <2>3 DEF ReplayInv, AnswersFit, Source
<1>2. CASE \E q \in Requests : Hear(q)
  <2>1. PICK q \in Requests : Hear(q)
    BY <1>2
  <2>2. q = r /\ place[r] = "wait" /\ entry[waitsFor[r]] \in {"cached", "expired"}
    BY <2>1 DEF Hear, ReplayInv, ReplayTypeOK
  <2>3. waitsFor[r] \in Requests /\ waitsFor[r] # NoRequest
    BY <2>2 DEF ReplayInv, ReplayTypeOK, EntriesFit
  <2> QED
    BY <2>2, <2>3 DEF ReplayInv, AnswersFit, Source
<1>3. CASE reply' = reply
  BY <1>3
<1> QED
  BY <1>1, <1>2, <1>3 DEF ReplayNext, replayVars, callers, Join, StartRotation, ReadToken, Reuse,
       CommitRotation, FailRotation, LeaveWait, Expire, Revoke, EmptyCache, LogoutElsewhere, Restart

\* The revocation of an account is final up to the rotations that were committed at that moment: the
\* cache answers no request with a session that was revoked before it was rotated.
THEOREM RevocationReachesTheCache == ReplaySpec => NoSessionAfterRevocation
<1>1. ReplayInv /\ [ReplayNext]_replayVars =>
        [\A r \in Requests : leaving = "done" /\ reply'[r] = "session" /\ reply[r] # "session" =>
           Source(r) \in missed \/ entry[Source(r)] = "expired"]_replayVars
  BY NoSessionStep
<1> QED
  BY <1>1, ReplayInvariant, PTL DEF ReplaySpec, NoSessionAfterRevocation

-----------------------------------------------------------------------------
\* The limiters.  The bound of a map, and what is left once room was made in a full one.
Bound == Greater(MaxEntries, 2)

LEMMA TargetLeavesRoom == Target \in Nat /\ Bound \in Nat /\ Target + 1 <= Bound /\ MaxEntries <= Bound
<1>1. MaxEntries \in Nat /\ MaxEntries >= 1
  BY LimitsAssumption
<1>2. (MaxEntries * 3) \div 4 \in Nat /\ (MaxEntries * 3) \div 4 < MaxEntries
  BY <1>1
<1> QED
  BY <1>1, <1>2 DEF Target, Bound, Greater

\* Room is made by dropping windows, never by changing one, and leaves a place below the bound.
LEMMA RoomMade ==
  ASSUME NEW windows, NEW K, AreWindows(windows, K), NEW left \in WithRoom(windows)
  PROVE  /\ DOMAIN left \subseteq DOMAIN windows
         /\ left = [j \in DOMAIN left |-> windows[j]]
         /\ IsFiniteSet(DOMAIN left)
         /\ Cardinality(DOMAIN left) + 1 <= Bound
<1>1. IsFiniteSet(DOMAIN windows) /\ windows = [j \in DOMAIN windows |-> windows[j]]
  BY DEF AreWindows
<1>2. CASE Cardinality(DOMAIN windows) < MaxEntries
  <2>1. left = windows
    BY <1>2 DEF WithRoom
  <2>2. Cardinality(DOMAIN windows) \in Nat
    BY <1>1, FS_CardinalityType
  <2> QED
    BY <1>1, <1>2, <2>1, <2>2, TargetLeavesRoom, LimitsAssumption
<1>3. CASE ~(Cardinality(DOMAIN windows) < MaxEntries)
  <2> DEFINE kept    == Unswept(windows)
             smaller == Only(windows, kept)
  <2>1. kept \subseteq DOMAIN windows /\ DOMAIN smaller = kept /\ smaller = [j \in kept |-> windows[j]]
    BY DEF Unswept, Only
  <2>2. IsFiniteSet(kept) /\ Cardinality(kept) \in Nat
    BY <1>1, <2>1, FS_Subset, FS_CardinalityType
  <2>3. left \in (IF Cardinality(kept) < MaxEntries \/ Cardinality(kept) <= Target
                  THEN {smaller} ELSE {Only(smaller, S) : S \in KeptAfterEviction(smaller, Target)})
    BY <1>3, <2>1 DEF WithRoom
  <2> HIDE DEF kept, smaller
  <2>4. CASE Cardinality(kept) < MaxEntries \/ Cardinality(kept) <= Target
    <3>1. left = smaller
      BY <2>3, <2>4
    <3>2. Cardinality(kept) + 1 <= Bound
      BY <2>2, <2>4, TargetLeavesRoom, LimitsAssumption
    <3> QED
      BY <2>1, <2>2, <3>1, <3>2
  <2>5. CASE ~(Cardinality(kept) < MaxEntries \/ Cardinality(kept) <= Target)
    <3>1. PICK S \in KeptAfterEviction(smaller, Target) : left = Only(smaller, S)
      BY <2>3, <2>5
    <3>2. S \subseteq kept /\ Cardinality(S) = Target
      BY <2>1, <3>1 DEF KeptAfterEviction
    <3>3. DOMAIN left = S /\ left = [j \in S |-> windows[j]]
      BY <2>1, <3>1, <3>2 DEF Only
    <3>4. IsFiniteSet(S)
      BY <2>2, <3>2, FS_Subset
    <3> QED
      BY <2>1, <3>2, <3>3, <3>4, TargetLeavesRoom
  <2> QED
    BY <2>4, <2>5
<1> QED
  BY <1>2, <1>3

\* What counting an attempt makes of a map.
LEMMA CountedWindows ==
  ASSUME NEW windows, NEW K, AreWindows(windows, K), Cardinality(DOMAIN windows) <= Bound,
         NEW k \in K, NEW new \in Counted(windows, k), tick \in 0..LastTick
  PROVE  /\ AreWindows(new, K) /\ Cardinality(DOMAIN new) <= Bound
         /\ k \in DOMAIN new
         /\ Current(windows, k) => new[k] = [windows[k] EXCEPT !.count = @ + 1]
         /\ ~Current(windows, k) => new[k] = [started |-> tick, count |-> 1]
         /\ \A j \in DOMAIN new \ {k} : j \in DOMAIN windows /\ new[j] = windows[j]
<1>1. CASE Current(windows, k)
  <2>1. k \in DOMAIN windows
    BY <1>1 DEF Current
  <2>2. new = Put(windows, k, [windows[k] EXCEPT !.count = @ + 1])
    BY <1>1 DEF Counted
  <2>3. DOMAIN new = DOMAIN windows
    BY <2>1, <2>2 DEF Put
  <2>4. new[k] = [windows[k] EXCEPT !.count = @ + 1]
    BY <2>1, <2>2 DEF Put
  <2>5. \A j \in DOMAIN new \ {k} : j \in DOMAIN windows /\ new[j] = windows[j]
    BY <2>2, <2>3 DEF Put
  <2>6. new[k] \in [started : 0..LastTick, count : Nat]
    BY <2>1, <2>4 DEF AreWindows
  <2>7. new \in [DOMAIN new -> [started : 0..LastTick, count : Nat]]
    <3>1. new = [j \in DOMAIN new |-> new[j]]
      BY <2>2, <2>3 DEF Put
    <3>2. \A j \in DOMAIN new : new[j] \in [started : 0..LastTick, count : Nat]
      BY <2>5, <2>6 DEF AreWindows
    <3> QED
      BY <3>1, <3>2
  <2> QED
    BY <1>1, <2>1, <2>3, <2>4, <2>5, <2>7 DEF AreWindows
<1>2. CASE ~Current(windows, k)
  <2>1. PICK left \in WithRoom(windows) : new = Put(left, k, [started |-> tick, count |-> 1])
    BY <1>2 DEF Counted
  <2>2. /\ DOMAIN left \subseteq DOMAIN windows /\ left = [j \in DOMAIN left |-> windows[j]]
        /\ IsFiniteSet(DOMAIN left) /\ Cardinality(DOMAIN left) + 1 <= Bound
    BY RoomMade
  <2>3. DOMAIN new = DOMAIN left \cup {k}
    BY <2>1 DEF Put
  <2>4. new[k] = [started |-> tick, count |-> 1]
    BY <2>1 DEF Put
  <2>5. \A j \in DOMAIN new \ {k} : j \in DOMAIN windows /\ new[j] = windows[j]
    BY <2>1, <2>2, <2>3 DEF Put
  <2>6. IsFiniteSet(DOMAIN new) /\ Cardinality(DOMAIN new) <= Bound
    <3>1. Cardinality(DOMAIN left) \in Nat
      BY <2>2, FS_CardinalityType
    <3>2. CASE k \in DOMAIN left
      <4>1. DOMAIN new = DOMAIN left
        BY <2>3, <3>2
      <4> QED
        BY <2>2, <3>1, <4>1, TargetLeavesRoom
    <3>3. CASE k \notin DOMAIN left
      <4>1. IsFiniteSet(DOMAIN left \cup {k})
            /\ Cardinality(DOMAIN left \cup {k}) = Cardinality(DOMAIN left) + 1
        BY <2>2, <3>3, FS_AddElement
      <4> QED
        BY <2>2, <2>3, <4>1
    <3> QED
      BY <3>2, <3>3
  <2>7. new \in [DOMAIN new -> [started : 0..LastTick, count : Nat]]
    <3>1. new = [j \in DOMAIN new |-> new[j]]
      BY <2>1, <2>3 DEF Put
    <3>2. \A j \in DOMAIN new : new[j] \in [started : 0..LastTick, count : Nat]
      BY <2>4, <2>5 DEF AreWindows
    <3> QED
      BY <3>1, <3>2
  <2>8. DOMAIN new \subseteq K
    BY <2>2, <2>3 DEF AreWindows
  <2> QED
    BY <1>2, <2>3, <2>4, <2>5, <2>6, <2>7, <2>8 DEF AreWindows
<1> QED
  BY <1>1, <1>2

\* How many requests try a password for an identifier, as one begins and ends.
LEMMA InFlightBounds ==
  ASSUME NEW i
  PROVE  InFlight(i) \in Nat /\ InFlight(i) <= Cardinality(Logins) /\ Cardinality(Logins) \in Nat
<1>1. {h \in Logins : verifying[h] = i} \subseteq Logins
  OBVIOUS
<1>2. IsFiniteSet({h \in Logins : verifying[h] = i})
      /\ Cardinality({h \in Logins : verifying[h] = i}) <= Cardinality(Logins)
  BY <1>1, LoginsAssumption, FS_Subset
<1> QED
  BY <1>2, LoginsAssumption, FS_CardinalityType DEF InFlight

LEMMA InFlightBegins ==
  ASSUME verifying \in [Logins -> Identifiers \cup {NoIdentifier}],
         NEW h \in Logins, NEW i \in Identifiers, verifying[h] = NoIdentifier,
         verifying' = [verifying EXCEPT ![h] = i]
  PROVE  \A j \in Identifiers : InFlight(j)' = IF j = i THEN InFlight(j) + 1 ELSE InFlight(j)
<1>1. TAKE j \in Identifiers
<1> DEFINE before == {g \in Logins : verifying[g] = j}
           after  == {g \in Logins : verifying'[g] = j}
<1>2. IsFiniteSet(before)
  BY LoginsAssumption, FS_Subset
<1>3. CASE j = i
  <2>1. h \notin before /\ after = before \cup {h}
    BY <1>3, LoginsAssumption
  <2>2. Cardinality(before \cup {h}) = Cardinality(before) + 1
    BY <1>2, <2>1, FS_AddElement
  <2> QED
    BY <1>3, <2>1, <2>2 DEF InFlight
<1>4. CASE j # i
  <2>1. after = before
    BY <1>4, LoginsAssumption
  <2> QED
    BY <1>4, <2>1 DEF InFlight
<1> QED
  BY <1>3, <1>4

LEMMA InFlightEnds ==
  ASSUME verifying \in [Logins -> Identifiers \cup {NoIdentifier}],
         NEW h \in Logins, verifying[h] # NoIdentifier,
         verifying' = [verifying EXCEPT ![h] = NoIdentifier]
  PROVE  \A j \in Identifiers :
           IF j = verifying[h] THEN InFlight(j) = InFlight(j)' + 1 ELSE InFlight(j)' = InFlight(j)
<1>1. TAKE j \in Identifiers
<1> DEFINE before == {g \in Logins : verifying[g] = j}
           after  == {g \in Logins : verifying'[g] = j}
<1>2. IsFiniteSet(after)
  BY LoginsAssumption, FS_Subset
<1>3. CASE j = verifying[h]
  <2>1. h \notin after /\ before = after \cup {h}
    BY <1>3, LoginsAssumption
  <2>2. Cardinality(after \cup {h}) = Cardinality(after) + 1
    BY <1>2, <2>1, FS_AddElement
  <2> QED
    BY <1>3, <2>1, <2>2 DEF InFlight
<1>4. CASE j # verifying[h]
  <2>1. after = before
    BY <1>4, LoginsAssumption
  <2> QED
    BY <1>4, <2>1 DEF InFlight
<1> QED
  BY <1>3, <1>4

\* A request of an address, and what it may begin.
LEMMA VisitStep ==
  ASSUME LimiterInv, NEW a \in Addresses, NEW h \in Logins, NEW i \in Identifiers, Visit(a, h, i)
  PROVE  LimiterInv'
<1>1. LimiterTypeOK /\ MapsBounded /\ GuessesBounded
  BY DEF LimiterInv
<1>2. AreWindows(visits', Addresses) /\ Cardinality(DOMAIN visits') <= Bound
  BY <1>1, CountedWindows DEF Visit, LimiterTypeOK, MapsBounded, Bound
<1>3. MapsBounded'
  BY <1>1, <1>2 DEF MapsBounded, Visit, Bound
<1>4. LimiterTypeOK'
  BY <1>1, <1>2 DEF LimiterTypeOK, Visit, AreWindows
<1>5. GuessesBounded'
  <2>1. SUFFICES ASSUME NEW j \in Identifiers, Current(failures, j)
                 PROVE  /\ guesses'[j] = failures[j].count + InFlight(j)'
                        /\ guesses'[j] < FailureLimit + Cardinality(Logins)
    BY DEF GuessesBounded, Current, Visit
  <2>2. /\ guesses[j] = failures[j].count + InFlight(j)
        /\ guesses[j] < FailureLimit + Cardinality(Logins)
    BY <1>1, <2>1 DEF GuessesBounded
  <2>3. CASE UNCHANGED <<verifying, guesses>>
    BY <2>2, <2>3 DEF InFlight
  <2>4. CASE ~Limited(i) /\ verifying' = [verifying EXCEPT ![h] = i] /\ guesses' = [guesses EXCEPT ![i] = @ + 1]
    <3>1. InFlight(j)' = IF j = i THEN InFlight(j) + 1 ELSE InFlight(j)
      BY <1>1, <2>4, InFlightBegins DEF Visit, LimiterTypeOK
    <3>2. InFlight(j) \in Nat /\ Cardinality(Logins) \in Nat /\ failures[j].count \in Nat /\ FailureLimit \in Nat
      BY <1>1, <2>1, InFlightBounds, LimitsAssumption DEF LimiterTypeOK, AreWindows, Current
    <3>3. CASE j # i
      BY <1>1, <2>2, <2>4, <3>1, <3>3 DEF LimiterTypeOK
    <3>4. CASE j = i
      <4>1. failures[j].count < FailureLimit
        BY <2>1, <2>4, <3>2, <3>4 DEF Limited
      <4>2. InFlight(j)' \in Nat /\ InFlight(j)' <= Cardinality(Logins)
        <5>1. InFlight(j)' \in Nat
          BY <3>1, <3>2, <3>4
        <5>2. {g \in Logins : verifying'[g] = j} \subseteq Logins
          OBVIOUS
        <5>3. Cardinality({g \in Logins : verifying'[g] = j}) <= Cardinality(Logins)
          BY <5>2, LoginsAssumption, FS_Subset
        <5> QED
          BY <5>1, <5>3 DEF InFlight
      <4>3. guesses'[j] = guesses[j] + 1
        BY <1>1, <2>4, <3>4 DEF LimiterTypeOK
      <4>4. guesses'[j] = failures[j].count + InFlight(j)'
        BY <2>2, <3>1, <3>2, <3>4, <4>3
      <4> QED
        BY <3>2, <4>1, <4>2, <4>4
    <3> QED
      BY <3>3, <3>4
  <2> QED
    BY <2>3, <2>4 DEF Visit
<1> QED
  BY <1>3, <1>4, <1>5 DEF LimiterInv

\* A wrong password is counted.
LEMMA FailLoginStep ==
  ASSUME LimiterInv, NEW h \in Logins, FailLogin(h)
  PROVE  LimiterInv'
<1> DEFINE i == verifying[h]
<1>1. LimiterTypeOK /\ MapsBounded /\ GuessesBounded
  BY DEF LimiterInv
<1>2. i \in Identifiers
  BY <1>1 DEF FailLogin, LimiterTypeOK
<1>3. /\ AreWindows(failures', Identifiers) /\ Cardinality(DOMAIN failures') <= Bound
      /\ i \in DOMAIN failures'
      /\ Current(failures, i) => failures'[i] = [failures[i] EXCEPT !.count = @ + 1]
      /\ ~Current(failures, i) => failures'[i] = [started |-> tick, count |-> 1]
      /\ \A j \in DOMAIN failures' \ {i} : j \in DOMAIN failures /\ failures'[j] = failures[j]
  BY <1>1, <1>2, CountedWindows DEF FailLogin, LimiterTypeOK, MapsBounded, Bound
<1>4. MapsBounded'
  BY <1>1, <1>3 DEF MapsBounded, FailLogin, Bound
<1>5. \A j \in Identifiers : IF j = i THEN InFlight(j) = InFlight(j)' + 1 ELSE InFlight(j)' = InFlight(j)
  BY <1>1, InFlightEnds DEF FailLogin, LimiterTypeOK
<1>6. \A j \in Identifiers : InFlight(j) \in Nat /\ InFlight(j) <= Cardinality(Logins) /\ Cardinality(Logins) \in Nat
  BY InFlightBounds
<1>7. \A j \in Identifiers : InFlight(j)' \in Nat
  BY LoginsAssumption, FS_Subset, FS_CardinalityType DEF InFlight
<1>8. guesses' \in [Identifiers -> Nat]
  BY <1>1, <1>2, <1>6 DEF FailLogin, LimiterTypeOK
<1>9. verifying' \in [Logins -> Identifiers \cup {NoIdentifier}]
  BY <1>1 DEF FailLogin, LimiterTypeOK
<1>10. LimiterTypeOK'
  <2>1. AreWindows(visits, Addresses)' /\ AreWindows(failures, Identifiers)'
    BY <1>1, <1>3 DEF FailLogin, LimiterTypeOK, AreWindows
  <2> QED
    BY <1>1, <1>8, <1>9, <2>1 DEF FailLogin, LimiterTypeOK
<1>11. GuessesBounded'
  <2>1. SUFFICES ASSUME NEW j \in Identifiers, Current(failures, j)'
                 PROVE  /\ guesses'[j] = failures'[j].count + InFlight(j)'
                        /\ guesses'[j] < FailureLimit + Cardinality(Logins)
    BY DEF GuessesBounded
  <2>2. CASE j # i
    <3>1. Current(failures, j) /\ failures'[j] = failures[j]
      BY <1>3, <2>1, <2>2 DEF Current, FailLogin
    <3>2. guesses'[j] = guesses[j]
      BY <1>1, <2>2 DEF FailLogin, LimiterTypeOK
    <3> QED
      BY <1>1, <1>5, <2>2, <3>1, <3>2 DEF GuessesBounded
  <2>3. CASE j = i /\ Current(failures, i)
    <3>1. failures'[j].count = failures[j].count + 1 /\ failures[j].count \in Nat
      BY <1>1, <1>3, <2>3 DEF LimiterTypeOK, AreWindows, Current
    <3>2. guesses'[j] = guesses[j]
      BY <1>1, <2>3 DEF FailLogin, LimiterTypeOK
    <3>3. guesses[j] = failures[j].count + InFlight(j) /\ guesses[j] < FailureLimit + Cardinality(Logins)
      BY <1>1, <2>3 DEF GuessesBounded
    <3>4. InFlight(j) = InFlight(j)' + 1 /\ InFlight(j)' \in Nat
      BY <1>2, <1>5, <1>7, <2>3
    <3> QED
      BY <3>1, <3>2, <3>3, <3>4
  <2>4. CASE j = i /\ ~Current(failures, i)
    <3>1. failures'[j].count = 1
      BY <1>3, <2>4
    <3>2. guesses'[j] = InFlight(j)
      BY <1>1, <2>4 DEF FailLogin, LimiterTypeOK
    <3>3. InFlight(j) = InFlight(j)' + 1 /\ InFlight(j)' \in Nat
      BY <1>2, <1>5, <1>7, <2>4
    <3>4. InFlight(j) < FailureLimit + Cardinality(Logins)
      BY <1>6, LimitsAssumption
    <3> QED
      BY <3>1, <3>2, <3>3, <3>4
  <2> QED
    BY <2>2, <2>3, <2>4
<1> QED
  BY <1>4, <1>10, <1>11 DEF LimiterInv

\* A right password makes the limiter forget the identifier.
LEMMA SucceedStep ==
  ASSUME LimiterInv, NEW h \in Logins, Succeed(h)
  PROVE  LimiterInv'
<1> DEFINE i == verifying[h]
<1>1. LimiterTypeOK /\ MapsBounded /\ GuessesBounded
  BY DEF LimiterInv
<1>2. i \in Identifiers
  BY <1>1 DEF Succeed, LimiterTypeOK
<1>3. /\ DOMAIN failures' = DOMAIN failures \ {i}
      /\ failures' = [j \in DOMAIN failures \ {i} |-> failures[j]]
  BY DEF Succeed, Only
<1>4. IsFiniteSet(DOMAIN failures) /\ IsFiniteSet(DOMAIN failures')
      /\ Cardinality(DOMAIN failures') <= Cardinality(DOMAIN failures)
  BY <1>1, <1>3, FS_Subset DEF LimiterTypeOK, AreWindows
<1>5. Cardinality(DOMAIN failures') \in Nat /\ Cardinality(DOMAIN failures) \in Nat
  BY <1>4, FS_CardinalityType
<1>6. MapsBounded'
  <2>1. Cardinality(DOMAIN visits) <= Bound /\ Cardinality(DOMAIN failures) <= Bound
    BY <1>1 DEF MapsBounded, Bound
  <2>2. Cardinality(DOMAIN failures') <= Bound
    BY <1>4, <1>5, <2>1, TargetLeavesRoom
  <2> QED
    BY <2>1, <2>2 DEF MapsBounded, Succeed, Bound
<1>7. LimiterTypeOK'
  <2>1. AreWindows(failures, Identifiers)'
    BY <1>1, <1>3, <1>4 DEF LimiterTypeOK, AreWindows
  <2>2. AreWindows(visits, Addresses)'
    BY <1>1 DEF LimiterTypeOK, AreWindows, Succeed
  <2>3. guesses' \in [Identifiers -> Nat] /\ verifying' \in [Logins -> Identifiers \cup {NoIdentifier}]
    BY <1>1 DEF LimiterTypeOK, Succeed
  <2> QED
    BY <1>1, <2>1, <2>2, <2>3 DEF LimiterTypeOK, Succeed
<1>8. \A j \in Identifiers : IF j = i THEN InFlight(j) = InFlight(j)' + 1 ELSE InFlight(j)' = InFlight(j)
  BY <1>1, InFlightEnds DEF Succeed, LimiterTypeOK
<1>9. GuessesBounded'
  <2>1. SUFFICES ASSUME NEW j \in Identifiers, Current(failures, j)'
                 PROVE  /\ guesses'[j] = failures'[j].count + InFlight(j)'
                        /\ guesses'[j] < FailureLimit + Cardinality(Logins)
    BY DEF GuessesBounded
  <2>2. j # i /\ Current(failures, j) /\ failures'[j] = failures[j]
    BY <1>3, <2>1 DEF Current, Succeed
  <2>3. guesses'[j] = guesses[j]
    BY <1>1, <2>2 DEF Succeed, LimiterTypeOK
  <2> QED
    BY <1>1, <1>8, <2>2, <2>3 DEF GuessesBounded
<1> QED
  BY <1>6, <1>7, <1>9 DEF LimiterInv

LEMMA TickStep ==
  ASSUME LimiterInv, Tick
  PROVE  LimiterInv'
<1>1. LimiterTypeOK'
  BY LimitsAssumption DEF LimiterInv, LimiterTypeOK, Tick, AreWindows
<1>2. MapsBounded'
  BY DEF LimiterInv, MapsBounded, Tick
<1>3. GuessesBounded'
  <2>1. SUFFICES ASSUME NEW j \in Identifiers, Current(failures, j)'
                 PROVE  /\ guesses[j] = failures[j].count + InFlight(j)
                        /\ guesses[j] < FailureLimit + Cardinality(Logins)
    BY DEF GuessesBounded, Tick, InFlight
  <2>2. j \in DOMAIN failures /\ failures[j].started \in Int /\ tick \in Int
    BY <2>1 DEF LimiterInv, LimiterTypeOK, AreWindows, Tick, Current
  <2>3. tick' = tick + 1 /\ tick' - failures[j].started < Window
    BY <2>1 DEF Current, Tick
  <2>4. Current(failures, j)
    BY <2>2, <2>3, LimitsAssumption DEF Current
  <2> QED
    BY <2>4 DEF LimiterInv, GuessesBounded
<1> QED
  BY <1>1, <1>2, <1>3 DEF LimiterInv

LEMMA LimiterInitially ==
  ASSUME LimiterInit
  PROVE  LimiterInv
<1>1. DOMAIN NoWindows = {} /\ NoWindows \in [{} -> [started : 0..LastTick, count : Nat]]
  BY DEF NoWindows
<1>2. LimiterTypeOK
  BY <1>1, LimitsAssumption, FS_EmptySet DEF LimiterInit, LimiterTypeOK, AreWindows
<1>3. MapsBounded
  BY <1>1, FS_EmptySet, LimitsAssumption DEF LimiterInit, MapsBounded, Greater
<1>4. GuessesBounded
  BY <1>1 DEF LimiterInit, GuessesBounded, Current
<1> QED
  BY <1>2, <1>3, <1>4 DEF LimiterInv

LEMMA LimiterStep ==
  ASSUME LimiterInv, [LimiterNext]_limiterVars
  PROVE  LimiterInv'
<1>1. CASE UNCHANGED limiterVars
  BY <1>1 DEF limiterVars, LimiterInv, LimiterTypeOK, MapsBounded, GuessesBounded, AreWindows, Current, InFlight
<1>2. CASE LimiterNext
  BY <1>2, VisitStep, FailLoginStep, SucceedStep, TickStep DEF LimiterNext
<1> QED
  BY <1>1, <1>2

\* The limiters keep their bounds, in every step and from the start.
THEOREM LimiterInvariant == LimiterSpec => []LimiterInv
<1>1. LimiterInit => LimiterInv
  BY LimiterInitially
<1>2. LimiterInv /\ [LimiterNext]_limiterVars => LimiterInv'
  BY LimiterStep
<1> QED
  BY <1>1, <1>2, PTL DEF LimiterSpec

\* However many addresses and identifiers come, neither map outgrows its bound.
THEOREM LimiterMapsBounded == LimiterSpec => []MapsBounded
<1>1. LimiterInv => MapsBounded
  BY DEF LimiterInv
<1> QED
  BY <1>1, LimiterInvariant, PTL

\* However many logins verify a password at the same time, the guesses at an identifier in its window
\* stay below the limit and the number of the logins.
THEOREM GuessingIsBounded == LimiterSpec => []GuessesBounded
<1>1. LimiterInv => GuessesBounded
  BY DEF LimiterInv
<1> QED
  BY <1>1, LimiterInvariant, PTL

-----------------------------------------------------------------------------
\* Releases.  What each step of an upload, of another request, of the audit and a crash keeps.
LEMMA StartUploadStep ==
  ASSUME ReleasesInv, NEW r \in Releases, StartUpload(r)
  PROVE  ReleasesInv'
<1> USE ReleasesAssumption DEF ReleasesInv, ReleasesTypeOK, StartUpload, UploadTo, At, Of, Rows, disk, auditor, past
<1>1. ReleasesTypeOK'
  OBVIOUS
<1>2. ListedMeansThere'
  BY DEF ListedMeansThere, Deleting, UploadsFit, AdminsFit, Unborn
<1>3. ArtifactKept'
  BY DEF ArtifactKept, UploadsFit, AdminsFit, Holds, Unborn
<1>4. NoStrayFiles'
  BY DEF NoStrayFiles, UploadsFit, AdminsFit, Holds, Unborn
<1>5. UploadsFit'
  BY DEF UploadsFit, AdminsFit, Unborn, Holds
<1>6. AdminsFit'
  BY DEF NoStrayFiles, UploadsFit, AdminsFit, Unborn, Holds
<1>7. AuditFits'
  BY DEF AuditFits, UploadsFit, Unborn
<1> QED
  BY <1>1, <1>2, <1>3, <1>4, <1>5, <1>6, <1>7

LEMMA FinalizeArtifactStep ==
  ASSUME ReleasesInv, NEW r \in Releases, FinalizeArtifact(r)
  PROVE  ReleasesInv'
<1> USE ReleasesAssumption DEF ReleasesInv, ReleasesTypeOK, FinalizeArtifact, UploadTo, At, Of, Rows, disk, auditor, past
<1>1. ReleasesTypeOK'
  OBVIOUS
<1>2. ListedMeansThere'
  BY DEF ListedMeansThere, Deleting, UploadsFit, AdminsFit, Unborn
<1>3. ArtifactKept'
  BY DEF ArtifactKept, UploadsFit, AdminsFit, Holds, Unborn
<1>4. NoStrayFiles'
  BY DEF NoStrayFiles, UploadsFit, AdminsFit, Holds, Unborn
<1>5. UploadsFit'
  BY DEF UploadsFit, AdminsFit, Unborn, Holds
<1>6. AdminsFit'
  BY DEF NoStrayFiles, UploadsFit, AdminsFit, Unborn, Holds
<1>7. AuditFits'
  BY DEF AuditFits, UploadsFit, Unborn
<1> QED
  BY <1>1, <1>2, <1>3, <1>4, <1>5, <1>6, <1>7

LEMMA RefuseUploadStep ==
  ASSUME ReleasesInv, NEW r \in Releases, RefuseUpload(r)
  PROVE  ReleasesInv'
<1> USE ReleasesAssumption DEF ReleasesInv, ReleasesTypeOK, RefuseUpload, UploadTo, At, Of, Rows, disk, auditor, past
<1>1. ReleasesTypeOK'
  OBVIOUS
<1>2. ListedMeansThere'
  BY DEF ListedMeansThere, Deleting, UploadsFit, AdminsFit, Unborn
<1>3. ArtifactKept'
  BY DEF ArtifactKept, UploadsFit, AdminsFit, Holds, Unborn
<1>4. NoStrayFiles'
  BY DEF NoStrayFiles, UploadsFit, AdminsFit, Holds, Unborn
<1>5. UploadsFit'
  BY DEF UploadsFit, AdminsFit, Unborn, Holds
<1>6. AdminsFit'
  BY DEF NoStrayFiles, UploadsFit, AdminsFit, Unborn, Holds
<1>7. AuditFits'
  BY DEF AuditFits, UploadsFit, Unborn
<1> QED
  BY <1>1, <1>2, <1>3, <1>4, <1>5, <1>6, <1>7

LEMMA InsertReleaseStep ==
  ASSUME ReleasesInv, NEW r \in Releases, InsertRelease(r)
  PROVE  ReleasesInv'
<1> USE ReleasesAssumption DEF ReleasesInv, ReleasesTypeOK, InsertRelease, UploadTo, At, Of, Rows, disk, auditor, past
<1>1. ReleasesTypeOK'
  OBVIOUS
<1>2. ListedMeansThere'
  BY DEF ListedMeansThere, Deleting, UploadsFit, AdminsFit, Unborn
<1>3. ArtifactKept'
  BY DEF ArtifactKept, UploadsFit, AdminsFit, Holds, Unborn
<1>4. NoStrayFiles'
  BY DEF NoStrayFiles, UploadsFit, AdminsFit, Holds, Unborn
<1>5. UploadsFit'
  BY DEF UploadsFit, AdminsFit, Unborn, Holds
<1>6. AdminsFit'
  BY DEF NoStrayFiles, UploadsFit, AdminsFit, Unborn, Holds
<1>7. AuditFits'
  BY DEF AuditFits, UploadsFit, Unborn
<1> QED
  BY <1>1, <1>2, <1>3, <1>4, <1>5, <1>6, <1>7

LEMMA FailUploadStep ==
  ASSUME ReleasesInv, NEW r \in Releases, FailUpload(r)
  PROVE  ReleasesInv'
<1> USE ReleasesAssumption DEF ReleasesInv, ReleasesTypeOK, FailUpload, UploadTo, WithoutArtifact, Interrupt, At, Of, Rows, disk, auditor, past
<1>1. ReleasesTypeOK'
  OBVIOUS
<1>2. ListedMeansThere'
  BY DEF ListedMeansThere, Deleting, UploadsFit, AdminsFit, Unborn
<1>3. ArtifactKept'
  BY DEF ArtifactKept, UploadsFit, AdminsFit, Holds, Unborn
<1>4. NoStrayFiles'
  BY DEF NoStrayFiles, UploadsFit, AdminsFit, Holds, Unborn
<1>5. UploadsFit'
  BY DEF UploadsFit, AdminsFit, Unborn, Holds
<1>6. AdminsFit'
  BY DEF NoStrayFiles, UploadsFit, AdminsFit, Unborn, Holds
<1>7. AuditFits'
  BY DEF AuditFits, UploadsFit, Unborn
<1> QED
  BY <1>1, <1>2, <1>3, <1>4, <1>5, <1>6, <1>7

LEMMA PublishUploadStep ==
  ASSUME ReleasesInv, NEW r \in Releases, PublishUpload(r)
  PROVE  ReleasesInv'
<1> USE ReleasesAssumption DEF ReleasesInv, ReleasesTypeOK, PublishUpload, UploadTo, At, Of, Rows, disk, auditor, past
<1>1. ReleasesTypeOK'
  OBVIOUS
<1>2. ListedMeansThere'
  BY DEF ListedMeansThere, Deleting, UploadsFit, AdminsFit, Unborn
<1>3. ArtifactKept'
  BY DEF ArtifactKept, UploadsFit, AdminsFit, Holds, Unborn
<1>4. NoStrayFiles'
  BY DEF NoStrayFiles, UploadsFit, AdminsFit, Holds, Unborn
<1>5. UploadsFit'
  BY DEF UploadsFit, AdminsFit, Unborn, Holds
<1>6. AdminsFit'
  BY DEF NoStrayFiles, UploadsFit, AdminsFit, Unborn, Holds
<1>7. AuditFits'
  BY DEF AuditFits, UploadsFit, Unborn
<1> QED
  BY <1>1, <1>2, <1>3, <1>4, <1>5, <1>6, <1>7

LEMMA LeaveDraftStep ==
  ASSUME ReleasesInv, NEW r \in Releases, LeaveDraft(r)
  PROVE  ReleasesInv'
<1> USE ReleasesAssumption DEF ReleasesInv, ReleasesTypeOK, LeaveDraft, UploadTo, At, Of, Rows, disk, auditor, past
<1>1. ReleasesTypeOK'
  OBVIOUS
<1>2. ListedMeansThere'
  BY DEF ListedMeansThere, Deleting, UploadsFit, AdminsFit, Unborn
<1>3. ArtifactKept'
  BY DEF ArtifactKept, UploadsFit, AdminsFit, Holds, Unborn
<1>4. NoStrayFiles'
  BY DEF NoStrayFiles, UploadsFit, AdminsFit, Holds, Unborn
<1>5. UploadsFit'
  BY DEF UploadsFit, AdminsFit, Unborn, Holds
<1>6. AdminsFit'
  BY DEF NoStrayFiles, UploadsFit, AdminsFit, Unborn, Holds
<1>7. AuditFits'
  BY DEF AuditFits, UploadsFit, Unborn
<1> QED
  BY <1>1, <1>2, <1>3, <1>4, <1>5, <1>6, <1>7

LEMMA LookAtStep ==
  ASSUME ReleasesInv, NEW r \in Releases, LookAt(r)
  PROVE  ReleasesInv'
<1> USE ReleasesAssumption DEF ReleasesInv, ReleasesTypeOK, LookAt, IsOrphan, At, Of, Rows, disk, auditor, past
<1>1. ReleasesTypeOK'
  OBVIOUS
<1>2. ListedMeansThere'
  BY DEF ListedMeansThere, Deleting, UploadsFit, AdminsFit, Unborn
<1>3. ArtifactKept'
  BY DEF ArtifactKept, UploadsFit, AdminsFit, Holds, Unborn
<1>4. NoStrayFiles'
  BY DEF NoStrayFiles, UploadsFit, AdminsFit, Holds, Unborn
<1>5. UploadsFit'
  BY DEF UploadsFit, AdminsFit, Unborn, Holds
<1>6. AdminsFit'
  BY DEF NoStrayFiles, UploadsFit, AdminsFit, Unborn, Holds
<1>7. AuditFits'
  BY DEF AuditFits, UploadsFit, Unborn
<1> QED
  BY <1>1, <1>2, <1>3, <1>4, <1>5, <1>6, <1>7

LEMMA VerifyForPublishStep ==
  ASSUME ReleasesInv, NEW a \in Admins, NEW r \in Releases, VerifyForPublish(a, r)
  PROVE  ReleasesInv'
<1> USE ReleasesAssumption DEF ReleasesInv, ReleasesTypeOK, VerifyForPublish, Go, Rest, Resting, At, Of, Rows, disk, auditor, past
<1>1. ReleasesTypeOK'
  OBVIOUS
<1>2. ListedMeansThere'
  BY DEF ListedMeansThere, Deleting, UploadsFit, AdminsFit, Unborn
<1>3. ArtifactKept'
  BY DEF ArtifactKept, UploadsFit, AdminsFit, Holds, Unborn
<1>4. NoStrayFiles'
  BY DEF NoStrayFiles, UploadsFit, AdminsFit, Holds, Unborn
<1>5. UploadsFit'
  BY DEF UploadsFit, AdminsFit, Unborn, Holds
<1>6. AdminsFit'
  BY DEF NoStrayFiles, UploadsFit, AdminsFit, Unborn, Holds
<1>7. AuditFits'
  BY DEF AuditFits, UploadsFit, Unborn
<1> QED
  BY <1>1, <1>2, <1>3, <1>4, <1>5, <1>6, <1>7

LEMMA StartDeleteStep ==
  ASSUME ReleasesInv, NEW a \in Admins, NEW r \in Releases, StartDelete(a, r)
  PROVE  ReleasesInv'
<1> USE ReleasesAssumption DEF ReleasesInv, ReleasesTypeOK, StartDelete, Go, Rest, Resting, At, Of, Rows, disk, auditor, past
<1>1. ReleasesTypeOK'
  OBVIOUS
<1>2. ListedMeansThere'
  BY DEF ListedMeansThere, Deleting, UploadsFit, AdminsFit, Unborn
<1>3. ArtifactKept'
  BY DEF ArtifactKept, UploadsFit, AdminsFit, Holds, Unborn
<1>4. NoStrayFiles'
  BY DEF NoStrayFiles, UploadsFit, AdminsFit, Holds, Unborn
<1>5. UploadsFit'
  BY DEF UploadsFit, AdminsFit, Unborn, Holds
<1>6. AdminsFit'
  BY DEF NoStrayFiles, UploadsFit, AdminsFit, Unborn, Holds
<1>7. AuditFits'
  BY DEF AuditFits, UploadsFit, Unborn
<1> QED
  BY <1>1, <1>2, <1>3, <1>4, <1>5, <1>6, <1>7

LEMMA PublishStep ==
  ASSUME ReleasesInv, NEW a \in Admins, Publish(a)
  PROVE  ReleasesInv'
<1> USE ReleasesAssumption DEF ReleasesInv, ReleasesTypeOK, Publish, Go, Rest, Resting, At, Of, Rows, disk, auditor, past
<1>1. ReleasesTypeOK'
  OBVIOUS
<1>2. ListedMeansThere'
  BY DEF ListedMeansThere, Deleting, UploadsFit, AdminsFit, Unborn
<1>3. ArtifactKept'
  BY DEF ArtifactKept, UploadsFit, AdminsFit, Holds, Unborn
<1>4. NoStrayFiles'
  BY DEF NoStrayFiles, UploadsFit, AdminsFit, Holds, Unborn
<1>5. UploadsFit'
  BY DEF UploadsFit, AdminsFit, Unborn, Holds
<1>6. AdminsFit'
  BY DEF NoStrayFiles, UploadsFit, AdminsFit, Unborn, Holds
<1>7. AuditFits'
  BY DEF AuditFits, UploadsFit, Unborn
<1> QED
  BY <1>1, <1>2, <1>3, <1>4, <1>5, <1>6, <1>7

LEMMA IsolateStep ==
  ASSUME ReleasesInv, NEW a \in Admins, Isolate(a)
  PROVE  ReleasesInv'
<1> USE ReleasesAssumption DEF ReleasesInv, ReleasesTypeOK, Isolate, Go, Rest, Resting, QuarantineArtifact, At, Of, Rows, disk, auditor, past
<1>1. ReleasesTypeOK'
  OBVIOUS
<1>2. ListedMeansThere'
  BY DEF ListedMeansThere, Deleting, UploadsFit, AdminsFit, Unborn
<1>3. ArtifactKept'
  BY DEF ArtifactKept, UploadsFit, AdminsFit, Holds, Unborn
<1>4. NoStrayFiles'
  BY DEF NoStrayFiles, UploadsFit, AdminsFit, Holds, Unborn
<1>5. UploadsFit'
  BY DEF UploadsFit, AdminsFit, Unborn, Holds
<1>6. AdminsFit'
  BY DEF NoStrayFiles, UploadsFit, AdminsFit, Unborn, Holds
<1>7. AuditFits'
  BY DEF AuditFits, UploadsFit, Unborn
<1> QED
  BY <1>1, <1>2, <1>3, <1>4, <1>5, <1>6, <1>7

LEMMA DeleteRowStep ==
  ASSUME ReleasesInv, NEW a \in Admins, DeleteRow(a)
  PROVE  ReleasesInv'
<1> USE ReleasesAssumption DEF ReleasesInv, ReleasesTypeOK, DeleteRow, Go, Rest, Resting, At, Of, Rows, disk, auditor, past
<1>1. ReleasesTypeOK'
  OBVIOUS
<1>2. ListedMeansThere'
  BY DEF ListedMeansThere, Deleting, UploadsFit, AdminsFit, Unborn
<1>3. ArtifactKept'
  BY DEF ArtifactKept, UploadsFit, AdminsFit, Holds, Unborn
<1>4. NoStrayFiles'
  BY DEF NoStrayFiles, UploadsFit, AdminsFit, Holds, Unborn
<1>5. UploadsFit'
  BY DEF UploadsFit, AdminsFit, Unborn, Holds
<1>6. AdminsFit'
  BY DEF NoStrayFiles, UploadsFit, AdminsFit, Unborn, Holds
<1>7. AuditFits'
  BY DEF AuditFits, UploadsFit, Unborn
<1> QED
  BY <1>1, <1>2, <1>3, <1>4, <1>5, <1>6, <1>7

LEMMA RestoreArtifactStep ==
  ASSUME ReleasesInv, NEW a \in Admins, RestoreArtifact(a)
  PROVE  ReleasesInv'
<1> USE ReleasesAssumption DEF ReleasesInv, ReleasesTypeOK, RestoreArtifact, Go, Rest, Resting, Restored, Interrupt, At, Of, Rows, disk, auditor, past
<1>1. ReleasesTypeOK'
  BY DEF AdminsFit
<1>2. ListedMeansThere'
  BY DEF ListedMeansThere, Deleting, UploadsFit, AdminsFit, Unborn
<1>3. ArtifactKept'
  BY DEF ArtifactKept, UploadsFit, AdminsFit, Holds, Unborn
<1>4. NoStrayFiles'
  BY DEF NoStrayFiles, UploadsFit, AdminsFit, Holds, Unborn
<1>5. UploadsFit'
  BY DEF UploadsFit, AdminsFit, Unborn, Holds
<1>6. AdminsFit'
  BY DEF NoStrayFiles, UploadsFit, AdminsFit, Unborn, Holds
<1>7. AuditFits'
  BY DEF AuditFits, UploadsFit, Unborn
<1> QED
  BY <1>1, <1>2, <1>3, <1>4, <1>5, <1>6, <1>7

LEMMA FailRestoreStep ==
  ASSUME ReleasesInv, NEW a \in Admins, FailRestore(a)
  PROVE  ReleasesInv'
<1> USE ReleasesAssumption DEF ReleasesInv, ReleasesTypeOK, FailRestore, Go, Rest, Resting, Interrupt, At, Of, Rows, disk, auditor, past
<1>1. ReleasesTypeOK'
  BY DEF AdminsFit
<1>2. ListedMeansThere'
  BY DEF ListedMeansThere, Deleting, UploadsFit, AdminsFit, Unborn
<1>3. ArtifactKept'
  BY DEF ArtifactKept, UploadsFit, AdminsFit, Holds, Unborn
<1>4. NoStrayFiles'
  BY DEF NoStrayFiles, UploadsFit, AdminsFit, Holds, Unborn
<1>5. UploadsFit'
  BY DEF UploadsFit, AdminsFit, Unborn, Holds
<1>6. AdminsFit'
  BY DEF NoStrayFiles, UploadsFit, AdminsFit, Unborn, Holds
<1>7. AuditFits'
  BY DEF AuditFits, UploadsFit, Unborn
<1> QED
  BY <1>1, <1>2, <1>3, <1>4, <1>5, <1>6, <1>7

LEMMA RemoveQuarantinedStep ==
  ASSUME ReleasesInv, NEW a \in Admins, RemoveQuarantined(a)
  PROVE  ReleasesInv'
<1> USE ReleasesAssumption DEF ReleasesInv, ReleasesTypeOK, RemoveQuarantined, Go, Rest, Resting, Interrupt, At, Of, Rows, disk, auditor, past
<1>1. ReleasesTypeOK'
  BY DEF AdminsFit
<1>2. ListedMeansThere'
  BY DEF ListedMeansThere, Deleting, UploadsFit, AdminsFit, Unborn
<1>3. ArtifactKept'
  BY DEF ArtifactKept, UploadsFit, AdminsFit, Holds, Unborn
<1>4. NoStrayFiles'
  BY DEF NoStrayFiles, UploadsFit, AdminsFit, Holds, Unborn
<1>5. UploadsFit'
  BY DEF UploadsFit, AdminsFit, Unborn, Holds
<1>6. AdminsFit'
  BY DEF NoStrayFiles, UploadsFit, AdminsFit, Unborn, Holds
<1>7. AuditFits'
  BY DEF AuditFits, UploadsFit, Unborn
<1> QED
  BY <1>1, <1>2, <1>3, <1>4, <1>5, <1>6, <1>7

LEMMA CrashServerStep ==
  ASSUME ReleasesInv, CrashServer
  PROVE  ReleasesInv'
<1> USE ReleasesAssumption DEF ReleasesInv, ReleasesTypeOK, CrashServer, Resting, Interrupt, At, Of, Rows, disk, auditor, past
<1>1. ReleasesTypeOK'
  BY DEF AdminsFit
<1>2. ListedMeansThere'
  BY DEF ListedMeansThere, Deleting, UploadsFit, AdminsFit, Unborn
<1>3. ArtifactKept'
  BY DEF ArtifactKept, UploadsFit, AdminsFit, Holds, Unborn
<1>4. NoStrayFiles'
  BY DEF NoStrayFiles, UploadsFit, AdminsFit, Holds, Unborn
<1>5. UploadsFit'
  BY DEF UploadsFit, AdminsFit, Unborn, Holds
<1>6. AdminsFit'
  BY DEF NoStrayFiles, UploadsFit, AdminsFit, Unborn, Holds
<1>7. AuditFits'
  BY DEF AuditFits, UploadsFit, Unborn
<1> QED
  BY <1>1, <1>2, <1>3, <1>4, <1>5, <1>6, <1>7

LEMMA ListRowsStep ==
  ASSUME ReleasesInv, ListRows
  PROVE  ReleasesInv'
<1> USE ReleasesAssumption DEF ReleasesInv, ReleasesTypeOK, ListRows, At, Of, Rows, disk, auditor, past
<1>1. ReleasesTypeOK'
  OBVIOUS
<1>2. ListedMeansThere'
  BY DEF ListedMeansThere, Deleting, UploadsFit, AdminsFit, Unborn
<1>3. ArtifactKept'
  BY DEF ArtifactKept, UploadsFit, AdminsFit, Holds, Unborn
<1>4. NoStrayFiles'
  BY DEF NoStrayFiles, UploadsFit, AdminsFit, Holds, Unborn
<1>5. UploadsFit'
  BY DEF UploadsFit, AdminsFit, Unborn, Holds
<1>6. AdminsFit'
  BY DEF NoStrayFiles, UploadsFit, AdminsFit, Unborn, Holds
<1>7. AuditFits'
  BY DEF AuditFits, UploadsFit, Unborn
<1> QED
  BY <1>1, <1>2, <1>3, <1>4, <1>5, <1>6, <1>7

LEMMA ReadDirectoryStep ==
  ASSUME ReleasesInv, ReadDirectory
  PROVE  ReleasesInv'
<1> USE ReleasesAssumption DEF ReleasesInv, ReleasesTypeOK, ReadDirectory, At, Of, Rows, disk, auditor, past
<1>1. ReleasesTypeOK'
  OBVIOUS
<1>2. ListedMeansThere'
  BY DEF ListedMeansThere, Deleting, UploadsFit, AdminsFit, Unborn
<1>3. ArtifactKept'
  BY DEF ArtifactKept, UploadsFit, AdminsFit, Holds, Unborn
<1>4. NoStrayFiles'
  BY DEF NoStrayFiles, UploadsFit, AdminsFit, Holds, Unborn
<1>5. UploadsFit'
  BY DEF UploadsFit, AdminsFit, Unborn, Holds
<1>6. AdminsFit'
  BY DEF NoStrayFiles, UploadsFit, AdminsFit, Unborn, Holds
<1>7. AuditFits'
  BY DEF AuditFits, UploadsFit, Unborn
<1> QED
  BY <1>1, <1>2, <1>3, <1>4, <1>5, <1>6, <1>7

LEMMA FinishAuditStep ==
  ASSUME ReleasesInv, FinishAudit
  PROVE  ReleasesInv'
<1> USE ReleasesAssumption DEF ReleasesInv, ReleasesTypeOK, FinishAudit, At, Of, Rows, disk, auditor, past
<1>1. ReleasesTypeOK'
  OBVIOUS
<1>2. ListedMeansThere'
  BY DEF ListedMeansThere, Deleting, UploadsFit, AdminsFit, Unborn
<1>3. ArtifactKept'
  BY DEF ArtifactKept, UploadsFit, AdminsFit, Holds, Unborn
<1>4. NoStrayFiles'
  BY DEF NoStrayFiles, UploadsFit, AdminsFit, Holds, Unborn
<1>5. UploadsFit'
  BY DEF UploadsFit, AdminsFit, Unborn, Holds
<1>6. AdminsFit'
  BY DEF NoStrayFiles, UploadsFit, AdminsFit, Unborn, Holds
<1>7. AuditFits'
  BY DEF AuditFits, UploadsFit, Unborn
<1> QED
  BY <1>1, <1>2, <1>3, <1>4, <1>5, <1>6, <1>7

LEMMA ReleasesStep ==
  ASSUME ReleasesInv, [ReleasesNext]_releaseVars
  PROVE  ReleasesInv'
<1>1. CASE UNCHANGED releaseVars
  BY <1>1 DEF releaseVars, disk, auditor, past, ReleasesInv, ReleasesTypeOK, ListedMeansThere, ArtifactKept,
              NoStrayFiles, UploadsFit, AdminsFit, AuditFits, Deleting, Unborn, Holds, At, Of, Rows
<1>2. CASE ReleasesNext
  <2>1. ASSUME NEW r \in Releases,
               \/ StartUpload(r) \/ FinalizeArtifact(r) \/ RefuseUpload(r) \/ InsertRelease(r)
               \/ FailUpload(r) \/ PublishUpload(r) \/ LeaveDraft(r) \/ LookAt(r)
        PROVE  ReleasesInv'
    BY <2>1, StartUploadStep, FinalizeArtifactStep, RefuseUploadStep, InsertReleaseStep,
       FailUploadStep, PublishUploadStep, LeaveDraftStep, LookAtStep
  <2>2. ASSUME NEW a \in Admins,
               \/ \E r \in Releases : VerifyForPublish(a, r) \/ StartDelete(a, r)
               \/ Publish(a) \/ Isolate(a) \/ DeleteRow(a)
               \/ RestoreArtifact(a) \/ FailRestore(a) \/ RemoveQuarantined(a)
        PROVE  ReleasesInv'
    BY <2>2, VerifyForPublishStep, StartDeleteStep, PublishStep, IsolateStep, DeleteRowStep,
       RestoreArtifactStep, FailRestoreStep, RemoveQuarantinedStep
  <2>3. ASSUME CrashServer \/ ListRows \/ ReadDirectory \/ FinishAudit
        PROVE  ReleasesInv'
    BY <2>3, CrashServerStep, ListRowsStep, ReadDirectoryStep, FinishAuditStep
  <2> QED
    BY <1>2, <2>1, <2>2, <2>3 DEF ReleasesNext
<1> QED
  BY <1>1, <1>2

LEMMA ReleasesInitially == ReleasesInit => ReleasesInv
  BY ReleasesAssumption
  DEF ReleasesInit, ReleasesInv, ReleasesTypeOK, ListedMeansThere, ArtifactKept, NoStrayFiles,
      UploadsFit, AdminsFit, AuditFits, Unborn, Holds, At, Of, Rows, Resting

\* What is on disk, what has a row and what is under way fit each other, whatever crashes.
THEOREM ReleasesInvariant == ReleasesSpec => []ReleasesInv
<1>1. ReleasesInv /\ [ReleasesNext]_releaseVars => ReleasesInv'
  BY ReleasesStep
<1> QED
  BY <1>1, ReleasesInitially, PTL DEF ReleasesSpec

\* A listed release can be downloaded, up to the exceptions that ListedMeansThere names.
THEOREM ListedReleasesAreThere == ReleasesSpec => []ListedMeansThere
<1>1. ReleasesInv => ListedMeansThere
  BY DEF ReleasesInv
<1> QED
  BY <1>1, ReleasesInvariant, PTL

\* No artifact is lost before its row.
THEOREM ArtifactsAreKept == ReleasesSpec => []ArtifactKept
<1>1. ReleasesInv => ArtifactKept
  BY DEF ReleasesInv
<1> QED
  BY <1>1, ReleasesInvariant, PTL

\* A file without a row belongs to an operation under way or to one that was interrupted.
THEOREM StrayFilesExplained == ReleasesSpec => []NoStrayFiles
<1>1. ReleasesInv => NoStrayFiles
  BY DEF ReleasesInv
<1> QED
  BY <1>1, ReleasesInvariant, PTL

\* The audit takes the file of a listed release only if it listed the rows before the upload's INSERT.
THEOREM AuditSweepsOrphansOnly == ReleasesSpec => SweptWhileUploading
<1>1. ASSUME ReleasesInv, [ReleasesNext]_releaseVars, NEW r \in swept' \ swept, r \in Rows
      PROVE  r \in pending
  <2>1. CASE \E q \in Releases : LookAt(q)
    <3>1. PICK q \in Releases : LookAt(q)
      BY <2>1
    <3>2. q = r /\ r \in Releases \ referenced /\ audit = "read"
      BY <1>1, <3>1 DEF LookAt, IsOrphan
    <3> QED
      BY <1>1, <3>2 DEF ReleasesInv, AuditFits
  <2>2. CASE swept' = swept
    BY <1>1, <2>2
  <2>3. CASE ReleasesNext /\ ~(\E q \in Releases : LookAt(q))
    <3>1. swept' = swept
      BY <2>3 DEF ReleasesNext, past, StartUpload, FinalizeArtifact, RefuseUpload, InsertRelease, FailUpload,
           PublishUpload, LeaveDraft, VerifyForPublish, StartDelete, Publish, Isolate, DeleteRow,
           RestoreArtifact, FailRestore, RemoveQuarantined, CrashServer, ListRows, ReadDirectory, FinishAudit
    <3> QED
      BY <1>1, <3>1
  <2> QED
    BY <1>1, <2>1, <2>2, <2>3 DEF releaseVars, past
<1>2. ReleasesInv /\ [ReleasesNext]_releaseVars =>
        [\A r \in swept' \ swept : r \in Rows => r \in pending]_releaseVars
  BY <1>1
<1> QED
  BY <1>2, ReleasesInvariant, PTL DEF ReleasesSpec, SweptWhileUploading
-----------------------------------------------------------------------------
\* The pool of mailboxes: what each step of a delivery, of administrators and of time keeps.
LEMMA DeliveryRecords ==
  /\ NoDelivery \in Delivery
  /\ \A d \in 0..LastDate : [NoDelivery EXCEPT !.on = d] \in Delivery
  /\ \A l \in Delivery, S \in SUBSET Mailboxes : [l EXCEPT !.stale = S] \in Delivery /\ [l EXCEPT !.uses = S] \in Delivery
<1> USE QuotasAssumption DEF Delivery
<1>1. NoDelivery \in Delivery
  BY DEF NoDelivery
<1>2. ASSUME NEW d \in 0..LastDate PROVE [NoDelivery EXCEPT !.on = d] \in Delivery
  BY <1>1
<1>3. ASSUME NEW l \in Delivery, NEW S \in SUBSET Mailboxes
      PROVE  [l EXCEPT !.stale = S] \in Delivery /\ [l EXCEPT !.uses = S] \in Delivery
  OBVIOUS
<1> QED
  BY <1>1, <1>2, <1>3

LEMMA StepType ==
  ASSUME PoolInv, NEW w \in Senders, NEW to \in Stages, NEW locals \in Delivery, Step(w, to, locals)
  PROVE  /\ stage' \in [Senders -> Stages] /\ delivery' \in [Senders -> Delivery]
         /\ stage'[w] = to /\ delivery'[w] = locals
         /\ \A v \in Senders \ {w} : stage'[v] = stage[v] /\ delivery'[v] = delivery[v]
  BY DEF Step, PoolInv, PoolTypeOK

LEMMA StopType ==
  ASSUME PoolInv, NEW w \in Senders, StopDelivery(w)
  PROVE  /\ stage' \in [Senders -> Stages] /\ delivery' \in [Senders -> Delivery]
         /\ stage'[w] = "idle"
         /\ \A v \in Senders \ {w} : stage'[v] = stage[v] /\ delivery'[v] = delivery[v]
<1>1. Step(w, "idle", NoDelivery) /\ "idle" \in Stages
  BY DEF StopDelivery, Stages
<1> QED
  BY <1>1, StepType, DeliveryRecords

LEMMA PoolTypes ==
  ASSUME PoolInv
  PROVE  /\ \A m \in Mailboxes : /\ quota[m] \in Nat /\ usedToday[m] \in Nat /\ usageDate[m] \in 0..LastDate
                                 /\ turned[m] \in 0..LastDate
                                 /\ \A d \in Dates : /\ accepted[m][d] \in Nat /\ limit[m][d] \in Nat
                                                      /\ unheard[m][d] \in Nat /\ uncounted[m][d] \in Nat
         /\ \A w \in Senders : /\ delivery[w] \in Delivery /\ delivery[w].on \in 0..LastDate
                               /\ delivery[w].stale \subseteq Mailboxes /\ delivery[w].uses \subseteq Mailboxes
                               /\ delivery[w].excluded \subseteq Mailboxes
         /\ date \in 0..LastDate /\ LastDate \in Nat
<1> USE QuotasAssumption DEF PoolInv, PoolTypeOK
<1>1. \A w \in Senders : delivery[w] \in Delivery
  OBVIOUS
<1>2. date \in 0..LastDate
  BY DEF Dates
<1> QED
  BY <1>1, <1>2 DEF Delivery

\* The mails underway are no more than the workers.
LEMMA UnderwayCounted ==
  ASSUME NEW m \in Mailboxes, NEW d \in Dates
  PROVE  /\ IsFiniteSet(Underway(m, d)) /\ Cardinality(Underway(m, d)) \in Nat
         /\ IsFiniteSet(Underway(m, d)') /\ Cardinality(Underway(m, d)') \in Nat
<1>1. Underway(m, d) \subseteq Senders /\ Underway(m, d)' \subseteq Senders
  BY DEF Underway
<1>2. IsFiniteSet(Underway(m, d)) /\ IsFiniteSet(Underway(m, d)')
  BY <1>1, SendersAssumption, FS_Subset
<1> QED
  BY <1>2, FS_CardinalityType

\* A delivery that ends, or goes on to the next mailbox, is one mail less that is underway ...
LEMMA UnderwayEnds ==
  ASSUME NEW w \in Senders, \A v \in Senders \ {w} : stage'[v] = stage[v] /\ delivery'[v] = delivery[v],
         stage[w] \in {"send", "release"}, stage'[w] \notin {"send", "release"},
         NEW m \in Mailboxes, NEW d \in Dates, m \in delivery[w].uses, d = delivery[w].on
  PROVE  Cardinality(Underway(m, d)') = Cardinality(Underway(m, d)) - 1
<1>1. w \in Underway(m, d) /\ Underway(m, d)' = Underway(m, d) \ {w}
  BY DEF Underway
<1>2. Cardinality(Underway(m, d) \ {w}) = Cardinality(Underway(m, d)) - 1
  BY <1>1, UnderwayCounted, FS_RemoveElement
<1> QED
  BY <1>1, <1>2

\* ... and a place reserved is one more.
LEMMA UnderwayBegins ==
  ASSUME NEW w \in Senders, \A v \in Senders \ {w} : stage'[v] = stage[v] /\ delivery'[v] = delivery[v],
         stage[w] = "reserve", stage'[w] = "send",
         delivery'[w].on = delivery[w].on, delivery'[w].uses = delivery[w].uses,
         NEW m \in Mailboxes, NEW d \in Dates
  PROVE  Cardinality(Underway(m, d)') =
           IF m \in delivery[w].uses /\ d = delivery[w].on THEN Cardinality(Underway(m, d)) + 1 ELSE Cardinality(Underway(m, d))
<1>1. CASE m \in delivery[w].uses /\ d = delivery[w].on
  <2>1. w \notin Underway(m, d) /\ Underway(m, d)' = Underway(m, d) \cup {w}
    BY <1>1 DEF Underway
  <2>2. Cardinality(Underway(m, d) \cup {w}) = Cardinality(Underway(m, d)) + 1
    BY <2>1, UnderwayCounted, FS_AddElement
  <2> QED
    BY <1>1, <2>1, <2>2
<1>2. CASE ~(m \in delivery[w].uses /\ d = delivery[w].on)
  <2>1. Underway(m, d)' = Underway(m, d)
    BY <1>2 DEF Underway
  <2> QED
    BY <1>2, <2>1
<1> QED
  BY <1>1, <1>2

\* Other steps of a worker add none.
LEMMA UnderwayRests ==
  ASSUME NEW w \in Senders, \A v \in Senders \ {w} : stage'[v] = stage[v] /\ delivery'[v] = delivery[v],
         \/ stage'[w] \notin {"send", "release"}
         \/ stage[w] = "send" /\ delivery'[w] = delivery[w],
         NEW m \in Mailboxes, NEW d \in Dates
  PROVE  Cardinality(Underway(m, d)') <= Cardinality(Underway(m, d))
<1>1. Underway(m, d)' \subseteq Underway(m, d)
  BY DEF Underway
<1> QED
  BY <1>1, UnderwayCounted, FS_Subset

LEMMA CountsKept ==
  ASSUME PoolInv, NEW w \in Senders, \A v \in Senders \ {w} : stage'[v] = stage[v] /\ delivery'[v] = delivery[v],
         \/ stage'[w] \notin {"send", "release"}
         \/ stage[w] = "send" /\ delivery'[w] = delivery[w],
         usedToday' = usedToday, usageDate' = usageDate, ledger' = ledger
  PROVE  CountsFit'
<1> SUFFICES ASSUME NEW m \in Mailboxes, NEW d \in Dates, d > turned[m]
             PROVE  CountFits(m, d)'
  BY DEF CountsFit, ledger
<1>1. CountFits(m, d)
  BY DEF PoolInv, CountsFit
<1>2. CountOf(m, d)' = CountOf(m, d)
  BY DEF CountOf, ledger
<1>3. Cardinality(Underway(m, d)') <= Cardinality(Underway(m, d))
  BY UnderwayRests
<1>4. /\ Cardinality(Underway(m, d)') \in Nat /\ Cardinality(Underway(m, d)) \in Nat /\ accepted[m][d] \in Nat
      /\ unheard[m][d] \in Nat /\ uncounted[m][d] \in Nat /\ CountOf(m, d) \in Nat
  BY UnderwayCounted, PoolTypes DEF CountOf
<1> QED
  BY <1>1, <1>2, <1>3, <1>4 DEF CountFits, ledger

LEMMA CountsUnmoved ==
  ASSUME PoolInv, usedToday' = usedToday, usageDate' = usageDate, senders' = senders, ledger' = ledger
  PROVE  CountsFit'
<1> SUFFICES ASSUME NEW m \in Mailboxes, NEW d \in Dates, d > turned[m]
             PROVE  CountFits(m, d)'
  BY DEF CountsFit, ledger
<1>1. CountFits(m, d)
  BY DEF PoolInv, CountsFit
<1>2. CountOf(m, d)' = CountOf(m, d) /\ Underway(m, d)' = Underway(m, d)
  BY DEF CountOf, Underway, ledger, senders
<1> QED
  BY <1>1, <1>2 DEF CountFits, ledger

\* What histories are, of the dates that are kept.
LEMMA KeptHistory ==
  ASSUME NEW h \in [Mailboxes -> [Dates -> Nat]]
  PROVE  /\ Kept(h) \in [Mailboxes -> [Dates -> Nat]]
         /\ \A m \in Mailboxes, d \in Dates : d > turned'[m] => Kept(h)[m][d] = h[m][d]
<1>1. \A m \in Mailboxes, d \in Dates : (IF d > turned'[m] THEN h[m][d] ELSE 0) \in Nat
  OBVIOUS
<1> QED
  BY <1>1 DEF Kept

LEMMA TalliedHistory ==
  ASSUME NEW h \in [Mailboxes -> [Dates -> Nat]], NEW w \in Senders
  PROVE  /\ Tally(h, w) \in [Mailboxes -> [Dates -> Nat]]
         /\ \A m \in Mailboxes, d \in Dates :
              Tally(h, w)[m][d] = IF m \in delivery[w].uses /\ d = delivery[w].on THEN h[m][d] + 1 ELSE h[m][d]
<1>1. \A m \in Mailboxes, d \in Dates :
        (IF m \in delivery[w].uses /\ d = delivery[w].on THEN h[m][d] + 1 ELSE h[m][d]) \in Nat
  OBVIOUS
<1> QED
  BY <1>1 DEF Tally

LEMMA StartDeliveryStep ==
  ASSUME PoolInv, NEW w \in Senders, StartDelivery(w)
  PROVE  PoolInv'
<1>1. [NoDelivery EXCEPT !.on = date] \in Delivery /\ "acquire" \in Stages
  BY PoolTypes, DeliveryRecords DEF Stages, Dates
<1>2. /\ stage' \in [Senders -> Stages] /\ delivery' \in [Senders -> Delivery]
      /\ stage'[w] = "acquire" /\ delivery'[w] = [NoDelivery EXCEPT !.on = date]
      /\ \A v \in Senders \ {w} : stage'[v] = stage[v] /\ delivery'[v] = delivery[v]
  BY <1>1, StepType DEF StartDelivery
<1> USE SendersAssumption, QuotasAssumption DEF PoolInv, PoolTypeOK, columns, senders, ledger, StartDelivery
<1>3. PoolTypeOK'
  BY <1>2
<1>4. CountsFit'
  BY <1>2, CountsKept
<1>5. ReservationsFit'
  <2>1. \A m \in Mailboxes : locker'[m] # NoSender => m \in Pool'
    BY DEF ReservationsFit, Pool
  <2>2. ReservationFits(w)'
    BY <1>1, <1>2, PoolTypes DEF ReservationsFit, ReservationFits, Delivery, NoDelivery, Dates, HasQuota, Uses
  <2>3. ASSUME NEW v \in Senders \ {w} PROVE ReservationFits(v)'
    BY <1>2, PoolTypes DEF ReservationsFit, ReservationFits, Pool, HasQuota, Uses
  <2> QED
    BY <2>1, <2>2, <2>3 DEF ReservationsFit
<1> QED
  BY <1>3, <1>4, <1>5

LEMMA StartResetStep ==
  ASSUME PoolInv, NEW w \in Senders, StartReset(w)
  PROVE  PoolInv'
<1>1. [delivery[w] EXCEPT !.stale = {m \in Pool : usageDate[m] # delivery[w].on}] \in Delivery /\ "reset" \in Stages
  BY PoolTypes, DeliveryRecords DEF Stages, Dates, Pool
<1>2. /\ stage' \in [Senders -> Stages] /\ delivery' \in [Senders -> Delivery]
      /\ stage'[w] = "reset" /\ delivery'[w] = [delivery[w] EXCEPT !.stale = {m \in Pool : usageDate[m] # delivery[w].on}]
      /\ \A v \in Senders \ {w} : stage'[v] = stage[v] /\ delivery'[v] = delivery[v]
  BY <1>1, StepType DEF StartReset
<1> USE SendersAssumption, QuotasAssumption DEF PoolInv, PoolTypeOK, columns, senders, ledger, StartReset, Pool
<1>3. PoolTypeOK'
  BY <1>2
<1>4. CountsFit'
  BY <1>2, CountsKept
<1>5. ReservationsFit'
  <2>1. \A m \in Mailboxes : locker'[m] # NoSender => m \in Pool'
    BY DEF ReservationsFit, Pool
  <2>2. ReservationFits(w)'
    BY <1>1, <1>2, PoolTypes DEF ReservationsFit, ReservationFits, Delivery, NoDelivery, Dates, HasQuota, Uses
  <2>3. ASSUME NEW v \in Senders \ {w} PROVE ReservationFits(v)'
    BY <1>2, PoolTypes DEF ReservationsFit, ReservationFits, Pool, HasQuota, Uses
  <2> QED
    BY <2>1, <2>2, <2>3 DEF ReservationsFit
<1> QED
  BY <1>3, <1>4, <1>5

LEMMA ResetDatesStep ==
  ASSUME PoolInv, NEW w \in Senders, ResetDates(w)
  PROVE  PoolInv'
<1>1. [delivery[w] EXCEPT !.stale = {m \in delivery[w].stale \cap Pool : usageDate[m] # delivery[w].on}] \in Delivery /\ "select" \in Stages
  BY PoolTypes, DeliveryRecords DEF Stages, Dates, Pool
<1>2. /\ stage' \in [Senders -> Stages] /\ delivery' \in [Senders -> Delivery]
      /\ stage'[w] = "select" /\ delivery'[w] = [delivery[w] EXCEPT !.stale = {m \in delivery[w].stale \cap Pool : usageDate[m] # delivery[w].on}]
      /\ \A v \in Senders \ {w} : stage'[v] = stage[v] /\ delivery'[v] = delivery[v]
  BY <1>1, StepType DEF ResetDates
<1> USE SendersAssumption, QuotasAssumption DEF PoolInv, PoolTypeOK, columns, senders, ledger, ResetDates, Pool
<1>3. PoolTypeOK'
  BY <1>2
<1>4. CountsFit'
  BY <1>2, CountsKept
<1>5. ReservationsFit'
  <2>1. \A m \in Mailboxes : locker'[m] # NoSender => m \in Pool'
    BY DEF ReservationsFit, Pool
  <2>2. ReservationFits(w)'
    BY <1>1, <1>2, PoolTypes DEF ReservationsFit, ReservationFits, Delivery, NoDelivery, Dates, HasQuota, Uses
  <2>3. ASSUME NEW v \in Senders \ {w} PROVE ReservationFits(v)'
    BY <1>2, PoolTypes DEF ReservationsFit, ReservationFits, Pool, HasQuota, Uses
  <2> QED
    BY <2>1, <2>2, <2>3 DEF ReservationsFit
<1> QED
  BY <1>3, <1>4, <1>5

LEMMA SelectMailboxStep ==
  ASSUME PoolInv, NEW w \in Senders, NEW m \in Mailboxes, SelectMailbox(w, m)
  PROVE  PoolInv'
<1>1. [delivery[w] EXCEPT !.uses = {m}] \in Delivery /\ "reserve" \in Stages
  BY PoolTypes, DeliveryRecords DEF Stages, Dates, WithQuota, Candidates, Pool
<1>2. /\ stage' \in [Senders -> Stages] /\ delivery' \in [Senders -> Delivery]
      /\ stage'[w] = "reserve" /\ delivery'[w] = [delivery[w] EXCEPT !.uses = {m}]
      /\ \A v \in Senders \ {w} : stage'[v] = stage[v] /\ delivery'[v] = delivery[v]
  BY <1>1, StepType DEF SelectMailbox
<1> USE SendersAssumption, QuotasAssumption DEF PoolInv, PoolTypeOK, columns, senders, ledger, SelectMailbox, WithQuota, Candidates, Pool
<1>3. PoolTypeOK'
  BY <1>2
<1>4. CountsFit'
  BY <1>2, CountsKept
<1>5. ReservationsFit'
  <2>1. \A n \in Mailboxes : locker'[n] # NoSender => n \in Pool'
    BY DEF ReservationsFit, Pool
  <2>2. ReservationFits(w)'
    <3>1. /\ ReservationFits(w) /\ stage[w] = "select" /\ delivery[w] \in Delivery
          /\ m \in WithQuota(w) /\ \A n \in Mailboxes : locker[n] = w => locker'[n] = w
      BY DEF ReservationsFit
    <3>2. /\ delivery'[w].on = delivery[w].on /\ delivery'[w].stale = delivery[w].stale /\ delivery'[w].uses = {m}
      BY <1>2, <3>1 DEF Delivery
    <3> QED
      BY <1>2, <3>1, <3>2, PoolTypes DEF ReservationFits, HasQuota, Uses
  <2>3. ASSUME NEW v \in Senders \ {w} PROVE ReservationFits(v)'
    BY <1>2, PoolTypes DEF ReservationsFit, ReservationFits, Pool, HasQuota, Uses
  <2> QED
    BY <2>1, <2>2, <2>3 DEF ReservationsFit
<1> QED
  BY <1>3, <1>4, <1>5

\* A transaction that is rolled back has locked nothing any more.
LEMMA ReservationGivenUp ==
  ASSUME PoolInv, NEW w \in Senders, stage'[w] = "idle", Unlock(w), UNCHANGED columns,
         \A v \in Senders \ {w} : stage'[v] = stage[v] /\ delivery'[v] = delivery[v]
  PROVE  ReservationsFit'
<1>1. \A m \in Mailboxes : locker'[m] # NoSender => m \in Pool'
  BY SendersAssumption DEF Unlock, PoolInv, ReservationsFit, Pool, columns
<1>2. ReservationFits(w)'
  BY SendersAssumption DEF Unlock, ReservationFits
<1>3. ASSUME NEW v \in Senders \ {w} PROVE ReservationFits(v)'
  <2>1. \A m \in Mailboxes : locker'[m] = v <=> locker[m] = v
    BY SendersAssumption DEF Unlock
  <2>2. ReservationFits(v) /\ delivery[v].stale \subseteq Mailboxes /\ delivery[v].uses \subseteq Mailboxes
    BY PoolTypes DEF PoolInv, ReservationsFit
  <2> QED
    BY <2>1, <2>2 DEF ReservationFits, HasQuota, Uses, columns
<1> QED
  BY <1>1, <1>2, <1>3 DEF ReservationsFit

LEMMA FindNoneStep ==
  ASSUME PoolInv, NEW w \in Senders, FindNone(w)
  PROVE  PoolInv'
<1>1. /\ stage' \in [Senders -> Stages] /\ delivery' \in [Senders -> Delivery]
      /\ stage'[w] = "idle"
      /\ \A v \in Senders \ {w} : stage'[v] = stage[v] /\ delivery'[v] = delivery[v]
  BY StopType DEF FindNone
<1> USE SendersAssumption, QuotasAssumption DEF PoolInv, PoolTypeOK, senders, ledger, FindNone
<1>2. PoolTypeOK'
  BY <1>1 DEF columns, Unlock
<1>3. CountsFit'
  BY <1>1, CountsKept DEF columns
<1>4. ReservationsFit'
  BY <1>1, ReservationGivenUp DEF FindNone
<1> QED
  BY <1>2, <1>3, <1>4

LEMMA FailReservationStep ==
  ASSUME PoolInv, NEW w \in Senders, FailReservation(w)
  PROVE  PoolInv'
<1>1. /\ stage' \in [Senders -> Stages] /\ delivery' \in [Senders -> Delivery]
      /\ stage'[w] = "idle"
      /\ \A v \in Senders \ {w} : stage'[v] = stage[v] /\ delivery'[v] = delivery[v]
  BY StopType DEF FailReservation
<1> USE SendersAssumption, QuotasAssumption DEF PoolInv, PoolTypeOK, senders, ledger, FailReservation
<1>2. PoolTypeOK'
  BY <1>1 DEF columns, Unlock
<1>3. CountsFit'
  BY <1>1, CountsKept DEF columns
<1>4. ReservationsFit'
  BY <1>1, ReservationGivenUp DEF FailReservation
<1> QED
  BY <1>2, <1>3, <1>4

LEMMA CrashSenderStep ==
  ASSUME PoolInv, NEW w \in Senders, CrashSender(w)
  PROVE  PoolInv'
<1>1. /\ stage' \in [Senders -> Stages] /\ delivery' \in [Senders -> Delivery]
      /\ stage'[w] = "idle"
      /\ \A v \in Senders \ {w} : stage'[v] = stage[v] /\ delivery'[v] = delivery[v]
  BY StopType DEF CrashSender
<1> USE SendersAssumption, QuotasAssumption DEF PoolInv, PoolTypeOK, senders, ledger, CrashSender
<1>2. PoolTypeOK'
  BY <1>1 DEF columns, Unlock
<1>3. CountsFit'
  BY <1>1, CountsKept DEF columns
<1>4. ReservationsFit'
  BY <1>1, ReservationGivenUp DEF CrashSender
<1> QED
  BY <1>2, <1>3, <1>4

LEMMA SendMailStep ==
  ASSUME PoolInv, NEW w \in Senders, SendMail(w)
  PROVE  PoolInv'
<1>1. /\ stage' \in [Senders -> Stages] /\ delivery' \in [Senders -> Delivery]
      /\ stage'[w] = "idle"
      /\ \A v \in Senders \ {w} : stage'[v] = stage[v] /\ delivery'[v] = delivery[v]
  BY StopType DEF SendMail
<1>2. /\ stage[w] = "send" /\ accepted' = Kept(Tally(accepted, w))
      /\ UNCHANGED <<date, columns, locker, limit, unheard, uncounted, turned>>
  BY DEF SendMail
<1>3. accepted \in [Mailboxes -> [Dates -> Nat]]
  BY DEF PoolInv, PoolTypeOK
<1>4. /\ accepted' \in [Mailboxes -> [Dates -> Nat]]
      /\ \A m \in Mailboxes, d \in Dates : d > turned[m] =>
           accepted'[m][d] = IF m \in delivery[w].uses /\ d = delivery[w].on THEN accepted[m][d] + 1 ELSE accepted[m][d]
  BY <1>2, <1>3, KeptHistory, TalliedHistory
<1>5. PoolTypeOK'
  BY <1>1, <1>2, <1>4 DEF PoolInv, PoolTypeOK, columns
<1>6. ASSUME NEW m \in Mailboxes, NEW d \in Dates, d > turned[m]
      PROVE  CountFits(m, d)'
  <2>1. CountFits(m, d) /\ CountOf(m, d)' = CountOf(m, d)
    BY <1>2, <1>6 DEF PoolInv, CountsFit, CountOf, columns
  <2>2. /\ Cardinality(Underway(m, d)') \in Nat /\ Cardinality(Underway(m, d)) \in Nat /\ accepted[m][d] \in Nat
        /\ unheard[m][d] \in Nat /\ uncounted[m][d] \in Nat /\ CountOf(m, d) \in Nat
    BY UnderwayCounted, PoolTypes DEF CountOf
  <2>3. accepted'[m][d] + Cardinality(Underway(m, d)') <= accepted[m][d] + Cardinality(Underway(m, d))
    <3>1. CASE m \in delivery[w].uses /\ d = delivery[w].on
      <4>1. Cardinality(Underway(m, d)') = Cardinality(Underway(m, d)) - 1
        BY <1>1, <1>2, <3>1, UnderwayEnds
      <4> QED
        BY <1>4, <1>6, <2>2, <3>1, <4>1
    <3>2. CASE ~(m \in delivery[w].uses /\ d = delivery[w].on)
      <4>1. Cardinality(Underway(m, d)') <= Cardinality(Underway(m, d))
        BY <1>1, UnderwayRests
      <4>2. accepted'[m][d] = accepted[m][d]
        BY <1>4, <1>6, <3>2
      <4> QED
        BY <2>2, <4>1, <4>2
    <3> QED
      BY <3>1, <3>2
  <2>4. accepted'[m][d] \in Nat
    BY <1>4
  <2> QED
    BY <1>2, <2>1, <2>2, <2>3, <2>4 DEF CountFits, columns
<1>7. CountsFit'
  BY <1>2, <1>6 DEF CountsFit
<1>8. ReservationsFit'
  BY <1>1, <1>2, SendersAssumption DEF PoolInv, ReservationsFit, ReservationFits, Pool, HasQuota, Uses, Delivery, columns
<1> QED
  BY <1>5, <1>7, <1>8 DEF PoolInv

LEMMA QuitFailsStep ==
  ASSUME PoolInv, NEW w \in Senders, QuitFails(w)
  PROVE  PoolInv'
<1>1. delivery[w] \in Delivery /\ "release" \in Stages
  BY PoolTypes DEF Stages
<1>2. /\ stage' \in [Senders -> Stages] /\ delivery' \in [Senders -> Delivery]
      /\ stage'[w] = "release" /\ delivery'[w] = delivery[w]
      /\ \A v \in Senders \ {w} : stage'[v] = stage[v] /\ delivery'[v] = delivery[v]
  BY <1>1, StepType DEF QuitFails
<1>3. /\ stage[w] = "send" /\ accepted' = Kept(Tally(accepted, w)) /\ unheard' = Kept(Tally(unheard, w))
      /\ UNCHANGED <<date, columns, locker, limit, uncounted, turned>>
  BY DEF QuitFails
<1>4. accepted \in [Mailboxes -> [Dates -> Nat]] /\ unheard \in [Mailboxes -> [Dates -> Nat]]
  BY DEF PoolInv, PoolTypeOK
<1>5. /\ accepted' \in [Mailboxes -> [Dates -> Nat]] /\ unheard' \in [Mailboxes -> [Dates -> Nat]]
      /\ \A m \in Mailboxes, d \in Dates : d > turned[m] =>
           /\ accepted'[m][d] = IF m \in delivery[w].uses /\ d = delivery[w].on THEN accepted[m][d] + 1 ELSE accepted[m][d]
           /\ unheard'[m][d] = IF m \in delivery[w].uses /\ d = delivery[w].on THEN unheard[m][d] + 1 ELSE unheard[m][d]
  BY <1>3, <1>4, KeptHistory, TalliedHistory
<1>6. PoolTypeOK'
  BY <1>2, <1>3, <1>5 DEF PoolInv, PoolTypeOK, columns
<1>7. ASSUME NEW m \in Mailboxes, NEW d \in Dates, d > turned[m]
      PROVE  CountFits(m, d)'
  <2>1. CountFits(m, d) /\ CountOf(m, d)' = CountOf(m, d)
    BY <1>3, <1>7 DEF PoolInv, CountsFit, CountOf, columns
  <2>2. /\ Cardinality(Underway(m, d)') \in Nat /\ Cardinality(Underway(m, d)) \in Nat /\ accepted[m][d] \in Nat
        /\ unheard[m][d] \in Nat /\ uncounted[m][d] \in Nat /\ CountOf(m, d) \in Nat
    BY UnderwayCounted, PoolTypes DEF CountOf
  <2>3. Cardinality(Underway(m, d)') <= Cardinality(Underway(m, d))
    BY <1>2, <1>3, UnderwayRests
  <2>4. \/ accepted'[m][d] = accepted[m][d] + 1 /\ unheard'[m][d] = unheard[m][d] + 1
        \/ accepted'[m][d] = accepted[m][d] /\ unheard'[m][d] = unheard[m][d]
    BY <1>5, <1>7
  <2> QED
    BY <1>3, <2>1, <2>2, <2>3, <2>4 DEF CountFits, columns
<1>8. CountsFit'
  BY <1>3, <1>7 DEF CountsFit
<1>9. ReservationsFit'
  BY <1>2, <1>3, SendersAssumption DEF PoolInv, ReservationsFit, ReservationFits, Pool, HasQuota, Uses, Delivery, columns
<1> QED
  BY <1>6, <1>8, <1>9 DEF PoolInv

LEMMA FailAttemptStep ==
  ASSUME PoolInv, NEW w \in Senders, FailAttempt(w)
  PROVE  PoolInv'
<1>1. delivery[w] \in Delivery /\ "release" \in Stages
  BY PoolTypes, DeliveryRecords DEF Stages, Dates
<1>2. /\ stage' \in [Senders -> Stages] /\ delivery' \in [Senders -> Delivery]
      /\ stage'[w] = "release" /\ delivery'[w] = delivery[w]
      /\ \A v \in Senders \ {w} : stage'[v] = stage[v] /\ delivery'[v] = delivery[v]
  BY <1>1, StepType DEF FailAttempt
<1> USE SendersAssumption, QuotasAssumption DEF PoolInv, PoolTypeOK, columns, senders, ledger, FailAttempt
<1>3. PoolTypeOK'
  BY <1>2
<1>4. CountsFit'
  BY <1>2, CountsKept
<1>5. ReservationsFit'
  <2>1. \A m \in Mailboxes : locker'[m] # NoSender => m \in Pool'
    BY DEF ReservationsFit, Pool
  <2>2. ReservationFits(w)'
    BY <1>1, <1>2, PoolTypes DEF ReservationsFit, ReservationFits, Delivery, NoDelivery, Dates, HasQuota, Uses
  <2>3. ASSUME NEW v \in Senders \ {w} PROVE ReservationFits(v)'
    BY <1>2, PoolTypes DEF ReservationsFit, ReservationFits, Pool, HasQuota, Uses
  <2> QED
    BY <2>1, <2>2, <2>3 DEF ReservationsFit
<1> QED
  BY <1>3, <1>4, <1>5

\* Where a delivery goes on after a failed attempt.
LEMMA NextOrStopFits ==
  ASSUME PoolInv, NEW w \in Senders, stage[w] = "release", NextOrStop(w)
  PROVE  /\ stage' \in [Senders -> Stages] /\ delivery' \in [Senders -> Delivery]
         /\ stage'[w] \in {"idle", "acquire"} /\ (stage'[w] # "idle" => delivery'[w].on = delivery[w].on)
         /\ \A v \in Senders \ {w} : stage'[v] = stage[v] /\ delivery'[v] = delivery[v]
<1> DEFINE next == [delivery[w] EXCEPT !.excluded = @ \cup delivery[w].uses, !.uses = {}]
<1>1. delivery[w] \in Delivery /\ stage \in [Senders -> Stages] /\ delivery \in [Senders -> Delivery]
  BY DEF PoolInv, PoolTypeOK
<1>2. delivery[w].excluded \cup delivery[w].uses \in SUBSET Mailboxes
  BY <1>1 DEF Delivery
<1>3. next \in Delivery /\ next.on = delivery[w].on
  BY <1>1, <1>2 DEF Delivery
<1>4. NoDelivery \in Delivery
  BY <1>1, QuotasAssumption DEF NoDelivery, Delivery
<1> HIDE DEF next
<1>5. CASE Step(w, "acquire", next)
  <2>1. stage' \in [Senders -> Stages] /\ delivery' \in [Senders -> Delivery]
    BY <1>1, <1>3, <1>5, StepType DEF Stages
  <2> QED
    BY <1>1, <1>3, <1>5, <2>1 DEF Step
<1>6. CASE StopDelivery(w)
  <2>1. stage' \in [Senders -> Stages] /\ delivery' \in [Senders -> Delivery]
    BY <1>1, <1>4, <1>6, StepType DEF Stages, StopDelivery
  <2> QED
    BY <1>1, <1>6, <2>1 DEF Step, StopDelivery
<1> QED
  BY <1>5, <1>6 DEF NextOrStop, next

LEMMA FailReleaseStep ==
  ASSUME PoolInv, NEW w \in Senders, FailRelease(w)
  PROVE  PoolInv'
<1> USE DEF PoolInv, PoolTypeOK, FailRelease, columns, ledger
<1>1. PoolTypeOK'
  BY NextOrStopFits
<1>2. CountsFit'
  BY NextOrStopFits, CountsKept
<1>3. ReservationsFit'
  <2>1. \A m \in Mailboxes : locker'[m] # NoSender => m \in Pool'
    BY DEF ReservationsFit, Pool
  <2>2. ReservationFits(w) /\ stage[w] = "release"
    BY DEF ReservationsFit
  <2>3. ReservationFits(w)'
    BY <2>2, NextOrStopFits DEF ReservationFits
  <2>4. ASSUME NEW v \in Senders \ {w} PROVE ReservationFits(v)'
    BY NextOrStopFits DEF ReservationsFit, ReservationFits, HasQuota, Uses
  <2> QED
    BY <2>1, <2>3, <2>4 DEF ReservationsFit
<1> QED
  BY <1>1, <1>2, <1>3

LEMMA ReservedHistories ==
  ASSUME PoolInv, NEW w \in Senders, Reserve(w)
  PROVE  /\ accepted' \in [Mailboxes -> [Dates -> Nat]] /\ limit' \in [Mailboxes -> [Dates -> Nat]]
         /\ unheard' \in [Mailboxes -> [Dates -> Nat]] /\ uncounted' \in [Mailboxes -> [Dates -> Nat]]
         /\ turned' \in [Mailboxes -> 0..LastDate]
         /\ \A m \in Mailboxes :
              /\ turned[m] <= turned'[m] /\ (TurnsBack(w, m) => usageDate[m] <= turned'[m])
              /\ \A d \in Dates : d > turned'[m] =>
                   /\ accepted'[m][d] = accepted[m][d] /\ unheard'[m][d] = unheard[m][d]
                   /\ limit'[m][d] = IF m \in delivery[w].uses /\ d = DateOf(w, m) THEN quota[m] ELSE limit[m][d]
                   /\ uncounted'[m][d] = IF CountsElsewhere(w, m) /\ d = delivery[w].on
                                         THEN uncounted[m][d] + 1 ELSE uncounted[m][d]
<1> DEFINE limits == [m \in Mailboxes |-> [d \in Dates |->
                        IF m \in delivery[w].uses /\ d = DateOf(w, m) THEN quota[m] ELSE limit[m][d]]]
           lost   == [m \in Mailboxes |-> IF CountsElsewhere(w, m) THEN Tally(uncounted, w)[m] ELSE uncounted[m]]
<1>1. /\ accepted \in [Mailboxes -> [Dates -> Nat]] /\ unheard \in [Mailboxes -> [Dates -> Nat]]
      /\ uncounted \in [Mailboxes -> [Dates -> Nat]]
  BY DEF PoolInv, PoolTypeOK
<1>2. limits \in [Mailboxes -> [Dates -> Nat]]
  <2>1. \A m \in Mailboxes, d \in Dates :
          (IF m \in delivery[w].uses /\ d = DateOf(w, m) THEN quota[m] ELSE limit[m][d]) \in Nat
    BY PoolTypes
  <2> QED
    BY <2>1
<1>3. /\ lost \in [Mailboxes -> [Dates -> Nat]]
      /\ \A m \in Mailboxes, d \in Dates :
           lost[m][d] = IF CountsElsewhere(w, m) /\ d = delivery[w].on THEN uncounted[m][d] + 1 ELSE uncounted[m][d]
  <2>1. \A m \in Mailboxes : (IF CountsElsewhere(w, m) THEN Tally(uncounted, w)[m] ELSE uncounted[m]) \in [Dates -> Nat]
    BY <1>1, TalliedHistory
  <2>2. lost \in [Mailboxes -> [Dates -> Nat]]
    BY <2>1
  <2>3. ASSUME NEW m \in Mailboxes, NEW d \in Dates
        PROVE  lost[m][d] = IF CountsElsewhere(w, m) /\ d = delivery[w].on THEN uncounted[m][d] + 1 ELSE uncounted[m][d]
    <3>1. CountsElsewhere(w, m) => m \in delivery[w].uses
      BY DEF CountsElsewhere
    <3>2. Tally(uncounted, w)[m][d] = IF m \in delivery[w].uses /\ d = delivery[w].on THEN uncounted[m][d] + 1 ELSE uncounted[m][d]
      BY <1>1, TalliedHistory
    <3> QED
      BY <3>1, <3>2
  <2> QED
    BY <2>2, <2>3
<1>4. \A m \in Mailboxes, d \in Dates :
        limits[m][d] = IF m \in delivery[w].uses /\ d = DateOf(w, m) THEN quota[m] ELSE limit[m][d]
  OBVIOUS
<1>5. limit' = Kept(limits) /\ uncounted' = Kept(lost) /\ accepted' = Kept(accepted) /\ unheard' = Kept(unheard)
  BY DEF Reserve
<1>6. /\ turned' \in [Mailboxes -> 0..LastDate]
      /\ \A m \in Mailboxes : turned[m] <= turned'[m] /\ (TurnsBack(w, m) => usageDate[m] <= turned'[m])
  <2>1. \A m \in Mailboxes :
          /\ (IF TurnsBack(w, m) THEN Greatest(turned[m], usageDate[m]) ELSE turned[m]) \in 0..LastDate
          /\ turned[m] <= (IF TurnsBack(w, m) THEN Greatest(turned[m], usageDate[m]) ELSE turned[m])
          /\ usageDate[m] <= Greatest(turned[m], usageDate[m])
    BY PoolTypes DEF Greatest
  <2> QED
    BY <2>1 DEF Reserve
<1> HIDE DEF limits, lost
<1>7. /\ limit' \in [Mailboxes -> [Dates -> Nat]] /\ uncounted' \in [Mailboxes -> [Dates -> Nat]]
      /\ accepted' \in [Mailboxes -> [Dates -> Nat]] /\ unheard' \in [Mailboxes -> [Dates -> Nat]]
  BY <1>1, <1>2, <1>3, <1>5, KeptHistory
<1>8. ASSUME NEW m \in Mailboxes, NEW d \in Dates, d > turned'[m]
      PROVE  /\ accepted'[m][d] = accepted[m][d] /\ unheard'[m][d] = unheard[m][d]
             /\ limit'[m][d] = limits[m][d] /\ uncounted'[m][d] = lost[m][d]
  <2>1. Kept(accepted)[m][d] = accepted[m][d] /\ Kept(unheard)[m][d] = unheard[m][d]
    BY <1>1, <1>8, KeptHistory
  <2>2. Kept(limits)[m][d] = limits[m][d] /\ Kept(lost)[m][d] = lost[m][d]
    BY <1>2, <1>3, <1>8, KeptHistory
  <2> QED
    BY <1>5, <2>1, <2>2
<1> QED
  BY <1>3, <1>4, <1>6, <1>7, <1>8

LEMMA ReserveStep ==
  ASSUME PoolInv, NEW w \in Senders, Reserve(w)
  PROVE  PoolInv'
<1>1. /\ delivery[w] \in Delivery /\ delivery[w].stale \subseteq Mailboxes
      /\ delivery[w].on \in Dates /\ stage[w] = "reserve"
  BY PoolTypes DEF Reserve, PoolInv, ReservationsFit, ReservationFits
<1>2. /\ stage' \in [Senders -> Stages] /\ delivery' \in [Senders -> Delivery]
      /\ stage'[w] = "send" /\ delivery'[w].on = delivery[w].on /\ delivery'[w].uses = delivery[w].uses
      /\ \A v \in Senders \ {w} : stage'[v] = stage[v] /\ delivery'[v] = delivery[v]
  <2>1. [delivery[w] EXCEPT !.stale = {}] \in Delivery /\ "send" \in Stages
    BY <1>1, DeliveryRecords DEF Stages
  <2>2. Step(w, "send", [delivery[w] EXCEPT !.stale = {}])
    BY DEF Reserve
  <2> QED
    BY <1>1, <2>1, <2>2, StepType DEF Delivery
<1>3. \A m \in Mailboxes :
        /\ usedToday'[m] = Uses(w, m) + Taken(w, m) /\ usageDate'[m] = DateOf(w, m)
        /\ Uses(w, m) \in Nat /\ Taken(w, m) \in {0, 1} /\ DateOf(w, m) \in 0..LastDate
        /\ m \in delivery[w].uses => Uses(w, m) < quota[m]
  <2> SUFFICES ASSUME NEW m \in Mailboxes
               PROVE  /\ usedToday'[m] = Uses(w, m) + Taken(w, m) /\ usageDate'[m] = DateOf(w, m)
                      /\ Uses(w, m) \in Nat /\ Taken(w, m) \in {0, 1} /\ DateOf(w, m) \in 0..LastDate
                      /\ m \in delivery[w].uses => Uses(w, m) < quota[m]
    OBVIOUS
  <2>1. usedToday'[m] = Uses(w, m) + Taken(w, m) /\ usageDate'[m] = DateOf(w, m)
    BY DEF Reserve
  <2>2. Uses(w, m) \in Nat /\ Taken(w, m) \in {0, 1} /\ DateOf(w, m) \in 0..LastDate
    BY PoolTypes DEF Uses, Taken, DateOf
  <2>3. m \in delivery[w].uses => Uses(w, m) < quota[m]
    BY <1>1 DEF PoolInv, ReservationsFit, ReservationFits, HasQuota
  <2> QED
    BY <2>1, <2>2, <2>3
<1>4. PoolTypeOK'
  <2>1. usedToday' \in [Mailboxes -> Nat]
    <3>1. \A m \in Mailboxes : Uses(w, m) + Taken(w, m) \in Nat
      BY <1>3
    <3> QED
      BY <3>1 DEF Reserve
  <2>2. usageDate' \in [Mailboxes -> 0..LastDate]
    BY <1>3 DEF Reserve
  <2>3. locker' \in [Mailboxes -> Senders \cup {NoSender}]
    BY DEF Reserve, Unlock, PoolInv, PoolTypeOK
  <2> QED
    BY <1>2, <2>1, <2>2, <2>3, ReservedHistories DEF Reserve, PoolInv, PoolTypeOK
<1>5. ASSUME NEW m \in Mailboxes, NEW d \in Dates, d > turned'[m]
      PROVE  CountFits(m, d)'
  <2>1. /\ d > turned[m] /\ (TurnsBack(w, m) => d > usageDate[m])
        /\ accepted'[m][d] = accepted[m][d] /\ unheard'[m][d] = unheard[m][d]
        /\ limit'[m][d] = IF m \in delivery[w].uses /\ d = DateOf(w, m) THEN quota[m] ELSE limit[m][d]
        /\ uncounted'[m][d] = IF CountsElsewhere(w, m) /\ d = delivery[w].on
                              THEN uncounted[m][d] + 1 ELSE uncounted[m][d]
    <3>1. turned[m] \in Nat /\ turned'[m] \in Nat /\ usageDate[m] \in Nat /\ d \in Nat
      BY PoolTypes, ReservedHistories, QuotasAssumption DEF Dates
    <3>2. turned[m] <= turned'[m] /\ (TurnsBack(w, m) => usageDate[m] <= turned'[m])
      BY ReservedHistories
    <3> QED
      BY <1>5, <3>1, <3>2, ReservedHistories
  <2>2. CountFits(m, d)
    BY <2>1 DEF PoolInv, CountsFit
  <2>3. /\ accepted[m][d] \in Nat /\ limit[m][d] \in Nat /\ unheard[m][d] \in Nat /\ uncounted[m][d] \in Nat
        /\ quota[m] \in Nat /\ usedToday[m] \in Nat /\ usageDate[m] \in Nat /\ d \in Nat /\ delivery[w].on \in Nat
    BY <1>1, PoolTypes, QuotasAssumption DEF Dates
  <2>4. PICK u \in Nat : u = Cardinality(Underway(m, d))
    BY UnderwayCounted
  <2>5. Cardinality(Underway(m, d)') = IF m \in delivery[w].uses /\ d = delivery[w].on THEN u + 1 ELSE u
    BY <1>1, <1>2, <2>4, UnderwayBegins
  <2>6. /\ d = usageDate[m] => usedToday[m] <= limit[m][d]
        /\ accepted[m][d] + u <= CountOf(m, d) + unheard[m][d] + uncounted[m][d]
    BY <2>2, <2>4 DEF CountFits
  <2>7. usedToday'[m] = Uses(w, m) + Taken(w, m) /\ usageDate'[m] = DateOf(w, m) /\ (m \in delivery[w].uses => Uses(w, m) < quota[m])
    BY <1>3
  <2>8. CASE m \in delivery[w].stale
    <3>1. Uses(w, m) = 0 /\ DateOf(w, m) = delivery[w].on /\ ~CountsElsewhere(w, m) /\ usageDate[m] # delivery[w].on
      BY <1>1, <2>8 DEF Uses, DateOf, CountsElsewhere, PoolInv, ReservationsFit, ReservationFits
    <3>2. delivery[w].on < usageDate[m] => d > usageDate[m]
      BY <2>1, <2>8 DEF TurnsBack
    <3>3. usageDate'[m] = delivery[w].on /\ usedToday'[m] = Taken(w, m) /\ Taken(w, m) \in {0, 1}
      BY <1>3, <2>7, <3>1 DEF Taken
    <3>4. CASE d = delivery[w].on
      <4>1. CountOf(m, d) = 0
        BY <2>3, <3>1, <3>2, <3>4 DEF CountOf
      <4>2. CountOf(m, d)' = Taken(w, m) /\ usedToday'[m] <= limit'[m][d]
        BY <2>1, <2>3, <2>7, <3>1, <3>3, <3>4 DEF CountOf, Taken
      <4>3. Cardinality(Underway(m, d)') = u + Taken(w, m)
        BY <2>5, <3>4 DEF Taken
      <4> QED
        BY <2>1, <2>3, <2>6, <3>1, <3>3, <4>1, <4>2, <4>3 DEF CountFits
    <3>5. CASE d # delivery[w].on
      <4>1. CountOf(m, d) <= CountOf(m, d)' /\ CountOf(m, d) \in Nat /\ CountOf(m, d)' \in Nat
        BY <2>1, <2>3, <2>6, <3>1, <3>2, <3>3, <3>5 DEF CountOf
      <4>2. Cardinality(Underway(m, d)') = u
        BY <2>5, <3>5
      <4> QED
        BY <2>1, <2>3, <2>6, <3>1, <3>3, <3>5, <4>1, <4>2 DEF CountFits
    <3> QED
      BY <3>4, <3>5
  <2>9. CASE m \notin delivery[w].stale
    <3>1. Uses(w, m) = usedToday[m] /\ DateOf(w, m) = usageDate[m]
      BY <2>9 DEF Uses, DateOf
    <3>2. CASE m \in delivery[w].uses
      <4>1. usedToday'[m] = usedToday[m] + 1 /\ usageDate'[m] = usageDate[m] /\ usedToday[m] < quota[m]
        BY <2>7, <3>1, <3>2 DEF Taken
      <4>2. CountsElsewhere(w, m) <=> usageDate[m] # delivery[w].on
        BY <3>1, <3>2 DEF CountsElsewhere
      <4>3. CASE d = usageDate[m]
        <5>1. CountOf(m, d) = usedToday[m] /\ CountOf(m, d)' = usedToday[m] + 1
          BY <4>1, <4>3 DEF CountOf
        <5>2. limit'[m][d] = quota[m] /\ uncounted'[m][d] = uncounted[m][d]
          BY <2>1, <3>1, <3>2, <4>2, <4>3
        <5>3. Cardinality(Underway(m, d)') \in {u, u + 1}
          BY <2>5
        <5> QED
          BY <2>1, <2>3, <2>6, <4>1, <5>1, <5>2, <5>3 DEF CountFits
      <4>4. CASE d # usageDate[m]
        <5>1. CountOf(m, d)' = CountOf(m, d) /\ CountOf(m, d) \in Nat
          BY <2>1, <2>3, <3>1, <4>1, <4>4 DEF CountOf
        <5>2. uncounted'[m][d] + u = uncounted[m][d] + Cardinality(Underway(m, d)')
          BY <2>1, <2>3, <2>5, <3>2, <4>2, <4>4
        <5>3. uncounted'[m][d] \in Nat /\ Cardinality(Underway(m, d)') \in Nat
          BY <2>1, <2>3, <2>5
        <5> QED
          BY <2>1, <2>3, <2>6, <4>1, <4>4, <5>1, <5>2, <5>3 DEF CountFits
      <4> QED
        BY <4>3, <4>4
    <3>3. CASE m \notin delivery[w].uses
      <4>1. usedToday'[m] = usedToday[m] /\ usageDate'[m] = usageDate[m] /\ ~CountsElsewhere(w, m)
        BY <2>3, <2>7, <3>1, <3>3 DEF Taken, CountsElsewhere
      <4>2. limit'[m][d] = limit[m][d] /\ uncounted'[m][d] = uncounted[m][d] /\ Cardinality(Underway(m, d)') = u
        BY <2>1, <2>5, <3>3, <4>1
      <4>3. CountOf(m, d)' = CountOf(m, d)
        BY <4>1, <4>2 DEF CountOf
      <4> QED
        BY <2>1, <2>6, <4>1, <4>2, <4>3 DEF CountFits
    <3> QED
      BY <3>2, <3>3
  <2> QED
    BY <2>8, <2>9
<1>6. CountsFit'
  BY <1>5 DEF CountsFit
<1>7. ReservationsFit'
  <2> SUFFICES ASSUME NEW v \in Senders
               PROVE  ReservationFits(v)'
    BY SendersAssumption DEF PoolInv, ReservationsFit, Reserve, Unlock, Pool
  <2>1. CASE v = w
    BY <1>1, <1>2, <2>1, SendersAssumption DEF Reserve, Unlock, ReservationFits
  <2>2. CASE v # w
    <3>1. stage'[v] = stage[v] /\ delivery'[v] = delivery[v] /\ delivery[v] \in Delivery
      BY <1>2, <2>2
    <3>2. ASSUME NEW m \in Mailboxes, locker[m] = v
          PROVE  locker'[m] = v /\ usageDate'[m] = usageDate[m] /\ usedToday'[m] = usedToday[m]
      <4>1. m \notin delivery[w].stale /\ m \notin delivery[w].uses
        BY <1>1, <2>2, <3>2 DEF PoolInv, ReservationsFit, ReservationFits
      <4>2. usedToday[m] \in Nat
        BY PoolTypes
      <4> QED
        BY <1>3, <2>2, <3>2, <4>1, <4>2 DEF Reserve, Unlock, Uses, DateOf, Taken
    <3>3. \A m \in Mailboxes : locker'[m] = v => locker[m] = v
      BY <2>2, SendersAssumption DEF Reserve, Unlock
    <3>4. delivery[v].stale \subseteq Mailboxes /\ delivery[v].uses \subseteq Mailboxes
      BY PoolTypes
    <3>5. ReservationFits(v) /\ quota' = quota
      BY DEF PoolInv, ReservationsFit, Reserve
    <3> QED
      BY <3>1, <3>2, <3>3, <3>4, <3>5 DEF ReservationFits, HasQuota, Uses
  <2> QED
    BY <2>1, <2>2
<1> QED
  BY <1>4, <1>6, <1>7 DEF PoolInv

LEMMA ReleaseStep ==
  ASSUME PoolInv, NEW w \in Senders, Release(w)
  PROVE  PoolInv'
<1>1. stage[w] = "release" /\ NextOrStop(w) /\ delivery[w] \in Delivery /\ delivery[w].on \in Dates
  BY PoolTypes DEF Release, PoolInv, ReservationsFit, ReservationFits
<1>2. \A m \in GivesBack(w) : /\ m \in Mailboxes /\ m \in delivery[w].uses /\ usageDate[m] = delivery[w].on
                              /\ usedToday[m] > 0 /\ locker[m] = NoSender
  BY DEF GivesBack, Matches, SameDate, Pool, Release
<1>3. /\ \A m \in Mailboxes : usedToday'[m] = IF m \in GivesBack(w) THEN usedToday[m] - 1 ELSE usedToday[m]
      /\ usageDate' = usageDate /\ ledger' = ledger
  BY DEF Release
<1>4. PoolTypeOK'
  <2>1. \A m \in Mailboxes : (IF m \in GivesBack(w) THEN usedToday[m] - 1 ELSE usedToday[m]) \in Nat
    BY <1>2, PoolTypes
  <2>2. usedToday' \in [Mailboxes -> Nat]
    BY <2>1 DEF Release
  <2> QED
    BY <1>1, <2>2, NextOrStopFits DEF Release, PoolInv, PoolTypeOK, ledger
<1>5. /\ stage'[w] \in {"idle", "acquire"} /\ (stage'[w] # "idle" => delivery'[w].on = delivery[w].on)
      /\ \A v \in Senders \ {w} : stage'[v] = stage[v] /\ delivery'[v] = delivery[v]
  BY <1>1, NextOrStopFits
<1>6. ASSUME NEW m \in Mailboxes, NEW d \in Dates, d > turned[m]
      PROVE  CountFits(m, d)'
  <2>1. CountFits(m, d)
    BY <1>6 DEF PoolInv, CountsFit
  <2>2. /\ accepted[m][d] \in Nat /\ limit[m][d] \in Nat /\ unheard[m][d] \in Nat /\ uncounted[m][d] \in Nat
        /\ usedToday[m] \in Nat /\ usageDate[m] \in Nat
        /\ Cardinality(Underway(m, d)') \in Nat /\ Cardinality(Underway(m, d)) \in Nat
    BY UnderwayCounted, PoolTypes, QuotasAssumption
  <2>3. CASE m \in GivesBack(w) /\ d = usageDate[m]
    <3>1. usedToday'[m] = usedToday[m] - 1 /\ m \in delivery[w].uses /\ d = delivery[w].on
      BY <1>2, <1>3, <2>3
    <3>2. Cardinality(Underway(m, d)') = Cardinality(Underway(m, d)) - 1
      BY <1>1, <1>5, <3>1, UnderwayEnds
    <3>3. CountOf(m, d) = usedToday[m] /\ CountOf(m, d)' = usedToday[m] - 1
      BY <1>3, <2>3, <3>1 DEF CountOf
    <3> QED
      BY <1>3, <2>1, <2>2, <3>1, <3>2, <3>3 DEF CountFits, ledger
  <2>4. CASE ~(m \in GivesBack(w) /\ d = usageDate[m])
    <3>1. Cardinality(Underway(m, d)') <= Cardinality(Underway(m, d))
      BY <1>5, UnderwayRests
    <3>2. d = usageDate[m] => usedToday'[m] = usedToday[m]
      BY <1>3, <2>4
    <3>3. CountOf(m, d)' = CountOf(m, d) /\ CountOf(m, d) \in Nat
      BY <1>3, <2>2, <3>2 DEF CountOf, ledger
    <3> QED
      BY <1>3, <2>1, <2>2, <3>1, <3>2, <3>3 DEF CountFits, ledger
  <2> QED
    BY <2>3, <2>4
<1>7. CountsFit'
  BY <1>3, <1>6 DEF CountsFit, ledger
<1>8. ReservationsFit'
  <2>1. \A m \in Mailboxes : usedToday'[m] \in Nat /\ usedToday[m] \in Nat /\ quota[m] \in Nat /\ usedToday'[m] <= usedToday[m]
    <3>1. \A m \in Mailboxes : usedToday'[m] = IF m \in GivesBack(w) THEN usedToday[m] - 1 ELSE usedToday[m]
      BY DEF Release
    <3> QED
      BY <1>2, <3>1, PoolTypes
  <2>2. \A m \in Mailboxes : locker'[m] # NoSender => m \in Pool'
    BY DEF PoolInv, ReservationsFit, Release, Pool
  <2>3. ReservationFits(w)'
    BY <1>1, <1>5 DEF PoolInv, ReservationsFit, ReservationFits, Release
  <2>4. ASSUME NEW v \in Senders \ {w} PROVE ReservationFits(v)'
    <3>1. ReservationFits(v) /\ delivery[v].uses \subseteq Mailboxes /\ quota' = quota /\ locker' = locker /\ usageDate' = usageDate
      BY PoolTypes DEF PoolInv, ReservationsFit, Release
    <3> QED
      BY <1>5, <2>1, <3>1 DEF ReservationFits, HasQuota, Uses
  <2> QED
    BY <2>2, <2>3, <2>4 DEF ReservationsFit
<1> QED
  BY <1>4, <1>7, <1>8 DEF PoolInv

LEMMA WriteMailboxStep ==
  ASSUME PoolInv, NEW m \in Mailboxes, NEW q \in Quotas, NEW enabled \in BOOLEAN,
         CreateMailbox(m, q, enabled) \/ UpdateMailbox(m, q, enabled)
  PROVE  PoolInv'
<1> USE DEF PoolInv, PoolTypeOK, senders
<1>1. WriteMailbox(m, q, enabled) /\ (box[m] = "none" \/ locker[m] = NoSender) /\ q \in Nat
  BY QuotasAssumption DEF CreateMailbox, UpdateMailbox
<1>2. PoolTypeOK'
  BY <1>1 DEF WriteMailbox, ledger
<1>3. CountsFit'
  BY <1>1, CountsUnmoved DEF WriteMailbox
<1>4. ReservationsFit'
  <2>1. \A n \in Mailboxes : locker[n] # NoSender => quota'[n] = quota[n]
    BY <1>1 DEF WriteMailbox, ReservationsFit, Pool
  <2> QED
    BY <1>1, <2>1, SendersAssumption DEF WriteMailbox, ReservationsFit, ReservationFits, Pool, HasQuota, Uses, Delivery
<1> QED
  BY <1>2, <1>3, <1>4

LEMMA DeleteMailboxStep ==
  ASSUME PoolInv, NEW m \in Mailboxes, DeleteMailbox(m)
  PROVE  PoolInv'
<1>1. PoolTypeOK'
  BY DEF PoolInv, PoolTypeOK, senders, ledger, DeleteMailbox
<1>2. CountsFit'
  BY CountsUnmoved DEF DeleteMailbox
<1>3. ReservationsFit'
  <2>1. \A n \in Mailboxes : locker'[n] # NoSender => n \in Pool'
    BY DEF PoolInv, PoolTypeOK, ReservationsFit, Pool, DeleteMailbox
  <2>2. ASSUME NEW w \in Senders PROVE ReservationFits(w)'
    BY DEF PoolInv, ReservationsFit, ReservationFits, HasQuota, Uses, senders, DeleteMailbox
  <2> QED
    BY <2>1, <2>2 DEF ReservationsFit
<1> QED
  BY <1>1, <1>2, <1>3 DEF PoolInv

LEMMA MidnightStep ==
  ASSUME PoolInv, Midnight
  PROVE  PoolInv'
<1>1. PoolTypeOK'
  <2>1. date' \in Dates
    BY QuotasAssumption DEF PoolInv, PoolTypeOK, Midnight, Dates
  <2> QED
    BY <2>1 DEF PoolInv, PoolTypeOK, columns, senders, ledger, Midnight
<1>2. CountsFit'
  BY CountsUnmoved DEF columns, Midnight
<1>3. ReservationsFit'
  BY DEF PoolInv, ReservationsFit, ReservationFits, Pool, HasQuota, Uses, columns, senders, Midnight
<1> QED
  BY <1>1, <1>2, <1>3 DEF PoolInv

LEMMA PoolInitially == PoolInit => PoolInv
<1> SUFFICES ASSUME PoolInit PROVE PoolInv
  OBVIOUS
<1>1. PoolTypeOK
  BY SendersAssumption, QuotasAssumption DEF PoolInit, PoolTypeOK, Stages, Delivery, NoDelivery, Dates
<1>2. \A m \in Mailboxes, d \in Dates : CountFits(m, d)
  <2> TAKE m \in Mailboxes, d \in Dates
  <2>1. Underway(m, d) = {}
    BY DEF PoolInit, Underway
  <2>2. Cardinality(Underway(m, d)) = 0
    BY <2>1, FS_EmptySet
  <2> QED
    BY <2>2, QuotasAssumption DEF PoolInit, CountFits, CountOf, Dates
<1>3. ReservationsFit
  BY SendersAssumption DEF PoolInit, ReservationsFit, ReservationFits, NoDelivery
<1> QED
  BY <1>1, <1>2, <1>3 DEF PoolInv, CountsFit

LEMMA PoolStep ==
  ASSUME PoolInv, [PoolNext]_poolVars
  PROVE  PoolInv'
<1>1. CASE UNCHANGED poolVars
  <2>1. CountsFit'
    BY <1>1, CountsUnmoved DEF poolVars, columns
  <2> QED
    BY <1>1, <2>1 DEF poolVars, columns, senders, ledger, PoolInv, PoolTypeOK, ReservationsFit, ReservationFits, Pool, HasQuota, Uses
<1>2. CASE PoolNext
  BY <1>2, StartDeliveryStep, StartResetStep, ResetDatesStep, SelectMailboxStep, FindNoneStep, ReserveStep,
     FailReservationStep, SendMailStep, QuitFailsStep, FailAttemptStep, ReleaseStep, FailReleaseStep, CrashSenderStep,
     WriteMailboxStep, DeleteMailboxStep, MidnightStep DEF PoolNext
<1> QED
  BY <1>1, <1>2

\* The inductive invariant of the pool: rows and locks fit what deliveries have read, and counts are
\* of the date they are of.
THEOREM PoolInvariant == PoolSpec => []PoolInv
<1>1. PoolInv /\ [PoolNext]_poolVars => PoolInv'
  BY PoolStep
<1> QED
  BY <1>1, PoolInitially, PTL DEF PoolSpec

\* On every date after those whose counts were turned back, a mailbox has no more mails accepted, of
\* deliveries begun on that date, than the quota in force when the date's last place was taken and
\* what the code loses count of: mails taken for failed, and places counted for no or another date.
THEOREM DailyQuotaKept == PoolSpec => []QuotaKept
<1>1. ASSUME PoolInv, NEW m \in Mailboxes, NEW d \in Dates, d > turned[m]
      PROVE  accepted[m][d] <= limit[m][d] + unheard[m][d] + uncounted[m][d]
  <2>1. CountFits(m, d)
    BY <1>1 DEF PoolInv, CountsFit
  <2>2. /\ Cardinality(Underway(m, d)) \in Nat /\ accepted[m][d] \in Nat /\ limit[m][d] \in Nat
        /\ unheard[m][d] \in Nat /\ uncounted[m][d] \in Nat /\ usedToday[m] \in Nat
    BY <1>1, UnderwayCounted, PoolTypes
  <2>3. CountOf(m, d) \in Nat /\ CountOf(m, d) <= limit[m][d]
    BY <2>1, <2>2 DEF CountOf, CountFits
  <2> QED
    BY <2>1, <2>2, <2>3 DEF CountFits
<1>2. PoolInv => QuotaKept
  BY <1>1 DEF QuotaKept
<1> QED
  BY <1>2, PoolInvariant, PTL

-----------------------------------------------------------------------------
\* The calendar of briefings: weeks and years follow each other.
LEMMA LengthOfYear ==
  ASSUME NEW y \in Nat \ {0}
  PROVE  YearStart(y) \in Nat /\ YearStart(y + 1) - YearStart(y) \in {365, 366}
<1> DEFINE n == y - 1
<1>1. n \in Nat /\ y = n + 1
  OBVIOUS
<1>2. /\ n \div 4 \in Nat /\ n \div 100 \in Nat /\ n \div 400 \in Nat
      /\ (n + 1) \div 4 \in Nat /\ (n + 1) \div 100 \in Nat /\ (n + 1) \div 400 \in Nat
  BY <1>1
<1>3. (n + 1) \div 4 - n \div 4 - ((n + 1) \div 100 - n \div 100) + ((n + 1) \div 400 - n \div 400) \in {0, 1}
  BY <1>1
<1>4. n \div 100 <= n \div 4
  BY <1>1
<1> QED
  BY <1>1, <1>2, <1>3, <1>4 DEF YearStart

LEMMA WeekBegins ==
  ASSUME NEW d \in Int, NEW s \in 0..6
  PROVE  /\ StartOfWeek(d, s) \in Int /\ StartOfWeek(d, s) <= d /\ d < StartOfWeek(d, s) + 7
         /\ Weekday(StartOfWeek(d, s)) = s
  BY DEF StartOfWeek, Weekday

LEMMA NextWeek ==
  ASSUME NEW d \in Int, NEW s \in 0..6
  PROVE  IF Weekday(d + 1) = s THEN StartOfWeek(d, s) = d - 6 /\ StartOfWeek(d + 1, s) = d + 1
         ELSE StartOfWeek(d + 1, s) = StartOfWeek(d, s)
  BY DEF StartOfWeek, Weekday

LEMMA SameWeekday ==
  ASSUME NEW a \in Int, NEW b \in Int, Weekday(a) = Weekday(b)
  PROVE  /\ (a + 7 - b) \div 7 = (a - b) \div 7 + 1
         /\ a < b + 7 /\ b < a + 7 => a = b
  BY DEF Weekday

LEMMA FirstWeek ==
  ASSUME NEW y \in Nat \ {0}, NEW s \in 0..6
  PROVE  /\ FirstWeekStart(y, s) \in Int
         /\ YearStart(y) - 3 <= FirstWeekStart(y, s) /\ FirstWeekStart(y, s) <= YearStart(y) + 3
         /\ Weekday(FirstWeekStart(y, s)) = s
<1> DEFINE begin == StartOfWeek(YearStart(y), s)
<1>1. /\ YearStart(y) \in Int /\ begin \in Int /\ begin <= YearStart(y) /\ YearStart(y) < begin + 7
      /\ Weekday(begin) = s
  <2>1. YearStart(y) \in Int
    BY LengthOfYear
  <2> QED
    BY <2>1, WeekBegins
<1>2. FirstWeekStart(y, s) = IF 7 - (YearStart(y) - begin) < 4 THEN begin + 7 ELSE begin
  BY DEF FirstWeekStart
<1> HIDE DEF begin
<1>3. Weekday(begin + 7) = s
  BY <1>1 DEF Weekday
<1> QED
  BY <1>1, <1>2, <1>3

LEMMA WeekExpanded ==
  ASSUME NEW d \in Int, NEW y \in Int, NEW s \in 0..6, NEW before, NEW after, before = y - 1, after = y + 1
  PROVE  WeekOfWeekBasedYear(d, y, s) =
           IF StartOfWeek(d, s) < FirstWeekStart(y, s) THEN (StartOfWeek(d, s) - FirstWeekStart(before, s)) \div 7 + 1
           ELSE IF StartOfWeek(d, s) >= FirstWeekStart(after, s) THEN 1
           ELSE (StartOfWeek(d, s) - FirstWeekStart(y, s)) \div 7 + 1
  BY DEF WeekOfWeekBasedYear

\* The week with 4 January in it is the first one.
LEMMA FourthInFirstWeek ==
  ASSUME NEW y \in Nat \ {0}, NEW d \in Int, NEW s \in 0..6, Weekday(d) = s
  PROVE  HasFourth(d, y) <=> d = FirstWeekStart(y, s)
<1>1. YearStart(y) \in Int
  BY LengthOfYear
<1>2. d < FirstWeekStart(y, s) + 7 /\ FirstWeekStart(y, s) < d + 7 => d = FirstWeekStart(y, s)
  BY FirstWeek, SameWeekday
<1> QED
  BY <1>1, <1>2, FirstWeek DEF HasFourth

LEMMA NaturalWeekAdvances ==
  ASSUME CalendarTypeOK, NextDay, NEW s \in 0..6
  PROVE  WeekOfWeekBasedYear(target', year', s) =
           IF Weekday(target') # s THEN WeekOfWeekBasedYear(target, year, s)
           ELSE IF HasFourth(target', year') \/ HasFourth(target', year' + 1) THEN 1
           ELSE WeekOfWeekBasedYear(target, year, s) + 1
<1> DEFINE Begin == StartOfWeek(target, s)
           Next  == StartOfWeek(target + 1, s)
           Past  == FirstWeekStart(year - 1, s)
           This  == FirstWeekStart(year, s)
           Then  == FirstWeekStart(year + 1, s)
           Later == FirstWeekStart(year + 2, s)
<1>1. /\ year \in Nat \ {0, 1} /\ year - 1 \in Nat \ {0} /\ year + 1 \in Nat \ {0} /\ year + 2 \in Nat \ {0}
      /\ target' = target + 1
      /\ \/ year' = year /\ target + 1 # YearStart(year + 1)
         \/ year' = year + 1 /\ target + 1 = YearStart(year + 1)
  BY DEF CalendarTypeOK, NextDay
<1>2. /\ YearStart(year) \in Nat /\ YearStart(year + 1) \in Nat /\ YearStart(year + 2) \in Nat
      /\ YearStart(year + 1) - YearStart(year) \in {365, 366}
      /\ YearStart(year + 2) - YearStart(year + 1) \in {365, 366}
  <2>1. year + 1 + 1 = year + 2
    BY <1>1
  <2> QED
    BY <1>1, <2>1, LengthOfYear
<1>3. target \in Int /\ YearStart(year) <= target /\ target < YearStart(year + 1)
  BY <1>2 DEF CalendarTypeOK
<1>4. /\ Begin \in Int /\ Begin <= target /\ target < Begin + 7 /\ Weekday(Begin) = s
      /\ IF Weekday(target + 1) = s THEN Begin = target - 6 /\ Next = target + 1 ELSE Next = Begin
  BY <1>3, WeekBegins, NextWeek
<1>5. /\ Past \in Int /\ This \in Int /\ Then \in Int /\ Later \in Int
      /\ YearStart(year) - 3 <= This /\ This <= YearStart(year) + 3 /\ Weekday(This) = s
      /\ YearStart(year + 1) - 3 <= Then /\ Then <= YearStart(year + 1) + 3 /\ Weekday(Then) = s
      /\ YearStart(year + 2) - 3 <= Later /\ Weekday(Past) = s
  BY <1>1, FirstWeek
<1>6. WeekOfWeekBasedYear(target, year, s) =
        IF Begin < This THEN (Begin - Past) \div 7 + 1
        ELSE IF Begin >= Then THEN 1 ELSE (Begin - This) \div 7 + 1
  BY DEF WeekOfWeekBasedYear
<1>7. CASE Weekday(target + 1) # s
  <2>1. CASE year' = year
    <3>1. WeekOfWeekBasedYear(target + 1, year, s) = WeekOfWeekBasedYear(target, year, s)
      BY <1>4, <1>7 DEF WeekOfWeekBasedYear
    <3> QED
      BY <1>1, <1>7, <2>1, <3>1
  <2>2. CASE year' = year + 1 /\ target + 1 = YearStart(year + 1)
    <3>1. WeekOfWeekBasedYear(target + 1, year + 1, s) =
            IF Begin < Then THEN (Begin - This) \div 7 + 1
            ELSE IF Begin >= Later THEN 1 ELSE (Begin - Then) \div 7 + 1
      <4>1. year \in Int /\ year + 1 \in Int /\ target \in Int /\ target + 1 \in Int /\ year = year + 1 - 1 /\ year + 2 = year + 1 + 1
        BY <1>1, <1>3
      <4>2. WeekOfWeekBasedYear(target + 1, year + 1, s) =
              IF Next < Then THEN (Next - This) \div 7 + 1
              ELSE IF Next >= Later THEN 1 ELSE (Next - Then) \div 7 + 1
        BY <4>1, WeekExpanded
      <4>3. Next = Begin
        BY <1>4, <1>7
      <4> QED
        BY <4>2, <4>3
    <3>2. Begin >= This
      BY <1>2, <1>3, <1>4, <1>5, <2>2
    <3>3. Begin >= Then => (Begin - Then) \div 7 = 0
      BY <1>2, <1>3, <1>4, <1>5, <2>2
    <3> HIDE DEF Begin, This, Then, Later, Past
    <3>4. WeekOfWeekBasedYear(target + 1, year + 1, s) = WeekOfWeekBasedYear(target, year, s)
      BY <1>4, <1>5, <1>6, <3>1, <3>2, <3>3
    <3> QED
      BY <1>1, <1>7, <2>2, <3>4
  <2> QED
    BY <1>1, <2>1, <2>2
<1>8. CASE Weekday(target + 1) = s
  <2>1. Begin = target - 6 /\ Next = target + 1 /\ Next = Begin + 7 /\ Weekday(Next) = s /\ Next \in Int
    BY <1>3, <1>4, <1>8
  <2>2. CASE year' = year
    <3>1. WeekOfWeekBasedYear(target + 1, year, s) =
            IF Next < This THEN (Next - Past) \div 7 + 1
            ELSE IF Next >= Then THEN 1 ELSE (Next - This) \div 7 + 1
      BY DEF WeekOfWeekBasedYear
    <3>2. (HasFourth(target + 1, year) <=> Next = This) /\ (HasFourth(target + 1, year + 1) <=> Next = Then)
      BY <1>1, <1>3, <1>8, <2>1, FourthInFirstWeek
    <3>3. (Next - Past) \div 7 = (Begin - Past) \div 7 + 1 /\ (Next - This) \div 7 = (Begin - This) \div 7 + 1
      <4>1. (Begin + 7 - Past) \div 7 = (Begin - Past) \div 7 + 1 /\ (Begin + 7 - This) \div 7 = (Begin - This) \div 7 + 1
        BY <1>4, <1>5, SameWeekday
      <4>2. Begin \in Int /\ Past \in Int /\ This \in Int
        BY <1>4, <1>5
      <4> HIDE DEF Begin, Next, This, Past
      <4> QED
        BY <2>1, <4>1, <4>2
    <3>4. /\ Next < This + 7 /\ This < Next + 7 => Next = This
          /\ Next < Then + 7 /\ Then < Next + 7 => Next = Then
      BY <1>5, <2>1, SameWeekday
    <3>5. This < Then /\ Next < Then + 7
      BY <1>2, <1>3, <1>5, <2>1
    <3> HIDE DEF Begin, Next, This, Then, Later, Past
    <3>6. WeekOfWeekBasedYear(target + 1, year, s) =
            IF Next = This \/ Next = Then THEN 1 ELSE WeekOfWeekBasedYear(target, year, s) + 1
      BY <1>4, <1>5, <1>6, <2>1, <3>1, <3>3, <3>4, <3>5
    <3> QED
      BY <1>1, <1>8, <2>2, <3>2, <3>6
  <2>3. CASE year' = year + 1 /\ target + 1 = YearStart(year + 1)
    <3>1. Next = Then
      BY <1>2, <1>5, <2>1, <2>3, SameWeekday
    <3>2. WeekOfWeekBasedYear(target + 1, year + 1, s) = 1
      <4>1. year \in Int /\ year + 1 \in Int /\ target \in Int /\ target + 1 \in Int /\ year = year + 1 - 1 /\ year + 2 = year + 1 + 1
        BY <1>1, <1>3
      <4>2. WeekOfWeekBasedYear(target + 1, year + 1, s) =
              IF Next < Then THEN (Next - This) \div 7 + 1
              ELSE IF Next >= Later THEN 1 ELSE (Next - Then) \div 7 + 1
        BY <4>1, WeekExpanded
      <4>3. Next < Later
        BY <1>2, <1>5, <3>1
      <4> HIDE DEF Begin, Next, This, Then, Later, Past
      <4> QED
        BY <1>2, <1>3, <1>5, <3>1, <4>2, <4>3
    <3>3. HasFourth(target + 1, year + 1)
      BY <1>1, <1>3, <1>8, <2>1, <3>1, FourthInFirstWeek
    <3> QED
      BY <1>1, <1>8, <2>3, <3>2, <3>3
  <2> QED
    BY <1>1, <2>2, <2>3
<1> QED
  BY <1>7, <1>8

LEMMA FloorOfSeven ==
  ASSUME NEW v \in Int
  PROVE  FloorDiv(v, 7) = v \div 7 /\ v \div 7 \in Int
  BY DEF FloorDiv

LEMMA SemesterWeekAdvances ==
  ASSUME NEW d \in Int, NEW b \in Int
  PROVE  FloorDiv(d + 1 - b, 7) = IF Weekday(d + 1) # Weekday(b) THEN FloorDiv(d - b, 7) ELSE FloorDiv(d - b, 7) + 1
<1>1. (d + 1 - b) \div 7 = IF Weekday(d + 1) # Weekday(b) THEN (d - b) \div 7 ELSE (d - b) \div 7 + 1
  BY DEF Weekday
<1>2. d + 1 - b \in Int /\ d - b \in Int
  OBVIOUS
<1>3. FloorDiv(d + 1 - b, 7) = (d + 1 - b) \div 7 /\ FloorDiv(d - b, 7) = (d - b) \div 7
  BY <1>2, FloorOfSeven
<1> QED
  BY <1>1, <1>3

LEMMA AnchorsAreDates ==
  ASSUME NEW d \in Anchors
  PROVE  d \in Int
<1>1. Anchors \subseteq Nat
  BY YearsAssumption
<1> QED
  BY <1>1

LEMMA CalendarInitially == CalendarInit => CalendarTypeOK
  BY YearsAssumption, LengthOfYear DEF CalendarInit, CalendarTypeOK

LEMMA NextDayTyped ==
  ASSUME CalendarTypeOK, NextDay
  PROVE  CalendarTypeOK'
<1>1. year \in Nat \ {0, 1} /\ year + 1 \in Nat \ {0, 1} /\ year + 2 \in Nat /\ year + 1 + 1 = year + 2
  BY DEF CalendarTypeOK
<1>2. /\ YearStart(year) \in Nat /\ YearStart(year + 1) \in Nat /\ YearStart(year + 2) \in Nat
      /\ YearStart(year + 1) < YearStart(year + 2)
  BY <1>1, LengthOfYear
<1> QED
  BY <1>1, <1>2 DEF CalendarTypeOK, NextDay

LEMMA CalendarTyped == CalendarSpec => []CalendarTypeOK
<1>1. CalendarTypeOK /\ [NextDay]_calendarVars => CalendarTypeOK'
  BY NextDayTyped DEF CalendarTypeOK, calendarVars
<1> QED
  BY <1>1, CalendarInitially, PTL DEF CalendarSpec

\* The number of the week goes up by one with each week, and back to one with each year's first, in
\* every year and on whatever day weeks begin.
THEOREM WeeksFollowEachOther == CalendarSpec => WeekAdvances
<1>1. ASSUME CalendarTypeOK, NextDay
      PROVE  Week' = IF ~BeginsWeek(target') THEN Week
                     ELSE IF BeginsYear(target', year') THEN 1 ELSE Week + 1
  <2>1. settings' = settings /\ settings \in Settings /\ settings.first \in 0..6 /\ target' = target + 1
    BY <1>1 DEF NextDay, CalendarTypeOK, Settings
  <2>2. CASE settings.mode = "SEMESTER"
    <3> DEFINE first == StartOfWeek(settings.anchor, settings.first)
    <3>1. settings.anchor \in Int
      <4>1. settings.anchor \in Anchors
        BY <2>1 DEF Settings
      <4> QED
        BY <4>1, AnchorsAreDates
    <3>2. target \in Int
      BY <1>1, LengthOfYear DEF CalendarTypeOK
    <3>3. first \in Int /\ Weekday(first) = settings.first
      BY <2>1, <3>1, WeekBegins
    <3>4. /\ SemesterWeek(target + 1) = FloorDiv(target + 1 - first, 7) + 1
          /\ SemesterWeek(target) = FloorDiv(target - first, 7) + 1
          /\ target - first \in Int
      BY <3>2, <3>3 DEF SemesterWeek
    <3> HIDE DEF first
    <3>5. FloorDiv(target - first, 7) \in Int
      BY <3>4, FloorOfSeven
    <3>6. SemesterWeek(target + 1) =
            IF Weekday(target + 1) # settings.first THEN SemesterWeek(target) ELSE SemesterWeek(target) + 1
      BY <3>2, <3>3, <3>4, <3>5, SemesterWeekAdvances
    <3>7. SemesterWeek(target)' = SemesterWeek(target + 1)
      BY <2>1 DEF SemesterWeek
    <3> QED
      BY <2>1, <2>2, <3>6, <3>7 DEF Week, WeekIndex, BeginsWeek, BeginsYear
  <2>3. CASE settings.mode = "NATURAL"
    BY <1>1, <2>1, <2>3, NaturalWeekAdvances DEF Week, WeekIndex, BeginsWeek, BeginsYear
  <2> QED
    BY <2>1, <2>2, <2>3 DEF Settings
<1>2. CalendarTypeOK /\ [NextDay]_calendarVars =>
        [target' # target =>
           Week' = IF ~BeginsWeek(target') THEN Week
                   ELSE IF BeginsYear(target', year') THEN 1
                   ELSE Week + 1]_calendarVars
  BY <1>1
<1> QED
  BY <1>2, CalendarTyped, PTL DEF CalendarSpec, WeekAdvances

-----------------------------------------------------------------------------
\* The contents of briefings: what the loop over the exceptions of a date leaves on the list.  A set of
\* places that is not empty has a first one.
LEMMA LeastPlace ==
  ASSUME NEW T \in SUBSET Nat, T # {}
  PROVE  \E x \in T : \A y \in T : x <= y
<1> DEFINE less == OpToRel(<, Nat)
<1>1. IsWellFoundedOn(less, Nat)
  BY NatLessThanWellFounded
<1>2. \A x, y \in Nat : <<y, x>> \notin less => x <= y
  BY DEF OpToRel
<1> HIDE DEF less
<1>3. \E x \in T : \A y \in T : ~ (<<y, x>> \in less)
  BY <1>1, WFMin
<1> QED
  BY <1>2, <1>3

LEMMA AppliedTypes ==
  ASSUME DigestTypeOK
  PROVE  /\ Len(applied) \in Nat /\ DOMAIN applied = 1..Len(applied) /\ Len(Timetable) \in Nat
         /\ \A k \in DOMAIN applied : applied[k] \in Exceptions
         /\ \A id : Lasting(id) \subseteq 1..Len(applied) /\ TakenOff(id) \subseteq 1..Len(applied)
         /\ \A id : Scheduled(id) \subseteq 1..Len(Timetable)
  BY DigestAssumption DEF DigestTypeOK, Lasting, AddedBy, TakenOff, About, Scheduled, HeldToday

\* What the loop keeps of a lesson explains what is on the list.
LEMMA FittingListExplained ==
  ASSUME DigestTypeOK, NEW id, ListFits(id)
  PROVE  /\ Cardinality(OnList(id)) = Cardinality(Lasting(id)) + Cardinality(Scheduled(id))
         /\ \A i \in OnList(id) : shown[i].title \in NoName => CalledUnnamed(id) \/ \E k \in Lasting(id) : Nameless(k, id)
<1> DEFINE t == Len(Timetable)
           added == {t + k : k \in Lasting(id)}
           placeOf == [k \in Lasting(id) |-> t + k]
<1>1. /\ Lasting(id) \subseteq 1..Len(applied) /\ Scheduled(id) \subseteq 1..t
      /\ t \in Nat /\ Len(applied) \in Nat
  BY AppliedTypes
<1>2. IsFiniteSet(Lasting(id)) /\ IsFiniteSet(Scheduled(id))
  <2>1. IsFiniteSet(1..Len(applied)) /\ IsFiniteSet(1..t)
    BY <1>1, FS_Interval
  <2> HIDE DEF t
  <2> QED
    BY <1>1, <2>1, FS_Subset
<1>3. placeOf \in Bijection(Lasting(id), added)
  <2>1. \A k, l \in Lasting(id) : t + k = t + l => k = l
    BY <1>1
  <2> HIDE DEF t
  <2> QED
    BY <2>1 DEF Bijection, Injection, Surjection, IsInjective
<1>4. IsFiniteSet(added) /\ Cardinality(added) = Cardinality(Lasting(id))
  BY <1>2, <1>3, FS_Bijection DEF ExistsBijection
<1>5. Scheduled(id) \cap added = {}
  BY <1>1
<1>6. Cardinality(Scheduled(id) \cup added) = Cardinality(Scheduled(id)) + Cardinality(added) - Cardinality(Scheduled(id) \cap added)
  BY <1>2, <1>4, FS_Union
<1>7. Cardinality(Scheduled(id)) \in Nat /\ Cardinality(added) \in Nat /\ Cardinality(Scheduled(id) \cap added) = 0
  BY <1>2, <1>4, <1>5, FS_CardinalityType, FS_EmptySet
<1>8. OnList(id) = Scheduled(id) \cup added
  BY DEF ListFits
<1>9. Cardinality(OnList(id)) = Cardinality(Lasting(id)) + Cardinality(Scheduled(id))
  <2> HIDE DEF added
  <2> QED
    BY <1>4, <1>6, <1>7, <1>8
<1>10. ASSUME NEW i \in OnList(id), shown[i].title \in NoName, ~CalledUnnamed(id)
       PROVE  \E k \in Lasting(id) : Nameless(k, id)
  BY <1>8, <1>10 DEF ListFits
<1> QED
  BY <1>9, <1>10

-----------------------------------------------------------------------------
\* The places after the sort.
LEMMA Places ==
  ASSUME DigestTypeOK
  PROVE  /\ \A i \in DOMAIN shown : i \in Nat /\ shown[i].begin \in Int /\ shown[i].title \in Int
         /\ \A i \in DOMAIN shown : ~Precedes(i, i)
         /\ \A i, j \in DOMAIN shown : i = j \/ Precedes(i, j) \/ Precedes(j, i)
         /\ \A i, j, k \in DOMAIN shown : Precedes(i, j) /\ Precedes(j, k) => Precedes(i, k)
<1>1. \A i \in DOMAIN shown : i \in Nat /\ shown[i].begin \in Int /\ shown[i].title \in Int
  BY DEF DigestTypeOK
<1>2. ASSUME NEW i \in DOMAIN shown, NEW j \in DOMAIN shown
      PROVE  Precedes(i, j) <=> \/ shown[i].begin < shown[j].begin
                                \/ shown[i].begin = shown[j].begin /\ shown[i].title < shown[j].title
                                \/ shown[i].begin = shown[j].begin /\ shown[i].title = shown[j].title /\ i < j
  BY <1>1 DEF Precedes, Before
<1> QED
  BY <1>1, <1>2

LEMMA RanksDiffer ==
  ASSUME DigestTypeOK, IsFiniteSet(DOMAIN shown)
  PROVE  /\ \A i \in DOMAIN shown : Rank(i) \in Nat \ {0}
         /\ \A i, j \in DOMAIN shown : Rank(i) = Rank(j) => i = j
<1> DEFINE ahead(i) == {j \in DOMAIN shown : Precedes(j, i)}
<1>1. ASSUME NEW i \in DOMAIN shown
      PROVE  IsFiniteSet(ahead(i)) /\ Cardinality(ahead(i)) \in Nat /\ Rank(i) = Cardinality(ahead(i)) + 1
  <2>1. IsFiniteSet(ahead(i))
    BY FS_Subset
  <2> QED
    BY <2>1, FS_CardinalityType DEF Rank
<1>2. ASSUME NEW i \in DOMAIN shown, NEW j \in DOMAIN shown, Precedes(i, j)
      PROVE  Rank(i) < Rank(j)
  <2>1. ahead(i) \in SUBSET ahead(j) /\ i \in ahead(j) /\ i \notin ahead(i)
    BY <1>2, Places
  <2>2. Cardinality(ahead(i)) <= Cardinality(ahead(j)) /\ Cardinality(ahead(j)) # Cardinality(ahead(i))
    BY <1>1, <2>1, FS_Subset
  <2> HIDE DEF ahead
  <2> QED
    BY <1>1, <2>2
<1> HIDE DEF ahead
<1>3. \A i, j \in DOMAIN shown : Rank(i) = Rank(j) => i = j
  BY <1>1, <1>2, Places
<1> QED
  BY <1>1, <1>3

LEMMA SortedLessons ==
  ASSUME DigestTypeOK, IsFiniteSet(DOMAIN shown)
  PROVE  /\ DOMAIN Sorted = {Rank(i) : i \in DOMAIN shown}
         /\ \A i \in DOMAIN shown : Sorted[Rank(i)] = shown[i]
<1>1. ASSUME NEW i \in DOMAIN shown
      PROVE  (CHOOSE j \in DOMAIN shown : Rank(j) = Rank(i)) = i
  BY RanksDiffer
<1> QED
  BY <1>1 DEF Sorted

LEMMA FinishDigestStep ==
  ASSUME DigestInv, FinishDigest
  PROVE  DigestInv'
<1>1. DigestTypeOK /\ phase = "exceptions" /\ phase' = "ready" /\ applied' = applied /\ shown' = Sorted
  BY DEF DigestInv, FinishDigest
<1>2. IsFiniteSet(DOMAIN shown)
  <2>1. DOMAIN shown \subseteq 1..(End - 1) /\ End - 1 \in Int
    BY <1>1, AppliedTypes DEF DigestInv, End
  <2> QED
    BY <2>1, FS_Interval, FS_Subset
<1>3. /\ DOMAIN shown' = {Rank(i) : i \in DOMAIN shown}
      /\ \A i \in DOMAIN shown : shown'[Rank(i)] = shown[i] /\ Rank(i) \in Nat \ {0}
  BY <1>1, <1>2, SortedLessons, RanksDiffer
<1>4. DigestTypeOK'
  BY <1>1, <1>3 DEF FinishDigest, DigestTypeOK, CalendarTypeOK, calendarVars
<1>5. ASSUME NEW id \in Ids
      PROVE  /\ Cardinality(OnList(id)') = Cardinality(Lasting(id)') + Cardinality(Scheduled(id)')
             /\ \A i \in OnList(id)' : shown'[i].title \in NoName =>
                  CalledUnnamed(id)' \/ \E k \in Lasting(id)' : Nameless(k, id)'
  <2> DEFINE old == OnList(id)
             new == {Rank(i) : i \in old}
             move == [i \in old |-> Rank(i)]
  <2>1. OnList(id)' = new
    BY <1>3 DEF OnList
  <2>2. IsFiniteSet(old) /\ old \subseteq DOMAIN shown
    BY <1>2, FS_Subset DEF OnList
  <2>3. move \in Bijection(old, new)
    BY <1>1, <1>2, <2>2, RanksDiffer DEF Bijection, Injection, Surjection, IsInjective
  <2>4. Cardinality(new) = Cardinality(old)
    BY <2>2, <2>3, FS_Bijection DEF ExistsBijection
  <2>5. /\ Lasting(id)' = Lasting(id) /\ Scheduled(id)' = Scheduled(id)
        /\ \A k : Nameless(k, id)' <=> Nameless(k, id)
        /\ CalledUnnamed(id)' <=> CalledUnnamed(id)
    BY <1>1 DEF FinishDigest, calendarVars, Lasting, Scheduled, AddedBy, TakenOff, About, HeldToday, Held, Week,
          WeekIndex, SemesterWeek, DayOfWeek, Nameless, CalledUnnamed
  <2>6. /\ Cardinality(old) = Cardinality(Lasting(id)) + Cardinality(Scheduled(id))
        /\ \A i \in old : shown[i].title \in NoName => CalledUnnamed(id) \/ \E k \in Lasting(id) : Nameless(k, id)
    BY <1>1, FittingListExplained DEF DigestInv
  <2>7. \A i \in new : \E j \in old : shown'[i] = shown[j]
    BY <1>3, <2>2
  <2> QED
    BY <2>1, <2>4, <2>5, <2>6, <2>7
<1>6. DigestExplained'
  BY <1>5 DEF DigestExplained
<1> QED
  BY <1>1, <1>4, <1>6 DEF DigestInv

LEMMA ApplyExceptionStep ==
  ASSUME DigestInv, NEW e \in Exceptions, ApplyException(e)
  PROVE  DigestInv'
<1> DEFINE t == Len(Timetable)
<1> PICK n : n = Len(applied) + 1
  OBVIOUS
<1>1. /\ DigestTypeOK /\ phase = "exceptions" /\ phase' = phase /\ applied' = Append(applied, e)
      /\ UNCHANGED <<calendarVars, phase>>
      /\ shown' = [i \in Left(e) \cup (IF e.kind = "CANCEL" THEN {} ELSE {End}) |-> IF i = End THEN Added(e) ELSE shown[i]]
      /\ Left(e) \subseteq DOMAIN shown /\ DOMAIN shown \subseteq 1..(End - 1)
  BY DEF DigestInv, ApplyException, Left
<1>2. /\ t \in Nat /\ Len(applied) \in Nat /\ End = t + n /\ n \in Nat /\ End \notin DOMAIN shown /\ End \in Nat \ {0}
      /\ DOMAIN applied = 1..Len(applied) /\ DOMAIN applied' = 1..n
      /\ \A k \in DOMAIN applied : applied'[k] = applied[k]
      /\ applied'[n] = e /\ applied' \in Seq(Exceptions) /\ End' = End + 1
  BY <1>1, AppliedTypes DEF End, DigestTypeOK
<1>3. /\ e.kind \in Kinds /\ e.title \in Nat /\ e.begin \in Int /\ e.end \in Int
      /\ Unnamed \in Nat \ {0} /\ Blank \in Nat \ {0, Unnamed}
  BY DigestAssumption
\* What is added, by cases.
<1>4. \/ Originals(e) = {} /\ Template(e) = [id |-> e.lesson, title |-> e.title, begin |-> 0, end |-> 0, opens |-> 0, closes |-> 0]
      \/ \E i \in Originals(e) : Template(e) = shown[i]
  <2>1. CASE Originals(e) = {}
    BY <2>1 DEF Template
  <2>2. CASE Originals(e) # {}
    <3>1. Originals(e) \in SUBSET Nat
      BY <1>1 DEF Originals, DigestTypeOK
    <3>2. \E i \in Originals(e) : \A j \in Originals(e) : i <= j
      BY <2>2, <3>1, LeastPlace
    <3> QED
      BY <2>2, <3>2 DEF Template
  <2> QED
    BY <2>1, <2>2
<1>5. /\ Template(e).title \in Nat /\ Template(e).begin \in Int /\ Template(e).end \in Int
      /\ Template(e).opens \in Nat /\ Template(e).closes \in Nat /\ Titled(e) \in Nat
  <2>1. /\ Template(e).title \in Nat /\ Template(e).begin \in Int /\ Template(e).end \in Int
        /\ Template(e).opens \in Nat /\ Template(e).closes \in Nat
    BY <1>1, <1>3, <1>4 DEF Originals, DigestTypeOK
  <2> QED
    BY <1>3, <2>1 DEF Titled, NonBlank
<1>6. /\ Added(e).id = e.lesson /\ Added(e).title \in Nat \ {Blank} /\ Added(e).begin \in Int /\ Added(e).end \in Int
      /\ Added(e).opens \in Nat /\ Added(e).closes \in Nat /\ Added(e).begin < Added(e).end
      /\ Added(e).title \in NoName =>
           e.title = Unnamed \/ (Trim(e.title) = 0 /\ (Originals(e) = {} \/ Template(e).title \in NoName))
  <2> DEFINE title == IF Titled(e) = 0 THEN Unnamed ELSE Titled(e)
             begin == Given(e.begin, Template(e).begin)
             end   == Given(e.end, Template(e).end)
  <2>1. title \in Nat /\ begin \in Int /\ end \in Int
    BY <1>3, <1>5 DEF Given
  <2>2. /\ Added(e).id = e.lesson /\ Added(e).title = Trim(title)
        /\ Added(e).opens = Template(e).opens /\ Added(e).closes = Template(e).closes
        /\ Added(e).begin = IF begin = 0 THEN Template(e).opens ELSE begin
        /\ LET stop == IF end = 0 THEN Template(e).closes ELSE end
           IN Added(e).end = IF stop <= Added(e).begin THEN Added(e).begin + 90 ELSE stop
    BY DEF Added, Entry
  <2> HIDE DEF title, begin, end
  <2>3. Added(e).begin \in Int /\ Added(e).end \in Int /\ Added(e).begin < Added(e).end
    BY <1>5, <2>1, <2>2
  <2>4. Added(e).title \in Nat \ {Blank}
    BY <1>3, <2>1, <2>2 DEF Trim
  <2>5. ASSUME Added(e).title \in NoName
        PROVE  e.title = Unnamed \/ (Trim(e.title) = 0 /\ (Originals(e) = {} \/ Template(e).title \in NoName))
    <3>1. Titled(e) \in {0, Unnamed, Blank}
      BY <1>3, <1>5, <2>2, <2>5 DEF title, Trim, NoName
    <3>2. CASE Trim(e.title) # 0
      BY <1>3, <3>1, <3>2 DEF Titled, NonBlank, Trim
    <3>3. CASE Trim(e.title) = 0 /\ Originals(e) # {}
      <4>1. Titled(e) = Template(e).title
        BY <3>3 DEF Titled, NonBlank
      <4>2. Template(e).title # Blank
        BY <1>1, <1>3, <1>4, <3>3 DEF Originals, DigestTypeOK
      <4> QED
        BY <3>1, <3>3, <4>1, <4>2 DEF NoName
    <3> QED
      BY <3>2, <3>3
  <2> QED
    BY <1>5, <2>2, <2>3, <2>4, <2>5
<1>7. DigestTypeOK'
  BY <1>1, <1>2, <1>6 DEF DigestTypeOK, CalendarTypeOK, calendarVars
<1>8. DOMAIN shown' \subseteq 1..(End' - 1)
  BY <1>1, <1>2
<1>9. ASSUME NEW id \in Ids
      PROVE  ListFits(id)'
  <2>1. ListFits(id)
    BY <1>1 DEF DigestInv
  <2>2. /\ About(id)' = About(id) \cup (IF e.lesson = id THEN {n} ELSE {})
        /\ HeldToday(id)' = HeldToday(id)
        /\ About(id) \subseteq 1..Len(applied) /\ n \notin About(id)
    <3>1. HeldToday(id)' = HeldToday(id)
      BY <1>1 DEF calendarVars, HeldToday, Held, Week, WeekIndex, SemesterWeek, DayOfWeek
    <3>2. \A k \in 1..n : k = n \/ k \in 1..Len(applied)
      BY <1>2
    <3> QED
      BY <1>2, <3>1, <3>2 DEF About
  <2>3. /\ TakenOff(id)' = TakenOff(id) \cup (IF e.lesson = id /\ e.kind # "MAKE_UP" /\ id # NoLesson THEN {n} ELSE {})
        /\ AddedBy(id)' = AddedBy(id) \cup (IF e.lesson = id /\ e.kind # "CANCEL" THEN {n} ELSE {})
        /\ TakenOff(id) \subseteq 1..Len(applied) /\ AddedBy(id) \subseteq 1..Len(applied)
    BY <1>2, <2>2 DEF TakenOff, AddedBy, About
  <2> DEFINE calledSo == CalledUnnamed(id)'
  <2>11. ~calledSo => ~CalledUnnamed(id) /\ (e.lesson = id => e.title # Unnamed)
    BY <1>2, <2>2 DEF CalledUnnamed, About
  <2>4. Lasting(id)' = {k \in AddedBy(id)' : \A j \in TakenOff(id)' : j <= k}
    BY DEF Lasting
  <2>5. OnList(id)' = {i \in Left(e) : shown[i].id = id} \cup (IF e.lesson = id /\ e.kind # "CANCEL" THEN {End} ELSE {})
    BY <1>1, <1>2, <1>6 DEF OnList
  <2>6. ASSUME NEW k \in Lasting(id), k \in Lasting(id)', Nameless(k, id)
        PROVE  Nameless(k, id)'
    <3>1. k \in 1..Len(applied) /\ applied'[k] = applied[k] /\ applied[k].lesson = id
      BY <1>2, <2>3 DEF Lasting, AddedBy, About
    <3>2. \A j \in TakenOff(id) : j \in TakenOff(id)' /\ applied'[j] = applied[j]
      BY <1>2, <2>3
    <3> QED
      BY <2>2, <2>6, <3>1, <3>2 DEF Nameless
  <2>7. CASE e.lesson # id
    <3>1. TakenOff(id)' = TakenOff(id) /\ AddedBy(id)' = AddedBy(id) /\ Lasting(id)' = Lasting(id) /\ Scheduled(id)' = Scheduled(id)
      BY <2>2, <2>3, <2>7 DEF Lasting, Scheduled
    <3>2. OnList(id)' = OnList(id) /\ \A i \in OnList(id) : shown'[i] = shown[i]
      BY <1>1, <1>2, <2>5, <2>7 DEF OnList, Left
    <3> QED
      BY <1>2, <2>1, <2>3, <2>6, <2>11, <3>1, <3>2 DEF ListFits
  <2>8. CASE e.lesson = id /\ e.kind = "CANCEL" /\ id # NoLesson
    <3>1. Left(e) = {i \in DOMAIN shown : shown[i].id # id}
      BY <2>8 DEF Left
    <3>2. OnList(id)' = {} /\ n \in TakenOff(id)' /\ Scheduled(id)' = {}
      BY <2>3, <2>5, <2>8, <3>1 DEF Scheduled
    <3>3. Lasting(id)' = {}
      BY <1>2, <2>3, <2>4, <2>8
    <3> QED
      BY <1>2, <2>8, <3>2, <3>3 DEF ListFits
  <2>9. CASE e.lesson = id /\ e.kind = "CANCEL" /\ id = NoLesson
    <3>1. TakenOff(id)' = TakenOff(id) /\ AddedBy(id)' = AddedBy(id) /\ Lasting(id)' = Lasting(id) /\ Scheduled(id)' = Scheduled(id)
      BY <2>2, <2>3, <2>9 DEF Lasting, Scheduled
    <3>2. OnList(id)' = OnList(id) /\ \A i \in OnList(id) : shown'[i] = shown[i]
      BY <1>1, <1>2, <2>5, <2>9 DEF OnList, Left
    <3> QED
      BY <1>2, <2>1, <2>3, <2>6, <2>11, <3>1, <3>2 DEF ListFits
  \* An exception that adds a lesson.
  <2>10. CASE e.lesson = id /\ e.kind # "CANCEL"
    <3>1. shown'[End] = Added(e)
      BY <1>1, <2>10
    <3>2. ASSUME Added(e).title \in NoName, ~calledSo
          PROVE  Nameless(n, id)'
      <4>1. Trim(e.title) = 0 /\ (Originals(e) = {} \/ Template(e).title \in NoName)
        BY <1>6, <2>10, <2>11, <3>2
      <4>2. ASSUME \/ id = NoLesson \/ HeldToday(id) = {} \/ \E j \in TakenOff(id) : applied[j].kind = "CANCEL"
            PROVE  Nameless(n, id)'
        <5>1. \A j \in TakenOff(id) : j \in TakenOff(id)' /\ j < n /\ applied'[j] = applied[j]
          BY <1>2, <2>3
        <5> QED
          BY <1>2, <2>2, <2>10, <4>1, <4>2, <5>1 DEF Nameless
      <4>3. CASE Originals(e) = {} /\ id # NoLesson
        <5>1. OnList(id) = {}
          BY <2>10, <4>3 DEF Originals, OnList
        <5>2. Lasting(id) = {} /\ Scheduled(id) = {}
          BY <2>1, <5>1 DEF ListFits
        <5> QED
          BY <2>1, <4>2, <5>2 DEF ListFits, Scheduled
      <4>4. CASE Originals(e) # {}
        <5>1. PICK i \in Originals(e) : Template(e) = shown[i]
          BY <1>4, <4>4
        <5>2. i \in OnList(id) /\ shown[i].title \in NoName
          BY <1>1, <2>10, <4>1, <4>4, <5>1 DEF Originals, OnList, DigestTypeOK
        <5>3. PICK k \in Lasting(id) : Nameless(k, id)
          BY <1>1, <2>1, <2>11, <3>2, <5>2, FittingListExplained
        <5>4. applied[k].lesson = id
          BY DEF Lasting, AddedBy, About
        <5> QED
          BY <4>2, <5>3, <5>4 DEF Nameless
      <4> QED
        BY <4>2, <4>3, <4>4
    <3>3. CASE e.kind = "RESCHEDULE" /\ id # NoLesson
      <4>1. Left(e) = {i \in DOMAIN shown : shown[i].id # id}
        BY <2>10, <3>3 DEF Left
      <4>2. OnList(id)' = {End} /\ n \in TakenOff(id)' /\ Scheduled(id)' = {}
        BY <2>3, <2>5, <2>10, <3>3, <4>1 DEF Scheduled
      <4>3. Lasting(id)' = {n}
        <5>1. TakenOff(id)' = TakenOff(id) \cup {n} /\ AddedBy(id)' = AddedBy(id) \cup {n}
          BY <2>3, <2>10, <3>3
        <5>2. \A k \in AddedBy(id) : ~(n <= k)
          BY <1>2, <2>3
        <5>3. \A j \in TakenOff(id) \cup {n} : j <= n
          BY <1>2, <2>3
        <5> QED
          BY <2>4, <5>1, <5>2, <5>3
      <4> QED
        BY <1>2, <3>1, <3>2, <4>2, <4>3 DEF ListFits
    <3>4. CASE e.kind = "MAKE_UP" \/ id = NoLesson
      <4>1. TakenOff(id)' = TakenOff(id) /\ AddedBy(id)' = AddedBy(id) \cup {n} /\ Scheduled(id)' = Scheduled(id)
        BY <2>2, <2>3, <2>10, <3>4 DEF Scheduled
      <4>2. Lasting(id)' = Lasting(id) \cup {n}
        <5>1. \A j \in TakenOff(id) : j <= n
          BY <1>2, <2>3
        <5> QED
          BY <2>4, <4>1, <5>1 DEF Lasting
      <4>3. OnList(id)' = OnList(id) \cup {End} /\ \A i \in OnList(id) : shown'[i] = shown[i]
        BY <1>1, <1>2, <2>5, <2>10, <3>4 DEF OnList, Left
      <4>4. OnList(id)' = Scheduled(id)' \cup {t + k : k \in Lasting(id)'}
        <5>1. {t + k : k \in Lasting(id) \cup {n}} = {t + k : k \in Lasting(id)} \cup {t + n}
          OBVIOUS
        <5> HIDE DEF t
        <5>2. OnList(id) = Scheduled(id) \cup {t + k : k \in Lasting(id)}
          BY <2>1 DEF ListFits, t
        <5> QED
          BY <1>2, <4>1, <4>2, <4>3, <5>1, <5>2
      <4>5. ASSUME NEW k \in Lasting(id)', shown'[t + k].title \in NoName, ~calledSo
            PROVE  Nameless(k, id)'
        <5>1. CASE k = n
          BY <1>2, <3>1, <3>2, <4>5, <5>1
        <5>2. CASE k \in Lasting(id)
          <6>1. t + k \in OnList(id)
            BY <2>1, <5>2 DEF ListFits
          <6> QED
            BY <2>1, <2>6, <2>11, <4>3, <4>5, <5>2, <6>1 DEF ListFits
        <5> QED
          BY <4>2, <5>1, <5>2
      <4>6. ~calledSo => \A i \in Scheduled(id)' : shown'[i].title \notin NoName
        BY <2>1, <2>11, <4>1, <4>3 DEF ListFits
      <4> QED
        BY <4>2, <4>4, <4>5, <4>6 DEF ListFits
    <3> QED
      BY <1>3, <2>10, <3>3, <3>4 DEF Kinds
  <2> QED
    BY <2>7, <2>8, <2>9, <2>10
<1> QED
  BY <1>1, <1>7, <1>8, <1>9 DEF DigestInv

LEMMA StartDigestStep ==
  ASSUME DigestInv, StartDigest
  PROVE  DigestInv'
<1>1. /\ DigestTypeOK /\ phase = "idle" /\ phase' = "exceptions" /\ applied = <<>> /\ applied' = applied
      /\ UNCHANGED calendarVars
      /\ shown' = [i \in {k \in DOMAIN Timetable : Held(Timetable[k])} |-> Entry(Timetable[i])]
  BY DEF DigestInv, StartDigest
<1>2. /\ Len(Timetable) \in Nat /\ DOMAIN Timetable = 1..Len(Timetable)
      /\ \A i \in DOMAIN Timetable :
           /\ Timetable[i].title \in Nat /\ Timetable[i].begin \in Int /\ Timetable[i].end \in Int
           /\ Timetable[i].opens \in Nat /\ Timetable[i].closes \in Nat
  BY DigestAssumption
<1>3. DigestTypeOK'
  <2>1. ASSUME NEW i \in DOMAIN Timetable
        PROVE  LET l == Entry(Timetable[i])
               IN /\ l.title \in Nat \ {Blank} /\ l.begin \in Int /\ l.end \in Int /\ l.begin < l.end
                  /\ l.opens \in Nat /\ l.closes \in Nat
    BY <1>2, DigestAssumption DEF Entry, Trim
  <2>2. DOMAIN shown' \subseteq DOMAIN Timetable /\ \A i \in DOMAIN shown' : shown'[i] = Entry(Timetable[i])
    BY <1>1
  <2> QED
    BY <1>1, <1>2, <2>1, <2>2 DEF DigestTypeOK, CalendarTypeOK, calendarVars
<1>4. DOMAIN shown' \subseteq 1..(End' - 1)
  BY <1>1, <1>2 DEF End
<1>5. ASSUME NEW id \in Ids
      PROVE  ListFits(id)'
  <2>1. About(id)' = {} /\ TakenOff(id)' = {} /\ AddedBy(id)' = {} /\ Lasting(id)' = {} /\ Scheduled(id)' = HeldToday(id)'
    BY <1>1 DEF About, TakenOff, AddedBy, Lasting, Scheduled
  <2>2. HeldToday(id)' = HeldToday(id)
    BY <1>1 DEF calendarVars, HeldToday, Held, Week, WeekIndex, SemesterWeek, DayOfWeek
  <2>3. OnList(id)' = HeldToday(id)
    BY <1>1 DEF OnList, HeldToday, Entry
  <2>4. ~CalledUnnamed(id)' => \A i \in HeldToday(id) : shown'[i].title \notin NoName
    BY <1>1, <1>2 DEF HeldToday, Held, Entry, CalledUnnamed, Trim, NoName
  <2> QED
    BY <2>1, <2>2, <2>3, <2>4 DEF ListFits
<1> QED
  BY <1>1, <1>3, <1>4, <1>5 DEF DigestInv

LEMMA NextBriefingStep ==
  ASSUME DigestInv, NextBriefing
  PROVE  DigestInv'
<1>1. CalendarTypeOK'
  BY NextDayTyped DEF DigestInv, DigestTypeOK, NextBriefing
<1> QED
  BY <1>1 DEF DigestInv, DigestTypeOK, NextBriefing

LEMMA DigestInitially == DigestInit => DigestInv
  BY CalendarInitially DEF DigestInit, DigestInv, DigestTypeOK

LEMMA DigestStep ==
  ASSUME DigestInv, [DigestNext]_digestVars
  PROVE  DigestInv'
<1>1. CASE DigestNext
  BY <1>1, StartDigestStep, ApplyExceptionStep, FinishDigestStep, NextBriefingStep DEF DigestNext
<1>2. CASE UNCHANGED digestVars
  <2>1. phase' = phase /\ shown' = shown /\ applied' = applied /\ UNCHANGED calendarVars /\ End' = End
    BY <1>2 DEF digestVars, calendarVars, End
  <2>2. ASSUME NEW id
        PROVE  /\ HeldToday(id)' = HeldToday(id) /\ TakenOff(id)' = TakenOff(id) /\ AddedBy(id)' = AddedBy(id)
               /\ OnList(id)' = OnList(id) /\ (CalledUnnamed(id)' <=> CalledUnnamed(id))
    BY <2>1 DEF CalledUnnamed, calendarVars, HeldToday, Held, Week, WeekIndex, SemesterWeek, DayOfWeek, TakenOff, AddedBy, About, OnList
  <2>3. ASSUME NEW id
        PROVE  /\ Lasting(id)' = Lasting(id) /\ Scheduled(id)' = Scheduled(id) /\ \A k : Nameless(k, id)' <=> Nameless(k, id)
    BY <2>1, <2>2 DEF Lasting, Scheduled, Nameless
  <2>4. DigestTypeOK'
    BY <2>1 DEF DigestInv, DigestTypeOK, CalendarTypeOK, calendarVars
  <2>5. ASSUME NEW id, ListFits(id) PROVE ListFits(id)'
    BY <2>1, <2>2, <2>3, <2>5 DEF ListFits
  <2>6. DigestExplained => DigestExplained'
    BY <2>1, <2>2, <2>3 DEF DigestExplained
  <2> QED
    BY <2>1, <2>4, <2>5, <2>6 DEF DigestInv
<1> QED
  BY <1>1, <1>2

\* The list that the loop edits fits the exceptions it has applied, and sorting it changes no lesson.
THEOREM DigestInvariant == DigestSpec => []DigestInv
<1>1. DigestInv /\ [DigestNext]_digestVars => DigestInv'
  BY DigestStep
<1> QED
  BY <1>1, DigestInitially, PTL DEF DigestSpec

\* For any timetable and any exceptions: a briefing lists a lesson once for each exception that added it
\* and lasts, and as scheduled unless one took it off; and by its name, up to the exceptions that
\* DigestExplained names.
THEOREM BriefingsExplained == DigestSpec => []DigestExplained
<1>1. DigestInv => DigestExplained
  BY FittingListExplained DEF DigestInv, DigestExplained, DigestTypeOK
<1> QED
  BY <1>1, DigestInvariant, PTL

-----------------------------------------------------------------------------
\* The parts together.  A step of one is a step of that part's own specification.
LEMMA ServerInitially == MCInit => ServerInv
  BY ReplayInitially, LimiterInitially, ReleasesInitially, PoolInitially, DigestInitially DEF MCInit, ServerInv

LEMMA ServerStep ==
  ASSUME ServerInv, [MCNext]_<<part, replayVars, limiterVars, releaseVars, poolVars, digestVars>>
  PROVE  ServerInv'
<1>1. CASE ReplayPart
  <2>1. ReplayNext /\ InReplay
    BY <1>1 DEF ReplayPart, ReplayNext
  <2> QED
    BY <2>1, ReplayStep DEF ServerInv, InReplay
<1>2. CASE LimiterPart
  <2>1. LimiterNext /\ InLimiter
    BY <1>2 DEF LimiterPart, LimiterNext
  <2> QED
    BY <2>1, LimiterStep DEF ServerInv, InLimiter
<1>3. CASE ReleasesPart
  <2>1. ReleasesNext /\ InReleases
    BY <1>3 DEF ReleasesPart, ReleasesNext
  <2> QED
    BY <2>1, ReleasesStep DEF ServerInv, InReleases
<1>4. CASE PoolPart
  <2>1. PoolNext /\ InPool
    BY <1>4 DEF PoolPart, PoolNext
  <2> QED
    BY <2>1, PoolStep DEF ServerInv, InPool
<1>5. CASE BriefingPart
  <2>1. DigestNext /\ InBriefing
    BY <1>5 DEF BriefingPart, DigestNext
  <2> QED
    BY <2>1, DigestStep DEF ServerInv, InBriefing
<1>6. CASE UNCHANGED <<part, replayVars, limiterVars, releaseVars, poolVars, digestVars>>
  BY <1>6, ReplayStep, LimiterStep, ReleasesStep, PoolStep, DigestStep DEF ServerInv
<1> QED
  BY <1>1, <1>2, <1>3, <1>4, <1>5, <1>6 DEF MCNext

\* Whichever part runs while the others rest, it keeps its inductive invariant.
THEOREM ServerInvariant == MCSpec => []ServerInv
<1>1. ServerInv /\ [MCNext]_<<part, replayVars, limiterVars, releaseVars, poolVars, digestVars>> => ServerInv'
  BY ServerStep
<1> QED
  BY <1>1, ServerInitially, PTL DEF MCSpec
=============================================================================
