------------------------- MODULE CloudDocumentProofs -------------------------
(***************************************************************************)
(* Proofs about CloudDocument, for any edits, commands and handlers: the   *)
(* inductive invariant DocumentInv, and from it that an edit is written    *)
(* once, that none is lost, that what a client takes for saved was         *)
(* written, and that only a member's put changes the timetable.            *)
(***************************************************************************)
EXTENDS CloudDocument, TLAPS

\* The locals of an idle handler, and the payloads that are built, have their types.
LEMMA EmptyTypes == Empty \in Payloads /\ NoDoc \in Document /\ NoKey \in Keys /\ NoWork \in Locals
BY DEF Empty, Payloads, NoDoc, Document, NoKey, Keys, NoWork, Locals

LEMMA MergedType ==
  ASSUME NEW p \in Payloads, NEW q \in Payloads
  PROVE  Merged(p, q) \in Payloads /\ Merged(p, q).settings = q.settings /\ Merged(p, q).timetable = p.timetable
BY DEF Merged, Payloads

LEMMA WithCommandType ==
  ASSUME NEW p \in Payloads, NEW k \in Commands
  PROVE  /\ WithCommand(p, k) \in Payloads
         /\ p.settings \subseteq WithCommand(p, k).settings
         /\ WithCommand(p, k).timetable = p.timetable
BY DEF WithCommand, Payloads

\* What the type invariant says of one handler and one edit.
LEMMA HandlerTypes ==
  ASSUME TypeOK, NEW h \in Handlers
  PROVE  /\ work[h] \in Locals /\ work[h].payload \in Payloads
         /\ work[h].expected \in Nat /\ work[h].current \in Nat /\ work[h].tries \in Nat /\ work[h].member \in BOOLEAN
         /\ doc.version \in Nat /\ doc.payload \in Payloads
BY DEF TypeOK, Locals, Document

LEMMA EditTypes ==
  ASSUME TypeOK, NEW e \in Edits
  PROVE  /\ draft[e].version \in Nat /\ draft[e].payload \in Payloads /\ applied[e] \in Nat
         /\ key[e].state \in {"none", "live", "expired"}
         /\ doc.version \in Nat /\ doc.payload \in Payloads
BY DEF TypeOK, Document, Keys

-----------------------------------------------------------------------------
LEMMA InitDocument == Init => DocumentInv
<1> SUFFICES ASSUME Init PROVE DocumentInv
  OBVIOUS
<1> USE DEF Init
<1>1. TypeOK
  BY EmptyTypes DEF TypeOK
<1>2. \A h \in Handlers : WorkFits(h) /\ ReadsAreOld(h)
  BY DEF WorkFits, ReadsAreOld, NoWork, NoDoc, PutPlaces, CommandPlaces
<1>3. \A e \in Edits : DraftIsOld(e)
  BY DEF DraftIsOld, NoDoc, Drafted, Empty
<1>4. WrittenHavePassed /\ AppliedOnce /\ NoLostEdit
  BY DEF WrittenHavePassed, AppliedOnce, NoLostEdit
<1> QED BY <1>1, <1>2, <1>3, <1>4 DEF DocumentInv

\* A step of one handler that writes nothing preserves what is left to show of it.
LEMMA LocalStep ==
  ASSUME DocumentInv, NEW h \in Handlers, TypeOK',
         doc' = doc, draft' = draft, applied' = applied, blind' = blind,
         \A o \in Handlers \ {h} : pc'[o] = pc[o] /\ work'[o] = work[o],
         WorkFits(h)', ReadsAreOld(h)'
  PROVE  DocumentInv'
<1> USE DEF DocumentInv
<1>1. \A o \in Handlers \ {h} : WorkFits(o)'
  BY DEF WorkFits, Drafted
<1>2. \A o \in Handlers \ {h} : ReadsAreOld(o)'
  BY DEF ReadsAreOld
<1>3. \A e \in Edits : DraftIsOld(e)'
  BY DEF DraftIsOld, Drafted
<1>4. WrittenHavePassed' /\ AppliedOnce' /\ NoLostEdit'
  BY DEF WrittenHavePassed, AppliedOnce, NoLostEdit, Drafted
<1> QED BY <1>1, <1>2, <1>3, <1>4

\* Membership and keys are nothing the invariant depends on.
LEMMA OutsideStep ==
  ASSUME DocumentInv, Flip \/ CleanKeys \/ (\E e \in Edits : ExpireKey(e)) \/ UNCHANGED vars
  PROVE  DocumentInv'
<1> USE DEF DocumentInv
<1>1. /\ doc' = doc /\ draft' = draft /\ pc' = pc /\ work' = work
      /\ applied' = applied /\ tabled' = tabled /\ blind' = blind /\ answers' = answers
  BY DEF Flip, CleanKeys, ExpireKey, vars, account, keys, history
<1>2. member' \in BOOLEAN /\ flips' \in Nat /\ expiries' \in Nat
  <2>1. CASE Flip
    BY <2>1 DEF TypeOK, Flip, keys
  <2>2. CASE CleanKeys \/ UNCHANGED vars
    BY <2>2 DEF TypeOK, CleanKeys, vars, account, keys
  <2>3. CASE \E e \in Edits : ExpireKey(e)
    BY <2>3 DEF TypeOK, ExpireKey, account
  <2> QED BY <2>1, <2>2, <2>3
<1>3. key' \in [Edits -> Keys]
  <2>1. CASE Flip \/ UNCHANGED vars
    BY <2>1 DEF TypeOK, Flip, vars, keys
  <2>2. CASE CleanKeys
    BY <2>2, EmptyTypes DEF TypeOK, CleanKeys
  <2>3. ASSUME NEW e \in Edits, ExpireKey(e) PROVE key' \in [Edits -> Keys]
    <3>1. key' = [key EXCEPT ![e] = [key[e] EXCEPT !.state = "expired"]]
      BY <2>3 DEF ExpireKey
    <3>2. [key[e] EXCEPT !.state = "expired"] \in Keys
      BY DEF TypeOK, Keys
    <3> QED BY <3>1, <3>2 DEF TypeOK
  <2> QED BY <2>1, <2>2, <2>3
<1>4. TypeOK'
  BY <1>1, <1>2, <1>3 DEF TypeOK
<1>5. \A h \in Handlers : WorkFits(h)' /\ ReadsAreOld(h)'
  BY <1>1 DEF WorkFits, ReadsAreOld, Drafted
<1>6. \A e \in Edits : DraftIsOld(e)'
  BY <1>1 DEF DraftIsOld, Drafted
<1>7. WrittenHavePassed' /\ AppliedOnce' /\ NoLostEdit'
  BY <1>1 DEF WrittenHavePassed, AppliedOnce, NoLostEdit, Drafted
<1> QED BY <1>4, <1>5, <1>6, <1>7

\* A draft contains everything in the document it was made of.
LEMMA PullStep ==
  ASSUME DocumentInv, NEW e \in Edits, Pull(e)
  PROVE  DocumentInv'
<1> USE DEF DocumentInv
<1>1. /\ doc' = doc /\ pc' = pc /\ work' = work /\ key' = key /\ member' = member /\ flips' = flips /\ expiries' = expiries
      /\ applied' = applied /\ tabled' = tabled /\ blind' = blind /\ answers' = answers
  BY DEF Pull, account, keys, history
<1>2. /\ draft' \in [Edits -> Document] /\ draft'[e].version = doc.version
      /\ draft'[e].payload.settings = doc.payload.settings \cup {e}
  BY EditTypes DEF Pull, TypeOK, Document, Payloads
<1>3. \A f \in Edits \ {e} : draft'[f] = draft[f]
  BY DEF Pull, TypeOK
<1>4. ~Drafted(e) /\ Drafted(e)'
  BY <1>2 DEF Pull, Drafted
<1>5. TypeOK'
  BY <1>1, <1>2 DEF TypeOK
<1>6. \A h \in Handlers : WorkFits(h)' /\ ReadsAreOld(h)'
  BY <1>1, <1>3, <1>4 DEF WorkFits, ReadsAreOld, Drafted
<1>7. \A f \in Edits : DraftIsOld(f)'
  BY <1>1, <1>2, <1>3, EditTypes DEF DraftIsOld, Drafted
<1>8. WrittenHavePassed' /\ AppliedOnce' /\ NoLostEdit'
  BY <1>1, <1>3, <1>4 DEF WrittenHavePassed, AppliedOnce, NoLostEdit, Drafted
<1> QED BY <1>5, <1>6, <1>7, <1>8

-----------------------------------------------------------------------------
\* The arrival of a request.
LEMMA ArrivalStep ==
  ASSUME DocumentInv, NEW h \in Handlers,
         (\E e \in Edits : PutArrives(h, e)) \/ (\E k \in Commands : CommandArrives(h, k))
  PROVE  DocumentInv'
<1> USE DEF DocumentInv
<1>1. ASSUME NEW e \in Edits, PutArrives(h, e)
      PROVE  DocumentInv'
  <2> DEFINE locals == [NoWork EXCEPT !.item = e, !.member = member, !.payload = draft[e].payload, !.expected = draft[e].version]
  <2>1. /\ doc' = doc /\ draft' = draft /\ key' = key /\ member' = member /\ flips' = flips /\ expiries' = expiries
        /\ applied' = applied /\ tabled' = tabled /\ blind' = blind /\ answers' = answers /\ Drafted(e)
        /\ pc' = [pc EXCEPT ![h] = IF member THEN "key" ELSE "merge"] /\ work' = [work EXCEPT ![h] = locals]
    BY <1>1 DEF PutArrives, Continue, account, keys, history
  <2>2. locals \in Locals
    BY EditTypes DEF TypeOK, Locals, NoWork, Empty, Payloads
  <2>3. TypeOK'
    BY <2>1, <2>2 DEF TypeOK, PutPlaces
  <2>4. /\ pc'[h] = IF member THEN "key" ELSE "merge"
        /\ work'[h].item = e /\ work'[h].member = member /\ work'[h].payload = draft[e].payload
        /\ work'[h].expected = draft[e].version /\ work'[h].current = 0
        /\ \A o \in Handlers \ {h} : pc'[o] = pc[o] /\ work'[o] = work[o]
    BY <2>1 DEF TypeOK, NoWork
  <2>5. WorkFits(h)'
    BY <2>1, <2>4 DEF WorkFits, PutPlaces, CommandPlaces, Drafted
  <2>6. ReadsAreOld(h)'
    BY <2>1, <2>4, EditTypes DEF ReadsAreOld, DraftIsOld, PutPlaces
  <2> QED BY <2>1, <2>3, <2>4, <2>5, <2>6, LocalStep
<1>2. ASSUME NEW k \in Commands, CommandArrives(h, k)
      PROVE  DocumentInv'
  <2>1. /\ doc' = doc /\ draft' = draft /\ key' = key /\ member' = member /\ flips' = flips /\ expiries' = expiries
        /\ applied' = applied /\ tabled' = tabled /\ blind' = blind /\ answers' = answers
        /\ pc' = [pc EXCEPT ![h] = "command"] /\ work' = [work EXCEPT ![h] = [NoWork EXCEPT !.item = k]]
    BY <1>2 DEF CommandArrives, Continue, account, keys, history
  <2>2. [NoWork EXCEPT !.item = k] \in Locals
    BY DEF Locals, NoWork, Empty, Payloads
  <2>3. TypeOK'
    BY <2>1, <2>2 DEF TypeOK, CommandPlaces
  <2>4. /\ pc'[h] = "command" /\ work'[h].item = k /\ ~work'[h].member /\ work'[h].expected = 0 /\ work'[h].current = 0
        /\ \A o \in Handlers \ {h} : pc'[o] = pc[o] /\ work'[o] = work[o]
    BY <2>1 DEF TypeOK, NoWork
  <2>5. WorkFits(h)' /\ ReadsAreOld(h)'
    BY <2>1, <2>4, HandlerTypes DEF WorkFits, ReadsAreOld, PutPlaces, CommandPlaces
  <2> QED BY <2>1, <2>3, <2>4, <2>5, LocalStep
<1> QED BY <1>1, <1>2

\* A handler that ends without a write.
LEMMA EndStep ==
  ASSUME DocumentInv, NEW h \in Handlers, Done(h), pc[h] # "idle",
         doc' = doc, draft' = draft, key' = key, member' = member, flips' = flips, expiries' = expiries,
         applied' = applied, tabled' = tabled, blind' = blind,
         answers' \in [Edits -> SUBSET {"ok", "reused", "conflict"}]
  PROVE  DocumentInv'
<1> USE DEF DocumentInv
<1>1. pc' = [pc EXCEPT ![h] = "idle"] /\ work' = [work EXCEPT ![h] = NoWork]
  BY DEF Done, Continue
<1>2. TypeOK'
  BY <1>1, EmptyTypes DEF TypeOK
<1>3. pc'[h] = "idle" /\ work'[h] = NoWork /\ \A o \in Handlers \ {h} : pc'[o] = pc[o] /\ work'[o] = work[o]
  BY <1>1 DEF TypeOK
<1>4. WorkFits(h)' /\ ReadsAreOld(h)'
  BY <1>3, HandlerTypes DEF WorkFits, ReadsAreOld, NoWork, PutPlaces, CommandPlaces
<1> QED BY <1>2, <1>3, <1>4, LocalStep

LEMMA AnswerStep ==
  ASSUME DocumentInv, NEW h \in Handlers, ReplayAnswer(h) \/ Conflict(h) \/ Cancel(h)
  PROVE  DocumentInv'
<1> USE DEF DocumentInv
<1>1. /\ Done(h) /\ pc[h] # "idle" /\ doc' = doc /\ draft' = draft /\ key' = key /\ member' = member /\ flips' = flips
      /\ expiries' = expiries /\ applied' = applied /\ tabled' = tabled /\ blind' = blind
  BY DEF ReplayAnswer, Conflict, Cancel, Answer, account, keys, history
<1>2. answers' \in [Edits -> SUBSET {"ok", "reused", "conflict"}]
  BY DEF ReplayAnswer, Conflict, ConflictAnswer, Cancel, Answer, history, TypeOK
<1> QED BY <1>1, <1>2, EndStep

\* The steps of a put before its write.
LEMMA PutStep ==
  ASSUME DocumentInv, NEW h \in Handlers, Merge(h) \/ NoKeyFound(h) \/ ReadVersion(h)
  PROVE  DocumentInv'
<1> USE DEF DocumentInv
<1>1. /\ doc' = doc /\ draft' = draft /\ key' = key /\ member' = member /\ flips' = flips /\ expiries' = expiries
      /\ applied' = applied /\ tabled' = tabled /\ blind' = blind /\ answers' = answers
  BY DEF Merge, NoKeyFound, ReadVersion, account, keys, history
<1>2. WorkFits(h) /\ ReadsAreOld(h)
  OBVIOUS
<1>3. CASE Merge(h)
  <2>1. /\ pc[h] = "merge" /\ pc' = [pc EXCEPT ![h] = "key"]
        /\ work' = [work EXCEPT ![h] = [work[h] EXCEPT !.payload = Merged(doc.payload, work[h].payload)]]
    BY <1>3 DEF Merge, Continue
  <2>2. [work[h] EXCEPT !.payload = Merged(doc.payload, work[h].payload)] \in Locals
    BY HandlerTypes, MergedType DEF Locals
  <2>3. TypeOK'
    BY <1>1, <2>1, <2>2 DEF TypeOK, PutPlaces
  <2>4. \A o \in Handlers \ {h} : pc'[o] = pc[o] /\ work'[o] = work[o]
    BY <2>1 DEF TypeOK
  <2>5. /\ pc'[h] = "key" /\ work'[h].item = work[h].item /\ work'[h].member = work[h].member
        /\ work'[h].expected = work[h].expected /\ work'[h].current = work[h].current
        /\ work'[h].payload.settings = work[h].payload.settings
        /\ work'[h].payload.timetable = doc.payload.timetable
    BY <2>1, HandlerTypes, MergedType DEF TypeOK, Locals
  <2>6. WorkFits(h)'
    BY <1>1, <1>2, <2>1, <2>5 DEF WorkFits, PutPlaces, CommandPlaces, Drafted
  <2>7. ReadsAreOld(h)'
    BY <1>1, <1>2, <2>5 DEF ReadsAreOld, PutPlaces
  <2> QED BY <1>1, <2>3, <2>4, <2>6, <2>7, LocalStep
<1>4. CASE NoKeyFound(h)
  <2>1. pc[h] = "key" /\ pc' = [pc EXCEPT ![h] = "read"] /\ work' = [work EXCEPT ![h] = work[h]]
    BY <1>4 DEF NoKeyFound, Continue
  <2>2. TypeOK'
    BY <1>1, <2>1 DEF TypeOK, PutPlaces
  <2>3. pc'[h] = "read" /\ work'[h] = work[h] /\ \A o \in Handlers \ {h} : pc'[o] = pc[o] /\ work'[o] = work[o]
    BY <2>1 DEF TypeOK
  <2>4. WorkFits(h)' /\ ReadsAreOld(h)'
    BY <1>1, <1>2, <2>1, <2>3 DEF WorkFits, ReadsAreOld, PutPlaces, CommandPlaces, Drafted
  <2> QED BY <1>1, <2>2, <2>3, <2>4, LocalStep
<1>5. CASE ReadVersion(h)
  <2>1. /\ pc[h] = "read" /\ doc.version = work[h].expected /\ pc' = [pc EXCEPT ![h] = "write"]
        /\ work' = [work EXCEPT ![h] = [work[h] EXCEPT !.current = doc.version]]
    BY <1>5 DEF ReadVersion, Continue, VersionMatches
  <2>2. [work[h] EXCEPT !.current = doc.version] \in Locals
    BY HandlerTypes DEF Locals
  <2>3. TypeOK'
    BY <1>1, <2>1, <2>2 DEF TypeOK, PutPlaces
  <2>4. \A o \in Handlers \ {h} : pc'[o] = pc[o] /\ work'[o] = work[o]
    BY <2>1 DEF TypeOK
  <2>5. /\ pc'[h] = "write" /\ work'[h].item = work[h].item /\ work'[h].member = work[h].member
        /\ work'[h].expected = work[h].expected /\ work'[h].current = doc.version /\ work'[h].payload = work[h].payload
    BY <2>1, HandlerTypes DEF TypeOK, Locals
  <2>6. WorkFits(h)'
    BY <1>1, <1>2, <2>1, <2>5 DEF WorkFits, PutPlaces, CommandPlaces, Drafted
  <2>7. ReadsAreOld(h)'
    BY <1>1, <1>2, <2>1, <2>5, HandlerTypes DEF ReadsAreOld, PutPlaces
  <2> QED BY <1>1, <2>3, <2>4, <2>6, <2>7, LocalStep
<1> QED BY <1>3, <1>4, <1>5

\* The steps of a command before its write, and after a conflict.
LEMMA CommandStep ==
  ASSUME DocumentInv, NEW h \in Handlers, ReadForCommand(h) \/ CompareForCommand(h) \/ RetryCommand(h)
  PROVE  DocumentInv'
<1> USE DEF DocumentInv
<1>1. /\ doc' = doc /\ draft' = draft /\ key' = key /\ member' = member /\ flips' = flips /\ expiries' = expiries
      /\ applied' = applied /\ tabled' = tabled /\ blind' = blind /\ answers' = answers
  BY DEF ReadForCommand, CompareForCommand, RetryCommand, account, keys, history
<1>2. WorkFits(h) /\ ReadsAreOld(h)
  OBVIOUS
<1>3. CASE ReadForCommand(h)
  <2> DEFINE locals == [work[h] EXCEPT !.payload = WithCommand(doc.payload, work[h].item), !.expected = doc.version]
  <2>1. pc[h] = "command" /\ pc' = [pc EXCEPT ![h] = "compare"] /\ work' = [work EXCEPT ![h] = locals]
    BY <1>3 DEF ReadForCommand, Continue
  <2>2. work[h].item \in Commands /\ ~work[h].member
    BY <1>2, <2>1 DEF WorkFits, CommandPlaces
  <2>3. locals \in Locals
    BY <2>2, HandlerTypes, WithCommandType DEF Locals
  <2>4. TypeOK'
    BY <1>1, <2>1, <2>3 DEF TypeOK, CommandPlaces
  <2>5. \A o \in Handlers \ {h} : pc'[o] = pc[o] /\ work'[o] = work[o]
    BY <2>1 DEF TypeOK
  <2>6. /\ pc'[h] = "compare" /\ work'[h].item = work[h].item /\ work'[h].member = work[h].member
        /\ work'[h].expected = doc.version /\ work'[h].current = work[h].current
        /\ work'[h].payload = WithCommand(doc.payload, work[h].item)
    BY <2>1, HandlerTypes DEF TypeOK, Locals
  <2>7. WorkFits(h)'
    BY <2>2, <2>6 DEF WorkFits, PutPlaces, CommandPlaces
  <2>8. ReadsAreOld(h)'
    BY <1>1, <1>2, <2>2, <2>6, HandlerTypes, WithCommandType DEF ReadsAreOld, PutPlaces
  <2> QED BY <1>1, <2>4, <2>5, <2>7, <2>8, LocalStep
<1>4. CASE CompareForCommand(h)
  <2>1. /\ pc[h] = "compare" /\ work[h].expected \in {0, doc.version} /\ pc' = [pc EXCEPT ![h] = "store"]
        /\ work' = [work EXCEPT ![h] = [work[h] EXCEPT !.current = doc.version]]
    BY <1>4 DEF CompareForCommand, Continue, CommandMatches
  <2>2. [work[h] EXCEPT !.current = doc.version] \in Locals
    BY HandlerTypes DEF Locals
  <2>3. TypeOK'
    BY <1>1, <2>1, <2>2 DEF TypeOK, CommandPlaces
  <2>4. \A o \in Handlers \ {h} : pc'[o] = pc[o] /\ work'[o] = work[o]
    BY <2>1 DEF TypeOK
  <2>5. /\ pc'[h] = "store" /\ work'[h].item = work[h].item /\ work'[h].member = work[h].member
        /\ work'[h].expected = work[h].expected /\ work'[h].current = doc.version /\ work'[h].payload = work[h].payload
    BY <2>1, HandlerTypes DEF TypeOK, Locals
  <2>6. WorkFits(h)'
    BY <1>2, <2>1, <2>5 DEF WorkFits, PutPlaces, CommandPlaces
  <2>7. ReadsAreOld(h)'
    BY <1>1, <1>2, <2>1, <2>5, HandlerTypes DEF ReadsAreOld, PutPlaces
  <2> QED BY <1>1, <2>3, <2>4, <2>6, <2>7, LocalStep
<1>5. CASE RetryCommand(h) /\ work[h].tries + 1 < MaxTries
  <2> DEFINE locals == [NoWork EXCEPT !.item = work[h].item, !.tries = work[h].tries + 1]
  <2>1. pc[h] \in {"compare", "store"} /\ pc' = [pc EXCEPT ![h] = "command"] /\ work' = [work EXCEPT ![h] = locals]
    BY <1>5 DEF RetryCommand, Continue
  <2>2. work[h].item \in Commands
    BY <1>2, <2>1 DEF WorkFits, CommandPlaces
  <2>3. locals \in Locals
    <3>1. work[h].tries + 1 \in Nat
      BY HandlerTypes
    <3> QED BY <2>2, <3>1 DEF Locals, NoWork, Empty, Payloads
  <2>4. TypeOK'
    BY <1>1, <2>1, <2>3 DEF TypeOK, CommandPlaces
  <2>5. \A o \in Handlers \ {h} : pc'[o] = pc[o] /\ work'[o] = work[o]
    BY <2>1 DEF TypeOK
  <2>6. pc'[h] = "command" /\ work'[h].item = work[h].item /\ ~work'[h].member /\ work'[h].expected = 0 /\ work'[h].current = 0
    BY <2>1 DEF TypeOK, NoWork
  <2>7. WorkFits(h)' /\ ReadsAreOld(h)'
    BY <1>1, <2>2, <2>6, HandlerTypes DEF WorkFits, ReadsAreOld, PutPlaces, CommandPlaces
  <2> QED BY <1>1, <2>4, <2>5, <2>7, LocalStep
<1>6. CASE RetryCommand(h) /\ ~(work[h].tries + 1 < MaxTries)
  <2>1. Done(h) /\ pc[h] # "idle"
    BY <1>6 DEF RetryCommand
  <2>2. answers' \in [Edits -> SUBSET {"ok", "reused", "conflict"}]
    BY <1>1 DEF TypeOK
  <2> QED BY <1>1, <2>1, <2>2, EndStep
<1> QED BY <1>3, <1>4, <1>5, <1>6

-----------------------------------------------------------------------------
\* What a write does to everybody else: their versions have passed.
LEMMA WriteStep ==
  ASSUME DocumentInv, NEW h \in Handlers, Write(h), Done(h), draft' = draft
  PROVE  /\ doc' \in Document /\ doc'.version = doc.version + 1 /\ doc'.payload = work[h].payload
         /\ pc'[h] = "idle" /\ \A o \in Handlers \ {h} : pc'[o] = pc[o] /\ work'[o] = work[o]
         /\ \A o \in Handlers : WorkFits(o)' /\ ReadsAreOld(o)'
         /\ \A e \in Edits : DraftIsOld(e)'
<1> USE DEF DocumentInv
<1>1. doc' \in Document /\ doc'.version = doc.version + 1 /\ doc'.payload = work[h].payload
  BY HandlerTypes DEF Write, Document
<1>2. /\ pc'[h] = "idle" /\ work'[h] = NoWork
      /\ \A o \in Handlers \ {h} : pc'[o] = pc[o] /\ work'[o] = work[o]
  BY DEF Done, Continue, TypeOK
<1>3. WorkFits(h)' /\ ReadsAreOld(h)'
  BY <1>1, <1>2, HandlerTypes DEF WorkFits, ReadsAreOld, NoWork, PutPlaces, CommandPlaces
<1>4. \A o \in Handlers \ {h} : WorkFits(o)'
  BY <1>2 DEF WorkFits, Drafted
<1>5. \A o \in Handlers \ {h} : ReadsAreOld(o)'
  <2> SUFFICES ASSUME NEW o \in Handlers \ {h} PROVE ReadsAreOld(o)'
    OBVIOUS
  <2>1. /\ work[o].expected <= doc.version /\ work[o].current <= doc.version
        /\ work[o].expected \in Nat /\ work[o].current \in Nat /\ doc.version \in Nat
    BY HandlerTypes DEF ReadsAreOld
  <2> QED BY <1>1, <1>2, <2>1 DEF ReadsAreOld
<1>6. \A e \in Edits : DraftIsOld(e)'
  BY <1>1, EditTypes DEF DraftIsOld, Drafted
<1> QED BY <1>1, <1>2, <1>3, <1>4, <1>5, <1>6

\* A put commits: its edit had not been written, and what had been is in its draft.
LEMMA CommitStep ==
  ASSUME DocumentInv, NEW h \in Handlers, CommitPut(h)
  PROVE  DocumentInv'
<1> USE DEF DocumentInv
<1>1. PICK e \in Edits : e = work[h].item
  BY DEF CommitPut, WorkFits, PutPlaces
<1>2. /\ pc[h] = "write" /\ Write(h) /\ Done(h) /\ draft' = draft /\ doc.version = work[h].current
      /\ key' = [key EXCEPT ![e] = [state |-> "live", payload |-> work[h].payload]]
      /\ applied' = [applied EXCEPT ![e] = applied[e] + 1]
      /\ tabled' \in {tabled, tabled \cup {e}}
      /\ answers' = [answers EXCEPT ![e] = answers[e] \cup {"ok"}]
      /\ member' = member /\ flips' = flips /\ expiries' = expiries /\ blind' = blind
  BY <1>1 DEF CommitPut, StillCurrent, Answer, account
<1>3. /\ doc' \in Document /\ doc'.version = doc.version + 1 /\ doc'.payload = work[h].payload
      /\ \A o \in Handlers : WorkFits(o)' /\ ReadsAreOld(o)'
      /\ \A f \in Edits : DraftIsOld(f)'
  BY <1>2, WriteStep
<1>4. /\ Drafted(e) /\ draft[e].version = doc.version
      /\ work[h].payload.settings = draft[e].payload.settings
  BY <1>1, <1>2 DEF WorkFits, PutPlaces
<1>5. doc.payload.settings \subseteq doc'.payload.settings /\ e \in doc'.payload.settings
  BY <1>3, <1>4 DEF DraftIsOld, Drafted
<1>6. applied[e] = 0
  BY <1>4, EditTypes DEF WrittenHavePassed
<1>7. applied'[e] = 1 /\ \A f \in Edits \ {e} : applied'[f] = applied[f]
  BY <1>2, <1>6 DEF TypeOK
<1>8. TypeOK'
  <2>1. pc' = [pc EXCEPT ![h] = "idle"] /\ work' = [work EXCEPT ![h] = NoWork]
    BY <1>2 DEF Done, Continue
  <2>2. pc' \in [Handlers -> {"idle"} \cup PutPlaces \cup CommandPlaces] /\ work' \in [Handlers -> Locals]
    BY <2>1, EmptyTypes DEF TypeOK
  <2>3. [state |-> "live", payload |-> work[h].payload] \in Keys
    BY HandlerTypes DEF Keys
  <2>4. key' \in [Edits -> Keys] /\ applied' \in [Edits -> Nat] /\ answers' \in [Edits -> SUBSET {"ok", "reused", "conflict"}]
    BY <1>2, <1>6, <2>3 DEF TypeOK
  <2> QED BY <1>2, <1>3, <2>2, <2>4 DEF TypeOK
<1>9. WrittenHavePassed'
  BY <1>2, <1>3, <1>4, <1>7, EditTypes DEF WrittenHavePassed, Drafted
<1>10. AppliedOnce' /\ NoLostEdit'
  BY <1>2, <1>5, <1>7 DEF AppliedOnce, NoLostEdit
<1> QED BY <1>3, <1>8, <1>9, <1>10

\* A command is stored: what it replaces is in it, or it was written blindly.
LEMMA StoreStep ==
  ASSUME DocumentInv, NEW h \in Handlers, StoreCommand(h)
  PROVE  DocumentInv'
<1> USE DEF DocumentInv
<1>1. /\ pc[h] = "store" /\ Write(h) /\ Done(h) /\ draft' = draft
      /\ blind' = (blind \/ work[h].expected # doc.version)
      /\ key' = key /\ applied' = applied /\ tabled' = tabled /\ answers' = answers
      /\ member' = member /\ flips' = flips /\ expiries' = expiries
  BY DEF StoreCommand, account, keys
<1>2. /\ doc' \in Document /\ doc'.version = doc.version + 1 /\ doc'.payload = work[h].payload
      /\ \A o \in Handlers : WorkFits(o)' /\ ReadsAreOld(o)'
      /\ \A f \in Edits : DraftIsOld(f)'
  BY <1>1, WriteStep
<1>3. ~blind' => ~blind /\ doc.payload.settings \subseteq doc'.payload.settings
  BY <1>1, <1>2 DEF ReadsAreOld
<1>4. TypeOK'
  <2>1. pc' = [pc EXCEPT ![h] = "idle"] /\ work' = [work EXCEPT ![h] = NoWork]
    BY <1>1 DEF Done, Continue
  <2>2. pc' \in [Handlers -> {"idle"} \cup PutPlaces \cup CommandPlaces] /\ work' \in [Handlers -> Locals]
    BY <2>1, EmptyTypes DEF TypeOK
  <2>3. blind' \in BOOLEAN
    BY <1>1 DEF TypeOK
  <2> QED BY <1>1, <1>2, <2>2, <2>3 DEF TypeOK
<1>5. WrittenHavePassed' /\ AppliedOnce'
  BY <1>1, <1>2, EditTypes DEF WrittenHavePassed, AppliedOnce, Drafted
<1>6. NoLostEdit'
  BY <1>1, <1>3 DEF NoLostEdit
<1> QED BY <1>2, <1>4, <1>5, <1>6

LEMMA NextDocument == DocumentInv /\ [Next]_vars => DocumentInv'
<1> SUFFICES ASSUME DocumentInv, [Next]_vars PROVE DocumentInv'
  OBVIOUS
<1>1. CASE Flip \/ CleanKeys \/ (\E e \in Edits : ExpireKey(e)) \/ UNCHANGED vars
  BY <1>1, OutsideStep
<1>2. CASE \E e \in Edits : Pull(e)
  BY <1>2, PullStep
<1>3. ASSUME NEW h \in Handlers,
             (\E e \in Edits : PutArrives(h, e)) \/ (\E k \in Commands : CommandArrives(h, k)) \/ Handle(h) \/ Cancel(h)
      PROVE  DocumentInv'
  BY <1>3, ArrivalStep, PutStep, CommandStep, AnswerStep, CommitStep, StoreStep DEF Handle
<1> QED BY <1>1, <1>2, <1>3 DEF Next

\* Who changes the document writes it, and what it writes has the timetable it found: it was read
\* at the version that is replaced.
LEMMA TimetableStep ==
  ASSUME DocumentInv, [Next]_vars, NEW h \in Handlers, WriterOf(h), ~work[h].member, ~blind'
  PROVE  doc'.payload.timetable = doc.payload.timetable
<1> USE DEF DocumentInv
<1>1. PICK o \in Handlers : CommitPut(o) \/ StoreCommand(o)
  <2>1. doc' # doc
    BY DEF WriterOf
  <2> QED BY <2>1 DEF Next, vars, Flip, CleanKeys, ExpireKey, Pull, PutArrives, CommandArrives, Handle, Cancel,
            Merge, ReplayAnswer, NoKeyFound, ReadVersion, Conflict, ReadForCommand, CompareForCommand, RetryCommand
<1>2. Done(o) /\ Write(o) /\ StillCurrent(o)
  BY <1>1 DEF CommitPut, StoreCommand, Answer
<1>3. o = h
  BY <1>2 DEF WriterOf, Done, Continue, TypeOK
<1>4. doc'.payload = work[h].payload
  BY <1>2, <1>3 DEF Write
<1>5. CASE CommitPut(h)
  <2>1. pc[h] = "write" /\ work[h].expected = doc.version
    BY <1>2, <1>3, <1>5 DEF CommitPut, StillCurrent, WorkFits
  <2> QED BY <1>4, <2>1 DEF ReadsAreOld, PutPlaces
<1>6. CASE StoreCommand(h)
  <2>1. pc[h] = "store" /\ work[h].expected = doc.version
    BY <1>6 DEF StoreCommand
  <2> QED BY <1>4, <2>1 DEF ReadsAreOld
<1> QED BY <1>1, <1>3, <1>5, <1>6

\* Keys are kept, and success is answered, only for what has been written.
LEMMA AcknowledgedStep ==
  ASSUME DocumentInv, KeysAreWritten, AcknowledgedIsWritten, [Next]_vars
  PROVE  KeysAreWritten' /\ AcknowledgedIsWritten'
<1> USE DEF DocumentInv
<1>1. CASE UNCHANGED <<key, answers, applied>>
  BY <1>1 DEF KeysAreWritten, AcknowledgedIsWritten
<1>2. ASSUME CleanKeys \/ \E e \in Edits : ExpireKey(e) PROVE KeysAreWritten' /\ AcknowledgedIsWritten'
  <2>1. answers' = answers /\ applied' = applied
    BY <1>2 DEF CleanKeys, ExpireKey, history
  <2>2. \A e \in Edits : key'[e].state # "none" => key[e].state # "none"
    <3>1. CASE CleanKeys BY <3>1 DEF CleanKeys, NoKey
    <3>2. ASSUME NEW e \in Edits, ExpireKey(e), NEW f \in Edits, key'[f].state # "none" PROVE key[f].state # "none"
      BY <3>2 DEF ExpireKey, TypeOK
    <3> QED BY <1>2, <3>1, <3>2
  <2> QED BY <2>1, <2>2 DEF KeysAreWritten, AcknowledgedIsWritten
<1>3. ASSUME NEW h \in Handlers, ReplayAnswer(h) \/ Conflict(h) PROVE KeysAreWritten' /\ AcknowledgedIsWritten'
  <2>1. key' = key /\ applied' = applied /\ work[h].item \in Edits
    BY <1>3 DEF ReplayAnswer, Conflict, keys, WorkFits, PutPlaces
  <2>2. PICK a \in {"ok", "reused", "conflict"} :
          answers' = [answers EXCEPT ![work[h].item] = answers[work[h].item] \cup {a}]
          /\ (a = "ok" => applied[work[h].item] >= 1)
    BY <1>3, <2>1 DEF ReplayAnswer, Conflict, ConflictAnswer, Answer, KeyOf, KeysAreWritten
  <2>3. \A e \in Edits : "ok" \in answers'[e] => "ok" \in answers[e] \/ applied[e] >= 1
    BY <2>1, <2>2 DEF TypeOK
  <2> QED BY <2>1, <2>3 DEF KeysAreWritten, AcknowledgedIsWritten
<1>4. ASSUME NEW h \in Handlers, CommitPut(h) PROVE KeysAreWritten' /\ AcknowledgedIsWritten'
  <2> DEFINE e == work[h].item
  <2>1. e \in Edits
    BY <1>4 DEF CommitPut, WorkFits, PutPlaces
  <2>2. /\ key' = [key EXCEPT ![e] = [state |-> "live", payload |-> work[h].payload]]
        /\ applied' = [applied EXCEPT ![e] = applied[e] + 1]
        /\ answers' = [answers EXCEPT ![e] = answers[e] \cup {"ok"}]
    BY <1>4 DEF CommitPut, Answer
  <2> HIDE DEF e
  <2>3. applied'[e] >= 1
    BY <2>1, <2>2, EditTypes DEF TypeOK
  <2>4. \A f \in Edits \ {e} : key'[f] = key[f] /\ applied'[f] = applied[f] /\ answers'[f] = answers[f]
    BY <2>2 DEF TypeOK
  <2> QED BY <2>3, <2>4 DEF KeysAreWritten, AcknowledgedIsWritten
<1>5. QED
  <2>1. ASSUME NEW h \in Handlers, Handle(h), ~ReplayAnswer(h), ~Conflict(h), ~CommitPut(h)
        PROVE  UNCHANGED <<key, answers, applied>>
    BY <2>1 DEF Handle, Merge, NoKeyFound, ReadVersion, ReadForCommand, CompareForCommand, StoreCommand, RetryCommand,
       keys, history
  <2>2. ASSUME Flip \/ UNCHANGED vars \/ \E e \in Edits : Pull(e) PROVE UNCHANGED <<key, answers, applied>>
    BY <2>2 DEF Flip, Pull, vars, keys, history
  <2>3. ASSUME NEW h \in Handlers,
               Cancel(h) \/ (\E e \in Edits : PutArrives(h, e)) \/ \E k \in Commands : CommandArrives(h, k)
        PROVE  UNCHANGED <<key, answers, applied>>
    BY <2>3 DEF Cancel, PutArrives, CommandArrives, keys, history
  <2> QED BY <1>1, <1>2, <1>3, <1>4, <2>1, <2>2, <2>3 DEF Next

\* The inductive invariant holds for any edits, commands and handlers.
THEOREM DocumentInvariant == Spec => []DocumentInv
BY InitDocument, NextDocument, PTL DEF Spec

\* However often a put is sent again, and whenever its key expires, it is written once.
THEOREM WrittenOnce == Spec => []AppliedOnce
<1>1. DocumentInv => AppliedOnce
  BY DEF DocumentInv
<1> QED BY <1>1, DocumentInvariant, PTL

\* No write loses an edit that was written before, but for a command's blind one.
THEOREM EditsSurvive == Spec => []NoLostEdit
<1>1. DocumentInv => NoLostEdit
  BY DEF DocumentInv
<1> QED BY <1>1, DocumentInvariant, PTL

\* What a non-member puts, and a command, leaves the timetable in the document as it was.
THEOREM OnlyMembersChangeTimetable == Spec => TimetableKept
<1>1. DocumentInv /\ [Next]_vars =>
        [\A h \in Handlers : WriterOf(h) /\ ~work[h].member /\ ~blind' => doc'.payload.timetable = doc.payload.timetable]_vars
  BY TimetableStep
<1> QED BY <1>1, DocumentInvariant, PTL DEF Spec, TimetableKept

\* A client that was answered success can rely on its edit having been written.
THEOREM AcknowledgedEditsWritten == Spec => []AcknowledgedIsWritten
<1>1. Init => KeysAreWritten /\ AcknowledgedIsWritten
  BY DEF Init, KeysAreWritten, AcknowledgedIsWritten, NoKey
<1>2. DocumentInv /\ KeysAreWritten /\ AcknowledgedIsWritten /\ [Next]_vars => (KeysAreWritten /\ AcknowledgedIsWritten)'
  BY AcknowledgedStep
<1> QED BY <1>1, <1>2, DocumentInvariant, PTL DEF Spec
=============================================================================
