----------------------------- MODULE CloudDocument -----------------------------
(***************************************************************************)
(* The cloud document of one account (handlers_cloud.go, store/cloud.go):  *)
(* clients pull it with its version as ETag, edit it and put it back with  *)
(* If-Match and an Idempotency-Key; the server merges what non-members put *)
(* and itself adds commands for the app.  Requests are handled             *)
(* concurrently, and a client may send one again at any time, because its  *)
(* answer was late or lost.                                                *)
(*                                                                         *)
(* A document stands for the edits it contains: in the records of the      *)
(* domains everybody may sync ("settings", with the commands), in the list *)
(* of their changes, and in the records and changes of the timetable, for  *)
(* members only.  Clients add and never remove.                            *)
(***************************************************************************)
EXTENDS Naturals, FiniteSets

CONSTANTS
  Edits,     \* one per edit of a client: a document to put, under an Idempotency-Key of its own
  Commands,  \* requests for a test notification in the app
  Handlers,  \* requests handled at the same time
  MaxTries,  \* how often a command is tried (4 in the code)
  MaxFlips,  \* bound: membership granted or expired
  MaxExpiry, \* bound: idempotency keys that expire
  None       \* what an idle handler works for

ASSUME KindsAssumption == Edits \cap Commands = {} /\ None \notin Edits \cup Commands
ASSUME BoundsAssumption == MaxTries \in Nat \ {0} /\ MaxFlips \in Nat /\ MaxExpiry \in Nat

VARIABLES
  member, flips,    \* the membership has not expired; how often that has changed
  doc,              \* cloud_documents: version (0: no row) and payload
  key, expiries,    \* idempotency_keys of each edit; how many have expired
  draft,            \* what each edit's client has made of the document it pulled
  pc, work,         \* where each handler is, and its locals
  applied, tabled,  \* history: commits of each edit, and the edits a member's request committed
  blind,            \* history: a command's write replaced a document that it had not read
  answers           \* history: the answers to each edit's requests

account == <<member, flips>>
keys    == <<key, expiries>>
history == <<applied, tabled, blind, answers>>
vars    == <<account, doc, keys, draft, pc, work, history>>

Payloads == [settings : SUBSET (Edits \cup Commands), timetable : SUBSET Edits, changes : SUBSET (Edits \cup Commands)]
Empty    == [settings |-> {}, timetable |-> {}, changes |-> {}]  \* emptyCloudDocumentV2
Document == [version : Nat, payload : Payloads]
NoDoc    == [version |-> 0, payload |-> Empty]

NoKey == [state |-> "none", payload |-> Empty]
Keys  == [state : {"none", "live", "expired"}, payload : Payloads]

\* A handler's locals: whom it works for, membership as it read it, payload to write, version
\* expected and version found, attempts.
Locals == [item : Edits \cup Commands \cup {None}, member : BOOLEAN, payload : Payloads, expected : Nat, current : Nat, tries : Nat]
NoWork == [item |-> None, member |-> FALSE, payload |-> Empty, expected |-> 0, current |-> 0, tries |-> 0]

Init ==
  /\ member \in BOOLEAN /\ flips = 0
  /\ doc = NoDoc
  /\ key = [e \in Edits |-> NoKey] /\ expiries = 0
  /\ draft = [e \in Edits |-> NoDoc]
  /\ pc = [h \in Handlers |-> "idle"]
  /\ work = [h \in Handlers |-> NoWork]
  /\ applied = [e \in Edits |-> 0] /\ tabled = {} /\ blind = FALSE
  /\ answers = [e \in Edits |-> {}]

-----------------------------------------------------------------------------
\* Membership is bought and expires (at any time: it is compared with the clock).
Flip ==
  /\ flips < MaxFlips
  /\ member' = ~member /\ flips' = flips + 1
  /\ UNCHANGED <<doc, keys, draft, pc, work, history>>

ExpireKey(e) ==
  /\ key[e].state = "live" /\ expiries < MaxExpiry
  /\ key' = [key EXCEPT ![e].state = "expired"] /\ expiries' = expiries + 1
  /\ UNCHANGED <<account, doc, draft, pc, work, history>>

\* CleanupExpiredSecurityData, run by the worker every minute.
CleanKeys ==
  /\ \E e \in Edits : key[e].state = "expired"
  /\ key' = [e \in Edits |-> IF key[e].state = "expired" THEN NoKey ELSE key[e]]
  /\ UNCHANGED <<account, doc, expiries, draft, pc, work, history>>

\* getCloudDocument: whoever is no member gets the document without its timetable, under the same
\* ETag.  The client adds its edit.
Drafted(e) == e \in draft[e].payload.settings

Pull(e) ==
  /\ ~Drafted(e)
  /\ draft' = [draft EXCEPT ![e] =
       [version |-> doc.version,
        payload |-> [settings  |-> doc.payload.settings \cup {e},
                     timetable |-> (IF member THEN doc.payload.timetable ELSE {}) \cup {e},
                     changes   |-> doc.payload.changes \cup {e}]]]
  /\ UNCHANGED <<account, doc, keys, pc, work, history>>

-----------------------------------------------------------------------------
Continue(h, at, locals) ==
  /\ pc'   = [pc EXCEPT ![h] = at]
  /\ work' = [work EXCEPT ![h] = locals]

\* The request is answered; a transaction that has not committed is rolled back.
Done(h) == Continue(h, "idle", NoWork)
Answer(h, a) ==
  /\ answers' = [answers EXCEPT ![work[h].item] = @ \cup {a}]
  /\ Done(h)

\* putCloudDocument reads the membership first, and goes by it from then on.
PutArrives(h, e) ==
  /\ pc[h] = "idle" /\ Drafted(e)
  /\ Continue(h, IF member THEN "key" ELSE "merge",
       [NoWork EXCEPT !.item = e, !.member = member, !.payload = draft[e].payload, !.expected = draft[e].version])
  /\ UNCHANGED <<account, doc, keys, draft, history>>

\* mergeSettingsCloudDocument: the settings are replaced, their changes united, the timetable kept,
\* records and changes alike.
MergedWithTimetable(current, incoming) ==
  [settings  |-> incoming.settings,
   timetable |-> incoming.timetable,
   changes   |-> current.changes \cup incoming.changes]
Merged(current, incoming) ==
  [settings  |-> incoming.settings,
   timetable |-> current.timetable,
   changes   |-> current.changes \cup incoming.changes]

\* The document is read and merged before the transaction that writes it.
Merge(h) ==
  /\ pc[h] = "merge"
  /\ Continue(h, "key", [work[h] EXCEPT !.payload = Merged(doc.payload, @)])
  /\ UNCHANGED <<account, doc, keys, draft, history>>

\* The key is looked up, before the transaction and again in it: the later look finds whatever
\* the earlier one did, or an expired key.
KeyOf(h) == key[work[h].item]

ReplayAnswer(h) ==
  /\ pc[h] = "key" /\ KeyOf(h).state = "live"
  /\ Answer(h, IF KeyOf(h).payload = work[h].payload THEN "ok" ELSE "reused")
  /\ UNCHANGED <<account, doc, keys, draft, applied, tabled, blind>>

NoKeyFound(h) ==
  /\ pc[h] = "key" /\ KeyOf(h).state # "live"
  /\ Continue(h, "read", work[h])
  /\ UNCHANGED <<account, doc, keys, draft, history>>

\* The document is read in the transaction and its version compared with If-Match.
VersionMatchesUnchecked(h) == TRUE
VersionMatches(h) == doc.version = work[h].expected

ReadVersion(h) ==
  /\ pc[h] = "read" /\ VersionMatches(h)
  /\ Continue(h, "write", [work[h] EXCEPT !.current = doc.version])
  /\ UNCHANGED <<account, doc, keys, draft, history>>

\* UPDATE ... WHERE version = the version read, or the INSERT of the first document, then the
\* INSERT of the key, audit and event, and commit.  From its first write on, the row's lock keeps
\* every other writer of the document out.
StillCurrentUnchecked(h) == TRUE
StillCurrent(h) == doc.version = work[h].current

Write(h) == doc' = [version |-> doc.version + 1, payload |-> work[h].payload]

CommitPut(h) ==
  /\ pc[h] = "write" /\ StillCurrent(h) /\ KeyOf(h).state = "none"
  /\ Write(h)
  /\ key' = [key EXCEPT ![work[h].item] = [state |-> "live", payload |-> work[h].payload]]
  /\ applied' = [applied EXCEPT ![work[h].item] = @ + 1]
  /\ tabled' = IF work[h].member THEN tabled \cup {work[h].item} ELSE tabled
  /\ Answer(h, "ok")
  /\ UNCHANGED <<account, expiries, draft, blind>>

\* 412: another version, no row to update, a first document that exists, a key that is still there.
ConflictAnswerUnchecked(h) == IF pc[h] = "write" /\ ~StillCurrent(h) THEN "ok" ELSE "conflict"
ConflictAnswer(h)          == "conflict"

Conflict(h) ==
  /\ \/ pc[h] = "read" /\ ~VersionMatches(h)
     \/ pc[h] = "write" /\ (~StillCurrent(h) \/ KeyOf(h).state # "none")
  /\ Answer(h, ConflictAnswer(h))
  /\ UNCHANGED <<account, doc, keys, draft, applied, tabled, blind>>

-----------------------------------------------------------------------------
\* enqueueAppBriefingTestCommand: read the document, add the command, PutCloudDocument.  Each
\* request's command has an id of its own.
CommandArrives(h, k) ==
  /\ pc[h] = "idle"
  /\ k \notin doc.payload.settings /\ \A o \in Handlers : work[o].item # k
  /\ Continue(h, "command", [NoWork EXCEPT !.item = k])
  /\ UNCHANGED <<account, doc, keys, draft, history>>

\* appendAppCommand.
WithCommand(p, k) == [p EXCEPT !.settings = @ \cup {k}, !.changes = @ \cup {k}]

ReadForCommand(h) ==
  /\ pc[h] = "command"
  /\ Continue(h, "compare", [work[h] EXCEPT !.payload = WithCommand(doc.payload, work[h].item), !.expected = doc.version])
  /\ UNCHANGED <<account, doc, keys, draft, history>>

\* PutCloudDocument reads the version once more; 0 expected (no document, as read before) matches
\* any.
CommandMatches(h) == work[h].expected = 0 \/ doc.version = work[h].expected

CompareForCommand(h) ==
  /\ pc[h] = "compare" /\ CommandMatches(h)
  /\ Continue(h, "store", [work[h] EXCEPT !.current = doc.version])
  /\ UNCHANGED <<account, doc, keys, draft, history>>

StoreCommand(h) ==
  /\ pc[h] = "store" /\ StillCurrent(h)
  /\ Write(h)
  /\ blind' = (blind \/ work[h].expected # doc.version)
  /\ Done(h)
  /\ UNCHANGED <<account, keys, draft, applied, tabled, answers>>

\* A conflict: the whole is tried again, MaxTries times in all.
RetryCommand(h) ==
  /\ \/ pc[h] = "compare" /\ ~CommandMatches(h)
     \/ pc[h] = "store" /\ ~StillCurrent(h)
  /\ IF work[h].tries + 1 < MaxTries
     THEN Continue(h, "command", [NoWork EXCEPT !.item = work[h].item, !.tries = work[h].tries + 1])
     ELSE Done(h)
  /\ UNCHANGED <<account, doc, keys, draft, history>>

\* The client goes away, or the process dies.
Cancel(h) ==
  /\ pc[h] # "idle"
  /\ Done(h)
  /\ UNCHANGED <<account, doc, keys, draft, history>>

-----------------------------------------------------------------------------
Handle(h) ==
  \/ Merge(h) \/ ReplayAnswer(h) \/ NoKeyFound(h) \/ ReadVersion(h) \/ CommitPut(h) \/ Conflict(h)
  \/ ReadForCommand(h) \/ CompareForCommand(h) \/ StoreCommand(h) \/ RetryCommand(h)

Next ==
  \/ Flip \/ CleanKeys
  \/ \E e \in Edits : ExpireKey(e) \/ Pull(e)
  \/ \E h \in Handlers :
       \/ \E e \in Edits : PutArrives(h, e)
       \/ \E k \in Commands : CommandArrives(h, k)
       \/ Handle(h) \/ Cancel(h)

Spec == Init /\ [][Next]_vars

-----------------------------------------------------------------------------
PutPlaces     == {"merge", "key", "read", "write"}
CommandPlaces == {"command", "compare", "store"}

TypeOK ==
  /\ member \in BOOLEAN /\ flips \in Nat /\ expiries \in Nat
  /\ doc \in Document
  /\ key \in [Edits -> Keys]
  /\ draft \in [Edits -> Document]
  /\ pc \in [Handlers -> {"idle"} \cup PutPlaces \cup CommandPlaces]
  /\ work \in [Handlers -> Locals]
  /\ applied \in [Edits -> Nat] /\ tabled \subseteq Edits /\ blind \in BOOLEAN
  /\ answers \in [Edits -> SUBSET {"ok", "reused", "conflict"}]

\* A request that is sent again, after its answer was lost or while the first is still handled,
\* is written once: even when its Idempotency-Key has expired in between.
AppliedOnce == \A e \in Edits : applied[e] <= 1

\* Once written, an edit stays in the document through everything other clients and the server
\* write, unless a command was written over a document that came into being after it had found
\* none (PutCloudDocument with nothing expected).
NoLostEdit == \A e \in Edits : applied[e] > 0 /\ ~blind => e \in doc.payload.settings

\* A client that was told that its edit is in the document can rely on it, whether its put was written
\* now or an answer was given again for its key: success means that the edit has been written.
AcknowledgedIsWritten == \A e \in Edits : "ok" \in answers[e] => applied[e] >= 1

\* What a non-member puts, and a command, never changes the timetable in the document: although
\* the timetable written was read before the transaction began, nobody else's is undone.
WriterOf(h) == pc[h] \in {"write", "store"} /\ pc'[h] = "idle" /\ doc' # doc
TimetableKept ==
  [][\A h \in Handlers : WriterOf(h) /\ ~work[h].member /\ ~blind' => doc'.payload.timetable = doc.payload.timetable]_vars

\* The inductive invariant.  A handler works for what its place says, with the version its request
\* named; a write follows a comparison.
WorkFits(h) ==
  /\ pc[h] = "idle" => work[h] = NoWork
  /\ pc[h] \in PutPlaces =>
       /\ work[h].item \in Edits /\ Drafted(work[h].item)
       /\ work[h].expected = draft[work[h].item].version
       /\ work[h].payload.settings = draft[work[h].item].payload.settings
  /\ pc[h] = "merge" => ~work[h].member
  /\ pc[h] \in CommandPlaces => work[h].item \in Commands /\ ~work[h].member
  /\ pc[h] = "write" => work[h].current = work[h].expected
  /\ pc[h] = "store" => work[h].expected \in {0, work[h].current}

\* What was read at a version is as old as that version, and current while the version is: a draft,
\* a merged payload, a document with a command added.
DraftIsOld(e) ==
  /\ draft[e].version <= doc.version
  /\ Drafted(e) /\ draft[e].version = doc.version => doc.payload.settings \subseteq draft[e].payload.settings
ReadsAreOld(h) ==
  /\ work[h].expected <= doc.version /\ work[h].current <= doc.version
  /\ pc[h] \in PutPlaces \ {"merge"} /\ ~work[h].member /\ work[h].expected = doc.version =>
       work[h].payload.timetable = doc.payload.timetable
  /\ pc[h] \in {"compare", "store"} /\ work[h].expected = doc.version =>
       doc.payload.settings \subseteq work[h].payload.settings /\ work[h].payload.timetable = doc.payload.timetable

\* An edit that was written was drafted from a version that has passed.
WrittenHavePassed ==
  \A e \in Edits : applied[e] > 0 => Drafted(e) /\ draft[e].version < doc.version

DocumentInv ==
  /\ TypeOK
  /\ \A h \in Handlers : WorkFits(h) /\ ReadsAreOld(h)
  /\ \A e \in Edits : DraftIsOld(e)
  /\ WrittenHavePassed
  /\ AppliedOnce
  /\ NoLostEdit

\* A key is kept for what was written only.
KeysAreWritten == \A e \in Edits : key[e].state # "none" => applied[e] >= 1

\* Claimed by the documentation: the timetable in the document is kept, whether or not the account
\* is a member's at the moment; so what a member has put there stays.
TimetableEditsSurvive == \A e \in tabled : e \in doc.payload.timetable
=============================================================================
