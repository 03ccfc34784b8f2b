-------------------------- MODULE OneTimeCodesProofs --------------------------
(***************************************************************************)
(* Proofs about OneTimeCodes, for any codes, accounts and handlers: the    *)
(* inductive invariant CodesInv, that a code is accepted once and replaced *)
(* codes are over, and that a device belongs to who approved it.           *)
(***************************************************************************)
EXTENDS OneTimeCodes, TLAPS

\* What every step does to a row: it is never unknown again, what is over stays over, an approved
\* device is not open again, and the account of a row is settled.
Advances ==
  \A c \in Codes :
    /\ code[c] # "none" => code'[c] # "none"
    /\ Over(c) => Over(c)'
    /\ code[c] \notin {"none", "open"} => code'[c] # "open" /\ holder'[c] = holder[c]
    /\ c \in Mailed /\ code[c] # "none" => holder'[c] = holder[c]

\* What AcceptedOnce asks of a step.
AcceptsOnce ==
  \A c \in Codes :
    /\ granted'[c] # granted[c] => ~Over(c) /\ Over(c)'
    /\ Over(c) => Over(c)'

HandlersFit == (\A o \in Handlers : HandlerFits(o) /\ BeforeCovered(o)) /\ IssuedAlone
RowsFit     == (\A c \in Codes : RowTells(c)) /\ OlderCodesAreOver /\ ApprovalHolds

\* The parts of the invariant, before and after a step.
LEMMA InvParts == TypeOK /\ HandlersFit /\ RowsFit => CodesInv
BY DEF CodesInv, HandlersFit, RowsFit

LEMMA InvPartsNext == TypeOK' /\ HandlersFit' /\ RowsFit' => CodesInv'
BY DEF CodesInv, HandlersFit, RowsFit

LEMMA NoWorkType == NoWork \in Locals
BY DEF NoWork, Locals

LEMMA LocalTypes ==
  ASSUME TypeOK, NEW h \in Handlers
  PROVE  /\ work[h] \in Locals
         /\ Code(h) \in Codes \cup {None} /\ Account(h) \in Accounts \cup {None}
         /\ work[h].found \subseteq Codes /\ work[h].before \subseteq Codes /\ work[h].failures \in Nat
BY DEF TypeOK, Locals, Code, Account

LEMMA ContinueTypes ==
  ASSUME TypeOK, NEW h \in Handlers, NEW locals \in Locals,
         NEW at \in {"idle", "gate", "supersede", "insert", "mail", "grant", "fail", "user", "approve"},
         Continue(h, at, locals)
  PROVE  /\ pc' \in [Handlers -> {"idle", "gate", "supersede", "insert", "mail", "grant", "fail", "user", "approve"}]
         /\ work' \in [Handlers -> Locals]
         /\ pc'[h] = at /\ work'[h] = locals
         /\ \A o \in Handlers \ {h} : pc'[o] = pc[o] /\ work'[o] = work[o]
BY DEF TypeOK, Continue

\* Codes of a table with a guessed one are guessed.
LEMMA SameTableGuessed ==
  ASSUME NEW c \in Guessed, NEW d \in Codes, SameTable(c, d)
  PROVE  d \in Guessed
BY TablesAssumption DEF SameTable, Guessed, Mailed, Codes

-----------------------------------------------------------------------------
\* A handler that does not move stays as its place says while rows advance.
LEMMA OthersFit ==
  ASSUME TypeOK, Advances, NEW o \in Handlers, HandlerFits(o), BeforeCovered(o),
         pc'[o] = pc[o], work'[o] = work[o],
         Issuing(o) => code'[Code(o)] = "none"
  PROVE  HandlerFits(o)' /\ BeforeCovered(o)'
<1>1. Code(o)' = Code(o) /\ Account(o)' = Account(o) /\ Issuing(o)' = Issuing(o)
  BY DEF Code, Account, Issuing
<1>2. HandlerFits(o)'
  BY <1>1 DEF HandlerFits, Advances, Issuing, Over
<1>3. \A c \in work[o].before : c \in Mailed /\ holder'[c] = holder[c] /\ code'[c] # "none" /\ (Over(c) => Over(c)')
  BY LocalTypes, SameTableGuessed DEF BeforeCovered, Advances, Mailed
<1>4. BeforeCovered(o)'
  BY <1>1, <1>3 DEF BeforeCovered
<1> QED BY <1>2, <1>4

\* A step of one handler.
LEMMA HandlerStep ==
  ASSUME CodesInv, Advances, NEW h \in Handlers,
         \A o \in Handlers \ {h} : pc'[o] = pc[o] /\ work'[o] = work[o],
         \A c \in Codes : code[c] = "none" /\ c # Code(h) => code'[c] = "none",
         HandlerFits(h)', BeforeCovered(h)',
         \A o \in Handlers \ {h} : Issuing(h)' \/ Issuing(o) => Code(o) # Code(h)'
  PROVE  HandlersFit'
<1>1. ASSUME NEW o \in Handlers \ {h} PROVE HandlerFits(o)' /\ BeforeCovered(o)'
  <2>1. Issuing(o) => Code(o) # Code(h) /\ code[Code(o)] = "none" /\ Code(o) \in Codes
    BY DEF CodesInv, IssuedAlone, HandlerFits, Issuing
  <2>2. Issuing(o) => code'[Code(o)] = "none"
    BY <2>1
  <2> QED BY <2>2, OthersFit DEF CodesInv
<1>2. \A o \in Handlers \ {h} : Code(o)' = Code(o) /\ Issuing(o)' = Issuing(o)
  BY DEF Code, Issuing
<1>3. IssuedAlone'
  <2> SUFFICES ASSUME NEW i \in Handlers, NEW o \in Handlers, Issuing(i)', o # i PROVE Code(o)' # Code(i)'
    BY DEF IssuedAlone
  <2>1. CASE i = h
    BY <2>1, <1>2
  <2>2. CASE o = h
    BY <2>2, <1>2
  <2>3. CASE i # h /\ o # h
    BY <2>3, <1>2 DEF CodesInv, IssuedAlone
  <2> QED BY <2>1, <2>2, <2>3
<1> QED BY <1>1, <1>3 DEF HandlersFit

\* The end of a request.
LEMMA DoneStep ==
  ASSUME CodesInv, Advances, NEW h \in Handlers, Done(h),
         \A c \in Codes : code[c] = "none" /\ c # Code(h) => code'[c] = "none"
  PROVE  HandlersFit'
<1>1. /\ pc'[h] = "idle" /\ work'[h] = NoWork
      /\ \A o \in Handlers \ {h} : pc'[o] = pc[o] /\ work'[o] = work[o]
  BY NoWorkType, ContinueTypes DEF Done, CodesInv
<1>2. HandlerFits(h)' /\ BeforeCovered(h)' /\ ~Issuing(h)' /\ Code(h)' = None
  BY <1>1 DEF HandlerFits, BeforeCovered, Issuing, Code, NoWork
<1>3. \A o \in Handlers \ {h} : Issuing(o) => Code(o) # None
  BY TablesAssumption DEF CodesInv, HandlerFits, Issuing
<1> QED BY <1>1, <1>2, <1>3, HandlerStep

\* A step that moves no handler.
LEMMA NoHandlerStep ==
  ASSUME CodesInv, Advances, UNCHANGED <<pc, work>>, \A c \in Codes : code[c] = "none" => code'[c] = "none"
  PROVE  HandlersFit'
<1>1. ASSUME NEW o \in Handlers PROVE HandlerFits(o)' /\ BeforeCovered(o)'
  <2>1. Issuing(o) => code'[Code(o)] = "none"
    BY DEF CodesInv, HandlerFits, Issuing
  <2> QED BY <2>1, OthersFit DEF CodesInv
<1>2. IssuedAlone'
  BY DEF CodesInv, IssuedAlone, Issuing, Code
<1> QED BY <1>1, <1>2 DEF HandlersFit

\* A step that writes nothing.
LEMMA ReadStep ==
  ASSUME CodesInv, UNCHANGED <<rows, history>>
  PROVE  Advances /\ AcceptsOnce /\ RowsFit' /\ \A c \in Codes : code[c] = "none" => code'[c] = "none"
<1> USE DEF rows, history
<1>1. Advances /\ AcceptsOnce
  BY DEF Advances, AcceptsOnce, Over
<1>2. RowsFit'
  BY DEF CodesInv, RowsFit, RowTells, OlderCodesAreOver, ApprovalHolds, Over
<1> QED BY <1>1, <1>2

-----------------------------------------------------------------------------
LEMMA InitCodes == Init => CodesInv
<1> SUFFICES ASSUME Init PROVE CodesInv
  OBVIOUS
<1> USE DEF Init
<1>1. TypeOK
  BY NoWorkType DEF TypeOK
<1>2. HandlersFit
  BY DEF HandlersFit, HandlerFits, BeforeCovered, IssuedAlone, Issuing, NoWork
<1>3. RowsFit
  BY DEF RowsFit, RowTells, OlderCodesAreOver, ApprovalHolds
<1> QED BY <1>1, <1>2, <1>3, InvParts

\* Rows that are only deleted.
LEMMA DeletionStep ==
  ASSUME CodesInv, NEW T, code' = WithoutRows(T), \A c \in Codes \cap T : code[c] # "none",
         UNCHANGED <<age, holder, history>>
  PROVE  Advances /\ AcceptsOnce /\ RowsFit' /\ \A c \in Codes : code[c] = "none" => code'[c] = "none"
<1> USE DEF history
<1>1. \A c \in Codes : code'[c] = IF c \in T THEN "deleted" ELSE code[c]
  BY DEF WithoutRows
<1>2. Advances /\ AcceptsOnce
  BY <1>1 DEF Advances, AcceptsOnce, Over
<1>3. \A c \in Codes : RowTells(c)'
  BY <1>1 DEF CodesInv, RowTells, Over
<1>4. OlderCodesAreOver' /\ ApprovalHolds'
  BY <1>1 DEF CodesInv, TypeOK, OlderCodesAreOver, ApprovalHolds, Over
<1> QED BY <1>1, <1>2, <1>3, <1>4 DEF RowsFit

LEMMA GrowsOlderCodes ==
  ASSUME CodesInv, NEW c \in Codes, GrowsOlder(c)
  PROVE  CodesInv' /\ AcceptsOnce
<1> USE DEF GrowsOlder, history
<1>1. TypeOK'
  BY DEF CodesInv, TypeOK, Ages
<1>2. Advances /\ AcceptsOnce
  BY DEF Advances, AcceptsOnce, Over
<1>3. HandlersFit'
  BY <1>2, NoHandlerStep
<1>4. RowsFit'
  BY DEF CodesInv, TypeOK, RowsFit, RowTells, OlderCodesAreOver, ApprovalHolds, Over
<1> QED BY <1>1, <1>2, <1>3, <1>4, InvPartsNext

LEMMA CleanUpCodes ==
  ASSUME CodesInv, NEW T \in {Registrations, Changes, Resets}, CleanUp(T)
  PROVE  CodesInv' /\ AcceptsOnce
<1> USE DEF CleanUp
<1>1. TypeOK'
  BY DEF CodesInv, TypeOK, WithoutRows, history
<1>2. \A c \in Codes \cap {d \in T : Expired(d)} : code[c] # "none"
  BY DEF CodesInv, RowTells, Expired
<1>3. Advances /\ AcceptsOnce /\ RowsFit' /\ \A c \in Codes : code[c] = "none" => code'[c] = "none"
  BY <1>2, DeletionStep
<1>4. HandlersFit'
  BY <1>3, NoHandlerStep
<1> QED BY <1>1, <1>3, <1>4, InvPartsNext

LEMMA SetStatusCodes ==
  ASSUME CodesInv, NEW a \in Accounts, NEW s \in {"ACTIVE", "DISABLED"}, SetStatus(a, s)
  PROVE  CodesInv' /\ AcceptsOnce
<1> USE DEF SetStatus, history
<1>1. TypeOK'
  BY DEF CodesInv, TypeOK
<1>2. Advances /\ AcceptsOnce
  BY DEF Advances, AcceptsOnce, Over
<1>3. HandlersFit'
  BY <1>2, NoHandlerStep
<1>4. RowsFit'
  BY DEF CodesInv, RowsFit, RowTells, OlderCodesAreOver, ApprovalHolds, Over
<1> QED BY <1>1, <1>2, <1>3, <1>4, InvPartsNext

LEMMA ApproveAgainCodes ==
  ASSUME CodesInv, NEW d \in Devices, NEW a \in Accounts, ApproveAgain(d, a)
  PROVE  CodesInv' /\ AcceptsOnce
<1> USE DEF ApproveAgain, Answer, rows
<1>1. TypeOK'
  BY DEF CodesInv, TypeOK
<1>2. Advances /\ AcceptsOnce
  BY DEF Advances, AcceptsOnce, Over
<1>3. HandlersFit'
  BY <1>2, NoHandlerStep
<1>4. RowsFit'
  <2>1. \A c \in Codes : RowTells(c)'
    BY DEF CodesInv, TypeOK, RowTells, Over
  <2>2. OlderCodesAreOver' /\ ApprovalHolds'
    BY DEF CodesInv, TypeOK, OlderCodesAreOver, ApprovalHolds, Over, Codes
  <2> QED BY <2>1, <2>2 DEF RowsFit
<1> QED BY <1>1, <1>2, <1>3, <1>4, InvPartsNext

-----------------------------------------------------------------------------
\* A request that draws a new code.
LEMMA RequestFits ==
  ASSUME CodesInv, Advances, NEW h \in Handlers, NEW c \in Codes, NEW a \in Accounts \cup {None}, NEW at \in {"gate", "insert"},
         Request(h, c, a, at), at = "insert" => c \notin Guessed,
         \A d \in Codes : code[d] = "none" => code'[d] = "none"
  PROVE  /\ HandlersFit'
         /\ pc' \in [Handlers -> {"idle", "gate", "supersede", "insert", "mail", "grant", "fail", "user", "approve"}]
         /\ work' \in [Handlers -> Locals]
<1> DEFINE before == {d \in Siblings(c, a) : c \in Guessed /\ Unused(d)}
<1> DEFINE locals == [NoWork EXCEPT !.code = c, !.account = a, !.before = before]
<1>1. before \subseteq Codes
  BY DEF Siblings
<1>2. locals \in Locals /\ locals.code = c /\ locals.account = a /\ locals.before = before
  BY <1>1 DEF NoWork, Locals
<1>3. Continue(h, at, locals)
  BY DEF Request
<1> HIDE DEF locals
<1>4. /\ pc' \in [Handlers -> {"idle", "gate", "supersede", "insert", "mail", "grant", "fail", "user", "approve"}]
      /\ work' \in [Handlers -> Locals]
      /\ pc'[h] = at /\ work'[h] = locals
      /\ \A o \in Handlers \ {h} : pc'[o] = pc[o] /\ work'[o] = work[o]
  BY <1>2, <1>3, ContinueTypes DEF CodesInv
<1>5. code[c] = "none" /\ code'[c] = "none" /\ \A o \in Handlers : Code(o) # c
  BY DEF Request, Fresh
<1>6. Code(h)' = c /\ Account(h)' = a
  BY <1>2, <1>4 DEF Code, Account
<1>7. HandlerFits(h)'
  BY <1>4, <1>5, <1>6 DEF HandlerFits, Issuing
<1>8. \A d \in before : SameTable(c, d) /\ holder[d] = a /\ code[d] # "none" /\ c \in Guessed /\ d \in Codes
  BY DEF Siblings
<1>9. \A d \in before : holder'[d] = holder[d] /\ code'[d] # "none"
  BY <1>8, SameTableGuessed DEF Advances, Mailed
<1>10. BeforeCovered(h)'
  BY <1>2, <1>4, <1>6, <1>8, <1>9 DEF BeforeCovered
<1>11. HandlersFit'
  BY <1>4, <1>5, <1>6, <1>7, <1>10, HandlerStep
<1> QED BY <1>4, <1>11

LEMMA RequestCodeCodes ==
  ASSUME CodesInv, NEW h \in Handlers, NEW c \in Mailed, NEW a \in Accounts, RequestCode(h, c, a)
  PROVE  CodesInv' /\ AcceptsOnce
<1> DEFINE at == IF c \in Guessed THEN "gate" ELSE "insert"
<1>1. Request(h, c, a, at) /\ UNCHANGED <<rows, history>> /\ c \in Codes
  BY DEF RequestCode, Request, rows, Codes
<1>2. Advances /\ AcceptsOnce /\ RowsFit' /\ \A d \in Codes : code[d] = "none" => code'[d] = "none"
  BY <1>1, ReadStep
<1>3. /\ HandlersFit'
      /\ pc' \in [Handlers -> {"idle", "gate", "supersede", "insert", "mail", "grant", "fail", "user", "approve"}]
      /\ work' \in [Handlers -> Locals]
  BY <1>1, <1>2, RequestFits
<1>4. TypeOK'
  BY <1>1, <1>3 DEF CodesInv, TypeOK, rows, history
<1> QED BY <1>2, <1>3, <1>4, InvPartsNext

LEMMA StartDeviceCodes ==
  ASSUME CodesInv, NEW h \in Handlers, NEW d \in Devices, StartDevice(h, d)
  PROVE  CodesInv' /\ AcceptsOnce
<1>1. Request(h, d, None, "insert") /\ UNCHANGED <<status, age, failures, holder, history>> /\ d \in Codes /\ d \notin Guessed
  BY TablesAssumption DEF StartDevice, Request, Codes, Mailed
<1>2. PICK T \in SUBSET {e \in Devices : Expired(e)} : code' = WithoutRows(T)
  BY DEF StartDevice
<1>3. \A c \in Codes \cap T : code[c] # "none"
  BY DEF CodesInv, RowTells, Expired
<1>4. Advances /\ AcceptsOnce /\ RowsFit' /\ \A c \in Codes : code[c] = "none" => code'[c] = "none"
  BY <1>1, <1>2, <1>3, DeletionStep
<1>5. /\ HandlersFit'
      /\ pc' \in [Handlers -> {"idle", "gate", "supersede", "insert", "mail", "grant", "fail", "user", "approve"}]
      /\ work' \in [Handlers -> Locals]
  BY <1>1, <1>4, RequestFits
<1>6. TypeOK'
  BY <1>1, <1>2, <1>5 DEF CodesInv, TypeOK, WithoutRows, history
<1> QED BY <1>4, <1>5, <1>6, InvPartsNext

-----------------------------------------------------------------------------
\* A handler goes on and nothing is written.
LEMMA ContinueReading ==
  ASSUME CodesInv, NEW h \in Handlers, UNCHANGED <<rows, history>>, NEW locals \in Locals,
         NEW at \in {"idle", "gate", "supersede", "insert", "mail", "grant", "fail", "user", "approve"},
         Continue(h, at, locals), HandlerFits(h)', BeforeCovered(h)',
         \A o \in Handlers \ {h} : Issuing(h)' \/ Issuing(o) => Code(o) # locals.code
  PROVE  CodesInv' /\ AcceptsOnce
<1>1. Advances /\ AcceptsOnce /\ RowsFit' /\ \A c \in Codes : code[c] = "none" => code'[c] = "none"
  BY ReadStep
<1>2. /\ pc' \in [Handlers -> {"idle", "gate", "supersede", "insert", "mail", "grant", "fail", "user", "approve"}]
      /\ work' \in [Handlers -> Locals]
      /\ pc'[h] = at /\ work'[h] = locals
      /\ \A o \in Handlers \ {h} : pc'[o] = pc[o] /\ work'[o] = work[o]
  BY ContinueTypes DEF CodesInv
<1>3. Code(h)' = locals.code
  BY <1>2 DEF Code
<1>4. HandlersFit'
  BY <1>1, <1>2, <1>3, HandlerStep
<1>5. TypeOK'
  BY <1>2 DEF CodesInv, TypeOK, rows, history
<1> QED BY <1>1, <1>4, <1>5, InvPartsNext

\* A handler is done and has written nothing.
LEMMA DoneReading ==
  ASSUME CodesInv, NEW h \in Handlers, UNCHANGED <<rows, history>>, Done(h)
  PROVE  CodesInv' /\ AcceptsOnce
<1>1. Advances /\ AcceptsOnce /\ RowsFit' /\ \A c \in Codes : code[c] = "none" => code'[c] = "none"
  BY ReadStep
<1>2. HandlersFit'
  BY <1>1, DoneStep
<1>3. TypeOK'
  BY NoWorkType, ContinueTypes DEF CodesInv, TypeOK, rows, history, Done
<1> QED BY <1>1, <1>2, <1>3, InvPartsNext

LEMMA PassGateCodes ==
  ASSUME CodesInv, NEW h \in Handlers, PassGate(h)
  PROVE  CodesInv' /\ AcceptsOnce
<1> USE DEF PassGate
<1>1. work[h] \in Locals
  BY LocalTypes DEF CodesInv
<1>2. pc'[h] = "supersede" /\ work'[h] = work[h] /\ UNCHANGED <<rows, history>>
  BY <1>1, ContinueTypes DEF CodesInv
<1>3. Code(h)' = Code(h) /\ Account(h)' = Account(h)
  BY <1>2 DEF Code, Account
<1>4. HandlerFits(h)' /\ BeforeCovered(h)'
  BY <1>2, <1>3 DEF CodesInv, HandlerFits, BeforeCovered, Issuing, rows
<1>5. \A o \in Handlers \ {h} : Code(o) # work[h].code
  BY DEF CodesInv, IssuedAlone, Issuing, Code
<1> QED BY <1>1, <1>2, <1>4, <1>5, ContinueReading

LEMMA SupersedeCodes ==
  ASSUME CodesInv, NEW h \in Handlers, Supersede(h)
  PROVE  CodesInv' /\ AcceptsOnce
<1> DEFINE locals == [work[h] EXCEPT !.found = ToSupersede(h)]
<1>1. ToSupersede(h) \subseteq Codes
  BY DEF ToSupersede, Siblings
<1>2. /\ work[h] \in Locals /\ locals \in Locals
      /\ locals.code = Code(h) /\ locals.account = Account(h)
      /\ locals.before = work[h].before /\ locals.found = ToSupersede(h)
  BY <1>1, LocalTypes DEF CodesInv, Locals, Code, Account
<1>3. pc[h] = "supersede" /\ Continue(h, "insert", locals) /\ UNCHANGED <<rows, history>>
  BY DEF Supersede
<1> HIDE DEF locals
<1>4. pc'[h] = "insert" /\ work'[h] = locals
  BY <1>2, <1>3, ContinueTypes DEF CodesInv
<1>5. Code(h)' = Code(h) /\ Account(h)' = Account(h)
  BY <1>2, <1>4 DEF Code, Account
<1>6. HandlerFits(h)'
  BY <1>3, <1>4, <1>5 DEF CodesInv, HandlerFits, Issuing, rows
<1>7. ASSUME NEW c \in work[h].before PROVE c \in ToSupersede(h) \/ Over(c)
  <2>1. c \in Codes /\ SameTable(Code(h), c) /\ holder[c] = Account(h) /\ code[c] # "none"
    BY LocalTypes DEF CodesInv, BeforeCovered
  <2>2. code[c] \in {"none", "open", "approved", "closed", "deleted"}
    BY <2>1 DEF CodesInv, TypeOK
  <2> QED BY <2>1, <2>2 DEF ToSupersede, Siblings, Unused, Over
<1>8. BeforeCovered(h)'
  BY <1>2, <1>3, <1>4, <1>5, <1>7 DEF CodesInv, BeforeCovered, Over, rows
<1>9. \A o \in Handlers \ {h} : Code(o) # locals.code
  BY <1>2, <1>3 DEF CodesInv, IssuedAlone, Issuing
<1> QED BY <1>2, <1>3, <1>6, <1>8, <1>9, ContinueReading

\* What a request for a new code writes.
LEMMA InsertCodes ==
  ASSUME CodesInv, NEW h \in Handlers, Insert(h)
  PROVE  CodesInv' /\ AcceptsOnce
<1> USE DEF Insert
<1>1. /\ work[h] \in Locals /\ Code(h) \in Codes /\ Account(h) \in Accounts \cup {None}
      /\ work[h].before \subseteq Codes /\ code[Code(h)] = "none" /\ Issuing(h)
  BY LocalTypes DEF CodesInv, HandlerFits, Issuing
<1>2. /\ code'[Code(h)] = "open" /\ holder'[Code(h)] = Account(h)
      /\ \A c \in Codes \ {Code(h)} :
           /\ code'[c] = IF c \in work[h].found /\ Unused(c) THEN "closed" ELSE code[c]
           /\ holder'[c] = holder[c]
  BY <1>1 DEF CodesInv, TypeOK
<1>3. Advances /\ AcceptsOnce
  BY <1>1, <1>2 DEF Advances, AcceptsOnce, Over, Unused
<1>4. \A c \in Codes : code[c] = "none" /\ c # Code(h) => code'[c] = "none"
  BY <1>2 DEF Unused
<1>5. HandlersFit' /\ pc' \in [Handlers -> {"idle", "gate", "supersede", "insert", "mail", "grant", "fail", "user", "approve"}] /\ work' \in [Handlers -> Locals]
  <2>1. CASE Code(h) \in Devices
    <3>1. Done(h)
      BY <2>1
    <3>2. HandlersFit'
      BY <3>1, <1>3, <1>4, DoneStep
    <3> QED BY <3>1, <3>2, NoWorkType, ContinueTypes DEF CodesInv, Done
  <2>2. CASE Code(h) \notin Devices
    <3>1. Continue(h, "mail", work[h]) /\ Code(h) \in Mailed
      BY <2>2, <1>1 DEF Codes
    <3>2. /\ pc'[h] = "mail" /\ work'[h] = work[h]
          /\ \A o \in Handlers \ {h} : pc'[o] = pc[o] /\ work'[o] = work[o]
          /\ pc' \in [Handlers -> {"idle", "gate", "supersede", "insert", "mail", "grant", "fail", "user", "approve"}]
          /\ work' \in [Handlers -> Locals]
      BY <3>1, <1>1, ContinueTypes DEF CodesInv
    <3>3. Code(h)' = Code(h) /\ Account(h)' = Account(h)
      BY <3>2 DEF Code, Account
    <3>4. HandlerFits(h)'
      BY <3>1, <3>2, <3>3, <1>1, <1>2 DEF HandlerFits, Issuing
    <3>5. \A c \in work[h].before :
            SameTable(Code(h), c) /\ holder[c] = Account(h) /\ code[c] # "none" /\ Code(h) \in Guessed /\ c \in Codes
      BY <1>1 DEF CodesInv, BeforeCovered
    <3>6. \A c \in work[h].before : holder'[c] = Account(h) /\ code'[c] # "none"
      BY <3>5, <1>1, <1>2
    <3>7. BeforeCovered(h)'
      BY <3>2, <3>3, <3>5, <3>6 DEF BeforeCovered
    <3>8. \A o \in Handlers \ {h} : Code(o) # Code(h)'
      BY <3>3, <1>1 DEF CodesInv, IssuedAlone
    <3>9. HandlersFit'
      BY <3>2, <3>4, <3>7, <3>8, <1>3, <1>4, HandlerStep
    <3> QED BY <3>2, <3>9
  <2> QED BY <2>1, <2>2
<1>6. TypeOK'
  BY <1>1, <1>5 DEF CodesInv, TypeOK
<1>7. \A c \in Codes : RowTells(c)'
  BY <1>1, <1>2 DEF CodesInv, RowTells, Unused, Over
<1>8. OlderCodesAreOver'
  <2>1. \A c \in retired : Over(c)'
    BY <1>3 DEF CodesInv, TypeOK, OlderCodesAreOver, Advances
  <2>2. \A c \in work[h].before : c \in work[h].found \/ Over(c)
    BY DEF CodesInv, BeforeCovered
  <2>3. \A c \in work[h].before : c \in Codes /\ code[c] # "none"
    BY <1>1 DEF CodesInv, BeforeCovered
  <2>4. \A c \in work[h].before : Over(c)'
    BY <2>2, <2>3, <1>1, <1>2 DEF CodesInv, TypeOK, Over, Unused
  <2> QED BY <2>1, <2>4 DEF OlderCodesAreOver
<1>9. ApprovalHolds'
  BY <1>1, <1>2 DEF CodesInv, RowTells, ApprovalHolds, Codes
<1> QED BY <1>3, <1>5, <1>6, <1>7, <1>8, <1>9, InvPartsNext DEF RowsFit

LEMMA MailFailsCodes ==
  ASSUME CodesInv, NEW h \in Handlers, MailFails(h)
  PROVE  CodesInv' /\ AcceptsOnce
<1> USE DEF MailFails, history
<1>1. Code(h) \in Codes /\ code[Code(h)] # "none"
  BY DEF CodesInv, HandlerFits, Issuing
<1>2. /\ code'[Code(h)] = code[Code(h)] \/ (~Over(Code(h)) /\ code'[Code(h)] \in {"closed", "deleted"})
      /\ \A c \in Codes \ {Code(h)} : code'[c] = code[c]
  BY <1>1 DEF CodesInv, TypeOK, Unused, Over
<1>3. Advances /\ AcceptsOnce
  BY <1>1, <1>2 DEF Advances, AcceptsOnce, Over
<1>4. HandlersFit'
  BY <1>1, <1>2, <1>3, DoneStep
<1>5. TypeOK'
  BY NoWorkType, ContinueTypes DEF CodesInv, TypeOK, Done
<1>6. \A c \in Codes : RowTells(c)'
  BY <1>1, <1>2 DEF CodesInv, RowTells, Over
<1>7. OlderCodesAreOver' /\ ApprovalHolds'
  BY <1>3 DEF CodesInv, TypeOK, OlderCodesAreOver, ApprovalHolds, Advances
<1> QED BY <1>3, <1>4, <1>5, <1>6, <1>7, InvPartsNext DEF RowsFit

LEMMA MailCodes ==
  ASSUME CodesInv, NEW h \in Handlers, Mail(h)
  PROVE  CodesInv' /\ AcceptsOnce
BY DoneReading DEF Mail

LEMMA HitGateCodes ==
  ASSUME CodesInv, NEW h \in Handlers, HitGate(h)
  PROVE  CodesInv' /\ AcceptsOnce
BY DoneReading DEF HitGate

LEMMA RefuseCodes ==
  ASSUME CodesInv, NEW h \in Handlers, Refuse(h)
  PROVE  CodesInv' /\ AcceptsOnce
BY DoneReading DEF Refuse

LEMMA CancelCodes ==
  ASSUME CodesInv, NEW h \in Handlers, Cancel(h)
  PROVE  CodesInv' /\ AcceptsOnce
BY DoneReading DEF Cancel

-----------------------------------------------------------------------------
\* An idle handler turns to a row that exists.
LEMMA PresentStep ==
  ASSUME CodesInv, NEW h \in Handlers, NEW c \in Codes, code[c] # "none", UNCHANGED <<rows, history>>,
         NEW locals \in Locals, NEW at \in {"grant", "fail", "user", "approve"}, Continue(h, at, locals),
         locals.code = c, locals.before = {},
         at = "fail" => c \in Guessed,
         at \in {"user", "approve"} => c \in Devices /\ locals.account \in Accounts,
         at \in {"user", "grant"} /\ c \in Devices =>
           locals.account = holder[c] /\ locals.account \in Accounts /\ code[c] # "open"
  PROVE  CodesInv' /\ AcceptsOnce
<1>1. pc'[h] = at /\ work'[h] = locals
  BY ContinueTypes DEF CodesInv
<1>2. Code(h)' = c /\ Account(h)' = locals.account
  BY <1>1 DEF Code, Account
<1>3. HandlerFits(h)' /\ BeforeCovered(h)' /\ ~Issuing(h)'
  BY <1>1, <1>2 DEF HandlerFits, BeforeCovered, Issuing, rows
<1>4. \A o \in Handlers \ {h} : Issuing(o) => Code(o) # c
  BY DEF CodesInv, HandlerFits, Issuing
<1> QED BY <1>3, <1>4, ContinueReading

LEMMA PresentRightCodes ==
  ASSUME CodesInv, NEW h \in Handlers, NEW c \in Codes, PresentRight(h, c)
  PROVE  CodesInv' /\ AcceptsOnce
<1> DEFINE locals == [NoWork EXCEPT !.code = c, !.account = holder[c]]
<1>1. locals \in Locals /\ locals.code = c /\ locals.before = {}
  BY DEF NoWork, Locals, CodesInv, TypeOK
<1>2. code[c] # "none" /\ c \notin Devices /\ Continue(h, "grant", locals) /\ UNCHANGED <<rows, history>>
  BY TablesAssumption DEF PresentRight, Acceptable
<1> HIDE DEF locals
<1> QED BY <1>1, <1>2, PresentStep

LEMMA PresentWrongCodes ==
  ASSUME CodesInv, NEW h \in Handlers, NEW c \in Codes, PresentWrong(h, c)
  PROVE  CodesInv' /\ AcceptsOnce
<1> DEFINE locals == [NoWork EXCEPT !.code = c, !.failures = failures[c]]
<1>1. locals \in Locals /\ locals.code = c /\ locals.before = {}
  BY DEF NoWork, Locals, CodesInv, TypeOK
<1>2. code[c] # "none" /\ c \in Guessed /\ Continue(h, "fail", locals) /\ UNCHANGED <<rows, history>>
  BY DEF PresentWrong, Acceptable
<1> HIDE DEF locals
<1> QED BY <1>1, <1>2, PresentStep

LEMMA PollCodes ==
  ASSUME CodesInv, NEW h \in Handlers, NEW d \in Devices, Poll(h, d)
  PROVE  CodesInv' /\ AcceptsOnce
<1> DEFINE locals == [NoWork EXCEPT !.code = d, !.account = holder[d]]
<1>1. d \in Codes /\ code[d] = "approved" /\ Continue(h, "user", locals) /\ UNCHANGED <<rows, history>>
  BY DEF Poll, Codes
<1>2. holder[d] \in Accounts
  BY <1>1 DEF CodesInv, RowTells
<1>3. locals \in Locals /\ locals.code = d /\ locals.before = {} /\ locals.account = holder[d]
  BY <1>1, <1>2 DEF NoWork, Locals
<1> HIDE DEF locals
<1> QED BY <1>1, <1>2, <1>3, PresentStep

LEMMA ApproveCodes ==
  ASSUME CodesInv, NEW h \in Handlers, NEW d \in Devices, NEW a \in Accounts, Approve(h, d, a)
  PROVE  CodesInv' /\ AcceptsOnce
<1> DEFINE locals == [NoWork EXCEPT !.code = d, !.account = a]
<1>1. d \in Codes /\ code[d] # "none" /\ Continue(h, "approve", locals) /\ UNCHANGED <<rows, history>>
  BY DEF Approve, Codes
<1>2. locals \in Locals /\ locals.code = d /\ locals.before = {} /\ locals.account = a
  BY <1>1 DEF NoWork, Locals
<1> HIDE DEF locals
<1> QED BY <1>1, <1>2, PresentStep

LEMMA ReadUserCodes ==
  ASSUME CodesInv, NEW h \in Handlers, ReadUser(h)
  PROVE  CodesInv' /\ AcceptsOnce
<1>1. CASE status[Account(h)] = "ACTIVE"
  <2>1. pc[h] = "user" /\ Continue(h, "grant", work[h]) /\ UNCHANGED <<rows, history>>
    BY <1>1 DEF ReadUser
  <2>2. work[h] \in Locals /\ pc'[h] = "grant" /\ work'[h] = work[h]
    BY <2>1, LocalTypes, ContinueTypes DEF CodesInv
  <2>3. Code(h)' = Code(h) /\ Account(h)' = Account(h)
    BY <2>2 DEF Code, Account
  <2>4. HandlerFits(h)' /\ BeforeCovered(h)' /\ ~Issuing(h)'
    BY <2>1, <2>2, <2>3 DEF CodesInv, HandlerFits, BeforeCovered, Issuing, rows
  <2>5. \A o \in Handlers \ {h} : Issuing(o) => Code(o) # work[h].code
    BY <2>1 DEF CodesInv, HandlerFits, Issuing, Code
  <2> QED BY <2>1, <2>2, <2>4, <2>5, ContinueReading
<1>2. CASE status[Account(h)] # "ACTIVE"
  BY <1>2, DoneReading DEF ReadUser
<1> QED BY <1>1, <1>2

-----------------------------------------------------------------------------
LEMMA GrantCodes ==
  ASSUME CodesInv, NEW h \in Handlers, Grant(h)
  PROVE  CodesInv' /\ AcceptsOnce
<1> USE DEF Grant
<1>1. Code(h) \in Codes /\ code[Code(h)] \in {"open", "approved"} /\ granted[Code(h)] = 0
  <2>1. Code(h) \in Codes /\ code[Code(h)] \in {"open", "approved"}
    BY DEF CodesInv, HandlerFits, StillUnused, Unused
  <2> QED BY <2>1 DEF CodesInv, TypeOK, RowTells, Over
<1>2. /\ code'[Code(h)] = "closed" /\ granted'[Code(h)] = 1
      /\ \A c \in Codes \ {Code(h)} : code'[c] = code[c] /\ granted'[c] = granted[c]
  BY <1>1 DEF CodesInv, TypeOK
<1>3. Advances /\ AcceptsOnce
  BY <1>1, <1>2 DEF Advances, AcceptsOnce, Over
<1>4. HandlersFit'
  BY <1>1, <1>2, <1>3, DoneStep
<1>5. \A d \in Devices : given'[d] = IF d = Code(h) THEN given[d] \cup {Account(h)} ELSE given[d]
  OBVIOUS
<1>6. Code(h) \in Devices => Account(h) = holder[Code(h)] /\ Account(h) \in Accounts
  BY DEF CodesInv, HandlerFits
<1>7. TypeOK'
  <2>1. status' \in [Accounts -> {"PENDING", "ACTIVE", "DISABLED"}]
    BY DEF CodesInv, TypeOK, Activated
  <2>2. given' \in [Devices -> SUBSET Accounts]
    BY <1>6 DEF CodesInv, TypeOK
  <2>3. code' \in [Codes -> {"none", "open", "approved", "closed", "deleted"}] /\ granted' \in [Codes -> Nat]
    BY <1>1 DEF CodesInv, TypeOK
  <2> QED BY <2>1, <2>2, <2>3, NoWorkType, ContinueTypes DEF CodesInv, TypeOK, Done
<1>8. \A c \in Codes : RowTells(c)'
  BY <1>1, <1>2, <1>5 DEF CodesInv, RowTells, Over
<1>9. OlderCodesAreOver' /\ ApprovalHolds'
  BY <1>3, <1>5, <1>6 DEF CodesInv, TypeOK, OlderCodesAreOver, ApprovalHolds, Advances
<1> QED BY <1>3, <1>4, <1>7, <1>8, <1>9, InvPartsNext DEF RowsFit

LEMMA FailCodes ==
  ASSUME CodesInv, NEW h \in Handlers, Fail(h)
  PROVE  CodesInv' /\ AcceptsOnce
<1> DEFINE n == work[h].failures + 1
<1>1. /\ Code(h) \in Codes /\ code[Code(h)] # "none" /\ n \in Nat
  BY LocalTypes DEF Fail, CodesInv, HandlerFits, Issuing
<1>2. /\ failures' = [failures EXCEPT ![Code(h)] = IF code[Code(h)] = "deleted" THEN @ ELSE n]
      /\ code' = [code EXCEPT ![Code(h)] = IF n >= MaxAttempts /\ @ # "deleted" THEN "closed" ELSE @]
      /\ wrong' = [wrong EXCEPT ![Code(h)] = @ + 1]
      /\ Done(h) /\ UNCHANGED <<status, age, holder, granted, told, given, retired>>
  BY DEF Fail
<1> HIDE DEF n
<1>3. /\ code'[Code(h)] \in {code[Code(h)], "closed"}
      /\ code[Code(h)] = "deleted" => code'[Code(h)] = "deleted"
      /\ \A c \in Codes \ {Code(h)} : code'[c] = code[c]
  BY <1>1, <1>2 DEF CodesInv, TypeOK
<1>4. Advances /\ AcceptsOnce
  BY <1>1, <1>2, <1>3 DEF Advances, AcceptsOnce, Over
<1>5. HandlersFit'
  BY <1>1, <1>2, <1>3, <1>4, DoneStep
<1>6. TypeOK'
  <2>1. wrong' \in [Codes -> Nat] /\ failures' \in [Codes -> Nat]
    BY <1>1, <1>2 DEF CodesInv, TypeOK
  <2>2. code' \in [Codes -> {"none", "open", "approved", "closed", "deleted"}]
    BY <1>1, <1>2 DEF CodesInv, TypeOK
  <2> QED BY <1>2, <2>1, <2>2, NoWorkType, ContinueTypes DEF CodesInv, TypeOK, Done
<1>7. \A c \in Codes : RowTells(c)'
  BY <1>1, <1>2, <1>3 DEF CodesInv, RowTells, Over
<1>8. OlderCodesAreOver' /\ ApprovalHolds'
  BY <1>2, <1>4 DEF CodesInv, TypeOK, OlderCodesAreOver, ApprovalHolds, Advances
<1> QED BY <1>4, <1>5, <1>6, <1>7, <1>8, InvPartsNext DEF RowsFit

\* An approval is written into a row that nobody has approved: nobody was told, and no session given.
LEMMA CommitApprovalCodes ==
  ASSUME CodesInv, NEW h \in Handlers, CommitApproval(h)
  PROVE  CodesInv' /\ AcceptsOnce
<1> USE DEF CommitApproval, Answer
<1>1. /\ Code(h) \in Devices /\ Code(h) \in Codes /\ Code(h) \notin Mailed
      /\ Account(h) \in Accounts /\ code[Code(h)] = "open"
  BY TablesAssumption DEF CodesInv, HandlerFits, StillUnapproved, Codes
<1>2. told[Code(h)] = {} /\ given[Code(h)] = {}
  BY <1>1 DEF CodesInv, RowTells
<1>3. /\ code'[Code(h)] = "approved" /\ holder'[Code(h)] = Account(h) /\ told'[Code(h)] = {Account(h)}
      /\ \A c \in Codes \ {Code(h)} : code'[c] = code[c] /\ holder'[c] = holder[c]
      /\ \A d \in Devices \ {Code(h)} : told'[d] = told[d]
  BY <1>1, <1>2 DEF CodesInv, TypeOK
<1>4. Advances /\ AcceptsOnce
  BY <1>1, <1>3 DEF Advances, AcceptsOnce, Over
<1>5. HandlersFit'
  BY <1>1, <1>3, <1>4, DoneStep
<1>6. TypeOK'
  BY <1>1, NoWorkType, ContinueTypes DEF CodesInv, TypeOK, Done
<1>7. \A c \in Codes : RowTells(c)'
  BY <1>1, <1>3 DEF CodesInv, TypeOK, RowTells, Over
<1>8. OlderCodesAreOver'
  BY <1>4 DEF CodesInv, TypeOK, OlderCodesAreOver, Advances
<1>9. ApprovalHolds'
  BY <1>1, <1>2, <1>3 DEF CodesInv, ApprovalHolds, Codes
<1> QED BY <1>4, <1>5, <1>6, <1>7, <1>8, <1>9, InvPartsNext DEF RowsFit

-----------------------------------------------------------------------------
LEMMA NextCodes == CodesInv /\ [Next]_vars => CodesInv' /\ AcceptsOnce
<1> SUFFICES ASSUME CodesInv, [Next]_vars PROVE CodesInv' /\ AcceptsOnce
  OBVIOUS
<1>1. ASSUME NEW c \in Codes, GrowsOlder(c) PROVE CodesInv' /\ AcceptsOnce
  BY <1>1, GrowsOlderCodes
<1>2. ASSUME NEW T \in {Registrations, Changes, Resets}, CleanUp(T) PROVE CodesInv' /\ AcceptsOnce
  BY <1>2, CleanUpCodes
<1>3. ASSUME NEW a \in Accounts, NEW s \in {"ACTIVE", "DISABLED"}, SetStatus(a, s) PROVE CodesInv' /\ AcceptsOnce
  BY <1>3, SetStatusCodes
<1>4. ASSUME NEW a \in Accounts, NEW d \in Devices, ApproveAgain(d, a) PROVE CodesInv' /\ AcceptsOnce
  BY <1>4, ApproveAgainCodes
<1>5. ASSUME NEW h \in Handlers, NEW c \in Mailed, NEW a \in Accounts, RequestCode(h, c, a) PROVE CodesInv' /\ AcceptsOnce
  BY <1>5, RequestCodeCodes
<1>6. ASSUME NEW h \in Handlers, NEW d \in Devices, StartDevice(h, d) \/ Poll(h, d) PROVE CodesInv' /\ AcceptsOnce
  BY <1>6, StartDeviceCodes, PollCodes
<1>7. ASSUME NEW h \in Handlers, NEW d \in Devices, NEW a \in Accounts, Approve(h, d, a) PROVE CodesInv' /\ AcceptsOnce
  BY <1>7, ApproveCodes
<1>8. ASSUME NEW h \in Handlers, NEW c \in Codes, PresentRight(h, c) \/ PresentWrong(h, c) PROVE CodesInv' /\ AcceptsOnce
  BY <1>8, PresentRightCodes, PresentWrongCodes
<1>9. ASSUME NEW h \in Handlers, Step(h) PROVE CodesInv' /\ AcceptsOnce
  BY <1>9, PassGateCodes, HitGateCodes, SupersedeCodes, InsertCodes, MailCodes, MailFailsCodes, ReadUserCodes,
     GrantCodes, FailCodes, CommitApprovalCodes, RefuseCodes, CancelCodes DEF Step
<1>10. CASE UNCHANGED vars
  <2>1. UNCHANGED <<rows, history>> /\ UNCHANGED <<pc, work>>
    BY <1>10 DEF vars
  <2>2. Advances /\ AcceptsOnce /\ RowsFit' /\ \A c \in Codes : code[c] = "none" => code'[c] = "none"
    BY <2>1, ReadStep
  <2>3. HandlersFit'
    BY <2>1, <2>2, NoHandlerStep
  <2>4. TypeOK'
    BY <2>1 DEF CodesInv, TypeOK, rows, history
  <2> QED BY <2>2, <2>3, <2>4, InvPartsNext
<1> QED BY <1>1, <1>2, <1>3, <1>4, <1>5, <1>6, <1>7, <1>8, <1>9, <1>10 DEF Next

\* The inductive invariant: what a handler knows and what each row tells fit each other, however
\* requests, deletions and the passing of time interleave.
THEOREM CodesInvariant == Spec => []CodesInv
BY InitCodes, NextCodes, PTL DEF Spec

\* A code that was unused when a newer one was asked for is over once the newer one is issued
\* (CreateEmailVerificationChallenge, CreateEmailChangeRequest).
THEOREM OlderAreOver == Spec => []OlderCodesAreOver
<1>1. CodesInv => OlderCodesAreOver
  BY DEF CodesInv
<1> QED BY <1>1, CodesInvariant, PTL

\* The session of a watch is of the account that approved it, and nobody else was told that it
\* approved (ApproveDeviceAuthorization, ExchangeDeviceAuthorization).
THEOREM ApprovalsHold == Spec => []ApprovalHolds
<1>1. CodesInv => ApprovalHolds
  BY DEF CodesInv
<1> QED BY <1>1, CodesInvariant, PTL

\* A code is accepted once, and never after it is over (the Consume functions of users.go and
\* ExchangeDeviceAuthorization).
THEOREM CodesAcceptedOnce == Spec => AcceptedOnce
<1>1. CodesInv /\ [Next]_vars =>
        [\A c \in Codes :
           /\ granted'[c] # granted[c] => ~Over(c) /\ Over(c)'
           /\ Over(c) => Over(c)']_vars
  BY NextCodes DEF AcceptsOnce
<1> QED BY <1>1, CodesInvariant, PTL DEF Spec, AcceptedOnce
=============================================================================
