--------------------------- MODULE AdminGuardProofs ---------------------------
(***************************************************************************)
(* Proofs about AdminGuard, for any set of accounts and any number of      *)
(* concurrent requests: the inductive invariant GuardInv, the safety       *)
(* properties that follow from it, and the refinement of AccountRegistry.  *)
(***************************************************************************)
EXTENDS AdminGuard, TLAPS

\* The locals of a transaction between requests have their types (they are chosen from non-empty sets).
LEMMA NoLocalsType ==
  ASSUME NEW u \in Users
  PROVE  NoRequest \in Requests /\ NoRow \in Rows
<1>1. [target |-> u, self |-> TRUE, want |-> Deletion] \in Requests
  BY DEF Requests
<1>2. [role |-> "USER", status |-> "ACTIVE"] \in Rows
  BY DEF Rows, Roles, Statuses
<1>3. NoRequest \in Requests
  BY <1>1, Zenon DEF NoRequest
<1>4. NoRow \in Rows
  BY <1>2, Zenon DEF NoRow
<1> QED BY <1>3, <1>4

\* What a request asks for fits the columns of a row.
LEMMA WantType ==
  ASSUME NEW r \in Requests
  PROVE  r.target \in Users /\ r.want \in Rows /\ r.want.status # "ABSENT"
BY DEF Requests, Rows, Roles, Statuses, AssignableStatuses, Deletion

\* What a commit writes fits the columns of a row, and never makes the row absent.
LEMMA WrittenType ==
  ASSUME TypeOK, NEW t \in Txs
  PROVE  /\ Target(t) \in Users
         /\ NewRole(t) \in Roles
         /\ NewStatus(t) \in Statuses \ {"ABSENT"}
<1>1. req[t] \in Requests /\ cur[t] \in Rows
  BY DEF TypeOK
<1>2. req[t].target \in Users /\ req[t].want \in Rows /\ req[t].want.status # "ABSENT"
  BY <1>1, WantType
<1> QED BY <1>1, <1>2 DEF Target, NewRole, NewStatus, Rows

-----------------------------------------------------------------------------
\* The system starts with one active administrator, no request and no lock.
LEMMA InitGuard == Init => GuardInv
<1> SUFFICES ASSUME Init PROVE GuardInv
  OBVIOUS
<1>1. PICK first \in Users :
        /\ role   = [u \in Users |-> IF u = first THEN "ADMIN" ELSE "USER"]
        /\ status = [u \in Users |-> IF u = first THEN "ACTIVE" ELSE "ABSENT"]
  BY DEF Init, RegistryInit
<1>2. NoRequest \in Requests /\ NoRow \in Rows
  BY <1>1, NoLocalsType
<1>3. TypeOK
  BY <1>1, <1>2 DEF Init, TypeOK, Roles, Statuses
<1>4. LocksAreLive
  BY DEF Init, LocksAreLive
<1>5. DecidesOnCurrentRow
  BY DEF Init, DecidesOnCurrentRow
<1>6. RemainingIsHeld /\ PermissionHolds
  BY DEF Init, RemainingIsHeld, PermissionHolds
<1>7. SomeActiveAdmin
  BY <1>1 DEF SomeActiveAdmin, ActiveAdmins, IsActiveAdmin
<1> QED BY <1>3, <1>4, <1>5, <1>6, <1>7 DEF GuardInv

\* A request that is admitted touches no row and no lock.
LEMMA BeginGuard ==
  ASSUME GuardInv, NEW t \in Txs, NEW r \in Requests, Begin(t, r)
  PROVE  GuardInv'
<1> USE DEF GuardInv
<1>1. TypeOK'
  BY DEF Begin, TypeOK
<1>2. LocksAreLive'
  BY NoTxAssumption DEF Begin, TypeOK, LocksAreLive, IsActiveAdmin, Target
<1>3. DecidesOnCurrentRow'
  BY DEF Begin, TypeOK, DecidesOnCurrentRow, Target, Row
<1>4. RemainingIsHeld'
  BY DEF Begin, TypeOK, RemainingIsHeld, MustCount, Deletes, RemovesAdmin, Target, IsActiveAdmin
<1>5. SomeActiveAdmin'
  BY DEF Begin, SomeActiveAdmin, ActiveAdmins, IsActiveAdmin
<1>6. PermissionHolds'
  BY DEF Begin, TypeOK, PermissionHolds, Permitted, Deletable, Deletes, RemovesAdmin, Target
<1> QED BY <1>1, <1>2, <1>3, <1>4, <1>5, <1>6

\* The lock on the target makes the row just read the committed one.
LEMMA LockTargetGuard ==
  ASSUME GuardInv, NEW t \in Txs, LockTarget(t)
  PROVE  GuardInv'
<1> USE DEF GuardInv
<1>0. Target(t) \in Users /\ Row(Target(t)) \in Rows
  BY WantType DEF TypeOK, Target, Row, Rows
<1>1. TypeOK'
  BY <1>0 DEF LockTarget, TypeOK
<1>2. LocksAreLive'
  BY <1>0, NoTxAssumption DEF LockTarget, TypeOK, LocksAreLive, IsActiveAdmin, Target
<1>3. DecidesOnCurrentRow'
  BY <1>0 DEF LockTarget, TypeOK, DecidesOnCurrentRow, Target, Row
<1>4. RemainingIsHeld'
  <2>1. ASSUME NEW o \in Txs, pc'[o] = "write", MustCount(o)'
        PROVE  \E v \in Users \ {Target(o)} : IsActiveAdmin(v) /\ owner'[v] = o
    <3>1. pc[o] = "write" /\ MustCount(o)
      BY <2>1 DEF LockTarget, TypeOK, MustCount, Deletes, RemovesAdmin, Target
    <3>2. PICK v \in Users \ {Target(o)} : IsActiveAdmin(v) /\ owner[v] = o
      BY <3>1 DEF RemainingIsHeld
    <3>3. owner'[v] = o
      BY <1>0, <3>1, <3>2, NoTxAssumption DEF LockTarget, TypeOK
    <3> QED BY <3>2, <3>3
  <2> QED BY <2>1 DEF LockTarget, RemainingIsHeld, Target, IsActiveAdmin
<1>5. SomeActiveAdmin'
  BY DEF LockTarget, SomeActiveAdmin, ActiveAdmins, IsActiveAdmin
<1>6. PermissionHolds'
  BY <1>0 DEF LockTarget, TypeOK, PermissionHolds, Permitted, Deletable, Deletes, RemovesAdmin, Target
<1> QED BY <1>1, <1>2, <1>3, <1>4, <1>5, <1>6

\* The rows to lock exist when the counting SELECT starts.
LEMMA StartCountGuard ==
  ASSUME GuardInv, NEW t \in Txs, StartCount(t)
  PROVE  GuardInv'
<1> USE DEF GuardInv
<1>1. TypeOK'
  BY DEF StartCount, TypeOK, ActiveAdmins
<1>2. LocksAreLive'
  BY NoTxAssumption DEF StartCount, TypeOK, LocksAreLive, ActiveAdmins, IsActiveAdmin, Target
<1>3. DecidesOnCurrentRow'
  BY DEF StartCount, TypeOK, DecidesOnCurrentRow, Target, Row
<1>4. RemainingIsHeld'
  BY DEF StartCount, TypeOK, RemainingIsHeld, MustCount, Deletes, RemovesAdmin, Target, IsActiveAdmin
<1>5. SomeActiveAdmin'
  BY DEF StartCount, SomeActiveAdmin, ActiveAdmins, IsActiveAdmin
<1>6. PermissionHolds'
  BY DEF StartCount, TypeOK, PermissionHolds, Permitted, Deletable, Deletes, RemovesAdmin, Target
<1> QED BY <1>1, <1>2, <1>3, <1>4, <1>5, <1>6

\* No count is needed only where no active administrator is taken away.
LEMMA SkipCountGuard ==
  ASSUME GuardInv, NEW t \in Txs, SkipCount(t)
  PROVE  GuardInv'
<1> USE DEF GuardInv
<1>1. TypeOK'
  BY DEF SkipCount, TypeOK
<1>2. LocksAreLive'
  BY NoTxAssumption DEF SkipCount, TypeOK, LocksAreLive, IsActiveAdmin, Target
<1>3. DecidesOnCurrentRow'
  BY DEF SkipCount, TypeOK, DecidesOnCurrentRow, Target, Row
<1>4. RemainingIsHeld'
  BY DEF SkipCount, TypeOK, RemainingIsHeld, MustCount, Deletes, RemovesAdmin, Target, IsActiveAdmin
<1>5. SomeActiveAdmin'
  BY DEF SkipCount, SomeActiveAdmin, ActiveAdmins, IsActiveAdmin
<1>6. PermissionHolds'
  BY DEF SkipCount, TypeOK, PermissionHolds, Permitted, Deletable, Deletes, RemovesAdmin, Target
<1> QED BY <1>1, <1>2, <1>3, <1>4, <1>5, <1>6

\* A row is found only if it is an active administrator once its lock is held.
LEMMA LockCountedGuard ==
  ASSUME GuardInv, NEW t \in Txs, NEW u \in Users, LockCounted(t, u)
  PROVE  GuardInv'
<1> USE DEF GuardInv
<1>1. TypeOK'
  BY DEF LockCounted, TypeOK
<1>2. LocksAreLive'
  BY NoTxAssumption DEF LockCounted, TypeOK, LocksAreLive, IsNext, RowMatches, IsActiveAdmin, Target
<1>3. DecidesOnCurrentRow'
  BY DEF LockCounted, TypeOK, DecidesOnCurrentRow, Target, Row
<1>4. RemainingIsHeld'
  <2>1. ASSUME NEW o \in Txs, pc'[o] = "write", MustCount(o)'
        PROVE  \E v \in Users \ {Target(o)} : IsActiveAdmin(v) /\ owner'[v] = o
    <3>1. pc[o] = "write" /\ MustCount(o)
      BY <2>1 DEF LockCounted, TypeOK, MustCount, Deletes, RemovesAdmin, Target
    <3>2. PICK v \in Users \ {Target(o)} : IsActiveAdmin(v) /\ owner[v] = o
      BY <3>1 DEF RemainingIsHeld
    <3>3. owner'[v] = o
      BY <3>1, <3>2, NoTxAssumption DEF LockCounted, TypeOK
    <3> QED BY <3>2, <3>3
  <2> QED BY <2>1 DEF LockCounted, RemainingIsHeld, Target, IsActiveAdmin
<1>5. SomeActiveAdmin'
  BY DEF LockCounted, SomeActiveAdmin, ActiveAdmins, IsActiveAdmin
<1>6. PermissionHolds'
  BY DEF LockCounted, TypeOK, PermissionHolds, Permitted, Deletable, Deletes, RemovesAdmin, Target
<1> QED BY <1>1, <1>2, <1>3, <1>4, <1>5, <1>6

\* The count is positive only if another active administrator is locked.
LEMMA EndCountGuard ==
  ASSUME GuardInv, NEW t \in Txs, EndCount(t)
  PROVE  GuardInv'
<1> USE DEF GuardInv
<1>1. TypeOK'
  BY DEF EndCount, TypeOK
<1>2. LocksAreLive'
  BY NoTxAssumption DEF EndCount, TypeOK, LocksAreLive, IsActiveAdmin, Target
<1>3. DecidesOnCurrentRow'
  BY DEF EndCount, TypeOK, DecidesOnCurrentRow, Target, Row
<1>4. RemainingIsHeld'
  <2>1. PICK u \in found[t] : u # Target(t)
    BY DEF EndCount, Remaining
  <2>2. u \in Users \ {Target(t)} /\ IsActiveAdmin(u) /\ owner[u] = t
    BY <2>1 DEF TypeOK, LocksAreLive
  <2>3. ASSUME NEW o \in Txs, pc'[o] = "write", MustCount(o)'
        PROVE  \E v \in Users \ {Target(o)} : IsActiveAdmin(v) /\ owner[v] = o
    <3>1. CASE o = t
      BY <2>2, <3>1
    <3>2. CASE o # t
      BY <2>3, <3>2 DEF EndCount, TypeOK, RemainingIsHeld, MustCount, Deletes, RemovesAdmin, Target
    <3> QED BY <3>1, <3>2
  <2> QED BY <2>3 DEF EndCount, RemainingIsHeld, Target, IsActiveAdmin
<1>5. SomeActiveAdmin'
  BY DEF EndCount, SomeActiveAdmin, ActiveAdmins, IsActiveAdmin
<1>6. PermissionHolds'
  BY DEF EndCount, TypeOK, PermissionHolds, Permitted, Deletable, Deletes, RemovesAdmin, Target
<1> QED BY <1>1, <1>2, <1>3, <1>4, <1>5, <1>6

-----------------------------------------------------------------------------
\* The end of a transaction gives up its locks, and only its own.
LEMMA EndLocks ==
  ASSUME TypeOK, NEW t \in Txs, End(t)
  PROVE  /\ \A u \in Users : owner[u] = t => owner'[u] = NoTx
         /\ \A u \in Users : owner[u] # t => owner'[u] = owner[u]
         /\ owner' \in [Users -> Txs \cup {NoTx}]
BY DEF TypeOK, End, LocksAfter

\* The end of a transaction leaves the others as they are, and this one without a request.
LEMMA EndLocals ==
  ASSUME TypeOK, NEW t \in Txs, End(t)
  PROVE  /\ pc' \in [Txs -> {"idle", "target", "read", "count", "write"}]
         /\ req' \in [Txs -> Requests] /\ cur' \in [Txs -> Rows]
         /\ todo' \in [Txs -> SUBSET Users] /\ found' \in [Txs -> SUBSET Users]
         /\ pc'[t] = "idle" /\ found'[t] = {} /\ todo'[t] = {}
         /\ \A o \in Txs \ {t} :
              /\ pc'[o] = pc[o] /\ req'[o] = req[o] /\ cur'[o] = cur[o]
              /\ todo'[o] = todo[o] /\ found'[o] = found[o]
<1>1. NoRequest \in Requests /\ NoRow \in Rows
  <2>1. PICK u : u \in Users
    BY WantType DEF TypeOK
  <2> QED BY <2>1, NoLocalsType
<1> QED BY <1>1 DEF TypeOK, End

\* A transaction ends without changing a row: refused, cancelled or aborted.
LEMMA RollbackGuard ==
  ASSUME GuardInv, NEW t \in Txs, End(t), UNCHANGED <<role, status>>
  PROVE  GuardInv'
<1> USE DEF GuardInv
<1>1. TypeOK'
  BY EndLocks, EndLocals DEF TypeOK
<1>2. LocksAreLive'
  <2>1. \A u \in Users : owner'[u] # NoTx => status[u] # "ABSENT" /\ pc'[owner'[u]] \in {"read", "count", "write"}
    BY EndLocks, EndLocals DEF LocksAreLive, TypeOK
  <2>2. \A o \in Txs : \A u \in todo'[o] : status[u] # "ABSENT"
    BY EndLocals DEF LocksAreLive
  <2>3. \A o \in Txs : pc'[o] \in {"read", "count", "write"} => owner'[req'[o].target] = o
    BY EndLocks, EndLocals, WantType, NoTxAssumption DEF LocksAreLive, TypeOK, Target
  <2>4. \A o \in Txs : \A u \in found'[o] : owner'[u] = o /\ IsActiveAdmin(u)
    BY EndLocks, EndLocals DEF LocksAreLive, TypeOK
  <2> QED BY <2>1, <2>2, <2>3, <2>4 DEF LocksAreLive, Target, IsActiveAdmin
<1>3. DecidesOnCurrentRow'
  BY EndLocals DEF DecidesOnCurrentRow, TypeOK, Target, Row
<1>4. RemainingIsHeld'
  <2>1. ASSUME NEW o \in Txs, pc'[o] = "write", MustCount(o)'
        PROVE  \E v \in Users \ {req'[o].target} : IsActiveAdmin(v) /\ owner'[v] = o
    <3>1. o # t /\ pc[o] = "write" /\ MustCount(o) /\ req'[o] = req[o]
      BY <2>1, EndLocals DEF MustCount, Deletes, RemovesAdmin, Target
    <3>2. PICK v \in Users \ {Target(o)} : IsActiveAdmin(v) /\ owner[v] = o
      BY <3>1 DEF RemainingIsHeld
    <3>3. owner'[v] = o
      BY <3>1, <3>2, EndLocks
    <3> QED BY <3>1, <3>2, <3>3 DEF Target
  <2> QED BY <2>1 DEF RemainingIsHeld, Target, IsActiveAdmin
<1>5. SomeActiveAdmin'
  BY DEF SomeActiveAdmin, ActiveAdmins, IsActiveAdmin
<1>6. PermissionHolds'
  BY EndLocals DEF PermissionHolds, Permitted, Deletable, Deletes, RemovesAdmin, Target
<1> QED BY <1>1, <1>2, <1>3, <1>4, <1>5, <1>6

\* What a commit changes: the target's row and nobody else's.
LEMMA CommitRows ==
  ASSUME TypeOK, NEW t \in Txs, Commit(t)
  PROVE  /\ role' \in [Users -> Roles] /\ status' \in [Users -> Statuses]
         /\ role'[Target(t)] = NewRole(t) /\ status'[Target(t)] = NewStatus(t)
         /\ NewStatus(t) # "ABSENT"
         /\ \A u \in Users \ {Target(t)} : role'[u] = role[u] /\ status'[u] = status[u]
BY WrittenType DEF TypeOK, Commit

\* Whoever takes the last-but-one administrator away holds the last one's row: somebody stays.
LEMMA CommitKeepsAdmin ==
  ASSUME GuardInv, NEW t \in Txs, Commit(t)
  PROVE  SomeActiveAdmin'
<1> USE DEF GuardInv
<1>1. CASE MustCount(t)
  <2>1. PICK v \in Users \ {Target(t)} : IsActiveAdmin(v)
    BY <1>1 DEF Commit, RemainingIsHeld
  <2>2. IsActiveAdmin(v)'
    BY <2>1, CommitRows DEF IsActiveAdmin
  <2> QED BY <2>1, <2>2 DEF SomeActiveAdmin, ActiveAdmins
<1>2. CASE ~MustCount(t)
  <2>1. PICK v \in Users : IsActiveAdmin(v)
    BY DEF SomeActiveAdmin, ActiveAdmins
  <2>2. cur[t] = Row(Target(t)) /\ cur[t] \in Rows
    BY DEF Commit, DecidesOnCurrentRow, TypeOK
  <2>3. ASSUME v = Target(t)
        PROVE  NewRole(t) = "ADMIN" /\ NewStatus(t) = "ACTIVE"
    <3>1. cur[t] = [role |-> "ADMIN", status |-> "ACTIVE"]
      BY <2>1, <2>2, <2>3 DEF IsActiveAdmin, Row
    <3>2. ~Deletes(t) /\ req[t].want = [role |-> "ADMIN", status |-> "ACTIVE"]
      BY <1>2, <3>1 DEF MustCount, RemovesAdmin
    <3> QED BY <3>2 DEF NewRole, NewStatus
  <2>4. IsActiveAdmin(v)'
    <3>1. CASE v = Target(t)
      BY <2>3, <3>1, CommitRows DEF IsActiveAdmin
    <3>2. CASE v # Target(t)
      BY <2>1, <3>2, CommitRows DEF IsActiveAdmin
    <3> QED BY <3>1, <3>2
  <2> QED BY <2>1, <2>4 DEF SomeActiveAdmin, ActiveAdmins
<1> QED BY <1>1, <1>2

\* A commit changes a row its transaction holds, so no other transaction's knowledge grows stale.
LEMMA CommitGuard ==
  ASSUME GuardInv, NEW t \in Txs, Commit(t)
  PROVE  GuardInv'
<1> USE DEF GuardInv
<1>0. End(t) /\ Target(t) \in Users /\ owner[Target(t)] = t
  BY WrittenType DEF Commit, LocksAreLive
<1>1. TypeOK'
  BY <1>0, EndLocks, EndLocals, CommitRows DEF TypeOK
<1>2. LocksAreLive'
  <2>1. \A u \in Users : owner'[u] # NoTx => status'[u] # "ABSENT" /\ pc'[owner'[u]] \in {"read", "count", "write"}
    BY <1>0, EndLocks, EndLocals, CommitRows DEF LocksAreLive, TypeOK
  <2>2. \A o \in Txs : \A u \in todo'[o] : status'[u] # "ABSENT"
    BY <1>0, EndLocals, CommitRows DEF LocksAreLive, TypeOK
  <2>3. \A o \in Txs : pc'[o] \in {"read", "count", "write"} => owner'[req'[o].target] = o
    BY <1>0, EndLocks, EndLocals, WantType, NoTxAssumption DEF LocksAreLive, TypeOK, Target
  <2>4. ASSUME NEW o \in Txs, NEW u \in found'[o]
        PROVE  owner'[u] = o /\ IsActiveAdmin(u)'
    <3>1. o # t /\ u \in found[o] /\ u \in Users
      BY <1>0, <2>4, EndLocals DEF TypeOK
    <3>2. owner[u] = o /\ IsActiveAdmin(u)
      BY <3>1 DEF LocksAreLive
    <3>3. u # Target(t)
      BY <1>0, <3>1, <3>2
    <3> QED BY <1>0, <3>1, <3>2, <3>3, EndLocks, CommitRows DEF IsActiveAdmin
  <2> QED BY <2>1, <2>2, <2>3, <2>4 DEF LocksAreLive, Target
<1>3. DecidesOnCurrentRow'
  <2>1. ASSUME NEW o \in Txs, pc'[o] \in {"read", "count", "write"}
        PROVE  cur'[o] = Row(Target(o))'
    <3>1. o # t /\ pc[o] \in {"read", "count", "write"} /\ req'[o] = req[o] /\ cur'[o] = cur[o]
      BY <1>0, <2>1, EndLocals
    <3>2. owner[Target(o)] = o /\ cur[o] = Row(Target(o))
      BY <3>1 DEF LocksAreLive, DecidesOnCurrentRow
    <3>3. Target(o) \in Users \ {Target(t)}
      BY <1>0, <3>1, <3>2, WrittenType
    <3>4. role'[Target(o)] = role[Target(o)] /\ status'[Target(o)] = status[Target(o)]
      BY <3>3, CommitRows
    <3> QED BY <3>1, <3>2, <3>4 DEF Row, Target
  <2> QED BY <2>1 DEF DecidesOnCurrentRow
<1>4. RemainingIsHeld'
  <2>1. ASSUME NEW o \in Txs, pc'[o] = "write", MustCount(o)'
        PROVE  \E v \in Users \ {req'[o].target} : IsActiveAdmin(v)' /\ owner'[v] = o
    <3>1. o # t /\ pc[o] = "write" /\ MustCount(o) /\ req'[o] = req[o]
      BY <1>0, <2>1, EndLocals DEF MustCount, Deletes, RemovesAdmin, Target
    <3>2. PICK v \in Users \ {Target(o)} : IsActiveAdmin(v) /\ owner[v] = o
      BY <3>1 DEF RemainingIsHeld
    <3>3. owner'[v] = o /\ IsActiveAdmin(v)'
      BY <1>0, <3>1, <3>2, EndLocks, CommitRows DEF IsActiveAdmin
    <3> QED BY <3>1, <3>2, <3>3 DEF Target
  <2> QED BY <2>1 DEF RemainingIsHeld, Target
<1>5. SomeActiveAdmin'
  BY CommitKeepsAdmin
<1>6. PermissionHolds'
  BY <1>0, EndLocals DEF PermissionHolds, Permitted, Deletable, Deletes, RemovesAdmin, Target
<1> QED BY <1>1, <1>2, <1>3, <1>4, <1>5, <1>6

-----------------------------------------------------------------------------
\* A registration makes a row nobody holds or waits to count.
LEMMA RegisterGuard ==
  ASSUME GuardInv, NEW u \in Users, RegisterUser(u)
  PROVE  GuardInv'
<1> USE DEF GuardInv
<1>0. /\ status' = [status EXCEPT ![u] = "PENDING"] /\ status[u] = "ABSENT" /\ role' = role
      /\ UNCHANGED <<pc, req, cur, todo, found, owner>>
  BY DEF RegisterUser, Register, txVars
<1>1. TypeOK'
  BY <1>0 DEF TypeOK, Statuses
<1>2. \A v \in Users \ {u} : status'[v] = status[v]
  BY <1>0 DEF TypeOK
<1>3. LocksAreLive'
  BY <1>0, <1>2 DEF LocksAreLive, TypeOK, Target, IsActiveAdmin
<1>4. DecidesOnCurrentRow'
  <2>1. ASSUME NEW t \in Txs, pc[t] \in {"read", "count", "write"}
        PROVE  Target(t) \in Users \ {u}
    BY <1>0, <2>1, WrittenType, NoTxAssumption DEF LocksAreLive
  <2> QED BY <1>0, <1>2, <2>1 DEF DecidesOnCurrentRow, Target, Row
<1>5. RemainingIsHeld'
  BY <1>0, <1>2 DEF RemainingIsHeld, MustCount, Deletes, RemovesAdmin, Target, IsActiveAdmin
<1>6. SomeActiveAdmin'
  BY <1>0, <1>2 DEF SomeActiveAdmin, ActiveAdmins, IsActiveAdmin
<1>7. PermissionHolds'
  BY <1>0 DEF PermissionHolds, Permitted, Deletable, Deletes, RemovesAdmin, Target
<1> QED BY <1>1, <1>3, <1>4, <1>5, <1>6, <1>7

\* A verification waits for the row's lock, so it changes no row a transaction has read.
LEMMA VerifyGuard ==
  ASSUME GuardInv, NEW u \in Users, VerifyUser(u)
  PROVE  GuardInv'
<1> USE DEF GuardInv
<1>0. /\ status' = [status EXCEPT ![u] = "ACTIVE"] /\ status[u] = "PENDING" /\ role' = role
      /\ owner[u] = NoTx
      /\ UNCHANGED <<pc, req, cur, todo, found, owner>>
  BY DEF VerifyUser, Verify, txVars
<1>1. TypeOK'
  BY <1>0 DEF TypeOK, Statuses
<1>2. \A v \in Users \ {u} : status'[v] = status[v]
  BY <1>0 DEF TypeOK
<1>3. LocksAreLive'
  <2>1. \A v \in Users : status[v] # "ABSENT" => status'[v] # "ABSENT"
    BY <1>0 DEF TypeOK
  <2>2. \A v \in Users : IsActiveAdmin(v) => IsActiveAdmin(v)'
    BY <1>0, <1>2 DEF IsActiveAdmin
  <2> QED BY <1>0, <2>1, <2>2 DEF LocksAreLive, TypeOK, Target
<1>4. DecidesOnCurrentRow'
  <2>1. ASSUME NEW t \in Txs, pc[t] \in {"read", "count", "write"}
        PROVE  Target(t) \in Users \ {u}
    BY <1>0, <2>1, WrittenType, NoTxAssumption DEF LocksAreLive
  <2> QED BY <1>0, <1>2, <2>1 DEF DecidesOnCurrentRow, Target, Row
<1>5. RemainingIsHeld'
  BY <1>0, <1>2 DEF RemainingIsHeld, MustCount, Deletes, RemovesAdmin, Target, IsActiveAdmin
<1>6. SomeActiveAdmin'
  BY <1>0, <1>2 DEF SomeActiveAdmin, ActiveAdmins, IsActiveAdmin
<1>7. PermissionHolds'
  BY <1>0 DEF PermissionHolds, Permitted, Deletable, Deletes, RemovesAdmin, Target
<1> QED BY <1>1, <1>3, <1>4, <1>5, <1>6, <1>7

\* A step that changes nothing.
LEMMA StutterGuard ==
  ASSUME GuardInv, UNCHANGED vars
  PROVE  GuardInv'
<1> USE DEF GuardInv, vars, txVars
<1>1. TypeOK'
  BY DEF TypeOK
<1>2. LocksAreLive'
  BY DEF LocksAreLive, Target, IsActiveAdmin
<1>3. DecidesOnCurrentRow'
  BY DEF DecidesOnCurrentRow, Target, Row
<1>4. RemainingIsHeld'
  BY DEF RemainingIsHeld, MustCount, Deletes, RemovesAdmin, Target, IsActiveAdmin
<1>5. SomeActiveAdmin'
  BY DEF SomeActiveAdmin, ActiveAdmins, IsActiveAdmin
<1>6. PermissionHolds'
  BY DEF PermissionHolds, Permitted, Deletable, Deletes, RemovesAdmin, Target
<1> QED BY <1>1, <1>2, <1>3, <1>4, <1>5, <1>6

\* Every step keeps the invariant.
LEMMA StepGuard == GuardInv /\ [Next]_vars => GuardInv'
<1> SUFFICES ASSUME GuardInv, [Next]_vars PROVE GuardInv'
  OBVIOUS
<1>1. ASSUME NEW t \in Txs, NEW r \in Requests, Begin(t, r) PROVE GuardInv'
  BY <1>1, BeginGuard
<1>2. ASSUME NEW t \in Txs, Step(t) PROVE GuardInv'
  <2>1. CASE LockTarget(t)
    BY <2>1, LockTargetGuard
  <2>2. CASE StartCount(t)
    BY <2>2, StartCountGuard
  <2>3. CASE SkipCount(t)
    BY <2>3, SkipCountGuard
  <2>4. ASSUME NEW u \in Users, LockCounted(t, u) PROVE GuardInv'
    BY <2>4, LockCountedGuard
  <2>5. CASE EndCount(t)
    BY <2>5, EndCountGuard
  <2>6. CASE Commit(t)
    BY <2>6, CommitGuard
  <2>7. CASE Refuse(t)
    BY <2>7, RollbackGuard DEF Refuse
  <2> QED BY <1>2, <2>1, <2>2, <2>3, <2>4, <2>5, <2>6, <2>7 DEF Step
<1>3. ASSUME NEW t \in Txs, Cancel(t) \/ Abort(t) PROVE GuardInv'
  BY <1>3, RollbackGuard DEF Cancel, Abort
<1>4. ASSUME NEW u \in Users, RegisterUser(u) \/ VerifyUser(u) PROVE GuardInv'
  BY <1>4, RegisterGuard, VerifyGuard
<1>5. CASE UNCHANGED vars
  BY <1>5, StutterGuard
<1> QED BY <1>1, <1>2, <1>3, <1>4, <1>5 DEF Next

\* The inductive invariant holds in every reachable state.
THEOREM GuardInvariant == Spec => []GuardInv
BY InitGuard, StepGuard, PTL DEF Spec

\* Every variable keeps its type.
THEOREM TypeInvariant == Spec => []TypeOK
<1>1. GuardInv => TypeOK
  BY DEF GuardInv
<1> QED BY <1>1, GuardInvariant, PTL

\* The system is never left without an active administrator, whatever administrators and account
\* owners do concurrently (the "remaining" checks of AdminUpdateUser and deleteAccount).
THEOREM NeverWithoutAdmin == Spec => []SomeActiveAdmin
<1>1. GuardInv => SomeActiveAdmin
  BY DEF GuardInv
<1> QED BY <1>1, GuardInvariant, PTL

\* A transaction decides on the target's committed row, from reading it to its commit.
THEOREM NoStaleDecision == Spec => []DecidesOnCurrentRow
<1>1. GuardInv => DecidesOnCurrentRow
  BY DEF GuardInv
<1> QED BY <1>1, GuardInvariant, PTL

-----------------------------------------------------------------------------
\* A commit is an Assign of the registry: it keeps an administrator where Assign asks for one.
LEMMA CommitAssigns ==
  ASSUME GuardInv, NEW t \in Txs, Commit(t)
  PROVE  Registry!RegistryNext
<1> USE DEF GuardInv
<1> DEFINE u == Target(t)
           r == NewRole(t)
           s == NewStatus(t)
<1>1. u \in Users /\ r \in Roles /\ s \in Statuses
  BY WrittenType
<1>2. owner[u] = t /\ cur[t] = Row(u) /\ req[t] \in Requests
  BY DEF Commit, LocksAreLive, DecidesOnCurrentRow, TypeOK
<1>3. status[u] # "ABSENT"
  BY <1>1, <1>2, NoTxAssumption DEF LocksAreLive
<1>4. s \in AssignableStatuses \/ (s = "DELETED" /\ r = role[u] /\ status[u] # "DELETED")
  <2>1. CASE Deletes(t)
    <3>1. Deletable(t)
      BY <2>1 DEF Commit, PermissionHolds, Permitted
    <3> QED BY <1>2, <2>1, <3>1 DEF Deletes, Deletable, Deletion, NewRole, NewStatus, Row
  <2>2. CASE ~Deletes(t)
    BY <1>2, <2>2 DEF Deletes, NewStatus, Requests
  <2> QED BY <2>1, <2>2
<1>5. role' = [role EXCEPT ![u] = r] /\ status' = [status EXCEPT ![u] = s]
  BY DEF Commit
<1>6. ASSUME IsActiveAdmin(u), <<r, s>> # <<"ADMIN", "ACTIVE">>
      PROVE  ActiveAdmins \ {u} # {}
  <2>1. cur[t] = [role |-> "ADMIN", status |-> "ACTIVE"]
    BY <1>2, <1>6 DEF IsActiveAdmin, Row
  <2>2. MustCount(t)
    BY <1>6, <2>1 DEF MustCount, RemovesAdmin, NewRole, NewStatus
  <2> QED BY <2>2 DEF Commit, RemainingIsHeld, ActiveAdmins
<1>7. Registry!Assign(u, r, s)
  BY <1>3, <1>4, <1>5, <1>6
     DEF Registry!Assign, Registry!AssignableStatuses, AssignableStatuses, Registry!IsActiveAdmin, IsActiveAdmin,
         Registry!ActiveAdmins, ActiveAdmins
<1> QED BY <1>1, <1>7
     DEF Registry!RegistryNext, Registry!Roles, Roles, Registry!Statuses, Statuses

\* Every other step changes no row, or is the registry's own.
LEMMA StepImplements == GuardInv /\ [Next]_vars => [Registry!RegistryNext]_(Registry!registryVars)
<1> SUFFICES ASSUME GuardInv, Next
             PROVE  Registry!RegistryNext \/ UNCHANGED <<role, status>>
  BY DEF vars, Registry!registryVars
<1>1. ASSUME NEW t \in Txs, Step(t)
      PROVE  Registry!RegistryNext \/ UNCHANGED <<role, status>>
  <2>1. CASE Commit(t)
    BY <2>1, CommitAssigns
  <2>2. CASE ~Commit(t)
    BY <1>1, <2>2 DEF Step, LockTarget, StartCount, SkipCount, LockCounted, EndCount, Refuse
  <2> QED BY <2>1, <2>2
<1>2. ASSUME NEW t \in Txs, NEW r \in Requests, Begin(t, r)
      PROVE  UNCHANGED <<role, status>>
  BY <1>2 DEF Begin
<1>3. ASSUME NEW t \in Txs, Cancel(t) \/ Abort(t)
      PROVE  UNCHANGED <<role, status>>
  BY <1>3 DEF Cancel, Abort
<1>4. ASSUME NEW u \in Users, RegisterUser(u) \/ VerifyUser(u)
      PROVE  Registry!RegistryNext
  BY <1>4 DEF RegisterUser, VerifyUser, Registry!RegistryNext, Register, Registry!Register, Verify, Registry!Verify
<1> QED BY <1>1, <1>2, <1>3, <1>4 DEF Next

\* The transactions, with their row locks and their reads at different times, do to the accounts
\* what the atomic operations of AccountRegistry do.
THEOREM Refinement == Spec => ImplementsRegistry
<1>1. Init => Registry!RegistryInit
  BY DEF Init, RegistryInit, Registry!RegistryInit
<1> QED BY <1>1, GuardInvariant, StepImplements, PTL DEF Spec, ImplementsRegistry, Registry!RegistrySpec
=============================================================================
