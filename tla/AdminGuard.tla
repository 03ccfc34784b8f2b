------------------------------ MODULE AdminGuard ------------------------------
(***************************************************************************)
(* Administration of accounts in internal/store/users.go: AdminUpdateUser, *)
(* AdminDeleteUser and DeleteAccount, which must never leave the system    *)
(* without an active administrator, run by concurrent HTTP handlers.       *)
(*                                                                         *)
(* The database is PostgreSQL at READ COMMITTED: a statement sees what is  *)
(* committed when it starts, SELECT ... FOR UPDATE takes the row locks one *)
(* by one in the order of the ids, waits for each, and re-evaluates its    *)
(* WHERE clause on the row as it is once the lock is granted; a commit or  *)
(* rollback releases every lock of the transaction; of transactions that   *)
(* wait in a cycle one is aborted.  SQLite runs with one connection, so    *)
(* its executions are the ones here in which transactions do not overlap.  *)
(***************************************************************************)
EXTENDS AccountRegistry

CONSTANTS
  Txs,   \* concurrent requests, each with its transaction
  NoTx   \* owner of a row that nobody has locked

ASSUME NoTxAssumption == NoTx \notin Txs

VARIABLES
  pc,     \* where each transaction is
  req,    \* the request it serves
  cur,    \* the target's row as the transaction read it ("current" in the code)
  todo,   \* rows its SELECT ... FOR UPDATE has yet to lock
  found,  \* rows that SELECT has returned so far ("activeAdminIDs")
  owner   \* the transaction that holds each row's lock

txVars == <<pc, req, cur, todo, found>>
vars   == <<role, status, txVars, owner>>

Deletion == [role |-> "USER", status |-> "DELETED"]  \* of which only the status is used
Rows     == [role : Roles, status : Statuses]
\* Of the requester matters whether it is the target itself ("actorID == id") or another account.
Requests == [target : Users, self : BOOLEAN, want : [role : Roles, status : AssignableStatuses] \cup {Deletion}]

\* What a transaction's locals hold while there is no request.
NoRequest == CHOOSE r \in Requests : TRUE
NoRow     == CHOOSE r \in Rows : TRUE

Target(t) == req[t].target
Row(u)    == [role |-> role[u], status |-> status[u]]

\* What the request would leave in the target's row.
Deletes(t)   == req[t].want = Deletion
NewRole(t)   == IF Deletes(t) THEN cur[t].role ELSE req[t].want.role
NewStatus(t) == req[t].want.status

-----------------------------------------------------------------------------
Init ==
  /\ RegistryInit
  /\ pc    = [t \in Txs |-> "idle"]
  /\ req   = [t \in Txs |-> NoRequest]
  /\ cur   = [t \in Txs |-> NoRow]
  /\ todo  = [t \in Txs |-> {}]
  /\ found = [t \in Txs |-> {}]
  /\ owner = [u \in Users |-> NoTx]

\* The middleware and the handler let the request through: requireAuth wants an ACTIVE account,
\* requireAdmin its role; the admin handlers refuse to demote or delete oneself, and
\* DeleteAccount is always about oneself.  None of this is looked at again in the transaction.
Admitted(r) ==
  \/ ~r.self /\ \E actor \in Users \ {r.target} : IsActiveAdmin(actor)
  \/ r.self /\ IsActiveAdmin(r.target) /\ r.want = [role |-> "ADMIN", status |-> "ACTIVE"]
  \/ r.self /\ status[r.target] = "ACTIVE" /\ r.want = Deletion

Begin(t, r) ==
  /\ pc[t] = "idle"
  /\ Admitted(r)
  /\ pc'  = [pc EXCEPT ![t] = "target"]
  /\ req' = [req EXCEPT ![t] = r]
  /\ UNCHANGED <<role, status, cur, todo, found, owner>>

\* SELECT * FROM users WHERE id = ? FOR UPDATE.
LockTargetUnlocked(t) ==
  /\ pc[t] = "target"
  /\ status[Target(t)] # "ABSENT"
  /\ cur' = [cur EXCEPT ![t] = Row(Target(t))]
  /\ pc'  = [pc EXCEPT ![t] = "read"]
  /\ UNCHANGED <<role, status, req, todo, found, owner>>
LockTarget(t) ==
  /\ pc[t] = "target"
  /\ status[Target(t)] # "ABSENT"
  /\ owner[Target(t)] = NoTx
  /\ owner' = [owner EXCEPT ![Target(t)] = t]
  /\ cur'   = [cur EXCEPT ![t] = Row(Target(t))]
  /\ pc'    = [pc EXCEPT ![t] = "read"]
  /\ UNCHANGED <<role, status, req, todo, found>>

\* AdminUpdateUser takes an active administrator away ("removingAdmin").
RemovesAdmin(t) ==
  /\ cur[t] = [role |-> "ADMIN", status |-> "ACTIVE"]
  /\ req[t].want # [role |-> "ADMIN", status |-> "ACTIVE"]

\* deleteAccount: DELETED is refused, and only an administrator deletes DISABLED and PENDING.
Deletable(t) ==
  \/ cur[t].status = "ACTIVE"
  \/ ~req[t].self /\ cur[t].status \in {"DISABLED", "PENDING"}

Permitted(t) ==
  IF Deletes(t) THEN Deletable(t) ELSE ~(req[t].self /\ RemovesAdmin(t))

\* When the other active administrators are counted: deleteAccount looks at the role alone.
MustCountOnUpdateOnly(t) == ~Deletes(t) /\ RemovesAdmin(t)
MustCount(t) == IF Deletes(t) THEN cur[t].role = "ADMIN" ELSE RemovesAdmin(t)

\* SELECT id FROM users WHERE role = ADMIN AND status = ACTIVE ORDER BY id FOR UPDATE starts.
StartCount(t) ==
  /\ pc[t] = "read" /\ Permitted(t) /\ MustCount(t)
  /\ todo' = [todo EXCEPT ![t] = ActiveAdmins]
  /\ pc'   = [pc EXCEPT ![t] = "count"]
  /\ UNCHANGED <<role, status, req, cur, found, owner>>

SkipCount(t) ==
  /\ pc[t] = "read" /\ Permitted(t) /\ ~MustCount(t)
  /\ pc' = [pc EXCEPT ![t] = "write"]
  /\ UNCHANGED <<role, status, req, cur, todo, found, owner>>

\* That SELECT takes the next row's lock and keeps the row if it still matches.
IsNext(t, u) == u \in todo[t] /\ \A v \in todo[t] : u <= v

RowMatches(u) == IsActiveAdmin(u)

LockCounted(t, u) ==
  /\ pc[t] = "count" /\ IsNext(t, u)
  /\ owner[u] \in {NoTx, t}
  /\ owner' = [owner EXCEPT ![u] = t]
  /\ todo'  = [todo EXCEPT ![t] = @ \ {u}]
  /\ found' = [found EXCEPT ![t] = IF RowMatches(u) THEN @ \cup {u} ELSE @]
  /\ UNCHANGED <<role, status, pc, req, cur>>

\* "remaining" counts the rows found, other than the target.
RemainingWithTarget(t) == found[t]
Remaining(t) == found[t] \ {Target(t)}

EndCount(t) ==
  /\ pc[t] = "count" /\ todo[t] = {} /\ Remaining(t) # {}
  /\ pc' = [pc EXCEPT ![t] = "write"]
  /\ UNCHANGED <<role, status, req, cur, todo, found, owner>>

-----------------------------------------------------------------------------
\* The end of a transaction: its locks are released, the request answered.
LocksOfNone(t) == owner
LocksAfter(t)  == [u \in Users |-> IF owner[u] = t THEN NoTx ELSE owner[u]]

End(t) ==
  /\ owner' = LocksAfter(t)
  /\ pc'    = [pc EXCEPT ![t] = "idle"]
  /\ todo'  = [todo EXCEPT ![t] = {}]
  /\ found' = [found EXCEPT ![t] = {}]
  /\ req'   = [req EXCEPT ![t] = NoRequest]
  /\ cur'   = [cur EXCEPT ![t] = NoRow]

\* UPDATE users ... and commit (the sessions it revokes are in module AuthSessions).  The delete
\* also requires the status to be the one it read; the lock has kept it so.
Commit(t) ==
  /\ pc[t] = "write"
  /\ Deletes(t) => status[Target(t)] = cur[t].status
  /\ role'   = [role EXCEPT ![Target(t)] = NewRole(t)]
  /\ status' = [status EXCEPT ![Target(t)] = NewStatus(t)]
  /\ End(t)

\* Every refusal rolls back: no such account, not permitted, no administrator would remain.
Refuse(t) ==
  /\ \/ pc[t] = "target" /\ status[Target(t)] = "ABSENT"
     \/ pc[t] = "read" /\ ~Permitted(t)
     \/ pc[t] = "count" /\ todo[t] = {} /\ Remaining(t) = {}
  /\ End(t)
  /\ UNCHANGED <<role, status>>

\* The client goes away: the request's context ends and the deferred rollback runs.
Cancel(t) ==
  /\ pc[t] # "idle"
  /\ End(t)
  /\ UNCHANGED <<role, status>>

\* Who holds the lock the transaction needs next.
Blockers(t) ==
  {o \in Txs \ {t} :
     \/ pc[t] = "target" /\ owner[Target(t)] = o
     \/ pc[t] = "count" /\ \E u \in todo[t] : IsNext(t, u) /\ owner[u] = o}

\* The database aborts a transaction that waits in a cycle.
InWaitCycle(t) ==
  \E S \in SUBSET Txs : t \in S /\ UNION {Blockers(s) : s \in S} = S

Abort(t) ==
  /\ InWaitCycle(t)
  /\ End(t)
  /\ UNCHANGED <<role, status>>

-----------------------------------------------------------------------------
\* Registration and verification, transactions of their own: an UPDATE waits for a locked row.
RegisterUser(u) == Register(u) /\ UNCHANGED <<txVars, owner>>
VerifyUser(u)   == owner[u] = NoTx /\ Verify(u) /\ UNCHANGED <<txVars, owner>>

Step(t) ==
  \/ LockTarget(t) \/ StartCount(t) \/ SkipCount(t)
  \/ \E u \in Users : LockCounted(t, u)
  \/ EndCount(t) \/ Commit(t) \/ Refuse(t)

Next ==
  \/ \E t \in Txs : (\E r \in Requests : Begin(t, r)) \/ Step(t) \/ Cancel(t) \/ Abort(t)
  \/ \E u \in Users : RegisterUser(u) \/ VerifyUser(u)

Spec == Init /\ [][Next]_vars

\* A handler that can go on does; waiters for a row lock are served in turn, hence strong fairness;
\* the database's deadlock detection keeps running.  Nothing makes a client send or cancel a request.
Fairness == \A t \in Txs : SF_vars(Step(t)) /\ WF_vars(Abort(t))

FairSpec == Spec /\ Fairness

-----------------------------------------------------------------------------
TypeOK ==
  /\ role \in [Users -> Roles]
  /\ status \in [Users -> Statuses]
  /\ pc \in [Txs -> {"idle", "target", "read", "count", "write"}]
  /\ req \in [Txs -> Requests]
  /\ cur \in [Txs -> Rows]
  /\ todo \in [Txs -> SUBSET Users]
  /\ found \in [Txs -> SUBSET Users]
  /\ owner \in [Users -> Txs \cup {NoTx}]

\* Whatever administrators and account owners do at the same time, somebody can still administer
\* the system ("last administrator" checks of AdminUpdateUser and deleteAccount).
SomeActiveAdmin == ActiveAdmins # {}

\* From the moment a transaction has read its target to its commit, what it read is what is
\* committed: every decision it makes is about the account as it is, not as it was.
DecidesOnCurrentRow ==
  \A t \in Txs : pc[t] \in {"read", "count", "write"} => cur[t] = Row(Target(t))

\* When a transaction is about to take an active administrator away, another one exists whose row
\* it holds locked, so no concurrent transaction can take that one away as well.
RemainingIsHeld ==
  \A t \in Txs : pc[t] = "write" /\ MustCount(t) =>
    \E u \in Users \ {Target(t)} : IsActiveAdmin(u) /\ owner[u] = t

\* Locks are held by running transactions only, on rows that exist; the target and the rows found
\* are held.
LocksAreLive ==
  /\ \A u \in Users : owner[u] # NoTx => status[u] # "ABSENT" /\ pc[owner[u]] \in {"read", "count", "write"}
  /\ \A t \in Txs : \A u \in todo[t] : status[u] # "ABSENT"
  /\ \A t \in Txs : pc[t] \in {"read", "count", "write"} => owner[Target(t)] = t
  /\ \A t \in Txs : \A u \in found[t] : owner[u] = t /\ IsActiveAdmin(u)

\* What a transaction counts or writes for was permitted.
PermissionHolds == \A t \in Txs : pc[t] \in {"count", "write"} => Permitted(t)

\* The inductive invariant: what is known of the rows a transaction has locked, from its first
\* SELECT to its commit, and the administrator who is left because of it.
GuardInv ==
  /\ TypeOK
  /\ LocksAreLive
  /\ DecidesOnCurrentRow
  /\ PermissionHolds
  /\ RemainingIsHeld
  /\ SomeActiveAdmin

\* Every administration request is answered: the row locks, taken in different orders by requests
\* about different targets, never leave handlers waiting for each other forever.
RequestsAreAnswered == \A t \in Txs : pc[t] # "idle" ~> pc[t] = "idle"

\* The transactions implement the atomic operations of the registry.
Registry == INSTANCE AccountRegistry
ImplementsRegistry == Registry!RegistrySpec
=============================================================================
