--------------------------- MODULE AccountRegistry ---------------------------
(***************************************************************************)
(* What the account administration promises, as one atomic step per        *)
(* operation: roles and statuses change one account at a time, and the     *)
(* operation that would take away the last active administrator is         *)
(* refused.  Module AdminGuard shows how the store's transactions, with    *)
(* their row locks and stale reads, implement this.                        *)
(***************************************************************************)
EXTENDS Naturals

CONSTANT Users  \* account ids; ids are totally ordered, as the SQL "ORDER BY id" needs

ASSUME UsersAssumption == Users \subseteq Nat

VARIABLES
  role,    \* users.role of each account
  status   \* users.status, or "ABSENT" while no row exists

registryVars == <<role, status>>

Roles    == {"ADMIN", "USER"}
Statuses == {"ABSENT", "PENDING", "ACTIVE", "DISABLED", "DELETED"}

\* The statuses and roles adminUpdateUser accepts in a request body.
AssignableStatuses == {"ACTIVE", "DISABLED"}

IsActiveAdmin(u) == role[u] = "ADMIN" /\ status[u] = "ACTIVE"
ActiveAdmins     == {u \in Users : IsActiveAdmin(u)}

RegistryInit ==
  \E first \in Users :
    /\ role   = [u \in Users |-> IF u = first THEN "ADMIN" ELSE "USER"]
    /\ status = [u \in Users |-> IF u = first THEN "ACTIVE" ELSE "ABSENT"]

\* A registration request makes a PENDING account ...
Register(u) ==
  /\ status[u] = "ABSENT"
  /\ status' = [status EXCEPT ![u] = "PENDING"]
  /\ UNCHANGED role

\* ... and the right verification code activates it.
Verify(u) ==
  /\ status[u] = "PENDING"
  /\ status' = [status EXCEPT ![u] = "ACTIVE"]
  /\ UNCHANGED role

\* An administrator (or the account's owner, deleting it) sets role and status; unless
\* another active administrator is left, an active administrator keeps both.
Assign(u, r, s) ==
  /\ status[u] # "ABSENT"
  /\ s \in AssignableStatuses \/ (s = "DELETED" /\ r = role[u] /\ status[u] # "DELETED")
  /\ role'   = [role EXCEPT ![u] = r]
  /\ status' = [status EXCEPT ![u] = s]
  /\ IsActiveAdmin(u) /\ <<r, s>> # <<"ADMIN", "ACTIVE">>  =>  ActiveAdmins \ {u} # {}

RegistryNext ==
  \E u \in Users :
    \/ Register(u)
    \/ Verify(u)
    \/ \E r \in Roles, s \in Statuses : Assign(u, r, s)

RegistrySpec == RegistryInit /\ [][RegistryNext]_registryVars
=============================================================================
