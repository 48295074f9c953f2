------------------------------ MODULE Accounts ------------------------------
(***************************************************************************)
(* The accounts of the application: login with the migration of passwords  *)
(* that were stored as plain text, change of password, and the management  *)
(* of accounts and roles, which only the account named "admin" may use.    *)
(*                                                                         *)
(* A request is a handler whose statements are steps; one that is refused  *)
(* before its first write leaves nothing behind and is not a step.  A      *)
(* token is what it says about the account when it was issued: it does not *)
(* expire here.  Users are ids: no name is used twice.                     *)
(***************************************************************************)
EXTENDS Naturals, FiniteSets

CONSTANTS
  Users,     \* ids of accounts
  Root,      \* the account whose username is "admin"
  Texts,     \* passwords
  Requests   \* bound: handlers in progress

ASSUME AccountsAssumption == Root \in Users /\ IsFiniteSet(Users)

Roles == {"admin", "viewer"}  \* "operator" manages no accounts either

VARIABLES
  users,      \* the rows: [row, role, text, hashed]
  tokens,     \* issued tokens: [id, role]
  request,    \* the handlers: [op, step, id, text, plain, new, role]
  chosen,     \* the password last set by a creation or a change (history)
  undone,     \* accounts whose plain text a login wrote back over a change (history)
  overlapped  \* whether two requests about roles were in progress together (history)

accountVars == <<users, tokens, request, chosen, undone, overlapped>>

NoRequest == [op |-> "none"]

UserRows == [row : {"absent", "present", "deleted"}, role : Roles, text : Texts, hashed : BOOLEAN]

NoRow == [row |-> "absent", role |-> "viewer", text |-> CHOOSE p \in Texts : TRUE, hashed |-> TRUE]
Exists(u) == users[u].row = "present"

AccountsTypeOK ==
  /\ users \in [Users -> UserRows]
  /\ tokens \in SUBSET [id : Users, role : Roles]
  /\ \A h \in Requests : \/ request[h] = NoRequest
                        \/ /\ request[h].op \in {"login", "password", "role", "delete"}
                           /\ request[h].step \in {"upgrade", "count", "write"}
                           /\ request[h].id \in Users
  /\ chosen \in [Users -> Texts] /\ undone \in SUBSET Users /\ overlapped \in BOOLEAN

\* The installation has its "admin"; some accounts are older than the hashing of passwords.
AccountsInit ==
  /\ users \in [Users -> {r \in UserRows : r.row = "present" \/ r = NoRow}]
  /\ users[Root].row = "present" /\ users[Root].role = "admin"
  /\ tokens = {}
  /\ request = [h \in Requests |-> NoRequest]
  /\ chosen = [u \in Users |-> users[u].text]
  /\ undone = {} /\ overlapped = FALSE

\* The lowest number that is free: which one a request has makes no difference.
Begin(h, r) ==
  /\ request[h] = NoRequest /\ \A g \in Requests : g < h => request[g] # NoRequest
  /\ request' = [request EXCEPT ![h] = r]
End(h) == request' = [request EXCEPT ![h] = NoRequest]
Doing(h, op, step) ==
  request[h] # NoRequest /\ request[h].op = op /\ request[h].step = step
Proceed(h) == request' = [request EXCEPT ![h].step = "write"]

-----------------------------------------------------------------------------
(* Passwords.                                                              *)

\* Mutant: every password that matches is hashed and stored anew.
AnyMatch(row) == TRUE

\* Only a stored value that does not begin with "$2" is upgraded.
NeedsUpgrade(row) == ~row.hashed

AfterMatch(row) == IF NeedsUpgrade(row) THEN "upgrade" ELSE "write"

\* login up to verifyPassword's comparison with what was read.
BeginLogin(h, u) ==
  /\ Exists(u)
  /\ Begin(h, [op |-> "login", step |-> AfterMatch(users[u]), id |-> u,
               text |-> users[u].text, plain |-> ~users[u].hashed, role |-> users[u].role])
  /\ UNCHANGED <<users, tokens, chosen, undone, overlapped>>

\* changePassword up to the same comparison.
BeginChange(h, t, new) ==
  /\ Exists(t.id)
  /\ Begin(h, [op |-> "password", step |-> AfterMatch(users[t.id]), id |-> t.id,
               text |-> users[t.id].text, plain |-> ~users[t.id].hashed, new |-> new])
  /\ UNCHANGED <<users, tokens, chosen, undone, overlapped>>

SetPassword(u, text) ==
  users' = IF Exists(u) THEN [users EXCEPT ![u].text = text, ![u].hashed = TRUE] ELSE users

\* verifyPassword stores the hash of the password it compared.
Upgrade(h) ==
  /\ \E op \in {"login", "password"} : Doing(h, op, "upgrade")
  /\ LET u == request[h].id IN
       /\ SetPassword(u, request[h].text)
       /\ undone' = IF request[h].plain /\ users[u].text # request[h].text
                    THEN undone \cup {u} ELSE undone
  /\ Proceed(h)
  /\ UNCHANGED <<tokens, chosen, overlapped>>

\* The token carries the role that was read.
FinishLogin(h) ==
  /\ Doing(h, "login", "write")
  /\ tokens' = tokens \cup {[id |-> request[h].id, role |-> request[h].role]}
  /\ End(h)
  /\ UNCHANGED <<users, chosen, undone, overlapped>>

FinishChange(h) ==
  /\ Doing(h, "password", "write")
  /\ LET u == request[h].id IN
       /\ SetPassword(u, request[h].new)
       /\ chosen' = IF Exists(u) THEN [chosen EXCEPT ![u] = request[h].new] ELSE chosen
       /\ undone' = undone \ {u}
  /\ End(h)
  /\ UNCHANGED <<tokens, overlapped>>

-----------------------------------------------------------------------------
(* Accounts and roles.                                                     *)

\* requireRootAdmin looks at the token only.
RootAdmin(t) == t.id = Root /\ t.role = "admin"

\* createUserService: its check of the name changes nothing, and an id is not given out again.
CreateUser(t, u, text, role) ==
  /\ RootAdmin(t) /\ users[u].row = "absent"
  /\ users' = [users EXCEPT ![u] = [row |-> "present", role |-> role, text |-> text,
                                    hashed |-> TRUE]]
  /\ chosen' = [chosen EXCEPT ![u] = text]
  /\ UNCHANGED <<tokens, request, undone, overlapped>>

RoleRequest(h) == request[h] # NoRequest /\ request[h].op \in {"role", "delete"}
Overlap == overlapped' = (overlapped \/ \E h \in Requests : RoleRequest(h))

\* updateUserRoleService up to its decision whether to count.
BeginSetRole(h, t, u, role) ==
  /\ RootAdmin(t) /\ Exists(u)
  /\ Begin(h, [op |-> "role", id |-> u, role |-> role,
               step |-> IF users[u].role = "admin" /\ role # "admin" THEN "count" ELSE "write"])
  /\ Overlap
  /\ UNCHANGED <<users, tokens, chosen, undone>>

\* deleteUserService: never the account that asks.
BeginDelete(h, t, u) ==
  /\ RootAdmin(t) /\ Exists(u) /\ u # t.id
  /\ Begin(h, [op |-> "delete", id |-> u,
               step |-> IF users[u].role = "admin" THEN "count" ELSE "write"])
  /\ Overlap
  /\ UNCHANGED <<users, tokens, chosen, undone>>

Admins == {u \in Users : Exists(u) /\ users[u].role = "admin"}

\* Mutant: the guard counts one administrator too few.
AnyAdmin == Admins # {}

\* countAdmins: the last one is refused.
AnotherAdmin == Cardinality(Admins) > 1

CountAdmins(h) ==
  /\ RoleRequest(h) /\ request[h].step = "count"
  /\ IF AnotherAdmin THEN Proceed(h) ELSE End(h)
  /\ UNCHANGED <<users, tokens, chosen, undone, overlapped>>

SetRole(h) ==
  /\ Doing(h, "role", "write")
  /\ LET u == request[h].id IN
       users' = IF Exists(u) THEN [users EXCEPT ![u].role = request[h].role] ELSE users
  /\ End(h)
  /\ UNCHANGED <<tokens, chosen, undone, overlapped>>

DeleteUser(h) ==
  /\ Doing(h, "delete", "write")
  /\ users' = [users EXCEPT ![request[h].id] = [NoRow EXCEPT !.row = "deleted"]]
  /\ End(h)
  /\ UNCHANGED <<tokens, chosen, undone, overlapped>>

AccountsNext ==
  \/ \E t \in tokens, u \in Users, text \in Texts, role \in Roles : CreateUser(t, u, text, role)
  \/ \E h \in Requests :
    \/ Upgrade(h) \/ FinishLogin(h) \/ FinishChange(h)
    \/ CountAdmins(h) \/ SetRole(h) \/ DeleteUser(h)
    \/ \E u \in Users : BeginLogin(h, u)
    \/ \E t \in tokens : \/ \E new \in Texts : BeginChange(h, t, new)
                         \/ \E u \in Users : BeginDelete(h, t, u)
                         \/ \E u \in Users, role \in Roles : BeginSetRole(h, t, u, role)

AccountsSpec == AccountsInit /\ [][AccountsNext]_accountVars

-----------------------------------------------------------------------------
(* What the accounts guarantee.                                            *)

\* Unless two requests about roles overlap, an administrator remains.  It need not be one who may
\* manage accounts: the "admin" may give up its own role while another administrator exists, and then
\* nobody passes requireRootAdmin, whatever the comment of updateUserRoleService says.
AnAdminRemains == overlapped \/ Admins # {}

\* The password that was last set is the one that is stored; only a login or a change that read the
\* plain text of an old account can write the old password back over it.
ChosenPasswordStands ==
  \A u \in Users : Exists(u) => users[u].text = chosen[u] \/ u \in undone
=============================================================================
