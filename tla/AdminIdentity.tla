---------------------------- MODULE AdminIdentity ----------------------------
(***************************************************************************)
(* Administrator accounts, roles and tokens.  A request is admitted by its *)
(* token and acts later, with the authority it had then; an update locks   *)
(* the account and, when it takes an active platform administrator away,   *)
(* every row of an active platform administrator before it counts them.    *)
(***************************************************************************)
EXTENDS Naturals, FiniteSets

CONSTANTS
    Admin,           \* ids of administrator accounts
    CustomRole,      \* roles that are not built in
    Secret,          \* passwords
    AdminRequest,    \* concurrent requests
    MaxAuthVersion   \* bound on auth_version

ASSUME AdminAssumption == IsFiniteSet(Admin) /\ MaxAuthVersion \in Nat

VARIABLES
    adminRow,     \* im_admin_accounts
    adminRoleRow, \* custom rows of im_admin_roles
    adminRequest, \* requests between two steps, with the rows they have locked
    adminToken    \* issued tokens; secret is the password they were issued for

adminVars == <<adminRow, adminRoleRow, adminRequest, adminToken>>

InCharge == {a \in Admin : adminRow[a].active /\ adminRow[a].role = "platform_admin"}
Existing == {a \in Admin : adminRow[a].version > 0}
RoleExists(r) == r = "platform_admin" \/ r \in adminRoleRow
NoAdminRequest == [phase |-> "none", actor |-> CHOOSE a \in Admin : TRUE, holds |-> {}]

AdminInit ==
    /\ adminRow = [a \in Admin |-> [version |-> 0, active |-> FALSE, role |-> "platform_admin", secret |-> CHOOSE s \in Secret : TRUE]]
    /\ adminRoleRow = {} /\ adminToken = {}
    /\ adminRequest = [q \in AdminRequest |-> NoAdminRequest]

Becomes(q, r) == adminRequest' = [adminRequest EXCEPT ![q] = r]
RequestOver(q) == Becomes(q, NoAdminRequest)
At(q, phase) == adminRequest[q].phase = phase
AdminFree(q, a) == \A o \in AdminRequest \ {q} : a \notin adminRequest[o].holds
Write(a, row) == adminRow' = [adminRow EXCEPT ![a] = row]
AdminRow(v, on, r, s) == [version |-> v, active |-> on, role |-> r, secret |-> s]
\* Every change of an account but the time of a login raises auth_version.
NewVersion(v) == v + 1
SecretVersion(v) == NewVersion(v)

\* Two servers that start together are serialized by the advisory lock.
BootstrapAdmin(a, s) ==
    /\ Existing = {} /\ Write(a, AdminRow(1, TRUE, "platform_admin", s))
    /\ UNCHANGED <<adminRoleRow, adminRequest, adminToken>>

\* adminLogin: the row is read once, its password compared; the time of the login is
\* recorded and the token made from what was read.
AuthenticateAdmin(q, a, s) ==
    /\ At(q, "none") /\ a \in Existing /\ adminRow[a].active /\ adminRow[a].secret = s
    /\ Becomes(q, [phase |-> "known", actor |-> a, holds |-> {}, row |-> adminRow[a]])
    /\ UNCHANGED <<adminRow, adminRoleRow, adminToken>>
IssuedVersion(q) == adminRequest[q].row.version
IssueAdmin(q) ==
    /\ At(q, "known") /\ AdminFree(q, adminRequest[q].actor) /\ RequestOver(q)
    /\ adminToken' = adminToken \cup {[id |-> adminRequest[q].actor, version |-> IssuedVersion(q), secret |-> adminRequest[q].row.secret]}
    /\ UNCHANGED <<adminRow, adminRoleRow>>
TokenExpires(t) == t \in adminToken /\ adminToken' = adminToken \ {t} /\ UNCHANGED <<adminRow, adminRoleRow, adminRequest>>

\* authenticatedAdmin: the account is read again for every request.
Authenticated(t) == adminRow[t.id].active /\ adminRow[t.id].version = t.version
\* requireAdmin for /administrators and /roles: platform administrators only.
RequireAdmin(q, t) ==
    /\ At(q, "none") /\ t \in adminToken /\ Authenticated(t) /\ adminRow[t.id].role = "platform_admin"
    /\ Becomes(q, [phase |-> "admitted", actor |-> t.id, holds |-> {}])
    /\ UNCHANGED <<adminRow, adminRoleRow, adminToken>>

CreateAdminAccount(q, a, r, s) ==
    /\ At(q, "admitted") /\ a \notin Existing /\ RoleExists(r)
    /\ Write(a, AdminRow(1, TRUE, r, s)) /\ RequestOver(q) /\ UNCHANGED <<adminRoleRow, adminToken>>

\* UpdateAdminAccount: the own row first.
LockAccount(q, a) ==
    /\ At(q, "admitted") /\ a \in Existing /\ AdminFree(q, a)
    /\ Becomes(q, [phase |-> "locked", actor |-> adminRequest[q].actor, holds |-> {a}, target |-> a])
    /\ UNCHANGED <<adminRow, adminRoleRow, adminToken>>
TakesAway(a, r, on) == a \in InCharge /\ ~(r = "platform_admin" /\ on)
\* A plausible slip: they are counted without FOR UPDATE.
OwnRowOnly(q) == adminRequest[q].holds
\* The rows counted stay locked until the end of the transaction.
CountedRows(q) == InCharge
CountPlatformAdmins(q) ==
    /\ At(q, "locked") /\ adminRequest[q].target \in InCharge /\ \A a \in CountedRows(q) : AdminFree(q, a)
    /\ IF Cardinality(InCharge) > 1
       THEN Becomes(q, [adminRequest[q] EXCEPT !.phase = "counted", !.holds = @ \cup CountedRows(q)])
       ELSE RequestOver(q)
    /\ UNCHANGED <<adminRow, adminRoleRow, adminToken>>
UpdateAdminAccount(q, r, on) ==
    LET who == adminRequest[q].target IN
    /\ adminRequest[q].phase \in {"locked", "counted"} /\ RoleExists(r)
    /\ ~(who = adminRequest[q].actor /\ ~on)
    /\ At(q, "counted") <=> TakesAway(who, r, on)
    /\ adminRow[who].version < MaxAuthVersion
    /\ Write(who, AdminRow(NewVersion(adminRow[who].version), on, r, adminRow[who].secret))
    /\ RequestOver(q) /\ UNCHANGED <<adminRoleRow, adminToken>>
\* A refused, failed or deadlocked request writes nothing.
AdminRequestEnds(q) == ~At(q, "none") /\ RequestOver(q) /\ UNCHANGED <<adminRow, adminRoleRow, adminToken>>

\* UpdateAdminAccountPassword, unconditional by id.
PutSecret(q, a, s) ==
    /\ a \in Existing /\ AdminFree(q, a) /\ adminRow[a].version < MaxAuthVersion
    /\ Write(a, AdminRow(SecretVersion(adminRow[a].version), adminRow[a].active, adminRow[a].role, s))
    /\ RequestOver(q) /\ UNCHANGED <<adminRoleRow, adminToken>>
ResetAdminPassword(q, a, s) == At(q, "admitted") /\ PutSecret(q, a, s)
\* changeAdminPassword, admitted by requireAdminSession whatever the role.
VerifyOwnPassword(q, t, s) ==
    /\ At(q, "none") /\ t \in adminToken /\ Authenticated(t) /\ adminRow[t.id].secret = s
    /\ Becomes(q, [phase |-> "verified", actor |-> t.id, holds |-> {}, was |-> s])
    /\ UNCHANGED <<adminRow, adminRoleRow, adminToken>>
ChangeAdminPassword(q, s) ==
    At(q, "verified") /\ s # adminRequest[q].was /\ PutSecret(q, adminRequest[q].actor, s)

CreateAdminRole(q, r) ==
    /\ At(q, "admitted") /\ r \notin adminRoleRow /\ adminRoleRow' = adminRoleRow \cup {r}
    /\ RequestOver(q) /\ UNCHANGED <<adminRow, adminToken>>
\* No account may refer to it, in the count and by the foreign key.
DeleteAdminRole(q, r) ==
    /\ At(q, "admitted") /\ r \in adminRoleRow /\ \A a \in Existing : adminRow[a].role # r
    /\ adminRoleRow' = adminRoleRow \ {r} /\ RequestOver(q) /\ UNCHANGED <<adminRow, adminToken>>

AdminNext ==
    \/ \E a \in Admin, s \in Secret : BootstrapAdmin(a, s)
    \/ \E q \in AdminRequest, a \in Admin, s \in Secret : AuthenticateAdmin(q, a, s) \/ ResetAdminPassword(q, a, s)
    \/ \E q \in AdminRequest, a \in Admin, r \in CustomRole \cup {"platform_admin"}, s \in Secret : CreateAdminAccount(q, a, r, s)
    \/ \E q \in AdminRequest : IssueAdmin(q) \/ CountPlatformAdmins(q) \/ AdminRequestEnds(q)
    \/ \E q \in AdminRequest, t \in adminToken : RequireAdmin(q, t) \/ \E s \in Secret : VerifyOwnPassword(q, t, s)
    \/ \E q \in AdminRequest, a \in Admin : LockAccount(q, a)
    \/ \E q \in AdminRequest, r \in CustomRole \cup {"platform_admin"}, on \in BOOLEAN : UpdateAdminAccount(q, r, on)
    \/ \E q \in AdminRequest, s \in Secret : ChangeAdminPassword(q, s)
    \/ \E q \in AdminRequest, r \in CustomRole : CreateAdminRole(q, r) \/ DeleteAdminRole(q, r)
    \/ \E t \in adminToken : TokenExpires(t)

AdminSpec == AdminInit /\ [][AdminNext]_adminVars

\* However administrators demote and disable each other at the same time, one
\* active platform administrator is left once there was any (postgres_admin_identity.go:185).
SomebodyIsInCharge == Existing # {} => InCharge # {}

\* A token that is still accepted was issued for the password the account has
\* now, and the account is active: resets, demotions and disabling end every
\* earlier token, also one whose login was under way (api.go:964).
TokensAreCurrent ==
    \A t \in adminToken : t.version = adminRow[t.id].version => adminRow[t.id].active /\ t.secret = adminRow[t.id].secret

\* What the changes of administrators keep to: somebody in charge, no stale token.
AdminSafety == SomebodyIsInCharge /\ TokensAreCurrent
=============================================================================
