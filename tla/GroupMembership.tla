--------------------------- MODULE GroupMembership ---------------------------
(***************************************************************************)
(* Members, owner, blacklist and join requests of one group (im_groups,    *)
(* im_members, im_group_blacklist, im_group_join_requests,                 *)
(* im_group_invites) under READ COMMITTED transactions.                    *)
(*                                                                         *)
(* Whoever adds a member locks the row of the group; so do the blacklist,  *)
(* the join policy and join requests.  Leaving, removing, changing a role, *)
(* transferring and deleting an account read first and write later without *)
(* it.  A transaction of the second kind, and one that waits for the lock, *)
(* acts on a role that may have changed meanwhile.                         *)
(***************************************************************************)
EXTENDS Naturals, FiniteSets

CONSTANTS
    User,
    Request,        \* ids of join requests
    Tx,             \* as many transactions may be under way at once
    Policy,         \* the join policies in use
    MaxMembers,     \* the setting maxGroupMembers
    MaxVersion,     \* a bound on join_policy_version
    Kinds,          \* the kinds of transactions that are started
    None

ASSUME GroupAssumption ==
    /\ None \notin User /\ None \notin Request
    /\ "invite" \in Policy
    /\ MaxMembers \in Nat /\ MaxVersion \in Nat \ {0}

VARIABLES
    role,           \* role[u]: u's row in im_members, "none" without one
    owner,          \* im_groups.owner_id
    dissolved,
    blacklist,
    policy, version,
    invites,        \* who has a pending invitation of an earlier release
    gone,           \* accounts that were deleted
    req,            \* req[r]: a join request
    due,            \* due[r]: its expires_at has passed
    tx              \* tx[p]: what a transaction has read and locked so far

group == <<owner, dissolved, blacklist, policy, version>>
groupVars == <<role, group, invites, gone, req, due, tx>>

MemberRole == {"none", "member", "admin", "owner"}
Manager == {"owner", "admin"}
Resolved == {"approved", "rejected", "cancelled", "expired", "invalidated"}
Adding == {"add", "approve", "qr", "accept"}

\* locked: the transaction holds the row of the group.
Idle == [kind |-> "idle", user |-> None, other |-> None, as |-> "none",
         request |-> None, locked |-> FALSE]
NoRequest == [status |-> "none", requester |-> None, invitee |-> None, version |-> 0]

Members == {u \in User : role[u] # "none"}

\* CreateGroupRecord: an owner and members.
GroupInit ==
    /\ owner \in User
    /\ \E S \in SUBSET User :
          /\ Cardinality(S \union {owner}) <= MaxMembers
          /\ role = [u \in User |-> IF u = owner THEN "owner"
                                    ELSE IF u \in S THEN "member" ELSE "none"]
    /\ invites \in SUBSET {u \in User : role[u] = "none"}
    /\ dissolved = FALSE
    /\ blacklist = {}
    /\ policy = "invite"
    /\ version = 1
    /\ gone = {}
    /\ req = [r \in Request |-> NoRequest]
    /\ due = [r \in Request |-> FALSE]
    /\ tx = [p \in Tx |-> Idle]
---------------------------------------------------------------------------
GroupLocked == \E p \in Tx : tx[p].locked

\* A transaction of one step runs when there is room for it.
Free == \E p \in Tx : tx[p] = Idle

\* The row of an invitation is locked by the one who accepts it, the row of an
\* account by its deletion.
InviteHeld(u) == \E p \in Tx : tx[p].kind = "accept" /\ tx[p].user = u
BeingDeleted(u) == \E p \in Tx : tx[p].kind = "delete" /\ tx[p].user = u

StartWork(p, work) ==
    /\ tx[p] = Idle /\ work.kind \in Kinds
    /\ tx' = [tx EXCEPT ![p] = work]
Commit(p) == tx' = [tx EXCEPT ![p] = Idle]

Doing(kind, u, v, as, r) ==
    [kind |-> kind, user |-> u, other |-> v, as |-> as, request |-> r, locked |-> FALSE]
---------------------------------------------------------------------------
(* Who joins. *)

\* AddGroupMembersByPolicy, InviteGroupMemberByPolicy: v's role is read with the
\* row of the group, before the wait for its lock ends.
AddBegin(p, v, u) ==
    /\ u # v /\ role[v] # "none"
    /\ StartWork(p, Doing("add", u, v, role[v], None))
    /\ UNCHANGED <<role, group, invites, gone, req, due>>

\* TransitionGroupJoinRequest by a manager.
ApproveBegin(p, v, r) ==
    /\ role[v] \in Manager
    /\ req[r].status # "none"
    /\ StartWork(p, Doing("approve", req[r].invitee, None, "none", r))
    /\ UNCHANGED <<role, group, invites, gone, req, due>>

\* JoinGroupByQR.
QRBegin(p, u) ==
    /\ u \notin gone
    /\ StartWork(p, Doing("qr", u, None, "none", None))
    /\ UNCHANGED <<role, group, invites, gone, req, due>>

\* TransitionGroupInvite: the invitation is locked and the blacklist read, the
\* row of the group is not locked yet.
AcceptBegin(p, u) ==
    /\ u \in invites /\ ~InviteHeld(u)
    /\ u \notin blacklist
    /\ StartWork(p, Doing("accept", u, None, "none", None))
    /\ UNCHANGED <<role, group, invites, gone, req, due>>

\* What is checked under the lock.  That the two are friends is not a matter of
\* the group: an addition may be refused (RollBack) at any time.
MayAdd(w) ==
    /\ w.kind # "accept" => w.user \notin blacklist
    /\ w.kind \in {"add", "approve"} =>
          /\ w.user \notin gone
          /\ w.user \in Members \/ Cardinality(Members) < MaxMembers
    /\ w.kind = "add" => w.as \in Manager \/ policy = "invite"
    /\ w.kind = "qr" => policy = "qr"
    /\ w.kind = "approve" =>
          /\ req[w.request].status = "pending" /\ ~due[w.request]
          /\ policy = "member_approval" /\ version = req[w.request].version
          /\ role[req[w.request].requester] # "none"

\* Plausible slips: whether the group is dissolved is not read again under the
\* lock; the row is read but not locked.
LockDissolved(p) ==
    /\ tx[p].kind \in Adding /\ ~tx[p].locked
    /\ ~GroupLocked
    /\ MayAdd(tx[p])
    /\ tx' = [tx EXCEPT ![p].locked = TRUE]
    /\ UNCHANGED <<role, group, invites, gone, req, due>>
LockShared(p) ==
    /\ tx[p].kind \in Adding /\ ~tx[p].locked
    /\ ~dissolved
    /\ MayAdd(tx[p])
    /\ tx' = [tx EXCEPT ![p].locked = TRUE]
    /\ UNCHANGED <<role, group, invites, gone, req, due>>

\* SELECT ... FROM im_groups ... FOR UPDATE, and the checks that follow.
Lock(p) ==
    /\ tx[p].kind \in Adding /\ ~tx[p].locked
    /\ ~GroupLocked /\ ~dissolved
    /\ MayAdd(tx[p])
    /\ tx' = [tx EXCEPT ![p].locked = TRUE]
    /\ UNCHANGED <<role, group, invites, gone, req, due>>

\* addGroupMembersWithHistory inserts the member unless there is one.
AddEnd(p) ==
    LET w == tx[p] IN
    /\ w.locked
    /\ ~BeingDeleted(w.user)
    /\ role' = IF role[w.user] = "none" THEN [role EXCEPT ![w.user] = "member"] ELSE role
    /\ invites' = IF w.kind = "accept" THEN invites \ {w.user} ELSE invites
    /\ req' = IF w.kind = "approve" THEN [req EXCEPT ![w.request].status = "approved"] ELSE req
    /\ Commit(p)
    /\ UNCHANGED <<group, gone, due>>

\* InviteGroupMemberByPolicy asks for approval.  What it reads under the lock is
\* written under the lock only: one step.
Pending(u) == {q \in Request : req[q].status = "pending" /\ req[q].invitee = u}
Ask(p, r) ==
    LET w == tx[p] IN
    /\ w.kind = "add" /\ ~w.locked /\ ~GroupLocked
    /\ ~dissolved /\ policy = "member_approval" /\ w.as = "member"
    /\ w.user \notin blacklist /\ role[w.user] = "none"
    /\ \A q \in Pending(w.user) : due[q]
    /\ req[r] = NoRequest
    /\ req' = [q \in Request |->
          IF q = r THEN [status |-> "pending", requester |-> w.other,
                         invitee |-> w.user, version |-> version]
          ELSE IF q \in Pending(w.user) THEN [req[q] EXCEPT !.status = "expired"]
          ELSE req[q]]
    /\ Commit(p)
    /\ UNCHANGED <<role, group, invites, gone, due>>

\* TransitionGroupJoinRequest: reject, cancel, or a request that is due or was
\* made under another policy; ListGroupJoinRequests expires what is due.
Settle(r) ==
    /\ Free /\ ~GroupLocked
    /\ req[r].status = "pending"
    /\ \E s \in IF due[r] THEN {"expired"}
                ELSE IF dissolved \/ policy # "member_approval" \/ version # req[r].version
                     THEN {"invalidated"}
                ELSE {"rejected", "cancelled"} :
          req' = [req EXCEPT ![r].status = s]
    /\ UNCHANGED <<role, group, invites, gone, due, tx>>

\* Reject or cancel an invitation.
DropInvite(u) ==
    /\ Free /\ u \in invites /\ ~InviteHeld(u)
    /\ invites' = invites \ {u}
    /\ UNCHANGED <<role, group, gone, req, due, tx>>
---------------------------------------------------------------------------
(* Settings. *)

\* setGroupJoinPolicy, for the owner and the console: what is open under the old
\* policy ends.
SetJoinPolicy(new) ==
    /\ Free /\ ~GroupLocked /\ ~dissolved
    /\ new # policy /\ version < MaxVersion
    /\ \A u \in User : ~InviteHeld(u)
    /\ policy' = new
    /\ version' = version + 1
    /\ req' = [r \in Request |-> IF req[r].status = "pending"
                                 THEN [req[r] EXCEPT !.status = "invalidated"] ELSE req[r]]
    /\ invites' = {}
    /\ UNCHANGED <<role, owner, dissolved, blacklist, gone, due, tx>>

\* AdminAddGroupBlacklist waits for the row of a pending invitation.
Blacklist(u) ==
    /\ Free /\ ~GroupLocked /\ ~dissolved
    /\ u # owner /\ u \notin gone
    /\ u \in invites => ~InviteHeld(u)
    /\ blacklist' = blacklist \union {u}
    /\ role' = [role EXCEPT ![u] = "none"]
    /\ invites' = invites \ {u}
    /\ UNCHANGED <<owner, dissolved, policy, version, gone, req, due, tx>>

AdminRemoveGroupBlacklist(u) ==
    /\ Free /\ u \in blacklist
    /\ blacklist' = blacklist \ {u}
    /\ UNCHANGED <<role, owner, dissolved, policy, version, invites, gone, req, due, tx>>
---------------------------------------------------------------------------
(* Who leaves or changes role: no lock from the checks to the write. *)

\* ApplyGroupMemberAction and, for the console, AdminApplyGroupMemberAction.
LeaveBegin(p, u) ==
    /\ ~dissolved /\ u # owner
    /\ StartWork(p, Doing("remove", u, None, "none", None))
    /\ UNCHANGED <<role, group, invites, gone, req, due>>

RemoveBegin(p, v, u) ==
    /\ ~dissolved /\ role[u] # "owner"
    /\ \/ v = None /\ role[u] # "none"
       \/ v # None /\ role[v] \in Manager /\ ~(role[v] = "admin" /\ role[u] = "admin")
    /\ StartWork(p, Doing("remove", u, None, "none", None))
    /\ UNCHANGED <<role, group, invites, gone, req, due>>

GrantBegin(p, v, u, as) ==
    /\ ~dissolved /\ as \in {"member", "admin"}
    /\ \/ v = None /\ role[u] \in {"member", "admin"}
       \/ v # None /\ role[v] = "owner" /\ u # owner
    /\ StartWork(p, Doing("grant", u, None, as, None))
    /\ UNCHANGED <<role, group, invites, gone, req, due>>

TransferBegin(p, v, u) ==
    /\ ~dissolved /\ role[v] = "owner" /\ role[u] # "none" /\ u # v
    /\ StartWork(p, Doing("transfer", u, v, "owner", None))
    /\ UNCHANGED <<role, group, invites, gone, req, due>>

\* The member row is deleted or updated where it still is.
RemoveEnd(p) ==
    /\ tx[p].kind = "remove"
    /\ role' = [role EXCEPT ![tx[p].user] = "none"]
    /\ Commit(p)
    /\ UNCHANGED <<group, invites, gone, req, due>>

GrantEnd(p) ==
    /\ tx[p].kind = "grant"
    /\ role' = [role EXCEPT ![tx[p].user] = IF @ = "none" THEN @ ELSE tx[p].as]
    /\ Commit(p)
    /\ UNCHANGED <<group, invites, gone, req, due>>

\* Both member rows, then the row of the group.
TransferEnd(p) ==
    LET w == tx[p] IN
    /\ w.kind = "transfer" /\ ~GroupLocked
    /\ role' = [u \in User |-> IF role[u] = "none" THEN "none"
                               ELSE IF u = w.other THEN "member"
                               ELSE IF u = w.user THEN "owner" ELSE role[u]]
    /\ owner' = w.user
    /\ Commit(p)
    /\ UNCHANGED <<dissolved, blacklist, policy, version, invites, gone, req, due>>

\* DisbandGroupRecord, by the owner or (v = None) the console.
DisbandBegin(p, v) ==
    /\ ~dissolved /\ (v # None => role[v] = "owner")
    /\ StartWork(p, Doing("disband", None, None, "none", None))
    /\ UNCHANGED <<role, group, invites, gone, req, due>>

DisbandEnd(p) ==
    /\ tx[p].kind = "disband" /\ ~GroupLocked
    /\ dissolved' = TRUE
    /\ role' = [u \in User |-> "none"]
    /\ Commit(p)
    /\ UNCHANGED <<owner, blacklist, policy, version, invites, gone, req, due>>

\* DeleteAccount locks the account and refuses the owner of an active group.
DeleteBegin(p, u) ==
    /\ u \notin gone /\ ~BeingDeleted(u)
    /\ owner = u => dissolved
    /\ StartWork(p, Doing("delete", u, None, "none", None))
    /\ UNCHANGED <<role, group, invites, gone, req, due>>

DeleteEnd(p) ==
    LET u == tx[p].user IN
    /\ tx[p].kind = "delete" /\ ~InviteHeld(u)
    /\ invites' = invites \ {u}
    /\ role' = [role EXCEPT ![u] = "none"]
    /\ gone' = gone \union {u}
    /\ Commit(p)
    /\ UNCHANGED <<group, req, due>>
---------------------------------------------------------------------------
\* A refused check, a database error, a deadlock or a time limit.
RollBack(p) ==
    /\ tx[p] # Idle
    /\ Commit(p)
    /\ UNCHANGED <<role, group, invites, gone, req, due>>

\* The clock reaches expires_at.
BecomesDue(r) ==
    /\ req[r].status = "pending" /\ ~due[r]
    /\ due' = [due EXCEPT ![r] = TRUE]
    /\ UNCHANGED <<role, group, invites, gone, req, tx>>

GroupNext ==
    \/ \E p \in Tx, u, v \in User : AddBegin(p, v, u) \/ TransferBegin(p, v, u)
    \/ \E p \in Tx, u \in User, v \in User \union {None} :
          \/ RemoveBegin(p, v, u)
          \/ \E as \in {"member", "admin"} : GrantBegin(p, v, u, as)
    \/ \E p \in Tx, v \in User \union {None} : DisbandBegin(p, v)
    \/ \E p \in Tx, v \in User, r \in Request : ApproveBegin(p, v, r)
    \/ \E p \in Tx, u \in User :
          QRBegin(p, u) \/ AcceptBegin(p, u) \/ LeaveBegin(p, u) \/ DeleteBegin(p, u)
    \/ \E p \in Tx, r \in Request : Ask(p, r)
    \/ \E p \in Tx :
          \/ Lock(p) \/ AddEnd(p) \/ RemoveEnd(p) \/ GrantEnd(p) \/ TransferEnd(p)
          \/ DisbandEnd(p) \/ DeleteEnd(p) \/ RollBack(p)
    \/ \E r \in Request : Settle(r) \/ BecomesDue(r)
    \/ \E u \in User : DropInvite(u) \/ Blacklist(u) \/ AdminRemoveGroupBlacklist(u)
    \/ \E new \in Policy : SetJoinPolicy(new)

GroupSpec == GroupInit /\ [][GroupNext]_groupVars
---------------------------------------------------------------------------
Work == [kind : {"idle", "remove", "grant", "transfer", "disband", "delete"} \union Adding,
         user : User \union {None}, other : User \union {None}, as : MemberRole,
         request : Request \union {None}, locked : BOOLEAN]
JoinRequest == [status : {"none", "pending"} \union Resolved,
                requester : User \union {None}, invitee : User \union {None},
                version : 0..MaxVersion]

GroupTypeOK ==
    /\ role \in [User -> MemberRole]
    /\ owner \in User
    /\ dissolved \in BOOLEAN
    /\ blacklist \subseteq User
    /\ policy \in Policy
    /\ version \in 1..MaxVersion
    /\ invites \subseteq User
    /\ gone \subseteq User
    /\ req \in [Request -> JoinRequest]
    /\ due \in [Request -> BOOLEAN]
    /\ tx \in [Tx -> Work]

\* A dissolved group has no members and gets none, although additions, role
\* changes and a transfer may be under way when it is dissolved.
DissolvedIsEmpty == dissolved => Members = {}

\* Who is on the blacklist is not a member: no addition, QR join, approval or
\* accepted invitation that crosses the blacklisting brings a user back.
BlacklistKeepsOut == blacklist \intersect Members = {}

\* An open join request was made under the policy that is in force: nobody is
\* approved on the terms of another one.
PendingIsCurrent ==
    \A r \in Request : req[r].status = "pending" =>
        req[r].version = version /\ policy = "member_approval"

\* The answer to a join request is final.
AnsweredForever ==
    [][\A r \in Request : req[r].status \in Resolved => req'[r].status = req[r].status]_groupVars

\* Additions and approvals keep a group to the number of members the settings
\* allow, however many are under way.  Joining by QR code and accepting an
\* invitation do not look at the limit.
WithinLimit == Cardinality(Members) <= MaxMembers

\* An active group has one owner, who is a member of it: an owner may neither
\* leave, be removed, be blacklisted nor delete the account.
OwnerStays == dissolved \/ \A u \in User : role[u] = "owner" <=> u = owner

\* The group's promise: joining, answering, blacklisting, changes of policy and
\* dissolution never leave one of the four, and an answer is final.
GroupKept ==
    /\ [](GroupTypeOK /\ BlacklistKeepsOut /\ PendingIsCurrent /\ DissolvedIsEmpty)
    /\ AnsweredForever
===========================================================================
