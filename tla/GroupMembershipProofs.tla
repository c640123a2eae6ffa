----------------------- MODULE GroupMembershipProofs -----------------------
(***************************************************************************)
(* Proofs about the members of a group, for any users, join requests and   *)
(* number of transactions under way, and about who reads while others      *)
(* write: the walks of the lists and the reading of a group's history.     *)
(*                                                                         *)
(* That a blacklisted user stays out rests on two locks: one transaction   *)
(* at a time holds the row of the group, and what it checked then still    *)
(* holds (LockedIsClear); an invitation that is being accepted is still    *)
(* pending and its user not yet on the blacklist (AcceptIsClear).          *)
(***************************************************************************)
EXTENDS GroupMembership, ListPaging, HistoryReading, FiniteSetTheorems, FunctionTheorems,
        WellFoundedInduction, TLAPS

OneLock == \A p, q \in Tx : tx[p].locked /\ tx[q].locked => p = q

LockedIsClear ==
    \A p \in Tx : tx[p].locked =>
        /\ ~dissolved
        /\ tx[p].kind \in Adding
        /\ tx[p].user \notin blacklist
        /\ tx[p].kind = "approve" => req[tx[p].request].status = "pending"

AcceptIsClear ==
    /\ \A p \in Tx : tx[p].kind = "accept" =>
          tx[p].user \in invites /\ tx[p].user \notin blacklist
    /\ \A p, q \in Tx : tx[p].kind = "accept" /\ tx[q].kind = "accept"
                        /\ tx[p].user = tx[q].user => p = q

\* Transactions and requests that name a user name one of User.
Named ==
    /\ \A p \in Tx : /\ tx[p].kind \notin {"idle", "disband"} => tx[p].user \in User
                     /\ tx[p].kind = "approve" => tx[p].request \in Request
    /\ \A r \in Request : req[r].status # "none" => req[r].invitee \in User

\* The inductive invariant.
GroupInv ==
    /\ GroupTypeOK
    /\ OneLock
    /\ LockedIsClear
    /\ AcceptIsClear
    /\ Named
    /\ DissolvedIsEmpty
    /\ BlacklistKeepsOut
    /\ PendingIsCurrent
---------------------------------------------------------------------------
LEMMA InitInv == GroupInit => GroupInv
  <1> SUFFICES ASSUME GroupInit PROVE GroupInv
    OBVIOUS
  <1>1. /\ \A p \in Tx : tx[p] = Idle
        /\ \A r \in Request : req[r] = NoRequest
        /\ Idle.kind = "idle" /\ Idle.locked = FALSE /\ NoRequest.status = "none"
    BY DEF GroupInit, Idle, NoRequest
  <1>2. GroupTypeOK
    <2>1. role \in [User -> MemberRole]
      BY DEF GroupInit, MemberRole
    <2>2. Idle \in Work /\ NoRequest \in JoinRequest
      BY GroupAssumption DEF Idle, Work, NoRequest, JoinRequest, MemberRole
    <2>3. tx \in [Tx -> Work] /\ req \in [Request -> JoinRequest]
      BY <2>2 DEF GroupInit
    <2>4. version \in 1..MaxVersion /\ policy \in Policy
      BY GroupAssumption DEF GroupInit
    <2> QED
      BY <2>1, <2>3, <2>4 DEF GroupInit, GroupTypeOK
  <1>3. OneLock /\ LockedIsClear /\ AcceptIsClear /\ Named
    BY <1>1 DEF OneLock, LockedIsClear, AcceptIsClear, Named
  <1>4. DissolvedIsEmpty /\ BlacklistKeepsOut /\ PendingIsCurrent
    BY <1>1 DEF GroupInit, DissolvedIsEmpty, BlacklistKeepsOut, PendingIsCurrent
  <1> QED
    BY <1>2, <1>3, <1>4 DEF GroupInv

\* The transactions in T, and no others, end in this step.
Ended(T) ==
    /\ tx' \in [Tx -> Work]
    /\ \A p \in T : tx'[p] = Idle
    /\ \A p \in Tx \ T : tx'[p] = tx[p]

LEMMA EndedFacts ==
  ASSUME GroupTypeOK
  PROVE  /\ UNCHANGED tx => Ended({})
         /\ \A p \in Tx : Commit(p) => Ended({p})
  <1>1. Idle \in Work
    BY DEF Idle, Work, MemberRole
  <1>2. ASSUME NEW p \in Tx, Commit(p)
        PROVE  Ended({p})
    BY <1>1, <1>2 DEF Ended, Commit, GroupTypeOK
  <1>3. ASSUME UNCHANGED tx
        PROVE  Ended({})
    BY <1>3 DEF Ended, GroupTypeOK
  <1> QED
    BY <1>2, <1>3

\* What a step must respect that ends the transactions in T and starts none:
\* the rows the others have locked.
Respects(T) ==
    /\ invites' \subseteq User
    /\ \A p \in Tx \ T : tx[p].kind = "accept" =>
          tx[p].user \in invites' /\ tx[p].user \notin blacklist'
    /\ \A p \in Tx \ T : tx[p].locked =>
          dissolved' = dissolved /\ blacklist' \subseteq blacklist /\ req' = req

\* The types of everything but the transactions and invitations.
Typed ==
    /\ role \in [User -> MemberRole] /\ owner \in User /\ dissolved \in BOOLEAN
    /\ blacklist \subseteq User /\ policy \in Policy /\ version \in 1..MaxVersion
    /\ gone \subseteq User /\ req \in [Request -> JoinRequest] /\ due \in [Request -> BOOLEAN]
    /\ \A r \in Request : req[r].status # "none" => req[r].invitee \in User

LEMMA EndInv ==
  ASSUME GroupInv, NEW T \in SUBSET Tx, Ended(T), Respects(T), Typed',
         DissolvedIsEmpty', BlacklistKeepsOut', PendingIsCurrent'
  PROVE  GroupInv'
  <1> USE DEF GroupInv
  <1>1. /\ \A p \in Tx : (tx'[p] = tx[p] /\ p \notin T) \/ tx'[p] = Idle
        /\ Idle.kind = "idle" /\ Idle.locked = FALSE
    BY DEF Ended, Idle
  <1>2. GroupTypeOK'
    BY DEF GroupTypeOK, Typed, Ended, Respects
  <1>3. OneLock'
    BY <1>1 DEF OneLock
  <1>4. LockedIsClear'
    <2> SUFFICES ASSUME NEW p \in Tx, tx'[p].locked
                 PROVE  /\ ~dissolved' /\ tx'[p].kind \in Adding /\ tx'[p].user \notin blacklist'
                        /\ tx'[p].kind = "approve" => req'[tx'[p].request].status = "pending"
      BY DEF LockedIsClear
    <2>1. tx'[p] = tx[p] /\ p \notin T /\ tx[p].locked
      BY <1>1
    <2> QED
      BY <2>1 DEF LockedIsClear, Respects
  <1>5. AcceptIsClear'
    <2>1. \A p \in Tx : tx'[p].kind = "accept" => tx'[p] = tx[p] /\ p \notin T
      BY <1>1
    <2> QED
      BY <2>1 DEF AcceptIsClear, Respects
  <1>6. Named'
    BY <1>1 DEF Named, Typed
  <1> QED
    BY <1>2, <1>3, <1>4, <1>5, <1>6

\* Starting a transaction that has written nothing yet.
LEMMA StartInv ==
  ASSUME GroupInv, NEW p \in Tx, NEW w \in Work, StartWork(p, w), ~w.locked,
         w.kind \notin {"idle", "disband"} => w.user \in User,
         w.kind = "approve" => w.request \in Request,
         w.kind = "accept" => /\ w.user \in invites /\ w.user \notin blacklist
                              /\ ~InviteHeld(w.user),
         UNCHANGED <<role, group, invites, gone, req, due>>
  PROVE  GroupInv'
  <1> USE DEF GroupInv
  <1>0. UNCHANGED <<role, owner, dissolved, blacklist, policy, version, invites, gone, req, due>>
    BY DEF group
  <1>1. \A q \in Tx : tx'[q] = IF q = p THEN w ELSE tx[q]
    BY DEF StartWork, GroupTypeOK
  <1>2. GroupTypeOK'
    <2>1. tx' \in [Tx -> Work]
      BY DEF StartWork, GroupTypeOK
    <2> QED
      BY <1>0, <2>1 DEF GroupTypeOK
  <1>3. OneLock' /\ LockedIsClear'
    BY <1>0, <1>1 DEF OneLock, LockedIsClear
  <1>4. AcceptIsClear'
    BY <1>0, <1>1 DEF AcceptIsClear, InviteHeld
  <1>5. Named'
    BY <1>0, <1>1 DEF Named
  <1>6. DissolvedIsEmpty' /\ BlacklistKeepsOut' /\ PendingIsCurrent'
    BY <1>0 DEF DissolvedIsEmpty, BlacklistKeepsOut, PendingIsCurrent, Members
  <1> QED
    BY <1>2, <1>3, <1>4, <1>5, <1>6
---------------------------------------------------------------------------
LEMMA LockInv ==
  ASSUME GroupInv, NEW p \in Tx, Lock(p)
  PROVE  GroupInv'
  <1> USE DEF GroupInv
  <1> DEFINE w == tx[p]
  <1>0. UNCHANGED <<role, owner, dissolved, blacklist, policy, version, invites, gone, req, due>>
    BY DEF Lock, group
  <1>1. /\ w \in Work /\ w.kind \in Adding
        /\ ~dissolved /\ \A q \in Tx : ~tx[q].locked
    BY DEF Lock, GroupLocked, GroupTypeOK
  <1>2. /\ tx' = [tx EXCEPT ![p].locked = TRUE]
        /\ \A q \in Tx \ {p} : tx'[q] = tx[q]
    BY DEF Lock, GroupTypeOK
  <1>3. /\ tx'[p] \in Work /\ tx'[p].locked
        /\ tx'[p].kind = w.kind /\ tx'[p].user = w.user /\ tx'[p].request = w.request
    <2>1. tx'[p] = [w EXCEPT !.locked = TRUE]
      BY <1>2 DEF GroupTypeOK
    <2> QED
      BY <1>1, <2>1 DEF Work
  <1>4. GroupTypeOK'
    <2>1. tx' \in [Tx -> Work]
      BY <1>2, <1>3 DEF GroupTypeOK
    <2> QED
      BY <1>0, <2>1 DEF GroupTypeOK
  <1>5. OneLock'
    BY <1>1, <1>2 DEF OneLock
  <1>6. LockedIsClear'
    <2>1. w.user \notin blacklist
      BY DEF Lock, MayAdd, AcceptIsClear
    <2>2. w.kind = "approve" => req[w.request].status = "pending"
      BY DEF Lock, MayAdd
    <2> QED
      BY <1>0, <1>1, <1>2, <1>3, <2>1, <2>2 DEF LockedIsClear
  <1>7. AcceptIsClear'
    <2>1. \A q \in Tx : tx'[q].kind = tx[q].kind /\ tx'[q].user = tx[q].user
      BY <1>2, <1>3
    <2> QED
      BY <1>0, <2>1 DEF AcceptIsClear
  <1>8. Named'
    <2>1. \A q \in Tx : /\ tx'[q].kind = tx[q].kind /\ tx'[q].user = tx[q].user
                        /\ tx'[q].request = tx[q].request
      BY <1>2, <1>3
    <2> QED
      BY <1>0, <2>1 DEF Named
  <1>9. DissolvedIsEmpty' /\ BlacklistKeepsOut' /\ PendingIsCurrent'
    BY <1>0 DEF DissolvedIsEmpty, BlacklistKeepsOut, PendingIsCurrent, Members
  <1> QED
    BY <1>4, <1>5, <1>6, <1>7, <1>8, <1>9

LEMMA AddEndInv ==
  ASSUME GroupInv, NEW p \in Tx, AddEnd(p)
  PROVE  GroupInv'
  <1> USE DEF GroupInv
  <1> DEFINE w == tx[p]
  <1>1. /\ w.locked /\ w.kind \in Adding /\ w.user \in User /\ w.user \notin blacklist
        /\ ~dissolved
    BY DEF AddEnd, LockedIsClear, Named, Adding
  <1>2. UNCHANGED <<owner, dissolved, blacklist, policy, version, gone, due>>
    BY DEF AddEnd, group
  <1>3. Ended({p})
    BY EndedFacts DEF AddEnd
  <1>4. role' \in [User -> MemberRole] /\ \A u \in User : role'[u] = "none" \/ role[u] # "none" \/ u = w.user
    BY DEF AddEnd, GroupTypeOK, MemberRole
  <1>5. \A r \in Request : /\ req'[r] \in JoinRequest
                           /\ req'[r].status = "pending" => req'[r] = req[r]
                           /\ req'[r].status # "none" => req'[r].invitee \in User
    <2>1. CASE w.kind = "approve"
      <3>1. w.request \in Request /\ req[w.request] \in JoinRequest
            /\ req[w.request].invitee \in User
        BY <1>1, <2>1 DEF Named, GroupTypeOK, LockedIsClear
      <3>2. req' = [req EXCEPT ![w.request].status = "approved"]
        BY <2>1 DEF AddEnd
      <3>3. \A r \in Request \ {w.request} : req'[r] = req[r]
        BY <3>2 DEF GroupTypeOK
      <3>4. req'[w.request] = [req[w.request] EXCEPT !.status = "approved"]
        BY <3>1, <3>2 DEF GroupTypeOK
      <3>5. /\ req'[w.request] \in JoinRequest /\ req'[w.request].status = "approved"
            /\ req'[w.request].invitee \in User
        BY <3>1, <3>4 DEF JoinRequest, Resolved
      <3> QED
        BY <3>3, <3>5 DEF GroupTypeOK, Named
    <2>2. CASE w.kind # "approve"
      BY <2>2 DEF AddEnd, GroupTypeOK, Named
    <2> QED
      BY <2>1, <2>2
  <1>6. Typed'
    <2>1. req' \in [Request -> JoinRequest]
      <3>1. CASE w.kind = "approve"
        BY <1>5, <3>1 DEF AddEnd, GroupTypeOK
      <3>2. CASE w.kind # "approve"
        BY <3>2 DEF AddEnd, GroupTypeOK
      <3> QED
        BY <3>1, <3>2
    <2> QED
      BY <1>2, <1>4, <1>5, <2>1 DEF Typed, GroupTypeOK
  <1>7. Respects({p})
    <2>1. \A q \in Tx \ {p} : ~tx[q].locked
      BY <1>1 DEF OneLock
    <2>2. \A q \in Tx \ {p} : tx[q].kind = "accept" => tx[q].user \in invites'
      BY DEF AddEnd, AcceptIsClear
    <2>3. invites' \subseteq User
      BY DEF AddEnd, GroupTypeOK
    <2> QED
      BY <1>2, <2>1, <2>2, <2>3 DEF Respects, AcceptIsClear
  <1>8. DissolvedIsEmpty' /\ BlacklistKeepsOut' /\ PendingIsCurrent'
    <2>1. DissolvedIsEmpty' /\ BlacklistKeepsOut'
      BY <1>1, <1>2, <1>4 DEF DissolvedIsEmpty, BlacklistKeepsOut, Members
    <2>2. PendingIsCurrent'
      BY <1>2, <1>5 DEF PendingIsCurrent
    <2> QED
      BY <2>1, <2>2
  <1> HIDE DEF GroupInv
  <1> QED
    BY <1>3, <1>6, <1>7, <1>8, EndInv

\* Steps that leave the requests, the policy and the row of the group alone,
\* add no member and nobody to the blacklist.
LEMMA FewerInv ==
  ASSUME GroupInv, NEW T \in SUBSET Tx, Ended(T),
         role' \in [User -> MemberRole],
         \A u \in User : role'[u] # "none" => role[u] # "none",
         blacklist' \subseteq blacklist,
         owner' \in User, gone' \subseteq User, due' \in [Request -> BOOLEAN],
         invites' \subseteq invites,
         \A q \in Tx \ T : tx[q].kind = "accept" => tx[q].user \in invites',
         UNCHANGED <<dissolved, policy, version, req>>
  PROVE  GroupInv'
  <1> USE DEF GroupInv
  <1>1. Typed'
    BY DEF Typed, GroupTypeOK, Named
  <1>2. Respects(T)
    BY DEF Respects, GroupTypeOK, AcceptIsClear
  <1>3. DissolvedIsEmpty' /\ BlacklistKeepsOut' /\ PendingIsCurrent'
    BY DEF DissolvedIsEmpty, BlacklistKeepsOut, PendingIsCurrent, Members
  <1> HIDE DEF GroupInv
  <1> QED
    BY <1>1, <1>2, <1>3, EndInv
---------------------------------------------------------------------------
LEMMA StartsInv ==
  ASSUME GroupInv, NEW p \in Tx
  PROVE  /\ \A u, v \in User : AddBegin(p, v, u) => GroupInv'
         /\ \A u, v \in User : TransferBegin(p, v, u) => GroupInv'
         /\ \A u \in User, v \in User \union {None} : RemoveBegin(p, v, u) => GroupInv'
         /\ \A u \in User, v \in User \union {None}, as \in {"member", "admin"} :
               GrantBegin(p, v, u, as) => GroupInv'
         /\ \A v \in User \union {None} : DisbandBegin(p, v) => GroupInv'
         /\ \A v \in User, r \in Request : ApproveBegin(p, v, r) => GroupInv'
         /\ \A u \in User : QRBegin(p, u) => GroupInv'
         /\ \A u \in User : AcceptBegin(p, u) => GroupInv'
         /\ \A u \in User : LeaveBegin(p, u) => GroupInv'
         /\ \A u \in User : DeleteBegin(p, u) => GroupInv'
  <1>1. ASSUME NEW kind \in {"remove", "grant", "transfer", "disband", "delete"} \union Adding,
               NEW u \in User \union {None}, NEW v \in User \union {None}, NEW as \in MemberRole,
               NEW r \in Request \union {None},
               StartWork(p, Doing(kind, u, v, as, r)),
               kind # "disband" => u \in User,
               kind = "approve" => r \in Request,
               kind = "accept" => u \in invites /\ u \notin blacklist /\ ~InviteHeld(u),
               UNCHANGED <<role, group, invites, gone, req, due>>
        PROVE  GroupInv'
    <2> DEFINE w == Doing(kind, u, v, as, r)
    <2>1. /\ w \in Work /\ ~w.locked
          /\ w.kind = kind /\ w.user = u /\ w.request = r
      BY DEF Doing, Work
    <2>2. StartWork(p, w)
      BY <1>1
    <2> HIDE DEF w
    <2> QED
      BY <1>1, <2>1, <2>2, StartInv
  <1>2. \A u \in User : role[u] \in MemberRole
    BY DEF GroupInv, GroupTypeOK
  <1>3. "none" \in MemberRole /\ "owner" \in MemberRole /\ "member" \in MemberRole /\ "admin" \in MemberRole
        /\ {"add", "approve", "qr", "accept"} \subseteq Adding
    BY DEF MemberRole, Adding
  <1>4. ASSUME NEW u \in User, NEW v \in User, AddBegin(p, v, u)
        PROVE  GroupInv'
    BY <1>1, <1>2, <1>3, <1>4 DEF AddBegin
  <1>5. ASSUME NEW u \in User, NEW v \in User, TransferBegin(p, v, u)
        PROVE  GroupInv'
    BY <1>1, <1>3, <1>5 DEF TransferBegin
  <1>6. ASSUME NEW u \in User, NEW v \in User \union {None}, RemoveBegin(p, v, u)
        PROVE  GroupInv'
    BY <1>1, <1>3, <1>6 DEF RemoveBegin
  <1>7. ASSUME NEW u \in User, NEW v \in User \union {None}, NEW as \in {"member", "admin"},
               GrantBegin(p, v, u, as)
        PROVE  GroupInv'
    <2>1. as \in MemberRole /\ "grant" # "disband" /\ "grant" # "approve" /\ "grant" # "accept"
      BY <1>3
    <2>2. StartWork(p, Doing("grant", u, None, as, None))
          /\ UNCHANGED <<role, group, invites, gone, req, due>>
      BY <1>7 DEF GrantBegin
    <2> QED
      BY <1>1, <2>1, <2>2
  <1>8. ASSUME NEW v \in User \union {None}, DisbandBegin(p, v)
        PROVE  GroupInv'
    BY <1>1, <1>3, <1>8 DEF DisbandBegin
  <1>9. ASSUME NEW v \in User, NEW r \in Request, ApproveBegin(p, v, r)
        PROVE  GroupInv'
    <2>1. req[r].invitee \in User
      BY <1>9 DEF ApproveBegin, GroupInv, Named
    <2>2. StartWork(p, Doing("approve", req[r].invitee, None, "none", r))
          /\ UNCHANGED <<role, group, invites, gone, req, due>>
      BY <1>9 DEF ApproveBegin
    <2> QED
      BY <1>1, <1>3, <2>1, <2>2
  <1>10. ASSUME NEW u \in User, QRBegin(p, u)
         PROVE  GroupInv'
    BY <1>1, <1>3, <1>10 DEF QRBegin
  <1>11. ASSUME NEW u \in User, AcceptBegin(p, u)
         PROVE  GroupInv'
    BY <1>1, <1>3, <1>11 DEF AcceptBegin
  <1>12. ASSUME NEW u \in User, LeaveBegin(p, u)
         PROVE  GroupInv'
    BY <1>1, <1>3, <1>12 DEF LeaveBegin
  <1>13. ASSUME NEW u \in User, DeleteBegin(p, u)
         PROVE  GroupInv'
    BY <1>1, <1>3, <1>13 DEF DeleteBegin
  <1> QED
    BY <1>4, <1>5, <1>6, <1>7, <1>8, <1>9, <1>10, <1>11, <1>12, <1>13

\* Steps that touch the requests hold the row of the group alone.
LEMMA RequestsInv ==
  ASSUME GroupInv
  PROVE  /\ \A p \in Tx, r \in Request : Ask(p, r) => GroupInv'
         /\ \A r \in Request : Settle(r) => GroupInv'
         /\ \A new \in Policy : SetJoinPolicy(new) => GroupInv'
  <1> USE DEF GroupInv
  <1>1. ASSUME NEW p \in Tx, NEW r \in Request, Ask(p, r)
        PROVE  GroupInv'
    <2> DEFINE w == tx[p]
               new == [status |-> "pending", requester |-> w.other,
                       invitee |-> w.user, version |-> version]
    <2>1. /\ w.user \in User /\ w.other \in User \union {None}
          /\ policy = "member_approval" /\ version \in 0..MaxVersion
          /\ \A q \in Tx : ~tx[q].locked
          /\ UNCHANGED <<role, owner, dissolved, blacklist, policy, version, invites, gone, due>>
      BY <1>1 DEF Ask, Named, GroupTypeOK, Work, GroupLocked, group
    <2>2. Ended({p})
      BY <1>1, EndedFacts DEF Ask
    <2>3. new \in JoinRequest /\ new.status = "pending" /\ new.version = version
          /\ new.invitee = w.user
      BY <2>1 DEF JoinRequest
    <2>4. \A q \in Request : [req[q] EXCEPT !.status = "expired"] \in JoinRequest
                              /\ [req[q] EXCEPT !.status = "expired"].status = "expired"
                              /\ [req[q] EXCEPT !.status = "expired"].invitee = req[q].invitee
      BY DEF GroupTypeOK, JoinRequest, Resolved
    <2>5. req' = [q \in Request |->
              IF q = r THEN new
              ELSE IF q \in Pending(w.user) THEN [req[q] EXCEPT !.status = "expired"]
              ELSE req[q]]
      BY <1>1 DEF Ask
    <2>6. \A q \in Request : \/ req'[q] = new
                              \/ req'[q] = req[q]
                              \/ /\ req'[q] = [req[q] EXCEPT !.status = "expired"]
                                 /\ q \in Pending(w.user)
      <3> HIDE DEF new
      <3> QED
        BY <2>5
    <2> HIDE DEF new
    <2>7. req' \in [Request -> JoinRequest]
      BY <2>3, <2>4, <2>5 DEF GroupTypeOK
    <2>8. \A q \in Request : req'[q].status # "none" => req'[q].invitee \in User
      <3> TAKE q \in Request
      <3>1. CASE req'[q] = new
        BY <2>1, <2>3, <3>1
      <3>2. CASE req'[q] = req[q]
        BY <3>2 DEF Named
      <3>3. CASE req'[q] = [req[q] EXCEPT !.status = "expired"] /\ q \in Pending(w.user)
        BY <2>4, <3>3 DEF Named, Pending
      <3> QED
        BY <2>6, <3>1, <3>2, <3>3
    <2>9. Typed'
      BY <2>1, <2>7, <2>8 DEF Typed, GroupTypeOK
    <2>10. Respects({p})
      BY <2>1 DEF Respects, GroupTypeOK, AcceptIsClear
    <2>11. DissolvedIsEmpty' /\ BlacklistKeepsOut'
      BY <2>1 DEF DissolvedIsEmpty, BlacklistKeepsOut, Members
    <2>12. PendingIsCurrent'
      <3> SUFFICES ASSUME NEW q \in Request, req'[q].status = "pending"
                   PROVE  req'[q].version = version /\ policy = "member_approval"
        BY <2>1 DEF PendingIsCurrent
      <3>1. CASE req'[q] = new
        BY <2>1, <2>3, <3>1
      <3>2. CASE req'[q] = req[q]
        BY <3>2 DEF PendingIsCurrent
      <3> QED
        BY <2>4, <2>6, <3>1, <3>2
    <2> HIDE DEF GroupInv
    <2> QED
      BY <2>2, <2>9, <2>10, <2>11, <2>12, EndInv
  <1>2. ASSUME NEW r \in Request, Settle(r)
        PROVE  GroupInv'
    <2>1. PICK s \in Resolved : req' = [req EXCEPT ![r].status = s]
      BY <1>2 DEF Settle, Resolved
    <2>2. /\ req[r].status = "pending" /\ \A q \in Tx : ~tx[q].locked
          /\ UNCHANGED <<role, owner, dissolved, blacklist, policy, version, invites, gone, due, tx>>
      BY <1>2 DEF Settle, GroupLocked, group
    <2>3. req'[r] = [req[r] EXCEPT !.status = s] /\ \A q \in Request \ {r} : req'[q] = req[q]
      BY <2>1 DEF GroupTypeOK
    <2>4. req'[r] \in JoinRequest /\ req'[r].status = s /\ req'[r].invitee = req[r].invitee
      BY <2>3 DEF GroupTypeOK, JoinRequest
    <2>5. req' \in [Request -> JoinRequest]
      BY <2>1, <2>3, <2>4 DEF GroupTypeOK
    <2>6. Typed'
      BY <2>2, <2>3, <2>4, <2>5 DEF Typed, GroupTypeOK, Named
    <2>7. Respects({}) /\ Ended({})
      BY <2>2, EndedFacts DEF Respects, GroupTypeOK, AcceptIsClear
    <2>8. DissolvedIsEmpty' /\ BlacklistKeepsOut'
      BY <2>2 DEF DissolvedIsEmpty, BlacklistKeepsOut, Members
    <2>9. PendingIsCurrent'
      BY <2>2, <2>3, <2>4 DEF PendingIsCurrent, Resolved
    <2> HIDE DEF GroupInv
    <2> QED
      BY <2>6, <2>7, <2>8, <2>9, EndInv
  <1>3. ASSUME NEW new \in Policy, SetJoinPolicy(new)
        PROVE  GroupInv'
    <2>1. /\ \A q \in Tx : ~tx[q].locked /\ tx[q].kind # "accept"
          /\ UNCHANGED <<role, owner, dissolved, blacklist, gone, due, tx>>
          /\ policy' = new /\ version' = version + 1 /\ version < MaxVersion /\ invites' = {}
      <3>1. \A q \in Tx : tx[q].kind # "accept"
        BY <1>3 DEF SetJoinPolicy, InviteHeld, Named
      <3> QED
        BY <1>3, <3>1 DEF SetJoinPolicy, GroupLocked
    <2>2. ASSUME NEW r \in Request
          PROVE  /\ req'[r] \in JoinRequest
                 /\ req'[r].status # "pending"
                 /\ req'[r].status # "none" => req'[r].invitee \in User
      <3>1. req'[r] = IF req[r].status = "pending"
                      THEN [req[r] EXCEPT !.status = "invalidated"] ELSE req[r]
        BY <1>3 DEF SetJoinPolicy
      <3>2. req[r] \in JoinRequest
        BY DEF GroupTypeOK
      <3>3. CASE req[r].status = "pending"
        BY <3>1, <3>2, <3>3 DEF JoinRequest, Resolved, Named
      <3>4. CASE req[r].status # "pending"
        BY <3>1, <3>2, <3>4 DEF Named
      <3> QED
        BY <3>3, <3>4
    <2>3. req' \in [Request -> JoinRequest]
      <3> DEFINE After(r) == IF req[r].status = "pending"
                             THEN [req[r] EXCEPT !.status = "invalidated"] ELSE req[r]
      <3>1. req' = [r \in Request |-> After(r)]
        BY <1>3 DEF SetJoinPolicy
      <3>2. ASSUME NEW r \in Request
            PROVE  After(r) \in JoinRequest
        <4>1. req'[r] = After(r)
          BY <3>1
        <4> QED
          BY <2>2, <4>1
      <3> HIDE DEF After
      <3> QED
        BY <3>1, <3>2
    <2>4. version' \in 1..MaxVersion
      BY <2>1, GroupAssumption DEF GroupTypeOK
    <2>5. Typed'
      <3>1. \A r \in Request : req'[r].status # "none" => req'[r].invitee \in User
        BY <2>2
      <3> QED
        BY <2>1, <2>3, <2>4, <3>1 DEF Typed, GroupTypeOK
    <2>6. Respects({}) /\ Ended({})
      BY <2>1, EndedFacts DEF Respects
    <2>7. DissolvedIsEmpty' /\ BlacklistKeepsOut'
      BY <2>1 DEF DissolvedIsEmpty, BlacklistKeepsOut, Members
    <2>8. PendingIsCurrent'
      <3>1. \A r \in Request : req'[r].status # "pending"
        BY <2>2
      <3> QED
        BY <3>1 DEF PendingIsCurrent
    <2> HIDE DEF GroupInv
    <2> QED
      BY <2>5, <2>6, <2>7, <2>8, EndInv
  <1> QED
    BY <1>1, <1>2, <1>3
---------------------------------------------------------------------------
LEMMA LeavingInv ==
  ASSUME GroupInv
  PROVE  /\ \A p \in Tx : RemoveEnd(p) \/ GrantEnd(p) \/ TransferEnd(p) \/ DeleteEnd(p)
                           \/ RollBack(p) => GroupInv'
         /\ \A r \in Request : BecomesDue(r) => GroupInv'
         /\ \A u \in User : DropInvite(u) \/ AdminRemoveGroupBlacklist(u) => GroupInv'
         /\ UNCHANGED groupVars => GroupInv'
  <1> USE DEF GroupInv
  <1>0. /\ UNCHANGED tx => Ended({})
        /\ \A p \in Tx : Commit(p) => Ended({p})
    BY EndedFacts
  <1>1. /\ role \in [User -> MemberRole] /\ owner \in User /\ gone \subseteq User
        /\ due \in [Request -> BOOLEAN]
        /\ \A q \in Tx : tx[q].kind = "accept" => tx[q].user \in invites
        /\ {"none", "member", "owner"} \subseteq MemberRole
    BY DEF GroupTypeOK, AcceptIsClear, MemberRole
  <1>2. ASSUME NEW p \in Tx, RemoveEnd(p)
        PROVE  GroupInv'
    <2>1. role' \in [User -> MemberRole] /\ \A u \in User : role'[u] # "none" => role[u] # "none"
      BY <1>1, <1>2 DEF RemoveEnd
    <2>2. Ended({p}) /\ UNCHANGED <<owner, dissolved, blacklist, policy, version, invites, gone, req, due>>
      BY <1>0, <1>2 DEF RemoveEnd, group
    <2> HIDE DEF GroupInv
    <2> QED
      BY <1>1, <2>1, <2>2, FewerInv
  <1>3. ASSUME NEW p \in Tx, GrantEnd(p)
        PROVE  GroupInv'
    <2>1. tx[p].as \in MemberRole
      BY DEF GroupTypeOK, Work
    <2>2. role' \in [User -> MemberRole] /\ \A u \in User : role'[u] # "none" => role[u] # "none"
      BY <1>1, <1>3, <2>1 DEF GrantEnd
    <2>3. Ended({p}) /\ UNCHANGED <<owner, dissolved, blacklist, policy, version, invites, gone, req, due>>
      BY <1>0, <1>3 DEF GrantEnd, group
    <2> HIDE DEF GroupInv
    <2> QED
      BY <1>1, <2>2, <2>3, FewerInv
  <1>4. ASSUME NEW p \in Tx, TransferEnd(p)
        PROVE  GroupInv'
    <2>1. role' \in [User -> MemberRole] /\ \A u \in User : role'[u] # "none" => role[u] # "none"
      BY <1>1, <1>4 DEF TransferEnd
    <2>2. owner' \in User
      BY <1>4 DEF TransferEnd, Named
    <2>3. Ended({p}) /\ UNCHANGED <<dissolved, blacklist, policy, version, invites, gone, req, due>>
      BY <1>0, <1>4 DEF TransferEnd
    <2> HIDE DEF GroupInv
    <2> QED
      BY <1>1, <2>1, <2>2, <2>3, FewerInv
  <1>5. ASSUME NEW p \in Tx, DeleteEnd(p)
        PROVE  GroupInv'
    <2>1. role' \in [User -> MemberRole] /\ \A u \in User : role'[u] # "none" => role[u] # "none"
      BY <1>1, <1>5 DEF DeleteEnd
    <2>2. gone' \subseteq User
      BY <1>1, <1>5 DEF DeleteEnd, Named
    <2>3. /\ invites' \subseteq invites
          /\ \A q \in Tx \ {p} : tx[q].kind = "accept" => tx[q].user \in invites'
      BY <1>1, <1>5 DEF DeleteEnd, InviteHeld
    <2>4. Ended({p}) /\ UNCHANGED <<owner, dissolved, blacklist, policy, version, req, due>>
      BY <1>0, <1>5 DEF DeleteEnd, group
    <2> HIDE DEF GroupInv
    <2> QED
      BY <1>1, <2>1, <2>2, <2>3, <2>4, FewerInv
  <1>6. ASSUME NEW p \in Tx, RollBack(p)
        PROVE  GroupInv'
    <2>1. Ended({p}) /\ UNCHANGED <<role, owner, dissolved, blacklist, policy, version, invites, gone, req, due>>
      BY <1>0, <1>6 DEF RollBack, group
    <2> HIDE DEF GroupInv
    <2> QED
      BY <1>1, <2>1, FewerInv
  <1>7. ASSUME NEW r \in Request, BecomesDue(r)
        PROVE  GroupInv'
    <2>1. Ended({}) /\ UNCHANGED <<role, owner, dissolved, blacklist, policy, version, invites, gone, req>>
      BY <1>0, <1>7 DEF BecomesDue, group
    <2>2. due' \in [Request -> BOOLEAN]
      BY <1>1, <1>7 DEF BecomesDue
    <2> HIDE DEF GroupInv
    <2> QED
      BY <1>1, <2>1, <2>2, FewerInv
  <1>8. ASSUME NEW u \in User, DropInvite(u)
        PROVE  GroupInv'
    <2>1. Ended({}) /\ UNCHANGED <<role, owner, dissolved, blacklist, policy, version, gone, req, due>>
      BY <1>0, <1>8 DEF DropInvite, group
    <2>2. /\ invites' \subseteq invites
          /\ \A q \in Tx : tx[q].kind = "accept" => tx[q].user \in invites'
      BY <1>1, <1>8 DEF DropInvite, InviteHeld
    <2> HIDE DEF GroupInv
    <2> QED
      BY <1>1, <2>1, <2>2, FewerInv
  <1>9. ASSUME NEW u \in User, AdminRemoveGroupBlacklist(u)
        PROVE  GroupInv'
    <2>1. /\ Ended({}) /\ blacklist' \subseteq blacklist
          /\ UNCHANGED <<role, owner, dissolved, policy, version, invites, gone, req, due>>
      BY <1>0, <1>9 DEF AdminRemoveGroupBlacklist
    <2> HIDE DEF GroupInv
    <2> QED
      BY <1>1, <2>1, FewerInv
  <1>10. ASSUME UNCHANGED groupVars
         PROVE  GroupInv'
    <2>1. Ended({}) /\ UNCHANGED <<role, owner, dissolved, blacklist, policy, version, invites, gone, req, due>>
      BY <1>0, <1>10 DEF groupVars, group
    <2> HIDE DEF GroupInv
    <2> QED
      BY <1>1, <2>1, FewerInv
  <1> QED
    BY <1>2, <1>3, <1>4, <1>5, <1>6, <1>7, <1>8, <1>9, <1>10

LEMMA DisbandInv ==
  ASSUME GroupInv, NEW p \in Tx, DisbandEnd(p)
  PROVE  GroupInv'
  <1> USE DEF GroupInv
  <1>1. /\ dissolved' = TRUE /\ role' = [u \in User |-> "none"]
        /\ \A q \in Tx : ~tx[q].locked
        /\ UNCHANGED <<owner, blacklist, policy, version, invites, gone, req, due>>
    BY DEF DisbandEnd, GroupLocked
  <1>2. Ended({p})
    BY EndedFacts DEF DisbandEnd
  <1>3. Typed'
    BY <1>1 DEF Typed, GroupTypeOK, MemberRole, Named
  <1>4. Respects({p})
    BY <1>1 DEF Respects, GroupTypeOK, AcceptIsClear
  <1>5. Members' = {}
    BY <1>1 DEF Members
  <1>6. DissolvedIsEmpty' /\ BlacklistKeepsOut' /\ PendingIsCurrent'
    BY <1>1, <1>5 DEF DissolvedIsEmpty, BlacklistKeepsOut, PendingIsCurrent
  <1> HIDE DEF GroupInv
  <1> QED
    BY <1>2, <1>3, <1>4, <1>6, EndInv

LEMMA BlacklistInv ==
  ASSUME GroupInv, NEW u \in User, Blacklist(u)
  PROVE  GroupInv'
  <1> USE DEF GroupInv
  <1>1. /\ blacklist' = blacklist \union {u} /\ invites' = invites \ {u}
        /\ ~dissolved /\ \A q \in Tx : ~tx[q].locked
        /\ u \in invites => ~InviteHeld(u)
        /\ UNCHANGED <<owner, dissolved, policy, version, gone, req, due, tx>>
    BY DEF Blacklist, GroupLocked
  <1>2. role' \in [User -> MemberRole] /\ \A v \in User : role'[v] # "none" => role[v] # "none" /\ v # u
    BY DEF Blacklist, GroupTypeOK, MemberRole
  <1>3. Ended({})
    BY <1>1, EndedFacts
  <1>4. Typed'
    BY <1>1, <1>2 DEF Typed, GroupTypeOK, Named
  <1>5. Respects({})
    <2>1. \A q \in Tx : tx[q].kind = "accept" => tx[q].user # u
      BY <1>1 DEF AcceptIsClear, InviteHeld
    <2> QED
      BY <1>1, <2>1 DEF Respects, GroupTypeOK, AcceptIsClear
  <1>6. DissolvedIsEmpty' /\ BlacklistKeepsOut' /\ PendingIsCurrent'
    BY <1>1, <1>2 DEF DissolvedIsEmpty, BlacklistKeepsOut, PendingIsCurrent, Members
  <1> HIDE DEF GroupInv
  <1> QED
    BY <1>3, <1>4, <1>5, <1>6, EndInv

LEMMA NextInv == GroupInv /\ [GroupNext]_groupVars => GroupInv'
  <1> SUFFICES ASSUME GroupInv, [GroupNext]_groupVars PROVE GroupInv'
    OBVIOUS
  <1> QED
    BY StartsInv, LockInv, AddEndInv, RequestsInv, LeavingInv, DisbandInv, BlacklistInv DEF GroupNext
---------------------------------------------------------------------------
LEMMA GroupInvariant == GroupSpec => []GroupInv
  BY InitInv, NextInv, PTL DEF GroupSpec

\* The tables keep the columns and statuses the schema gives them.
THEOREM GroupTypeCorrect == GroupSpec => []GroupTypeOK
  <1>1. GroupInv => GroupTypeOK
    BY DEF GroupInv
  <1> QED
    BY <1>1, GroupInvariant, PTL

\* Nobody is a member of a dissolved group, whatever was under way when it was
\* dissolved.
THEOREM GroupDissolvedIsEmpty == GroupSpec => []DissolvedIsEmpty
  <1>1. GroupInv => DissolvedIsEmpty
    BY DEF GroupInv
  <1> QED
    BY <1>1, GroupInvariant, PTL

\* Nobody on the blacklist is a member: the lock on the group and the one on the
\* invitation are enough for any number of transactions.
THEOREM GroupBlacklistKeepsOut == GroupSpec => []BlacklistKeepsOut
  <1>1. GroupInv => BlacklistKeepsOut
    BY DEF GroupInv
  <1> QED
    BY <1>1, GroupInvariant, PTL

\* Open join requests belong to the policy in force.
THEOREM GroupPendingIsCurrent == GroupSpec => []PendingIsCurrent
  <1>1. GroupInv => PendingIsCurrent
    BY DEF GroupInv
  <1> QED
    BY <1>1, GroupInvariant, PTL

\* The answer to a join request is final.
THEOREM GroupAnsweredForever == GroupSpec => AnsweredForever
  <1>1. ASSUME GroupInv, [GroupNext]_groupVars, NEW r \in Request, req[r].status \in Resolved
        PROVE  req'[r].status = req[r].status
    <2> USE DEF GroupInv
    <2>1. req[r].status # "pending" /\ req[r].status # "none"
      BY <1>1 DEF Resolved
    <2>2. ASSUME NEW p \in Tx, AddEnd(p)
          PROVE  req'[r] = req[r]
      <3>1. CASE tx[p].kind = "approve"
        <4>1. tx[p].request # r
          BY <1>1, <2>1, <2>2, <3>1 DEF AddEnd, LockedIsClear
        <4>2. req' = [req EXCEPT ![tx[p].request].status = "approved"]
          BY <2>2, <3>1 DEF AddEnd
        <4> QED
          BY <1>1, <4>1, <4>2 DEF GroupTypeOK
      <3>2. CASE tx[p].kind # "approve"
        BY <2>2, <3>2 DEF AddEnd
      <3> QED
        BY <3>1, <3>2
    <2>3. ASSUME NEW p \in Tx, NEW q \in Request, Ask(p, q)
          PROVE  req'[r] = req[r]
      <3>1. r # q /\ r \notin Pending(tx[p].user)
        BY <2>1, <2>3 DEF Ask, Pending, NoRequest
      <3> QED
        BY <2>3, <3>1 DEF Ask
    <2>4. ASSUME NEW q \in Request, Settle(q)
          PROVE  req'[r] = req[r]
      <3>1. r # q
        BY <2>1, <2>4 DEF Settle
      <3> QED
        BY <2>4, <3>1 DEF Settle, GroupTypeOK
    <2>5. ASSUME NEW new \in Policy, SetJoinPolicy(new)
          PROVE  req'[r] = req[r]
      BY <2>1, <2>5 DEF SetJoinPolicy
    <2>6. CASE UNCHANGED req
      BY <2>6
    <2> QED
      BY <1>1, <2>2, <2>3, <2>4, <2>5, <2>6
         DEF GroupNext, groupVars, AddBegin, TransferBegin, RemoveBegin, GrantBegin, DisbandBegin,
             ApproveBegin, QRBegin, AcceptBegin, LeaveBegin, DeleteBegin, Lock, RemoveEnd,
             GrantEnd, TransferEnd, DisbandEnd, DeleteEnd, RollBack, BecomesDue, DropInvite,
             Blacklist, AdminRemoveGroupBlacklist
  <1>2. GroupInv /\ [GroupNext]_groupVars =>
            [\A r \in Request : req[r].status \in Resolved => req'[r].status = req[r].status]_groupVars
    BY <1>1
  <1> QED
    BY <1>2, GroupInvariant, PTL DEF GroupSpec, AnsweredForever

\* The whole promise of the admission of members (AddGroupMembersByPolicy,
\* TransitionGroupJoinRequest, DisbandGroupRecord and the rest): in every state
\* nobody blacklisted or dissolved away is a member and every open request is
\* current, and an answer is final.
THEOREM GroupKeepsPromise == GroupSpec => GroupKept
  BY GroupTypeCorrect, GroupBlacklistKeepsOut, GroupPendingIsCurrent,
     GroupDissolvedIsEmpty, GroupAnsweredForever, PTL
  DEF GroupKept
---------------------------------------------------------------------------
(* The limit.  The transactions that look at it hold the row of the group   *)
(* from the check to the insert, so there is still room at the insert: what *)
(* happens in between only makes room.                                      *)

Unlimited == {"qr", "accept"}

Room ==
    \A p \in Tx : tx[p].locked =>
        tx[p].user \in Members \/ Cardinality(Members) < MaxMembers

\* Inductive together with GroupInv, where nobody joins past the limit.
LimitInv ==
    /\ WithinLimit
    /\ Room
    /\ \A p \in Tx : tx[p].kind \notin Unlimited

\* Steps after which nobody is a member who was not one before.
LEMMA FewerLimit ==
  ASSUME IsFiniteSet(User), LimitInv, Members' \subseteq Members,
         \A p \in Tx : tx'[p] = tx[p] \/ (~tx'[p].locked /\ tx'[p].kind \notin Unlimited)
  PROVE  LimitInv'
  <1>1. IsFiniteSet(Members) /\ IsFiniteSet(Members')
    BY FS_Subset DEF Members
  <1>2. /\ Cardinality(Members) \in Nat /\ Cardinality(Members') \in Nat
        /\ Cardinality(Members') <= Cardinality(Members)
        /\ Cardinality(Members') = Cardinality(Members) => Members' = Members
    BY <1>1, FS_Subset, FS_CardinalityType
  <1>3. WithinLimit'
    BY <1>2, GroupAssumption DEF LimitInv, WithinLimit
  <1>4. ASSUME NEW p \in Tx, tx'[p].locked
        PROVE  tx'[p].user \in Members' \/ Cardinality(Members') < MaxMembers
    <2>1. tx'[p] = tx[p]
      BY <1>4
    <2>2. tx[p].user \in Members \/ Cardinality(Members) < MaxMembers
      BY <1>4, <2>1 DEF LimitInv, Room
    <2>3. CASE Members' = Members
      BY <2>1, <2>2, <2>3
    <2>4. CASE Members' # Members
      <3>1. Cardinality(Members') < Cardinality(Members)
        BY <1>2, <2>4
      <3> QED
        BY <1>2, <3>1, GroupAssumption DEF LimitInv, WithinLimit
    <2> QED
      BY <2>3, <2>4
  <1> QED
    BY <1>3, <1>4 DEF LimitInv, Room

\* Starting a transaction: it holds nothing yet.
LEMMA StartLimit ==
  ASSUME GroupInv, IsFiniteSet(User), Kinds \intersect Unlimited = {}, LimitInv,
         NEW p \in Tx, NEW w, StartWork(p, w), ~w.locked, UNCHANGED role
  PROVE  LimitInv'
  <1>1. Members' = Members
    BY DEF Members
  <1>2. \A q \in Tx : tx'[q] = tx[q] \/ (~tx'[q].locked /\ tx'[q].kind \notin Unlimited)
    BY DEF StartWork, GroupInv, GroupTypeOK
  <1> QED
    BY <1>1, <1>2, FewerLimit

\* Ending one, or none, without a new member.
LEMMA EndLimit ==
  ASSUME GroupInv, IsFiniteSet(User), LimitInv, Members' \subseteq Members,
         UNCHANGED tx \/ \E p \in Tx : Commit(p)
  PROVE  LimitInv'
  <1>1. ~Idle.locked /\ Idle.kind \notin Unlimited
    BY DEF Idle, Unlimited
  <1>2. \A q \in Tx : tx'[q] = tx[q] \/ (~tx'[q].locked /\ tx'[q].kind \notin Unlimited)
    BY <1>1 DEF Commit, GroupInv, GroupTypeOK
  <1> QED
    BY <1>2, FewerLimit

\* The check: who takes the lock has found room.
LEMMA LockLimit ==
  ASSUME GroupInv, LimitInv, NEW p \in Tx, Lock(p)
  PROVE  LimitInv'
  <1>1. /\ Members' = Members
        /\ \A q \in Tx : tx'[q].kind = tx[q].kind /\ tx'[q].user = tx[q].user
        /\ \A q \in Tx : q # p => tx'[q] = tx[q]
    BY DEF Lock, Members, GroupInv, GroupTypeOK, Work
  <1>2. tx[p].user \in Members \/ Cardinality(Members) < MaxMembers
    <2>1. tx[p].kind \in {"add", "approve"}
      BY DEF Lock, Adding, LimitInv, Unlimited
    <2> QED
      BY <2>1 DEF Lock, MayAdd
  <1>3. WithinLimit'
    BY <1>1 DEF LimitInv, WithinLimit
  <1>4. Room'
    BY <1>1, <1>2 DEF LimitInv, Room
  <1>5. \A q \in Tx : tx'[q].kind \notin Unlimited
    BY <1>1 DEF LimitInv
  <1> QED
    BY <1>3, <1>4, <1>5 DEF LimitInv

\* The insert: nobody else holds the lock, and the room is still there.
LEMMA AddEndLimit ==
  ASSUME GroupInv, IsFiniteSet(User), LimitInv, NEW p \in Tx, AddEnd(p)
  PROVE  LimitInv'
  <1> DEFINE u == tx[p].user
  <1>1. /\ tx[p].locked /\ u \in User
        /\ u \in Members \/ Cardinality(Members) < MaxMembers
    <2>1. tx[p].locked /\ tx[p].kind \in Adding
      BY DEF AddEnd, GroupInv, LockedIsClear
    <2>2. u \in User
      BY <2>1 DEF GroupInv, Named, Adding
    <2> QED
      BY <2>1, <2>2 DEF LimitInv, Room
  <1>2. Members' = Members \union {u}
    <2>1. role \in [User -> MemberRole]
      BY DEF GroupInv, GroupTypeOK
    <2>2. role' = IF role[u] = "none" THEN [role EXCEPT ![u] = "member"] ELSE role
      BY DEF AddEnd
    <2>3. \A v \in User : role'[v] # "none" <=> role[v] # "none" \/ v = u
      BY <1>1, <2>1, <2>2
    <2> QED
      BY <1>1, <2>3 DEF Members
  <1>3. \A q \in Tx : ~tx'[q].locked /\ tx'[q].kind \notin Unlimited
    <2>1. ~Idle.locked /\ Idle.kind \notin Unlimited
      BY DEF Idle, Unlimited
    <2>2. \A q \in Tx : tx'[q] = IF q = p THEN Idle ELSE tx[q]
      BY DEF AddEnd, Commit, GroupInv, GroupTypeOK
    <2>3. \A q \in Tx : q # p => ~tx[q].locked
      BY <1>1 DEF GroupInv, OneLock
    <2> QED
      BY <2>1, <2>2, <2>3 DEF LimitInv
  <1>4. WithinLimit'
    <2>1. IsFiniteSet(Members) /\ Cardinality(Members) \in Nat
      BY FS_Subset, FS_CardinalityType DEF Members
    <2>2. Cardinality(Members \union {u}) = IF u \in Members THEN Cardinality(Members)
                                            ELSE Cardinality(Members) + 1
      BY <2>1, FS_AddElement
    <2>3. Cardinality(Members) <= MaxMembers
      BY DEF LimitInv, WithinLimit
    <2>4. Cardinality(Members \union {u}) <= MaxMembers
      BY <1>1, <2>1, <2>2, <2>3, GroupAssumption
    <2> QED
      BY <1>2, <2>4 DEF WithinLimit
  <1> QED
    BY <1>3, <1>4 DEF LimitInv, Room

LEMMA InitLimit == GroupInit => LimitInv
  <1> SUFFICES ASSUME GroupInit PROVE LimitInv
    OBVIOUS
  <1>1. \A p \in Tx : ~tx[p].locked /\ tx[p].kind \notin Unlimited
    BY DEF GroupInit, Idle, Unlimited
  <1>2. PICK S \in SUBSET User :
           /\ Cardinality(S \union {owner}) <= MaxMembers
           /\ role = [u \in User |-> IF u = owner THEN "owner"
                                     ELSE IF u \in S THEN "member" ELSE "none"]
    BY DEF GroupInit
  <1>3. Members = S \union {owner}
    BY <1>2 DEF Members, GroupInit
  <1>4. WithinLimit
    BY <1>2, <1>3 DEF WithinLimit
  <1> QED
    BY <1>1, <1>4 DEF LimitInv, Room

LEMMA NextLimit ==
  ASSUME GroupInv, IsFiniteSet(User), Kinds \intersect Unlimited = {}, LimitInv,
         [GroupNext]_groupVars
  PROVE  LimitInv'
  <1>1. ASSUME NEW p \in Tx, NEW kind, NEW u, NEW v, NEW as, NEW r,
               StartWork(p, Doing(kind, u, v, as, r)),
               UNCHANGED <<role, group, invites, gone, req, due>>
        PROVE  LimitInv'
    <2>1. ~Doing(kind, u, v, as, r).locked
      BY DEF Doing
    <2> QED
      BY <1>1, <2>1, StartLimit
  <1>2. ASSUME NEW p \in Tx, NEW u \in User, NEW v \in User,
               AddBegin(p, v, u) \/ TransferBegin(p, v, u)
        PROVE  LimitInv'
    BY <1>1, <1>2 DEF AddBegin, TransferBegin
  <1>3. ASSUME NEW p \in Tx, NEW u \in User, NEW v \in User \union {None},
               RemoveBegin(p, v, u) \/ \E as \in {"member", "admin"} : GrantBegin(p, v, u, as)
        PROVE  LimitInv'
    BY <1>1, <1>3 DEF RemoveBegin, GrantBegin
  <1>4. ASSUME NEW p \in Tx, NEW v \in User \union {None}, DisbandBegin(p, v)
        PROVE  LimitInv'
    BY <1>1, <1>4 DEF DisbandBegin
  <1>5. ASSUME NEW p \in Tx, NEW v \in User, NEW r \in Request, ApproveBegin(p, v, r)
        PROVE  LimitInv'
    BY <1>1, <1>5 DEF ApproveBegin
  <1>6. ASSUME NEW p \in Tx, NEW u \in User,
               QRBegin(p, u) \/ AcceptBegin(p, u) \/ LeaveBegin(p, u) \/ DeleteBegin(p, u)
        PROVE  LimitInv'
    BY <1>1, <1>6 DEF QRBegin, AcceptBegin, LeaveBegin, DeleteBegin
  <1>7. ASSUME Members' \subseteq Members, UNCHANGED tx \/ \E p \in Tx : Commit(p)
        PROVE  LimitInv'
    BY <1>7, EndLimit
  <1>8. ASSUME NEW p \in Tx, RemoveEnd(p) \/ GrantEnd(p) \/ TransferEnd(p) \/ DisbandEnd(p)
                              \/ DeleteEnd(p) \/ RollBack(p)
        PROVE  LimitInv'
    <2>1. Members' \subseteq Members
      BY <1>8 DEF RemoveEnd, GrantEnd, TransferEnd, DisbandEnd, DeleteEnd, RollBack, Members,
                  GroupInv, GroupTypeOK
    <2>2. Commit(p)
      BY <1>8 DEF RemoveEnd, GrantEnd, TransferEnd, DisbandEnd, DeleteEnd, RollBack
    <2> QED
      BY <1>7, <2>1, <2>2
  <1>9. ASSUME NEW p \in Tx, NEW r \in Request, Ask(p, r)
        PROVE  LimitInv'
    <2>1. Members' \subseteq Members /\ Commit(p)
      BY <1>9 DEF Ask, Members
    <2> QED
      BY <1>7, <2>1
  <1>10. ASSUME \/ \E r \in Request : Settle(r) \/ BecomesDue(r)
                \/ \E u \in User : DropInvite(u) \/ Blacklist(u) \/ AdminRemoveGroupBlacklist(u)
                \/ \E new \in Policy : SetJoinPolicy(new)
                \/ UNCHANGED groupVars
         PROVE  LimitInv'
    <2>1. Members' \subseteq Members
      BY <1>10 DEF Settle, BecomesDue, DropInvite, Blacklist, AdminRemoveGroupBlacklist,
                   SetJoinPolicy, groupVars, Members, GroupInv, GroupTypeOK
    <2>2. UNCHANGED tx
      BY <1>10 DEF Settle, BecomesDue, DropInvite, Blacklist, AdminRemoveGroupBlacklist,
                   SetJoinPolicy, groupVars
    <2> QED
      BY <1>7, <2>1, <2>2
  <1> QED
    BY <1>2, <1>3, <1>4, <1>5, <1>6, <1>8, <1>9, <1>10, LockLimit, AddEndLimit DEF GroupNext

\* However many additions and approvals are under way, they never take a group
\* past maxGroupMembers: the number of members is read under the lock of the
\* insert.  Stated for groups nobody joins by QR code or by an invitation of an
\* earlier release: JoinGroupByQR and TransitionGroupInvite do not look at the
\* number of members, so with them the limit is none.
THEOREM GroupStaysWithinLimit ==
  ASSUME IsFiniteSet(User), Kinds \intersect {"qr", "accept"} = {}
  PROVE  GroupSpec => []WithinLimit
  <1>1. GroupInit => LimitInv
    BY InitLimit
  <1>2. GroupInv /\ LimitInv /\ [GroupNext]_groupVars => LimitInv'
    BY NextLimit DEF Unlimited
  <1>3. LimitInv => WithinLimit
    BY DEF LimitInv
  <1> QED
    BY <1>1, <1>2, <1>3, GroupInvariant, PTL DEF GroupSpec

---------------------------------------------------------------------------
\* A set of natural numbers has a least member.
LEMMA LeastOf ==
  ASSUME NEW S, S \subseteq Nat, S # {}
  PROVE  \E m \in S : \A k \in S : m <= k
  <1>1. PICK m \in S : \A k \in S : ~(<<k, m>> \in OpToRel(<, Nat))
    BY NatLessThanWellFounded, WFMin
  <1>2. ASSUME NEW k \in S PROVE m <= k
    <2>1. k \in Nat /\ m \in Nat
      OBVIOUS
    <2>2. ~(k < m)
      BY <1>1, <2>1 DEF OpToRel
    <2> QED
      BY <2>1, <2>2
  <1> QED
    BY <1>2

---------------------------------------------------------------------------
(* Lists.  The places of two rows differ in every order, so the rows up to a *)
(* place, or the first so many rows, are the same set whoever reads them; a  *)
(* walk has shown exactly these of the rows that kept their place.           *)

Orders == {"id", "rank, id", "newest, id", "newest, id desc", "touched, id", "oldest, id", "rank, oldest, id", "rank, newest, id"}
KeyOf == [x \in Id |-> Key(walk.list.order, row[x], x)]
Visible == {x \in Id : Shown(x)}

RowsOfList ==
    /\ row = [x \in Id |-> row[x]]
    /\ \A x \in Id : /\ DOMAIN row[x] = {"here", "match", "at", "touched", "rank"}
                     /\ row[x].at \in {1, 2} /\ row[x].touched \in {1, 2, 3} /\ row[x].rank \in {0, 1}

LEMMA Places ==
  ASSUME PagingAssumption, RowsOfList, NEW order \in Orders, NEW x \in Id, NEW y \in Id
  PROVE  /\ Key(order, row[x], x) \in Nat /\ 0 < Key(order, row[x], x) /\ Key(order, row[x], x) < 1000
         /\ x # y => Key(order, row[x], x) # Key(order, row[y], y)
  <1>1. /\ x \in 1 .. 9 /\ y \in 1 .. 9 /\ row[x].at \in 1 .. 2 /\ row[x].touched \in 1 .. 3 /\ row[x].rank \in 0 .. 1
        /\ row[y].at \in 1 .. 2 /\ row[y].touched \in 1 .. 3 /\ row[y].rank \in 0 .. 1
    BY DEF PagingAssumption, RowsOfList
  <1>2. CASE order = "id"
    <2>1. Key(order, row[x], x) = x /\ Key(order, row[y], y) = y
      BY <1>2 DEF Key, Place, Later
    <2> QED
      BY <1>1, <2>1
  <1>3. CASE order = "rank, id"
    <2>1. Key(order, row[x], x) = 10 * row[x].rank + x /\ Key(order, row[y], y) = 10 * row[y].rank + y
      BY <1>3 DEF Key, Place, Later
    <2> QED
      BY <1>1, <2>1
  <1>4. CASE order = "newest, id"
    <2>1. Key(order, row[x], x) = 10 * (9 - row[x].at) + x /\ Key(order, row[y], y) = 10 * (9 - row[y].at) + y
      BY <1>4 DEF Key, Place, Later
    <2> QED
      BY <1>1, <2>1
  <1>5. CASE order = "newest, id desc"
    <2>1. Key(order, row[x], x) = 10 * (9 - row[x].at) + (9 - x) /\ Key(order, row[y], y) = 10 * (9 - row[y].at) + (9 - y)
      BY <1>5 DEF Key, Place, Later
    <2> QED
      BY <1>1, <2>1
  <1>6. CASE order = "touched, id"
    <2>1. Key(order, row[x], x) = 10 * (9 - row[x].touched) + x /\ Key(order, row[y], y) = 10 * (9 - row[y].touched) + y
      BY <1>6 DEF Key, Place, Later
    <2> QED
      BY <1>1, <2>1
  <1>7. CASE order = "oldest, id"
    <2>1. Key(order, row[x], x) = 10 * row[x].at + x /\ Key(order, row[y], y) = 10 * row[y].at + y
      BY <1>7 DEF Key, Place, Later
    <2> QED
      BY <1>1, <2>1
  <1>8. CASE order = "rank, oldest, id"
    <2>1. Key(order, row[x], x) = 100 * row[x].rank + 10 * row[x].at + x /\ Key(order, row[y], y) = 100 * row[y].rank + 10 * row[y].at + y
      BY <1>8 DEF Key, Place, Later
    <2> QED
      BY <1>1, <2>1
  <1>9. CASE order = "rank, newest, id"
    <2>1. Key(order, row[x], x) = 100 * row[x].rank + 10 * (9 - row[x].at) + x /\ Key(order, row[y], y) = 100 * row[y].rank + 10 * (9 - row[y].at) + y
      BY <1>9 DEF Key, Place, Later
    <2> QED
      BY <1>1, <2>1
  <1> QED
    BY <1>2, <1>3, <1>4, <1>5, <1>6, <1>7, <1>8, <1>9 DEF Orders

LEMMA ListsAreKnown ==
  ASSUME NEW l \in List
  PROVE  /\ l.order \in Orders /\ l.cursor \in {"key", "row", "total", "more"}
         /\ l.cursor = "row" => l.order = "newest, id desc"
  <1> DEFINE moments == [order |-> "newest, id desc", cursor |-> "row"]
             Plain == {ByKey(o) : o \in Orders} \union {ByTotal(o) : o \in Orders} \union {ByMore(o) : o \in Orders}
  <1>1. l \in Plain \union {moments}
    <2>1. ListMoments = moments
      BY DEF ListMoments
    <2>2. {listBusinessChannelsPage, ListBusinessChannelMembers, ListAdminBusinessChannels, ListAdminBusinessChannelAccess,
           listBusinessChannelsForReconcile, ListAdminSupportSessions, ListAdminAccounts, ListUserAccessLogs} \subseteq Plain
      BY DEF listBusinessChannelsPage, ListBusinessChannelMembers, ListAdminBusinessChannels, ListAdminBusinessChannelAccess,
             listBusinessChannelsForReconcile, ListAdminSupportSessions, ListAdminAccounts, ListUserAccessLogs, Orders
    <2>3. {listAdminUsers, ListAdminReports, ListAdminAudits, ListAdminMessages, ListAdminMedia, ListAdminCalls,
           ListAdminAnnouncements, ListAdminMoments, ListAdminStickerPacks, ListAdminInviteCodes} \subseteq Plain
      BY DEF listAdminUsers, ListAdminReports, ListAdminAudits, ListAdminMessages, ListAdminMedia, ListAdminCalls,
             ListAdminAnnouncements, ListAdminMoments, ListAdminStickerPacks, ListAdminInviteCodes, Orders
    <2>4. {ListAdminInviteRelations, ListAdminGroupsScoped, ListAdminGroups, ListAdminFriendships, ListAdminFeedback,
           ListAdminGroupMembers, ListClientVersionHistory} \subseteq Plain
      BY DEF ListAdminInviteRelations, ListAdminGroupsScoped, ListAdminGroups, ListAdminFriendships, ListAdminFeedback,
             ListAdminGroupMembers, ListClientVersionHistory, Orders
    <2>5. {GroupMessageReceipts, ListConversationMembersPage, users, versionHistory} \subseteq Plain
      BY DEF GroupMessageReceipts, ListConversationMembersPage, users, versionHistory, Orders
    <2> HIDE DEF Plain, moments
    <2> QED
      BY <2>1, <2>2, <2>3, <2>4, <2>5 DEF List
  <1>2. CASE l \in Plain
    <2>1. PICK o \in Orders : l = ByKey(o) \/ l = ByTotal(o) \/ l = ByMore(o)
      BY <1>2
    <2>2. l.order = o /\ l.cursor \in {"key", "total", "more"}
      BY <2>1 DEF ByKey, ByTotal, ByMore
    <2> QED
      BY <2>2
  <1>3. CASE l = moments
    BY <1>3 DEF Orders
  <1> QED
    BY <1>1, <1>2, <1>3

\* The rows in order: k is their place, b where the last page ended.
OrderedBy(k) == /\ k \in [Id -> Nat]
                /\ \A x \in Id : 0 < k[x] /\ k[x] < 1000
                /\ \A x, y \in Id : x # y => k[x] # k[y]

LEMMA OrderOfWalk ==
  ASSUME PagingAssumption, RowsOfList, walk.list \in List
  PROVE  OrderedBy(KeyOf)
  <1>1. walk.list.order \in Orders
    BY ListsAreKnown
  <1>2. KeyOf = [x \in Id |-> KeyOf[x]] /\ \A x \in Id : KeyOf[x] = Key(walk.list.order, row[x], x)
    BY DEF KeyOf
  <1>3. \A x, y \in Id : KeyOf[x] \in Nat /\ 0 < KeyOf[x] /\ KeyOf[x] < 1000 /\ (x # y => KeyOf[x] # KeyOf[y])
    BY <1>1, <1>2, Places
  <1> QED
    BY <1>2, <1>3 DEF OrderedBy

LEMMA IdsAreFew ==
  ASSUME PagingAssumption, NEW S \in SUBSET Id
  PROVE  IsFiniteSet(S) /\ Cardinality(S) \in Nat
  <1>1. IsFiniteSet(1 .. 9)
    <2>1. 1 \in Int /\ 9 \in Int
      OBVIOUS
    <2> QED
      BY <2>1, FS_Interval
  <1>2. S \in SUBSET (1 .. 9)
    BY DEF PagingAssumption
  <1> QED
    BY <1>1, <1>2, FS_Subset, FS_CardinalityType

LEMMA LastOfPage ==
  ASSUME NEW k, OrderedBy(k), NEW page \in SUBSET Id, page # {}
  PROVE  \E y \in page : \A z \in page : k[z] <= k[y]
  <1> DEFINE S == {1000 - k[z] : z \in page}
  <1>1. \A z \in page : k[z] \in Nat /\ k[z] < 1000
    BY DEF OrderedBy
  <1>2. S \subseteq Nat /\ S # {}
    <2>1. ASSUME NEW z \in page PROVE 1000 - k[z] \in Nat
      BY <1>1
    <2> QED
      BY <2>1
  <1>3. \A z \in page : 1000 - k[z] \in S
    OBVIOUS
  <1>4. \A m \in S : \E y \in page : m = 1000 - k[y]
    OBVIOUS
  <1> HIDE DEF S
  <1>5. PICK m \in S : \A n \in S : m <= n
    BY <1>2, LeastOf
  <1>6. PICK y \in page : m = 1000 - k[y]
    BY <1>4
  <1>7. ASSUME NEW z \in page PROVE k[z] <= k[y]
    <2>1. 1000 - k[z] \in S
      BY <1>3
    <2>2. m <= 1000 - k[z]
      BY <1>5, <2>1
    <2>3. k[y] \in Nat /\ k[z] \in Nat
      BY <1>1
    <2> QED
      BY <1>6, <2>2, <2>3
  <1> QED
    BY <1>7

\* The first rows of an order: a set of so many with no other row before one of them.
Leads(k, S, all) == S \subseteq all /\ \A y \in S, x \in all \ S : k[y] <= k[x]

LEMMA FirstsAgree ==
  ASSUME PagingAssumption, NEW k, OrderedBy(k), NEW all \in SUBSET Id, NEW S, NEW T,
         Leads(k, S, all), Leads(k, T, all), Cardinality(S) = Cardinality(T)
  PROVE  S = T
  <1>1. S \in SUBSET Id /\ T \in SUBSET Id
    BY DEF Leads
  <1>2. IsFiniteSet(S) /\ IsFiniteSet(T)
    BY <1>1, IdsAreFew
  <1>3. CASE S \subseteq T
    BY <1>2, <1>3, FS_Subset
  <1>4. CASE T \subseteq S
    BY <1>2, <1>4, FS_Subset
  <1>5. ASSUME NEW x \in S \ T, NEW y \in T \ S PROVE FALSE
    <2>1. x \in all \ T /\ y \in all \ S
      BY <1>5 DEF Leads
    <2>2. k[x] <= k[y] /\ k[y] <= k[x]
      BY <1>5, <2>1 DEF Leads
    <2>3. k[x] \in Nat /\ k[y] \in Nat /\ k[x] # k[y]
      BY <1>5, <2>1 DEF OrderedBy
    <2> QED
      BY <2>2, <2>3
  <1> QED
    BY <1>3, <1>4, <1>5

LEMMA NextPageByOffset ==
  ASSUME PagingAssumption, NEW k, OrderedBy(k), NEW all \in SUBSET Id, NEW S, NEW T,
         Leads(k, S, all), Leads(k, T, all \ S)
  PROVE  Leads(k, S \union T, all) /\ Cardinality(S \union T) = Cardinality(S) + Cardinality(T)
  <1>1. S \in SUBSET Id /\ T \in SUBSET Id /\ S \intersect T = {}
    BY DEF Leads
  <1>2. IsFiniteSet(S) /\ IsFiniteSet(T) /\ Cardinality(S) \in Nat /\ Cardinality(T) \in Nat
    BY <1>1, IdsAreFew
  <1>3. Cardinality(S \union T) = Cardinality(S) + Cardinality(T) - Cardinality(S \intersect T)
    BY <1>2, FS_Union
  <1>4. Cardinality(S \intersect T) = 0
    BY <1>1, FS_EmptySet
  <1>5. Leads(k, S \union T, all)
    BY DEF Leads
  <1> QED
    BY <1>2, <1>3, <1>4, <1>5

WalkTypes ==
    /\ DOMAIN walk = {"list", "step", "cursor", "last", "total", "got"}
    /\ walk.list \in List /\ walk.step \in {"none", "count", "page", "done"}
    /\ walk.cursor \in Nat /\ walk.total \in Nat /\ walk.got \in [Id -> Nat]
    /\ changed \in Nat /\ steady \subseteq Visible
    /\ walk.step = "none" => walk.cursor = 0 /\ \A x \in Id : walk.got[x] = 0
    /\ walk.step = "count" => walk.list.cursor = "total"

\* The place the last page of a walk by keys ended at.
PlaceOfCursor == IF walk.cursor = 0 THEN 0 ELSE IF walk.list.cursor = "key" THEN walk.cursor ELSE KeyOf[walk.cursor]
KeyWalk == walk.step \in {"page"} /\ walk.list.cursor \in {"key", "row"} =>
    /\ walk.list.cursor = "row" /\ walk.cursor # 0 => walk.cursor \in Id /\ row[walk.cursor].here
    /\ \A x \in steady : walk.got[x] = IF KeyOf[x] <= PlaceOfCursor THEN 1 ELSE 0

NothingElse == changed = 0 /\ walk.step # "none" => steady = Visible /\ \A x \in Id \ steady : walk.got[x] = 0

ShownSoFar == {x \in Id : walk.got[x] # 0}
OffsetWalk == changed = 0 /\ walk.step \in {"count", "page"} /\ walk.list.cursor \in {"total", "more"} =>
    /\ \A x \in Id : walk.got[x] \in {0, 1}
    /\ Leads(KeyOf, ShownSoFar, Visible) /\ Cardinality(ShownSoFar) = walk.cursor
    /\ walk.step = "page" /\ walk.list.cursor = "total" => walk.total = Cardinality(Visible)

PagingInv == RowsOfList /\ WalkTypes /\ KeyWalk /\ NothingElse /\ OffsetWalk /\ WalksExact

LEMMA TurnThePage ==
  ASSUME WalkTypes, NEW page \in SUBSET Visible, NEW next \in Nat, NEW go \in BOOLEAN, walk.step = "page",
         More(page, next, go), UNCHANGED <<row, changed, steady>>
  PROVE  /\ WalkTypes' /\ walk'.list = walk.list /\ KeyOf' = KeyOf /\ Visible' = Visible
         /\ \A x \in Id : walk'.got[x] = walk.got[x] + IF x \in page THEN 1 ELSE 0
         /\ go => walk'.cursor = next /\ walk'.step = IF walk.list.cursor = "total" THEN "count" ELSE "page"
         /\ ~go => walk'.step = "done"
  <1>1. /\ DOMAIN walk' = DOMAIN walk /\ walk'.list = walk.list /\ walk'.total = walk.total /\ walk'.got = Got(page)
        /\ walk'.cursor = IF go THEN next ELSE walk.cursor
        /\ walk'.step = IF ~go THEN "done" ELSE IF walk.list.cursor = "total" THEN "count" ELSE "page"
    BY DEF More, WalkTypes
  <1>2. /\ \A x \in Id : Got(page)[x] = walk.got[x] + IF x \in page THEN 1 ELSE 0
        /\ Got(page) \in [Id -> Nat]
    BY DEF Got, WalkTypes
  <1>3. KeyOf' = KeyOf /\ Visible' = Visible
    BY <1>1 DEF KeyOf, Visible, Shown, Key
  <1>4. WalkTypes'
    BY <1>1, <1>2, <1>3 DEF WalkTypes
  <1> QED
    BY <1>1, <1>2, <1>3, <1>4

\* A page of a walk by keys takes the first rows beyond the cursor.
LEMMA KeyPageShown ==
  ASSUME PagingInv, PagingAssumption, walk.step = "page", walk.list.cursor \in {"key", "row"}, UNCHANGED <<row, changed, steady>>,
         NEW rest, rest = {x \in Visible : KeyOf[x] > PlaceOfCursor}, NEW page \in Firsts(walk.list.order, rest, PageLimit),
         NEW next \in Nat, NEW go \in BOOLEAN, More(page, next, go), go <=> Cardinality(rest) > PageLimit,
         go => \E y \in page : /\ \A z \in page : KeyOf[z] <= KeyOf[y]
                               /\ next = IF walk.list.cursor = "key" THEN KeyOf[y] ELSE y
  PROVE  PagingInv'
  <1>1. OrderedBy(KeyOf) /\ \A x \in Id : KeyOf[x] = Key(walk.list.order, row[x], x)
    BY OrderOfWalk DEF PagingInv, WalkTypes, KeyOf
  <1>2. /\ page \in SUBSET rest /\ Cardinality(page) = (IF Cardinality(rest) < PageLimit THEN Cardinality(rest) ELSE PageLimit)
        /\ \A z \in page, x \in rest \ page : KeyOf[z] <= KeyOf[x]
    <2>1. rest \subseteq Id
      BY DEF Visible
    <2> QED
      BY <1>1, <2>1 DEF Firsts
  <1>3. page \in SUBSET Visible /\ rest \in SUBSET Id /\ page \in SUBSET Id
    BY <1>2 DEF Visible
  <1>4. PlaceOfCursor \in Nat
    BY <1>1 DEF PlaceOfCursor, PagingInv, WalkTypes, KeyWalk, OrderedBy
  <1>5. \A x \in steady : x \in Visible /\ walk.got[x] = IF KeyOf[x] <= PlaceOfCursor THEN 1 ELSE 0
    BY DEF PagingInv, KeyWalk, WalkTypes
  <1>6. /\ WalkTypes' /\ walk'.list = walk.list /\ KeyOf' = KeyOf /\ Visible' = Visible
        /\ \A x \in Id : walk'.got[x] = walk.got[x] + IF x \in page THEN 1 ELSE 0
        /\ go => walk'.cursor = next /\ walk'.step = "page"
        /\ ~go => walk'.step = "done"
    BY <1>3, TurnThePage DEF PagingInv
  <1>7. KeyWalk' /\ (~go => \A x \in steady : walk'.got[x] = 1)
    <2>1. CASE go
      <3>1. PICK y \in page : /\ \A z \in page : KeyOf[z] <= KeyOf[y]
                              /\ next = IF walk.list.cursor = "key" THEN KeyOf[y] ELSE y
        BY <2>1
      <3>2. y \in Id /\ row[y].here /\ y # 0 /\ KeyOf[y] \in Nat /\ 0 < KeyOf[y]
        <4>1. y \in Visible
          BY <1>3
        <4>2. y \in Id /\ row[y].here
          BY <4>1 DEF Visible, Shown
        <4>3. KeyOf[y] \in Nat /\ 0 < KeyOf[y]
          BY <1>1, <4>2 DEF OrderedBy
        <4>4. y # 0
          BY <4>2 DEF PagingAssumption
        <4> QED
          BY <4>2, <4>3, <4>4
      <3>3. PlaceOfCursor' = KeyOf[y]
        BY <1>6, <2>1, <3>1, <3>2 DEF PlaceOfCursor
      <3>4. ASSUME NEW x \in steady
            PROVE  walk.got[x] + (IF x \in page THEN 1 ELSE 0) = IF KeyOf[x] <= KeyOf[y] THEN 1 ELSE 0
        <4>1. x \in Visible /\ x \in Id /\ walk.got[x] = IF KeyOf[x] <= PlaceOfCursor THEN 1 ELSE 0
          BY <1>5 DEF Visible
        <4>2. /\ KeyOf[x] \in Nat /\ KeyOf[y] \in Nat /\ KeyOf[y] > PlaceOfCursor
              /\ x # y => KeyOf[x] # KeyOf[y]
          BY <1>1, <1>2, <3>2, <4>1 DEF OrderedBy
        <4>3. CASE x \in page
          <5>1. KeyOf[x] > PlaceOfCursor /\ KeyOf[x] <= KeyOf[y]
            BY <1>2, <3>1, <4>3
          <5> QED
            BY <1>4, <4>1, <4>2, <4>3, <5>1
        <4>4. CASE x \notin page /\ KeyOf[x] > PlaceOfCursor
          <5>1. KeyOf[y] <= KeyOf[x] /\ x # y
            BY <1>2, <4>1, <4>4
          <5> QED
            BY <1>4, <4>1, <4>2, <4>4, <5>1
        <4>5. CASE x \notin page /\ KeyOf[x] <= PlaceOfCursor
          BY <1>4, <4>1, <4>2, <4>5
        <4> QED
          BY <1>4, <4>2, <4>3, <4>4, <4>5
      <3> QED
        BY <1>3, <1>5, <1>6, <2>1, <3>1, <3>2, <3>3, <3>4 DEF KeyWalk, Visible
    <2>2. CASE ~go
      <3>1. page = rest
        <4>1. IsFiniteSet(rest) /\ Cardinality(rest) \in Nat /\ PageLimit \in Nat
          BY <1>3, IdsAreFew DEF PagingAssumption
        <4>2. Cardinality(page) = Cardinality(rest)
          BY <1>2, <2>2, <4>1
        <4> QED
          BY <1>2, <4>1, <4>2, FS_Subset
      <3>2. ASSUME NEW x \in steady PROVE walk'.got[x] = 1
        <4>1. x \in Visible /\ x \in Id /\ walk.got[x] = IF KeyOf[x] <= PlaceOfCursor THEN 1 ELSE 0
          BY <1>5 DEF Visible
        <4>2. KeyOf[x] \in Nat /\ (x \in page <=> KeyOf[x] > PlaceOfCursor)
          BY <1>1, <3>1, <4>1 DEF OrderedBy
        <4> QED
          BY <1>4, <1>6, <4>1, <4>2
      <3> QED
        BY <1>6, <2>2, <3>2 DEF KeyWalk
    <2> QED
      BY <2>1, <2>2
  <1>8. NothingElse'
    BY <1>3, <1>6 DEF NothingElse, PagingInv, WalkTypes
  <1>9. OffsetWalk'
    BY <1>6 DEF OffsetWalk
  <1>10. WalksExact'
    <2>1. KeysetComplete'
      BY <1>6, <1>7 DEF KeysetComplete
    <2>2. QuietWalkExact'
      <3>1. \A x \in Id : Shown(x)' <=> x \in Visible
        BY DEF Shown, Visible
      <3> QED
        BY <1>6, <1>7, <1>8, <3>1 DEF QuietWalkExact, NothingElse
    <2> QED
      BY <2>1, <2>2 DEF WalksExact
  <1>11. RowsOfList'
    BY DEF PagingInv, RowsOfList
  <1> QED
    BY <1>6, <1>7, <1>8, <1>9, <1>10, <1>11 DEF PagingInv

\* A page by offset continues where the first so many rows end, unless rows changed.
LEMMA OffsetPageShown ==
  ASSUME PagingInv, PagingAssumption, walk.step = "page", walk.list.cursor \in {"total", "more"}, UNCHANGED <<row, changed, steady>>,
         NEW op \in OffsetPage(PageLimit), NEW next \in Nat, NEW go \in BOOLEAN, More(op[2], next, go),
         go => (next = walk.cursor + Cardinality(op[2]) \/ (next = walk.cursor + PageLimit /\ Total > next)),
         ~go => \/ walk.list.cursor = "total" /\ walk.total <= walk.cursor + Cardinality(op[2])
                \/ Total <= walk.cursor + PageLimit
  PROVE  PagingInv'
  <1> DEFINE s == op[1]
             page == op[2]
  <1>1. OrderedBy(KeyOf) /\ \A x \in Id : KeyOf[x] = Key(walk.list.order, row[x], x)
    BY OrderOfWalk DEF PagingInv, WalkTypes, KeyOf
  <1>2. /\ s \in Firsts(walk.list.order, Visible, walk.cursor) /\ page \in Firsts(walk.list.order, Visible \ s, PageLimit)
    BY DEF OffsetPage, Visible
  <1> HIDE DEF s, page
  <1>3. /\ Leads(KeyOf, s, Visible) /\ Leads(KeyOf, page, Visible \ s)
        /\ Cardinality(s) = (IF Cardinality(Visible) < walk.cursor THEN Cardinality(Visible) ELSE walk.cursor)
        /\ Cardinality(page) = (IF Cardinality(Visible \ s) < PageLimit THEN Cardinality(Visible \ s) ELSE PageLimit)
    <2>1. Visible \subseteq Id
      BY DEF Visible
    <2> QED
      BY <1>1, <1>2, <2>1 DEF Firsts, Leads
  <1>4. page \in SUBSET Visible /\ page \in SUBSET Id /\ s \in SUBSET Visible /\ Visible \in SUBSET Id
    BY <1>3 DEF Leads, Visible
  <1>5. /\ WalkTypes' /\ walk'.list = walk.list /\ KeyOf' = KeyOf /\ Visible' = Visible
        /\ \A x \in Id : walk'.got[x] = walk.got[x] + IF x \in page THEN 1 ELSE 0
        /\ go => walk'.cursor = next /\ walk'.step = IF walk.list.cursor = "total" THEN "count" ELSE "page"
        /\ ~go => walk'.step = "done"
    BY <1>4, TurnThePage DEF PagingInv, page
  <1>6. /\ IsFiniteSet(Visible) /\ Cardinality(Visible) \in Nat /\ Total = Cardinality(Visible)
        /\ IsFiniteSet(page) /\ Cardinality(page) \in Nat /\ PageLimit \in Nat /\ walk.cursor \in Nat
    BY <1>4, IdsAreFew DEF PagingInv, WalkTypes, PagingAssumption, Total, Visible
  <1>7. ASSUME changed = 0
        PROVE  /\ \A x \in Id : walk'.got[x] \in {0, 1}
               /\ go => Leads(KeyOf, ShownSoFar', Visible) /\ Cardinality(ShownSoFar') = walk'.cursor
               /\ ~go => ShownSoFar' = Visible
    <2>1. /\ \A x \in Id : walk.got[x] \in {0, 1}
          /\ Leads(KeyOf, ShownSoFar, Visible) /\ Cardinality(ShownSoFar) = walk.cursor
          /\ walk.list.cursor = "total" => walk.total = Cardinality(Visible)
      BY <1>7 DEF PagingInv, OffsetWalk
    <2>2. ShownSoFar \in SUBSET Visible /\ Cardinality(ShownSoFar) <= Cardinality(Visible)
      <3>1. ShownSoFar \in SUBSET Visible
        BY <2>1 DEF Leads
      <3> QED
        BY <1>6, <3>1, FS_Subset
    <2>3. s = ShownSoFar
      <3>1. Cardinality(s) = Cardinality(ShownSoFar)
        BY <1>3, <1>6, <2>1, <2>2
      <3> QED
        BY <1>1, <1>3, <1>4, <2>1, <3>1, FirstsAgree
    <2>4. ShownSoFar' = s \union page /\ \A x \in Id : walk'.got[x] \in {0, 1}
      <3>1. page \intersect ShownSoFar = {}
        BY <1>3, <2>3 DEF Leads
      <3>2. \A x \in Id : /\ walk'.got[x] \in {0, 1}
                          /\ walk'.got[x] # 0 <=> (x \in ShownSoFar \/ x \in page)
        <4> SUFFICES ASSUME NEW x \in Id
                     PROVE  walk'.got[x] \in {0, 1} /\ (walk'.got[x] # 0 <=> (x \in ShownSoFar \/ x \in page))
          OBVIOUS
        <4>1. walk.got[x] \in {0, 1} /\ (x \in ShownSoFar <=> walk.got[x] # 0)
          BY <2>1 DEF ShownSoFar
        <4>2. walk'.got[x] = walk.got[x] + IF x \in page THEN 1 ELSE 0
          BY <1>5
        <4> QED
          BY <3>1, <4>1, <4>2
      <3>3. ShownSoFar' = {x \in Id : walk'.got[x] # 0}
        BY DEF ShownSoFar
      <3>4. ShownSoFar \subseteq Id
        BY DEF ShownSoFar
      <3> QED
        BY <1>4, <2>3, <3>2, <3>3, <3>4
    <2>5. /\ Leads(KeyOf, s \union page, Visible)
          /\ Cardinality(s \union page) = walk.cursor + Cardinality(page)
      BY <1>1, <1>3, <1>4, <2>1, <2>3, NextPageByOffset
    <2>6. Cardinality(Visible \ s) = Cardinality(Visible) - walk.cursor
      <3>1. Visible \intersect s = s
        BY <1>4
      <3>2. Cardinality(Visible \ s) = Cardinality(Visible) - Cardinality(Visible \intersect s)
        BY <1>6, FS_Difference
      <3>3. Cardinality(s) = walk.cursor
        BY <2>1, <2>3
      <3> QED
        BY <3>1, <3>2, <3>3
    <2>7. ASSUME go PROVE walk'.cursor = walk.cursor + Cardinality(page)
      <3>1. CASE next = walk.cursor + Cardinality(page)
        BY <1>5, <2>7, <3>1
      <3>2. CASE next = walk.cursor + PageLimit /\ Total > next
        <4>1. Cardinality(page) = PageLimit
          BY <1>3, <1>6, <2>6, <3>2
        <4> QED
          BY <1>5, <2>7, <3>2, <4>1
      <3> QED
        BY <2>7, <3>1, <3>2 DEF page
    <2>8. ASSUME ~go PROVE s \union page = Visible
      <3>1. Cardinality(Visible) <= walk.cursor + Cardinality(page)
        <4>1. CASE walk.list.cursor = "total" /\ walk.total <= walk.cursor + Cardinality(page)
          BY <2>1, <4>1
        <4>2. CASE Total <= walk.cursor + PageLimit
          BY <1>3, <1>6, <2>6, <4>2
        <4> QED
          BY <2>8, <4>1, <4>2 DEF page
      <3>2. s \union page \in SUBSET Visible
        BY <1>4
      <3>3. Cardinality(s \union page) <= Cardinality(Visible) /\ (Cardinality(Visible) = Cardinality(s \union page) => Visible = s \union page)
        BY <1>6, <3>2, FS_Subset
      <3> QED
        BY <1>6, <2>5, <3>1, <3>3
    <2> QED
      BY <2>4, <2>5, <2>7, <2>8
  <1>8. KeyWalk'
    BY <1>5 DEF KeyWalk
  <1>9. NothingElse'
    BY <1>4, <1>5 DEF NothingElse, PagingInv, WalkTypes
  <1>10. OffsetWalk'
    BY <1>5, <1>7 DEF OffsetWalk
  <1>11. WalksExact'
    <2>1. KeysetComplete'
      BY <1>5 DEF KeysetComplete
    <2>2. QuietWalkExact'
      <3>1. \A x \in Id : Shown(x)' <=> x \in Visible
        BY DEF Shown, Visible
      <3>2. ASSUME walk'.step = "done", changed = 0, NEW x \in Id PROVE walk'.got[x] = IF x \in Visible THEN 1 ELSE 0
        <4>1. ~go
          BY <1>5, <3>2
        <4>2. walk'.got[x] \in {0, 1} /\ (x \in ShownSoFar' <=> x \in Visible) /\ (x \in ShownSoFar' <=> walk'.got[x] # 0)
          BY <1>7, <3>2, <4>1 DEF ShownSoFar
        <4> QED
          BY <4>2
      <3> QED
        BY <3>1, <3>2 DEF QuietWalkExact
    <2> QED
      BY <2>1, <2>2 DEF WalksExact
  <1>12. RowsOfList'
    BY DEF PagingInv, RowsOfList
  <1> QED
    BY <1>5, <1>8, <1>9, <1>10, <1>11, <1>12 DEF PagingInv

LEMMA KeysetPageKeeps ==
  ASSUME PagingInv, PagingAssumption, KeysetPage
  PROVE  PagingInv'
  <1> DEFINE rest == {x \in Id : Shown(x) /\ AfterCursor(x)}
  <1>1. PICK page \in Firsts(walk.list.order, rest, PageLimit) :
            IF Cardinality(rest) > PageLimit
            THEN More(page, Key(walk.list.order, row[LastRow(page, rest)], LastRow(page, rest)), TRUE)
            ELSE More(page, 0, FALSE)
    BY DEF KeysetPage
  <1>2. walk.step = "page" /\ walk.list.cursor = "key" /\ UNCHANGED <<row, changed, steady>>
    BY DEF KeysetPage
  <1>3. OrderedBy(KeyOf) /\ \A x \in Id : KeyOf[x] = Key(walk.list.order, row[x], x)
    BY OrderOfWalk DEF PagingInv, WalkTypes, KeyOf
  <1>4. rest = {x \in Visible : KeyOf[x] > PlaceOfCursor}
    <2>1. ASSUME NEW x \in Id PROVE AfterCursor(x) <=> KeyOf[x] > PlaceOfCursor
      <3>1. KeyOf[x] \in Nat /\ 0 < KeyOf[x] /\ KeyOf[x] = Key(walk.list.order, row[x], x)
        BY <1>3 DEF OrderedBy
      <3> QED
        BY <1>2, <3>1 DEF AfterCursor, PlaceOfCursor
    <2> QED
      BY <2>1 DEF Visible
  <1> HIDE DEF rest
  <1>5. page \in SUBSET rest /\ page \in SUBSET Id
    BY <1>4 DEF Firsts, Visible
  <1>6. CASE Cardinality(rest) > PageLimit
    <2>1. page # {}
      <3>1. rest \in SUBSET Id
        BY <1>4 DEF Visible
      <3>2. Cardinality(rest) \in Nat /\ PageLimit \in Nat \ {0}
        BY <3>1, IdsAreFew DEF PagingAssumption
      <3>3. Cardinality(page) = PageLimit
        BY <1>6, <3>2 DEF Firsts
      <3> QED
        BY <3>2, <3>3, FS_EmptySet
    <2> DEFINE y == LastRow(page, rest)
    <2>2. y \in page /\ \A z \in page : KeyOf[z] <= KeyOf[y]
      <3>1. \E u \in page : \A z \in page : KeyOf[z] <= KeyOf[u]
        BY <1>3, <1>5, <2>1, LastOfPage
      <3>2. \A z \in page : KeyOf[z] = Key(walk.list.order, row[z], z)
        BY <1>3, <1>5
      <3> QED
        BY <3>1, <3>2 DEF LastRow
    <2>3. More(page, Key(walk.list.order, row[y], y), TRUE)
      BY <1>1, <1>6
    <2> HIDE DEF y
    <2>4. Key(walk.list.order, row[y], y) = KeyOf[y] /\ KeyOf[y] \in Nat
      BY <1>3, <1>5, <2>2 DEF OrderedBy
    <2>5. More(page, KeyOf[y], TRUE)
      BY <2>3, <2>4
    <2> QED
      BY <1>2, <1>4, <1>6, <2>2, <2>4, <2>5, KeyPageShown
  <1>7. CASE ~(Cardinality(rest) > PageLimit)
    <2>1. More(page, 0, FALSE)
      BY <1>1, <1>7
    <2> QED
      BY <1>2, <1>4, <1>7, <2>1, KeyPageShown
  <1> QED
    BY <1>6, <1>7

LEMMA CursorRowPageKeeps ==
  ASSUME PagingInv, PagingAssumption, CursorRowPage
  PROVE  PagingInv'
  <1> DEFINE rest == {x \in Id : Shown(x) /\ FollowsRow(x)}
  <1>1. PICK page \in Firsts(walk.list.order, rest, PageLimit) :
            IF Cardinality(rest) > PageLimit THEN More(page, LastRow(page, rest), TRUE) ELSE More(page, 0, FALSE)
    BY DEF CursorRowPage
  <1>2. walk.step = "page" /\ walk.list.cursor = "row" /\ UNCHANGED <<row, changed, steady>>
    BY DEF CursorRowPage
  <1>3. OrderedBy(KeyOf) /\ \A x \in Id : KeyOf[x] = Key(walk.list.order, row[x], x)
    BY OrderOfWalk DEF PagingInv, WalkTypes, KeyOf
  <1>4. rest = {x \in Visible : KeyOf[x] > PlaceOfCursor}
    <2>1. ASSUME NEW x \in Id PROVE FollowsRow(x) <=> KeyOf[x] > PlaceOfCursor
      <3>1. KeyOf[x] \in Nat /\ 0 < KeyOf[x] /\ KeyOf[x] = Key(walk.list.order, row[x], x)
        BY <1>3 DEF OrderedBy
      <3>2. walk.cursor # 0 => walk.cursor \in Id /\ row[walk.cursor].here
        BY <1>2 DEF PagingInv, KeyWalk
      <3>3. walk.cursor # 0 => KeyOf[walk.cursor] = Key(walk.list.order, row[walk.cursor], walk.cursor)
        BY <1>3, <3>2
      <3> QED
        BY <1>2, <3>1, <3>2, <3>3 DEF FollowsRow, PlaceOfCursor
    <2> QED
      BY <2>1 DEF Visible
  <1> HIDE DEF rest
  <1>5. page \in SUBSET rest /\ page \in SUBSET Id
    BY <1>4 DEF Firsts, Visible
  <1>6. CASE Cardinality(rest) > PageLimit
    <2>1. page # {}
      <3>1. rest \in SUBSET Id
        BY <1>4 DEF Visible
      <3>2. Cardinality(rest) \in Nat /\ PageLimit \in Nat \ {0}
        BY <3>1, IdsAreFew DEF PagingAssumption
      <3>3. Cardinality(page) = PageLimit
        BY <1>6, <3>2 DEF Firsts
      <3> QED
        BY <3>2, <3>3, FS_EmptySet
    <2> DEFINE y == LastRow(page, rest)
    <2>2. y \in page /\ \A z \in page : KeyOf[z] <= KeyOf[y]
      <3>1. \E u \in page : \A z \in page : KeyOf[z] <= KeyOf[u]
        BY <1>3, <1>5, <2>1, LastOfPage
      <3>2. \A z \in page : KeyOf[z] = Key(walk.list.order, row[z], z)
        BY <1>3, <1>5
      <3> QED
        BY <3>1, <3>2 DEF LastRow
    <2>3. More(page, y, TRUE)
      BY <1>1, <1>6
    <2> HIDE DEF y
    <2>4. y \in Nat
      BY <1>5, <2>2 DEF PagingAssumption
    <2> QED
      BY <1>2, <1>4, <1>6, <2>2, <2>3, <2>4, KeyPageShown
  <1>7. CASE ~(Cardinality(rest) > PageLimit)
    <2>1. More(page, 0, FALSE)
      BY <1>1, <1>7
    <2> QED
      BY <1>2, <1>4, <1>7, <2>1, KeyPageShown
  <1> QED
    BY <1>6, <1>7

LEMMA PageAfterTotalKeeps ==
  ASSUME PagingInv, PagingAssumption, PageAfterTotal
  PROVE  PagingInv'
  <1>1. PICK op \in OffsetPage(PageLimit) :
            More(op[2], nextPageCursor(walk.cursor, Cardinality(op[2]), walk.total).next,
                        nextPageCursor(walk.cursor, Cardinality(op[2]), walk.total).go)
    BY DEF PageAfterTotal
  <1>2. walk.step = "page" /\ walk.list.cursor = "total" /\ UNCHANGED <<row, changed, steady>>
    BY DEF PageAfterTotal
  <1>3. Cardinality(op[2]) \in Nat /\ walk.cursor \in Nat /\ walk.total \in Nat
    <2>1. op[2] \in SUBSET Id
      BY DEF OffsetPage
    <2> QED
      BY <2>1, IdsAreFew DEF PagingInv, WalkTypes
  <1> DEFINE next == walk.cursor + Cardinality(op[2])
             go == walk.cursor + Cardinality(op[2]) < walk.total
  <1>4. More(op[2], next, go)
    BY <1>1 DEF nextPageCursor
  <1>5. next \in Nat /\ go \in BOOLEAN
    BY <1>3
  <1>6. go => (next = walk.cursor + Cardinality(op[2]) \/ (next = walk.cursor + PageLimit /\ Total > next))
    OBVIOUS
  <1>7. ~go => walk.total <= walk.cursor + Cardinality(op[2])
    BY <1>3
  <1> HIDE DEF next, go
  <1> QED
    BY <1>2, <1>4, <1>5, <1>6, <1>7, OffsetPageShown

LEMMA PageOfOneMoreKeeps ==
  ASSUME PagingInv, PagingAssumption, PageOfOneMore
  PROVE  PagingInv'
  <1>1. PICK op \in OffsetPage(PageLimit) : More(op[2], walk.cursor + PageLimit, Total > walk.cursor + PageLimit)
    BY DEF PageOfOneMore
  <1>2. walk.step = "page" /\ walk.list.cursor = "more" /\ UNCHANGED <<row, changed, steady>>
    BY DEF PageOfOneMore
  <1>3. Total \in Nat /\ walk.cursor \in Nat /\ PageLimit \in Nat
    <2>1. {x \in Id : Shown(x)} \in SUBSET Id
      OBVIOUS
    <2> QED
      BY <2>1, IdsAreFew DEF PagingInv, WalkTypes, Total, PagingAssumption
  <1> DEFINE next == walk.cursor + PageLimit
             go == Total > walk.cursor + PageLimit
  <1>4. More(op[2], next, go)
    BY <1>1
  <1>5. next \in Nat /\ go \in BOOLEAN
    BY <1>3
  <1>6. go => (next = walk.cursor + Cardinality(op[2]) \/ (next = walk.cursor + PageLimit /\ Total > next))
    OBVIOUS
  <1>7. ~go => Total <= walk.cursor + PageLimit
    BY <1>3
  <1> HIDE DEF next, go
  <1> QED
    BY <1>2, <1>4, <1>5, <1>6, <1>7, OffsetPageShown

LEMMA CountTotalKeeps ==
  ASSUME PagingInv, PagingAssumption, CountTotal
  PROVE  PagingInv'
  <1>1. /\ walk.step = "count" /\ UNCHANGED <<row, changed, steady>>
        /\ DOMAIN walk' = DOMAIN walk /\ walk'.list = walk.list /\ walk'.cursor = walk.cursor /\ walk'.got = walk.got
        /\ walk'.step = "page" /\ walk'.total = Total
    BY DEF CountTotal, PagingInv, WalkTypes
  <1>2. Total \in Nat /\ Total = Cardinality(Visible) /\ walk.list.cursor = "total"
    <2>1. Visible \in SUBSET Id
      BY DEF Visible
    <2> QED
      BY <1>1, <2>1, IdsAreFew DEF Total, Visible, PagingInv, WalkTypes
  <1>3. KeyOf' = KeyOf /\ Visible' = Visible /\ ShownSoFar' = ShownSoFar
    BY <1>1 DEF KeyOf, Visible, Shown, Key, ShownSoFar
  <1>4. WalkTypes'
    BY <1>1, <1>2, <1>3 DEF PagingInv, WalkTypes
  <1>5. KeyWalk' /\ NothingElse' /\ WalksExact'
    BY <1>1, <1>2, <1>3 DEF PagingInv, KeyWalk, NothingElse, WalksExact, KeysetComplete, QuietWalkExact
  <1>6. OffsetWalk'
    BY <1>1, <1>2, <1>3 DEF PagingInv, OffsetWalk
  <1>7. RowsOfList'
    BY <1>1 DEF PagingInv, RowsOfList
  <1> QED
    BY <1>4, <1>5, <1>6, <1>7 DEF PagingInv

LEMMA FirstPageKeeps ==
  ASSUME PagingInv, PagingAssumption, NEW list \in List, FirstPage(list)
  PROVE  PagingInv'
  <1>1. /\ walk.step = "none" /\ UNCHANGED row /\ changed' = 0 /\ steady' = Visible
        /\ DOMAIN walk' = DOMAIN walk /\ walk'.list = list /\ walk'.cursor = walk.cursor /\ walk'.got = walk.got
        /\ walk'.total = walk.total /\ walk'.step = IF list.cursor = "total" THEN "count" ELSE "page"
    BY DEF FirstPage, PagingInv, WalkTypes, Visible
  <1>2. walk.cursor = 0 /\ \A x \in Id : walk.got[x] = 0
    BY <1>1 DEF PagingInv, WalkTypes
  <1>3. Visible' = Visible /\ Visible \in SUBSET Id
    BY <1>1 DEF Visible, Shown
  <1>4. WalkTypes'
    BY <1>1, <1>2, <1>3 DEF PagingInv, WalkTypes
  <1>5. RowsOfList'
    BY <1>1 DEF PagingInv, RowsOfList
  <1>6. OrderedBy(KeyOf')
    <2>1. list.order \in Orders /\ RowsOfList
      BY ListsAreKnown DEF PagingInv
    <2>2. KeyOf' = [x \in Id |-> KeyOf'[x]] /\ \A x \in Id : KeyOf'[x] = Key(list.order, row[x], x)
      BY <1>1 DEF KeyOf, Key
    <2>3. \A x, y \in Id : KeyOf'[x] \in Nat /\ 0 < KeyOf'[x] /\ KeyOf'[x] < 1000 /\ (x # y => KeyOf'[x] # KeyOf'[y])
      BY <2>1, <2>2, Places
    <2> QED
      BY <2>2, <2>3 DEF OrderedBy
  <1>7. KeyWalk'
    BY <1>1, <1>2, <1>3, <1>6 DEF KeyWalk, PlaceOfCursor, OrderedBy
  <1>8. NothingElse' /\ WalksExact'
    BY <1>1, <1>2, <1>3 DEF NothingElse, WalksExact, KeysetComplete, QuietWalkExact
  <1>9. OffsetWalk'
    <2>1. ShownSoFar' = {} /\ Cardinality({}) = 0
      BY <1>1, <1>2, FS_EmptySet DEF ShownSoFar
    <2>2. Leads(KeyOf', {}, Visible')
      BY DEF Leads
    <2> QED
      BY <1>1, <1>2, <2>1, <2>2 DEF OffsetWalk
  <1> QED
    BY <1>4, <1>5, <1>7, <1>8, <1>9 DEF PagingInv

LEMMA ChangeRowKeeps ==
  ASSUME PagingInv, PagingAssumption, NEW x \in Id, NEW r \in Changes(x), ChangeRow(x, r)
  PROVE  PagingInv'
  <1>1. /\ walk.step \in {"count", "page"} /\ changed' = changed + 1 /\ UNCHANGED walk
        /\ row'[x] = r /\ \A y \in Id \ {x} : row'[y] = row[y]
        /\ row' = [y \in Id |-> row'[y]]
        /\ steady' = IF r.here /\ r.match /\ Key(walk.list.order, r, x) = Key(walk.list.order, row[x], x) THEN steady ELSE steady \ {x}
    BY DEF ChangeRow, PagingInv, RowsOfList
  <1>2. changed' # 0
    BY <1>1 DEF PagingInv, WalkTypes
  <1>3. /\ DOMAIN row[x] = {"here", "match", "at", "touched", "rank"}
        /\ row[x].at \in {1, 2} /\ row[x].touched \in {1, 2, 3} /\ row[x].rank \in {0, 1}
    BY DEF PagingInv, RowsOfList
  <1>4. /\ DOMAIN r = {"here", "match", "at", "touched", "rank"}
        /\ r.at \in {1, 2} /\ r.touched \in {1, 2, 3} /\ r.rank \in {0, 1}
        /\ row[x].here => r.at = row[x].at
        /\ row[x].here /\ walk.list.cursor = "row" => r.here
    <2>1. CASE ~row[x].here
      <3>1. r = [here |-> TRUE, match |-> TRUE, at |-> 2, touched |-> 2, rank |-> x % 2]
        BY <2>1 DEF Changes
      <3>2. x \in 1 .. 9
        BY DEF PagingAssumption
      <3>3. x % 2 \in {0, 1}
        BY <3>2
      <3> QED
        BY <2>1, <3>1, <3>3
    <2>2. CASE row[x].here
      <3>1. \/ r = [row[x] EXCEPT !.match = ~@] \/ r = [row[x] EXCEPT !.touched = 3] \/ r = [row[x] EXCEPT !.rank = 1 - @]
            \/ walk.list.cursor # "row" /\ r = [row[x] EXCEPT !.here = FALSE]
        BY <2>2 DEF Changes
      <3>2. 1 - row[x].rank \in {0, 1}
        BY <1>3
      <3>3. CASE r = [row[x] EXCEPT !.match = ~@]
        BY <1>3, <2>2, <3>3
      <3>4. CASE r = [row[x] EXCEPT !.touched = 3]
        BY <1>3, <2>2, <3>4
      <3>5. CASE r = [row[x] EXCEPT !.rank = 1 - @]
        BY <1>3, <2>2, <3>2, <3>5
      <3>6. CASE walk.list.cursor # "row" /\ r = [row[x] EXCEPT !.here = FALSE]
        BY <1>3, <2>2, <3>6
      <3> QED
        BY <3>1, <3>3, <3>4, <3>5, <3>6
    <2> QED
      BY <2>1, <2>2
  <1>5. RowsOfList'
    <2>1. ASSUME NEW y \in Id
          PROVE  /\ DOMAIN row'[y] = {"here", "match", "at", "touched", "rank"}
                 /\ row'[y].at \in {1, 2} /\ row'[y].touched \in {1, 2, 3} /\ row'[y].rank \in {0, 1}
      <3>1. CASE y = x
        BY <1>1, <1>4, <3>1
      <3>2. CASE y # x
        BY <1>1, <3>2 DEF PagingInv, RowsOfList
      <3> QED
        BY <3>1, <3>2
    <2> QED
      BY <1>1, <2>1 DEF RowsOfList
  \* A row that stays steady keeps its place.
  <1>6. /\ \A y \in Id : KeyOf[y] = Key(walk.list.order, row[y], y) /\ KeyOf'[y] = Key(walk.list.order, row'[y], y)
        /\ steady' \subseteq steady /\ steady \subseteq Visible
        /\ \A y \in steady' : y \in Id /\ y \in Visible' /\ KeyOf'[y] = KeyOf[y]
    <2>1. \A y \in Id : KeyOf[y] = Key(walk.list.order, row[y], y) /\ KeyOf'[y] = Key(walk.list.order, row'[y], y)
      BY <1>1 DEF KeyOf, Key
    <2>2. steady' \subseteq steady /\ steady \subseteq Visible /\ steady \subseteq Id
      BY <1>1 DEF PagingInv, WalkTypes, Visible
    <2>3. ASSUME NEW y \in steady' PROVE y \in Visible' /\ KeyOf'[y] = KeyOf[y]
      <3>1. CASE y = x
        <4>1. r.here /\ r.match /\ Key(walk.list.order, r, x) = Key(walk.list.order, row[x], x)
          BY <1>1, <3>1
        <4> QED
          BY <1>1, <2>1, <2>2, <3>1, <4>1 DEF Visible, Shown
      <3>2. CASE y # x
        BY <1>1, <2>1, <2>2, <3>2 DEF Visible, Shown
      <3> QED
        BY <3>1, <3>2
    <2> QED
      BY <2>1, <2>2, <2>3
  <1>7. WalkTypes'
    BY <1>1, <1>6 DEF PagingInv, WalkTypes
  \* The row of the cursor stays, and so does its place.
  <1>8. KeyWalk'
    <2> SUFFICES ASSUME walk.step = "page", walk.list.cursor \in {"key", "row"}
                 PROVE  /\ walk.list.cursor = "row" /\ walk.cursor # 0 => walk.cursor \in Id /\ row'[walk.cursor].here
                        /\ \A y \in steady' : walk.got[y] = IF KeyOf'[y] <= PlaceOfCursor' THEN 1 ELSE 0
      BY <1>1 DEF KeyWalk
    <2>1. /\ walk.list.cursor = "row" /\ walk.cursor # 0 => walk.cursor \in Id /\ row[walk.cursor].here
          /\ \A y \in steady : walk.got[y] = IF KeyOf[y] <= PlaceOfCursor THEN 1 ELSE 0
      BY DEF PagingInv, KeyWalk
    <2>2. CASE walk.list.cursor = "row" /\ walk.cursor # 0
      <3>1. walk.list.order = "newest, id desc"
        BY <2>2, ListsAreKnown DEF PagingInv, WalkTypes
      <3>2. row'[walk.cursor].here /\ row'[walk.cursor].at = row[walk.cursor].at
        <4>1. CASE walk.cursor = x
          BY <1>1, <1>4, <2>1, <2>2, <4>1
        <4>2. CASE walk.cursor # x
          BY <1>1, <2>1, <2>2, <4>2
        <4> QED
          BY <4>1, <4>2
      <3>3. /\ Key(walk.list.order, row'[walk.cursor], walk.cursor) = 10 * Later(row'[walk.cursor].at) + Later(walk.cursor)
            /\ Key(walk.list.order, row[walk.cursor], walk.cursor) = 10 * Later(row[walk.cursor].at) + Later(walk.cursor)
        BY <3>1 DEF Key, Place
      <3>4. KeyOf'[walk.cursor] = KeyOf[walk.cursor]
        <4>1. /\ KeyOf[walk.cursor] = Key(walk.list.order, row[walk.cursor], walk.cursor)
              /\ KeyOf'[walk.cursor] = Key(walk.list.order, row'[walk.cursor], walk.cursor)
          BY <1>6, <2>1, <2>2
        <4>2. Later(row'[walk.cursor].at) = Later(row[walk.cursor].at)
          BY <3>2 DEF Later
        <4> QED
          BY <3>3, <4>1, <4>2
      <3>5. PlaceOfCursor' = KeyOf'[walk.cursor] /\ PlaceOfCursor = KeyOf[walk.cursor]
        BY <1>1, <2>2 DEF PlaceOfCursor
      <3> QED
        BY <1>6, <2>1, <3>2, <3>4, <3>5
    <2>3. CASE ~(walk.list.cursor = "row" /\ walk.cursor # 0)
      <3>1. PlaceOfCursor' = PlaceOfCursor
        BY <1>1, <2>3 DEF PlaceOfCursor
      <3> QED
        BY <1>6, <2>1, <2>3, <3>1
    <2> QED
      BY <2>2, <2>3
  <1>9. NothingElse' /\ OffsetWalk'
    BY <1>2 DEF NothingElse, OffsetWalk
  <1>10. WalksExact'
    BY <1>1 DEF WalksExact, KeysetComplete, QuietWalkExact
  <1> QED
    BY <1>5, <1>7, <1>8, <1>9, <1>10 DEF PagingInv

LEMMA PagingStarts ==
  ASSUME PagingAssumption, PagingInit
  PROVE  PagingInv
  <1>1. PICK here \in SUBSET Id : row = [x \in Id |-> [here |-> x \in here, match |-> TRUE, at |-> 1, touched |-> 1, rank |-> x % 2]]
    BY DEF PagingInit
  <1>2. ASSUME NEW x \in Id
        PROVE  /\ DOMAIN row[x] = {"here", "match", "at", "touched", "rank"}
               /\ row[x].at \in {1, 2} /\ row[x].touched \in {1, 2, 3} /\ row[x].rank \in {0, 1}
    <2>1. x \in 1 .. 9
      BY DEF PagingAssumption
    <2>2. x % 2 \in {0, 1}
      BY <2>1
    <2> QED
      BY <1>1, <2>2
  <1>3. RowsOfList
    BY <1>1, <1>2 DEF RowsOfList
  <1>4. /\ walk.list \in List /\ walk.step = "none" /\ walk.cursor = 0 /\ walk.total = 0 /\ walk.got = [x \in Id |-> 0]
        /\ DOMAIN walk = {"list", "step", "cursor", "last", "total", "got"} /\ changed = 0 /\ steady = {}
    BY DEF PagingInit, NoWalk, List
  <1>5. WalkTypes
    BY <1>4 DEF WalkTypes
  <1>6. KeyWalk /\ NothingElse /\ OffsetWalk /\ WalksExact
    BY <1>4 DEF KeyWalk, NothingElse, OffsetWalk, WalksExact, KeysetComplete, QuietWalkExact
  <1> QED
    BY <1>3, <1>5, <1>6 DEF PagingInv

\* A walk of a list by keys shows every row that kept its place exactly once,
\* and a walk of any list shows every row once, and no other, when no row
\* changes between its pages.
THEOREM WalksAreExact ==
  ASSUME PagingAssumption
  PROVE  PagingSpec => []WalksExact
  <1>1. PagingInit => PagingInv
    BY PagingStarts
  <1>2. PagingInv /\ [PagingNext]_pageVars => PagingInv'
    <2> SUFFICES ASSUME PagingInv, [PagingNext]_pageVars PROVE PagingInv'
      OBVIOUS
    <2>1. ASSUME NEW l \in List, FirstPage(l) PROVE PagingInv'
      BY <2>1, FirstPageKeeps
    <2>2. CASE CountTotal
      BY <2>2, CountTotalKeeps
    <2>3. CASE KeysetPage
      BY <2>3, KeysetPageKeeps
    <2>4. CASE CursorRowPage
      BY <2>4, CursorRowPageKeeps
    <2>5. CASE PageAfterTotal
      BY <2>5, PageAfterTotalKeeps
    <2>6. CASE PageOfOneMore
      BY <2>6, PageOfOneMoreKeeps
    <2>7. ASSUME NEW x \in Id, NEW r \in Changes(x), ChangeRow(x, r) PROVE PagingInv'
      BY <2>7, ChangeRowKeeps
    <2>8. CASE UNCHANGED pageVars
      BY <2>8 DEF pageVars, PagingInv, RowsOfList, WalkTypes, KeyWalk, NothingElse, OffsetWalk, WalksExact, KeysetComplete,
                  QuietWalkExact, Visible, Shown, KeyOf, Key, PlaceOfCursor, ShownSoFar, Leads
    <2> QED
      BY <2>1, <2>2, <2>3, <2>4, <2>5, <2>6, <2>7, <2>8 DEF PagingNext
  <1>3. PagingInv => WalksExact
    BY DEF PagingInv
  <1> QED
    BY <1>1, <1>2, <1>3, PTL DEF PagingSpec

---------------------------------------------------------------------------
(* Reading a group's history.  What a page walk or a search still owes to its *)
(* reader is ahead of everything collected so far, in the direction in which  *)
(* the reader goes, and more is said to follow (Reached).                     *)

LEMMA LowestIs ==
  ASSUME NEW S, S \subseteq Nat, S # {}
  PROVE  Lowest(S) \in S /\ \A k \in S : Lowest(S) <= k
  <1>1. \E m \in S : \A k \in S : m <= k
    BY LeastOf
  <1> QED
    BY <1>1 DEF Lowest

LEMMA HighestIs ==
  ASSUME NEW n \in Nat, NEW S, S \subseteq 1 .. n, S # {}
  PROVE  Highest(S) \in S /\ \A k \in S : k <= Highest(S)
  <1> DEFINE D == {n - k : k \in S}
  <1>1. D \subseteq Nat /\ D # {}
    <2>1. ASSUME NEW k \in S PROVE n - k \in Nat
      <3>1. k \in Nat /\ k <= n
        OBVIOUS
      <3> QED
        BY <3>1
    <2> QED
      BY <2>1
  <1>2. PICK d \in D : \A e \in D : d <= e
    <2> HIDE DEF D
    <2> QED
      BY <1>1, LeastOf
  <1>3. PICK h \in S : d = n - h
    OBVIOUS
  <1>4. ASSUME NEW k \in S PROVE k <= h
    <2>1. n - h <= n - k
      BY <1>2, <1>3
    <2>2. k \in Nat /\ h \in Nat
      <3>1. k \in 1 .. n /\ h \in 1 .. n
        OBVIOUS
      <3> QED
        BY <3>1
    <2> QED
      BY <2>1, <2>2
  <1>5. \E x \in S : \A y \in S : y <= x
    BY <1>4
  <1> QED
    BY <1>5 DEF Highest

\* A part of a set of messages is finite and no larger.
LEMMA PartOf ==
  ASSUME NEW n \in Nat, NEW S, S \subseteq 1 .. n, NEW T, T \subseteq S
  PROVE  /\ IsFiniteSet(S) /\ IsFiniteSet(T) /\ Cardinality(S) \in Nat /\ Cardinality(T) \in Nat
         /\ Cardinality(T) <= Cardinality(S)
  <1>1. IsFiniteSet(1 .. n)
    <2>1. 1 \in Int /\ n \in Int
      OBVIOUS
    <2> QED
      BY <2>1, FS_Interval
  <1>2. S \in SUBSET (1 .. n) /\ T \in SUBSET S
    OBVIOUS
  <1> QED
    BY <1>1, <1>2, FS_Subset, FS_CardinalityType

\* The last k of a set lie above the others, and are k when there are others.
LEMMA LastOfIs ==
  ASSUME NEW n \in Nat, NEW S, S \subseteq 1 .. n, NEW k \in Nat
  PROVE  /\ LastOf(S, k) \subseteq S
         /\ Cardinality(LastOf(S, k)) <= k
         /\ \A s \in S \ LastOf(S, k) : \A l \in LastOf(S, k) : s < l
         /\ LastOf(S, k) # S => Cardinality(LastOf(S, k)) = k
         /\ k # 0 /\ S # {} => LastOf(S, k) # {}
  <1> DEFINE L == LastOf(S, k)
             Up(x) == {y \in S : y > x}
  <1>1. L = {x \in S : Cardinality(Up(x)) < k}
    BY DEF LastOf
  <1>2. \A x : Up(x) \subseteq S /\ Cardinality(Up(x)) \in Nat
    <2>1. ASSUME NEW x PROVE Up(x) \subseteq S /\ Cardinality(Up(x)) \in Nat
      <3>1. Up(x) \subseteq S
        OBVIOUS
      <3> HIDE DEF Up
      <3> QED
        BY <3>1, PartOf
    <2> QED
      BY <2>1
  <1>3. \A x, y \in S : x <= y => Cardinality(Up(y)) <= Cardinality(Up(x))
    <2>1. ASSUME NEW x \in S, NEW y \in S, x <= y PROVE Cardinality(Up(y)) <= Cardinality(Up(x))
      <3>1. Up(y) \subseteq Up(x)
        <4>1. ASSUME NEW z \in S, z > y PROVE z > x
          <5>1. x \in Nat /\ y \in Nat /\ z \in Nat
            OBVIOUS
          <5> QED
            BY <2>1, <4>1, <5>1
        <4> QED
          BY <4>1
      <3>2. Up(x) \subseteq 1 .. n
        OBVIOUS
      <3> HIDE DEF Up
      <3> QED
        BY <3>1, <3>2, PartOf
    <2> QED
      BY <2>1
  <1>4. L \subseteq S
    BY <1>1
  <1> HIDE DEF L
  <1>5. \A s \in S \ L : \A l \in L : s < l
    <2>1. ASSUME NEW s \in S \ L, NEW l \in L PROVE s < l
      <3>1. s \in Nat /\ l \in Nat /\ l \in S
        BY <1>4
      <3>2. Cardinality(Up(l)) < k /\ ~(Cardinality(Up(s)) < k)
        BY <1>1
      <3>3. l <= s => Cardinality(Up(s)) <= Cardinality(Up(l))
        BY <1>3, <3>1
      <3> HIDE DEF Up
      <3> QED
        BY <1>2, <3>1, <3>2, <3>3
    <2> QED
      BY <2>1
  <1>6. Cardinality(L) <= k
    <2>1. CASE L = {}
      BY <2>1, FS_EmptySet
    <2>2. CASE L # {}
      <3>1. L \subseteq Nat
        BY <1>4
      <3>2. PICK m \in L : \A l \in L : m <= l
        BY <2>2, <3>1, LeastOf
      <3>3. L \ {m} \subseteq Up(m)
        <4>1. ASSUME NEW l \in L, l # m PROVE l \in Up(m)
          <5>1. m <= l /\ l \in Nat /\ m \in Nat /\ l \in S
            BY <3>1, <3>2, <1>4
          <5> QED
            BY <4>1, <5>1
        <4> QED
          BY <4>1
      <3>4. Up(m) \subseteq 1 .. n
        OBVIOUS
      <3>5. Cardinality(L \ {m}) <= Cardinality(Up(m)) /\ Cardinality(L \ {m}) \in Nat
        <4> HIDE DEF Up
        <4> QED
          BY <3>3, <3>4, PartOf
      <3>6. Cardinality(Up(m)) < k
        BY <1>1
      <3>7. IsFiniteSet(L)
        BY <1>4, PartOf
      <3>8. Cardinality(L \ {m}) = Cardinality(L) - 1
        BY <3>7, FS_RemoveElement
      <3>9. Cardinality(L) \in Nat
        BY <3>7, FS_CardinalityType
      <3> HIDE DEF Up
      <3> QED
        BY <1>2, <3>5, <3>6, <3>8, <3>9
    <2> QED
      BY <2>1, <2>2
  <1>7. L # S => Cardinality(L) = k
    <2> SUFFICES ASSUME L # S PROVE Cardinality(L) = k
      OBVIOUS
    <2>1. S \ L # {} /\ S \ L \subseteq 1 .. n
      BY <1>4
    <2>2. PICK h \in S \ L : \A s \in S \ L : s <= h
      BY <2>1, HighestIs
    <2>3. Up(h) \subseteq L
      <3>1. ASSUME NEW y \in S, y > h, y \notin L PROVE FALSE
        <4>1. y <= h /\ y \in Nat /\ h \in Nat
          BY <2>2, <3>1
        <4> QED
          BY <3>1, <4>1
      <3> QED
        BY <3>1
    <2>4. L \subseteq 1 .. n
      BY <1>4
    <2>5. Cardinality(Up(h)) <= Cardinality(L) /\ Cardinality(L) \in Nat
      <3> HIDE DEF Up
      <3> QED
        BY <2>3, <2>4, PartOf
    <2>6. ~(Cardinality(Up(h)) < k)
      BY <1>1, <2>2
    <2> HIDE DEF Up
    <2> QED
      BY <1>2, <1>6, <2>5, <2>6
  <1>8. k # 0 /\ S # {} => L # {}
    <2> SUFFICES ASSUME k # 0, S # {} PROVE L # {}
      OBVIOUS
    <2>1. PICK h \in S : \A s \in S : s <= h
      BY HighestIs
    <2>2. Up(h) = {}
      <3>1. ASSUME NEW z \in S, z > h PROVE FALSE
        <4>1. h \in Nat /\ z \in Nat /\ z <= h
          BY <2>1
        <4> QED
          BY <3>1, <4>1
      <3> QED
        BY <3>1
    <2>3. Cardinality(Up(h)) = 0
      BY <2>2, FS_EmptySet
    <2> QED
      BY <1>1, <2>3
  <1> QED
    BY <1>4, <1>5, <1>6, <1>7, <1>8 DEF L

\* The first k of a set lie below the others.
LEMMA FirstOfIs ==
  ASSUME NEW n \in Nat, NEW S, S \subseteq 1 .. n, NEW k \in Int
  PROVE  /\ FirstOf(S, k) \subseteq S
         /\ \A s \in S \ FirstOf(S, k) : \A f \in FirstOf(S, k) : f < s
  <1> DEFINE F == FirstOf(S, k)
             Down(x) == {y \in S : y < x}
  <1>1. F = {x \in S : Cardinality(Down(x)) < k}
    BY DEF FirstOf
  <1>2. F \subseteq S
    BY <1>1
  <1> HIDE DEF F
  <1>3. ASSUME NEW s \in S \ F, NEW f \in F, s <= f PROVE FALSE
    <2>1. s \in Nat /\ f \in Nat /\ f \in S /\ S \subseteq Nat
      BY <1>2
    <2>2. Cardinality(Down(f)) < k /\ ~(Cardinality(Down(s)) < k)
      BY <1>1
    <2>3. Down(s) \subseteq Down(f) /\ Down(f) \subseteq 1 .. n
      <3>1. ASSUME NEW z \in S, z < s PROVE z < f
        <4>1. z \in Nat
          OBVIOUS
        <4> QED
          BY <1>3, <2>1, <3>1, <4>1
      <3> QED
        BY <3>1
    <2>4. /\ Cardinality(Down(s)) <= Cardinality(Down(f))
          /\ Cardinality(Down(s)) \in Nat /\ Cardinality(Down(f)) \in Nat
      <3> HIDE DEF Down
      <3> QED
        BY <2>3, PartOf
    <2> HIDE DEF Down
    <2> QED
      BY <2>2, <2>4
  <1>4. \A s \in S \ F : \A f \in F : f < s
    <2>1. ASSUME NEW s \in S \ F, NEW f \in F PROVE f < s
      <3>1. s \in Nat /\ f \in Nat
        BY <1>2
      <3> QED
        BY <1>3, <3>1
    <2> QED
      BY <2>1
  <1> QED
    BY <1>2, <1>4 DEF F

ReadField == {"kind", "phase", "mode", "start", "end", "access", "raw", "more", "got", "items", "before", "pages",
              "owed", "last", "unread", "full"}
PagePhase == {"page", "call", "answered", "checked", "synced"}

HistoryTypes ==
    /\ top \in Nat /\ indexed \subseteq 1 .. top /\ tombs \subseteq 1 .. top
    /\ DOMAIN seat = {"open", "in", "cut"} /\ seat.cut \in Nat
    /\ DOMAIN read = ReadField
    /\ read.mode \in {0, 1} /\ read.start \in Nat /\ read.end \in Nat /\ read.access.cut \in Nat
    /\ read.raw \subseteq 1 .. top /\ read.got \subseteq 1 .. top /\ read.items \subseteq 1 .. top
    /\ read.last \in Nat /\ read.unread \in Nat
    /\ DOMAIN pageWalk = {"phase", "mode", "from", "kept", "owed"}
    /\ pageWalk.mode \in {0, 1} /\ pageWalk.from \in Nat
    /\ read.owed \subseteq Readable /\ pageWalk.owed \subseteq Readable

\* What a walk or a search has still to find.
Due(r, w) ==
    IF r.kind = "sync" THEN w.owed \ w.kept
    ELSE IF r.kind = "search" /\ r.before = 0 THEN (r.owed \cap Matching) \ r.items ELSE {}

\* Not yet passed: beyond all of S, in the direction of the request.
Beyond(m, S, s) == \A g \in S : (m = 0 => s < g) /\ (m = 1 => g < s)
\* Within what the next call asks for.
Ahead(r, s) == (r.mode = 0 => r.start = 0 \/ s <= r.start) /\ (r.mode = 1 => r.start <= s)

\* A message that is due has been collected or is still ahead.
Reached(r, s) ==
    /\ r.mode = 0 => r.end < s
    /\ r.phase \in {"page", "call"} => s \in r.got \/ (Ahead(r, s) /\ Beyond(r.mode, r.got, s))
    /\ r.phase \in {"answered", "checked"} =>
          s \in r.got \union r.raw \/ (r.more /\ Beyond(r.mode, r.got \union r.raw, s))
    /\ r.phase = "synced" => s \in r.got \/ (r.more /\ Beyond(r.mode, r.got, s))
    /\ r.phase \in {"loaded", "done"} => r.full \/ (r.more /\ ~(r.pages < SearchPages))

PageWay(r) ==
    /\ r.phase \in {"page", "call"} => Cardinality(r.got) < PageSize
    /\ r.phase \in {"answered", "checked"} =>
          /\ r.mode = 0 /\ r.more => r.raw # {}
          /\ \A x \in r.raw : (r.mode = 0 /\ r.start # 0 => x <= r.start) /\ (r.mode = 1 => r.start <= x)
    /\ r.phase = "synced" /\ r.mode = 0 /\ r.more => r.got # {}
    /\ r.mode = 1 => r.start # 0 /\ r.end = 0

WalkWay(r, w) ==
    /\ r.kind = "sync" => w.phase = "on" /\ w.mode = r.mode /\ r.phase \in PagePhase
    /\ r.kind # "sync" => r.mode = 0
    /\ w.phase = "over" => w.owed \subseteq w.kept
    /\ r.kind = "sync" /\ r.mode = 1 => w.from # 0 /\ \A s \in w.owed \ w.kept : w.from <= s

\* What a search found lies above everything it has yet to look at.
SearchWay(r) ==
    r.kind = "search" =>
        /\ Cardinality(r.items) <= PageSize
        /\ r.phase \in PagePhase => \A i \in r.items : r.start # 0 /\ r.start < i /\ \A g \in r.got : g < i

ListWay(r) ==
    r.kind = "list" /\ r.phase \in {"bounded", "done"} =>
        r.unread = 0 \/ (r.access.cut < r.last /\ r.unread <= r.last - r.access.cut)

HistoryInv ==
    /\ HistoryTypes
    /\ PageWay(read) /\ WalkWay(read, pageWalk) /\ SearchWay(read) /\ ListWay(read)
    /\ AnswersAreCurrent
    /\ \A s \in Due(read, pageWalk) : Reached(read, s)

\* Only what is due now matters: less may be due than before.
LEMMA MeanwhileKeeps ==
  ASSUME HistoryInv, top' \in Nat, top <= top', indexed' \subseteq 1 .. top', tombs' \subseteq 1 .. top',
         DOMAIN seat' = {"open", "in", "cut"}, seat'.cut \in Nat, StillOwed
  PROVE  HistoryInv'
  <1>1. /\ DOMAIN read' = ReadField
        /\ read'.kind = read.kind /\ read'.phase = read.phase /\ read'.mode = read.mode /\ read'.start = read.start
        /\ read'.end = read.end /\ read'.access = read.access /\ read'.raw = read.raw /\ read'.more = read.more
        /\ read'.got = read.got /\ read'.items = read.items /\ read'.before = read.before /\ read'.pages = read.pages
        /\ read'.last = read.last /\ read'.unread = read.unread /\ read'.full = read.full
        /\ read'.owed = read.owed \cap Readable'
    BY DEF StillOwed, HistoryInv, HistoryTypes, ReadField
  <1>2. /\ DOMAIN pageWalk' = {"phase", "mode", "from", "kept", "owed"}
        /\ pageWalk'.phase = pageWalk.phase /\ pageWalk'.mode = pageWalk.mode /\ pageWalk'.from = pageWalk.from
        /\ pageWalk'.kept = pageWalk.kept /\ pageWalk'.owed = pageWalk.owed \cap Readable'
    BY DEF StillOwed, HistoryInv, HistoryTypes
  <1>3. \A S : S \subseteq 1 .. top => S \subseteq 1 .. top'
    BY DEF HistoryInv, HistoryTypes
  <1>4. HistoryTypes'
    BY <1>1, <1>2, <1>3 DEF HistoryInv, HistoryTypes
  <1>5. PageWay(read')
    BY <1>1 DEF HistoryInv, PageWay
  <1>6. WalkWay(read', pageWalk')
    BY <1>1, <1>2 DEF HistoryInv, WalkWay
  <1>7. SearchWay(read') /\ ListWay(read')
    BY <1>1 DEF HistoryInv, SearchWay, ListWay
  <1>8. AnswersAreCurrent'
    BY <1>1 DEF HistoryInv, AnswersAreCurrent, Allows
  <1>9. \A s \in Due(read', pageWalk') : Reached(read', s)
    <2>1. Due(read', pageWalk') \subseteq Due(read, pageWalk)
      BY <1>1, <1>2 DEF Due
    <2>2. \A s : Reached(read, s) => Reached(read', s)
      BY <1>1 DEF Reached, Ahead
    <2> QED
      BY <2>1, <2>2 DEF HistoryInv
  <1> QED
    BY <1>4, <1>5, <1>6, <1>7, <1>8, <1>9 DEF HistoryInv

\* A step within one page keeps who reads what.
LEMMA PageStepKeeps ==
  ASSUME HistoryInv, UNCHANGED <<top, indexed, tombs, seat, shifts, pageWalk>>,
         read.phase \in PagePhase, read'.phase \in PagePhase,
         DOMAIN read' = ReadField,
         read'.kind = read.kind, read'.mode = read.mode, read'.before = read.before, read'.owed = read.owed,
         read'.items = read.items, read'.last = read.last, read'.unread = read.unread,
         read'.start \in Nat, read'.end \in Nat, read'.access.cut \in Nat,
         read'.raw \subseteq 1 .. top, read'.got \subseteq 1 .. top,
         PageWay(read'), SearchWay(read'),
         \A s \in Due(read, pageWalk) : s \in Readable => Reached(read', s)
  PROVE  HistoryInv'
  <1>1. Readable' = Readable
    BY DEF Readable
  <1>2. HistoryTypes'
    BY <1>1 DEF HistoryInv, HistoryTypes
  <1>3. WalkWay(read', pageWalk')
    BY DEF HistoryInv, WalkWay
  <1>4. ListWay(read')
    BY DEF ListWay, PagePhase
  <1>5. AnswersAreCurrent'
    BY DEF AnswersAreCurrent, PagePhase
  <1>6. Due(read', pageWalk') = Due(read, pageWalk)
    BY DEF Due
  <1>7. \A s \in Due(read, pageWalk) : s \in Readable
    BY DEF Due, HistoryInv, HistoryTypes
  <1> QED
    BY <1>2, <1>3, <1>4, <1>5, <1>6, <1>7 DEF HistoryInv

\* The row is gone: nothing is read, and nothing is due.
LEMMA NothingIsRead ==
  ASSUME HistoryInv, read' = NoRead, UNCHANGED <<top, indexed, tombs, seat, shifts>>,
         DOMAIN pageWalk' = {"phase", "mode", "from", "kept", "owed"},
         pageWalk'.mode \in {0, 1}, pageWalk'.from \in Nat, pageWalk'.owed \subseteq Readable,
         pageWalk'.phase = "over" => pageWalk'.owed \subseteq pageWalk'.kept
  PROVE  HistoryInv'
  <1>1. Readable' = Readable
    BY DEF Readable
  <1>2. HistoryTypes'
    BY <1>1 DEF HistoryInv, HistoryTypes, NoRead, ReadField
  <1>3. PageWay(read') /\ WalkWay(read', pageWalk') /\ SearchWay(read') /\ ListWay(read')
    BY DEF PageWay, WalkWay, SearchWay, ListWay, NoRead
  <1>4. AnswersAreCurrent'
    BY DEF AnswersAreCurrent, NoRead
  <1>5. Due(read', pageWalk') = {}
    BY DEF Due, NoRead
  <1> QED
    BY <1>2, <1>3, <1>4, <1>5 DEF HistoryInv

LEMMA AskKeeps ==
  ASSUME HistoryInv, AskPage
  PROVE  HistoryInv'
  <1> DEFINE now == GroupHistoryAccess
             bounded == ~now.open /\ (read.start # 0 \/ read.end # 0)
             below == bounded /\ read.mode = 0 /\ 0 < read.start /\ read.start <= now.cut
  <1>1. read.phase = "page" /\ read.phase \in PagePhase
    BY DEF AskPage, PagePhase
  <1>2. now.open = seat.open /\ now.cut = seat.cut /\ now.cut \in Nat
    BY DEF GroupHistoryAccess, HistoryInv, HistoryTypes
  <1>3. CASE ~seat.in
    <2>1. read' = NoRead /\ UNCHANGED <<top, indexed, tombs, seat, shifts, pageWalk>>
      BY <1>3 DEF AskPage, Refused, Step
    <2> QED
      BY <2>1, NothingIsRead DEF HistoryInv, HistoryTypes, WalkWay
  <1>4. CASE seat.in /\ below
    <2>1. /\ read' = [read EXCEPT !.phase = "checked", !.access = now, !.raw = {}, !.more = FALSE]
          /\ UNCHANGED <<top, indexed, tombs, seat, shifts, pageWalk>>
      BY <1>4 DEF AskPage, Step
    <2>2. /\ DOMAIN read' = ReadField
          /\ read'.kind = read.kind /\ read'.mode = read.mode /\ read'.before = read.before /\ read'.owed = read.owed
          /\ read'.items = read.items /\ read'.last = read.last /\ read'.unread = read.unread
          /\ read'.start = read.start /\ read'.end = read.end /\ read'.got = read.got
          /\ read'.phase = "checked" /\ read'.access = now /\ read'.raw = {} /\ read'.more = FALSE
      BY <2>1 DEF HistoryInv, HistoryTypes, ReadField
    <2>3. PageWay(read') /\ SearchWay(read')
      BY <2>2, <1>1 DEF HistoryInv, PageWay, SearchWay, PagePhase
    <2>4. ASSUME NEW s \in Due(read, pageWalk), s \in Readable PROVE Reached(read', s)
      <3>1. Reached(read, s) /\ s \in Nat
        BY <2>4 DEF HistoryInv, Readable
      <3>2. now.cut < s /\ read.start \in Nat
        BY <1>2, <1>4, <2>4 DEF Readable, Allows, HistoryInv, HistoryTypes
      <3>3. s \in read.got
        BY <1>1, <1>2, <1>4, <3>1, <3>2 DEF Reached, Ahead
      <3> QED
        BY <2>2, <3>1, <3>3 DEF Reached
    <2>5. read'.phase \in PagePhase /\ read'.access.cut \in Nat /\ read'.raw \subseteq 1 .. top
      BY <2>2, <1>2 DEF PagePhase
    <2>6. read'.start \in Nat /\ read'.end \in Nat /\ read'.got \subseteq 1 .. top
      BY <2>2 DEF HistoryInv, HistoryTypes
    <2> HIDE DEF below
    <2> QED
      BY <1>1, <2>1, <2>2, <2>3, <2>4, <2>5, <2>6, PageStepKeeps
  <1>5. CASE seat.in /\ ~below
    <2>1. PICK e, b :
             /\ read' = [read EXCEPT !.phase = "call", !.access = now, !.end = e, !.start = b]
             /\ e = IF bounded /\ read.mode = 0 THEN LargerOf(read.end, now.cut) ELSE read.end
             /\ b = IF bounded /\ read.mode = 1 THEN LargerOf(read.start, now.cut + 1) ELSE read.start
      BY <1>5 DEF AskPage, Step
    <2>2. UNCHANGED <<top, indexed, tombs, seat, shifts, pageWalk>>
      BY <1>5 DEF AskPage, Step
    <2>3. /\ DOMAIN read' = ReadField
          /\ read'.kind = read.kind /\ read'.mode = read.mode /\ read'.before = read.before /\ read'.owed = read.owed
          /\ read'.items = read.items /\ read'.last = read.last /\ read'.unread = read.unread
          /\ read'.start = b /\ read'.end = e /\ read'.got = read.got
          /\ read'.phase = "call" /\ read'.access = now /\ read'.raw = read.raw /\ read'.more = read.more
      BY <2>1 DEF HistoryInv, HistoryTypes, ReadField
    <2>4. /\ e \in Nat /\ b \in Nat /\ (e = read.end \/ (read.mode = 0 /\ bounded /\ e = now.cut))
          /\ b = read.start \/ (read.mode = 1 /\ bounded /\ b = now.cut + 1)
          /\ read.mode = 1 => e = read.end
      BY <2>1, <1>2 DEF HistoryInv, HistoryTypes, LargerOf
    <2>5. PageWay(read')
      BY <2>3, <2>4, <1>1, <1>2 DEF HistoryInv, PageWay, PagePhase
    <2>6. SearchWay(read')
      <3>1. read.kind = "search" => b = read.start
        BY <2>4 DEF HistoryInv, WalkWay
      <3> QED
        BY <2>3, <3>1, <1>1 DEF HistoryInv, SearchWay, PagePhase
    <2>7. ASSUME NEW s \in Due(read, pageWalk), s \in Readable PROVE Reached(read', s)
      <3>1. Reached(read, s) /\ s \in Nat
        BY <2>7 DEF HistoryInv, Readable
      <3>2. bounded => now.cut < s
        BY <1>2, <2>7 DEF Readable, Allows, HistoryInv, HistoryTypes
      <3>3. read.mode = 0 => e < s
        BY <2>4, <3>1, <3>2 DEF Reached
      <3>4. s \in read.got \/ (Ahead(read', s) /\ Beyond(read.mode, read.got, s))
        BY <1>1, <1>2, <2>3, <2>4, <3>1, <3>2 DEF Reached, Ahead
      <3> QED
        BY <2>3, <3>3, <3>4 DEF Reached
    <2>8. read'.phase \in PagePhase /\ read'.access.cut \in Nat /\ read'.raw \subseteq 1 .. top
          /\ read'.got \subseteq 1 .. top /\ read'.start \in Nat /\ read'.end \in Nat
      BY <2>3, <2>4, <1>2 DEF PagePhase, HistoryInv, HistoryTypes
    <2> HIDE DEF below, bounded, now
    <2> QED
      BY <1>1, <2>2, <2>3, <2>5, <2>6, <2>7, <2>8, PageStepKeeps
  <1> QED
    BY <1>3, <1>4, <1>5

LEMMA SyncKeeps ==
  ASSUME HistoryInv, SyncMessages
  PROVE  HistoryInv'
  <1> DEFINE all == PageOf(read)
             up == read.mode = 1 /\ read.start + read.end > 0
             page == IF up THEN FirstOf(all, Wanted(read)) ELSE LastOf(all, Wanted(read))
  <1>1. read.phase = "call" /\ read.phase \in PagePhase
    BY DEF SyncMessages, PagePhase
  <1>2. /\ read' = [read EXCEPT !.phase = "answered", !.raw = page, !.more = page # all]
        /\ UNCHANGED <<top, indexed, tombs, seat, shifts, pageWalk>>
    BY DEF SyncMessages, Step
  <1>3. /\ DOMAIN read' = ReadField
        /\ read'.kind = read.kind /\ read'.mode = read.mode /\ read'.before = read.before /\ read'.owed = read.owed
        /\ read'.items = read.items /\ read'.last = read.last /\ read'.unread = read.unread
        /\ read'.start = read.start /\ read'.end = read.end /\ read'.got = read.got
        /\ read'.phase = "answered" /\ read'.access = read.access /\ read'.raw = page
        /\ read'.more = (page # all)
    <2> HIDE DEF page, all
    <2> QED
      BY <1>2 DEF HistoryInv, HistoryTypes, ReadField
  <1>4. all \subseteq 1 .. top /\ top \in Nat
    BY DEF PageOf, HistoryInv, HistoryTypes
  <1>5. Wanted(read) \in Nat /\ Wanted(read) # 0
    <2>1. Cardinality(read.got) \in Nat /\ Cardinality(read.got) < PageSize
      BY <1>1, PartOf DEF HistoryInv, HistoryTypes, PageWay
    <2>2. PageSize \in Nat
      BY HistoryAssumption
    <2> QED
      BY <2>1, <2>2 DEF Wanted
  <1>6. read.mode = 1 => up
    BY DEF HistoryInv, PageWay, HistoryTypes
  <1>7. /\ page \subseteq all
        /\ read.mode = 0 => \A s \in all \ page : \A l \in page : s < l
        /\ read.mode = 1 => \A s \in all \ page : \A l \in page : l < s
        /\ read.mode = 0 /\ page # all => page # {}
    <2> DEFINE w == Wanted(read)
    <2>1. w \in Nat /\ w \in Int /\ w # 0
      BY <1>5
    <2>2. CASE read.mode = 1
      <3>1. page = FirstOf(all, w)
        BY <1>6, <2>2
      <3> HIDE DEF all, page, w
      <3>2. FirstOf(all, w) \subseteq all /\ \A s \in all \ FirstOf(all, w) : \A f \in FirstOf(all, w) : f < s
        BY <2>1, <1>4, FirstOfIs
      <3> QED
        BY <2>2, <3>1, <3>2
    <2>3. CASE read.mode = 0
      <3>1. page = LastOf(all, w)
        BY <2>3
      <3> HIDE DEF all, page, w
      <3>2. /\ LastOf(all, w) \subseteq all
            /\ \A s \in all \ LastOf(all, w) : \A l \in LastOf(all, w) : s < l
            /\ w # 0 /\ all # {} => LastOf(all, w) # {}
        BY <2>1, <1>4, LastOfIs
      <3> QED
        BY <2>1, <2>3, <3>1, <3>2
    <2> QED
      BY <2>2, <2>3 DEF HistoryInv, HistoryTypes
  <1>8. PageWay(read')
    <2>1. \A x \in page : (read.mode = 0 /\ read.start # 0 => x <= read.start) /\ (read.mode = 1 => read.start <= x)
      <3>1. ASSUME NEW x \in all
            PROVE  (read.mode = 0 /\ read.start # 0 => x <= read.start) /\ (read.mode = 1 => read.start <= x)
        BY DEF PageOf, HistoryInv, HistoryTypes, PageWay
      <3> HIDE DEF all, page
      <3> QED
        BY <3>1, <1>7
    <2>2. (page # all) /\ read.mode = 0 => page # {}
      BY <1>7
    <2> HIDE DEF all, page, up
    <2>3. read.mode = 1 => read.start # 0 /\ read.end = 0
      BY DEF HistoryInv, PageWay
    <2> QED
      BY <1>3, <2>1, <2>2, <2>3 DEF PageWay
  <1>9. SearchWay(read')
    <2> HIDE DEF all, page, up
    <2> QED
      BY <1>1, <1>3 DEF SearchWay, HistoryInv, PagePhase
  <1>10. ASSUME NEW s \in Due(read, pageWalk), s \in Readable PROVE Reached(read', s)
    <2>1. Reached(read, s) /\ s \in 1 .. top
      BY <1>10 DEF HistoryInv, Readable
    <2>2. s \in read.got \/ (s \in all /\ Beyond(read.mode, read.got, s))
      BY <1>1, <2>1 DEF Reached, Ahead, PageOf, HistoryInv, HistoryTypes, PageWay
    <2>3. s \in read.got \union page \/ (page # all /\ Beyond(read.mode, read.got \union page, s))
      <3> HIDE DEF all, page, up
      <3> QED
        BY <2>2, <1>7 DEF Beyond
    <2> HIDE DEF all, page, up
    <2> QED
      BY <1>3, <2>1, <2>3 DEF Reached
  <1>11. read'.phase \in PagePhase /\ read'.access.cut \in Nat /\ read'.start \in Nat /\ read'.end \in Nat
         /\ read'.got \subseteq 1 .. top /\ read'.raw \subseteq 1 .. top
    <2> HIDE DEF all, page, up
    <2> QED
      BY <1>3, <1>4, <1>7 DEF PagePhase, HistoryInv, HistoryTypes
  <1> HIDE DEF all, page, up
  <1> QED
    BY <1>1, <1>2, <1>3, <1>8, <1>9, <1>10, <1>11, PageStepKeeps

LEMMA RecheckKeeps ==
  ASSUME HistoryInv, Recheck
  PROVE  HistoryInv'
  <1> DEFINE now == GroupHistoryAccess
             visible == {s \in read.raw : Allows(now, s)}
             over == EndsHere(now, read.raw, visible)
  <1>1. read.phase = "answered" /\ read.phase \in PagePhase
    BY DEF Recheck, PagePhase
  <1>2. now.open = seat.open /\ now.cut = seat.cut /\ now.cut \in Nat
    BY DEF GroupHistoryAccess, HistoryInv, HistoryTypes
  <1>3. CASE ~seat.in
    <2>1. read' = NoRead /\ UNCHANGED <<top, indexed, tombs, seat, shifts, pageWalk>>
      BY <1>3 DEF Recheck, Refused, Step
    <2> QED
      BY <2>1, NothingIsRead DEF HistoryInv, HistoryTypes, WalkWay
  <1>4. CASE seat.in
    <2>1. /\ read' = [read EXCEPT !.phase = "checked", !.access = now, !.raw = visible, !.more = read.more /\ ~over]
          /\ UNCHANGED <<top, indexed, tombs, seat, shifts, pageWalk>>
      BY <1>4 DEF Recheck, Step
    <2>2. /\ DOMAIN read' = ReadField
          /\ read'.kind = read.kind /\ read'.mode = read.mode /\ read'.before = read.before /\ read'.owed = read.owed
          /\ read'.items = read.items /\ read'.last = read.last /\ read'.unread = read.unread
          /\ read'.start = read.start /\ read'.end = read.end /\ read'.got = read.got
          /\ read'.phase = "checked" /\ read'.access = now /\ read'.raw = visible
          /\ read'.more = (read.more /\ ~over)
      <3> HIDE DEF visible, over, now
      <3> QED
        BY <2>1 DEF HistoryInv, HistoryTypes, ReadField
    <2>3. /\ visible # read.raw /\ (read.mode = 0 \/ read.start = 0) => over
          /\ read.mode = 0 /\ ~now.open /\ (\E s \in visible : s <= now.cut + 1) => over
          /\ over => \/ visible # read.raw /\ read.mode = 0
                     \/ read.mode = 0 /\ ~now.open /\ \E s \in visible : s <= now.cut + 1
      <3>1. read.mode = 1 => read.start # 0
        BY DEF HistoryInv, PageWay
      <3> QED
        BY <3>1 DEF EndsHere, HistoryInv, HistoryTypes
    <2>4. PageWay(read')
      <3>1. visible \subseteq read.raw
        OBVIOUS
      <3>2. read.mode = 0 /\ ~over => visible = read.raw
        BY <2>3
      <3>3. read.mode = 1 => read.start # 0 /\ read.end = 0
        BY DEF HistoryInv, PageWay
      <3>4. /\ read.mode = 0 /\ read.more => read.raw # {}
            /\ \A x \in read.raw : /\ read.mode = 0 /\ read.start # 0 => x <= read.start
                                   /\ read.mode = 1 => read.start <= x
        BY <1>1 DEF HistoryInv, PageWay
      <3> HIDE DEF visible, over, now
      <3>5. read'.mode = 0 /\ read'.more => read'.raw # {}
        BY <2>2, <3>2, <3>4
      <3> QED
        BY <2>2, <3>1, <3>3, <3>4, <3>5 DEF PageWay
    <2>5. SearchWay(read')
      <3> HIDE DEF visible, over, now
      <3> QED
        BY <1>1, <2>2 DEF SearchWay, HistoryInv, PagePhase
    <2>6. ASSUME NEW s \in Due(read, pageWalk), s \in Readable PROVE Reached(read', s)
      <3>1. Reached(read, s) /\ s \in Nat /\ (now.open \/ now.cut < s)
        BY <1>2, <2>6 DEF HistoryInv, Readable, Allows
      <3>2. CASE s \in read.got \union read.raw
        <4>1. s \in read.got \union visible
          BY <3>1, <3>2 DEF Allows
        <4> HIDE DEF visible, over, now
        <4> QED
          BY <2>2, <3>1, <4>1 DEF Reached
      <3>3. CASE s \notin read.got \union read.raw
        <4>1. read.more /\ Beyond(read.mode, read.got \union read.raw, s)
          BY <1>1, <3>1, <3>3 DEF Reached
        <4>2. ~over
          <5>1. ASSUME read.mode = 0, NEW x \in read.raw, ~now.open, x <= now.cut + 1 PROVE FALSE
            <6>1. s < x /\ x \in Nat
              BY <4>1, <5>1 DEF Beyond, HistoryInv, HistoryTypes
            <6> QED
              BY <1>2, <3>1, <5>1, <6>1
          <5>2. ASSUME read.mode = 0, visible # read.raw PROVE FALSE
            <6>1. PICK x \in read.raw : ~Allows(now, x)
              BY <5>2
            <6>2. ~now.open /\ x \in Nat /\ ~(now.cut < x)
              BY <6>1 DEF Allows, HistoryInv, HistoryTypes
            <6>3. x <= now.cut + 1
              BY <1>2, <6>2
            <6> QED
              BY <5>1, <5>2, <6>2, <6>3
          <5> QED
            BY <2>3, <5>1, <5>2
        <4>3. Beyond(read.mode, read.got \union visible, s)
          BY <4>1 DEF Beyond
        <4> HIDE DEF visible, over, now
        <4> QED
          BY <2>2, <3>1, <4>1, <4>2, <4>3 DEF Reached
      <3> QED
        BY <3>2, <3>3
    <2>7. read'.phase \in PagePhase /\ read'.access.cut \in Nat /\ read'.start \in Nat /\ read'.end \in Nat
          /\ read'.got \subseteq 1 .. top /\ read'.raw \subseteq 1 .. top
      <3>1. visible \subseteq read.raw
        OBVIOUS
      <3> HIDE DEF visible, over, now
      <3> QED
        BY <1>2, <2>2, <3>1 DEF PagePhase, HistoryInv, HistoryTypes
    <2> HIDE DEF visible, over, now
    <2> QED
      BY <1>1, <2>1, <2>2, <2>4, <2>5, <2>6, <2>7, PageStepKeeps
  <1> QED
    BY <1>3, <1>4

LEMMA FilterKeeps ==
  ASSUME HistoryInv, syncVisibleGroupMessages
  PROVE  HistoryInv'
  <1> DEFINE raw == read.raw
             visible == read.raw \ tombs
             got == read.got \union visible
             enough == Cardinality(got) >= PageSize \/ ~read.more \/ raw = {} \/ visible = raw
             ends == (read.mode = 0 /\ Lowest(raw) <= 1) \/ read.start = NextStart(raw)
  <1>1. read.phase = "checked" /\ read.phase \in PagePhase
    BY DEF syncVisibleGroupMessages, PagePhase
  <1>2. filterDeletedWireMessages(read.raw) = visible
    BY DEF filterDeletedWireMessages, Undeleted
  <1>3. /\ enough => read' = [read EXCEPT !.phase = "synced", !.got = got]
        /\ ~enough /\ ends => read' = [read EXCEPT !.phase = "synced", !.got = got, !.more = FALSE]
        /\ ~enough /\ ~ends => read' = [read EXCEPT !.phase = "page", !.got = got, !.start = NextStart(raw)]
        /\ UNCHANGED <<top, indexed, tombs, seat, shifts, pageWalk>>
    BY <1>2 DEF syncVisibleGroupMessages, Step
  <1>4. visible \subseteq raw /\ raw \subseteq 1 .. top /\ got \subseteq 1 .. top /\ read.got \subseteq got
        /\ top \in Nat /\ PageSize \in Nat /\ PageSize # 0
    BY HistoryAssumption DEF HistoryInv, HistoryTypes
  <1>5. ASSUME NEW s \in Due(read, pageWalk), s \in Readable
        PROVE  /\ s \in Nat /\ 1 <= s /\ (read.mode = 0 => read.end < s)
               /\ s \in got \/ (s \notin raw /\ read.more /\ Beyond(read.mode, got, s) /\ Beyond(read.mode, raw, s))
    <2>1. Reached(read, s)
      BY <1>5 DEF HistoryInv
    <2>2. s \in 1 .. top /\ s \notin tombs
      BY <1>5 DEF Readable
    <2> QED
      BY <1>1, <1>4, <2>1, <2>2 DEF Reached, Beyond
  <1>6. \A x \in raw : /\ read.mode = 0 /\ read.start # 0 => x <= read.start
                       /\ read.mode = 1 => read.start <= x
    BY <1>1 DEF HistoryInv, PageWay
  <1>7. ASSUME read.kind = "search"
        PROVE  /\ read.mode = 0
               /\ Cardinality(read.items) <= PageSize
               /\ \A i \in read.items : read.start # 0 /\ read.start < i /\ \A g \in got : g < i
    <2>1. /\ read.mode = 0 /\ Cardinality(read.items) <= PageSize
          /\ \A i \in read.items : read.start # 0 /\ read.start < i /\ \A g \in read.got : g < i
      BY <1>1, <1>7 DEF HistoryInv, SearchWay, WalkWay
    <2>2. ASSUME NEW i \in read.items, NEW x \in raw PROVE x < i
      <3>1. x <= read.start /\ read.start < i /\ x \in Nat /\ i \in Nat /\ read.start \in Nat
        BY <1>4, <1>6, <2>1, <2>2 DEF HistoryInv, HistoryTypes
      <3> QED
        BY <3>1
    <2> QED
      BY <1>4, <2>1, <2>2
  <1>8. read.mode = 1 => read.start # 0 /\ read.end = 0
    BY DEF HistoryInv, PageWay
  <1>9. read.mode \in {0, 1} /\ read.start \in Nat /\ read.end \in Nat /\ read.access.cut \in Nat
        /\ DOMAIN read = ReadField
    BY DEF HistoryInv, HistoryTypes
  <1>10. CASE enough
    <2>1. /\ DOMAIN read' = ReadField
          /\ read'.kind = read.kind /\ read'.mode = read.mode /\ read'.before = read.before /\ read'.owed = read.owed
          /\ read'.items = read.items /\ read'.last = read.last /\ read'.unread = read.unread
          /\ read'.start = read.start /\ read'.end = read.end /\ read'.raw = raw
          /\ read'.access = read.access /\ read'.more = read.more /\ read'.phase = "synced" /\ read'.got = got
      <3>1. read' = [read EXCEPT !.phase = "synced", !.got = got]
        BY <1>3, <1>10
      <3> HIDE DEF got
      <3> QED
        BY <1>9, <3>1 DEF ReadField
    <2>2. PageWay(read')
      <3>1. read.mode = 0 /\ read.more => got # {}
        <4>1. read.mode = 0 /\ read.more => raw # {}
          BY <1>1 DEF HistoryInv, PageWay
        <4>2. visible = raw /\ raw # {} => got # {}
          OBVIOUS
        <4>3. Cardinality(got) >= PageSize => got # {}
          <5>1. Cardinality({}) = 0
            BY FS_EmptySet
          <5>2. ~(0 >= PageSize)
            BY <1>4
          <5> HIDE DEF got
          <5> QED
            BY <5>1, <5>2
        <4> HIDE DEF got, visible, raw
        <4> QED
          BY <1>10, <4>1, <4>2, <4>3
      <3> HIDE DEF got
      <3> QED
        BY <1>8, <2>1, <3>1 DEF PageWay
    <2>3. SearchWay(read')
      <3> HIDE DEF got
      <3> QED
        BY <1>7, <2>1 DEF SearchWay
    <2>4. ASSUME NEW s \in Due(read, pageWalk), s \in Readable PROVE Reached(read', s)
      <3>1. (read.mode = 0 => read.end < s) /\ (s \in got \/ (read.more /\ Beyond(read.mode, got, s)))
        BY <1>5, <2>4
      <3> HIDE DEF got
      <3> QED
        BY <2>1, <3>1 DEF Reached
    <2>5. read'.phase \in PagePhase /\ read'.access.cut \in Nat /\ read'.start \in Nat /\ read'.end \in Nat
          /\ read'.got \subseteq 1 .. top /\ read'.raw \subseteq 1 .. top
      BY <1>4, <1>9, <2>1 DEF PagePhase
    <2> HIDE DEF got, visible, raw, enough, ends
    <2> QED
      BY <1>1, <1>3, <2>1, <2>2, <2>3, <2>4, <2>5, PageStepKeeps
  <1>11. raw # {} /\ read.mode = 0 => Lowest(raw) \in raw /\ Lowest(raw) \in Nat /\ \A k \in raw : Lowest(raw) <= k
    <2>1. raw \subseteq Nat
      BY <1>4
    <2> HIDE DEF raw
    <2> QED
      BY <2>1, LowestIs
  <1>12. raw # {} /\ read.mode = 1 => Highest(raw) \in raw /\ Highest(raw) \in Nat /\ \A k \in raw : k <= Highest(raw)
    <2>1. raw \subseteq 1 .. top /\ top \in Nat /\ raw \subseteq Nat
      BY <1>4
    <2> HIDE DEF raw
    <2>2. raw # {} => Highest(raw) \in raw /\ \A k \in raw : k <= Highest(raw)
      BY <2>1, HighestIs
    <2> QED
      BY <2>1, <2>2
  <1>13. CASE ~enough /\ ends
    <2>1. /\ DOMAIN read' = ReadField
          /\ read'.kind = read.kind /\ read'.mode = read.mode /\ read'.before = read.before /\ read'.owed = read.owed
          /\ read'.items = read.items /\ read'.last = read.last /\ read'.unread = read.unread
          /\ read'.start = read.start /\ read'.end = read.end /\ read'.raw = raw
          /\ read'.access = read.access /\ read'.more = FALSE /\ read'.phase = "synced" /\ read'.got = got
      <3>1. read' = [read EXCEPT !.phase = "synced", !.got = got, !.more = FALSE]
        BY <1>3, <1>13
      <3> HIDE DEF got
      <3> QED
        BY <1>9, <3>1 DEF ReadField
    <2>2. PageWay(read') /\ SearchWay(read')
      <3> HIDE DEF got
      <3> QED
        BY <1>7, <1>8, <2>1 DEF PageWay, SearchWay
    <2>3. ASSUME NEW s \in Due(read, pageWalk), s \in Readable PROVE Reached(read', s)
      <3>1. s \in got
        <4> SUFFICES ASSUME s \notin got PROVE FALSE
          OBVIOUS
        <4>1. Beyond(read.mode, raw, s) /\ s \in Nat /\ 1 <= s
          BY <1>5, <2>3
        <4>2. raw # {}
          BY <1>13
        <4>3. CASE read.mode = 0
          <5>1. s < Lowest(raw) /\ NextStart(raw) = Lowest(raw) - 1
            BY <4>1, <4>2, <4>3, <1>11 DEF Beyond, NextStart
          <5>2. read.start # 0 => Lowest(raw) <= read.start
            BY <4>2, <4>3, <1>6, <1>11
          <5> QED
            BY <4>1, <4>2, <4>3, <5>1, <5>2, <1>9, <1>11, <1>13
        <4>4. CASE read.mode = 1
          <5>1. NextStart(raw) = Highest(raw) + 1 /\ read.start <= Highest(raw)
            BY <4>2, <4>4, <1>6, <1>12 DEF NextStart
          <5> QED
            BY <4>2, <4>4, <5>1, <1>9, <1>12, <1>13
        <4> QED
          BY <4>3, <4>4, <1>9
      <3>2. read.mode = 0 => read.end < s
        BY <1>5, <2>3
      <3> HIDE DEF got
      <3> QED
        BY <2>1, <3>1, <3>2 DEF Reached
    <2>4. read'.phase \in PagePhase /\ read'.access.cut \in Nat /\ read'.start \in Nat /\ read'.end \in Nat
          /\ read'.got \subseteq 1 .. top /\ read'.raw \subseteq 1 .. top
      BY <1>4, <1>9, <2>1 DEF PagePhase
    <2> HIDE DEF got, visible, raw, enough, ends
    <2> QED
      BY <1>1, <1>3, <2>1, <2>2, <2>3, <2>4, PageStepKeeps
  <1>14. CASE ~enough /\ ~ends
    <2> DEFINE start == NextStart(raw)
    <2>1. /\ DOMAIN read' = ReadField
          /\ read'.kind = read.kind /\ read'.mode = read.mode /\ read'.before = read.before /\ read'.owed = read.owed
          /\ read'.items = read.items /\ read'.last = read.last /\ read'.unread = read.unread
          /\ read'.start = start /\ read'.end = read.end /\ read'.raw = raw
          /\ read'.access = read.access /\ read'.more = read.more /\ read'.phase = "page" /\ read'.got = got
      <3>1. read' = [read EXCEPT !.phase = "page", !.got = got, !.start = start]
        BY <1>3, <1>14
      <3> HIDE DEF got, start
      <3> QED
        BY <1>9, <3>1 DEF ReadField
    <2>2. raw # {} /\ read.more /\ Cardinality(got) < PageSize
      <3>1. Cardinality(got) \in Nat
        <4> HIDE DEF got
        <4> QED
          BY <1>4, PartOf
      <3> QED
        BY <1>4, <1>14, <3>1
    <2>3. /\ read.mode = 0 => start = Lowest(raw) - 1 /\ start \in Nat /\ start # 0
          /\ read.mode = 1 => start = Highest(raw) + 1 /\ start \in Nat /\ start # 0
      <3>1. CASE read.mode = 0
        BY <1>11, <1>14, <2>2, <3>1 DEF NextStart
      <3>2. CASE read.mode = 1
        BY <1>12, <2>2, <3>2 DEF NextStart
      <3> QED
        BY <3>1, <3>2, <1>9
    <2>4. PageWay(read')
      <3> HIDE DEF got, start
      <3> QED
        BY <1>8, <1>9, <2>1, <2>2, <2>3 DEF PageWay
    <2>5. SearchWay(read')
      <3> SUFFICES ASSUME read.kind = "search" PROVE SearchWay(read')
        BY <2>1 DEF SearchWay
      <3>1. start <= read.start \/ read.items = {}
        <4>1. read.start # 0 => Lowest(raw) <= read.start
          BY <1>6, <1>7, <1>11, <2>2
        <4>2. read.start = 0 => read.items = {}
          BY <1>7
        <4> QED
          BY <1>7, <1>9, <1>11, <2>2, <2>3, <4>1, <4>2
      <3>2. \A i \in read.items : start < i
        <4>1. ASSUME NEW i \in read.items PROVE start < i
          <5>1. start <= read.start /\ read.start < i /\ i \in Nat /\ start \in Nat
            BY <3>1, <1>7, <2>3 DEF HistoryInv, HistoryTypes
          <5> HIDE DEF start
          <5> QED
            BY <5>1, <1>9
        <4> QED
          BY <4>1
      <3> HIDE DEF got, start
      <3> QED
        BY <1>7, <2>1, <2>3, <3>2 DEF SearchWay
    <2>6. ASSUME NEW s \in Due(read, pageWalk), s \in Readable PROVE Reached(read', s)
      <3>1. read.mode = 0 => read.end < s
        BY <1>5, <2>6
      <3>2. s \in got \/ (Ahead(read', s) /\ Beyond(read.mode, got, s))
        <4> SUFFICES ASSUME s \notin got PROVE Ahead(read', s) /\ Beyond(read.mode, got, s)
          OBVIOUS
        <4>1. Beyond(read.mode, raw, s) /\ s \in Nat /\ Beyond(read.mode, got, s)
          BY <1>5, <2>6
        <4>2. CASE read.mode = 0
          <5>1. s < Lowest(raw)
            BY <4>1, <4>2, <2>2, <1>11 DEF Beyond
          <5>2. s <= start
            BY <4>1, <4>2, <5>1, <1>11, <2>2, <2>3
          <5> HIDE DEF start, got
          <5> QED
            BY <2>1, <4>1, <4>2, <5>2 DEF Ahead
        <4>3. CASE read.mode = 1
          <5>1. Highest(raw) < s
            BY <4>1, <4>3, <2>2, <1>12 DEF Beyond
          <5>2. start <= s
            BY <4>1, <4>3, <5>1, <1>12, <2>2, <2>3
          <5> HIDE DEF start, got
          <5> QED
            BY <2>1, <4>1, <4>3, <5>2 DEF Ahead
        <4> QED
          BY <4>2, <4>3, <1>9
      <3> HIDE DEF got, start
      <3> QED
        BY <2>1, <3>1, <3>2 DEF Reached
    <2>7. read'.phase \in PagePhase /\ read'.access.cut \in Nat /\ read'.start \in Nat /\ read'.end \in Nat
          /\ read'.got \subseteq 1 .. top /\ read'.raw \subseteq 1 .. top
      <3> HIDE DEF start
      <3> QED
        BY <1>4, <1>9, <2>1, <2>3 DEF PagePhase
    <2> HIDE DEF got, visible, raw, enough, ends, start
    <2> QED
      BY <1>1, <1>3, <2>1, <2>4, <2>5, <2>6, <2>7, PageStepKeeps
  <1> QED
    BY <1>10, <1>13, <1>14

\* A walk, a search and a history begin with nothing collected; what they owe
\* is readable.
LEMMA RequestBegins ==
  ASSUME HistoryInv, UNCHANGED <<top, indexed, tombs, seat, shifts>>,
         NEW loader, NEW way \in {0, 1}, NEW start \in Nat, NEW before, NEW owed, owed \subseteq Readable,
         loader \in {"sync", "history", "search"},
         DOMAIN read' = ReadField,
         read'.kind = loader, read'.phase = "page", read'.mode = way, read'.start = start, read'.end = 0,
         read'.access.cut = 0, read'.raw = {}, read'.got = {}, read'.items = {}, read'.before = before,
         read'.owed = owed, read'.last = 0, read'.unread = 0,
         loader # "sync" => way = 0, loader = "search" => start = 0,
         way = 1 => start # 0,
         DOMAIN pageWalk' = {"phase", "mode", "from", "kept", "owed"},
         pageWalk'.mode \in {0, 1}, pageWalk'.from \in Nat, pageWalk'.owed \subseteq Readable,
         pageWalk'.phase = "over" => pageWalk'.owed \subseteq pageWalk'.kept,
         loader = "sync" => pageWalk'.phase = "on" /\ pageWalk'.mode = way,
         loader = "sync" /\ way = 1 => pageWalk'.from # 0,
         loader = "sync" =>
            \A s \in pageWalk'.owed \ pageWalk'.kept :
               (way = 0 => start = 0 \/ s <= start) /\ (way = 1 => start <= s /\ pageWalk'.from <= s)
  PROVE  HistoryInv'
  <1>2. Readable' = Readable /\ Readable \subseteq 1 .. top
    BY DEF Readable
  <1>3. HistoryTypes'
    BY <1>2 DEF HistoryInv, HistoryTypes
  <1>4. Cardinality({}) = 0 /\ 0 < PageSize /\ 0 <= PageSize
    BY FS_EmptySet, HistoryAssumption
  <1>5. PageWay(read') /\ SearchWay(read') /\ ListWay(read')
    BY <1>4 DEF PageWay, SearchWay, ListWay
  <1>6. WalkWay(read', pageWalk')
    BY DEF WalkWay, PagePhase
  <1>7. AnswersAreCurrent'
    BY DEF AnswersAreCurrent
  <1>8. ASSUME NEW s \in Due(read', pageWalk') PROVE Reached(read', s)
    <2>1. s \in Readable
      BY <1>8 DEF Due
    <2>2. s \in Nat /\ 0 < s
      BY <2>1 DEF Readable
    <2>3. Ahead(read', s)
      BY <1>8, <2>2 DEF Due, Ahead
    <2> QED
      BY <2>2, <2>3 DEF Reached, Beyond
  <1> QED
    BY <1>3, <1>5, <1>6, <1>7, <1>8 DEF HistoryInv

LEMMA BeginKeeps ==
  ASSUME HistoryInv, NEW way \in {0, 1}, BeginWalk(way)
  PROVE  HistoryInv'
  <1>1. /\ pageWalk' = [phase |-> "on", mode |-> way, from |-> way, kept |-> {}, owed |-> Readable]
        /\ read' = [NoRead EXCEPT !.kind = "sync", !.phase = "page", !.mode = way, !.start = way]
        /\ UNCHANGED <<top, indexed, tombs, seat, shifts>>
    BY DEF BeginWalk
  <1>2. /\ DOMAIN read' = ReadField
        /\ read'.kind = "sync" /\ read'.phase = "page" /\ read'.mode = way /\ read'.start = way /\ read'.end = 0
        /\ read'.access.cut = 0 /\ read'.raw = {} /\ read'.got = {} /\ read'.items = {} /\ read'.before = 0
        /\ read'.owed = {} /\ read'.last = 0 /\ read'.unread = 0
    BY <1>1 DEF NoRead, ReadField
  <1>3. /\ DOMAIN pageWalk' = {"phase", "mode", "from", "kept", "owed"}
        /\ pageWalk'.mode = way /\ pageWalk'.from = way /\ pageWalk'.owed = Readable /\ pageWalk'.kept = {}
        /\ pageWalk'.phase = "on"
    BY <1>1
  <1>4. \A s \in pageWalk'.owed \ pageWalk'.kept :
               (way = 0 => way = 0 \/ s <= way) /\ (way = 1 => way <= s /\ pageWalk'.from <= s)
    BY <1>3 DEF Readable, HistoryInv, HistoryTypes
  <1>5. way \in Nat /\ {} \subseteq Readable /\ (way = 1 => way # 0)
    OBVIOUS
  <1> QED
    BY <1>1, <1>2, <1>3, <1>4, <1>5, RequestBegins

LEMMA ContinueKeeps ==
  ASSUME HistoryInv, ContinueWalk
  PROVE  HistoryInv'
  <1> DEFINE start == IF read.got = {} THEN pageWalk.from
                     ELSE IF pageWalk.mode = 0 THEN Lowest(read.got) - 1 ELSE Highest(read.got) + 1
             way == read.mode
  <1>1. read.kind = "sync" /\ read.phase = "synced" /\ UNCHANGED <<top, indexed, tombs, seat, shifts>>
    BY DEF ContinueWalk
  <1>2. pageWalk.phase = "on" /\ pageWalk.mode = way /\ way \in {0, 1}
    BY <1>1 DEF HistoryInv, WalkWay, HistoryTypes
  <1>3. ASSUME NEW s \in pageWalk.owed, s \notin pageWalk.kept
        PROVE  /\ s \in Nat /\ 1 <= s
               /\ s \in read.got \/ (read.more /\ Beyond(way, read.got, s))
    <2>1. Reached(read, s)
      BY <1>1, <1>3 DEF HistoryInv, Due
    <2>2. s \in 1 .. top
      BY <1>3 DEF HistoryInv, HistoryTypes, Readable
    <2> QED
      BY <1>1, <2>1, <2>2 DEF Reached
  <1>4. CASE read.more
    <2>1. /\ pageWalk' = [pageWalk EXCEPT !.kept = pageWalk.kept \union read.got, !.from = start]
          /\ read' = [NoRead EXCEPT !.kind = "sync", !.phase = "page", !.mode = pageWalk.mode, !.start = start]
      BY <1>1, <1>4 DEF ContinueWalk
    <2>2. /\ DOMAIN pageWalk' = {"phase", "mode", "from", "kept", "owed"}
          /\ pageWalk'.mode = way /\ pageWalk'.from = start /\ pageWalk'.owed = pageWalk.owed
          /\ pageWalk'.kept = pageWalk.kept \union read.got /\ pageWalk'.phase = "on"
      <3> HIDE DEF start
      <3> QED
        BY <1>2, <2>1 DEF HistoryInv, HistoryTypes
    <2>3. read.got \subseteq Nat /\ read.got \subseteq 1 .. top /\ top \in Nat
      BY DEF HistoryInv, HistoryTypes
    <2>6. /\ DOMAIN read' = ReadField
          /\ read'.kind = "sync" /\ read'.phase = "page" /\ read'.mode = way /\ read'.start = start /\ read'.end = 0
          /\ read'.access.cut = 0 /\ read'.raw = {} /\ read'.got = {} /\ read'.items = {} /\ read'.before = 0
          /\ read'.owed = {} /\ read'.last = 0 /\ read'.unread = 0
      <3> HIDE DEF start
      <3> QED
        BY <1>2, <2>1 DEF NoRead, ReadField
    <2> DEFINE Onward ==
          /\ \A s \in pageWalk'.owed \ pageWalk'.kept :
             (way = 0 => start = 0 \/ s <= start) /\ (way = 1 => start <= s /\ pageWalk'.from <= s)
          /\ pageWalk'.from \in Nat /\ start \in Nat
          /\ way = 1 => start # 0 /\ pageWalk'.from # 0
    <2>4. ASSUME way = 0 PROVE Onward
      <3>1. read.got # {}
        BY <1>1, <1>4, <2>4 DEF HistoryInv, PageWay
      <3>2. Lowest(read.got) \in read.got /\ \A k \in read.got : Lowest(read.got) <= k
        BY <2>3, <3>1, LowestIs
      <3>3. start = Lowest(read.got) - 1 /\ start \in Nat
        BY <1>2, <2>3, <2>4, <3>1, <3>2
      <3>4. ASSUME NEW s \in pageWalk'.owed \ pageWalk'.kept PROVE s <= start
        <4>1. Beyond(way, read.got, s) /\ s \in Nat
          BY <1>3, <2>2, <3>4
        <4>2. s < Lowest(read.got) /\ Lowest(read.got) \in Nat
          BY <2>3, <2>4, <3>2, <4>1 DEF Beyond
        <4> QED
          BY <3>3, <4>1, <4>2
      <3> HIDE DEF start, way
      <3> QED
        BY <2>2, <2>4, <3>3, <3>4
    <2>5. ASSUME way = 1 PROVE Onward
      <3>1. pageWalk.from \in Nat /\ pageWalk.from # 0 /\ \A s \in pageWalk.owed \ pageWalk.kept : pageWalk.from <= s
        BY <1>1, <2>5 DEF HistoryInv, WalkWay, HistoryTypes
      <3>3. read.got # {} => Highest(read.got) \in read.got /\ \A k \in read.got : k <= Highest(read.got)
        BY <2>3, HighestIs
      <3>4. start \in Nat /\ start # 0
        BY <1>2, <2>3, <2>5, <3>1, <3>3
      <3>5. ASSUME NEW s \in pageWalk'.owed \ pageWalk'.kept PROVE start <= s
        <4>1. Beyond(way, read.got, s) /\ s \in Nat /\ s \in pageWalk.owed \ pageWalk.kept
          BY <1>3, <2>2, <3>5
        <4>2. CASE read.got = {}
          BY <3>1, <4>1, <4>2
        <4>3. CASE read.got # {}
          <5>1. Highest(read.got) < s /\ Highest(read.got) \in Nat
            BY <2>3, <2>5, <3>3, <4>1, <4>3 DEF Beyond
          <5> QED
            BY <1>2, <2>5, <4>1, <4>3, <5>1
        <4> QED
          BY <4>2, <4>3
      <3> HIDE DEF start, way
      <3> QED
        BY <2>2, <2>5, <3>4, <3>5
    <2>7. Onward
      BY <1>2, <2>4, <2>5
    <2>8. pageWalk'.owed \subseteq Readable /\ {} \subseteq Readable
      BY <2>2 DEF HistoryInv, HistoryTypes
    <2>9. pageWalk'.mode \in {0, 1} /\ (pageWalk'.phase = "over" => pageWalk'.owed \subseteq pageWalk'.kept)
      BY <1>2, <2>2
    <2> HIDE DEF start, way
    <2> QED
      BY <1>1, <1>2, <2>2, <2>6, <2>7, <2>8, <2>9, RequestBegins
  <1>5. CASE ~read.more
    <2>1. pageWalk' = [pageWalk EXCEPT !.kept = pageWalk.kept \union read.got, !.phase = "over"] /\ read' = NoRead
      BY <1>1, <1>5 DEF ContinueWalk
    <2>2. /\ DOMAIN pageWalk' = {"phase", "mode", "from", "kept", "owed"}
          /\ pageWalk'.mode = pageWalk.mode /\ pageWalk'.from = pageWalk.from /\ pageWalk'.owed = pageWalk.owed
          /\ pageWalk'.kept = pageWalk.kept \union read.got /\ pageWalk'.phase = "over"
      BY <2>1 DEF HistoryInv, HistoryTypes
    <2>3. pageWalk.owed \subseteq pageWalk.kept \union read.got
      BY <1>3, <1>5
    <2>4. pageWalk.mode \in {0, 1} /\ pageWalk.from \in Nat /\ pageWalk.owed \subseteq Readable
      BY DEF HistoryInv, HistoryTypes
    <2> QED
      BY <1>1, <2>1, <2>2, <2>3, <2>4, NothingIsRead
  <1> QED
    BY <1>4, <1>5

LEMMA GiveUpKeeps ==
  ASSUME HistoryInv, GiveUpWalk
  PROVE  HistoryInv'
  <1>1. pageWalk' = NoPageWalk /\ UNCHANGED <<top, indexed, tombs, seat, shifts, read>> /\ read.kind # "sync"
    BY DEF GiveUpWalk
  <1>2. Readable' = Readable
    BY <1>1 DEF Readable
  <1>3. HistoryTypes'
    BY <1>1, <1>2 DEF HistoryInv, HistoryTypes, NoPageWalk
  <1>4. WalkWay(read', pageWalk')
    BY <1>1 DEF HistoryInv, WalkWay, NoPageWalk
  <1>5. AnswersAreCurrent' = AnswersAreCurrent
    BY <1>1 DEF AnswersAreCurrent
  <1>6. Due(read', pageWalk') = Due(read, pageWalk)
    BY <1>1 DEF Due
  <1> QED
    BY <1>1, <1>3, <1>4, <1>5, <1>6 DEF HistoryInv

LEMMA LoadersBegin ==
  ASSUME HistoryInv, NEW before \in 0 .. MaxTop, LoadHistory(before) \/ Search(before)
  PROVE  HistoryInv'
  <1>1. UNCHANGED <<top, indexed, tombs, seat, shifts, pageWalk>> /\ before \in Nat
    BY DEF LoadHistory, Search, Step
  <1>2. /\ DOMAIN pageWalk' = {"phase", "mode", "from", "kept", "owed"}
        /\ pageWalk'.mode \in {0, 1} /\ pageWalk'.from \in Nat /\ pageWalk'.owed \subseteq Readable
        /\ pageWalk'.phase = "over" => pageWalk'.owed \subseteq pageWalk'.kept
    BY <1>1 DEF HistoryInv, HistoryTypes, WalkWay
  <1>3. CASE LoadHistory(before)
    <2> DEFINE start == IF before > 1 THEN before - 1 ELSE 0
    <2>1. start \in Nat
      BY <1>1
    <2>2. read' = [NoRead EXCEPT !.kind = "history", !.phase = "page", !.start = start]
      BY <1>3 DEF LoadHistory, Step
    <2>3. /\ DOMAIN read' = ReadField
          /\ read'.kind = "history" /\ read'.phase = "page" /\ read'.mode = 0 /\ read'.start = start /\ read'.end = 0
          /\ read'.access.cut = 0 /\ read'.raw = {} /\ read'.got = {} /\ read'.items = {} /\ read'.before = 0
          /\ read'.owed = {} /\ read'.last = 0 /\ read'.unread = 0
      <3> HIDE DEF start
      <3> QED
        BY <2>2 DEF NoRead, ReadField
    <2> HIDE DEF start
    <2>4. {} \subseteq Readable /\ 0 \in {0, 1} /\ ~(0 = 1)
      OBVIOUS
    <2> QED
      BY <1>1, <1>2, <2>1, <2>3, <2>4, RequestBegins
  <1>4. CASE Search(before)
    <2>1. read' = [NoRead EXCEPT !.kind = "search", !.phase = "page", !.before = before, !.pages = 1, !.owed = Readable]
      BY <1>4 DEF Search, Step
    <2>2. /\ DOMAIN read' = ReadField
          /\ read'.kind = "search" /\ read'.phase = "page" /\ read'.mode = 0 /\ read'.start = 0 /\ read'.end = 0
          /\ read'.access.cut = 0 /\ read'.raw = {} /\ read'.got = {} /\ read'.items = {} /\ read'.before = before
          /\ read'.owed = Readable /\ read'.last = 0 /\ read'.unread = 0
      BY <2>1 DEF NoRead, ReadField
    <2>3. Readable \subseteq Readable /\ 0 \in {0, 1} /\ ~(0 = 1) /\ 0 \in Nat
      OBVIOUS
    <2> QED
      BY <1>1, <1>2, <2>2, <2>3, RequestBegins
  <1> QED
    BY <1>3, <1>4

\* Beyond the pages, only what a search found matters.
LEMMA LaterStepKeeps ==
  ASSUME HistoryInv, UNCHANGED <<top, indexed, tombs, seat, shifts, pageWalk>>,
         read.kind \notin {"sync"}, read'.kind \notin {"sync"},
         read'.phase \in {"loaded", "done", "found", "listed", "bounded"},
         DOMAIN read' = ReadField,
         read'.mode = 0, read'.start \in Nat, read'.end \in Nat, read'.access.cut \in Nat,
         read'.raw \subseteq 1 .. top, read'.got \subseteq 1 .. top, read'.items \subseteq 1 .. top,
         read'.last \in Nat, read'.unread \in Nat, read'.owed \subseteq Readable,
         read'.kind = "search" => Cardinality(read'.items) <= PageSize,
         ListWay(read'), AnswersAreCurrent',
         \A s \in Due(read', pageWalk) : Reached(read', s)
  PROVE  HistoryInv'
  <1>1. Readable' = Readable
    BY DEF Readable
  <1>2. HistoryTypes'
    BY <1>1 DEF HistoryInv, HistoryTypes
  <1>3. PageWay(read') /\ SearchWay(read')
    BY DEF PageWay, SearchWay, PagePhase
  <1>4. WalkWay(read', pageWalk')
    BY DEF HistoryInv, WalkWay
  <1> QED
    BY <1>2, <1>3, <1>4 DEF HistoryInv

LEMMA OtherReadingsKeep ==
  ASSUME HistoryInv,
         \/ \E s \in 1 .. MaxTop : FindSource(s)
         \/ LoadSource \/ ConfirmSource \/ EndReading \/ HistoryLoaded
         \/ \E n \in 0 .. MaxTop : SyncConversation(n)
         \/ UnreadAfterJoin \/ DeletedUnreadCount
  PROVE  HistoryInv'
  <1>1. ASSUME read' = NoRead, UNCHANGED <<top, indexed, tombs, seat, shifts, pageWalk>> PROVE HistoryInv'
    BY <1>1, NothingIsRead DEF HistoryInv, HistoryTypes, WalkWay
  <1>2. ASSUME NEW s \in 1 .. MaxTop, FindSource(s) PROVE HistoryInv'
    <2>1. /\ s \in 1 .. top /\ read.kind = "none" /\ UNCHANGED <<top, indexed, tombs, seat, shifts, pageWalk>>
          /\ read' = [NoRead EXCEPT !.kind = "source", !.phase = "found", !.got = {s}]
      BY <1>2 DEF FindSource, NoReading, Step
    <2>2. /\ DOMAIN read' = ReadField
          /\ read'.kind = "source" /\ read'.phase = "found" /\ read'.mode = 0 /\ read'.start = 0 /\ read'.end = 0
          /\ read'.access.cut = 0 /\ read'.raw = {} /\ read'.got = {s} /\ read'.items = {}
          /\ read'.owed = {} /\ read'.last = 0 /\ read'.unread = 0
      BY <2>1 DEF NoRead, ReadField
    <2>3. ListWay(read') /\ AnswersAreCurrent' /\ Due(read', pageWalk) = {}
      BY <2>2 DEF ListWay, AnswersAreCurrent, Due
    <2> QED
      BY <2>1, <2>2, <2>3, LaterStepKeeps
  <1>3. ASSUME LoadSource \/ HistoryLoaded PROVE HistoryInv'
    <2>1. /\ read.kind \in {"source", "history"} /\ UNCHANGED <<top, indexed, tombs, seat, shifts, pageWalk>>
          /\ read' = [read EXCEPT !.phase = "loaded", !.items = read.got]
      BY <1>3 DEF LoadSource, HistoryLoaded, Step
    <2>2. /\ DOMAIN read' = ReadField
          /\ read'.kind = read.kind /\ read'.phase = "loaded" /\ read'.mode = read.mode /\ read'.start = read.start
          /\ read'.end = read.end /\ read'.access = read.access /\ read'.raw = read.raw /\ read'.got = read.got
          /\ read'.items = read.got /\ read'.owed = read.owed /\ read'.last = read.last /\ read'.unread = read.unread
      BY <2>1 DEF HistoryInv, HistoryTypes, ReadField
    <2>3. ListWay(read') /\ AnswersAreCurrent' /\ Due(read', pageWalk) = {}
      BY <2>1, <2>2 DEF ListWay, AnswersAreCurrent, Due
    <2>4. read.mode = 0
      BY <2>1 DEF HistoryInv, WalkWay
    <2>5. /\ read.start \in Nat /\ read.end \in Nat /\ read.access.cut \in Nat /\ read.raw \subseteq 1 .. top
          /\ read.got \subseteq 1 .. top /\ read.owed \subseteq Readable /\ read.last \in Nat /\ read.unread \in Nat
      BY DEF HistoryInv, HistoryTypes
    <2> QED
      BY <2>1, <2>2, <2>3, <2>4, <2>5, LaterStepKeeps
  <1>4. ASSUME ConfirmSource PROVE HistoryInv'
    <2>1. CASE ~SourceAllowed(read.items)
      BY <1>1, <1>4, <2>1 DEF ConfirmSource, Refused, Step
    <2>2. CASE SourceAllowed(read.items)
      <3>1. /\ read.kind = "source" /\ UNCHANGED <<top, indexed, tombs, seat, shifts, pageWalk>>
            /\ read' = [read EXCEPT !.phase = "done", !.access = GroupHistoryAccess]
        BY <1>4, <2>2 DEF ConfirmSource, Step
      <3>2. /\ DOMAIN read' = ReadField
            /\ read'.kind = read.kind /\ read'.phase = "done" /\ read'.mode = read.mode /\ read'.start = read.start
            /\ read'.end = read.end /\ read'.access = GroupHistoryAccess /\ read'.raw = read.raw /\ read'.got = read.got
            /\ read'.items = read.items /\ read'.owed = read.owed /\ read'.last = read.last /\ read'.unread = read.unread
        BY <3>1 DEF HistoryInv, HistoryTypes, ReadField
      <3>3. /\ GroupHistoryAccess.open = seat.open /\ GroupHistoryAccess.cut = seat.cut
            /\ GroupHistoryAccess.cut \in Nat
        BY DEF GroupHistoryAccess, HistoryInv, HistoryTypes
      <3>4. \A s \in read.items : Allows(seat, s)
        BY <2>2 DEF SourceAllowed, StillAllowed
      <3>5. ListWay(read') /\ AnswersAreCurrent' /\ Due(read', pageWalk) = {}
        BY <3>1, <3>2, <3>3, <3>4 DEF ListWay, AnswersAreCurrent, Due, Allows
      <3>6. /\ read.start \in Nat /\ read.end \in Nat /\ read.raw \subseteq 1 .. top /\ read.items \subseteq 1 .. top
            /\ read.got \subseteq 1 .. top /\ read.owed \subseteq Readable /\ read.last \in Nat /\ read.unread \in Nat
        BY DEF HistoryInv, HistoryTypes
      <3>7. read.mode = 0
        BY <3>1 DEF HistoryInv, WalkWay
      <3> QED
        BY <3>1, <3>2, <3>3, <3>5, <3>6, <3>7, LaterStepKeeps
    <2> QED
      BY <2>1, <2>2
  <1>5. ASSUME EndReading PROVE HistoryInv'
    BY <1>1, <1>5 DEF EndReading, Step
  <1>6. ASSUME NEW n \in 0 .. MaxTop, SyncConversation(n) PROVE HistoryInv'
    <2>1. /\ n \in 0 .. top /\ read.kind = "none" /\ UNCHANGED <<top, indexed, tombs, seat, shifts, pageWalk>>
          /\ read' = [NoRead EXCEPT !.kind = "list", !.phase = "listed", !.last = top, !.unread = n]
      BY <1>6 DEF SyncConversation, NoReading, Step
    <2>2. /\ DOMAIN read' = ReadField
          /\ read'.kind = "list" /\ read'.phase = "listed" /\ read'.mode = 0 /\ read'.start = 0 /\ read'.end = 0
          /\ read'.access.cut = 0 /\ read'.raw = {} /\ read'.got = {} /\ read'.items = {}
          /\ read'.owed = {} /\ read'.last = top /\ read'.unread = n
      BY <2>1 DEF NoRead, ReadField
    <2>3. ListWay(read') /\ AnswersAreCurrent' /\ Due(read', pageWalk) = {}
      BY <2>2 DEF ListWay, AnswersAreCurrent, Due
    <2>4. top \in Nat /\ n \in Nat
      BY <2>1 DEF HistoryInv, HistoryTypes
    <2> QED
      BY <2>1, <2>2, <2>3, <2>4, LaterStepKeeps
  <1>7. ASSUME read.kind = "list", UNCHANGED <<top, indexed, tombs, seat, shifts, pageWalk>>,
               NEW phase \in {"done", "bounded"}, NEW access, access.cut \in Nat, NEW n \in Nat,
               read' = [read EXCEPT !.phase = phase, !.access = access, !.unread = n],
               n = 0 \/ (access.cut < read.last /\ n <= read.last - access.cut)
        PROVE HistoryInv'
    <2>1. /\ DOMAIN read' = ReadField
          /\ read'.kind = read.kind /\ read'.phase = phase /\ read'.mode = read.mode /\ read'.start = read.start
          /\ read'.end = read.end /\ read'.access = access /\ read'.raw = read.raw /\ read'.got = read.got
          /\ read'.items = read.items /\ read'.owed = read.owed /\ read'.last = read.last /\ read'.unread = n
      BY <1>7 DEF HistoryInv, HistoryTypes, ReadField
    <2>2. /\ read.start \in Nat /\ read.end \in Nat /\ read.raw \subseteq 1 .. top /\ read.items \subseteq 1 .. top
          /\ read.got \subseteq 1 .. top /\ read.owed \subseteq Readable /\ read.last \in Nat
      BY DEF HistoryInv, HistoryTypes
    <2>3. read.mode = 0
      BY <1>7 DEF HistoryInv, WalkWay
    <2>4. ListWay(read') /\ AnswersAreCurrent' /\ Due(read', pageWalk) = {}
      BY <1>7, <2>1 DEF ListWay, AnswersAreCurrent, Due
    <2> QED
      BY <1>7, <2>1, <2>2, <2>3, <2>4, LaterStepKeeps
  <1>8. read.last \in Nat /\ read.unread \in Nat /\ seat.cut \in Nat /\ read.access.cut \in Nat /\ DOMAIN read = ReadField
    BY DEF HistoryInv, HistoryTypes
  <1>9. ASSUME UnreadAfterJoin PROVE HistoryInv'
    <2>1. CASE ~seat.in
      <3>1. read' = [read EXCEPT !.phase = "done", !.access = read.access, !.unread = 0]
        BY <1>8, <1>9, <2>1 DEF UnreadAfterJoin, Step, ReadField
      <3>2. read.kind = "list" /\ UNCHANGED <<top, indexed, tombs, seat, shifts, pageWalk>>
        BY <1>9, <2>1 DEF UnreadAfterJoin, Step
      <3> QED
        BY <1>7, <1>8, <3>1, <3>2
    <2>2. CASE seat.in
      <3> DEFINE n == OwnUnread(read.unread, read.last, seat.cut)
      <3>1. read' = [read EXCEPT !.phase = "bounded", !.access = GroupHistoryAccess, !.unread = n]
        BY <1>9, <2>2 DEF UnreadAfterJoin, Step
      <3>2. read.kind = "list" /\ UNCHANGED <<top, indexed, tombs, seat, shifts, pageWalk>>
        BY <1>9, <2>2 DEF UnreadAfterJoin, Step
      <3>3. GroupHistoryAccess.cut = seat.cut
        BY DEF GroupHistoryAccess
      <3>4. n \in Nat /\ (n = 0 \/ (seat.cut < read.last /\ n <= read.last - seat.cut))
        BY <1>8 DEF OwnUnread, BoundUnread, SmallerOf
      <3> HIDE DEF n
      <3> QED
        BY <1>7, <1>8, <3>1, <3>2, <3>3, <3>4
    <2> QED
      BY <2>1, <2>2
  <1>10. ASSUME DeletedUnreadCount PROVE HistoryInv'
    <2> DEFINE lost == {s \in tombs : s > read.last - read.unread /\ s <= read.last}
               n == IF read.unread > Cardinality(lost) THEN read.unread - Cardinality(lost) ELSE 0
    <2>1. /\ read' = [read EXCEPT !.phase = "done", !.unread = n]
          /\ read.kind = "list" /\ read.phase = "bounded" /\ UNCHANGED <<top, indexed, tombs, seat, shifts, pageWalk>>
      BY <1>10 DEF DeletedUnreadCount, Step
    <2>2. n \in Nat /\ n <= read.unread
      <3>1. lost \subseteq 1 .. top /\ top \in Nat
        BY DEF HistoryInv, HistoryTypes
      <3> HIDE DEF lost
      <3>2. Cardinality(lost) \in Nat
        BY <3>1, PartOf
      <3> QED
        BY <1>8, <3>2
    <2>3. read.unread = 0 \/ (read.access.cut < read.last /\ read.unread <= read.last - read.access.cut)
      BY <2>1 DEF HistoryInv, ListWay
    <2> HIDE DEF n
    <2>4. read' = [read EXCEPT !.phase = "done", !.access = read.access, !.unread = n]
      BY <1>8, <2>1 DEF ReadField
    <2>5. n = 0 \/ (read.access.cut < read.last /\ n <= read.last - read.access.cut)
      BY <1>8, <2>2, <2>3
    <2> QED
      BY <1>7, <1>8, <2>1, <2>2, <2>4, <2>5
  <1> QED
    BY <1>2, <1>3, <1>4, <1>5, <1>6, <1>9, <1>10

LEMMA SearchPageKeeps ==
  ASSUME HistoryInv, SearchPage
  PROVE  HistoryInv'
  <1> DEFINE found == {s \in Undeleted(read.got) \cap Matching : Older(s, read.before)}
             k == PageSize - Cardinality(read.items)
             last == LastOf(found, k)
             items == read.items \union last
             on == SearchGoesOn(read.more, read.got, items)
             start == Lowest(read.got) - 1
             full == (Cardinality(items) = PageSize)
  <1>1. /\ read.kind = "search" /\ read.phase = "synced" /\ read.phase \in PagePhase
        /\ UNCHANGED <<top, indexed, tombs, seat, shifts, pageWalk>>
        /\ on => read' = [read EXCEPT !.phase = "page", !.items = items, !.pages = @ + 1, !.start = start, !.end = 0,
                                      !.got = {}, !.raw = {}]
        /\ ~on => read' = [read EXCEPT !.phase = "loaded", !.items = items, !.full = full]
    BY DEF SearchPage, Step, PagePhase
  <1>2. /\ Cardinality(read.items) <= PageSize /\ PageSize \in Nat /\ PageSize # 0
        /\ \A i \in read.items : \A g \in read.got : g < i
    BY <1>1, HistoryAssumption DEF HistoryInv, SearchWay
  <1>3. /\ read.items \subseteq 1 .. top /\ read.got \subseteq 1 .. top /\ top \in Nat /\ read.mode = 0
        /\ DOMAIN read = ReadField /\ read.start \in Nat /\ read.end \in Nat /\ read.access.cut \in Nat
        /\ read.raw \subseteq 1 .. top /\ read.last \in Nat /\ read.unread \in Nat /\ read.owed \subseteq Readable
    BY <1>1 DEF HistoryInv, HistoryTypes, WalkWay
  <1>4. found \subseteq read.got
    BY DEF Undeleted
  <1>5. k \in Nat /\ Cardinality(read.items) \in Nat
    BY <1>2, <1>3, PartOf
  <1>6. last \subseteq found /\ Cardinality(last) <= k /\ (last # found => Cardinality(last) = k)
    <2>1. found \subseteq 1 .. top
      BY <1>3, <1>4
    <2> HIDE DEF found, k
    <2> QED
      BY <2>1, <1>3, <1>5, LastOfIs
  <1>7. Cardinality(items) = Cardinality(read.items) + Cardinality(last) /\ Cardinality(last) \in Nat
    <2>1. IsFiniteSet(read.items) /\ IsFiniteSet(last) /\ Cardinality(last) \in Nat
      <3>1. last \subseteq 1 .. top
        BY <1>3, <1>4, <1>6
      <3> HIDE DEF last
      <3> QED
        BY <1>3, <3>1, PartOf
    <2>2. read.items \cap last = {}
      <3>1. ASSUME NEW i \in read.items, i \in last PROVE FALSE
        <4>1. i \in read.got
          BY <1>4, <1>6, <3>1
        <4>2. i < i /\ i \in Nat
          BY <1>2, <1>3, <4>1
        <4> QED
          BY <4>2
      <3> QED
        BY <3>1
    <2> HIDE DEF last
    <2>3. Cardinality(items) = Cardinality(read.items) + Cardinality(last) - Cardinality(read.items \cap last)
      BY <2>1, FS_Union
    <2>4. Cardinality(read.items \cap last) = 0
      BY <2>2, FS_EmptySet
    <2> HIDE DEF items
    <2> QED
      BY <1>5, <2>1, <2>3, <2>4
  <1>8. Cardinality(items) <= PageSize /\ Cardinality(items) \in Nat /\ (last # found => full)
    <2> HIDE DEF items, last, found
    <2> QED
      BY <1>2, <1>5, <1>6, <1>7
  <1>9. items \subseteq 1 .. top
    BY <1>3, <1>4, <1>6
  <1>10. ASSUME NEW s \in read.owed \cap Matching, read.before = 0, s \notin items
         PROVE  /\ s \in Nat /\ 1 <= s /\ read.end < s
                /\ full \/ (s \notin read.got /\ read.more /\ Beyond(0, read.got, s))
    <2>1. s \in Due(read, pageWalk)
      BY <1>1, <1>10 DEF Due
    <2>2. Reached(read, s)
      BY <2>1 DEF HistoryInv
    <2>3. s \in 1 .. top /\ s \notin tombs
      BY <1>3, <1>10 DEF Readable
    <2>4. CASE s \in read.got
      <3>1. s \in found
        BY <1>10, <2>3, <2>4 DEF Undeleted, Older
      <3> HIDE DEF found, last
      <3>2. last # found
        BY <1>10, <3>1
      <3> QED
        BY <1>1, <1>3, <1>8, <2>2, <2>3, <3>2 DEF Reached
    <2>5. CASE s \notin read.got
      BY <1>1, <1>3, <2>2, <2>3, <2>5 DEF Reached
    <2> QED
      BY <2>4, <2>5
  <1>11. read.got # {} => /\ Lowest(read.got) \in read.got /\ Lowest(read.got) \in Nat
                          /\ \A g \in read.got : Lowest(read.got) <= g
    <2>1. read.got \subseteq Nat
      BY <1>3
    <2> QED
      BY <2>1, LowestIs
  <1>12. on => read.more /\ read.got # {} /\ 1 < Lowest(read.got) /\ Cardinality(items) < PageSize
    <2> HIDE DEF items
    <2> QED
      BY DEF SearchGoesOn
  <1>13. CASE on
    <2>1. /\ DOMAIN read' = ReadField
          /\ read'.kind = "search" /\ read'.phase = "page" /\ read'.mode = 0 /\ read'.start = start /\ read'.end = 0
          /\ read'.access = read.access /\ read'.raw = {} /\ read'.got = {} /\ read'.items = items
          /\ read'.before = read.before /\ read'.owed = read.owed /\ read'.last = read.last
          /\ read'.unread = read.unread
      <3>1. read' = [read EXCEPT !.phase = "page", !.items = items, !.pages = @ + 1, !.start = start, !.end = 0,
                                      !.got = {}, !.raw = {}]
        BY <1>1, <1>13
      <3> HIDE DEF items, start
      <3> QED
        BY <1>1, <1>3, <3>1 DEF ReadField
    <2>2. start \in Nat /\ start # 0
      BY <1>11, <1>12, <1>13
    <2>3. Readable' = Readable
      BY <1>1 DEF Readable
    <2>4. HistoryTypes'
      <3>1. /\ indexed' \subseteq 1 .. top' /\ tombs' \subseteq 1 .. top' /\ DOMAIN seat' = {"open", "in", "cut"}
            /\ seat'.cut \in Nat /\ DOMAIN pageWalk' = {"phase", "mode", "from", "kept", "owed"}
            /\ pageWalk'.mode \in {0, 1} /\ pageWalk'.from \in Nat /\ pageWalk'.owed \subseteq Readable'
        BY <1>1, <2>3 DEF HistoryInv, HistoryTypes
      <3> HIDE DEF items, start
      <3> QED
        BY <1>1, <1>3, <1>9, <2>1, <2>2, <2>3, <3>1 DEF HistoryTypes
    <2>5. PageWay(read') /\ ListWay(read') /\ WalkWay(read', pageWalk')
      <3>1. Cardinality({}) = 0 /\ 0 < PageSize
        BY <1>2, FS_EmptySet
      <3>2. pageWalk'.phase = "over" => pageWalk'.owed \subseteq pageWalk'.kept
        BY <1>1 DEF HistoryInv, WalkWay
      <3> HIDE DEF items, start
      <3> QED
        BY <2>1, <3>1, <3>2 DEF PageWay, ListWay, WalkWay
    <2>6. SearchWay(read')
      <3>1. ASSUME NEW i \in items PROVE start < i
        <4>1. CASE i \in read.items
          <5>1. Lowest(read.got) < i /\ i \in Nat
            BY <1>2, <1>3, <1>11, <1>12, <1>13, <4>1
          <5> QED
            BY <1>11, <1>12, <1>13, <5>1
        <4>2. CASE i \in last
          <5>1. Lowest(read.got) <= i /\ i \in Nat
            BY <1>3, <1>4, <1>6, <1>11, <1>12, <1>13, <4>2
          <5> QED
            BY <1>11, <1>12, <1>13, <5>1
        <4> QED
          BY <3>1, <4>1, <4>2
      <3> HIDE DEF items, start
      <3> QED
        BY <1>8, <2>1, <2>2, <3>1 DEF SearchWay
    <2>7. AnswersAreCurrent'
      BY <2>1 DEF AnswersAreCurrent
    <2>8. ASSUME NEW s \in Due(read', pageWalk') PROVE Reached(read', s)
      <3>1. s \in read.owed \cap Matching /\ read.before = 0 /\ s \notin items
        <4> HIDE DEF items, start
        <4> QED
          BY <2>1, <2>8 DEF Due
      <3>2. ~full
        BY <1>2, <1>8, <1>12, <1>13
      <3>3. s \in Nat /\ 1 <= s /\ Beyond(0, read.got, s)
        BY <1>10, <3>1, <3>2
      <3>4. s < Lowest(read.got)
        BY <1>11, <1>12, <1>13, <3>3 DEF Beyond
      <3>5. s <= start
        BY <1>11, <1>12, <1>13, <3>3, <3>4
      <3> HIDE DEF items, start
      <3> QED
        BY <2>1, <3>3, <3>5 DEF Reached, Ahead, Beyond
    <2> QED
      BY <2>4, <2>5, <2>6, <2>7, <2>8 DEF HistoryInv
  <1>14. CASE ~on
    <2>1. /\ DOMAIN read' = ReadField
          /\ read'.kind = "search" /\ read'.phase = "loaded" /\ read'.mode = 0 /\ read'.start = read.start
          /\ read'.end = read.end /\ read'.pages = read.pages /\ read'.more = read.more
          /\ read'.access = read.access /\ read'.raw = read.raw /\ read'.got = read.got /\ read'.items = items
          /\ read'.before = read.before /\ read'.owed = read.owed /\ read'.last = read.last
          /\ read'.unread = read.unread /\ read'.full = full
      <3>1. read' = [read EXCEPT !.phase = "loaded", !.items = items, !.full = full]
        BY <1>1, <1>14
      <3> HIDE DEF items, full
      <3> QED
        BY <1>1, <1>3, <3>1 DEF ReadField
    <2>2. ASSUME NEW s \in Due(read', pageWalk) PROVE Reached(read', s)
      <3>1. s \in read.owed \cap Matching /\ read.before = 0 /\ s \notin items
        <4> HIDE DEF items, full
        <4> QED
          BY <2>1, <2>2 DEF Due
      <3>2. s \in Nat /\ 1 <= s /\ read.end < s /\ (full \/ (read.more /\ s \notin read.got /\ Beyond(0, read.got, s)))
        BY <1>10, <3>1
      <3>3. full \/ (read.more /\ ~(read.pages < SearchPages))
        <4> SUFFICES ASSUME ~full PROVE read.more /\ ~(read.pages < SearchPages)
          OBVIOUS
        <4>1. read.more /\ Beyond(0, read.got, s)
          BY <3>2
        <4>2. read.got # {}
          BY <1>1, <1>3, <4>1 DEF HistoryInv, PageWay
        <4>3. 1 < Lowest(read.got)
          BY <1>11, <3>2, <4>1, <4>2 DEF Beyond
        <4>4. Cardinality(items) < PageSize
          <5> HIDE DEF items
          <5> QED
            BY <1>2, <1>8
        <4> HIDE DEF items
        <4> QED
          BY <1>14, <4>1, <4>2, <4>3, <4>4 DEF SearchGoesOn
      <3> HIDE DEF items, full
      <3> QED
        BY <2>1, <3>2, <3>3 DEF Reached
    <2>3. ListWay(read') /\ AnswersAreCurrent'
      BY <2>1 DEF ListWay, AnswersAreCurrent
    <2> HIDE DEF items, full, on
    <2> QED
      BY <1>1, <1>3, <1>8, <1>9, <2>1, <2>2, <2>3, LaterStepKeeps
  <1> QED
    BY <1>13, <1>14

LEMMA LastCheckKeeps ==
  ASSUME HistoryInv, filterCurrentGroupHistory
  PROVE  HistoryInv'
  <1> DEFINE now == GroupHistoryAccess
             items == LastCheck(now, read.items)
  <1>1. read.phase = "loaded" /\ read.kind \in {"history", "search"}
    BY DEF filterCurrentGroupHistory
  <1>2. CASE ~seat.in
    <2>1. read' = NoRead /\ UNCHANGED <<top, indexed, tombs, seat, shifts, pageWalk>>
      BY <1>2 DEF filterCurrentGroupHistory, Refused, Step
    <2> QED
      BY <2>1, NothingIsRead DEF HistoryInv, HistoryTypes, WalkWay
  <1>3. CASE seat.in
    <2>1. /\ read' = [read EXCEPT !.phase = "done", !.access = now, !.items = items]
          /\ UNCHANGED <<top, indexed, tombs, seat, shifts, pageWalk>>
      BY <1>3 DEF filterCurrentGroupHistory, Step
    <2>2. items = {s \in read.items \ tombs : Allows(now, s)} /\ now.open = seat.open /\ now.cut = seat.cut
      BY DEF LastCheck, StillVisible, Undeleted, GroupHistoryAccess
    <2> HIDE DEF items, now
    <2>3. /\ DOMAIN read' = ReadField
          /\ read'.kind = read.kind /\ read'.phase = "done" /\ read'.mode = read.mode /\ read'.start = read.start
          /\ read'.end = read.end /\ read'.pages = read.pages /\ read'.more = read.more
          /\ read'.access = now /\ read'.raw = read.raw /\ read'.got = read.got /\ read'.items = items
          /\ read'.before = read.before /\ read'.owed = read.owed /\ read'.last = read.last
          /\ read'.unread = read.unread /\ read'.full = read.full
      BY <2>1 DEF HistoryInv, HistoryTypes, ReadField
    <2>4. /\ read.start \in Nat /\ read.end \in Nat /\ seat.cut \in Nat /\ read.raw \subseteq 1 .. top
          /\ read.got \subseteq 1 .. top /\ read.items \subseteq 1 .. top /\ read.owed \subseteq Readable
          /\ read.last \in Nat /\ read.unread \in Nat /\ top \in Nat
      BY DEF HistoryInv, HistoryTypes
    <2>5. read.mode = 0 /\ (read.kind = "search" => Cardinality(read.items) <= PageSize)
      BY <1>1 DEF HistoryInv, WalkWay, SearchWay
    <2>6. Cardinality(items) <= Cardinality(read.items) /\ Cardinality(items) \in Nat /\ Cardinality(read.items) \in Nat
      <3>1. items \subseteq read.items
        BY <2>2
      <3> QED
        BY <2>4, <3>1, PartOf
    <2>7. read.kind = "search" => Cardinality(items) <= PageSize
      BY <2>5, <2>6, HistoryAssumption
    <2>8. items \subseteq 1 .. top /\ \A s \in items : Allows(now, s)
      BY <2>2, <2>4
    <2>9. ListWay(read') /\ AnswersAreCurrent'
      BY <1>1, <2>3, <2>8 DEF ListWay, AnswersAreCurrent, Allows
    <2>10. ASSUME NEW s \in Due(read', pageWalk) PROVE Reached(read', s)
      <3>1. read.kind = "search" /\ read.before = 0 /\ s \in read.owed \cap Matching /\ s \notin items
        BY <1>1, <2>3, <2>10 DEF Due
      <3>2. Allows(now, s) /\ s \notin tombs
        BY <2>2, <2>4, <3>1 DEF Readable, Allows
      <3>3. s \in Due(read, pageWalk)
        BY <2>2, <3>1, <3>2 DEF Due
      <3>4. Reached(read, s)
        BY <3>3 DEF HistoryInv
      <3> QED
        BY <1>1, <2>3, <3>4 DEF Reached
    <2> QED
      BY <1>1, <2>1, <2>2, <2>3, <2>4, <2>5, <2>7, <2>8, <2>9, <2>10, LaterStepKeeps
  <1> QED
    BY <1>2, <1>3

LEMMA HistoryStep ==
  ASSUME HistoryInv, [HistoryNext]_historyVars
  PROVE  HistoryInv'
  <1>1. top \in Nat /\ indexed \subseteq 1 .. top /\ tombs \subseteq 1 .. top /\ seat.cut \in Nat
        /\ DOMAIN seat = {"open", "in", "cut"}
    BY DEF HistoryInv, HistoryTypes
  <1>2. ASSUME Arrive PROVE HistoryInv'
    <2>1. top' = top + 1 /\ UNCHANGED <<indexed, tombs, seat>> /\ StillOwed
      BY <1>2 DEF Arrive
    <2> QED
      BY <1>1, <2>1, MeanwhileKeeps
  <1>3. ASSUME NEW s, DeleteForEveryone(s) PROVE HistoryInv'
    <2>1. s \in indexed /\ tombs' = tombs \union {s} /\ UNCHANGED <<top, indexed, seat>> /\ StillOwed
      BY <1>3 DEF DeleteForEveryone
    <2> QED
      BY <1>1, <2>1, MeanwhileKeeps
  <1>4. ASSUME SetVisibility \/ Leave \/ JoinAgain PROVE HistoryInv'
    <2>1. UNCHANGED <<top, indexed, tombs>> /\ StillOwed
      BY <1>4 DEF SetVisibility, Leave, JoinAgain, Shift
    <2>2. DOMAIN seat' = {"open", "in", "cut"} /\ seat'.cut \in Nat
      BY <1>1, <1>4 DEF SetVisibility, Leave, JoinAgain, Shift
    <2> QED
      BY <1>1, <2>1, <2>2, MeanwhileKeeps
  <1>5. ASSUME UNCHANGED <<top, tombs, seat, shifts, read, pageWalk>>, indexed' \subseteq 1 .. top PROVE HistoryInv'
    <2>1. Readable' = Readable
      BY <1>5 DEF Readable
    <2>2. HistoryTypes'
      BY <1>5, <2>1 DEF HistoryInv, HistoryTypes
    <2>3. AnswersAreCurrent' = AnswersAreCurrent
      BY <1>5 DEF AnswersAreCurrent
    <2> QED
      BY <1>5, <2>2, <2>3 DEF HistoryInv
  <1>6. ASSUME NEW s, Indexed(s) PROVE HistoryInv'
    BY <1>1, <1>5, <1>6 DEF Indexed
  <1>7. CASE UNCHANGED historyVars
    BY <1>1, <1>5, <1>7 DEF historyVars
  <1>8. ASSUME HistoryNext PROVE HistoryInv'
    BY <1>2, <1>3, <1>4, <1>6, <1>8, AskKeeps, SyncKeeps, RecheckKeeps, FilterKeeps, BeginKeeps, ContinueKeeps,
       GiveUpKeeps, LoadersBegin, SearchPageKeeps, LastCheckKeeps, OtherReadingsKeep
    DEF HistoryNext
  <1> QED
    BY <1>7, <1>8

LEMMA HistoryStarts == HistoryInit => HistoryInv
  <1> SUFFICES ASSUME HistoryInit PROVE HistoryInv
    OBVIOUS
  <1>1. HistoryTypes
    BY DEF HistoryInit, HistoryTypes, NoRead, NoPageWalk, ReadField
  <1>2. PageWay(read) /\ WalkWay(read, pageWalk) /\ SearchWay(read) /\ ListWay(read)
    BY DEF HistoryInit, PageWay, WalkWay, SearchWay, ListWay, NoRead, NoPageWalk
  <1>3. AnswersAreCurrent /\ Due(read, pageWalk) = {}
    BY DEF HistoryInit, AnswersAreCurrent, Due, NoRead
  <1> QED
    BY <1>1, <1>2, <1>3 DEF HistoryInv

LEMMA HistorySays == HistoryInv => HistorySafety
  <1> SUFFICES ASSUME HistoryInv PROVE HistorySafety
    OBVIOUS
  <1>1. WalkComplete
    BY DEF WalkComplete, HistoryInv, WalkWay, PageWay
  <1>2. SearchComplete
    <2> SUFFICES ASSUME read.phase = "done", read.kind = "search", read.before = 0, ~read.full,
                        read.pages < SearchPages \/ ~read.more, NEW s \in read.owed \cap Matching
                 PROVE  s \in read.items
      BY DEF SearchComplete
    <2>1. s \notin read.items => Reached(read, s)
      BY DEF HistoryInv, Due
    <2> QED
      BY <2>1 DEF Reached
  <1>3. NoForeignUnread
    <2> SUFFICES ASSUME read.phase = "done", read.kind = "list", read.unread > 0
                 PROVE  read.unread <= Cardinality({s \in 1 .. read.last : s > read.access.cut})
      BY DEF NoForeignUnread
    <2> DEFINE n == read.last
               c == read.access.cut
    <2>1. n \in Nat /\ c \in Nat /\ read.unread \in Nat
      BY DEF HistoryInv, HistoryTypes
    <2>2. c < n /\ read.unread <= n - c
      BY <2>1 DEF HistoryInv, ListWay
    <2>3. {s \in 1 .. n : s > c} = (c + 1) .. n
      BY <2>1
    <2>4. Cardinality((c + 1) .. n) = n - c
      <3>1. c + 1 \in Int /\ n \in Int /\ c + 1 <= n
        BY <2>1, <2>2
      <3> HIDE DEF n, c
      <3>2. Cardinality((c + 1) .. n) = IF c + 1 > n THEN 0 ELSE n - (c + 1) + 1
        BY <3>1, FS_Interval
      <3> QED
        BY <2>1, <2>2, <3>1, <3>2
    <2> QED
      BY <2>2, <2>3, <2>4
  <1> QED
    BY <1>1, <1>2, <1>3 DEF HistorySafety, HistoryInv

\* Whatever arrives, is deleted, opened, closed, left or joined between the
\* reads and calls of a request: a walk that followed its pages to the end holds
\* what was visible all the while, a search that came to the end found its
\* matches, no answer shows what the last reading forbids, and no unread count
\* reaches back before the member joined.
THEOREM HistoryStaysTrue == HistorySpec => []HistorySafety
  <1>1. HistoryInv /\ [HistoryNext]_historyVars => HistoryInv'
    BY HistoryStep
  <1> QED
    BY HistoryStarts, <1>1, HistorySays, PTL DEF HistorySpec
=============================================================================
