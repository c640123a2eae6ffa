---------------------------- MODULE FriendGraph ----------------------------
(***************************************************************************)
(* Friend requests, friendships and blocks (im_friend_requests,            *)
(* im_friendships, im_blocks) under READ COMMITTED transactions.           *)
(*                                                                         *)
(* A transaction that reads a table first and writes later is two steps    *)
(* here, and others commit in between.  What keeps them apart is exactly   *)
(* what the code locks: creating and deleting take an advisory lock on the *)
(* pair, accepting takes the row of the request, blocking takes the rows   *)
(* it deletes and waits for the rows it cancels, and nothing else.  A      *)
(* transaction may fail at any time and leaves nothing behind.             *)
(***************************************************************************)
EXTENDS Naturals, FiniteSets

CONSTANTS
    User,
    Request,    \* ids of friend requests
    Tx,         \* transactions that may be under way at the same time
    None        \* the user of an idle transaction

ASSUME FriendAssumption == None \notin User

VARIABLES
    friends,    \* friends: the rows <<user_id, friend_user_id>>
    blocks,     \* blocks: the rows <<user_id, blocked_user_id>>
    from, to,   \* from[r], to[r]: who asks whom
    answer,
    due,        \* due[r]: expires_at has passed
    tx          \* tx[p]: what transaction p has read and locked so far

graphVars == <<friends, blocks, from, to, answer, due, tx>>

Resolved == {"accepted", "rejected", "cancelled", "expired"}
AnswerStatus == {"none", "pending"} \union Resolved

\* rows: the requests whose rows a transaction has locked; doomed: the
\* friendships it has deleted.
NoTx == [kind |-> "idle", user |-> None, target |-> None, rows |-> {}, doomed |-> {}]

FriendInit ==
    /\ friends = {}
    /\ blocks = {}
    /\ from = [r \in Request |-> None]
    /\ to = [r \in Request |-> None]
    /\ answer = [r \in Request |-> "none"]
    /\ due = [r \in Request |-> FALSE]
    /\ tx = [p \in Tx |-> NoTx]
---------------------------------------------------------------------------
Pair(u, v) == {<<u, v>>, <<v, u>>}
Between(u, v) == {r \in Request : <<from[r], to[r]>> \in Pair(u, v)}
Pending(u, v) == {r \in Between(u, v) : answer[r] = "pending"}

\* The advisory lock on the pair, and the row lock on a request.
PairLocked(u, v) ==
    \E p \in Tx : tx[p].kind \in {"create", "insert"}
                  /\ <<tx[p].user, tx[p].target>> \in Pair(u, v)
RowLocked(r) == \E p \in Tx : r \in tx[p].rows

\* Friendship rows a block under way has deleted but not committed.
RowsDoomed(u, v) == \E p \in Tx : tx[p].doomed \intersect Pair(u, v) # {}

StartTx(p, kind, u, v, rows, doomed) ==
    /\ tx[p] = NoTx
    /\ tx' = [tx EXCEPT ![p] = [kind |-> kind, user |-> u, target |-> v,
                                rows |-> rows, doomed |-> doomed]]
Commit(p) == tx' = [tx EXCEPT ![p] = NoTx]

Resolve(S, s) == answer' = [r \in Request |-> IF r \in S THEN s ELSE answer[r]]
---------------------------------------------------------------------------
\* A plausible slip: two requests about one pair are not kept apart.
CreateUnlocked(p, u, v) ==
    /\ u # v
    /\ blocks \intersect Pair(u, v) = {}
    /\ <<u, v>> \notin friends
    /\ StartTx(p, "create", u, v, {}, {})
    /\ UNCHANGED <<friends, blocks, from, to, answer, due>>

\* CreateFriendRequest locks the pair and reads blocks and friendships ...
CreateBegin(p, u, v) ==
    /\ u # v
    /\ ~PairLocked(u, v)
    /\ blocks \intersect Pair(u, v) = {}
    /\ <<u, v>> \notin friends
    /\ StartTx(p, "create", u, v, {}, {})
    /\ UNCHANGED <<friends, blocks, from, to, answer, due>>

\* ... what is due between the two expires; a request of the same user that is
\* still open is returned as it is (one of the other user is a conflict: the
\* transaction rolls back) ...
Expiring(u, v) == {q \in Pending(u, v) : due[q]}
CreateRead(p) ==
    LET u == tx[p].user
        v == tx[p].target
        expiring == Expiring(u, v)
        open == Pending(u, v) \ expiring
    IN  /\ tx[p].kind = "create"
        /\ \A q \in expiring : ~RowLocked(q)
        /\ \/ /\ open # {} /\ \A q \in open : from[q] = u
              /\ Resolve(expiring, "expired")
              /\ Commit(p)
           \/ /\ open = {}
              /\ tx' = [tx EXCEPT ![p] = [kind |-> "insert", user |-> u, target |-> v,
                                          rows |-> expiring, doomed |-> {}]]
              /\ UNCHANGED answer
        /\ UNCHANGED <<friends, blocks, from, to, due>>

\* ... and the new request is inserted.
CreateEnd(p, r) ==
    /\ tx[p].kind = "insert"
    /\ answer[r] = "none"
    /\ from' = [from EXCEPT ![r] = tx[p].user]
    /\ to' = [to EXCEPT ![r] = tx[p].target]
    /\ answer' = [q \in Request |-> IF q \in tx[p].rows THEN "expired"
                                    ELSE IF q = r THEN "pending" ELSE answer[q]]
    /\ Commit(p)
    /\ UNCHANGED <<friends, blocks, due>>

\* Reject, cancel, and any transition of a request that is due: one row under
\* its lock.
Answer(r) ==
    /\ answer[r] = "pending" /\ ~RowLocked(r)
    /\ \E s \in IF due[r] THEN {"expired"} ELSE {"rejected", "cancelled"} : Resolve({r}, s)
    /\ UNCHANGED <<friends, blocks, from, to, due, tx>>

\* Accept: the row is locked and the blocks are read ...
AcceptBegin(p, r) ==
    /\ answer[r] = "pending" /\ ~due[r] /\ ~RowLocked(r)
    /\ blocks \intersect Pair(from[r], to[r]) = {}
    /\ StartTx(p, "accept", from[r], to[r], {r}, {})
    /\ UNCHANGED <<friends, blocks, from, to, answer, due>>

\* ... then both friendship rows and the status are written.
AcceptEnd(p) ==
    /\ tx[p].kind = "accept"
    /\ ~RowsDoomed(tx[p].user, tx[p].target)
    /\ friends' = friends \union Pair(tx[p].user, tx[p].target)
    /\ Resolve(tx[p].rows, "accepted")
    /\ Commit(p)
    /\ UNCHANGED <<blocks, from, to, due>>

DeleteFriend(u, v) ==
    /\ ~PairLocked(u, v)
    /\ ~RowsDoomed(u, v)
    /\ friends \intersect Pair(u, v) # {}
    /\ friends' = friends \ Pair(u, v)
    /\ UNCHANGED <<blocks, from, to, answer, due, tx>>

\* SetFriendBlock(true): the block is inserted and the friendship rows there
\* are at this moment are deleted ...
BlockBegin(p, u, v) ==
    /\ u # v
    /\ ~RowsDoomed(u, v)
    /\ ~\E q \in Tx : tx[q].kind = "block" /\ <<tx[q].user, tx[q].target>> = <<u, v>>
    /\ StartTx(p, "block", u, v, {}, friends \intersect Pair(u, v))
    /\ UNCHANGED <<friends, blocks, from, to, answer, due>>

\* ... then the pending requests are cancelled, once nobody holds their rows.
BlockEnd(p) ==
    /\ tx[p].kind = "block"
    /\ \A r \in Pending(tx[p].user, tx[p].target) : ~RowLocked(r)
    /\ blocks' = blocks \union {<<tx[p].user, tx[p].target>>}
    /\ friends' = friends \ tx[p].doomed
    /\ Resolve(Pending(tx[p].user, tx[p].target), "cancelled")
    /\ Commit(p)
    /\ UNCHANGED <<from, to, due>>

Unblock(u, v) ==
    /\ <<u, v>> \in blocks
    /\ blocks' = blocks \ {<<u, v>>}
    /\ UNCHANGED <<friends, from, to, answer, due, tx>>

\* DeleteAccount: what was open is cancelled, friendships and blocks go.  A name
\* in User then stands for a new account.
DeleteAccount(u) ==
    LET open == {r \in Request : answer[r] = "pending" /\ u \in {from[r], to[r]}} IN
    /\ \A r \in open : ~RowLocked(r)
    /\ \A v \in User : ~RowsDoomed(u, v)
    /\ Resolve(open, "cancelled")
    /\ friends' = {e \in friends : u \notin {e[1], e[2]}}
    /\ blocks' = {b \in blocks : u \notin {b[1], b[2]}}
    /\ UNCHANGED <<from, to, due, tx>>

\* The timeout worker: a batch of due requests nobody has locked.
ExpireFriendRequests ==
    /\ \E S \in SUBSET {r \in Request : answer[r] = "pending" /\ due[r] /\ ~RowLocked(r)} :
          S # {} /\ Resolve(S, "expired")
    /\ UNCHANGED <<friends, blocks, from, to, due, tx>>

\* A database error, a deadlock or a time limit.
RollBack(p) ==
    /\ tx[p] # NoTx
    /\ Commit(p)
    /\ UNCHANGED <<friends, blocks, from, to, answer, due>>

\* The clock reaches expires_at.
BecomesDue(r) ==
    /\ answer[r] # "none" /\ ~due[r]
    /\ due' = [due EXCEPT ![r] = TRUE]
    /\ UNCHANGED <<friends, blocks, from, to, answer, tx>>

FriendNext ==
    \/ \E p \in Tx, u, v \in User : CreateBegin(p, u, v) \/ BlockBegin(p, u, v)
    \/ \E p \in Tx, r \in Request : CreateEnd(p, r) \/ AcceptBegin(p, r)
    \/ \E p \in Tx : CreateRead(p) \/ AcceptEnd(p) \/ BlockEnd(p) \/ RollBack(p)
    \/ \E r \in Request : Answer(r) \/ BecomesDue(r)
    \/ \E u, v \in User : DeleteFriend(u, v) \/ Unblock(u, v)
    \/ \E u \in User : DeleteAccount(u)
    \/ ExpireFriendRequests

FriendSpec == FriendInit /\ [][FriendNext]_graphVars
---------------------------------------------------------------------------
Work == [kind : {"idle", "create", "insert", "accept", "block"},
         user : User \union {None}, target : User \union {None},
         rows : SUBSET Request, doomed : SUBSET (User \X User)]

FriendTypeOK ==
    /\ friends \subseteq User \X User
    /\ blocks \subseteq User \X User
    /\ from \in [Request -> User \union {None}]
    /\ to \in [Request -> User \union {None}]
    /\ answer \in [Request -> AnswerStatus]
    /\ due \in [Request -> BOOLEAN]
    /\ tx \in [Tx -> Work]

\* Two users never have two open requests, not even crossing ones, although
\* several requests of both arrive at once and others expire.
OnePending ==
    \A q, r \in Request :
        answer[q] = "pending" /\ answer[r] = "pending"
            /\ <<from[q], to[q]>> \in Pair(from[r], to[r])
        => q = r

\* Friendship goes both ways or not at all, whatever accepts, deletions and
\* blocks of either side cross.
Mutual == \A e \in friends : <<e[2], e[1]>> \in friends

\* A request that was accepted, rejected, cancelled or has expired is never
\* answered again, by nobody who saw it pending before.
ResolvedForever ==
    [][\A r \in Request : answer[r] \in Resolved => answer'[r] = answer[r]]_graphVars

\* Users one of whom blocks the other are not friends and have no request
\* open (the expectations of postgres_integration_test.go after a block).
BlockSeparates ==
    \A b \in blocks : b \notin friends /\ Pending(b[1], b[2]) = {}

\* The promise of the friend graph: requests, answers, blocks and deletions keep
\* to the three in every state, and an answer is final.
FriendKept == [](FriendTypeOK /\ OnePending /\ Mutual) /\ ResolvedForever
===========================================================================
