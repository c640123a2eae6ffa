---------------------------- MODULE UserAccess ----------------------------
(***************************************************************************)
(* Who may write to whom, in two systems.  PostgreSQL has the friendships, *)
(* the blocks and the system users; WuKongIM has an allow and a deny list  *)
(* per user and one list of system users.  Every change enqueues an outbox *)
(* row in its transaction, and the worker performs it with one to three    *)
(* calls; the users page of the reconciler rewrites both lists of a user   *)
(* from a snapshot it read for a whole page.                               *)
(*                                                                         *)
(* EXTENDS WukongOutbox: Execute is replaced by the calls of the row, the  *)
(* other actions are used as they are.  A change is one step here; how     *)
(* their transactions interleave is the subject of FriendGraph.            *)
(***************************************************************************)
EXTENDS WukongOutbox, Sequences

CONSTANTS
    MaxUser,    \* users are 1..MaxUser, in the order of their ids
    PageSize,   \* users of one reconciler page (r.batch)
    Actor,      \* bound: the users who make and break ties
    Candidate,  \* bound: the users who may become system users or be deleted
    MaxDrop     \* bound: pages that fail or are lost with their process

ASSUME AccessAssumption ==
    MaxUser \in Nat \ {0} /\ PageSize \in Nat \ {0} /\ MaxDrop \in Nat
    /\ Actor \subseteq 1..MaxUser /\ Candidate \subseteq 1..MaxUser

User == 1..MaxUser

\* The operations of friends and system users, as the payload of a row.
AccessOp ==
    [kind : {"allow", "remove", "block", "unblock"}, user : User, friend : User]
      \union [kind : {"system_add", "system_remove"}, user : User, friend : {0}]

\* Every row of the table is one of these.
ASSUME RowsAreOfAccess == Op = AccessOp

VARIABLES
    friends,    \* im_friendships: pairs, in both directions
    blocks,     \* im_blocks: <<who, whom>>
    systems,    \* im_wukong_system_users WHERE enabled
    deleted,    \* accounts with deleted_at
    allow,      \* allow[u]: WuKongIM's allow list of u's personal channel
    deny,       \* deny[u]: its deny list
    sysuids,    \* WuKongIM's system users
    calls,      \* calls[w]: calls of w's current row that have succeeded
    cursor,     \* r.userCursor
    page,       \* the snapshots the running page still has to write
    half,       \* SetAllowlist of the page's first user has been done
    drops,      \* pages dropped so far
    overtaken   \* a change was committed while a page was held (history)

dbVars     == <<friends, blocks, systems, deleted>>
imVars     == <<allow, deny, sysuids>>
pageVars   == <<cursor, page, half, drops>>
accessVars == <<outboxVars, dbVars, imVars, calls, pageVars, overtaken>>

FriendsOf(u) == {v \in User : <<u, v>> \in friends}
BlockedBy(u) == {v \in User : <<u, v>> \in blocks}
Both(u, v)   == {<<u, v>>, <<v, u>>}

AccessInit ==
    /\ OutboxInit
    /\ friends = {} /\ blocks = {} /\ systems = {} /\ deleted = {}
    /\ allow = [u \in User |-> {}] /\ deny = [u \in User |-> {}] /\ sysuids = {}
    /\ calls = [w \in Worker |-> 0]
    /\ cursor = 0 /\ page = <<>> /\ half = FALSE /\ drops = 0
    /\ overtaken = FALSE
---------------------------------------------------------------------------
Ask(kind, u, v) ==
    /\ Enqueue([kind |-> kind, user |-> u, friend |-> v])
    /\ overtaken' = (overtaken \/ page # <<>>)
    /\ UNCHANGED <<imVars, calls, pageVars>>

\* A pending request is accepted; nobody of the two may block the other.
Befriend(u, v) ==
    /\ u # v /\ {u, v} \cap deleted = {}
    /\ <<u, v>> \notin friends
    /\ Both(u, v) \cap blocks = {}
    /\ friends' = friends \union Both(u, v)
    /\ Ask("allow", u, v)
    /\ UNCHANGED <<blocks, systems, deleted>>

Unfriend(u, v) ==
    /\ <<u, v>> \in friends
    /\ friends' = friends \ Both(u, v)
    /\ Ask("remove", u, v)
    /\ UNCHANGED <<blocks, systems, deleted>>

\* Blocking again is allowed and enqueues again, whatever changed.
Block(u, v) ==
    /\ u # v
    /\ blocks' = blocks \union {<<u, v>>}
    /\ friends' = friends \ Both(u, v)
    /\ Ask("block", u, v)
    /\ UNCHANGED <<systems, deleted>>

UnblockUser(u, v) ==
    /\ u # v
    /\ blocks' = blocks \ {<<u, v>>}
    /\ Ask("unblock", u, v)
    /\ UNCHANGED <<friends, systems, deleted>>

\* A deleted account is banned, so it cannot be enabled (or disabled) again.
SetWukongSystemUser(u, enabled) ==
    /\ u \notin deleted
    /\ systems' = IF enabled THEN systems \union {u} ELSE systems \ {u}
    /\ Ask(IF enabled THEN "system_add" ELSE "system_remove", u, 0)
    /\ UNCHANGED <<friends, blocks, deleted>>

\* Deleting an account drops its friendships and blocks without a row for
\* them; only a system user's removal is enqueued.
DropAccount(u) ==
    /\ u \notin deleted
    /\ deleted' = deleted \union {u}
    /\ friends' = {p \in friends : u \notin {p[1], p[2]}}
    /\ blocks' = {p \in blocks : u \notin {p[1], p[2]}}
    /\ systems' = systems \ {u}
    /\ IF u \in systems
         THEN Ask("system_remove", u, 0)
         ELSE /\ overtaken' = (overtaken \/ page # <<>>)
              /\ UNCHANGED <<outboxVars, imVars, calls, pageVars>>
---------------------------------------------------------------------------
Call(list, add, at, who) == [list |-> list, add |-> add, at |-> at, who |-> who]

\* A plausible slip: the friend keeps the blocker in its allow list.
CallsForgetFriend(o) ==
    IF o.kind \in {"allow", "remove"}
      THEN <<Call("allow", o.kind = "allow", o.user, o.friend)>>
    ELSE IF o.kind = "block"
      THEN <<Call("deny", TRUE, o.user, o.friend)>>
    ELSE <<Call("deny", FALSE, o.user, o.friend)>>

\* The calls a row makes, in this order.
CallsOf(o) ==
    LET mine(add)   == Call("allow", add, o.user, o.friend)
        theirs(add) == Call("allow", add, o.friend, o.user)
        denied(add) == Call("deny", add, o.user, o.friend)
    IN IF o.kind = "allow" THEN <<mine(TRUE), theirs(TRUE)>>
       ELSE IF o.kind = "remove" THEN <<mine(FALSE), theirs(FALSE)>>
       ELSE IF o.kind = "block" THEN <<denied(TRUE), mine(FALSE), theirs(FALSE)>>
       ELSE IF o.kind = "unblock" THEN <<denied(FALSE)>>
       ELSE <<Call("system", o.kind = "system_add", 0, o.user)>>

\* The effect of one call.
LandCall(c) ==
    LET with(s) == IF c.add THEN s \union {c.who} ELSE s \ {c.who}
    IN /\ allow' = IF c.list = "allow" THEN [allow EXCEPT ![c.at] = with(@)] ELSE allow
       /\ deny'  = IF c.list = "deny" THEN [deny EXCEPT ![c.at] = with(@)] ELSE deny
       /\ sysuids' = IF c.list = "system" THEN with(sysuids) ELSE sysuids

CurrentCall(w, i) == CallsOf(op[i])[calls[w] + 1]
IsLast(w, i)      == calls[w] + 1 = Len(CallsOf(op[i]))

\* A call succeeds: the next one follows, or the row is done.
CallSucceeds(w) ==
    \E i \in Row :
        /\ IsCurrent(w, i) /\ outcome[w] = "none"
        /\ LandCall(CurrentCall(w, i))
        /\ IF IsLast(w, i)
             THEN /\ outcome' = [outcome EXCEPT ![w] = "ok"]
                  /\ performed' = performed \union {i}
                  /\ calls' = [calls EXCEPT ![w] = 0]
             ELSE /\ calls' = [calls EXCEPT ![w] = @ + 1]
                  /\ UNCHANGED <<outcome, performed>>
        /\ UNCHANGED <<op, status, leased, backoff, batch, faults, dbVars, pageVars, overtaken>>

\* A call fails, refused (4xx) or to be retried; in the second case it may have
\* had its effect.  The calls after it are not made.
CallFailsAs(w, results) ==
    \E i \in Row, result \in results, landed \in BOOLEAN :
        /\ IsCurrent(w, i) /\ outcome[w] = "none"
        /\ faults < MaxFault
        /\ faults' = faults + 1
        /\ landed => result # "rejected"
        /\ IF landed THEN LandCall(CurrentCall(w, i)) ELSE UNCHANGED imVars
        /\ performed' = IF landed /\ IsLast(w, i) THEN performed \union {i} ELSE performed
        /\ outcome' = [outcome EXCEPT ![w] = result]
        /\ calls' = [calls EXCEPT ![w] = 0]
        /\ UNCHANGED <<op, status, leased, backoff, batch, dbVars, pageVars, overtaken>>

\* A plausible slip: the error of a later call is dropped.
CallFailsSilently(w) == CallFailsAs(w, {"ok"})

CallFails(w) == CallFailsAs(w, {"retry", "rejected"})

AbandonCalls(w) ==
    /\ Abandon(w)
    /\ calls' = [calls EXCEPT ![w] = 0]
    /\ UNCHANGED <<dbVars, imVars, pageVars, overtaken>>

\* The steps of the outbox that touch nothing else.
OutboxStep ==
    /\ \/ \E w \in Worker : ClaimWukongOutbox(w) \/ Record(w)
       \/ \E i \in Row : LeaseExpires(i) \/ BackoffElapses(i)
    /\ UNCHANGED <<dbVars, imVars, calls, pageVars, overtaken>>
---------------------------------------------------------------------------
\* ORDER BY id LIMIT PageSize, of the accounts that exist.
Listed ==
    {u \in User \ deleted : /\ u > cursor
                            /\ Cardinality({v \in User \ deleted : v > cursor /\ v < u}) < PageSize}

\* The snapshots of a set of users, in id order, as the query returns them.
Snapshot(us) ==
    [k \in 1..Cardinality(us) |->
        LET u == CHOOSE x \in us : Cardinality({y \in us : y < x}) = k - 1
        IN [user |-> u, allow |-> FriendsOf(u), deny |-> BlockedBy(u)]]

\* A plausible slip: a page that comes back short leaves the cursor where it is.
ListUsersStops ==
    /\ page = <<>>
    /\ page' = Snapshot(Listed)
    /\ half' = FALSE
    /\ UNCHANGED <<outboxVars, dbVars, imVars, calls, cursor, drops, overtaken>>

\* The reconciler reads a page; when none is left the next cycle starts from
\* the first user again (the code ends at a short page, without an empty one).
ListWukongUserAccess ==
    /\ page = <<>>
    /\ page' = Snapshot(Listed)
    /\ half' = FALSE
    /\ cursor' = IF Listed = {} THEN 0 ELSE cursor
    /\ UNCHANGED <<outboxVars, dbVars, imVars, calls, drops, overtaken>>

\* SetAllowlist, then SetDenylist, of the next user of the page.
WriteList ==
    /\ page # <<>>
    /\ LET s == Head(page) IN
       IF ~half
         THEN /\ allow' = [allow EXCEPT ![s.user] = s.allow]
              /\ half' = TRUE
              /\ UNCHANGED <<deny, cursor, page>>
         ELSE /\ deny' = [deny EXCEPT ![s.user] = s.deny]
              /\ half' = FALSE
              /\ page' = Tail(page)
              /\ cursor' = s.user
              /\ UNCHANGED allow
    /\ UNCHANGED <<outboxVars, dbVars, sysuids, calls, drops, overtaken>>

\* A failed call, or a restart, ends the page where it is; the next one reads
\* again behind the cursor (from the start, if the process is a new one).
DropPage ==
    /\ page # <<>>
    /\ drops < MaxDrop
    /\ drops' = drops + 1
    /\ page' = <<>>
    /\ half' = FALSE
    /\ cursor' \in {cursor, 0}
    /\ UNCHANGED <<outboxVars, dbVars, imVars, calls, overtaken>>
---------------------------------------------------------------------------
AccessNext ==
    \/ \E u \in Actor, v \in User : \/ Befriend(u, v) \/ Unfriend(u, v)
                                     \/ Block(u, v) \/ UnblockUser(u, v)
    \/ \E u \in Candidate : \/ SetWukongSystemUser(u, TRUE) \/ SetWukongSystemUser(u, FALSE)
                            \/ DropAccount(u)
    \/ \E w \in Worker : CallSucceeds(w) \/ CallFails(w) \/ AbandonCalls(w)
    \/ OutboxStep
    \/ ListWukongUserAccess \/ WriteList \/ DropPage

AccessSpec == AccessInit /\ [][AccessNext]_accessVars

AccessFairness ==
    /\ WF_accessVars(ListWukongUserAccess) /\ WF_accessVars(WriteList)
    /\ \A w \in Worker :
         /\ WF_accessVars(ClaimWukongOutbox(w) /\ OutboxStep)
         /\ WF_accessVars(CallSucceeds(w))
         /\ WF_accessVars(Record(w) /\ OutboxStep)
    /\ \A i \in Row : /\ WF_accessVars(LeaseExpires(i) /\ OutboxStep)
                      /\ WF_accessVars(BackoffElapses(i) /\ OutboxStep)

FairAccessSpec == AccessSpec /\ AccessFairness
---------------------------------------------------------------------------
AccessTypeOK ==
    /\ friends \subseteq User \X User /\ blocks \subseteq User \X User
    /\ systems \subseteq User /\ deleted \subseteq User
    /\ allow \in [User -> SUBSET User] /\ deny \in [User -> SUBSET User]
    /\ sysuids \subseteq User
    /\ calls \in [Worker -> 0..2]
    /\ cursor \in 0..MaxUser /\ Len(page) <= PageSize
    /\ half \in BOOLEAN /\ drops \in 0..MaxDrop /\ overtaken \in BOOLEAN

ListsAgree ==
    \A u \in User \ deleted : allow[u] = FriendsOf(u) /\ deny[u] = BlockedBy(u)

\* Nothing is outstanding, nothing failed, no row was performed out of turn, no
\* account vanished and no page was overtaken by a change.
AccessQuiet ==
    /\ \A i \in Row : status[i] \in {"absent", "completed"}
    /\ faults = 0 /\ deleted = {} /\ ~overtaken /\ page = <<>>

\* The rows alone keep WuKongIM right: however changes of one pair, their calls
\* and pages of the reconciler interleave, when all is done both systems have
\* the same friends, blocks and system users.
QuietAccessAgrees == AccessQuiet => ListsAgree /\ sysuids = systems

\* Retries that overtake later rows, refused rows, pages overtaken by changes
\* and deletions without a row leave wrong lists, but the reconciler makes the
\* lists of every account right in the end.
EventuallyAccessAgrees == <>[]ListsAgree

\* Performing a row by several calls is still what the outbox does: every step
\* is one of WukongOutbox, or none.
PerformsLikeOutbox == OutboxSpec

\* The lists and cursors have their values, and what is quiet agrees.
AccessSafety == AccessTypeOK /\ QuietAccessAgrees

\* With its several calls, the worker still performs every row before the row
\* is completed, settles it once and loses none.
RowsKeepPromise ==
    /\ PerformsLikeOutbox /\ DeliversAtLeastOnce
    /\ [](OutboxTypeOK /\ CompletedWasPerformed) /\ SettledForever
===========================================================================
