--------------------------- MODULE BusinessChannels ---------------------------
(***************************************************************************)
(* Communities and their topics.  A topic is a channel of its own: members *)
(* of the community become its members when it is created and when they    *)
(* join later, and leave it with the community.  Memberships may be for a  *)
(* time; WuKongIM's subscribers are replaced by reconcile rows.  Member    *)
(* actions read the roles in the statement that waits for the lock of the  *)
(* channel row; a topic being created holds a share of its community's     *)
(* row from its insertion (the foreign key) to its commit.                 *)
(* A second part is slow mode: who may send to a channel and how often.    *)
(***************************************************************************)
EXTENDS Naturals, FiniteSets

CONSTANTS
    Community, Topic,       \* a community and the topics created in it
    Member, Founder,        \* users and the owner of the community
    Banned,                 \* users banned in im_users
    Caller,                 \* concurrent member actions
    Sender,                 \* concurrent decisions about sends
    Never,                  \* no expiry
    SlowMode,               \* the seconds a channel asks for
    MaxBizClock, MaxUpdates \* bounds on time and on requests

ASSUME BusinessAssumption ==
    /\ Founder \in Member /\ Banned \subseteq Member \ {Founder} /\ Community \notin Topic
    /\ SlowMode \in Nat \ {0} /\ MaxBizClock \in Nat /\ MaxUpdates \in Nat /\ Never \notin Nat

VARIABLES
    bizClock,
    roll,           \* im_members: [role, until] by channel and user
    stands,         \* each channel's row: "absent", "live" or "disbanded"
    joinOpen,       \* channels whose join policy is open
    updates,        \* requests so far
    forming,        \* topics being created
    pending,        \* member actions that have read roles and wait for the lock
    reconcileDue,   \* channels with a reconcile row
    subscribers,    \* WuKongIM's subscribers
    should,         \* ghost: what the community's history says of each topic's members
    slow, operators,\* slow mode of a channel, the senders who are its operators
    barredNow,      \* senders denied, muted or banned there
    sends,          \* decisions about sends
    lastSent,       \* im_business_channel_send_state
    accepted        \* ghost: times of sends accepted while slow mode was on

Channel == Topic \union {Community}
NoRow == [role |-> "none", until |-> Never]
rollVars == <<roll, stands, joinOpen, updates, forming, pending, reconcileDue, subscribers, should>>
slowVars == <<slow, operators, barredNow, sends, lastSent, accepted>>
bizVars == <<bizClock, rollVars, slowVars>>

Lasts(row, at) == row.role # "none" /\ (row.until = Never \/ row.until > at)
RoleAt(c, u, at) == IF Lasts(roll[c][u], at) THEN roll[c][u].role ELSE "none"
businessChannelOperator(role) == role \in {"owner", "admin"}
Idle == [kind |-> "none"]
Unformed == [step |-> "none"]

BizInit ==
    /\ bizClock = 1
    /\ \E role \in [Member -> {"none", "member", "admin", "owner"}] :
         /\ \A u \in Member : role[u] = "owner" <=> u = Founder
         /\ roll = [c \in Channel |-> [u \in Member |->
                     IF c = Community THEN [role |-> role[u], until |-> Never] ELSE NoRow]]
         /\ \/ reconcileDue = {Community} /\ subscribers = [c \in Channel |-> {}]
            \/ reconcileDue = {} /\ subscribers = [c \in Channel |-> IF c = Community
                                       THEN {u \in Member : role[u] # "none"} ELSE {}]
    /\ stands = [c \in Channel |-> IF c = Community THEN "live" ELSE "absent"]
    /\ joinOpen = Channel /\ updates = 0
    /\ forming = [t \in Topic |-> Unformed] /\ pending = [k \in Caller |-> Idle]
    /\ should = [t \in Topic |-> [u \in Member |-> "free"]]
    /\ slow \in {0, SlowMode} /\ operators = {} /\ barredNow = {}
    /\ sends = [s \in Sender |-> Idle] /\ lastSent = [u \in Member |-> 0] /\ accepted = [u \in Member |-> {}]

BizTick == bizClock < MaxBizClock /\ bizClock' = bizClock + 1 /\ UNCHANGED <<rollVars, slowVars>>

(***************************************************************************)
(* Creating a topic.                                                       *)
(***************************************************************************)
\* The actor must be available and an operator of the community that is not disbanded.
CreateBusinessChannel(t, actor) ==
    /\ forming[t] = Unformed /\ stands[t] = "absent" /\ stands[Community] = "live"
    /\ actor \notin Banned /\ businessChannelOperator(RoleAt(Community, actor, bizClock))
    /\ forming' = [forming EXCEPT ![t] = [step |-> "checked", by |-> actor, at |-> bizClock]]
    /\ UNCHANGED <<bizClock, roll, stands, joinOpen, updates, pending, reconcileDue, subscribers, should, slowVars>>

\* The insertion of the topic's row takes the share of the community's row.
InsertTopic(t) ==
    /\ forming[t].step = "checked"
    /\ forming' = [forming EXCEPT ![t].step = "inserted"]
    /\ UNCHANGED <<bizClock, roll, stands, joinOpen, updates, pending, reconcileDue, subscribers, should, slowVars>>

\* A plausible slip: no reference from the topic to its community.
HoldsNothing(t) == FALSE
HoldsParent(t) == forming[t].step \in {"inserted", "seeded"}

Seeded(u, by, at) ==
    LET row == roll[Community][u]
    IN IF ~Lasts(row, at) THEN NoRow
       ELSE [row EXCEPT !.role = IF u = by THEN "owner" ELSE IF row.role = "owner" THEN "admin" ELSE row.role]

SeedTopic(t) ==
    /\ forming[t].step = "inserted"
    /\ forming' = [forming EXCEPT ![t] =
         [step |-> "seeded", rows |-> [u \in Member |-> Seeded(u, forming[t].by, forming[t].at)]]]
    /\ UNCHANGED <<bizClock, roll, stands, joinOpen, updates, pending, reconcileDue, subscribers, should, slowVars>>

CommitTopic(t) ==
    /\ forming[t].step = "seeded"
    /\ roll' = [roll EXCEPT ![t] = forming[t].rows]
    /\ stands' = [stands EXCEPT ![t] = "live"] /\ reconcileDue' = reconcileDue \union {t}
    /\ forming' = [forming EXCEPT ![t] = Unformed]
    /\ should' = [should EXCEPT ![t] = [u \in Member |->
         IF Lasts(roll[Community][u], bizClock) THEN "in" ELSE IF @[u] = "in" THEN "free" ELSE @[u]]]
    /\ UNCHANGED <<bizClock, joinOpen, updates, pending, subscribers, slowVars>>

(***************************************************************************)
(* Member actions.                                                         *)
(***************************************************************************)
\* Decided on the roles read before the wait and on the join policies of open.
Permitted(p, open) ==
    LET operator == businessChannelOperator(p.actorRole)
        ordinary == p.targetRole \in {"admin", "member"}
    IN CASE p.kind \in {"subscribe", "add"} -> operator \/ (p.kind = "subscribe" /\ p.chan \in open)
         [] p.kind \in {"unsubscribe", "remove"} -> ordinary /\ (p.actor = p.target \/ operator)
         [] p.kind = "promote" -> p.actorRole = "owner" /\ ordinary
         [] p.kind = "expiry" -> operator /\ ordinary

\* What a caller may ask: requests name the actor, or act for the owner when an
\* administrator of the platform makes them; one update at a time.
\* Requests that will be refused change nothing and are left out.
SelfOnly(kind) == kind \in {"subscribe", "unsubscribe"}
Expiries(kind) == {Never} \union IF kind \in {"subscribe", "add", "expiry"} THEN {bizClock + 1} ELSE {}

Request(kind, c, actor, target, until) ==
    [kind |-> kind, chan |-> c, actor |-> actor, target |-> target, until |-> until,
     actorRole |-> RoleAt(c, actor, bizClock), targetRole |-> RoleAt(c, target, bizClock)]

ApplyBusinessChannelMember(k, kind, c, actor, target, until) ==
    LET request == Request(kind, c, actor, target, until)
    IN /\ pending[k] = Idle /\ stands[c] = "live" /\ updates < MaxUpdates /\ updates' = updates + 1
       /\ SelfOnly(kind) => actor = target
       /\ until \in Expiries(kind)
       /\ Permitted(request, Channel)
       /\ pending' = [pending EXCEPT ![k] = request]
       /\ UNCHANGED <<bizClock, roll, stands, joinOpen, forming, reconcileDue, subscribers, should, slowVars>>

\* What becomes of the target's row in the channel itself.
RowAfter(p, row) ==
    CASE p.kind \in {"subscribe", "add"} /\ p.targetRole = "none" /\ p.target \notin Banned -> [role |-> "member", until |-> p.until]
      [] p.kind \in {"unsubscribe", "remove"} -> NoRow
      [] p.kind = "promote" /\ row.role # "none" -> [row EXCEPT !.role = "admin"]
      [] p.kind = "expiry" /\ row.role # "none" -> [row EXCEPT !.until = p.until]
      [] OTHER -> row

\* What a community's action does to the target's row in topic t: rows are
\* inserted into the topics that are not disbanded whoever the target is, and
\* for one that is there already only the expiry is replaced.
InheritedRow(p, t, row) ==
    CASE p.kind \in {"subscribe", "add"} /\ stands[t] = "live" ->
           IF row.role = "none" THEN [role |-> "member", until |-> p.until] ELSE [row EXCEPT !.until = p.until]
      [] p.kind \in {"unsubscribe", "remove"} /\ row.role # "owner" -> NoRow
      [] p.kind = "expiry" /\ row.role \notin {"none", "owner"} -> [row EXCEPT !.until = p.until]
      [] OTHER -> row

DueAfter(c) == IF c = Community THEN {c} \union {t \in Topic : stands[t] # "absent"} ELSE {c}

Expected(p, t, now) ==
    CASE p.chan = Community /\ p.kind \in {"subscribe", "add"} -> IF stands[t] = "live" THEN "in" ELSE "free"
      [] p.chan = Community /\ p.kind \in {"unsubscribe", "remove"} -> "out"
      [] p.chan = t /\ p.kind \in {"subscribe", "add", "unsubscribe", "remove"} -> "free"
      [] OTHER -> now

\* A channel disbanded meanwhile is not found; nothing happens to a user who is
\* not a member when asked to be removed.
ApplyBusinessChannelMemberAction(k) ==
    LET p == pending[k]
    IN /\ p # Idle /\ (p.chan = Community => \A t \in Topic : ~HoldsParent(t))
       /\ pending' = [pending EXCEPT ![k] = Idle]
       /\ IF stands[p.chan] = "live" /\ Permitted(p, joinOpen)
          THEN /\ roll' = [c \in Channel |-> [roll[c] EXCEPT ![p.target] =
                     CASE c = p.chan -> RowAfter(p, @)
                       [] p.chan = Community /\ c # Community -> InheritedRow(p, c, @)
                       [] OTHER -> @]]
               /\ should' = [t \in Topic |-> [should[t] EXCEPT ![p.target] = Expected(p, t, @)]]
               /\ reconcileDue' = reconcileDue \union DueAfter(p.chan)
          ELSE UNCHANGED <<roll, should, reconcileDue>>
       /\ UNCHANGED <<bizClock, stands, joinOpen, updates, forming, subscribers, slowVars>>

\* Operators change the settings; only the owner disbands, and a disbanded
\* channel may be opened again.
UpdateBusinessChannel(c, actor) ==
    /\ updates < MaxUpdates /\ updates' = updates + 1
    /\ stands[c] # "absent" /\ (c = Community => \A t \in Topic : ~HoldsParent(t))
    /\ businessChannelOperator(RoleAt(c, actor, bizClock))
    /\ \/ joinOpen' \in {joinOpen \union {c}, joinOpen \ {c}} /\ UNCHANGED stands
       \/ RoleAt(c, actor, bizClock) = "owner" /\ stands' = [stands EXCEPT ![c] = "disbanded"] /\ UNCHANGED joinOpen
       \/ stands[c] = "disbanded" /\ stands' = [stands EXCEPT ![c] = "live"] /\ UNCHANGED joinOpen
    /\ reconcileDue' = reconcileDue \union {c}
    /\ UNCHANGED <<bizClock, roll, forming, pending, subscribers, should, slowVars>>

(***************************************************************************)
(* Memberships that run out, and WuKongIM's copy.                          *)
(***************************************************************************)
ExpiredChannels(cs) == cs

ExpireBusinessChannelMemberships ==
    LET due(c) == {u \in Member : roll[c][u].role # "none" /\ ~Lasts(roll[c][u], bizClock)}
    IN /\ \E c \in Channel : due(c) # {}
       /\ roll' = [c \in Channel |-> [u \in Member |-> IF u \in due(c) THEN NoRow ELSE roll[c][u]]]
       /\ should' = [t \in Topic |-> [u \in Member |->
            IF should[t][u] # "in" THEN should[t][u]
            ELSE IF u \in due(t) THEN "out" ELSE IF u \in due(Community) THEN "gone" ELSE "in"]]
       /\ reconcileDue' = reconcileDue \union ExpiredChannels({c \in Channel : due(c) # {}})
       /\ UNCHANGED <<bizClock, stands, joinOpen, updates, forming, pending, subscribers, slowVars>>

\* The reconcile row's snapshot holds the members whose time has not run out.
loadBusinessChannelSnapshot(c) == {u \in Member : Lasts(roll[c][u], bizClock)}

ReconcileBusinessChannel(c) ==
    /\ c \in reconcileDue /\ reconcileDue' = reconcileDue \ {c}
    /\ subscribers' = [subscribers EXCEPT ![c] = loadBusinessChannelSnapshot(c)]
    /\ UNCHANGED <<bizClock, roll, stands, joinOpen, updates, forming, pending, should, slowVars>>

(***************************************************************************)
(* Sending.                                                                *)
(***************************************************************************)
AskToSend(s, u) ==
    /\ sends[s] = Idle
    /\ sends' = [sends EXCEPT ![s] = [kind |-> "send", by |-> u, at |-> bizClock]]
    /\ UNCHANGED <<bizClock, rollVars, slow, operators, barredNow, lastSent, accepted>>

FarEnough(last, at) == last = 0 \/ last <= at - slow

AuthorizeBusinessChannelSend(s) ==
    LET q == sends[s]
        limited == slow > 0 /\ q.by \notin operators
    IN /\ q # Idle /\ sends' = [sends EXCEPT ![s] = Idle]
       /\ IF q.by \notin barredNow /\ limited /\ FarEnough(lastSent[q.by], q.at)
          THEN /\ lastSent' = [lastSent EXCEPT ![q.by] = q.at]
               /\ accepted' = [accepted EXCEPT ![q.by] = @ \union {q.at}]
          ELSE UNCHANGED <<lastSent, accepted>>
       /\ UNCHANGED <<bizClock, rollVars, slow, operators, barredNow>>

\* Slow mode, roles, mutes and the lists of allowed and denied users change.
ChangeSlowMode ==
    /\ updates < MaxUpdates /\ updates' = updates + 1
    /\ slow' = SlowMode - slow
    /\ UNCHANGED <<bizClock, roll, stands, joinOpen, forming, pending, reconcileDue, subscribers, should, operators, barredNow, sends, lastSent, accepted>>

ApplyBusinessChannelAccess(u) ==
    /\ updates < MaxUpdates /\ updates' = updates + 1
    /\ \/ barredNow' \in {barredNow \union {u}, barredNow \ {u}} /\ UNCHANGED operators
       \/ operators' \in {operators \union {u}, operators \ {u}} /\ UNCHANGED barredNow
    /\ UNCHANGED <<bizClock, roll, stands, joinOpen, forming, pending, reconcileDue, subscribers, should, slow, sends, lastSent, accepted>>

RollNext ==
    \/ \E t \in Topic : (\E a \in Member : CreateBusinessChannel(t, a)) \/ InsertTopic(t) \/ SeedTopic(t) \/ CommitTopic(t)
    \/ \E k \in Caller, kind \in {"subscribe", "add", "unsubscribe", "remove", "promote", "expiry"}, c \in Channel,
          a, u \in Member, until \in {Never, bizClock + 1} : ApplyBusinessChannelMember(k, kind, c, a, u, until)
    \/ \E k \in Caller : ApplyBusinessChannelMemberAction(k)
    \/ \E c \in Channel, a \in Member : UpdateBusinessChannel(c, a)
    \/ ExpireBusinessChannelMemberships \/ \E c \in Channel : ReconcileBusinessChannel(c)
SlowNext ==
    \/ \E s \in Sender : (\E u \in Member : AskToSend(s, u)) \/ AuthorizeBusinessChannelSend(s)
    \/ ChangeSlowMode \/ \E u \in Member : ApplyBusinessChannelAccess(u)
BizNext == BizTick \/ RollNext \/ SlowNext

\* The expiry loop and the outbox workers run for ever; requests in progress end.
BizFairness ==
    /\ WF_bizVars(BizTick) /\ WF_bizVars(ExpireBusinessChannelMemberships)
    /\ \A c \in Channel : WF_bizVars(ReconcileBusinessChannel(c))
    /\ \A t \in Topic : WF_bizVars(InsertTopic(t) \/ SeedTopic(t) \/ CommitTopic(t))
BizSpec == BizInit /\ [][BizNext]_bizVars /\ BizFairness

-----------------------------------------------------------------------------
\* Memberships, channels, what is due and the subscribers have their types.
BizTypeOK ==
    /\ roll \in [Channel -> [Member -> [role : {"none", "member", "admin", "owner"}, until : {Never} \union Nat]]]
    /\ stands \in [Channel -> {"absent", "live", "disbanded"}] /\ reconcileDue \subseteq Channel
    /\ subscribers \in [Channel -> SUBSET Member]

\* Who joined the community, or was in it when a topic was created, is in the
\* topic, and who left it is in no topic but one of his own, unless he joined
\* or left the topic itself since (postgres_business_channels.go:113, :413):
\* creation and member actions exclude each other through the community's row.
TopicsFollow ==
    \A t \in Topic : stands[t] # "absent" => \A u \in Member :
        /\ should[t][u] = "in" => roll[t][u].role # "none"
        /\ should[t][u] = "out" => roll[t][u].role \in {"none", "owner"}

\* Community membership is inherited by every topic: one that has run out does
\* not outlive the community's in a topic joined only through it.  It does not
\* hold: adding a temporary member again without an end renews his topics alone.
TopicsExpireToo ==
    \A t \in Topic, u \in Member : should[t][u] = "gone" =>
        roll[t][u].role \in {"none", "owner"} \/ (roll[t][u].until # Never /\ roll[t][u].until <= bizClock)

\* While slow mode is on, sends accepted from one plain member are as far apart
\* as it asks, though their times are taken before the row is locked.
SlowModeKept == \A u \in Member : \A x, y \in accepted[u] : x < y => y - x >= SlowMode

\* In the end WuKongIM's subscribers are the members whose time has not run out,
\* in the topics too, whatever joins, removals and expiries came together.
EventuallySubscribed ==
    <>[](\A c \in Channel : stands[c] # "absent" => subscribers[c] = loadBusinessChannelSnapshot(c))

\* Topics follow their community and slow mode is kept.
ChannelsKept == TopicsFollow /\ SlowModeKept
=============================================================================
