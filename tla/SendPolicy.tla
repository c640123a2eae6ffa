------------------------------ MODULE SendPolicy ------------------------------
(***************************************************************************)
(* The decision whether a user may send a message: WuKongIM asks before it *)
(* accepts a message of a client, the server's own transport asks the same *)
(* questions.  The reads are separate statements, so friendships, blocks,  *)
(* membership and the group's rate limit may change between them.  The     *)
(* rate of a group counts sends in a sliding window, under a key that      *)
(* carries the version of the limit.                                       *)
(***************************************************************************)
EXTENDS Naturals, FiniteSets

CONSTANTS
    Ask,        \* messages of one user
    Limit,      \* rate limits an administrator sets, 0 for none
    Window,     \* a minute
    MaxTime, MaxVersion   \* bounds

ASSUME PolicyAssumption ==
    Limit \subseteq Nat /\ 0 \in Limit /\ Window \in Nat \ {0} /\ MaxTime \in Nat /\ MaxVersion \in Nat \ {0}

VARIABLES
    clock,
    friendly, barred,   \* im_friendships and im_blocks of the user and a peer
    standing,           \* role of the user in the group, or "barred": out, muted or banned
    limitOf,            \* limits set so far, one for each version
    ask,                \* each message's decision
    hits,               \* the Redis sets: times of counted sends, by version
    retryAt                \* when a refused member may send again, by version

policyVars == <<clock, friendly, barred, standing, limitOf, ask, hits, retryAt>>

Version == DOMAIN limitOf
CurrentVersion == Cardinality(Version)
NoAsk == [step |-> "new", version |-> 0]

PolicyInit ==
    /\ clock = 1 /\ friendly \in BOOLEAN /\ barred = FALSE /\ standing = "member"
    /\ limitOf \in [{1} -> Limit]
    /\ ask = [q \in Ask |-> NoAsk]
    /\ hits = [v \in 1 .. MaxVersion |-> {}] /\ retryAt = [v \in 1 .. MaxVersion |-> 0]

(***************************************************************************)
(* The others: each of these is one transaction.                           *)
(***************************************************************************)
MakeFriends ==
    /\ ~friendly /\ ~barred /\ friendly' = TRUE
    /\ UNCHANGED <<clock, barred, standing, limitOf, ask, hits, retryAt>>

BlockPeer ==
    /\ ~barred /\ barred' = TRUE /\ friendly' = FALSE
    /\ UNCHANGED <<clock, standing, limitOf, ask, hits, retryAt>>

UnblockPeer ==
    /\ barred /\ barred' = FALSE
    /\ UNCHANGED <<clock, friendly, standing, limitOf, ask, hits, retryAt>>

ChangeStanding ==
    /\ standing' \in {"member", "admin", "barred"} \ {standing}
    /\ UNCHANGED <<clock, friendly, barred, limitOf, ask, hits, retryAt>>

LimitAdded(old, new) ==
    [v \in 1 .. Cardinality(DOMAIN old) + 1 |-> IF v \in DOMAIN old THEN old[v] ELSE new]

\* A setting that changes nothing keeps the version.
SetRateLimit(limit) ==
    /\ limit # limitOf[CurrentVersion] /\ CurrentVersion < MaxVersion
    /\ limitOf' = LimitAdded(limitOf, limit)
    /\ UNCHANGED <<clock, friendly, barred, standing, ask, hits, retryAt>>

PolicyTick ==
    /\ clock < MaxTime /\ clock' = clock + 1
    /\ UNCHANGED <<friendly, barred, standing, limitOf, ask, hits, retryAt>>

(***************************************************************************)
(* One decision.                                                           *)
(***************************************************************************)
AskAt(q, step) == ask[q].step = step
AskTo(q, step) == ask' = [ask EXCEPT ![q].step = step]
Unmoved == UNCHANGED <<clock, friendly, barred, standing, limitOf, hits, retryAt>>

\* What the payload alone forbids is refused before anything is read; commands
\* and other content of the server may not come from a client.
ParsePayload(q) ==
    /\ AskAt(q, "new")
    /\ \E next \in {"peer", "group", "refused"} : AskTo(q, next)
    /\ Unmoved

\* A plausible slip: the friendship is read first.
FriendsFirst(step) == CASE step = "peer" -> "friends" [] step = "friends" -> "blocks" [] step = "blocks" -> "routed"
NextRead(step) == CASE step = "peer" -> "blocks" [] step = "blocks" -> "friends" [] step = "friends" -> "routed"

\* The peer is the other member of the conversation.
ReadPeer(q) == AskAt(q, "peer") /\ AskTo(q, NextRead("peer")) /\ Unmoved

ReadBlocks(q) ==
    /\ AskAt(q, "blocks")
    /\ AskTo(q, IF barred THEN "refused" ELSE NextRead("blocks"))
    /\ Unmoved

ReadFriendship(q) ==
    /\ AskAt(q, "friends")
    /\ AskTo(q, IF friendly THEN NextRead("friends") ELSE "refused")
    /\ Unmoved

\* One statement reads membership, role, mutes and the limit with its version;
\* owners and administrators have no limit.
ReadStanding(q) ==
    /\ AskAt(q, "group")
    /\ IF standing = "barred" THEN AskTo(q, "refused")
       ELSE ask' = [ask EXCEPT ![q] = [step |-> "content",
                                       version |-> IF standing = "admin" THEN 0 ELSE CurrentVersion]]
    /\ Unmoved

\* Mentions, denied words, the replied message, and the medium or moment referred to.
ReadContent(q) ==
    /\ AskAt(q, "content")
    /\ \E next \in {"rate", "refused"} : AskTo(q, next)
    /\ Unmoved

Used(v) == {t \in hits[v] : t + Window > clock}

\* The times are milliseconds apart, so a set of times counts the sends.
Limited(q) == ask[q].version # 0 /\ limitOf[ask[q].version] # 0
OldestHit(v) == CHOOSE t \in Used(v) : \A s \in Used(v) : t <= s

\* The script runs alone in Redis: it prunes, counts, and adds or refuses.
ConsumeGroupMessageRate(q) ==
    LET v == ask[q].version IN
    /\ AskAt(q, "rate")
    /\ IF ~Limited(q) THEN AskTo(q, "bind") /\ UNCHANGED <<hits, retryAt>>
       ELSE IF Cardinality(Used(v)) >= limitOf[v]
       THEN AskTo(q, "limited") /\ retryAt' = [retryAt EXCEPT ![v] = OldestHit(v) + Window] /\ UNCHANGED hits
       ELSE /\ clock \notin hits[v]
            /\ AskTo(q, "bind") /\ hits' = [hits EXCEPT ![v] = @ \cup {clock}]
            /\ retryAt' = [retryAt EXCEPT ![v] = 0]
    /\ UNCHANGED <<clock, friendly, barred, standing, limitOf>>

\* A binding that fails after the count refuses the message and gives nothing back.
BindAndAllow(q) ==
    /\ AskAt(q, "bind")
    /\ \E next \in {"allowed", "refused"} : AskTo(q, next)
    /\ Unmoved

DecideDirect(q) == ReadPeer(q) \/ ReadBlocks(q) \/ ReadFriendship(q)
DecideGroup(q) == ReadStanding(q) \/ ReadContent(q) \/ ConsumeGroupMessageRate(q) \/ BindAndAllow(q)

PeersMove == MakeFriends \/ BlockPeer \/ UnblockPeer
GroupMoves == ChangeStanding \/ PolicyTick \/ \E limit \in Limit : SetRateLimit(limit)

PolicyNext ==
    \/ PeersMove \/ GroupMoves
    \/ \E q \in Ask : ParsePayload(q) \/ DecideDirect(q) \/ DecideGroup(q)

PolicySpec == PolicyInit /\ [][PolicyNext]_policyVars

(***************************************************************************)
(* Properties.                                                             *)
(***************************************************************************)
\* A direct message is routed only while the two are friends and neither blocks
\* the other, though the two are read one after the other: a block ends the
\* friendship, so the later read sees it.
RoutedBetweenFriends ==
    [][\A q \in Ask : ask'[q].step = "routed" /\ ~AskAt(q, "routed") => friendly /\ ~barred]_policyVars

\* In no window does a member send more than the limit a version stands for,
\* though decisions are under way while the limit changes and each counts
\* against the limit it has read.
RateKept ==
    \A v \in Version : limitOf[v] # 0 =>
        \A t \in hits[v] : Cardinality({s \in hits[v] : t <= s /\ s < t + Window}) <= limitOf[v]

\* A member who is refused and waits as long as the answer says is not refused
\* again under that limit.
RefusedOnlyUntilTold ==
    [][\A q \in Ask : ask'[q].step = "limited" /\ ~AskAt(q, "limited")
           => clock < retryAt[ask[q].version] \/ retryAt[ask[q].version] = 0]_policyVars

\* Decisions under way while friendship, standing and limits change keep to the
\* three.
PolicyKept == []RateKept /\ RoutedBetweenFriends /\ RefusedOnlyUntilTold
=============================================================================
