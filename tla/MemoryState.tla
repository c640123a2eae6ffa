------------------------------ MODULE MemoryState ------------------------------
(***************************************************************************)
(* Accounts, friends and groups as the process keeps them in memory        *)
(* (a.state) when there is no database: every request is one step under    *)
(* a.mu, and what holds between the maps is kept by each request alone.    *)
(* A request may be one of a user whose account was deleted meanwhile:     *)
(* authentication is not under the lock.                                   *)
(***************************************************************************)
EXTENDS Naturals, FiniteSets

CONSTANTS
    MemUser,           \* user ids
    Phone, Handle,
    MemAsk,               \* ids of friend requests
    MemRoom,              \* ids of conversations
    Blank              \* no phone, no handle, no room, nobody

ASSUME MemoryStateAssumption == Blank \notin MemUser \union Phone \union Handle \union MemRoom

VARIABLES
    erased,     \* the accounts with DeletedAt
    phone,      \* phone[u], Blank before registration and once anonymous
    byPhone,    \* PhoneToUser
    handle,     \* handle[u], Blank for a generated one
    renamed,    \* renamed[u]: HandleChangeCount
    mate,       \* Friends: the pairs <<user, friend>>
    block,      \* Blocks: the pairs <<user, blocked>>
    asking,     \* FriendRequests
    kind,       \* kind[c]: Conversations; "gone" once deleted
    rank,       \* rank[c]: Members, a function on the members
    hushed,     \* hushed[c]: the members that are muted
    directIndex \* DirectIndex, by pair

accountVars == <<erased, phone, byPhone, handle, renamed>>
friendVars == <<mate, block, asking>>
roomVars == <<kind, rank, hushed, directIndex>>
memStateVars == <<accountVars, friendVars, roomVars>>

Pairs == {P \in SUBSET MemUser : Cardinality(P) = 2}
Unasked == [from |-> Blank, to |-> Blank, st |-> "none", due |-> FALSE]

MemoryStateInit ==
    /\ erased = {} /\ phone = [u \in MemUser |-> Blank] /\ byPhone = [n \in Phone |-> Blank]
    /\ handle = [u \in MemUser |-> Blank] /\ renamed = [u \in MemUser |-> 0]
    /\ mate = {} /\ block = {} /\ asking = [r \in MemAsk |-> Unasked]
    /\ kind = [c \in MemRoom |-> "none"] /\ rank = [c \in MemRoom |-> <<>>]
    /\ hushed = [c \in MemRoom |-> {}] /\ directIndex = [P \in Pairs |-> Blank]

\* a.state.Users[u] # nil, which a deleted account still is.
Known(u) == u \in erased \/ phone[u] # Blank

\* LoginWithCreation, RegisterWithPassword
MemoryRegister(u, n) ==
    /\ ~Known(u) /\ byPhone[n] = Blank
    /\ phone' = [phone EXCEPT ![u] = n] /\ byPhone' = [byPhone EXCEPT ![n] = u]
    /\ UNCHANGED <<erased, handle, renamed, friendVars, roomVars>>

MoveNumber(u, n) == [m \in Phone |-> IF m = n THEN u ELSE IF m = phone[u] THEN Blank ELSE byPhone[m]]

UpdateUserPhone(u, n) ==
    /\ Known(u) /\ byPhone[n] \in {Blank, u}
    /\ byPhone' = MoveNumber(u, n) /\ phone' = [phone EXCEPT ![u] = n]
    /\ UNCHANGED <<erased, handle, renamed, friendVars, roomVars>>

\* The handle of a profile; writing the one that is there does not count.
UpdateUserHandle(u, h) ==
    /\ Known(u) /\ h # handle[u] /\ renamed[u] < 2 /\ \A v \in MemUser \ {u} : handle[v] # h
    /\ handle' = [handle EXCEPT ![u] = h] /\ renamed' = [renamed EXCEPT ![u] = @ + 1]
    /\ UNCHANGED <<erased, phone, byPhone, friendVars, roomVars>>
-----------------------------------------------------------------------------
Both(u, v) == {<<u, v>>, <<v, u>>}
WithoutUser(S, u) == {e \in S : u \notin {e[1], e[2]}}

MemoryRequest(r, u, v) ==
    /\ u # v /\ Known(v) /\ block \intersect Both(u, v) = {} /\ asking[r].st = "none"
    /\ ~\E q \in MemAsk : asking[q].from = u /\ asking[q].to = v /\ asking[q].st = "pending"
    /\ asking' = [asking EXCEPT ![r] = [from |-> u, to |-> v, st |-> "pending", due |-> FALSE]]
    /\ UNCHANGED <<mate, block, accountVars, roomVars>>

StillAsked(r) == asking[r].st = "pending"

\* TransitionFriendRequest of the one asked, or of the one who asks.
MemoryAnswer(r, s) ==
    /\ StillAsked(r)
    /\ asking' = [asking EXCEPT ![r].st = IF asking[r].due THEN "expired" ELSE s]
    /\ mate' = IF s = "accepted" /\ ~asking[r].due THEN mate \union Both(asking[r].from, asking[r].to) ELSE mate
    /\ UNCHANGED <<block, accountVars, roomVars>>

BothSides(u, v) == Both(u, v)

MemoryBlock(u, v) ==
    /\ u # v /\ Known(v) /\ block' = block \union {<<u, v>>} /\ mate' = mate \ BothSides(u, v)
    /\ UNCHANGED <<asking, accountVars, roomVars>>
MemoryUnblock(u, v) ==
    /\ Known(v) /\ block' = block \ {<<u, v>>} /\ UNCHANGED <<mate, asking, accountVars, roomVars>>
MemoryUnfriend(u, v) ==
    /\ <<u, v>> \in mate /\ mate' = mate \ BothSides(u, v) /\ UNCHANGED <<block, asking, accountVars, roomVars>>

RequestDue(r) ==
    /\ StillAsked(r) /\ ~asking[r].due /\ asking' = [asking EXCEPT ![r].due = TRUE]
    /\ UNCHANGED <<mate, block, accountVars, roomVars>>
-----------------------------------------------------------------------------
In(c) == DOMAIN rank[c]
MayManage(c, u) == u \in In(c) /\ rank[c][u] \in {"owner", "admin"}
Owns(c, u) == u \in In(c) /\ rank[c][u] = "owner"
Kept(c, S) == [u \in S |-> rank[c][u]]
Joining(c, S) == [u \in In(c) \union S |-> IF u \in In(c) THEN rank[c][u] ELSE "member"]

DirectConversation(u, v, c) ==
    /\ u # v /\ Known(v) /\ block \intersect Both(u, v) = {} /\ directIndex[{u, v}] = Blank /\ kind[c] = "none"
    /\ kind' = [kind EXCEPT ![c] = "direct"] /\ rank' = [rank EXCEPT ![c] = [x \in {u, v} |-> "member"]]
    /\ directIndex' = [directIndex EXCEPT ![{u, v}] = c]
    /\ UNCHANGED <<hushed, accountVars, friendVars>>

MemoryCreateGroup(u, S, c) ==
    /\ kind[c] = "none" /\ kind' = [kind EXCEPT ![c] = "group"]
    /\ rank' = [rank EXCEPT ![c] = [x \in {u} \union {v \in S : Known(v)} |-> IF x = u THEN "owner" ELSE "member"]]
    /\ UNCHANGED <<hushed, directIndex, accountVars, friendVars>>

MemoryAddMembers(u, c, S) ==
    /\ kind[c] = "group" /\ MayManage(c, u)
    /\ rank' = [rank EXCEPT ![c] = Joining(c, {v \in S : Known(v)})]
    /\ UNCHANGED <<kind, hushed, directIndex, accountVars, friendVars>>

\* A plausible slip: who may remove others may remove anyone.
NobodyIsSafe(c, v) == FALSE
Untouchable(c, v) == Owns(c, v)

Expel(c, v) ==
    /\ v \in In(c) /\ ~Untouchable(c, v)
    /\ rank' = [rank EXCEPT ![c] = Kept(c, In(c) \ {v})] /\ hushed' = [hushed EXCEPT ![c] = @ \ {v}]
    /\ UNCHANGED <<kind, directIndex, accountVars, friendVars>>
Promote(c, v, r) ==
    /\ v \in In(c) /\ ~Untouchable(c, v) /\ rank' = [rank EXCEPT ![c][v] = r]
    /\ UNCHANGED <<kind, hushed, directIndex, accountVars, friendVars>>
Silence(c, v, on) ==
    /\ v \in In(c) /\ ~Untouchable(c, v)
    /\ hushed' = [hushed EXCEPT ![c] = IF on THEN @ \union {v} ELSE @ \ {v}]
    /\ UNCHANGED <<kind, rank, directIndex, accountVars, friendVars>>

\* RemoveGroupMember does not ask what kind of conversation it is.
MemoryRemoveMember(u, c, v) == u \in In(c) /\ (u = v \/ MayManage(c, u)) /\ Expel(c, v)
MemorySetRole(u, c, v, r) == Owns(c, u) /\ Promote(c, v, r)
MemoryMute(u, c, v, on) ==
    /\ MayManage(c, u) /\ v \in In(c) /\ (rank[c][u] = "admin" => rank[c][v] # "admin") /\ Silence(c, v, on)

AdminModerateGroupMember(c, v) ==
    /\ kind[c] = "group"
    /\ \/ Expel(c, v)
       \/ \E r \in {"member", "admin"} : Promote(c, v, r)
       \/ \E on \in BOOLEAN : Silence(c, v, on)

IsGroupRoom(c) == kind[c] = "group"

MemoryDisband(c) ==
    /\ IsGroupRoom(c) /\ kind' = [kind EXCEPT ![c] = "gone"] /\ rank' = [rank EXCEPT ![c] = <<>>]
    /\ hushed' = [hushed EXCEPT ![c] = {}] /\ UNCHANGED <<directIndex, accountVars, friendVars>>
-----------------------------------------------------------------------------
MemoryDeleteAccount(u) ==
    /\ Known(u) /\ u \notin erased /\ \A c \in MemRoom : kind[c] = "group" => ~Owns(c, u)
    /\ erased' = erased \union {u}
    /\ phone' = [phone EXCEPT ![u] = Blank] /\ byPhone' = [n \in Phone |-> IF n = phone[u] THEN Blank ELSE byPhone[n]]
    /\ handle' = [handle EXCEPT ![u] = Blank] /\ renamed' = [renamed EXCEPT ![u] = 2]
    /\ asking' = [r \in MemAsk |-> IF StillAsked(r) /\ u \in {asking[r].from, asking[r].to} THEN [asking[r] EXCEPT !.st = "cancelled"] ELSE asking[r]]
    /\ mate' = WithoutUser(mate, u) /\ block' = WithoutUser(block, u)
    /\ rank' = [c \in MemRoom |-> Kept(c, In(c) \ {u})] /\ hushed' = [c \in MemRoom |-> hushed[c] \ {u}]
    /\ UNCHANGED <<kind, directIndex>>

AccountRequests ==
    \E u \in MemUser :
       \/ \E n \in Phone : MemoryRegister(u, n) \/ UpdateUserPhone(u, n)
       \/ \E h \in Handle : UpdateUserHandle(u, h)
       \/ MemoryDeleteAccount(u)
FriendRequests ==
    \/ \E r \in MemAsk, s \in {"accepted", "rejected", "cancelled"} : MemoryAnswer(r, s)
    \/ \E r \in MemAsk : RequestDue(r)
    \/ \E r \in MemAsk, u, v \in MemUser : Known(u) /\ MemoryRequest(r, u, v)
    \/ \E u, v \in MemUser : Known(u) /\ (MemoryBlock(u, v) \/ MemoryUnblock(u, v) \/ MemoryUnfriend(u, v))
RoomRequests ==
    \E c \in MemRoom, u \in MemUser :
       \/ MemoryDisband(c)
       \/ AdminModerateGroupMember(c, u)
       \/ \E S \in SUBSET MemUser : Known(u) /\ (MemoryCreateGroup(u, S, c) \/ MemoryAddMembers(u, c, S))
       \/ \E v \in MemUser : (Known(u) /\ DirectConversation(u, v, c)) \/ MemoryRemoveMember(u, c, v)
       \/ \E v \in MemUser, r \in {"member", "admin"} : MemorySetRole(u, c, v, r)
       \/ \E v \in MemUser, on \in BOOLEAN : MemoryMute(u, c, v, on)

MemoryStateNext == AccountRequests \/ FriendRequests \/ RoomRequests
MemoryStateSpec == MemoryStateInit /\ [][MemoryStateNext]_memStateVars
-----------------------------------------------------------------------------
\* The index of phone numbers, by which users sign in, and the users agree:
\* whatever registrations, changes of number and deletions follow each other,
\* no number leads to a user who has another one.
PhoneIndexAgrees == \A n \in Phone, u \in MemUser : byPhone[n] = u <=> phone[u] = n

\* Friendship in memory goes both ways or not at all.
MutualInMemory == \A e \in mate : <<e[2], e[1]>> \in mate

\* A group in memory has exactly one owner, who is not muted, whatever members,
\* administrators and deletions of accounts do.
OneOwnerInMemory ==
    \A c \in MemRoom : kind[c] = "group" =>
        \E u \in In(c) : Owns(c, u) /\ u \notin hushed[c] /\ \A v \in In(c) \ {u} : ~Owns(c, v)

\* The conversation the index of a pair leads to is there and is theirs alone:
\* DirectConversation reads it without looking.
DirectIndexed ==
    \A P \in Pairs : directIndex[P] # Blank =>
        /\ kind[directIndex[P]] = "direct" /\ In(directIndex[P]) \subseteq P
        /\ \A Q \in Pairs \ {P} : directIndex[Q] # directIndex[P]

\* An answered request is not answered again in memory either.
AnsweredForGood == [][\A r \in MemAsk : asking[r].st \notin {"none", "pending"} => asking'[r].st = asking[r].st]_memStateVars

\* What any sequence of requests leaves of the accounts, friends, groups and
\* conversations in memory.
MemoryKept ==
    [](PhoneIndexAgrees /\ MutualInMemory /\ OneOwnerInMemory /\ DirectIndexed) /\ AnsweredForGood
=============================================================================
