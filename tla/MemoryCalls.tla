------------------------------ MODULE MemoryCalls ------------------------------
(***************************************************************************)
(* Calls as the process keeps them in memory when it runs without a        *)
(* database, which is how most tests run: each request is one step under   *)
(* callMu.  It is shown to do nothing CallSession, the model of the        *)
(* PostgreSQL implementation, does not.                                    *)
(***************************************************************************)
EXTENDS Naturals, FiniteSets

CONSTANTS
    Party,             \* the members of the conversation
    GroupRoom, DirectRoom,
    CallId,
    Unset              \* no caller, no conversation yet

ASSUME PartyAssumption == IsFiniteSet(Party) /\ GroupRoom # DirectRoom /\ Unset \notin Party \union {GroupRoom, DirectRoom}

VARIABLES
    room,      \* the conversation this process serves
    people,    \* its members
    held,      \* a.calls
    expired    \* the calls whose ExpiresAt has passed

memCallVars == <<room, people, held, expired>>

Ongoing == {"invited", "accepted"}
NoCall == [st |-> "none", caller |-> Unset, ids |-> {}, joined |-> {}, declined |-> {}, left |-> {}]

MemoryCallsInit ==
    /\ room \in {GroupRoom, DirectRoom}
    /\ people \in {P \in SUBSET Party : Cardinality(P) >= 2 /\ (room = DirectRoom => Cardinality(P) = 2)}
    /\ held = [c \in CallId |-> NoCall] /\ expired = {}

Calls(c) == held[c].st # "none"
IsGroupCall == room = GroupRoom
Asked(c) == held[c].ids \ {held[c].caller}
Set(c, r) == held' = [held EXCEPT ![c] = r] /\ UNCHANGED <<room, people, expired>>
Missed(r) == [r EXCEPT !.st = "missed"]

PastDue(c) == held[c].st = "invited" /\ c \in expired

\* InviteCall: what is due is missed, though the invitation may still fail on a
\* call that goes on.
InviteMemoryCall(u, c) ==
    LET after == [d \in CallId |-> IF PastDue(d) THEN Missed(held[d]) ELSE held[d]] IN
    /\ ~Calls(c) /\ u \in people /\ Cardinality(people) \in 2..9
    /\ held' = IF \E d \in CallId : after[d].st \in Ongoing THEN after
               ELSE [after EXCEPT ![c] = [st |-> "invited", caller |-> u, ids |-> people,
                                          joined |-> {u}, declined |-> {}, left |-> {}]]
    /\ UNCHANGED <<room, people, expired>>

\* The next request of a participant finds the call due.
FindMissed(c, u) == PastDue(c) /\ u \in held[c].ids /\ Set(c, Missed(held[c]))

\* transitionMemoryCall; a request that changes nothing is left out.
AcceptMemory(c, u) ==
    LET r == held[c] IN
    /\ u \in Asked(c) /\ ~PastDue(c)
    /\ IF IsGroupCall THEN r.st \in Ongoing /\ u \notin r.joined \union r.declined \union r.left ELSE r.st = "invited"
    /\ Set(c, [r EXCEPT !.st = "accepted", !.joined = @ \union {u}])

allMemoryCallInviteesDeclined(c, declined) == Asked(c) \subseteq declined

DeclineMemory(c, u) ==
    LET r == held[c]  all == r.declined \union {u} IN
    Set(c, [r EXCEPT !.declined = all,
                     !.st = IF r.st = "invited" /\ (~IsGroupCall \/ allMemoryCallInviteesDeclined(c, all))
                            THEN "rejected" ELSE @])

\* A plausible slip: who has joined a group call may still reject it.
MayRejectJoined(r, u) == r.st \in Ongoing /\ u \notin r.declined
MayReject(r, u) == r.st \in Ongoing /\ u \notin r.declined \union r.joined

RejectMemory(c, u) ==
    /\ u \in Asked(c) /\ ~PastDue(c)
    /\ IF IsGroupCall THEN MayReject(held[c], u) ELSE held[c].st = "invited"
    /\ DeclineMemory(c, u)

CancelMemory(c, u) ==
    /\ u = held[c].caller /\ held[c].st = "invited" /\ ~PastDue(c)
    /\ Set(c, [held[c] EXCEPT !.st = "cancelled"])

\* "end" before anyone answered.
EndMemory(c, u) ==
    /\ held[c].st = "invited" /\ u \notin held[c].left
    /\ CancelMemory(c, u) \/ (u \in Asked(c) /\ ~PastDue(c) /\ DeclineMemory(c, u))

HangupMemory(c, u) ==
    LET r == held[c] IN
    /\ r.st = "accepted" /\ u \in r.ids \ r.left /\ (IsGroupCall => u \in r.joined)
    /\ Set(c, [r EXCEPT !.left = @ \union {u}, !.st = IF IsGroupCall /\ u # r.caller THEN @ ELSE "ended"])

TimePasses(c) ==
    /\ Calls(c) /\ c \notin expired /\ expired' = expired \union {c}
    /\ UNCHANGED <<room, people, held>>

MemoryCallsNext ==
    \E c \in CallId :
       \/ TimePasses(c)
       \/ \E u \in Party : \/ InviteMemoryCall(u, c) \/ FindMissed(c, u) \/ AcceptMemory(c, u) \/ RejectMemory(c, u)
                           \/ CancelMemory(c, u) \/ EndMemory(c, u) \/ HangupMemory(c, u)

MemoryCallsSpec == MemoryCallsInit /\ [][MemoryCallsNext]_memCallVars

-----------------------------------------------------------------------------
\* The calls held, as the columns of the table.
Ended == {"rejected", "cancelled", "missed", "ended"}
StatusColumn == [c \in CallId |-> held[c].st]
ConvColumn == [c \in CallId |-> IF Calls(c) THEN room ELSE Unset]
CallerColumn == [c \in CallId |-> held[c].caller]
PartyColumn == [c \in CallId |-> held[c].ids]
JoinedColumn == [c \in CallId |-> held[c].joined]
DeclinedColumn == [c \in CallId |-> held[c].declined]
LeftColumn == [c \in CallId |-> held[c].left]
DueColumn == [c \in CallId |-> c \in expired]
HistoryColumn == [c \in CallId |-> IF held[c].st \in Ended THEN held[c].st ELSE "none"]
GroupCalls == INSTANCE CallSession WITH
    User <- Party, Conversation <- {GroupRoom}, Group <- {GroupRoom}, Call <- CallId, Nobody <- Unset, Mobile <- {},
    members <- [v \in {GroupRoom} |-> people], callStatus <- StatusColumn, conv <- ConvColumn, caller <- CallerColumn, party <- PartyColumn,
    joined <- JoinedColumn, declined <- DeclinedColumn, left <- LeftColumn, ringDue <- DueColumn, callHistory <- HistoryColumn

DirectCalls == INSTANCE CallSession WITH
    User <- Party, Conversation <- {DirectRoom}, Group <- {}, Call <- CallId, Nobody <- Unset, Mobile <- {},
    members <- [v \in {DirectRoom} |-> people], callStatus <- StatusColumn, conv <- ConvColumn, caller <- CallerColumn, party <- PartyColumn,
    joined <- JoinedColumn, declined <- DeclinedColumn, left <- LeftColumn, ringDue <- DueColumn, callHistory <- HistoryColumn

\* Every request to the calls in memory has an effect the same request to the
\* database has, in a group and between two users: what the tests see in memory
\* is what production does.
MemoryCallsAgree ==
    [][\/ UNCHANGED memCallVars
       \/ IF room = GroupRoom THEN GroupCalls!CallNext ELSE DirectCalls!CallNext]_memCallVars
=============================================================================
