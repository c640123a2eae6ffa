---------------------------- MODULE CallSession ----------------------------
(***************************************************************************)
(* Calls of direct and group conversations (im_call_sessions).             *)
(*                                                                         *)
(* A member invites the others; each may accept, reject or hang up; the    *)
(* caller may cancel; an invitation nobody answers is due after a while    *)
(* and becomes missed, by the timeout worker or by the next request that   *)
(* touches it.  Requests for a call are serialised by its row lock,        *)
(* invitations of a conversation by an advisory lock, so each is one step  *)
(* here.  A request reads the clock before it waits for the lock: it may   *)
(* treat a call that is due by now as one that is not.                     *)
(*                                                                         *)
(* The step that ends a call inserts, in its own transaction, the row that *)
(* posts the call record to the chat in the caller's name.  That insert    *)
(* looks the caller up among the members of the conversation and fails,    *)
(* with the whole transaction, when the caller has left.  Repeated         *)
(* requests that change nothing are left out.                              *)
(***************************************************************************)
EXTENDS Naturals, FiniteSets

CONSTANTS
    User,
    Conversation,
    Group,      \* the conversations that are groups; the others are direct
    Call,       \* ids the clients give to calls
    Nobody,     \* the caller of a call that does not exist yet
    Mobile      \* who may leave a conversation, and join it again

ASSUME CallAssumption ==
    /\ Group \subseteq Conversation
    /\ Nobody \notin User \union Conversation
    /\ IsFiniteSet(User)
    /\ Mobile \subseteq User

VARIABLES
    members,    \* members[v]: who is in conversation v now
    callStatus,
    conv,       \* conv[c], caller[c]: conversation and caller of call c
    caller,
    party,      \* party[c]: participant_ids, the members at the invitation
    joined, declined, left,
    ringDue,        \* due[c]: expires_at has passed
    callHistory     \* history[c]: the status in the call record, once there is one

roster == <<joined, declined, left>>
callIdentity == <<conv, caller, party>>
callVars == <<members, callStatus, callIdentity, roster, ringDue, callHistory>>

Active == {"invited", "accepted"}
Terminal == {"rejected", "cancelled", "missed", "ended"}
CallStatus == {"none"} \union Active \union Terminal

CallInit ==
    /\ members \in [Conversation -> SUBSET User]
    /\ \A v \in Conversation : /\ Cardinality(members[v]) >= 2
                               /\ v \notin Group => Cardinality(members[v]) = 2
    /\ callStatus = [c \in Call |-> "none"]
    /\ conv = [c \in Call |-> Nobody]
    /\ caller = [c \in Call |-> Nobody]
    /\ party = [c \in Call |-> {}]
    /\ joined = [c \in Call |-> {}]
    /\ declined = [c \in Call |-> {}]
    /\ left = [c \in Call |-> {}]
    /\ ringDue = [c \in Call |-> FALSE]
    /\ callHistory = [c \in Call |-> "none"]
---------------------------------------------------------------------------
IsGroup(c) == conv[c] \in Group
Invitees(c) == party[c] \ {caller[c]}

\* The lookups of enqueueWukongCallHistoryEvent succeed for call c.
RecordPossible(c) ==
    /\ caller[c] \in members[conv[c]]
    /\ IsGroup(c) \/ Cardinality(members[conv[c]]) = 2

\* The row's idempotency key is the call: the first record stays.
Recorded(h, S, s) ==
    [c \in Call |-> IF c \in S /\ h[c] = "none" /\ s \in Terminal THEN s ELSE h[c]]

\* One UPDATE of call c, and the record if it ends the call.
Move(c, s, j, d, l) ==
    /\ s \in Terminal => RecordPossible(c)
    /\ callStatus' = [callStatus EXCEPT ![c] = s]
    /\ joined' = [joined EXCEPT ![c] = j]
    /\ declined' = [declined EXCEPT ![c] = d]
    /\ left' = [left EXCEPT ![c] = l]
    /\ callHistory' = Recorded(callHistory, {c}, s)
    /\ UNCHANGED <<members, callIdentity, ringDue>>

\* The calls S become missed, all or none.
Expirable(c) == callStatus[c] = "invited" /\ ringDue[c]
ExpireAll(S) ==
    /\ \A c \in S : Expirable(c) /\ RecordPossible(c)
    /\ callStatus' = [c \in Call |-> IF c \in S THEN "missed" ELSE callStatus[c]]
    /\ callHistory' = Recorded(callHistory, S, "missed")
---------------------------------------------------------------------------
ActiveIn(v) == {c \in Call : conv[c] = v /\ callStatus[c] \in Active}

\* InviteCall: what is due in the conversation is expired first; any other
\* active call is a conflict, which rolls the expiry back as well.
Invite(u, v, c) ==
    /\ callStatus[c] = "none"
    /\ u \in members[v]
    /\ Cardinality(members[v]) \in 2..9
    /\ LET expired == ActiveIn(v) IN
        /\ \A d \in expired : Expirable(d) /\ RecordPossible(d)
        /\ callStatus' = [d \in Call |-> IF d \in expired THEN "missed"
                                         ELSE IF d = c THEN "invited" ELSE callStatus[d]]
        /\ callHistory' = Recorded(callHistory, expired, "missed")
    /\ conv' = [conv EXCEPT ![c] = v]
    /\ caller' = [caller EXCEPT ![c] = u]
    /\ party' = [party EXCEPT ![c] = members[v]]
    /\ joined' = [joined EXCEPT ![c] = {u}]
    /\ UNCHANGED <<members, declined, left, ringDue>>

\* The callee, or in a group anyone invited who has not answered yet.
Accept(c, u) ==
    /\ u \in Invitees(c)
    /\ \/ ~IsGroup(c) /\ callStatus[c] = "invited"
       \/ /\ IsGroup(c) /\ callStatus[c] \in Active
          /\ u \notin joined[c] \union declined[c] \union left[c]
    /\ Move(c, "accepted", joined[c] \union {u}, declined[c], left[c])

\* u declines; when all invitees of an unanswered call have, it is rejected.
Decline(c, u) ==
    LET all == declined[c] \union {u}
        over == callStatus[c] = "invited" /\ Invitees(c) \subseteq all
    IN  Move(c, IF over THEN "rejected" ELSE callStatus[c], joined[c], all, left[c])

Reject(c, u) ==
    /\ u \in Invitees(c)
    /\ u \notin declined[c]
    /\ \/ ~IsGroup(c) /\ callStatus[c] = "invited"
       \/ IsGroup(c) /\ callStatus[c] \in Active /\ u \notin joined[c]
    /\ Decline(c, u)

\* A plausible slip: a call that somebody has answered may be cancelled.
CancelAnswered(c, u) ==
    /\ u = caller[c] /\ callStatus[c] \in Active
    /\ Move(c, "cancelled", joined[c], declined[c], left[c])

Cancel(c, u) ==
    /\ u = caller[c] /\ callStatus[c] = "invited"
    /\ Move(c, "cancelled", joined[c], declined[c], left[c])

\* "end" before anyone has answered cancels or declines.
EndUnanswered(c, u) ==
    /\ callStatus[c] = "invited"
    /\ \/ Cancel(c, u)
       \/ u \in Invitees(c) /\ u \notin left[c] /\ Decline(c, u)

\* "hangup" or "end" of an answered call: either side ends a direct call,
\* only the caller a group call.
Hangup(c, u) ==
    /\ callStatus[c] = "accepted"
    /\ u \in party[c] \ left[c]
    /\ IsGroup(c) => u \in joined[c]
    /\ Move(c, IF IsGroup(c) /\ u # caller[c] THEN "accepted" ELSE "ended",
            joined[c], declined[c], left[c] \union {u})

\* TransitionCall or GetCall finds the call due.
FindDue(c) ==
    /\ Expirable(c)
    /\ ExpireAll({c})
    /\ UNCHANGED <<members, callIdentity, roster, ringDue>>

\* A plausible slip: a call that somebody has declined holds the batch up.
TimeoutBatchUndeclined(S) ==
    /\ S # {} /\ \A c \in S : declined[c] = {}
    /\ ExpireAll(S)
    /\ UNCHANGED <<members, callIdentity, roster, ringDue>>

\* One tick of the timeout worker, with the rows it could lock.
TimeoutBatch(S) ==
    /\ S # {}
    /\ ExpireAll(S)
    /\ UNCHANGED <<members, callIdentity, roster, ringDue>>

\* It takes what is due, but for rows somebody has locked.
Overdue == {c \in Call : Expirable(c)}
ExpireCalls == \E locked \in SUBSET Overdue : TimeoutBatch(Overdue \ locked)
---------------------------------------------------------------------------
\* The clock reaches expires_at.
BecomesDue(c) ==
    /\ callStatus[c] # "none" /\ ~ringDue[c]
    /\ ringDue' = [ringDue EXCEPT ![c] = TRUE]
    /\ UNCHANGED <<members, callStatus, callIdentity, roster, callHistory>>

\* A member leaves a group or is removed, an account is deleted; neither looks
\* at calls.
Leave(u, v) ==
    /\ u \in Mobile
    /\ u \in members[v]
    /\ members' = [members EXCEPT ![v] = @ \ {u}]
    /\ UNCHANGED <<callStatus, callIdentity, roster, ringDue, callHistory>>

Join(u, v) ==
    /\ u \in Mobile
    /\ v \in Group
    /\ u \notin members[v]
    /\ members' = [members EXCEPT ![v] = @ \union {u}]
    /\ UNCHANGED <<callStatus, callIdentity, roster, ringDue, callHistory>>

CallRequest(c, u) ==
    Accept(c, u) \/ Reject(c, u) \/ Cancel(c, u) \/ EndUnanswered(c, u) \/ Hangup(c, u)

CallNext ==
    \/ \E u \in User, v \in Conversation, c \in Call : Invite(u, v, c)
    \/ \E c \in Call, u \in User : CallRequest(c, u)
    \/ \E c \in Call : FindDue(c) \/ BecomesDue(c)
    \/ ExpireCalls
    \/ \E u \in User, v \in Conversation : Leave(u, v) \/ Join(u, v)

CallSpec == CallInit /\ [][CallNext]_callVars

\* The clock runs, and RunCallTimeouts ticks every five seconds: again and
\* again it finds no row locked.  Nobody has to answer or to hang up.
FairCallSpec ==
    /\ CallSpec
    /\ \A c \in Call : WF_callVars(BecomesDue(c))
    /\ WF_callVars(TimeoutBatch(Overdue))
---------------------------------------------------------------------------
CallTypeOK ==
    /\ members \in [Conversation -> SUBSET User]
    /\ callStatus \in [Call -> CallStatus]
    /\ conv \in [Call -> Conversation \union {Nobody}]
    /\ caller \in [Call -> User \union {Nobody}]
    /\ party \in [Call -> SUBSET User]
    /\ joined \in [Call -> SUBSET User]
    /\ declined \in [Call -> SUBSET User]
    /\ left \in [Call -> SUBSET User]
    /\ ringDue \in [Call -> BOOLEAN]
    /\ callHistory \in [Call -> {"none"} \union Terminal]

\* A conversation has one call at a time, whoever invites, answers and times
\* out in whatever order.
OneActiveCall ==
    \A v \in Conversation : Cardinality(ActiveIn(v)) <= 1

\* Nobody both joins and declines a group call, and only who joined leaves it,
\* however the requests of one user arrive.
RosterIsConsistent ==
    \A c \in Call : IsGroup(c) =>
        /\ joined[c] \intersect declined[c] = {}
        /\ left[c] \subseteq joined[c]
        /\ joined[c] \union declined[c] \subseteq party[c]

\* A call is missed, rejected or cancelled only if nobody ever answered it:
\* an answer wins over a timeout, a decline or a cancellation that is late.
AnsweredIsNotMissed ==
    \A c \in Call : callStatus[c] \in {"missed", "rejected", "cancelled"} =>
        joined[c] = {caller[c]}

\* A call that is over stays as it is, and so does its record in the chat.
OverForever ==
    [][\A c \in Call : callStatus[c] \in Terminal =>
          /\ callStatus'[c] = callStatus[c]
          /\ UNCHANGED <<joined[c], declined[c], left[c], callHistory[c]>>]_callVars

\* The chat shows one record for each call that is over, with the status the
\* call really ended in, and none for a call that is not.
RecordIsTruthful ==
    \A c \in Call :
        callHistory[c] = IF callStatus[c] \in Terminal THEN callStatus[c] ELSE "none"

\* Every unanswered invitation ends, unless there is a due call whose record
\* cannot be posted: one such call holds up the batch of all.
InvitationsEnd ==
    \A c \in Call : callStatus[c] = "invited" ~>
        callStatus[c] # "invited" \/ \E d \in Overdue : ~RecordPossible(d)

\* CONFIGURATION.md: an invitation times out.
InvitationsTimeOut ==
    \A c \in Call : callStatus[c] = "invited" ~> callStatus[c] # "invited"

\* The promise of calls: the requests and the timeout worker keep to the five in
\* every state, and what is over stays over.
CallKept ==
    /\ [](/\ CallTypeOK /\ OneActiveCall /\ RosterIsConsistent
          /\ AnsweredIsNotMissed /\ RecordIsTruthful)
    /\ OverForever
===========================================================================
