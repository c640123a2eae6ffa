------------------------- MODULE CallSessionProofs -------------------------
(***************************************************************************)
(* Proofs about calls for any users, conversations and call ids.  The      *)
(* properties of one call are tied together: the call record is truthful   *)
(* because a call that is over is not touched, an answered call is never   *)
(* missed because an unanswered one was joined by its caller alone.        *)
(* CallInv says so for every call, together with the rosters of the group  *)
(* calls and the one active call of a conversation.  The media rooms rest  *)
(* on it: RoomInv ties tokens, places and rooms to answers.  The calls in  *)
(* memory are the same calls (the last section).                           *)
(***************************************************************************)
EXTENDS CallRooms, MemoryCalls, FiniteSetTheorems, TLAPS

Unborn ==
    \A c \in Call : callStatus[c] = "none" =>
        declined[c] = {} /\ left[c] = {} /\ conv[c] = Nobody

Born ==
    \A c \in Call : callStatus[c] # "none" =>
        conv[c] \in Conversation /\ caller[c] \in joined[c] /\ caller[c] \in party[c]

Unanswered ==
    \A c \in Call : callStatus[c] = "invited" => joined[c] = {caller[c]}

OneActive ==
    \A c, d \in Call :
        callStatus[c] \in Active /\ callStatus[d] \in Active /\ conv[c] = conv[d] => c = d

\* The inductive invariant.
CallInv ==
    /\ CallTypeOK
    /\ Unborn
    /\ Born
    /\ Unanswered
    /\ OneActive
    /\ RosterIsConsistent
    /\ AnsweredIsNotMissed
    /\ RecordIsTruthful
---------------------------------------------------------------------------
LEMMA InitInv == CallInit => CallInv
  <1> SUFFICES ASSUME CallInit PROVE CallInv
    OBVIOUS
  <1>1. CallTypeOK
    BY DEF CallInit, CallTypeOK, CallStatus, Terminal
  <1>2. ~ \E c \in Call : callStatus[c] # "none"
    BY DEF CallInit
  <1>3. Unborn /\ Born /\ Unanswered /\ OneActive /\ AnsweredIsNotMissed
    BY <1>2 DEF CallInit, Unborn, Born, Unanswered, OneActive, AnsweredIsNotMissed, Active
  <1>4. RosterIsConsistent /\ RecordIsTruthful
    BY DEF CallInit, RosterIsConsistent, RecordIsTruthful, Terminal
  <1> QED
    BY <1>1, <1>3, <1>4 DEF CallInv

\* What TransitionCall writes: every transition takes an active call to a
\* status and a roster that fit the invariant.
LEMMA MoveInv ==
  ASSUME CallInv,
         NEW c \in Call, NEW s \in CallStatus \ {"none"},
         NEW j \in SUBSET User, NEW d \in SUBSET User, NEW l \in SUBSET User,
         Move(c, s, j, d, l),
         callStatus[c] \in Active,
         s = "invited" => callStatus[c] = "invited",
         caller[c] \in j,
         s \in {"invited", "missed", "rejected", "cancelled"} => j = {caller[c]},
         IsGroup(c) => j \intersect d = {} /\ l \subseteq j /\ j \union d \subseteq party[c]
  PROVE  CallInv'
  <1> USE DEF CallInv
  <1>1. CallTypeOK'
    <2>1. callStatus' \in [Call -> CallStatus]
      BY DEF CallTypeOK, Move
    <2>2. callHistory' \in [Call -> {"none"} \union Terminal]
      BY DEF CallTypeOK, Move, Recorded
    <2> QED
      BY <2>1, <2>2 DEF CallTypeOK, Move, callIdentity
  <1>2. \A e \in Call : /\ callStatus'[e] = IF e = c THEN s ELSE callStatus[e]
                        /\ joined'[e] = IF e = c THEN j ELSE joined[e]
                        /\ declined'[e] = IF e = c THEN d ELSE declined[e]
                        /\ left'[e] = IF e = c THEN l ELSE left[e]
                        /\ callHistory'[e] = IF e = c /\ s \in Terminal THEN s ELSE callHistory[e]
                        /\ conv'[e] = conv[e]
                        /\ caller'[e] = caller[e]
                        /\ party'[e] = party[e]
    <2>1. callHistory[c] = "none"
      BY DEF RecordIsTruthful, Active, Terminal
    <2> QED
      BY <2>1 DEF CallTypeOK, Move, Recorded, callIdentity
  <1>3. callStatus[c] # "none"
    BY DEF Active
  <1>4. Unborn' /\ Born'
    BY <1>2, <1>3 DEF Unborn, Born
  <1>5. Unanswered' /\ AnsweredIsNotMissed'
    BY <1>2 DEF Unanswered, AnsweredIsNotMissed
  <1>6. OneActive'
    <2> SUFFICES ASSUME NEW e \in Call, NEW f \in Call,
                        callStatus'[e] \in Active, callStatus'[f] \in Active,
                        conv'[e] = conv'[f]
                 PROVE  e = f
      BY DEF OneActive
    <2>1. callStatus[e] \in Active /\ callStatus[f] \in Active
      BY <1>2
    <2> QED
      BY <1>2, <2>1 DEF OneActive
  <1>7. RosterIsConsistent'
    BY <1>2 DEF RosterIsConsistent, IsGroup
  <1>8. RecordIsTruthful'
    <2>1. callHistory[c] = "none"
      BY DEF RecordIsTruthful, Active, Terminal
    <2> QED
      BY <1>2, <2>1 DEF RecordIsTruthful
  <1> QED
    BY <1>1, <1>4, <1>5, <1>6, <1>7, <1>8

\* What the timeout worker and the lazy timeouts write.
LEMMA ExpireInv ==
  ASSUME CallInv,
         NEW S \in SUBSET Call,
         ExpireAll(S),
         UNCHANGED <<members, callIdentity, roster, ringDue>>
  PROVE  CallInv'
  <1> USE DEF CallInv
  <1>1. \A e \in Call : /\ callStatus'[e] = IF e \in S THEN "missed" ELSE callStatus[e]
                        /\ callHistory'[e] = IF e \in S THEN "missed" ELSE callHistory[e]
                        /\ e \in S => callStatus[e] = "invited" /\ callHistory[e] = "none"
    <2>1. \A e \in S : callStatus[e] = "invited" /\ callHistory[e] = "none"
      BY DEF ExpireAll, Expirable, RecordIsTruthful, Terminal
    <2> QED
      BY <2>1 DEF ExpireAll, Recorded, Terminal, CallTypeOK
  <1>2. CallTypeOK'
    <2>1. callStatus' \in [Call -> CallStatus]
      BY DEF CallTypeOK, ExpireAll, CallStatus, Terminal
    <2>2. callHistory' \in [Call -> {"none"} \union Terminal]
      BY DEF CallTypeOK, ExpireAll, Recorded
    <2> QED
      BY <2>1, <2>2 DEF CallTypeOK, callIdentity, roster
  <1>3. UNCHANGED <<joined, declined, left, conv, caller, party>>
    BY DEF callIdentity, roster
  <1>4. Unborn' /\ Born'
    BY <1>1, <1>3 DEF Unborn, Born
  <1>5. Unanswered' /\ AnsweredIsNotMissed'
    BY <1>1, <1>3 DEF Unanswered, AnsweredIsNotMissed
  <1>6. OneActive'
    <2> SUFFICES ASSUME NEW e \in Call, NEW f \in Call,
                        callStatus'[e] \in Active, callStatus'[f] \in Active,
                        conv'[e] = conv'[f]
                 PROVE  e = f
      BY DEF OneActive
    <2>1. callStatus[e] \in Active /\ callStatus[f] \in Active
      BY <1>1 DEF Active
    <2> QED
      BY <1>3, <2>1 DEF OneActive
  <1>7. RosterIsConsistent'
    BY <1>3 DEF RosterIsConsistent, IsGroup
  <1>8. RecordIsTruthful'
    BY <1>1 DEF RecordIsTruthful, Terminal
  <1> QED
    BY <1>2, <1>4, <1>5, <1>6, <1>7, <1>8
---------------------------------------------------------------------------
LEMMA InviteInv ==
  ASSUME CallInv, NEW u \in User, NEW v \in Conversation, NEW c \in Call,
         Invite(u, v, c)
  PROVE  CallInv'
  <1> USE DEF CallInv
  <1> DEFINE S == ActiveIn(v)
  <1>1. callStatus[c] = "none" /\ c \notin S /\ u \in members[v] /\ members[v] \subseteq User
    BY DEF Invite, ActiveIn, Active, CallTypeOK
  <1>2. \A e \in Call : /\ callStatus'[e] = IF e \in S THEN "missed"
                                            ELSE IF e = c THEN "invited" ELSE callStatus[e]
                        /\ callHistory'[e] = IF e \in S THEN "missed" ELSE callHistory[e]
                        /\ e \in S => callStatus[e] = "invited" /\ callHistory[e] = "none"
                        /\ conv'[e] = IF e = c THEN v ELSE conv[e]
                        /\ caller'[e] = IF e = c THEN u ELSE caller[e]
                        /\ party'[e] = IF e = c THEN members[v] ELSE party[e]
                        /\ joined'[e] = IF e = c THEN {u} ELSE joined[e]
    <2>1. \A e \in S : callStatus[e] = "invited" /\ callHistory[e] = "none"
      BY DEF Invite, Expirable, RecordIsTruthful, Terminal, ActiveIn
    <2>2. \A e \in Call : /\ callStatus'[e] = IF e \in S THEN "missed"
                                            ELSE IF e = c THEN "invited" ELSE callStatus[e]
                          /\ callHistory'[e] = IF e \in S THEN "missed" ELSE callHistory[e]
      BY <2>1 DEF Invite, Recorded, Terminal
    <2>3. \A e \in Call : /\ conv'[e] = IF e = c THEN v ELSE conv[e]
                          /\ caller'[e] = IF e = c THEN u ELSE caller[e]
                          /\ party'[e] = IF e = c THEN members[v] ELSE party[e]
                          /\ joined'[e] = IF e = c THEN {u} ELSE joined[e]
      BY DEF Invite, CallTypeOK
    <2> QED
      BY <2>1, <2>2, <2>3
  <1>3. UNCHANGED <<members, declined, left, ringDue>>
    BY DEF Invite
  <1>4. CallTypeOK'
    <2>1. callStatus' \in [Call -> CallStatus]
      BY DEF CallTypeOK, Invite, CallStatus, Terminal, Active
    <2>2. callHistory' \in [Call -> {"none"} \union Terminal]
      BY DEF CallTypeOK, Invite, Recorded
    <2>3. /\ conv' \in [Call -> Conversation \union {Nobody}]
          /\ caller' \in [Call -> User \union {Nobody}]
          /\ party' \in [Call -> SUBSET User]
          /\ joined' \in [Call -> SUBSET User]
      BY <1>1 DEF CallTypeOK, Invite
    <2> QED
      BY <1>3, <2>1, <2>2, <2>3 DEF CallTypeOK
  <1>5. Unborn'
    BY <1>1, <1>2, <1>3 DEF Unborn
  <1>6. Born'
    BY <1>1, <1>2 DEF Born, ActiveIn, Active
  <1>7. Unanswered' /\ AnsweredIsNotMissed'
    BY <1>1, <1>2 DEF Unanswered, AnsweredIsNotMissed
  <1>8. OneActive'
    <2> SUFFICES ASSUME NEW e \in Call, NEW f \in Call,
                        callStatus'[e] \in Active, callStatus'[f] \in Active,
                        conv'[e] = conv'[f]
                 PROVE  e = f
      BY DEF OneActive
    <2>1. \A g \in Call : callStatus'[g] \in Active => g = c \/ (callStatus[g] \in Active /\ g \notin S)
      BY <1>2 DEF Active
    <2>2. \A g \in Call : callStatus'[g] \in Active /\ conv'[g] = v => g = c
      BY <1>2, <2>1 DEF ActiveIn
    <2>3. CASE e = c \/ f = c
      BY <1>2, <2>2, <2>3
    <2>4. CASE e # c /\ f # c
      BY <1>2, <2>1, <2>4 DEF OneActive
    <2> QED
      BY <2>3, <2>4
  <1>9. RosterIsConsistent'
    BY <1>1, <1>2, <1>3 DEF RosterIsConsistent, IsGroup, Unborn
  <1>10. RecordIsTruthful'
    BY <1>1, <1>2 DEF RecordIsTruthful, Terminal
  <1> QED
    BY <1>4, <1>5, <1>6, <1>7, <1>8, <1>9, <1>10
---------------------------------------------------------------------------
\* Each request of a participant is a Move that fits MoveInv, of a call that
\* is still active.
LEMMA RequestInv ==
  ASSUME CallInv, NEW c \in Call, NEW u \in User, CallRequest(c, u)
  PROVE  CallInv' /\ callStatus[c] \in Active
  <1> USE DEF CallInv
  <1>0. /\ joined[c] \in SUBSET User /\ declined[c] \in SUBSET User
        /\ left[c] \in SUBSET User /\ callStatus[c] \in CallStatus
    BY DEF CallTypeOK
  <1>01. {"accepted", "rejected", "cancelled", "ended"} \subseteq CallStatus \ {"none"}
    BY DEF CallStatus, Active, Terminal
  <1>02. IsGroup(c) => /\ joined[c] \intersect declined[c] = {}
                       /\ left[c] \subseteq joined[c]
                       /\ joined[c] \union declined[c] \subseteq party[c]
    BY DEF RosterIsConsistent
  <1>1. CASE Accept(c, u)
    <2>1. callStatus[c] \in Active /\ u \in party[c]
      BY <1>1 DEF Accept, Active, Invitees
    <2>2. caller[c] \in joined[c]
      BY <2>1 DEF Born, Active
    <2>3. IsGroup(c) => u \notin declined[c]
      BY <1>1 DEF Accept
    <2>4. Move(c, "accepted", joined[c] \union {u}, declined[c], left[c])
      BY <1>1 DEF Accept
    <2> QED
      BY <1>0, <1>01, <1>02, <2>1, <2>2, <2>3, <2>4, MoveInv
  <1>2. ASSUME Decline(c, u), callStatus[c] \in Active, u \in Invitees(c),
               IsGroup(c) => u \notin joined[c],
               ~IsGroup(c) => callStatus[c] = "invited"
        PROVE  CallInv'
    <2>1. PICK s : /\ s = callStatus[c] \/ (s = "rejected" /\ callStatus[c] = "invited")
                   /\ Move(c, s, joined[c], declined[c] \union {u}, left[c])
      BY <1>2 DEF Decline
    <2>2. caller[c] \in joined[c]
      BY <1>2 DEF Born, Active
    <2>3. s \in CallStatus \ {"none"}
      BY <1>0, <1>01, <1>2, <2>1 DEF Active
    <2>4. s \in {"invited", "missed", "rejected", "cancelled"} => joined[c] = {caller[c]}
      BY <1>2, <2>1 DEF Unanswered, Active
    <2>5. IsGroup(c) => /\ joined[c] \intersect (declined[c] \union {u}) = {}
                        /\ joined[c] \union (declined[c] \union {u}) \subseteq party[c]
      BY <1>02, <1>2 DEF Invitees
    <2>6. s = "invited" => callStatus[c] = "invited"
      BY <2>1
    <2>7. declined[c] \union {u} \in SUBSET User
      BY <1>0
    <2> QED
      BY <1>0, <1>02, <1>2, <2>1, <2>2, <2>3, <2>4, <2>5, <2>6, <2>7, MoveInv
  <1>3. CASE Reject(c, u)
    <2>1. callStatus[c] \in Active
      BY <1>3 DEF Reject, Active
    <2> QED
      BY <1>2, <1>3, <2>1 DEF Reject
  <1>4. ASSUME Cancel(c, u)
        PROVE  CallInv' /\ callStatus[c] = "invited"
    <2>1. callStatus[c] = "invited" /\ Move(c, "cancelled", joined[c], declined[c], left[c])
      BY <1>4 DEF Cancel
    <2>2. callStatus[c] \in Active /\ joined[c] = {caller[c]}
      BY <2>1 DEF Active, Unanswered
    <2> QED
      BY <1>0, <1>01, <1>02, <2>1, <2>2, MoveInv
  <1>5. CASE EndUnanswered(c, u)
    <2>1. callStatus[c] = "invited" /\ callStatus[c] \in Active /\ joined[c] = {caller[c]}
      BY <1>5 DEF EndUnanswered, Active, Unanswered
    <2>2. CASE Cancel(c, u)
      BY <1>4, <2>1, <2>2
    <2>3. CASE u \in Invitees(c) /\ Decline(c, u)
      BY <1>2, <2>1, <2>3 DEF Invitees
    <2> QED
      BY <1>5, <2>1, <2>2, <2>3 DEF EndUnanswered
  <1>6. CASE Hangup(c, u)
    <2>1. PICK s \in {"accepted", "ended"} :
              Move(c, s, joined[c], declined[c], left[c] \union {u})
      BY <1>6 DEF Hangup
    <2>2. callStatus[c] = "accepted" /\ (IsGroup(c) => u \in joined[c])
      BY <1>6 DEF Hangup
    <2>3. callStatus[c] \in Active /\ caller[c] \in joined[c]
      BY <2>2 DEF Active, Born
    <2>4. s \in CallStatus \ {"none"}
      BY <1>01, <2>1
    <2>5. left[c] \union {u} \in SUBSET User
      BY <1>0
    <2>6. IsGroup(c) => left[c] \union {u} \subseteq joined[c]
      BY <1>02, <2>2
    <2> QED
      BY <1>0, <1>02, <2>1, <2>2, <2>3, <2>4, <2>5, <2>6, MoveInv
  <1>7. CASE Cancel(c, u)
    BY <1>4, <1>7 DEF Active
  <1> QED
    BY <1>1, <1>3, <1>5, <1>6, <1>7 DEF CallRequest

LEMMA NextInv == CallInv /\ [CallNext]_callVars => CallInv'
  <1> SUFFICES ASSUME CallInv, [CallNext]_callVars PROVE CallInv'
    OBVIOUS
  <1>1. ASSUME NEW u \in User, NEW v \in Conversation, NEW c \in Call, Invite(u, v, c)
        PROVE  CallInv'
    BY <1>1, InviteInv
  <1>2. ASSUME NEW c \in Call, NEW u \in User, CallRequest(c, u)
        PROVE  CallInv'
    BY <1>2, RequestInv
  <1>3. ASSUME NEW c \in Call, FindDue(c)
        PROVE  CallInv'
    BY <1>3, ExpireInv DEF FindDue
  <1>4. CASE ExpireCalls
    <2>1. PICK locked \in SUBSET Overdue : TimeoutBatch(Overdue \ locked)
      BY <1>4 DEF ExpireCalls
    <2>2. Overdue \ locked \in SUBSET Call
      BY DEF Overdue
    <2> QED
      BY <2>1, <2>2, ExpireInv DEF TimeoutBatch
  <1>5. ASSUME UNCHANGED <<callStatus, callIdentity, roster, callHistory>>, CallTypeOK'
        PROVE  CallInv'
    <2>1. UNCHANGED <<callStatus, conv, caller, party, joined, declined, left, callHistory>>
      BY <1>5 DEF callIdentity, roster
    <2>2. Unborn' /\ Born' /\ Unanswered' /\ OneActive'
      BY <2>1 DEF CallInv, Unborn, Born, Unanswered, OneActive
    <2>3. RosterIsConsistent' /\ AnsweredIsNotMissed' /\ RecordIsTruthful'
      BY <2>1 DEF CallInv, RosterIsConsistent, IsGroup, AnsweredIsNotMissed, RecordIsTruthful
    <2> QED
      BY <1>5, <2>2, <2>3 DEF CallInv
  <1>6. ASSUME NEW c \in Call, BecomesDue(c)
        PROVE  CallInv'
    <2>1. CallTypeOK'
      BY <1>6 DEF CallInv, CallTypeOK, BecomesDue, callIdentity, roster
    <2> QED
      BY <1>5, <1>6, <2>1 DEF BecomesDue
  <1>7. ASSUME NEW u \in User, NEW v \in Conversation, Leave(u, v) \/ Join(u, v)
        PROVE  CallInv'
    <2>1. CallTypeOK'
      BY <1>7 DEF CallInv, CallTypeOK, Leave, Join, callIdentity, roster
    <2> QED
      BY <1>5, <1>7, <2>1 DEF Leave, Join
  <1>8. CASE UNCHANGED callVars
    <2>1. CallTypeOK'
      BY <1>8 DEF CallInv, CallTypeOK, callVars, callIdentity, roster
    <2> QED
      BY <1>5, <1>8, <2>1 DEF callVars
  <1> QED
    BY <1>1, <1>2, <1>3, <1>4, <1>6, <1>7, <1>8 DEF CallNext
---------------------------------------------------------------------------
LEMMA CallInvariant == CallSpec => []CallInv
  BY InitInv, NextInv, PTL DEF CallSpec

\* The rows of im_call_sessions keep the types and statuses the schema gives
\* them, whatever requests, timeouts and departures happen.
THEOREM CallTypeCorrect == CallSpec => []CallTypeOK
  <1>1. CallInv => CallTypeOK
    BY DEF CallInv
  <1> QED
    BY <1>1, CallInvariant, PTL

\* A participant of a group call is never both among those who joined and
\* those who declined, and leaves only after joining.
THEOREM CallRosterConsistent == CallSpec => []RosterIsConsistent
  <1>1. CallInv => RosterIsConsistent
    BY DEF CallInv
  <1> QED
    BY <1>1, CallInvariant, PTL

\* A call that ends as missed, rejected or cancelled was never answered: an
\* answer wins over whatever comes late.
THEOREM CallAnswerWins == CallSpec => []AnsweredIsNotMissed
  <1>1. CallInv => AnsweredIsNotMissed
    BY DEF CallInv
  <1> QED
    BY <1>1, CallInvariant, PTL

\* The record in the chat shows the status the call really ended in, and a
\* call has one exactly when it is over.
THEOREM CallRecordTruthful == CallSpec => []RecordIsTruthful
  <1>1. CallInv => RecordIsTruthful
    BY DEF CallInv
  <1> QED
    BY <1>1, CallInvariant, PTL

\* A conversation has at most one invited or accepted call.
THEOREM CallOneActive == CallSpec => []OneActiveCall
  <1>1. CallInv => OneActiveCall
    <2> SUFFICES ASSUME CallInv, NEW v \in Conversation
                 PROVE  Cardinality(ActiveIn(v)) <= 1
      BY DEF OneActiveCall
    <2>1. CASE ActiveIn(v) = {}
      BY <2>1, FS_EmptySet
    <2>2. CASE ActiveIn(v) # {}
      <3>1. PICK c : c \in ActiveIn(v)
        BY <2>2
      <3>2. ActiveIn(v) = {c}
        BY <3>1 DEF ActiveIn, CallInv, OneActive
      <3> QED
        BY <3>2, FS_Singleton
    <2> QED
      BY <2>1, <2>2
  <1> QED
    BY <1>1, CallInvariant, PTL

\* No request, timeout or departure changes a call that is over, or its record.
THEOREM CallOverForever == CallSpec => OverForever
  <1> DEFINE Stays(c) == /\ callStatus'[c] = callStatus[c]
                         /\ UNCHANGED <<joined[c], declined[c], left[c], callHistory[c]>>
  <1>1. ASSUME CallInv, [CallNext]_callVars, NEW e \in Call, callStatus[e] \in Terminal
        PROVE  Stays(e)
    <2>0. callStatus[e] \notin Active /\ callStatus[e] # "none"
      BY <1>1 DEF Terminal, Active
    <2>1. ASSUME NEW c \in Call, NEW s, NEW j, NEW d, NEW l, Move(c, s, j, d, l), e # c
          PROVE  Stays(e)
      BY <1>1, <2>1 DEF Move, Recorded, CallInv, CallTypeOK
    <2>2. ASSUME NEW c \in Call, NEW u \in User, CallRequest(c, u)
          PROVE  Stays(e)
      <3>1. c # e
        BY <1>1, <2>0, <2>2, RequestInv
      <3>2. \E s, j, d, l : Move(c, s, j, d, l)
        BY <2>2 DEF CallRequest, Accept, Reject, Decline, Cancel, EndUnanswered, Hangup
      <3> QED
        BY <2>1, <3>1, <3>2
    <2>3. ASSUME NEW S \in SUBSET Call, ExpireAll(S), UNCHANGED roster
          PROVE  Stays(e)
      <3>1. e \notin S
        BY <2>0, <2>3 DEF ExpireAll, Expirable, Active
      <3>2. callStatus'[e] = callStatus[e] /\ callHistory'[e] = callHistory[e]
        BY <2>3, <3>1 DEF ExpireAll, Recorded
      <3> QED
        BY <2>3, <3>2 DEF roster
    <2>4. ASSUME NEW u \in User, NEW v \in Conversation, NEW c \in Call, Invite(u, v, c)
          PROVE  Stays(e)
      <3>1. e # c /\ e \notin ActiveIn(v)
        BY <2>0, <2>4 DEF Invite, ActiveIn
      <3>2. callStatus'[e] = callStatus[e] /\ callHistory'[e] = callHistory[e]
        BY <2>4, <3>1 DEF Invite, Recorded
      <3>3. joined'[e] = joined[e]
        BY <1>1, <2>4, <3>1 DEF Invite, CallInv, CallTypeOK
      <3> QED
        BY <2>4, <3>2, <3>3 DEF Invite
    <2>5. ASSUME UNCHANGED <<callStatus, roster, callHistory>>
          PROVE  Stays(e)
      BY <2>5 DEF roster
    <2>6. ASSUME NEW c \in Call, FindDue(c)
          PROVE  Stays(e)
      BY <2>3, <2>6 DEF FindDue
    <2>7. CASE ExpireCalls
      <3>1. PICK locked \in SUBSET Overdue : TimeoutBatch(Overdue \ locked)
        BY <2>7 DEF ExpireCalls
      <3>2. Overdue \ locked \in SUBSET Call
        BY DEF Overdue
      <3> QED
        BY <2>3, <3>1, <3>2 DEF TimeoutBatch
    <2>8. ASSUME \/ \E c \in Call : BecomesDue(c)
                 \/ \E u \in User, v \in Conversation : Leave(u, v) \/ Join(u, v)
                 \/ UNCHANGED callVars
          PROVE  Stays(e)
      BY <2>5, <2>8 DEF BecomesDue, Leave, Join, callVars
    <2> QED
      BY <1>1, <2>2, <2>4, <2>6, <2>7, <2>8 DEF CallNext
  <1>2. CallInv /\ [CallNext]_callVars =>
            [\A c \in Call : callStatus[c] \in Terminal => Stays(c)]_callVars
    BY <1>1
  <1> QED
    BY <1>2, CallInvariant, PTL DEF CallSpec, OverForever

\* The whole promise of calls (InviteCall, TransitionCall, ExpireCalls): one
\* active call, rosters without contradiction, an answer that wins, one true
\* record, and an end that is final.
THEOREM CallsKeepPromise == CallSpec => CallKept
  BY CallTypeCorrect, CallOneActive, CallRosterConsistent, CallAnswerWins,
     CallRecordTruthful, CallOverForever, PTL
  DEF CallKept

---------------------------------------------------------------------------
(* Rooms.  A request looks at the call, then talks to LiveKit, and the token  *)
(* it brings is used later still.  None of this is stale, because an answer   *)
(* is for good: who joined stays joined and may not decline any more, and an  *)
(* accepted call can only end.                                                *)

AnsweredCall(c) == callStatus[c] \in {"accepted", "ended"}
AnsweredBy(c, u) == AnsweredCall(c) /\ u \in joined[c] /\ u \notin declined[c]

\* A column of one entry for each call and user.
Column(f) == f = [c \in Call |-> [u \in User |-> f[c][u]]]

RoomTypes ==
    /\ mediaRoom \in [Call -> BOOLEAN]
    /\ Column(mediaToken) /\ Column(inMedia)
    /\ asking = [u \in User |-> asking[u]]

\* What a request that is not over yet rests on.
PendingRequests == \A u \in User :
    /\ asking[u].todo # "nothing" => asking[u].call \in Call
    /\ \A c \in Call : asking[u].call = c =>
          /\ asking[u].todo \in {"open", "issue"} => AnsweredBy(c, u)
          /\ asking[u].todo = "ensure" => AnsweredCall(c)

RoomInv ==
    /\ CallInv
    /\ RoomTypes
    /\ PendingRequests
    /\ \A c \in Call : mediaRoom[c] => AnsweredCall(c)
    /\ \A c \in Call, u \in User : mediaToken[c][u] # 0 \/ inMedia[c][u] # 0 => AnsweredBy(c, u)

\* One row of a call is written: the answer of another call stays.
LEMMA AnswerStaysInMove ==
  ASSUME CallInv, NEW c \in Call, NEW d \in Call, NEW s, NEW j, NEW dec, NEW l, Move(d, s, j, dec, l), AnsweredCall(c),
         c = d => s \in {"accepted", "ended"} /\ joined[c] \subseteq j /\ dec \cap joined[c] \subseteq declined[c]
  PROVE  AnsweredCall(c)' /\ joined[c] \subseteq joined'[c] /\ declined'[c] \cap joined[c] \subseteq declined[c]
  <1>1. /\ callStatus \in [Call -> CallStatus] /\ joined \in [Call -> SUBSET User] /\ declined \in [Call -> SUBSET User]
        /\ callStatus' = [callStatus EXCEPT ![d] = s] /\ joined' = [joined EXCEPT ![d] = j] /\ declined' = [declined EXCEPT ![d] = dec]
    BY DEF CallInv, CallTypeOK, Move
  <1>2. /\ callStatus'[c] = (IF c = d THEN s ELSE callStatus[c]) /\ joined'[c] = (IF c = d THEN j ELSE joined[c])
        /\ declined'[c] = IF c = d THEN dec ELSE declined[c]
    BY <1>1
  <1> QED
    BY <1>2 DEF AnsweredCall

LEMMA AnswerStaysInRequest ==
  ASSUME CallInv, NEW c \in Call, NEW d \in Call, NEW u \in User, CallRequest(d, u), AnsweredCall(c)
  PROVE  AnsweredCall(c)' /\ joined[c] \subseteq joined'[c] /\ declined'[c] \cap joined[c] \subseteq declined[c]
  <1>1. CASE Accept(d, u)
    <2>1. Move(d, "accepted", joined[d] \union {u}, declined[d], left[d])
      BY <1>1 DEF Accept
    <2> QED
      BY <2>1, AnswerStaysInMove
  \* Who declines has not joined; a direct call that is declined still rings.
  <1>2. ASSUME Decline(d, u), callStatus[d] = "invited" \/ u \notin joined[d] PROVE AnsweredCall(c)' /\ joined[c] \subseteq joined'[c] /\ declined'[c] \cap joined[c] \subseteq declined[c]
    <2>1. PICK s : /\ s = callStatus[d] \/ (s = "rejected" /\ callStatus[d] = "invited")
                   /\ Move(d, s, joined[d], declined[d] \union {u}, left[d])
      BY <1>2 DEF Decline
    <2>2. c = d => s \in {"accepted", "ended"} /\ (declined[d] \union {u}) \cap joined[c] \subseteq declined[c]
      BY <1>2, <2>1 DEF AnsweredCall
    <2> QED
      BY <2>1, <2>2, AnswerStaysInMove
  <1>3. CASE Reject(d, u)
    BY <1>2, <1>3 DEF Reject
  <1>4. ASSUME Cancel(d, u) PROVE AnsweredCall(c)' /\ joined[c] \subseteq joined'[c] /\ declined'[c] \cap joined[c] \subseteq declined[c]
    <2>1. Move(d, "cancelled", joined[d], declined[d], left[d]) /\ callStatus[d] = "invited"
      BY <1>4 DEF Cancel
    <2>2. c # d
      BY <2>1 DEF AnsweredCall
    <2> QED
      BY <2>1, <2>2, AnswerStaysInMove
  <1>5. CASE EndUnanswered(d, u)
    BY <1>2, <1>4, <1>5 DEF EndUnanswered
  <1>6. CASE Hangup(d, u)
    <2>1. PICK s \in {"accepted", "ended"} : Move(d, s, joined[d], declined[d], left[d] \union {u})
      BY <1>6 DEF Hangup
    <2> QED
      BY <2>1, AnswerStaysInMove
  <1> QED
    BY <1>1, <1>3, <1>4, <1>5, <1>6 DEF CallRequest

\* An answer is for good, whatever step of the calls is taken.
LEMMA AnswerStays ==
  ASSUME CallInv, NEW c \in Call, [CallNext]_callVars, AnsweredCall(c)
  PROVE  AnsweredCall(c)' /\ joined[c] \subseteq joined'[c] /\ declined'[c] \cap joined[c] \subseteq declined[c]
  <1> DEFINE Goal == AnsweredCall(c)' /\ joined[c] \subseteq joined'[c] /\ declined'[c] \cap joined[c] \subseteq declined[c]
  <1>1. ASSUME NEW u \in User, NEW v \in Conversation, NEW d \in Call, Invite(u, v, d) PROVE Goal
    <2>1. c # d /\ callStatus[c] # "invited"
      BY <1>1 DEF Invite, AnsweredCall
    <2>2. /\ callStatus'[c] = IF c \in ActiveIn(v) THEN "missed" ELSE IF c = d THEN "invited" ELSE callStatus[c]
          /\ \A e \in ActiveIn(v) : Expirable(e)
          /\ joined' = [joined EXCEPT ![d] = {u}] /\ declined' = declined
      BY <1>1 DEF Invite, roster
    <2>3. c \notin ActiveIn(v)
      BY <2>1, <2>2 DEF Expirable
    <2>4. joined'[c] = joined[c]
      BY <2>1, <2>2 DEF CallInv, CallTypeOK
    <2> QED
      BY <2>1, <2>2, <2>3, <2>4 DEF AnsweredCall
  <1>2. ASSUME NEW d \in Call, NEW u \in User, CallRequest(d, u) PROVE Goal
    BY <1>2, AnswerStaysInRequest
  <1>3. ASSUME NEW S \in SUBSET Call, ExpireAll(S), UNCHANGED roster PROVE Goal
    <2>1. /\ callStatus'[c] = (IF c \in S THEN "missed" ELSE callStatus[c]) /\ \A e \in S : callStatus[e] = "invited"
          /\ joined' = joined /\ declined' = declined
      BY <1>3 DEF ExpireAll, Expirable, roster
    <2> QED
      BY <2>1 DEF AnsweredCall
  <1>4. ASSUME NEW d \in Call, FindDue(d) PROVE Goal
    BY <1>3, <1>4 DEF FindDue
  <1>5. CASE ExpireCalls
    <2>1. PICK locked \in SUBSET Overdue : TimeoutBatch(Overdue \ locked)
      BY <1>5 DEF ExpireCalls
    <2>2. Overdue \ locked \in SUBSET Call
      BY DEF Overdue
    <2> QED
      BY <1>3, <2>1, <2>2 DEF TimeoutBatch
  <1>6. ASSUME UNCHANGED <<callStatus, roster>> PROVE Goal
    BY <1>6 DEF AnsweredCall, roster
  <1>7. ASSUME NEW d \in Call, BecomesDue(d) PROVE Goal
    BY <1>6, <1>7 DEF BecomesDue
  <1>8. ASSUME NEW u \in User, NEW v \in Conversation, Leave(u, v) \/ Join(u, v) PROVE Goal
    BY <1>6, <1>8 DEF Leave, Join
  <1>9. CASE UNCHANGED callVars
    BY <1>6, <1>9 DEF callVars
  <1> QED
    BY <1>1, <1>2, <1>4, <1>5, <1>7, <1>8, <1>9 DEF CallNext

LEMMA RoomsStart ==
  ASSUME CallInit, RoomsInit
  PROVE  RoomInv
  <1>1. CallInv
    BY InitInv
  <1>2. RoomTypes
    BY DEF RoomsInit, RoomTypes, Column
  <1>3. PendingRequests
    BY DEF RoomsInit, PendingRequests, Done
  <1>4. \A c \in Call : ~mediaRoom[c] /\ \A u \in User : mediaToken[c][u] = 0 /\ inMedia[c][u] = 0
    BY DEF RoomsInit
  <1> QED
    BY <1>1, <1>2, <1>3, <1>4 DEF RoomInv

\* A step changes calls, rooms, tokens and requests; whatever it adds rests on
\* an answer, and what was there rests on an answer that stays.
LEMMA RoomsRest ==
  ASSUME RoomInv, [CallNext]_callVars, RoomTypes',
         NEW u \in User, \A w \in User : w # u => asking'[w] = asking[w],
         \/ asking'[u] = asking[u]
         \/ asking'[u].todo = "nothing"
         \/ \E c \in Call :
               /\ asking'[u].call = c
               /\ asking'[u].todo \in {"open", "issue"} => AnsweredBy(c, u)
               /\ asking'[u].todo = "ensure" => AnsweredCall(c)',
         \A c \in Call : mediaRoom'[c] => mediaRoom[c] \/ AnsweredCall(c),
         \A c \in Call, w \in User : mediaToken'[c][w] # 0 \/ inMedia'[c][w] # 0 =>
            mediaToken[c][w] # 0 \/ inMedia[c][w] # 0 \/ AnsweredBy(c, w)
  PROVE  RoomInv'
  <1>1. CallInv'
    BY NextInv DEF RoomInv
  <1>2. ASSUME NEW c \in Call, AnsweredCall(c)
        PROVE  AnsweredCall(c)' /\ \A w \in User : AnsweredBy(c, w) => AnsweredBy(c, w)'
    <2>1. AnsweredCall(c)' /\ joined[c] \subseteq joined'[c] /\ declined'[c] \cap joined[c] \subseteq declined[c]
      BY <1>2, AnswerStays DEF RoomInv
    <2>2. ASSUME NEW w \in User, AnsweredBy(c, w) PROVE AnsweredBy(c, w)'
      BY <2>1, <2>2 DEF AnsweredBy
    <2> QED
      BY <2>1, <2>2
  <1>3. \A c \in Call, w \in User : AnsweredBy(c, w) => AnsweredBy(c, w)'
    BY <1>2 DEF AnsweredBy
  <1>4. \A c \in Call : AnsweredCall(c) => AnsweredCall(c)'
    BY <1>2
  <1>5. ASSUME NEW w \in User
        PROVE  /\ asking'[w].todo # "nothing" => asking'[w].call \in Call
               /\ \A c \in Call : asking'[w].call = c =>
                     /\ asking'[w].todo \in {"open", "issue"} => AnsweredBy(c, w)'
                     /\ asking'[w].todo = "ensure" => AnsweredCall(c)'
    <2>1. CASE asking'[w] = asking[w]
      BY <1>3, <1>4, <2>1 DEF RoomInv, PendingRequests
    <2>2. CASE w = u /\ asking'[u].todo = "nothing"
      BY <2>2
    <2>3. CASE /\ w = u
               /\ \E c \in Call :
                     /\ asking'[u].call = c
                     /\ asking'[u].todo \in {"open", "issue"} => AnsweredBy(c, u)
                     /\ asking'[u].todo = "ensure" => AnsweredCall(c)'
      BY <1>3, <2>3
    <2> QED
      BY <2>1, <2>2, <2>3
  <1>6. PendingRequests'
    BY <1>5 DEF PendingRequests
  <1>7. \A c \in Call : mediaRoom'[c] => AnsweredCall(c)'
    BY <1>4 DEF RoomInv
  <1>8. \A c \in Call, w \in User : mediaToken'[c][w] # 0 \/ inMedia'[c][w] # 0 => AnsweredBy(c, w)'
    BY <1>3 DEF RoomInv
  <1> QED
    BY <1>1, <1>6, <1>7, <1>8 DEF RoomInv

\* One entry of such a column is written.
Written(f, g, d, w, n) == g = [f EXCEPT ![d][w] = n]

LEMMA PlaceWritten ==
  ASSUME Column(inMedia), NEW d \in Call, NEW w \in User, NEW n, Written(inMedia, inMedia', d, w, n)
  PROVE  Column(inMedia') /\ inMedia'[d][w] = n /\ \A c \in Call, u \in User : ~(c = d /\ u = w) => inMedia'[c][u] = inMedia[c][u]
  <1>1. inMedia' = [c \in Call |-> inMedia'[c]] /\ DOMAIN inMedia = Call /\ \A c \in Call : inMedia[c] = [u \in User |-> inMedia[c][u]]
    BY DEF Column, Written
  <1>2. ASSUME NEW c \in Call
        PROVE  /\ inMedia'[c] = [u \in User |-> inMedia'[c][u]]
               /\ \A u \in User : ~(c = d /\ u = w) => inMedia'[c][u] = inMedia[c][u]
    <2>1. inMedia'[c] = IF c = d THEN [inMedia[d] EXCEPT ![w] = n] ELSE inMedia[c]
      BY <1>1 DEF Written
    <2>2. CASE c = d
      BY <1>1, <2>1, <2>2
    <2>3. CASE c # d
      BY <1>1, <2>1, <2>3
    <2> QED
      BY <2>2, <2>3
  <1>3. Column(inMedia')
    <2>1. inMedia' = [c \in Call |-> inMedia'[c]] /\ \A c \in Call : inMedia'[c] = [u \in User |-> inMedia'[c][u]]
      BY <1>1, <1>2
    <2> QED
      BY <2>1 DEF Column
  <1>4. inMedia'[d][w] = n
    BY <1>1 DEF Written
  <1> QED
    BY <1>2, <1>3, <1>4

LEMMA TokenWritten ==
  ASSUME Column(mediaToken), NEW d \in Call, NEW w \in User, NEW n, Written(mediaToken, mediaToken', d, w, n)
  PROVE  Column(mediaToken') /\ mediaToken'[d][w] = n /\ \A c \in Call, u \in User : ~(c = d /\ u = w) => mediaToken'[c][u] = mediaToken[c][u]
  <1>1. mediaToken' = [c \in Call |-> mediaToken'[c]] /\ DOMAIN mediaToken = Call /\ \A c \in Call : mediaToken[c] = [u \in User |-> mediaToken[c][u]]
    BY DEF Column, Written
  <1>2. ASSUME NEW c \in Call
        PROVE  /\ mediaToken'[c] = [u \in User |-> mediaToken'[c][u]]
               /\ \A u \in User : ~(c = d /\ u = w) => mediaToken'[c][u] = mediaToken[c][u]
    <2>1. mediaToken'[c] = IF c = d THEN [mediaToken[d] EXCEPT ![w] = n] ELSE mediaToken[c]
      BY <1>1 DEF Written
    <2>2. CASE c = d
      BY <1>1, <2>1, <2>2
    <2>3. CASE c # d
      BY <1>1, <2>1, <2>3
    <2> QED
      BY <2>2, <2>3
  <1>3. Column(mediaToken')
    <2>1. mediaToken' = [c \in Call |-> mediaToken'[c]] /\ \A c \in Call : mediaToken'[c] = [u \in User |-> mediaToken'[c][u]]
      BY <1>1, <1>2
    <2> QED
      BY <2>1 DEF Column
  <1>4. mediaToken'[d][w] = n
    BY <1>1 DEF Written
  <1> QED
    BY <1>2, <1>3, <1>4

LEMMA RequestWritten ==
  ASSUME RoomTypes, NEW u \in User, NEW r, asking' = [asking EXCEPT ![u] = r]
  PROVE  asking' = [w \in User |-> asking'[w]] /\ asking'[u] = r /\ \A w \in User : w # u => asking'[w] = asking[w]
  BY DEF RoomTypes

\* What LiveKit is asked to do.
LEMMA RoomChanges ==
  ASSUME RoomTypes, NEW d \in Call, NEW w \in User,
         EnsureCallRoom(d) \/ DeleteCallRoom(d) \/ RemoveParticipant(d, w)
  PROVE  /\ mediaRoom' \in [Call -> BOOLEAN]
         /\ Column(inMedia')
         /\ \A c \in Call, u \in User : inMedia'[c][u] # 0 => inMedia[c][u] # 0
         /\ \A c \in Call : mediaRoom'[c] => mediaRoom[c] \/ (c = d /\ EnsureCallRoom(d))
  <1>1. CASE EnsureCallRoom(d)
    BY <1>1 DEF EnsureCallRoom, RoomTypes
  <1>2. CASE DeleteCallRoom(d)
    <2>1. /\ mediaRoom' = [mediaRoom EXCEPT ![d] = FALSE] /\ inMedia' = [inMedia EXCEPT ![d] = [u \in User |-> 0]]
          /\ mediaRoom \in [Call -> BOOLEAN] /\ DOMAIN inMedia = Call
      BY <1>2 DEF DeleteCallRoom, RoomTypes, Column
    <2>2. mediaRoom' \in [Call -> BOOLEAN] /\ \A c \in Call : mediaRoom'[c] => mediaRoom[c]
      BY <2>1
    <2>3. \A c \in Call : inMedia'[c] = IF c = d THEN [u \in User |-> 0] ELSE inMedia[c]
      BY <2>1
    <2>4. \A c \in Call : inMedia[c] = [u \in User |-> inMedia[c][u]]
      BY DEF RoomTypes, Column
    <2>5. inMedia' = [c \in Call |-> inMedia'[c]] /\ \A c \in Call : inMedia'[c] = [u \in User |-> inMedia'[c][u]]
      BY <2>1, <2>3, <2>4
    <2>6. Column(inMedia')
      BY <2>5 DEF Column
    <2>7. \A c \in Call, u \in User : inMedia'[c][u] # 0 => inMedia[c][u] # 0
      BY <2>3
    <2> QED
      BY <2>2, <2>6, <2>7
  <1>3. CASE RemoveParticipant(d, w)
    <2>1. mediaRoom' = mediaRoom /\ Written(inMedia, inMedia', d, w, 0)
      BY <1>3 DEF RemoveParticipant, Written
    <2>2. Column(inMedia) /\ mediaRoom \in [Call -> BOOLEAN]
      BY DEF RoomTypes
    <2>3. /\ Column(inMedia') /\ inMedia'[d][w] = 0
          /\ \A c \in Call, u \in User : ~(c = d /\ u = w) => inMedia'[c][u] = inMedia[c][u]
      BY <2>1, <2>2, PlaceWritten
    <2> QED
      BY <2>1, <2>2, <2>3
  <1> QED
    BY <1>1, <1>2, <1>3

\* A request for a call, repeated or not: the room is asked for once it is answered.
LEMMA CallActionKeeps ==
  ASSUME RoomInv, NEW c \in Call, NEW u \in User, NEW action \in {"accept", "reject", "cancel", "hangup", "end"}, callAction(c, u, action)
  PROVE  RoomInv'
  <1>1. /\ Transition(c, u, action) \/ (Repeats(c, u, action) /\ UNCHANGED callVars)
        /\ Leaves(u, AfterTransition(c, action, callStatus'[c]), c)
        /\ UNCHANGED <<mediaRoom, mediaToken, inMedia>>
    BY DEF callAction, mediaVars
  <1>2. [CallNext]_callVars
    <2>1. Transition(c, u, action) => CallRequest(c, u)
      BY DEF Transition, CallRequest
    <2> QED
      BY <1>1, <2>1 DEF CallNext
  <1>3. action = "accept" => AnsweredCall(c)'
    <2>1. CASE action = "accept" /\ Transition(c, u, action)
      <3>1. Move(c, "accepted", joined[c] \union {u}, declined[c], left[c])
        BY <2>1 DEF Transition, Accept
      <3>2. callStatus \in [Call -> CallStatus] /\ callStatus' = [callStatus EXCEPT ![c] = "accepted"]
        BY <3>1 DEF RoomInv, CallInv, CallTypeOK, Move
      <3> QED
        BY <3>2 DEF AnsweredCall
    <2>2. CASE action = "accept" /\ Repeats(c, u, action) /\ UNCHANGED callVars
      <3>1. callStatus' = callStatus
        BY <2>2 DEF callVars
      <3>2. u \in Invitees(c) /\ IF IsGroup(c) THEN u \in joined[c] ELSE callStatus[c] = "accepted"
        BY <2>2 DEF Repeats
      <3>3. CASE IsGroup(c)
        <4>1. u \in joined[c] /\ u # caller[c]
          BY <3>2, <3>3 DEF Invitees
        <4>2. callStatus[c] \in CallStatus /\ callStatus[c] # "invited" /\ callStatus[c] \notin {"missed", "rejected", "cancelled"}
          BY <4>1 DEF RoomInv, CallInv, CallTypeOK, Unanswered, AnsweredIsNotMissed
        <4>3. callStatus[c] # "none"
          BY <3>3, CallAssumption DEF RoomInv, CallInv, Unborn, IsGroup
        <4> QED
          BY <3>1, <4>2, <4>3 DEF AnsweredCall, CallStatus, Active, Terminal
      <3> QED
        BY <3>1, <3>2, <3>3 DEF AnsweredCall
    <2> QED
      BY <1>1, <2>1, <2>2
  <1> DEFINE todo == AfterTransition(c, action, callStatus'[c])
             r == IF todo = "nothing" THEN Done ELSE [todo |-> todo, call |-> c]
  <1>4. asking' = [asking EXCEPT ![u] = r]
    BY <1>1 DEF Leaves
  <1>5. todo \in {"nothing", "ensure", "delete", "remove"} /\ (todo = "ensure" => action = "accept")
    BY DEF AfterTransition
  <1>6. /\ todo = "nothing" => r.todo = "nothing"
        /\ todo # "nothing" => r.call = c /\ r.todo = todo
    BY DEF Done
  <1> HIDE DEF todo, r
  <1>7. asking' = [w \in User |-> asking'[w]] /\ asking'[u] = r /\ \A w \in User : w # u => asking'[w] = asking[w]
    BY <1>4, RequestWritten DEF RoomInv
  <1>8. RoomTypes'
    BY <1>1, <1>7 DEF RoomInv, RoomTypes
  <1>9. \/ asking'[u].todo = "nothing"
        \/ \E d \in Call :
               /\ asking'[u].call = d
               /\ asking'[u].todo \in {"open", "issue"} => AnsweredBy(d, u)
               /\ asking'[u].todo = "ensure" => AnsweredCall(d)'
    BY <1>3, <1>5, <1>6, <1>7
  <1> QED
    BY <1>1, <1>2, <1>7, <1>8, <1>9, RoomsRest

\* Steps that touch no call and no request.
LEMMA MediaKeeps ==
  ASSUME RoomInv, UNCHANGED <<callVars, asking>>, RoomTypes',
         \A c \in Call : mediaRoom'[c] => mediaRoom[c] \/ AnsweredCall(c),
         \A c \in Call, w \in User : mediaToken'[c][w] # 0 \/ inMedia'[c][w] # 0 =>
            mediaToken[c][w] # 0 \/ inMedia[c][w] # 0 \/ AnsweredBy(c, w)
  PROVE  RoomInv'
  <1>1. UNCHANGED <<callStatus, joined, declined>>
    BY DEF callVars, roster
  <1>2. CallInv'
    BY NextInv DEF RoomInv
  <1>3. \A c \in Call : AnsweredCall(c)' = AnsweredCall(c) /\ \A w \in User : AnsweredBy(c, w)' = AnsweredBy(c, w)
    BY <1>1 DEF AnsweredCall, AnsweredBy
  <1>4. PendingRequests'
    BY <1>1 DEF RoomInv, PendingRequests, AnsweredCall, AnsweredBy
  <1>5. \A c \in Call : mediaRoom'[c] => AnsweredCall(c)'
    BY <1>3 DEF RoomInv
  <1>6. \A c \in Call, w \in User : mediaToken'[c][w] # 0 \/ inMedia'[c][w] # 0 => AnsweredBy(c, w)'
    BY <1>3 DEF RoomInv
  <1> QED
    BY <1>2, <1>4, <1>5, <1>6 DEF RoomInv

\* LiveKit is asked by a request that goes on or ends, and it answers or not.
LEMMA LiveKitAsked ==
  ASSUME RoomInv, NEW u \in User, asking[u].todo \in {"ensure", "delete", "remove", "open"},
         LiveKitCall(u, asking[u].call) \/ UNCHANGED <<mediaRoom, inMedia>>,
         Finishes(u) \/ (asking[u].todo = "open" /\ Leaves(u, "issue", asking[u].call)), UNCHANGED <<callVars, mediaToken>>
  PROVE  RoomInv'
  <1> DEFINE c == asking[u].call
  <1>1. /\ c \in Call
        /\ asking[u].todo = "open" => AnsweredBy(c, u)
        /\ asking[u].todo = "ensure" => AnsweredCall(c)
    BY DEF RoomInv, PendingRequests
  <1>2. PICK r : /\ asking' = [asking EXCEPT ![u] = r]
                 /\ r = Done \/ (asking[u].todo = "open" /\ r = [todo |-> "issue", call |-> c])
    BY DEF Finishes, Leaves
  <1>3. r.todo = "nothing" \/ (asking[u].todo = "open" /\ r.todo = "issue" /\ r.call = c)
    BY <1>2 DEF Done
  <1>4. asking' = [w \in User |-> asking'[w]] /\ asking'[u] = r /\ \A w \in User : w # u => asking'[w] = asking[w]
    BY <1>2, RequestWritten DEF RoomInv
  <1>5. /\ mediaRoom' \in [Call -> BOOLEAN] /\ Column(inMedia')
        /\ \A d \in Call, w \in User : inMedia'[d][w] # 0 => inMedia[d][w] # 0
        /\ \A d \in Call : mediaRoom'[d] => mediaRoom[d] \/ AnsweredCall(d)
    <2>1. CASE UNCHANGED <<mediaRoom, inMedia>>
      BY <2>1 DEF RoomInv, RoomTypes
    <2>2. CASE LiveKitCall(u, c)
      <3>1. \/ EnsureCallRoom(c) /\ asking[u].todo \in {"ensure", "open"}
            \/ DeleteCallRoom(c) /\ asking[u].todo \notin {"ensure", "open"}
            \/ RemoveParticipant(c, u) /\ asking[u].todo \notin {"ensure", "open"}
        BY <2>2 DEF LiveKitCall
      <3> HIDE DEF c
      <3>2. /\ mediaRoom' \in [Call -> BOOLEAN] /\ Column(inMedia')
            /\ \A d \in Call, w \in User : inMedia'[d][w] # 0 => inMedia[d][w] # 0
            /\ \A d \in Call : mediaRoom'[d] => mediaRoom[d] \/ (d = c /\ EnsureCallRoom(c))
        BY <1>1, <3>1, RoomChanges DEF RoomInv
      <3>3. asking[u].todo \in {"ensure", "open"} => AnsweredCall(c)
        BY <1>1 DEF AnsweredBy
      <3>4. CASE asking[u].todo \in {"ensure", "open"}
        BY <3>2, <3>3, <3>4
      <3>5. CASE asking[u].todo \notin {"ensure", "open"}
        <4>1. \A d \in Call : mediaRoom'[d] => mediaRoom[d]
          <5>1. CASE DeleteCallRoom(c)
            BY <1>1, <5>1 DEF DeleteCallRoom, RoomInv, RoomTypes
          <5>2. CASE RemoveParticipant(c, u)
            BY <5>2 DEF RemoveParticipant
          <5> QED
            BY <3>1, <3>5, <5>1, <5>2
        <4> QED
          BY <3>2, <4>1
      <3> QED
        BY <3>4, <3>5
    <2> QED
      BY <2>1, <2>2
  <1>6. RoomTypes'
    BY <1>4, <1>5 DEF RoomInv, RoomTypes
  <1>7. \/ asking'[u].todo = "nothing"
        \/ \E d \in Call :
               /\ asking'[u].call = d
               /\ asking'[u].todo \in {"open", "issue"} => AnsweredBy(d, u)
               /\ asking'[u].todo = "ensure" => AnsweredCall(d)'
    BY <1>1, <1>3, <1>4
  <1>8. [CallNext]_callVars
    OBVIOUS
  <1>9. \A d \in Call, w \in User : mediaToken'[d][w] # 0 \/ inMedia'[d][w] # 0 =>
            mediaToken[d][w] # 0 \/ inMedia[d][w] # 0 \/ AnsweredBy(d, w)
    BY <1>5
  <1> QED
    BY <1>4, <1>5, <1>6, <1>7, <1>8, <1>9, RoomsRest

\* The token is asked for by who is in the call, and issued after the room was
\* made: the answer it rests on is still there.
LEMMA TokenKeeps ==
  ASSUME RoomInv, NEW u \in User, IssueParticipant(u) \/ \E c \in Call : livekitCallToken(c, u)
  PROVE  RoomInv'
  <1>1. ASSUME NEW c \in Call, livekitCallToken(c, u) PROVE RoomInv'
    <2>1. /\ asking' = [asking EXCEPT ![u] = [todo |-> "open", call |-> c]] /\ AnsweredBy(c, u)
          /\ UNCHANGED <<callVars, mediaRoom, mediaToken, inMedia>>
      BY <1>1 DEF livekitCallToken, Leaves, StillAccepted, callUserCanJoin, mediaVars, AnsweredBy, AnsweredCall
    <2> DEFINE r == [todo |-> "open", call |-> c]
    <2>2. r.todo = "open" /\ r.call = c
      OBVIOUS
    <2>3. asking' = [asking EXCEPT ![u] = r]
      BY <2>1
    <2> HIDE DEF r
    <2>4. asking' = [w \in User |-> asking'[w]] /\ asking'[u] = r /\ \A w \in User : w # u => asking'[w] = asking[w]
      BY <2>3, RequestWritten DEF RoomInv
    <2>5. RoomTypes'
      BY <2>1, <2>4 DEF RoomInv, RoomTypes
    <2>6. \/ asking'[u].todo = "nothing"
          \/ \E d \in Call :
                 /\ asking'[u].call = d
                 /\ asking'[u].todo \in {"open", "issue"} => AnsweredBy(d, u)
                 /\ asking'[u].todo = "ensure" => AnsweredCall(d)'
      BY <2>1, <2>2, <2>4
    <2>7. [CallNext]_callVars
      BY <2>1
    <2> QED
      BY <2>1, <2>4, <2>5, <2>6, <2>7, RoomsRest
  <1>2. CASE IssueParticipant(u)
    <2> DEFINE c == asking[u].call
    <2>1. c \in Call /\ AnsweredBy(c, u)
      BY <1>2 DEF IssueParticipant, RoomInv, PendingRequests
    <2>2. /\ asking' = [asking EXCEPT ![u] = Done] /\ UNCHANGED <<callVars, mediaRoom, inMedia>>
          /\ mediaToken' = mediaToken \/ Written(mediaToken, mediaToken', c, u, lpEpoch[u])
      BY <1>2 DEF IssueParticipant, Finishes, Written
    <2> HIDE DEF c
    <2>3. asking' = [w \in User |-> asking'[w]] /\ asking'[u] = Done /\ \A w \in User : w # u => asking'[w] = asking[w]
      BY <2>2, RequestWritten DEF RoomInv
    <2>4. Done.todo = "nothing"
      BY DEF Done
    <2>5. Column(mediaToken') /\ \A d \in Call, w \in User : ~(d = c /\ w = u) => mediaToken'[d][w] = mediaToken[d][w]
      <3>1. Column(mediaToken)
        BY DEF RoomInv, RoomTypes
      <3>2. CASE mediaToken' = mediaToken
        BY <3>1, <3>2
      <3>3. CASE Written(mediaToken, mediaToken', c, u, lpEpoch[u])
        BY <2>1, <3>1, <3>3, TokenWritten
      <3> QED
        BY <2>2, <3>2, <3>3
    <2>6. RoomTypes'
      BY <2>2, <2>3, <2>5 DEF RoomInv, RoomTypes
    <2>7. [CallNext]_callVars
      BY <2>2
    <2>8. \A d \in Call, w \in User : mediaToken'[d][w] # 0 \/ inMedia'[d][w] # 0 =>
              mediaToken[d][w] # 0 \/ inMedia[d][w] # 0 \/ AnsweredBy(d, w)
      BY <2>1, <2>2, <2>5
    <2> QED
      BY <2>2, <2>3, <2>4, <2>6, <2>7, <2>8, RoomsRest
  <1> QED
    BY <1>1, <1>2

LEMMA ConnectionKeeps ==
  ASSUME RoomInv, NEW c \in Call, NEW u \in User,
         \/ TokenExpires(c, u) \/ enterpriseCallSignal(c, u) \/ Connect(c, u)
         \/ GuardCloses(c, u) \/ ClientLeaves(c, u) \/ ClientIsTold(c, u)
  PROVE  RoomInv'
  <1>0. Column(mediaToken) /\ Column(inMedia)
    BY DEF RoomInv, RoomTypes
  <1>1. CASE TokenExpires(c, u)
    <2>1. UNCHANGED <<callVars, mediaRoom, inMedia, asking>> /\ Written(mediaToken, mediaToken', c, u, 0)
      BY <1>1 DEF TokenExpires, Written
    <2>2. /\ Column(mediaToken') /\ mediaToken'[c][u] = 0
          /\ \A d \in Call, w \in User : ~(d = c /\ w = u) => mediaToken'[d][w] = mediaToken[d][w]
      BY <1>0, <2>1, TokenWritten
    <2>3. RoomTypes'
      BY <2>1, <2>2 DEF RoomInv, RoomTypes
    <2> QED
      BY <2>1, <2>2, <2>3, MediaKeeps
  <1>2. CASE enterpriseCallSignal(c, u)
    <2>1. UNCHANGED <<callVars, mediaRoom, mediaToken, inMedia, asking>>
      BY <1>2 DEF enterpriseCallSignal
    <2>2. RoomTypes'
      BY <2>1 DEF RoomInv, RoomTypes
    <2> QED
      BY <2>1, <2>2, MediaKeeps
  \* The token that lets a user in is one that was issued.
  <1>3. CASE Connect(c, u)
    <2>1. PICK n : /\ Written(inMedia, inMedia', c, u, n) /\ (n = 0 \/ (n = mediaToken[c][u] /\ mediaToken[c][u] # 0))
                   /\ UNCHANGED <<callVars, mediaRoom, mediaToken, asking>>
      BY <1>3 DEF Connect, Written
    <2>2. /\ Column(inMedia') /\ inMedia'[c][u] = n
          /\ \A d \in Call, w \in User : ~(d = c /\ w = u) => inMedia'[d][w] = inMedia[d][w]
      BY <1>0, <2>1, PlaceWritten
    <2>3. RoomTypes'
      BY <2>1, <2>2 DEF RoomInv, RoomTypes
    <2> QED
      BY <2>1, <2>2, <2>3, MediaKeeps
  <1>4. ASSUME Written(inMedia, inMedia', c, u, 0), UNCHANGED <<callVars, mediaRoom, asking>>,
               mediaToken' = mediaToken \/ Written(mediaToken, mediaToken', c, u, 0)
        PROVE  RoomInv'
    <2>1. /\ Column(inMedia') /\ inMedia'[c][u] = 0
          /\ \A d \in Call, w \in User : ~(d = c /\ w = u) => inMedia'[d][w] = inMedia[d][w]
      BY <1>0, <1>4, PlaceWritten
    <2>2. Column(mediaToken') /\ \A d \in Call, w \in User : mediaToken'[d][w] # 0 => mediaToken[d][w] # 0
      <3>1. CASE mediaToken' = mediaToken
        BY <1>0, <3>1
      <3>2. CASE Written(mediaToken, mediaToken', c, u, 0)
        <4>1. /\ Column(mediaToken') /\ mediaToken'[c][u] = 0
              /\ \A d \in Call, w \in User : ~(d = c /\ w = u) => mediaToken'[d][w] = mediaToken[d][w]
          BY <1>0, <3>2, TokenWritten
        <4> QED
          BY <4>1
      <3> QED
        BY <1>4, <3>1, <3>2
    <2>3. RoomTypes'
      BY <1>4, <2>1, <2>2 DEF RoomInv, RoomTypes
    <2> QED
      BY <1>4, <2>1, <2>2, <2>3, MediaKeeps
  <1>5. CASE GuardCloses(c, u) \/ ClientLeaves(c, u)
    BY <1>4, <1>5 DEF GuardCloses, ClientLeaves, GoesOutside, Written
  <1>6. CASE ClientIsTold(c, u)
    BY <1>4, <1>6 DEF ClientIsTold, Written
  <1> QED
    BY <1>1, <1>2, <1>3, <1>5, <1>6

LEMMA RoomsNextKeeps ==
  ASSUME RoomInv, [RoomsNext]_roomsVars
  PROVE  RoomInv'
  <1>1. ASSUME [CallNext]_callVars, UNCHANGED <<mediaRoom, mediaToken, inMedia, asking>> PROVE RoomInv'
    <2>1. RoomTypes'
      BY <1>1 DEF RoomInv, RoomTypes
    <2>2. CallInv'
      BY <1>1, NextInv DEF RoomInv
    <2>3. \A c \in Call : (AnsweredCall(c) => AnsweredCall(c)') /\ \A w \in User : AnsweredBy(c, w) => AnsweredBy(c, w)'
      <3> SUFFICES ASSUME NEW c \in Call, AnsweredCall(c) PROVE AnsweredCall(c)' /\ \A w \in User : AnsweredBy(c, w) => AnsweredBy(c, w)'
        BY DEF AnsweredBy
      <3>1. AnsweredCall(c)' /\ joined[c] \subseteq joined'[c] /\ declined'[c] \cap joined[c] \subseteq declined[c]
        BY <1>1, AnswerStays DEF RoomInv
      <3> QED
        BY <3>1 DEF AnsweredBy
    <2>4. PendingRequests'
      BY <1>1, <2>3 DEF RoomInv, PendingRequests
    <2>5. /\ \A c \in Call : mediaRoom'[c] => AnsweredCall(c)'
          /\ \A c \in Call, w \in User : mediaToken'[c][w] # 0 \/ inMedia'[c][w] # 0 => AnsweredBy(c, w)'
      BY <1>1, <2>3 DEF RoomInv
    <2> QED
      BY <2>1, <2>2, <2>4, <2>5 DEF RoomInv
  <1>2. CASE CallsElsewhere
    <2>1. CallNext
      BY <1>2 DEF CallsElsewhere, CallNext
    <2> QED
      BY <1>1, <1>2, <2>1 DEF CallsElsewhere, roomVars
  <1>3. ASSUME NEW u \in User, RoomStep(u) \/ RoomStepFails(u) PROVE RoomInv'
    <2>1. /\ asking[u].todo \in {"ensure", "delete", "remove", "open"} /\ UNCHANGED <<callVars, mediaToken>>
          /\ LiveKitCall(u, asking[u].call) \/ UNCHANGED <<mediaRoom, inMedia>>
          /\ Finishes(u) \/ (asking[u].todo = "open" /\ Leaves(u, "issue", asking[u].call))
      BY <1>3 DEF RoomStep, RoomStepFails
    <2> QED
      BY <2>1, LiveKitAsked
  <1>4. ASSUME NEW u \in User, IssueParticipant(u) PROVE RoomInv'
    BY <1>4, TokenKeeps
  <1>5. ASSUME NEW u \in User, SwitchAway(u) \/ ComeBack(u) PROVE RoomInv'
    BY <1>1, <1>5 DEF SwitchAway, ComeBack, mediaVars
  <1>6. ASSUME NEW c \in Call, NEW u \in User, NEW action \in {"accept", "reject", "cancel", "hangup", "end"}, callAction(c, u, action)
        PROVE  RoomInv'
    BY <1>6, CallActionKeeps
  <1>7. ASSUME NEW c \in Call, NEW u \in User, livekitCallToken(c, u) PROVE RoomInv'
    BY <1>7, TokenKeeps
  <1>8. ASSUME NEW c \in Call, NEW u \in User,
               \/ TokenExpires(c, u) \/ enterpriseCallSignal(c, u) \/ Connect(c, u)
               \/ GuardCloses(c, u) \/ ClientLeaves(c, u) \/ ClientIsTold(c, u)
        PROVE  RoomInv'
    BY <1>8, ConnectionKeeps
  <1>9. ASSUME NEW c \in Call, EmptyTimeout(c) PROVE RoomInv'
    <2>1. UNCHANGED <<callVars, mediaToken, inMedia, asking>> /\ mediaRoom' = [mediaRoom EXCEPT ![c] = FALSE]
      BY <1>9 DEF EmptyTimeout
    <2>2. mediaRoom' \in [Call -> BOOLEAN] /\ \A d \in Call : mediaRoom'[d] => mediaRoom[d]
      BY <2>1 DEF RoomInv, RoomTypes
    <2>3. RoomTypes'
      BY <2>1, <2>2 DEF RoomInv, RoomTypes
    <2> QED
      BY <2>1, <2>2, <2>3, MediaKeeps
  <1>10. ASSUME NEW c \in Call, AdminRemoves(c) PROVE RoomInv'
    <2>1. UNCHANGED <<callVars, mediaToken, asking>> /\ (DeleteCallRoom(c) \/ \E u \in User : RemoveParticipant(c, u))
      BY <1>10 DEF AdminRemoves
    <2>2. /\ mediaRoom' \in [Call -> BOOLEAN] /\ Column(inMedia')
          /\ \A d \in Call, w \in User : inMedia'[d][w] # 0 => inMedia[d][w] # 0
          /\ \A d \in Call : mediaRoom'[d] => mediaRoom[d]
      <3>1. CASE DeleteCallRoom(c)
        <4>1. /\ mediaRoom' = [mediaRoom EXCEPT ![c] = FALSE] /\ inMedia' = [inMedia EXCEPT ![c] = [u \in User |-> 0]]
              /\ Column(inMedia) /\ mediaRoom \in [Call -> BOOLEAN]
          BY <3>1 DEF DeleteCallRoom, RoomInv, RoomTypes
        <4>2. mediaRoom' \in [Call -> BOOLEAN] /\ \A d \in Call : mediaRoom'[d] => mediaRoom[d]
          BY <4>1
        <4>3. DOMAIN inMedia = Call /\ \A d \in Call : inMedia[d] = [u \in User |-> inMedia[d][u]]
          BY <4>1 DEF Column
        <4>4. \A d \in Call : inMedia'[d] = IF d = c THEN [u \in User |-> 0] ELSE inMedia[d]
          BY <4>1, <4>3
        <4>5. inMedia' = [d \in Call |-> inMedia'[d]] /\ \A d \in Call : inMedia'[d] = [u \in User |-> inMedia'[d][u]]
          BY <4>1, <4>3, <4>4
        <4>6. Column(inMedia')
          BY <4>5 DEF Column
        <4> QED
          BY <4>2, <4>4, <4>6
      <3>2. ASSUME NEW u \in User, RemoveParticipant(c, u)
            PROVE  /\ mediaRoom' \in [Call -> BOOLEAN] /\ Column(inMedia')
                   /\ \A d \in Call, w \in User : inMedia'[d][w] # 0 => inMedia[d][w] # 0
                   /\ \A d \in Call : mediaRoom'[d] => mediaRoom[d]
        <4>1. mediaRoom' = mediaRoom
          BY <3>2 DEF RemoveParticipant
        <4> QED
          BY <3>2, <4>1, RoomChanges DEF RoomInv
      <3> QED
        BY <2>1, <3>1, <3>2
    <2>3. RoomTypes'
      BY <2>1, <2>2 DEF RoomInv, RoomTypes
    <2> QED
      BY <2>1, <2>2, <2>3, MediaKeeps
  <1>11. CASE UNCHANGED roomsVars
    BY <1>1, <1>11 DEF roomsVars, roomVars
  <1> QED
    BY <1>2, <1>3, <1>4, <1>5, <1>6, <1>7, <1>8, <1>9, <1>10, <1>11 DEF RoomsNext

\* A token for a call, a place in its room and the room itself rest on an answer
\* that was given and not taken back, whatever came between the look at the call,
\* the requests to LiveKit and the use of the token.
THEOREM MediaForWhoAnswered == RoomsSpec => []OnlyWhoAnswered
  <1>1. CallInit /\ RoomsInit => RoomInv
    BY RoomsStart
  <1>2. RoomInv /\ [RoomsNext]_roomsVars => RoomInv'
    BY RoomsNextKeeps
  <1>3. RoomInv => OnlyWhoAnswered
    BY DEF RoomInv, OnlyWhoAnswered, AnsweredBy, AnsweredCall
  <1> QED
    BY <1>1, <1>2, <1>3, PTL DEF RoomsSpec

---------------------------------------------------------------------------
(* The calls in memory.  The tables of CallSession are columns of `held': a  *)
(* call that moves changes one row of some columns, one that is due goes to  *)
(* "missed", a call that is held has the members as its participants, and a  *)
(* direct call that still rings was not declined.                            *)

CallFields == {"st", "caller", "ids", "joined", "declined", "left"}

CallRowsInv ==
    /\ room \in {GroupRoom, DirectRoom} /\ (room = DirectRoom => Cardinality(people) = 2)
    /\ people \subseteq Party
    /\ held = [c \in CallId |-> held[c]]
    /\ \A c \in CallId :
        /\ DOMAIN held[c] = CallFields
        /\ held[c].st \in {"none"} \union Ongoing \union Ended
        /\ Calls(c) => held[c].caller \in people /\ held[c].ids = people
        /\ ~Calls(c) => held[c] = NoCall
        /\ room = DirectRoom /\ held[c].st = "invited" => held[c].declined = {}

LEMMA SameCardinality ==
  ASSUME NEW S
  PROVE  DirectCalls!Cardinality(S) = Cardinality(S) /\ GroupCalls!Cardinality(S) = Cardinality(S)
  BY DEF DirectCalls!Cardinality, GroupCalls!Cardinality, Cardinality

LEMMA OneRowOf ==
  ASSUME NEW S, NEW f, NEW g, NEW c \in S, NEW y, f = [x \in S |-> f[x]], g = [x \in S |-> g[x]],
         g[c] = y, \A x \in S : x # c => g[x] = f[x]
  PROVE  g = [f EXCEPT ![c] = y]
  OBVIOUS

LEMMA OneCallMoves ==
  ASSUME CallRowsInv, PartyAssumption, NEW c \in CallId, NEW r, r.st \in Ongoing \union Ended,
         held[c].st \in Ongoing, UNCHANGED <<room, people, expired>>, held' = [held EXCEPT ![c] = r],
         r.caller = held[c].caller, r.ids = held[c].ids
  PROVE  /\ room = GroupRoom => GroupCalls!Move(c, r.st, r.joined, r.declined, r.left)
         /\ room = DirectRoom => DirectCalls!Move(c, r.st, r.joined, r.declined, r.left)
  <1>1. held'[c] = r /\ \A x \in CallId : x # c => held'[x] = held[x]
    BY DEF CallRowsInv
  <1>2. /\ StatusColumn' = [StatusColumn EXCEPT ![c] = r.st]
        /\ JoinedColumn' = [JoinedColumn EXCEPT ![c] = r.joined]
        /\ DeclinedColumn' = [DeclinedColumn EXCEPT ![c] = r.declined]
        /\ LeftColumn' = [LeftColumn EXCEPT ![c] = r.left]
    <2>1. StatusColumn' = [StatusColumn EXCEPT ![c] = r.st]
      <3>1. /\ StatusColumn = [x \in CallId |-> StatusColumn[x]] /\ StatusColumn' = [x \in CallId |-> StatusColumn'[x]]
            /\ StatusColumn'[c] = r.st /\ \A x \in CallId : x # c => StatusColumn'[x] = StatusColumn[x]
        BY <1>1 DEF StatusColumn
      <3> QED
        BY <3>1, OneRowOf
    <2>2. JoinedColumn' = [JoinedColumn EXCEPT ![c] = r.joined]
      <3>1. /\ JoinedColumn = [x \in CallId |-> JoinedColumn[x]] /\ JoinedColumn' = [x \in CallId |-> JoinedColumn'[x]]
            /\ JoinedColumn'[c] = r.joined /\ \A x \in CallId : x # c => JoinedColumn'[x] = JoinedColumn[x]
        BY <1>1 DEF JoinedColumn
      <3> QED
        BY <3>1, OneRowOf
    <2>3. DeclinedColumn' = [DeclinedColumn EXCEPT ![c] = r.declined]
      <3>1. /\ DeclinedColumn = [x \in CallId |-> DeclinedColumn[x]] /\ DeclinedColumn' = [x \in CallId |-> DeclinedColumn'[x]]
            /\ DeclinedColumn'[c] = r.declined /\ \A x \in CallId : x # c => DeclinedColumn'[x] = DeclinedColumn[x]
        BY <1>1 DEF DeclinedColumn
      <3> QED
        BY <3>1, OneRowOf
    <2>4. LeftColumn' = [LeftColumn EXCEPT ![c] = r.left]
      <3>1. /\ LeftColumn = [x \in CallId |-> LeftColumn[x]] /\ LeftColumn' = [x \in CallId |-> LeftColumn'[x]]
            /\ LeftColumn'[c] = r.left /\ \A x \in CallId : x # c => LeftColumn'[x] = LeftColumn[x]
        BY <1>1 DEF LeftColumn
      <3> QED
        BY <3>1, OneRowOf
    <2> QED
      BY <2>1, <2>2, <2>3, <2>4
  <1>3. UNCHANGED <<ConvColumn, CallerColumn, PartyColumn, DueColumn>>
    <2>1. \A x \in CallId : /\ Calls(x)' <=> Calls(x)
                            /\ held'[x].caller = held[x].caller /\ held'[x].ids = held[x].ids
      BY <1>1 DEF Calls, Ongoing, Ended
    <2> QED
      BY <2>1 DEF ConvColumn, CallerColumn, PartyColumn, DueColumn
  <1>4. HistoryColumn' = [x \in CallId |-> IF x \in {c} /\ HistoryColumn[x] = "none" /\ r.st \in Ended
                                          THEN r.st ELSE HistoryColumn[x]]
    BY <1>1 DEF HistoryColumn, Ongoing, Ended
  <1>5. /\ CallerColumn[c] \in people /\ ConvColumn[c] = room
    BY DEF CallerColumn, ConvColumn, CallRowsInv, Calls, Ongoing
  <1>6. CASE room = GroupRoom
    <2>1. GroupCalls!RecordPossible(c)
      BY <1>5, <1>6 DEF GroupCalls!RecordPossible, GroupCalls!IsGroup
    <2>2. HistoryColumn' = GroupCalls!Recorded(HistoryColumn, {c}, r.st)
      BY <1>4 DEF GroupCalls!Recorded, GroupCalls!Terminal, Ended
    <2> QED
      BY <1>2, <1>3, <1>6, <2>1, <2>2, PartyAssumption DEF GroupCalls!Move, GroupCalls!callIdentity, PartyAssumption
  <1>7. CASE room = DirectRoom
    <2>1. DirectCalls!RecordPossible(c)
      <3>1. [v \in {DirectRoom} |-> people][ConvColumn[c]] = people
        BY <1>5, <1>7
      <3>2. Cardinality(people) = 2
        BY <1>7 DEF CallRowsInv
      <3> QED
        BY <1>5, <3>1, <3>2, SameCardinality DEF DirectCalls!RecordPossible
    <2>2. HistoryColumn' = DirectCalls!Recorded(HistoryColumn, {c}, r.st)
      BY <1>4 DEF DirectCalls!Recorded, DirectCalls!Terminal, Ended
    <2> QED
      BY <1>2, <1>3, <1>7, <2>1, <2>2, PartyAssumption DEF DirectCalls!Move, DirectCalls!callIdentity, PartyAssumption
  <1> QED
    BY <1>6, <1>7

\* The calls S, which are due, become missed.
LEMMA SomeExpire ==
  ASSUME CallRowsInv, PartyAssumption, NEW S, \A d \in S : d \in CallId /\ PastDue(d),
         held' = [d \in CallId |-> IF d \in S THEN Missed(held[d]) ELSE held[d]], UNCHANGED <<room, people, expired>>
  PROVE  /\ room = GroupRoom => /\ GroupCalls!ExpireAll(S)
                                /\ UNCHANGED <<GroupCalls!callIdentity, GroupCalls!roster, DueColumn>>
         /\ room = DirectRoom => /\ DirectCalls!ExpireAll(S)
                                 /\ UNCHANGED <<DirectCalls!callIdentity, DirectCalls!roster, DueColumn>>
  <1>1. \A d \in S : /\ CallerColumn[d] \in people /\ ConvColumn[d] = room
                     /\ StatusColumn[d] = "invited" /\ DueColumn[d] /\ HistoryColumn[d] = "none"
    BY DEF CallerColumn, ConvColumn, StatusColumn, DueColumn, HistoryColumn, CallRowsInv, Calls, PastDue, Ended
  <1>2. \A d \in CallId : /\ held'[d].caller = held[d].caller /\ held'[d].ids = held[d].ids
                          /\ held'[d].joined = held[d].joined /\ held'[d].declined = held[d].declined
                          /\ held'[d].left = held[d].left
                          /\ held'[d].st = IF d \in S THEN "missed" ELSE held[d].st
    BY DEF CallRowsInv, CallFields, Missed
  <1>3. UNCHANGED <<ConvColumn, CallerColumn, PartyColumn, JoinedColumn, DeclinedColumn, LeftColumn, DueColumn>>
    <2>1. \A d \in CallId : Calls(d)' <=> Calls(d)
      BY <1>2 DEF Calls, PastDue
    <2>2. UNCHANGED <<ConvColumn, CallerColumn, PartyColumn>>
      BY <1>2, <2>1 DEF ConvColumn, CallerColumn, PartyColumn
    <2>3. UNCHANGED <<JoinedColumn, DeclinedColumn, LeftColumn, DueColumn>>
      BY <1>2 DEF JoinedColumn, DeclinedColumn, LeftColumn, DueColumn
    <2> QED
      BY <2>2, <2>3
  <1>4. /\ StatusColumn' = [d \in CallId |-> IF d \in S THEN "missed" ELSE StatusColumn[d]]
        /\ HistoryColumn' = [d \in CallId |-> IF d \in S THEN "missed" ELSE HistoryColumn[d]]
    <2>1. StatusColumn' = [d \in CallId |-> IF d \in S THEN "missed" ELSE StatusColumn[d]]
      BY <1>2 DEF StatusColumn
    <2>2. HistoryColumn' = [d \in CallId |-> IF d \in S THEN "missed" ELSE HistoryColumn[d]]
      BY <1>2 DEF HistoryColumn, Ended
    <2> QED
      BY <2>1, <2>2
  <1>5. CASE room = GroupRoom
    <2>1. \A d \in S : GroupCalls!Expirable(d) /\ GroupCalls!RecordPossible(d)
      BY <1>1, <1>5 DEF GroupCalls!RecordPossible, GroupCalls!IsGroup, GroupCalls!Expirable
    <2>2. HistoryColumn' = GroupCalls!Recorded(HistoryColumn, S, "missed")
      BY <1>1, <1>4 DEF GroupCalls!Recorded, GroupCalls!Terminal
    <2> QED
      BY <1>3, <1>4, <1>5, <2>1, <2>2, PartyAssumption DEF GroupCalls!ExpireAll, GroupCalls!callIdentity, GroupCalls!roster, PartyAssumption
  <1>6. CASE room = DirectRoom
    <2>1. ASSUME NEW d \in S PROVE DirectCalls!Expirable(d) /\ DirectCalls!RecordPossible(d)
      <3>1. [v \in {DirectRoom} |-> people][ConvColumn[d]] = people /\ Cardinality(people) = 2
        BY <1>1, <1>6 DEF CallRowsInv
      <3> QED
        BY <1>1, <3>1, SameCardinality DEF DirectCalls!RecordPossible, DirectCalls!Expirable
    <2>2. HistoryColumn' = DirectCalls!Recorded(HistoryColumn, S, "missed")
      BY <1>1, <1>4 DEF DirectCalls!Recorded, DirectCalls!Terminal
    <2> QED
      BY <1>3, <1>4, <1>6, <2>1, <2>2, PartyAssumption DEF DirectCalls!ExpireAll, DirectCalls!callIdentity, DirectCalls!roster, PartyAssumption
  <1> QED
    BY <1>5, <1>6

\* The columns of a call that goes on.
LEMMA RowOf ==
  ASSUME CallRowsInv, PartyAssumption, NEW c \in CallId, held[c].st \in Ongoing
  PROVE  /\ StatusColumn[c] = held[c].st /\ CallerColumn[c] = held[c].caller /\ PartyColumn[c] = held[c].ids
         /\ JoinedColumn[c] = held[c].joined /\ DeclinedColumn[c] = held[c].declined /\ LeftColumn[c] = held[c].left
         /\ room = GroupRoom => GroupCalls!IsGroup(c) /\ GroupCalls!Invitees(c) = Asked(c)
         /\ room = DirectRoom => /\ ~DirectCalls!IsGroup(c) /\ DirectCalls!Invitees(c) = Asked(c)
                                 /\ \A u \in Asked(c) : Asked(c) = {u}
  <1>1. /\ StatusColumn[c] = held[c].st /\ CallerColumn[c] = held[c].caller /\ PartyColumn[c] = held[c].ids
        /\ JoinedColumn[c] = held[c].joined /\ DeclinedColumn[c] = held[c].declined /\ LeftColumn[c] = held[c].left
        /\ ConvColumn[c] = room /\ held[c].ids = people /\ held[c].caller \in people
    BY DEF StatusColumn, CallerColumn, PartyColumn, JoinedColumn, DeclinedColumn, LeftColumn, ConvColumn, CallRowsInv, Calls, Ongoing
  <1>2. room = GroupRoom => GroupCalls!IsGroup(c) /\ GroupCalls!Invitees(c) = Asked(c)
    BY <1>1 DEF GroupCalls!IsGroup, GroupCalls!Invitees, Asked
  <1>3. ~DirectCalls!IsGroup(c) /\ DirectCalls!Invitees(c) = Asked(c)
    BY <1>1 DEF DirectCalls!IsGroup, DirectCalls!Invitees, Asked
  <1>4. ASSUME room = DirectRoom, NEW u \in Asked(c) PROVE Asked(c) = {u}
    <2>1. IsFiniteSet(people) /\ Cardinality(people) = 2
      BY <1>4, FS_Subset DEF CallRowsInv, PartyAssumption
    <2>2. Cardinality(people \ {held[c].caller}) = Cardinality(people) - 1
      BY <1>1, <2>1, FS_RemoveElement
    <2>3. \E x : people \ {held[c].caller} = {x}
      <3>1. IsFiniteSet(people \ {held[c].caller}) /\ Cardinality(people \ {held[c].caller}) = 1
        BY <2>1, <2>2, FS_RemoveElement, <1>1
      <3> QED
        BY <3>1, FS_Singleton
    <2> QED
      BY <1>1, <2>3 DEF Asked
  <1> QED
    BY <1>1, <1>2, <1>3, <1>4

CallAgrees == IF room = GroupRoom THEN GroupCalls!CallNext ELSE DirectCalls!CallNext

LEMMA RequestAgrees ==
  ASSUME CallRowsInv, PartyAssumption, NEW c \in CallId, NEW u \in Party,
         room = GroupRoom => GroupCalls!CallRequest(c, u), room = DirectRoom => DirectCalls!CallRequest(c, u)
  PROVE  CallAgrees
  BY DEF CallRowsInv, PartyAssumption, CallAgrees, GroupCalls!CallNext, DirectCalls!CallNext

LEMMA AcceptAgrees ==
  ASSUME CallRowsInv, PartyAssumption, NEW c \in CallId, NEW u \in Party, AcceptMemory(c, u)
  PROVE  CallAgrees
  <1> DEFINE r == [held[c] EXCEPT !.st = "accepted", !.joined = @ \union {u}]
  <1>1. /\ u \in Asked(c) /\ held[c].st \in Ongoing
        /\ room = GroupRoom => u \notin held[c].joined \union held[c].declined \union held[c].left
        /\ room # GroupRoom => held[c].st = "invited"
        /\ held' = [held EXCEPT ![c] = r] /\ UNCHANGED <<room, people, expired>>
    BY DEF AcceptMemory, Set, IsGroupCall, Ongoing
  <1>2. /\ r.st = "accepted" /\ r.joined = held[c].joined \union {u} /\ r.declined = held[c].declined
        /\ r.left = held[c].left /\ r.caller = held[c].caller /\ r.ids = held[c].ids
    BY DEF CallRowsInv, CallFields
  <1> HIDE DEF r
  <1>3. /\ room = GroupRoom => GroupCalls!Move(c, r.st, r.joined, r.declined, r.left)
        /\ room = DirectRoom => DirectCalls!Move(c, r.st, r.joined, r.declined, r.left)
    BY <1>1, <1>2, OneCallMoves DEF Ongoing
  <1>4. room = GroupRoom => GroupCalls!Accept(c, u)
    BY <1>1, <1>2, <1>3, RowOf DEF GroupCalls!Accept, GroupCalls!Active, Ongoing
  <1>5. room = DirectRoom => DirectCalls!Accept(c, u)
    BY <1>1, <1>2, <1>3, RowOf, PartyAssumption DEF DirectCalls!Accept, DirectCalls!Active, PartyAssumption
  <1> QED
    BY <1>4, <1>5, RequestAgrees DEF GroupCalls!CallRequest, DirectCalls!CallRequest

LEMMA DeclineAgrees ==
  ASSUME CallRowsInv, PartyAssumption, NEW c \in CallId, NEW u \in Party, DeclineMemory(c, u),
         u \in Asked(c), held[c].st \in Ongoing, room = DirectRoom => held[c].st = "invited"
  PROVE  /\ room = GroupRoom => GroupCalls!Decline(c, u)
         /\ room = DirectRoom => DirectCalls!Decline(c, u)
  <1> DEFINE all == held[c].declined \union {u}
             over == held[c].st = "invited" /\ (~IsGroupCall \/ Asked(c) \subseteq all)
             r == [held[c] EXCEPT !.declined = all, !.st = IF over THEN "rejected" ELSE @]
  <1>1. held' = [held EXCEPT ![c] = r] /\ UNCHANGED <<room, people, expired>>
    BY DEF DeclineMemory, Set, allMemoryCallInviteesDeclined
  <1>2. /\ r.st = (IF over THEN "rejected" ELSE held[c].st) /\ r.joined = held[c].joined /\ r.declined = all
        /\ r.left = held[c].left /\ r.caller = held[c].caller /\ r.ids = held[c].ids
    BY DEF CallRowsInv, CallFields
  <1> HIDE DEF r
  <1>3. /\ room = GroupRoom => GroupCalls!Move(c, r.st, r.joined, r.declined, r.left)
        /\ room = DirectRoom => DirectCalls!Move(c, r.st, r.joined, r.declined, r.left)
    BY <1>1, <1>2, OneCallMoves DEF Ongoing, Ended
  <1>4. room = GroupRoom => GroupCalls!Decline(c, u)
    BY <1>2, <1>3, RowOf DEF GroupCalls!Decline, IsGroupCall
  <1>5. room = DirectRoom => DirectCalls!Decline(c, u)
    BY <1>2, <1>3, RowOf, PartyAssumption DEF DirectCalls!Decline, IsGroupCall, PartyAssumption
  <1> QED
    BY <1>4, <1>5

LEMMA CancelAgrees ==
  ASSUME CallRowsInv, PartyAssumption, NEW c \in CallId, NEW u \in Party, CancelMemory(c, u)
  PROVE  /\ room = GroupRoom => GroupCalls!Cancel(c, u)
         /\ room = DirectRoom => DirectCalls!Cancel(c, u)
  <1> DEFINE r == [held[c] EXCEPT !.st = "cancelled"]
  <1>1. /\ u = held[c].caller /\ held[c].st = "invited"
        /\ held' = [held EXCEPT ![c] = r] /\ UNCHANGED <<room, people, expired>>
    BY DEF CancelMemory, Set
  <1>2. /\ r.st = "cancelled" /\ r.joined = held[c].joined /\ r.declined = held[c].declined
        /\ r.left = held[c].left /\ r.caller = held[c].caller /\ r.ids = held[c].ids
    BY DEF CallRowsInv, CallFields
  <1> HIDE DEF r
  <1>3. /\ room = GroupRoom => GroupCalls!Move(c, r.st, r.joined, r.declined, r.left)
        /\ room = DirectRoom => DirectCalls!Move(c, r.st, r.joined, r.declined, r.left)
    BY <1>1, <1>2, OneCallMoves DEF Ongoing, Ended
  <1> QED
    BY <1>1, <1>2, <1>3, RowOf DEF GroupCalls!Cancel, DirectCalls!Cancel, Ongoing

LEMMA AnswerAgrees ==
  ASSUME CallRowsInv, PartyAssumption, NEW c \in CallId, NEW u \in Party,
         RejectMemory(c, u) \/ CancelMemory(c, u) \/ EndMemory(c, u)
  PROVE  CallAgrees
  <1>1. CASE RejectMemory(c, u)
    <2>1. /\ u \in Asked(c) /\ held[c].st \in Ongoing /\ DeclineMemory(c, u)
          /\ room # GroupRoom => held[c].st = "invited"
          /\ room = GroupRoom => u \notin held[c].declined \union held[c].joined
      BY <1>1 DEF RejectMemory, MayReject, IsGroupCall, Ongoing
    <2>2. ASSUME room = DirectRoom PROVE held[c].st = "invited" /\ u \notin held[c].declined
      BY <2>1, <2>2, PartyAssumption DEF CallRowsInv, PartyAssumption
    <2>3. room = GroupRoom => GroupCalls!Reject(c, u)
      BY <2>1, DeclineAgrees, RowOf, PartyAssumption DEF GroupCalls!Reject, GroupCalls!Active, Ongoing, PartyAssumption
    <2>4. room = DirectRoom => DirectCalls!Reject(c, u)
      BY <2>1, <2>2, DeclineAgrees, RowOf, PartyAssumption DEF DirectCalls!Reject, PartyAssumption
    <2> QED
      BY <2>3, <2>4, RequestAgrees DEF GroupCalls!CallRequest, DirectCalls!CallRequest
  <1>2. CASE CancelMemory(c, u)
    BY <1>2, CancelAgrees, RequestAgrees DEF GroupCalls!CallRequest, DirectCalls!CallRequest
  <1>3. CASE EndMemory(c, u)
    <2>1. held[c].st = "invited" /\ u \notin held[c].left
      BY <1>3 DEF EndMemory
    <2>2. CASE CancelMemory(c, u)
      BY <2>2, <1>2
    <2>3. CASE u \in Asked(c) /\ DeclineMemory(c, u)
      <3>1. /\ room = GroupRoom => GroupCalls!EndUnanswered(c, u)
            /\ room = DirectRoom => DirectCalls!EndUnanswered(c, u)
        BY <2>1, <2>3, DeclineAgrees, RowOf DEF GroupCalls!EndUnanswered, DirectCalls!EndUnanswered, Ongoing
      <3> QED
        BY <3>1, RequestAgrees DEF GroupCalls!CallRequest, DirectCalls!CallRequest
    <2> QED
      BY <1>3, <2>2, <2>3 DEF EndMemory
  <1> QED
    BY <1>1, <1>2, <1>3

LEMMA HangupAgrees ==
  ASSUME CallRowsInv, PartyAssumption, NEW c \in CallId, NEW u \in Party, HangupMemory(c, u)
  PROVE  CallAgrees
  <1> DEFINE s == IF IsGroupCall /\ u # held[c].caller THEN held[c].st ELSE "ended"
             r == [held[c] EXCEPT !.left = @ \union {u}, !.st = s]
  <1>1. /\ held[c].st = "accepted" /\ u \in held[c].ids \ held[c].left /\ (IsGroupCall => u \in held[c].joined)
        /\ held' = [held EXCEPT ![c] = r] /\ UNCHANGED <<room, people, expired>>
    BY DEF HangupMemory, Set
  <1>2. /\ r.st = (IF room = GroupRoom /\ u # held[c].caller THEN "accepted" ELSE "ended")
        /\ r.joined = held[c].joined /\ r.declined = held[c].declined
        /\ r.left = held[c].left \union {u} /\ r.caller = held[c].caller /\ r.ids = held[c].ids
    BY <1>1 DEF CallRowsInv, CallFields, IsGroupCall
  <1> HIDE DEF r, s
  <1>3. /\ room = GroupRoom => GroupCalls!Move(c, r.st, r.joined, r.declined, r.left)
        /\ room = DirectRoom => DirectCalls!Move(c, r.st, r.joined, r.declined, r.left)
    BY <1>1, <1>2, OneCallMoves DEF Ongoing, Ended
  <1>4. room = GroupRoom => GroupCalls!Hangup(c, u)
    BY <1>1, <1>2, <1>3, RowOf DEF GroupCalls!Hangup, IsGroupCall, Ongoing
  <1>5. room = DirectRoom => DirectCalls!Hangup(c, u)
    BY <1>1, <1>2, <1>3, RowOf, PartyAssumption DEF DirectCalls!Hangup, IsGroupCall, Ongoing, PartyAssumption
  <1> QED
    BY <1>4, <1>5, RequestAgrees DEF GroupCalls!CallRequest, DirectCalls!CallRequest

\* An invitation that conflicts leaves only what is due missed; another one
\* finds every call in the conversation over or due.
LEMMA InviteAgrees ==
  ASSUME CallRowsInv, PartyAssumption, NEW c \in CallId, NEW u \in Party, InviteMemoryCall(u, c)
  PROVE  CallAgrees \/ UNCHANGED memCallVars
  <1> DEFINE S == {d \in CallId : PastDue(d)}
             after == [d \in CallId |-> IF PastDue(d) THEN Missed(held[d]) ELSE held[d]]
             new == [st |-> "invited", caller |-> u, ids |-> people, joined |-> {u}, declined |-> {}, left |-> {}]
             busy == \E d \in CallId : after[d].st \in Ongoing
  <1>1. /\ ~Calls(c) /\ u \in people /\ Cardinality(people) \in 2..9 /\ UNCHANGED <<room, people, expired>>
        /\ held' = IF busy THEN after ELSE [after EXCEPT ![c] = new]
    BY DEF InviteMemoryCall
  <1>2. after = [d \in CallId |-> IF d \in S THEN Missed(held[d]) ELSE held[d]]
    OBVIOUS
  <1>3. CASE busy
    <2>1. CASE S = {}
      <3>1. held' = held
        BY <1>1, <1>2, <1>3, <2>1 DEF CallRowsInv
      <3> QED
        BY <1>1, <3>1 DEF memCallVars
    <2>2. CASE S # {}
      <3>1. /\ room = GroupRoom => /\ GroupCalls!ExpireAll(S)
                                   /\ UNCHANGED <<GroupCalls!callIdentity, GroupCalls!roster, DueColumn>>
            /\ room = DirectRoom => /\ DirectCalls!ExpireAll(S)
                                    /\ UNCHANGED <<DirectCalls!callIdentity, DirectCalls!roster, DueColumn>>
        BY <1>1, <1>2, <1>3, SomeExpire
      <3>2. \A d \in CallId : d \in S <=> StatusColumn[d] = "invited" /\ DueColumn[d]
        BY DEF PastDue, StatusColumn, DueColumn
      <3>3. GroupCalls!Overdue = S /\ DirectCalls!Overdue = S
        BY <3>2 DEF GroupCalls!Overdue, DirectCalls!Overdue, GroupCalls!Expirable, DirectCalls!Expirable
      <3> HIDE DEF S
      <3>4. {} \in SUBSET S /\ S \ {} = S
        OBVIOUS
      <3>5. room = GroupRoom => GroupCalls!ExpireCalls
        BY <1>1, <2>2, <3>1, <3>3, <3>4 DEF GroupCalls!ExpireCalls, GroupCalls!TimeoutBatch
      <3>6. room = DirectRoom => DirectCalls!ExpireCalls
        BY <1>1, <2>2, <3>1, <3>3, <3>4 DEF DirectCalls!ExpireCalls, DirectCalls!TimeoutBatch
      <3> QED
        BY <3>5, <3>6 DEF CallRowsInv, CallAgrees, GroupCalls!CallNext, DirectCalls!CallNext
    <2> QED
      BY <2>1, <2>2
  <1>4. CASE ~busy
    <2>1. /\ held' = [d \in CallId |-> IF d = c THEN new ELSE after[d]]
          /\ \A d \in CallId : /\ d \in S => held[d].st = "invited" /\ d \in expired
                               /\ d \notin S => held[d].st \notin Ongoing /\ after[d] = held[d]
          /\ c \notin S /\ held[c] = NoCall
      BY <1>1, <1>4 DEF PastDue, CallRowsInv, Calls
    <2>2. \A d \in CallId \ {c} : /\ held'[d].caller = held[d].caller /\ held'[d].ids = held[d].ids
                                  /\ held'[d].joined = held[d].joined /\ held'[d].declined = held[d].declined
                                  /\ held'[d].left = held[d].left
                                  /\ held'[d].st = IF d \in S THEN "missed" ELSE held[d].st
      BY <2>1 DEF CallRowsInv, CallFields, Missed
    <2>3. /\ held'[c].st = "invited" /\ held'[c].caller = u /\ held'[c].ids = people
          /\ held'[c].joined = {u} /\ held'[c].declined = {} /\ held'[c].left = {}
      BY <2>1
    <2> HIDE DEF S, after, new, busy
    <2>4. /\ StatusColumn[c] = "none" /\ HistoryColumn[c] = "none"
          /\ StatusColumn' = [d \in CallId |-> IF d \in S THEN "missed" ELSE IF d = c THEN "invited" ELSE StatusColumn[d]]
          /\ HistoryColumn' = [d \in CallId |-> IF d \in S THEN "missed" ELSE HistoryColumn[d]]
      <3>1. StatusColumn[c] = "none" /\ HistoryColumn[c] = "none"
        BY <2>1 DEF StatusColumn, HistoryColumn, NoCall, Ended
      <3>2. StatusColumn' = [d \in CallId |-> IF d \in S THEN "missed" ELSE IF d = c THEN "invited" ELSE StatusColumn[d]]
        BY <2>1, <2>2, <2>3 DEF StatusColumn
      <3>3. HistoryColumn' = [d \in CallId |-> IF d \in S THEN "missed" ELSE HistoryColumn[d]]
        BY <2>1, <2>2, <2>3 DEF HistoryColumn, Ended, NoCall
      <3> QED
        BY <3>1, <3>2, <3>3
    <2>5. /\ ConvColumn' = [ConvColumn EXCEPT ![c] = room] /\ CallerColumn' = [CallerColumn EXCEPT ![c] = u]
          /\ PartyColumn' = [PartyColumn EXCEPT ![c] = people] /\ JoinedColumn' = [JoinedColumn EXCEPT ![c] = {u}]
      <3>1. ConvColumn' = [ConvColumn EXCEPT ![c] = room]
        <4>1. /\ ConvColumn = [x \in CallId |-> ConvColumn[x]] /\ ConvColumn' = [x \in CallId |-> ConvColumn'[x]]
              /\ ConvColumn'[c] = room /\ \A x \in CallId : x # c => ConvColumn'[x] = ConvColumn[x]
          BY <1>1, <2>1, <2>2, <2>3 DEF ConvColumn, Calls
        <4> QED
          BY <4>1, OneRowOf
      <3>2. CallerColumn' = [CallerColumn EXCEPT ![c] = u]
        <4>1. /\ CallerColumn = [x \in CallId |-> CallerColumn[x]] /\ CallerColumn' = [x \in CallId |-> CallerColumn'[x]]
              /\ CallerColumn'[c] = u /\ \A x \in CallId : x # c => CallerColumn'[x] = CallerColumn[x]
          BY <2>2, <2>3 DEF CallerColumn
        <4> QED
          BY <4>1, OneRowOf
      <3>3. PartyColumn' = [PartyColumn EXCEPT ![c] = people]
        <4>1. /\ PartyColumn = [x \in CallId |-> PartyColumn[x]] /\ PartyColumn' = [x \in CallId |-> PartyColumn'[x]]
              /\ PartyColumn'[c] = people /\ \A x \in CallId : x # c => PartyColumn'[x] = PartyColumn[x]
          BY <2>2, <2>3 DEF PartyColumn
        <4> QED
          BY <4>1, OneRowOf
      <3>4. JoinedColumn' = [JoinedColumn EXCEPT ![c] = {u}]
        <4>1. /\ JoinedColumn = [x \in CallId |-> JoinedColumn[x]] /\ JoinedColumn' = [x \in CallId |-> JoinedColumn'[x]]
              /\ JoinedColumn'[c] = {u} /\ \A x \in CallId : x # c => JoinedColumn'[x] = JoinedColumn[x]
          BY <2>2, <2>3 DEF JoinedColumn
        <4> QED
          BY <4>1, OneRowOf
      <3> QED
        BY <3>1, <3>2, <3>3, <3>4
    <2>6. UNCHANGED <<DeclinedColumn, LeftColumn, DueColumn>>
      <3>1. \A d \in CallId : held'[d].declined = held[d].declined /\ held'[d].left = held[d].left
        <4>1. held[c].declined = {} /\ held[c].left = {}
          BY <2>1 DEF NoCall
        <4> QED
          BY <2>2, <2>3, <4>1
      <3>2. DeclinedColumn' = DeclinedColumn /\ LeftColumn' = LeftColumn
        BY <3>1 DEF DeclinedColumn, LeftColumn
      <3>3. DueColumn' = DueColumn
        BY <1>1 DEF DueColumn
      <3> QED
        BY <3>2, <3>3
    <2>7. \A d \in CallId : d \in S <=> ConvColumn[d] = room /\ StatusColumn[d] \in Ongoing
      BY <2>1, PartyAssumption DEF ConvColumn, StatusColumn, Calls, Ongoing, CallRowsInv, PartyAssumption
    <2>8. \A d \in S : /\ CallerColumn[d] \in people /\ ConvColumn[d] = room
                       /\ StatusColumn[d] = "invited" /\ DueColumn[d] /\ HistoryColumn[d] = "none"
      BY <2>1 DEF S, CallerColumn, ConvColumn, StatusColumn, DueColumn, HistoryColumn, CallRowsInv, Calls, Ended
    <2>9. CASE room = GroupRoom
      <3>1. GroupCalls!ActiveIn(GroupRoom) = S
        BY <2>7, <2>9 DEF S, GroupCalls!ActiveIn, GroupCalls!Active, Ongoing
      <3>2. \A d \in S : GroupCalls!Expirable(d) /\ GroupCalls!RecordPossible(d)
        BY <2>8, <2>9 DEF GroupCalls!RecordPossible, GroupCalls!IsGroup, GroupCalls!Expirable
      <3>3. HistoryColumn' = GroupCalls!Recorded(HistoryColumn, S, "missed")
        BY <2>4, <2>8 DEF GroupCalls!Recorded, GroupCalls!Terminal
      <3>4. [v \in {GroupRoom} |-> people][GroupRoom] = people
        OBVIOUS
      <3>5. GroupCalls!Invite(u, GroupRoom, c)
        BY <1>1, <2>4, <2>5, <2>6, <2>9, <3>1, <3>2, <3>3, <3>4, SameCardinality DEF GroupCalls!Invite
      <3> QED
        BY <2>9, <3>5 DEF CallAgrees, GroupCalls!CallNext
    <2>10. CASE room = DirectRoom
      <3>1. DirectCalls!ActiveIn(DirectRoom) = S
        BY <2>7, <2>10 DEF S, DirectCalls!ActiveIn, DirectCalls!Active, Ongoing
      <3>2. ASSUME NEW d \in S PROVE DirectCalls!Expirable(d) /\ DirectCalls!RecordPossible(d)
        <4>1. [v \in {DirectRoom} |-> people][ConvColumn[d]] = people /\ Cardinality(people) = 2
          BY <2>8, <2>10 DEF CallRowsInv
        <4> QED
          BY <2>8, <4>1, SameCardinality DEF DirectCalls!RecordPossible, DirectCalls!Expirable
      <3>3. HistoryColumn' = DirectCalls!Recorded(HistoryColumn, S, "missed")
        BY <2>4, <2>8 DEF DirectCalls!Recorded, DirectCalls!Terminal
      <3>4. [v \in {DirectRoom} |-> people][DirectRoom] = people
        OBVIOUS
      <3>5. DirectCalls!Invite(u, DirectRoom, c)
        BY <1>1, <2>4, <2>5, <2>6, <2>10, <3>1, <3>2, <3>3, <3>4, SameCardinality DEF DirectCalls!Invite
      <3> QED
        BY <2>10, <3>5, PartyAssumption DEF CallAgrees, DirectCalls!CallNext, PartyAssumption
    <2> QED
      BY <2>9, <2>10 DEF CallRowsInv
  <1> QED
    BY <1>3, <1>4

LEMMA TimeAgrees ==
  ASSUME CallRowsInv, PartyAssumption, NEW c \in CallId, NEW u \in Party, TimePasses(c) \/ FindMissed(c, u)
  PROVE  CallAgrees
  <1>1. CASE TimePasses(c)
    <2>1. /\ held[c].st # "none" /\ c \notin expired /\ expired' = expired \union {c}
          /\ UNCHANGED <<room, people, held>>
      BY <1>1 DEF TimePasses, Calls
    <2>2. DueColumn' = [DueColumn EXCEPT ![c] = TRUE]
      <3>1. /\ DueColumn = [x \in CallId |-> DueColumn[x]] /\ DueColumn' = [x \in CallId |-> DueColumn'[x]]
            /\ DueColumn'[c] = TRUE /\ \A x \in CallId : x # c => DueColumn'[x] = DueColumn[x]
        <4>1. \A x \in CallId : DueColumn[x] = (x \in expired) /\ DueColumn'[x] = (x \in expired')
          BY Zenon DEF DueColumn
        <4>2. \A x \in CallId : x # c => (x \in expired') = (x \in expired)
          BY <2>1
        <4>3. (c \in expired') = TRUE
          BY <2>1
        <4>4. DueColumn = [x \in CallId |-> DueColumn[x]] /\ DueColumn' = [x \in CallId |-> DueColumn'[x]]
          BY Zenon DEF DueColumn
        <4> QED
          BY <4>1, <4>2, <4>3, <4>4, Zenon
      <3> QED
        BY <3>1, OneRowOf
    <2>3. StatusColumn[c] # "none" /\ ~DueColumn[c]
      BY <2>1 DEF StatusColumn, DueColumn
    <2>4. UNCHANGED <<StatusColumn, ConvColumn, CallerColumn, PartyColumn, JoinedColumn, DeclinedColumn, LeftColumn, HistoryColumn>>
      BY <2>1 DEF StatusColumn, ConvColumn, CallerColumn, PartyColumn, JoinedColumn, DeclinedColumn, LeftColumn, HistoryColumn, Calls
    <2>5. room = GroupRoom => GroupCalls!BecomesDue(c)
      BY <2>1, <2>2, <2>3, <2>4 DEF GroupCalls!BecomesDue, GroupCalls!callIdentity, GroupCalls!roster
    <2>6. room = DirectRoom => DirectCalls!BecomesDue(c)
      BY <2>1, <2>2, <2>3, <2>4 DEF DirectCalls!BecomesDue, DirectCalls!callIdentity, DirectCalls!roster
    <2> QED
      BY <2>5, <2>6 DEF CallRowsInv, CallAgrees, GroupCalls!CallNext, DirectCalls!CallNext
  <1>2. CASE FindMissed(c, u)
    <2>1. PastDue(c) /\ held' = [held EXCEPT ![c] = Missed(held[c])] /\ UNCHANGED <<room, people, expired>>
      BY <1>2 DEF FindMissed, Set
    <2>2. held' = [d \in CallId |-> IF d \in {c} THEN Missed(held[d]) ELSE held[d]]
      BY <2>1 DEF CallRowsInv
    <2>3. /\ room = GroupRoom => /\ GroupCalls!ExpireAll({c})
                                 /\ UNCHANGED <<GroupCalls!callIdentity, GroupCalls!roster, DueColumn>>
          /\ room = DirectRoom => /\ DirectCalls!ExpireAll({c})
                                  /\ UNCHANGED <<DirectCalls!callIdentity, DirectCalls!roster, DueColumn>>
      BY <2>1, <2>2, SomeExpire
    <2>4. StatusColumn[c] = "invited" /\ DueColumn[c]
      BY <2>1 DEF PastDue, StatusColumn, DueColumn
    <2>5. room = GroupRoom => GroupCalls!FindDue(c)
      BY <2>1, <2>3, <2>4 DEF GroupCalls!FindDue, GroupCalls!Expirable
    <2>6. room = DirectRoom => DirectCalls!FindDue(c)
      BY <2>1, <2>3, <2>4 DEF DirectCalls!FindDue, DirectCalls!Expirable
    <2> QED
      BY <2>5, <2>6 DEF CallRowsInv, CallAgrees, GroupCalls!CallNext, DirectCalls!CallNext
  <1> QED
    BY <1>1, <1>2

\* What keeps the rows as the table has them: one of them changes, some are missed.
LEMMA OneRowStays ==
  ASSUME CallRowsInv, NEW c \in CallId, NEW r, held' = [held EXCEPT ![c] = r], UNCHANGED <<room, people, expired>>,
         DOMAIN r = CallFields, r.st \in Ongoing \union Ended, r.caller \in people, r.ids = people,
         room = DirectRoom /\ r.st = "invited" => r.declined = {}
  PROVE  CallRowsInv'
  <1>1. held' = [x \in CallId |-> held'[x]] /\ held'[c] = r /\ \A x \in CallId : x # c => held'[x] = held[x]
    BY DEF CallRowsInv
  <1>2. Calls(c)' /\ \A x \in CallId : x # c => (Calls(x)' <=> Calls(x))
    BY <1>1 DEF Calls, Ongoing, Ended
  <1> QED
    BY <1>1, <1>2 DEF CallRowsInv

\* A request of a user moves one call that goes on and keeps its shape.
LEMMA RequestKeepsRows ==
  ASSUME CallRowsInv, PartyAssumption, NEW c \in CallId, NEW u \in Party,
         \/ FindMissed(c, u) \/ AcceptMemory(c, u) \/ RejectMemory(c, u)
         \/ CancelMemory(c, u) \/ EndMemory(c, u) \/ HangupMemory(c, u)
  PROVE  CallRowsInv'
  <1> DEFINE k == held[c]
  <1>1. ASSUME k.st \in Ongoing, NEW r, Set(c, r), DOMAIN r = CallFields, r.caller = k.caller, r.ids = k.ids,
               r.st \in Ongoing \union Ended, room = DirectRoom /\ r.st = "invited" => r.declined = {}
        PROVE  CallRowsInv'
    <2>1. k.caller \in people /\ k.ids = people
      BY <1>1 DEF CallRowsInv, Calls, Ongoing
    <2> QED
      BY <1>1, <2>1, OneRowStays DEF Set
  <1>2. DOMAIN k = CallFields
    BY DEF CallRowsInv
  <1>3. CASE FindMissed(c, u)
    <2> DEFINE r == Missed(k)
    <2>1. DOMAIN r = CallFields /\ r.caller = k.caller /\ r.ids = k.ids /\ r.st = "missed"
      BY <1>2 DEF Missed, CallFields
    <2> HIDE DEF r
    <2>2. Set(c, r) /\ k.st = "invited"
      BY <1>3 DEF FindMissed, PastDue, r
    <2> QED
      BY <1>1, <2>1, <2>2 DEF Ongoing, Ended
  <1>4. CASE AcceptMemory(c, u)
    <2> DEFINE r == [k EXCEPT !.st = "accepted", !.joined = @ \union {u}]
    <2>1. DOMAIN r = CallFields /\ r.caller = k.caller /\ r.ids = k.ids /\ r.st = "accepted"
      BY <1>2 DEF CallFields
    <2>2. Set(c, r) /\ k.st \in Ongoing
      BY <1>4 DEF AcceptMemory, Ongoing
    <2> HIDE DEF r
    <2> QED
      BY <1>1, <2>1, <2>2 DEF Ongoing, Ended
  <1>5. ASSUME DeclineMemory(c, u), k.st \in Ongoing, room = DirectRoom => k.st = "invited" PROVE CallRowsInv'
    <2> DEFINE all == k.declined \union {u}
               over == k.st = "invited" /\ (~IsGroupCall \/ allMemoryCallInviteesDeclined(c, all))
               r == [k EXCEPT !.declined = all, !.st = IF over THEN "rejected" ELSE @]
    <2>1. DOMAIN r = CallFields /\ r.caller = k.caller /\ r.ids = k.ids /\ r.st = IF over THEN "rejected" ELSE k.st
      BY <1>2 DEF CallFields
    <2>2. Set(c, r)
      BY <1>5 DEF DeclineMemory
    <2>3. room = DirectRoom => over
      BY <1>5, PartyAssumption DEF IsGroupCall, PartyAssumption
    <2> HIDE DEF r, over
    <2> QED
      BY <1>1, <1>5, <2>1, <2>2, <2>3 DEF Ongoing, Ended
  <1>6. CASE RejectMemory(c, u)
    BY <1>5, <1>6, PartyAssumption DEF RejectMemory, MayReject, IsGroupCall, Ongoing, PartyAssumption
  <1>7. CASE CancelMemory(c, u)
    <2> DEFINE r == [k EXCEPT !.st = "cancelled"]
    <2>1. DOMAIN r = CallFields /\ r.caller = k.caller /\ r.ids = k.ids /\ r.st = "cancelled"
      BY <1>2 DEF CallFields
    <2>2. Set(c, r) /\ k.st = "invited"
      BY <1>7 DEF CancelMemory
    <2> HIDE DEF r
    <2> QED
      BY <1>1, <2>1, <2>2 DEF Ongoing, Ended
  <1>8. CASE EndMemory(c, u)
    BY <1>5, <1>7, <1>8 DEF EndMemory, Ongoing
  <1>9. CASE HangupMemory(c, u)
    <2> DEFINE s == IF IsGroupCall /\ u # k.caller THEN k.st ELSE "ended"
               r == [k EXCEPT !.left = @ \union {u}, !.st = s]
    <2>1. DOMAIN r = CallFields /\ r.caller = k.caller /\ r.ids = k.ids /\ r.st = s
      BY <1>2 DEF CallFields
    <2>2. Set(c, r) /\ k.st = "accepted" /\ s \in {"accepted", "ended"}
      BY <1>9 DEF HangupMemory
    <2> HIDE DEF r, s
    <2> QED
      BY <1>1, <2>1, <2>2 DEF Ongoing, Ended
  <1> QED
    BY <1>3, <1>4, <1>6, <1>7, <1>8, <1>9

LEMMA InviteKeepsRows ==
  ASSUME CallRowsInv, PartyAssumption, NEW c \in CallId, NEW u \in Party, InviteMemoryCall(u, c)
  PROVE  CallRowsInv'
  <1> DEFINE after == [d \in CallId |-> IF PastDue(d) THEN Missed(held[d]) ELSE held[d]]
             new == [st |-> "invited", caller |-> u, ids |-> people, joined |-> {u}, declined |-> {}, left |-> {}]
  <1>1. /\ u \in people /\ UNCHANGED <<room, people, expired>>
        /\ held' = after \/ held' = [after EXCEPT ![c] = new]
    BY DEF InviteMemoryCall
  <1>2. held' = [d \in CallId |-> held'[d]] /\ \A d \in CallId : held'[d] = after[d] \/ held'[d] = new
    BY <1>1
  <1>3. ASSUME NEW d \in CallId
        PROVE  /\ DOMAIN held'[d] = CallFields
               /\ held'[d].st \in {"none"} \union Ongoing \union Ended
               /\ held'[d].st # "none" => held'[d].caller \in people /\ held'[d].ids = people
               /\ held'[d].st = "none" => held'[d] = NoCall
               /\ room = DirectRoom /\ held'[d].st = "invited" => held'[d].declined = {}
    <2>1. CASE held'[d] = new
      BY <1>1, <2>1 DEF Ongoing, CallFields
    <2>2. CASE held'[d] = held[d]
      BY <2>2 DEF CallRowsInv, Calls
    <2>3. CASE PastDue(d) /\ held'[d] = Missed(held[d])
      BY <2>3 DEF CallRowsInv, CallFields, Calls, PastDue, Missed, Ended
    <2> QED
      BY <1>2, <2>1, <2>2, <2>3
  <1> HIDE DEF after, new
  <1> QED
    BY <1>1, <1>2, <1>3 DEF CallRowsInv, Calls

\* Every request to the calls in memory has an effect that the same request, or
\* the timeout worker, has in the database; so whatever CallSession promises of
\* its steps holds of the calls in memory.
THEOREM MemoryCallsLikeTheTable == MemoryCallsSpec => MemoryCallsAgree
  <1> USE PartyAssumption
  <1>1. MemoryCallsInit => CallRowsInv
    BY DEF MemoryCallsInit, CallRowsInv, CallFields, Calls, NoCall
  <1>2. CallRowsInv /\ [MemoryCallsNext]_memCallVars => CallRowsInv' /\ [CallAgrees \/ UNCHANGED memCallVars]_memCallVars
    <2> SUFFICES ASSUME CallRowsInv, MemoryCallsNext \/ UNCHANGED memCallVars
                 PROVE  CallRowsInv' /\ (CallAgrees \/ UNCHANGED memCallVars)
      OBVIOUS
    <2>1. CASE UNCHANGED memCallVars
      BY <2>1 DEF CallRowsInv, Calls, memCallVars
    <2>2. ASSUME NEW c \in CallId, TimePasses(c) PROVE CallRowsInv' /\ CallAgrees
      <3>1. CallRowsInv'
        BY <2>2 DEF TimePasses, CallRowsInv, Calls
      <3>2. \E u : u \in Party
        <4>1. CASE Party = {}
          <5>1. people = {}
            BY <4>1 DEF CallRowsInv
          <5>2. held[c].caller \in people
            BY <2>2 DEF TimePasses, CallRowsInv
          <5> QED
            BY <5>1, <5>2
        <4> QED
          BY <4>1
      <3> QED
        BY <2>2, <3>1, <3>2, TimeAgrees
    <2>3. ASSUME NEW c \in CallId, NEW u \in Party,
                 \/ FindMissed(c, u) \/ AcceptMemory(c, u) \/ RejectMemory(c, u)
                 \/ CancelMemory(c, u) \/ EndMemory(c, u) \/ HangupMemory(c, u)
          PROVE  CallRowsInv' /\ CallAgrees
      BY <2>3, RequestKeepsRows, TimeAgrees, AcceptAgrees, AnswerAgrees, HangupAgrees
    <2>4. ASSUME NEW c \in CallId, NEW u \in Party, InviteMemoryCall(u, c)
          PROVE  CallRowsInv' /\ (CallAgrees \/ UNCHANGED memCallVars)
      BY <2>4, InviteKeepsRows, InviteAgrees
    <2> QED
      BY <2>1, <2>2, <2>3, <2>4 DEF MemoryCallsNext
  <1> QED
    BY <1>1, <1>2, PTL DEF MemoryCallsSpec, MemoryCallsAgree, CallAgrees
=============================================================================
