------------------------------ MODULE CallRooms ------------------------------
(* The media rooms of calls in LiveKit.  A request first changes the call in *)
(* the database, then LiveKit, in a call of its own that may fail, be late,  *)
(* or never be made; rooms are not created by who comes in (auto_create is   *)
(* false), and LiveKit closes a room that stays empty.  With enterprises the *)
(* signalling connection runs through the server, which looks before, after, *)
(* and then every second whether the user may be there; without them only    *)
(* the client knows that it has to go.                                       *)
EXTENDS CallSession

CONSTANTS
    Roaming,        \* users who switch to another enterprise and come back
    MaxEpoch,       \* bound: the generations of an identity
    MaxMishap       \* bound: repeated requests, slow clients of a call that goes on,
                    \* removals by the console, calls of LiveKit without an answer

ASSUME RoomAssumption ==
    Roaming \subseteq User /\ MaxEpoch \in Nat \ {0} /\ MaxMishap \in Nat

VARIABLES
    enterprise,    \* the server runs for an enterprise
    lpEpoch,       \* lp_identity: the generation of each user here
    lpActive,      \* lp_identity: who is here
    mediaRoom,     \* the room of a call exists
    mediaToken,    \* generation in the token u holds for call c, 0 without one
    knocking,      \* the call whose connection the server has allowed and not opened
    inMedia,       \* generation with which u is in the room of c, 0 outside
    asking,        \* what a user's request has left to do
    mishaps        \* mishaps so far

roomVars == <<enterprise, lpEpoch, lpActive, mediaRoom, mediaToken, knocking, inMedia,
              asking, mishaps>>
identityVars == <<enterprise, lpEpoch, lpActive>>
mediaVars == <<mediaRoom, mediaToken, knocking, inMedia>>

Done == [todo |-> "nothing", call |-> CHOOSE c \in Call : TRUE]

RoomsInit ==
    /\ enterprise \in BOOLEAN
    /\ lpEpoch = [u \in User |-> 1] /\ lpActive = User
    /\ mediaRoom = [c \in Call |-> FALSE]
    /\ mediaToken = [c \in Call |-> [u \in User |-> 0]]
    /\ knocking = [u \in User |-> Nobody]
    /\ inMedia = [c \in Call |-> [u \in User |-> 0]]
    /\ asking = [u \in User |-> Done]
    /\ mishaps = 0

Leaves(u, todo, c) ==
    asking' = [asking EXCEPT ![u] = IF todo = "nothing" THEN Done ELSE [todo |-> todo, call |-> c]]
Finishes(u) == asking' = [asking EXCEPT ![u] = Done]

Mishap == mishaps < MaxMishap /\ mishaps' = mishaps + 1

(***************************************************************************)
(* Requests: the call first.                                               *)
(***************************************************************************)
\* What TransitionCall answers again without a change, whatever came since.
Repeats(c, u, action) ==
    /\ u \in party[c]
    /\ CASE action = "accept" -> u \in Invitees(c) /\ IF IsGroup(c) THEN u \in joined[c]
                                                      ELSE callStatus[c] = "accepted"
         [] action = "reject" -> u \in declined[c] /\ (IsGroup(c) \/ callStatus[c] = "rejected")
         [] action = "cancel" -> u = caller[c] /\ callStatus[c] = "cancelled"
         [] OTHER -> IF IsGroup(c) THEN u \in left[c] \/ callStatus[c] = "ended"
                     ELSE callStatus[c] \in Terminal \ {"missed"}

Transition(c, u, action) ==
    CASE action = "accept" -> Accept(c, u)
      [] action = "reject" -> Reject(c, u)
      [] action = "cancel" -> Cancel(c, u)
      [] action = "hangup" -> Hangup(c, u)
      [] OTHER -> Hangup(c, u) \/ EndUnanswered(c, u)

\* Every acceptance makes sure of the room; the room goes with the call.
AfterTransition(c, action, s) ==
    IF action = "accept" THEN "ensure"
    ELSE IF s \in Terminal THEN "delete"
    ELSE IF action \in {"hangup", "end"} THEN "remove"
    ELSE "nothing"

callAction(c, u, action) ==
    /\ asking[u] = Done
    /\ \/ Transition(c, u, action) /\ mishaps' = mishaps
       \/ Repeats(c, u, action) /\ Mishap /\ UNCHANGED callVars
    /\ Leaves(u, AfterTransition(c, action, callStatus'[c]), c)
    /\ UNCHANGED <<identityVars, mediaVars>>

callUserCanJoin(c, u) == u \in joined[c] \ (declined[c] \cup left[c])

\* A plausible slip: the caller gets a token while the call rings.
AnsweredOrRinging(c) == callStatus[c] \in Active
StillAccepted(c) == callStatus[c] = "accepted"

livekitCallToken(c, u) ==
    /\ asking[u] = Done /\ StillAccepted(c) /\ callUserCanJoin(c, u)
    /\ Leaves(u, "open", c)
    /\ UNCHANGED <<callVars, identityVars, mediaVars, mishaps>>

(***************************************************************************)
(* Requests: LiveKit next.                                                 *)
(***************************************************************************)

EnsureCallRoom(c) == mediaRoom' = [mediaRoom EXCEPT ![c] = TRUE] /\ inMedia' = inMedia

DeleteCallRoom(c) ==
    /\ mediaRoom' = [mediaRoom EXCEPT ![c] = FALSE]
    /\ inMedia' = [inMedia EXCEPT ![c] = [u \in User |-> 0]]

RemoveParticipant(c, u) == inMedia' = [inMedia EXCEPT ![c][u] = 0] /\ mediaRoom' = mediaRoom

LiveKitCall(u, c) ==
    CASE asking[u].todo \in {"ensure", "open"} -> EnsureCallRoom(c)
      [] asking[u].todo = "delete" -> DeleteCallRoom(c)
      [] OTHER -> RemoveParticipant(c, u)

RoomStep(u) ==
    /\ asking[u].todo \in {"ensure", "delete", "remove", "open"}
    /\ LiveKitCall(u, asking[u].call)
    /\ IF asking[u].todo = "open" THEN Leaves(u, "issue", asking[u].call) ELSE Finishes(u)
    /\ UNCHANGED <<callVars, identityVars, mediaToken, knocking, mishaps>>

\* The client went away, the server stopped or the call timed out: LiveKit may
\* have done it or not, and the request ends without what was to follow.
RoomStepFails(u) ==
    /\ asking[u].todo \in {"ensure", "delete", "remove", "open"}
    /\ Mishap
    /\ LiveKitCall(u, asking[u].call) \/ UNCHANGED <<mediaRoom, inMedia>>
    /\ Finishes(u)
    /\ UNCHANGED <<callVars, identityVars, mediaToken, knocking>>

\* The token names the generation of now; who is not here gets none.
IssueParticipant(u) ==
    /\ asking[u].todo = "issue" /\ Finishes(u)
    /\ mediaToken' = IF enterprise /\ u \notin lpActive THEN mediaToken
                     ELSE [mediaToken EXCEPT ![asking[u].call][u] = lpEpoch[u]]
    /\ UNCHANGED <<callVars, identityVars, mediaRoom, knocking, inMedia, mishaps>>

\* While a call goes on, clients are quick: what lapses then is one of the faults.
Lapses(c) ==
    IF callStatus[c] = "accepted" THEN Mishap
    ELSE mishaps' = mishaps

\* After its five minutes; LiveKit renews the token of who is inside.
TokenExpires(c, u) ==
    /\ mediaToken[c][u] # 0 /\ inMedia[c][u] = 0 /\ Lapses(c)
    /\ mediaToken' = [mediaToken EXCEPT ![c][u] = 0]
    /\ UNCHANGED <<callVars, identityVars, mediaRoom, knocking, inMedia, asking>>

(***************************************************************************)
(* The connection.                                                         *)
(***************************************************************************)
\* A plausible slip: only the identity is looked at again.
ScopeOfIdentity(c, u, e) == u \in lpActive /\ lpEpoch[u] = e

callScopeActive(c, u, e) ==
    u \in lpActive /\ lpEpoch[u] = e /\ StillAccepted(c) /\ callUserCanJoin(c, u)

enterpriseCallSignal(c, u) ==
    /\ enterprise /\ knocking[u] = Nobody /\ inMedia[c][u] = 0
    /\ mediaToken[c][u] # 0 /\ callScopeActive(c, u, mediaToken[c][u])
    /\ knocking' = [knocking EXCEPT ![u] = c]
    /\ UNCHANGED <<callVars, identityVars, mediaRoom, mediaToken, inMedia, asking, mishaps>>

\* LiveKit looks at the token and at the room, and refuses a missing one.
Connect(c, u) ==
    /\ knocking[u] = (IF enterprise THEN c ELSE Nobody) /\ inMedia[c][u] = 0
    /\ knocking' = [knocking EXCEPT ![u] = Nobody]
    /\ LET admitted == mediaRoom[c] /\ mediaToken[c][u] # 0 IN
        /\ enterprise \/ admitted
        /\ inMedia' = [inMedia EXCEPT ![c][u] = IF admitted THEN mediaToken[c][u] ELSE 0]
    /\ UNCHANGED <<callVars, identityVars, mediaRoom, mediaToken, asking, mishaps>>

GoesOutside(c, u) ==
    /\ inMedia[c][u] # 0
    /\ inMedia' = [inMedia EXCEPT ![c][u] = 0]
    /\ UNCHANGED <<callVars, identityVars, mediaRoom, mediaToken, knocking, asking, mishaps>>

\* The look after the connection was opened, and the one of every second.
GuardCloses(c, u) ==
    enterprise /\ ~callScopeActive(c, u, inMedia[c][u]) /\ GoesOutside(c, u)

\* A client may lose its connection, or leave, and come back with its token;
\* one that was told that the call is over for it goes for good.
OverFor(c, u) == callStatus[c] \in Terminal \/ u \in left[c]
ClientLeaves(c, u) == (enterprise \/ ~OverFor(c, u)) /\ GoesOutside(c, u)

ClientIsTold(c, u) ==
    /\ ~enterprise /\ OverFor(c, u) /\ inMedia[c][u] # 0
    /\ inMedia' = [inMedia EXCEPT ![c][u] = 0]
    /\ mediaToken' = [mediaToken EXCEPT ![c][u] = 0]
    /\ UNCHANGED <<callVars, identityVars, mediaRoom, knocking, asking, mishaps>>

\* Nobody for sixty seconds.
EmptyTimeout(c) ==
    /\ mediaRoom[c] /\ (\A u \in User : inMedia[c][u] = 0) /\ Lapses(c)
    /\ mediaRoom' = [mediaRoom EXCEPT ![c] = FALSE]
    /\ UNCHANGED <<callVars, identityVars, mediaToken, knocking, inMedia, asking>>

\* Whoever is called away leaves with a new generation; nobody tells LiveKit.
SwitchAway(u) ==
    /\ enterprise /\ u \in lpActive \cap Roaming /\ lpEpoch[u] < MaxEpoch
    /\ lpActive' = lpActive \ {u} /\ lpEpoch' = [lpEpoch EXCEPT ![u] = @ + 1]
    /\ UNCHANGED <<callVars, enterprise, mediaVars, asking, mishaps>>

ComeBack(u) ==
    /\ u \notin lpActive /\ lpActive' = lpActive \cup {u}
    /\ UNCHANGED <<callVars, enterprise, lpEpoch, mediaVars, asking, mishaps>>

\* The console removes a participant or a room and leaves the call as it is.
AdminRemoves(c) ==
    /\ Mishap
    /\ DeleteCallRoom(c) \/ \E u \in User : RemoveParticipant(c, u)
    /\ UNCHANGED <<callVars, identityVars, mediaToken, knocking, asking>>

CallsElsewhere ==
    /\ \/ \E u \in User, v \in Conversation, c \in Call : Invite(u, v, c)
       \/ \E c \in Call : FindDue(c) \/ BecomesDue(c)
       \/ ExpireCalls
       \/ \E u \in User, v \in Conversation : Leave(u, v) \/ Join(u, v)
    /\ UNCHANGED roomVars

RoomsNext ==
    \/ CallsElsewhere
    \/ \E u \in User : RoomStep(u) \/ RoomStepFails(u) \/ IssueParticipant(u)
                       \/ SwitchAway(u) \/ ComeBack(u)
    \/ \E c \in Call, u \in User :
          \/ \E action \in {"accept", "reject", "cancel", "hangup", "end"} : callAction(c, u, action)
          \/ livekitCallToken(c, u) \/ TokenExpires(c, u)
          \/ enterpriseCallSignal(c, u) \/ Connect(c, u)
          \/ GuardCloses(c, u) \/ ClientLeaves(c, u) \/ ClientIsTold(c, u)
    \/ \E c \in Call : EmptyTimeout(c) \/ AdminRemoves(c)

roomsVars == <<callVars, roomVars>>

\* Requests go on to their end; tokens and empty rooms lapse; clients of an
\* accepted call ask for a token and come in.  With an enterprise, nothing is
\* asked of a client that should go: the server's ticker closes its connection.
RoomsFairness ==
    /\ \A u \in User : WF_roomsVars(RoomStep(u)) /\ WF_roomsVars(IssueParticipant(u))
    /\ \A c \in Call, u \in User :
          /\ WF_roomsVars(livekitCallToken(c, u)) /\ WF_roomsVars(enterpriseCallSignal(c, u))
          /\ WF_roomsVars(Connect(c, u))
          /\ WF_roomsVars(callStatus[c] # "accepted" /\ TokenExpires(c, u))
          /\ WF_roomsVars(GuardCloses(c, u)) /\ WF_roomsVars(ClientIsTold(c, u))
    /\ \A c \in Call : WF_roomsVars(callStatus[c] # "accepted" /\ EmptyTimeout(c))

RoomsSpec == CallInit /\ RoomsInit /\ [][RoomsNext]_roomsVars /\ RoomsFairness

(***************************************************************************)
(* Properties.                                                             *)
(***************************************************************************)
\* The check is made on a call that was read before, and the token is used
\* minutes later: still, a token and a place in the room are only ever had by
\* who answered the call, whatever the others did meanwhile; and no room is made
\* for a call that rings or that nobody answered.
OnlyWhoAnswered ==
    /\ \A c \in Call, u \in User :
          mediaToken[c][u] # 0 \/ inMedia[c][u] # 0 => u \in joined[c] /\ u \notin declined[c]
    /\ \A c \in Call : mediaRoom[c] => callStatus[c] \in {"accepted", "ended"}

\* Who hung up, and everybody when the call is over, is out of the media in the
\* end and never comes back, whether LiveKit was told or not.
MediaEnds == \A c \in Call, u \in User :
    callStatus[c] \in Terminal \/ u \in left[c] ~> [](inMedia[c][u] = 0)

\* A connection of an earlier generation of the user does not last.
OldGenerationGoes == \A c \in Call, u \in User :
    []<>(enterprise => inMedia[c][u] \in {0, lpEpoch[u]})

\* The room of a call that is over goes, also one that a repeated or late
\* request made anew.
RoomsClose == \A c \in Call : []<>(callStatus[c] \in Terminal => ~mediaRoom[c])

\* Who answers comes in, whoever made the room, unless the call ends first.
EventuallyConnected == \A c \in Call, u \in User :
    (callStatus[c] = "accepted" /\ u \in joined[c] /\ u \notin left[c]) ~>
        (inMedia[c][u] # 0 \/ callStatus[c] # "accepted" \/ u \in left[c] \/ u \notin lpActive)

\* LIGHTWEIGHT_TENANCY_LOCAL.md:11 has the signalling check identity, generation
\* and call: the media follow the call, for those who go and for those who come.
MediaFollowsCall == MediaEnds /\ OldGenerationGoes /\ RoomsClose /\ EventuallyConnected
===============================================================================
