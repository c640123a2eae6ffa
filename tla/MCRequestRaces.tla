---------------------------- MODULE MCRequestRaces ----------------------------
(* Small instances of the components whose requests race on their own rows,  *)
(* one component in each behaviour: "part" says which one, and the variables *)
(* of the others keep one initial value.                                     *)
EXTENDS FriendGraph, Moments, SupportDesk, SendPolicy, ListPaging, Invitations,
        MemoryCalls, MemoryState, AdminIdentity, HistoryReading, AccountSessions, ImCredentials,
        GroupSettings, TLC

VARIABLE part

CONSTANTS a, p1, p2   \* model values

MCToken == 1 .. 3

MCEdit == {"name" :> 1, "announcement" :> 1, "rate" :> 1 @@ "mute" :> 1,
           "visible" :> 1 @@ "name" :> 0, "join" :> 1, "rate" :> 0, "mute" :> 0}

\* The parts; two components are explored in parts that leave alone what the
\* other part is about, as their product is large.
Parts == {"friends", "moments", "desk", "direct", "group", "lists", "invitations",
          "memoryCalls", "memoryNumbers", "memoryPeople", "memoryRooms", "admins", "history", "sessions",
          "tickets", "credentials", "groupSettings"}

MCInit ==
    /\ part \in Parts
    /\ FriendInit /\ MomentsInit /\ DeskInit /\ PolicyInit /\ PagingInit
    /\ InvitationsInit /\ MemoryCallsInit /\ MemoryStateInit /\ AdminInit /\ HistoryInit
    /\ SessionsInit /\ CredentialInit /\ GroupSettingsInit
    /\ part # "moments" => friend = {}
    /\ part # "desk" => presence = [g \in Agent |-> "offline"]
    /\ part # "direct" => ~friendly
    /\ part # "group" => limitOf[1] = 0
    /\ part # "lists" => \A x \in Id : row[x].here
    /\ part # "invitations" => bound = CHOOSE b \in FirstBindings : TRUE
    /\ part # "memoryCalls" => room = DirectRoom /\ people = {p1, p2}

\* Requests are taken in order, and the first is made by one of the two: the
\* others are the same with the names exchanged.
FriendsPart ==
    /\ FriendNext
    /\ from'[1] \in {a, None}
    /\ \A r \in Request, o \in Request : o < r /\ answer'[r] # "none" => answer[o] # "none"

\* Messages are taken in order, and a transaction takes the first free place:
\* whose turn it is does not matter otherwise.
PolicyPart ==
    /\ \/ part = "direct" /\ (PeersMove \/ \E q \in Ask : \/ ParsePayload(q) /\ ask'[q].step # "group"
                                                          \/ DecideDirect(q))
       \/ part = "group" /\ (GroupMoves \/ \E q \in Ask : \/ ParsePayload(q) /\ ask'[q].step # "peer"
                                                          \/ DecideGroup(q))
    /\ \A q \in Ask, o \in Ask : o < q /\ ask'[q] # NoAsk => ask'[o] # NoAsk

InvitationsPart ==
    /\ InvitationsNext
    /\ \A t \in Deal, o \in Deal : o < t /\ deal[t] = NoDeal /\ deal'[t] # NoDeal => deal[o] # NoDeal

MemoryAccounts == \E u \in MemUser : \/ MemoryDeleteAccount(u)
                                     \/ \E n \in Phone : MemoryRegister(u, n)
MemoryPart ==
    \/ part = "memoryNumbers" /\ AccountRequests
    \/ part = "memoryPeople" /\ (MemoryAccounts \/ FriendRequests)
    \/ part = "memoryRooms" /\ (MemoryAccounts \/ RoomRequests)

\* One account has refresh tokens, or two of them log in with QR codes.
SessionsPart ==
    /\ SessionsNext
    /\ part = "sessions" =>
         /\ ticket' = ticket
         /\ \A t \in Token : token'[t] # NoRow => token'[t].user = "ann"
         /\ \A q \in LoginRequest : request'[q].op = "issue" => request'[q].user = "ann"
         /\ ban'["bob"] = "no" /\ endings'["bob"] = 0 /\ resets'["bob"] = 0
    /\ part = "tickets" => accountRowVars' = accountRowVars /\ token'[3] = NoRow

MCNext ==
    /\ part' = part
    /\ \/ part = "friends" /\ FriendsPart
       \/ part = "moments" /\ MomentsNext
       \/ part = "desk" /\ DeskNext
       \/ part \in {"direct", "group"} /\ PolicyPart
       \/ part = "lists" /\ PagingNext
       \/ part = "invitations" /\ InvitationsPart
       \/ part = "memoryCalls" /\ MemoryCallsNext
       \/ MemoryPart
       \/ part = "admins" /\ AdminNext
       \/ part = "history" /\ HistoryNext
       \/ part \in {"sessions", "tickets"} /\ SessionsPart
       \/ part = "credentials" /\ CredentialNext
       \/ part = "groupSettings" /\ GroupSettingsNext
    /\ part # "friends" => UNCHANGED graphVars
    /\ part # "moments" => UNCHANGED momentVars
    /\ part # "desk" => UNCHANGED deskVars
    /\ part \notin {"direct", "group"} => UNCHANGED policyVars
    /\ part # "lists" => UNCHANGED pageVars
    /\ part # "invitations" => UNCHANGED inviteVars
    /\ part # "memoryCalls" => UNCHANGED memCallVars
    /\ part \notin {"memoryNumbers", "memoryPeople", "memoryRooms"} => UNCHANGED memStateVars
    /\ part # "admins" => UNCHANGED adminVars
    /\ part # "history" => UNCHANGED historyVars
    /\ part \notin {"sessions", "tickets"} => UNCHANGED sessionVars
    /\ part # "credentials" => UNCHANGED credentialVars
    /\ part # "groupSettings" => UNCHANGED settingsVars

MCSpec ==
    /\ MCInit
    /\ [][MCNext]_<<part, graphVars, momentVars, deskVars, policyVars, pageVars,
                    inviteVars, memCallVars, memStateVars, adminVars, historyVars, sessionVars,
                    credentialVars, settingsVars>>
===============================================================================
