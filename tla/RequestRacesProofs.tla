------------------------ MODULE RequestRacesProofs ------------------------
(***************************************************************************)
(* Proofs about the components whose requests race on their own rows: the  *)
(* sessions of the accounts, the operators of the console, the credentials *)
(* at WuKongIM, the send policy, the settings of a group, the moments, the *)
(* state in memory, friendships, invitations and the support desk.  The    *)
(* run request_races checks the same properties on small instances; the    *)
(* components share no variable, so each section stands by itself.         *)
(***************************************************************************)
EXTENDS AccountSessions, AdminIdentity, ImCredentials, SendPolicy, GroupSettings, Moments,
        MemoryState, FriendGraph, Invitations, SupportDesk,
        FiniteSetTheorems, FunctionTheorems, WellFoundedInduction, TLAPS

---------------------------------------------------------------------------
(* Sessions.  A rotation holds the row of its user from the check of the old *)
(* token to the insert of the new one: what it checked still holds (Rotation)*)
(* although logouts and resets, which do not lock the user, pass it by.      *)

LoginTypes ==
    /\ DOMAIN token = Token /\ \A t \in Token : token[t] = NoRow \/ token[t] \in Row
    /\ token = [t \in Token |-> token[t]]
    /\ newest \in [Account -> [DeviceKind -> Token \union {NoToken}]]
    /\ endings \in [Account -> 0 .. MaxEnd] /\ resets \in [Account -> 0 .. MaxEnd]
    /\ ban \in [Account -> {"no", "until", "forever"}]
    /\ ticket \in [Ticket -> [state : {"none", "pending", "confirmed", "consumed", "expired"},
                              user : Account \union {NoUser}]]
    /\ request = [q \in LoginRequest |-> request[q]]

\* What a request knows when it acts.
RequestIs(r) ==
    /\ r.op \in {"issue", "logout", "reset", "delete", "confirm", "consumed"} => r.user \in Account
    /\ r.op \in {"issue", "consumed", "logout"} => r.kind \in DeviceKind
    /\ r.op = "issue" => r.ticket \in Ticket \union {NoTicket}
    /\ r.op \in {"confirm", "consumed"} => r.ticket \in Ticket
    /\ r.op = "refresh" => r.token \in UsedRows

\* Who has a successor is revoked, and has one successor.
Lineage ==
    /\ \A s \in UsedRows : token[s].parent # NoToken =>
          token[s].parent \in UsedRows /\ token[token[s].parent].state = "revoked"
    /\ RefreshedOnce

\* The token under rotation is of the newest login and has no successor; its
\* user is rotating no other.
Rotating(q) == request[q].op = "rotating"
Rotation ==
    /\ \A q \in LoginRequest : Rotating(q) =>
          LET t == request[q].token
          IN  /\ t \in UsedRows /\ token[t].user = request[q].user
              /\ token[t].login = newest[token[t].user][token[t].kind]
              /\ token[t].end = endings[token[t].user]
              /\ \A s \in UsedRows : token[s].parent # t
    /\ \A q, p \in LoginRequest :
          Rotating(q) /\ Rotating(p) /\ request[q].user = request[p].user => q = p

\* Who acts on a ticket: the first token of a login, or a request that will
\* write it.
Root(s, t) == s \in UsedRows /\ token[s].ticket = t /\ token[s].parent = NoToken
Bears(r, t) == r.op \in {"consumed", "issue"} /\ r.ticket = t
TicketIs(t) ==
    /\ ticket[t].state \in {"none", "pending"} => ticket[t].user = NoUser
    /\ ticket[t].state \in {"confirmed", "consumed"} => ticket[t].user \in Account
    /\ \A s \in UsedRows : token[s].ticket = t =>
          ticket[t].state = "consumed" /\ ticket[t].user = token[s].user
    /\ \A q \in LoginRequest : Bears(request[q], t) =>
          ticket[t].state = "consumed" /\ ticket[t].user = request[q].user
    /\ \A s, z \in Token : Root(s, t) /\ Root(z, t) => s = z
    /\ \A q, p \in LoginRequest : Bears(request[q], t) /\ Bears(request[p], t) => q = p
    /\ \A s \in Token, q \in LoginRequest : ~(Root(s, t) /\ Bears(request[q], t))
Tickets == \A t \in Ticket : TicketIs(t)

SessionsInv ==
    /\ LoginTypes
    /\ \A q \in LoginRequest : RequestIs(request[q])
    /\ Lineage
    /\ NewestLoginOwns
    /\ EndedForGood
    /\ Rotation
    /\ Tickets
---------------------------------------------------------------------------
LEMMA NoRowFacts == /\ \A r \in Row : r # NoRow
                    /\ UnusedRows \subseteq Token /\ UsedRows \subseteq Token
  BY DEF Row, NoRow, UnusedRows, UsedRows

LEMMA RowState ==
  ASSUME NEW r \in Row, NEW x \in {"live", "expired", "revoked"}
  PROVE  LET n == [r EXCEPT !.state = x]
         IN  /\ n \in Row /\ n.state = x /\ n.user = r.user /\ n.kind = r.kind /\ n.login = r.login
             /\ n.parent = r.parent /\ n.ticket = r.ticket /\ n.end = r.end
  BY DEF Row

\* A row may expire or be revoked.
Keeps(t) ==
    /\ token'[t] \in Row
    /\ token'[t].user = token[t].user /\ token'[t].kind = token[t].kind
    /\ token'[t].login = token[t].login /\ token'[t].parent = token[t].parent
    /\ token'[t].ticket = token[t].ticket /\ token'[t].end = token[t].end
    /\ token'[t].state = "live" => token[t].state = "live"
    /\ token[t].state = "revoked" => token'[t].state = "revoked"

Weaker ==
    /\ token' = [t \in Token |-> token'[t]]
    /\ \A t \in Token : token[t] = NoRow => token'[t] = NoRow
    /\ \A t \in UsedRows : Keeps(t)

LEMMA WeakerFacts ==
  ASSUME LoginTypes
  PROVE  /\ UNCHANGED token => Weaker
         /\ \A S \in SUBSET UsedRows : token' = Revoke(S) =>
               Weaker /\ \A t \in S : token'[t].state # "live"
         /\ \A t \in UsedRows : token' = [token EXCEPT ![t].state = "expired"] /\ token[t].state # "revoked" => Weaker
         /\ Weaker => UsedRows' = UsedRows
  <1>1. \A t \in UsedRows : t \in Token /\ token[t] \in Row
    BY DEF UsedRows, UnusedRows, LoginTypes
  <1>2. UNCHANGED token => Weaker
    BY <1>1 DEF Weaker, Keeps, LoginTypes
  <1>3. ASSUME NEW S \in SUBSET UsedRows, token' = Revoke(S)
        PROVE  Weaker /\ \A t \in S : token'[t].state # "live"
    <2>1. \A t \in Token : token'[t] = IF t \in Unrevoked(S) THEN [token[t] EXCEPT !.state = "revoked"] ELSE token[t]
      BY <1>3 DEF Revoke
    <2>2. Unrevoked(S) \subseteq UsedRows
      BY DEF Unrevoked
    <2>3. \A t \in Token \ Unrevoked(S) : token'[t] = token[t]
      BY <2>1
    <2>4. \A t \in Unrevoked(S) : token'[t] = [token[t] EXCEPT !.state = "revoked"]
      BY <1>1, <2>1, <2>2
    <2>5. token' = [t \in Token |-> token'[t]]
      BY <1>3 DEF Revoke
    <2>6. \A t \in Token : token[t] = NoRow => token'[t] = NoRow
      BY <2>2, <2>3 DEF UsedRows, UnusedRows
    <2>7. ASSUME NEW t \in UsedRows
          PROVE  Keeps(t)
      <3>1. CASE t \in Unrevoked(S)
        <4>1. token'[t] = [token[t] EXCEPT !.state = "revoked"] /\ token[t] \in Row
          BY <1>1, <2>4, <3>1
        <4> DEFINE n == [token[t] EXCEPT !.state = "revoked"]
        <4>2. /\ n \in Row /\ n.state = "revoked" /\ n.user = token[t].user /\ n.kind = token[t].kind
              /\ n.login = token[t].login /\ n.parent = token[t].parent
              /\ n.ticket = token[t].ticket /\ n.end = token[t].end
          BY <4>1, RowState
        <4>3. token'[t] = n
          BY <4>1
        <4> HIDE DEF n
        <4> QED
          BY <4>2, <4>3 DEF Keeps
      <3>2. CASE t \notin Unrevoked(S)
        BY <1>1, <2>3, <3>2 DEF Keeps
      <3> QED
        BY <3>1, <3>2 DEF Keeps
    <2>8. \A t \in S : token'[t].state # "live"
      <3> SUFFICES ASSUME NEW t \in S PROVE token'[t].state # "live"
        OBVIOUS
      <3>1. CASE t \in Unrevoked(S)
        BY <1>1, <2>2, <2>4, <3>1 DEF Row
      <3>2. CASE t \notin Unrevoked(S)
        BY <1>1, <2>3, <3>2 DEF Unrevoked, Row
      <3> QED
        BY <3>1, <3>2
    <2> QED
      BY <2>5, <2>6, <2>7, <2>8 DEF Weaker, Keeps
  <1>4. ASSUME NEW t \in UsedRows, token' = [token EXCEPT ![t].state = "expired"], token[t].state # "revoked"
        PROVE  Weaker
    <2>1. \A s \in Token : token'[s] = IF s = t THEN [token[s] EXCEPT !.state = "expired"] ELSE token[s]
      BY <1>4 DEF LoginTypes
    <2>2. token' = [s \in Token |-> token'[s]]
      BY <1>4 DEF LoginTypes
    <2>3. token'[t] = [token[t] EXCEPT !.state = "expired"]
      BY <1>1, <2>1
    <2>4. \A s \in Token : s # t => token'[s] = token[s]
      BY <2>1
    <2>5. token[t] # NoRow
      BY DEF UsedRows, UnusedRows
    <2> QED
      BY <1>1, <1>4, <2>2, <2>3, <2>4, <2>5 DEF Weaker, Keeps, Row
  <1>5. Weaker => UsedRows' = UsedRows
    BY <1>1, NoRowFacts DEF Weaker, Keeps, UsedRows, UnusedRows
  <1> QED
    BY <1>2, <1>3, <1>4, <1>5
---------------------------------------------------------------------------
\* Requests that begin no rotation and take no ticket.
Calmly(q) ==
    \/ request'[q] = request[q]
    \/ /\ request'[q].op # "rotating" /\ RequestIs(request'[q])
       /\ \A t \in Ticket : Bears(request'[q], t) =>
             Bears(request[q], t) /\ request'[q].user = request[q].user

\* Tickets that are not consumed in this step.
TicketsMove ==
    \A t \in Ticket :
        /\ ticket[t].state = "consumed" => ticket'[t] = ticket[t]
        /\ ticket'[t].state \in {"none", "pending"} => ticket'[t].user = NoUser
        /\ ticket'[t].state \in {"confirmed", "consumed"} => ticket'[t].user \in Account

LEMMA StayQuiet == SessionsInv /\ UNCHANGED ticket => TicketsMove
  BY DEF SessionsInv, Tickets, TicketIs, TicketsMove

\* Steps that insert no row: nothing that a rotation or a ticket rests on
\* changes for a user whose row is locked.
LEMMA CalmInv ==
  ASSUME SessionsInv, LoginTypes', Weaker, UNCHANGED newest, TicketsMove,
         \A q \in LoginRequest : Calmly(q),
         \A u \in Account : endings'[u] = endings[u]
                            \/ (~UserLocked(u) /\ \A t \in AllOf(u) : token'[t].state # "live")
  PROVE  SessionsInv'
  <1> USE DEF SessionsInv
  <1>1. UsedRows' = UsedRows /\ UsedRows \subseteq Token
    BY WeakerFacts, NoRowFacts
  <1>2. \A t \in UsedRows : token[t] \in Row /\ token'[t] \in Row /\ token[t].user \in Account
    BY <1>1 DEF LoginTypes, UsedRows, UnusedRows, Row, Weaker, Keeps
  <1>3. (\A q \in LoginRequest : RequestIs(request[q]))'
    BY <1>1 DEF RequestIs, Calmly
  <1>4. Lineage'
    BY <1>1 DEF Lineage, RefreshedOnce, Weaker, Keeps
  <1>5. NewestLoginOwns'
    BY <1>1 DEF NewestLoginOwns, DeviceSessionActive, Weaker, Keeps
  <1>6. EndedForGood'
    <2> SUFFICES ASSUME NEW t \in UsedRows, token'[t].state = "live"
                 PROVE  token'[t].end = endings'[token'[t].user]
      BY <1>1 DEF EndedForGood, DeviceSessionActive
    <2>1. /\ token'[t].end = token[t].end /\ token'[t].user = token[t].user
          /\ token[t].state = "live"
      BY DEF Weaker, Keeps
    <2>2. t \in AllOf(token[t].user)
      BY DEF AllOf
    <2> QED
      BY <1>2, <2>1, <2>2 DEF EndedForGood, DeviceSessionActive
  <1>7. Rotation'
    <2>1. \A q \in LoginRequest : Rotating(q)' => Rotating(q) /\ request'[q] = request[q]
      BY DEF Calmly, Rotating
    <2>2. ASSUME NEW q \in LoginRequest, Rotating(q)'
          PROVE  LET t == request'[q].token
                 IN  /\ t \in UsedRows /\ token'[t].user = request'[q].user
                     /\ token'[t].login = newest'[token'[t].user][token'[t].kind]
                     /\ token'[t].end = endings'[token'[t].user]
                     /\ \A s \in UsedRows : token'[s].parent # t
      <3> DEFINE t == request[q].token
      <3>1. /\ request'[q] = request[q] /\ t \in UsedRows /\ token[t].user = request[q].user
            /\ token[t].login = newest[token[t].user][token[t].kind]
            /\ token[t].end = endings[token[t].user]
            /\ \A s \in UsedRows : token[s].parent # t
        BY <2>1, <2>2 DEF Rotation
      <3>2. UserLocked(token[t].user)
        BY <2>1, <2>2, <3>1 DEF UserLocked, Rotating
      <3>3. endings'[token[t].user] = endings[token[t].user]
        BY <1>2, <3>1, <3>2
      <3> QED
        BY <3>1, <3>3 DEF Weaker, Keeps
    <2>3. \A q, p \in LoginRequest :
             Rotating(q)' /\ Rotating(p)' /\ request'[q].user = request'[p].user => q = p
      BY <2>1 DEF Rotation
    <2> QED
      BY <1>1, <2>2, <2>3 DEF Rotation
  <1>8. Tickets'
    <2> SUFFICES ASSUME NEW t \in Ticket
                 PROVE  TicketIs(t)'
      BY DEF Tickets
    <2>1. \A s \in Token : Root(s, t)' => Root(s, t)
      BY <1>1 DEF Root, Weaker, Keeps
    <2>2. \A q \in LoginRequest : Bears(request'[q], t) => Bears(request[q], t) /\ request'[q].user = request[q].user
      BY DEF Calmly
    <2>3. \A s \in UsedRows : token'[s].ticket = token[s].ticket /\ token'[s].user = token[s].user
      BY DEF Weaker, Keeps
    <2>4. /\ \A s \in UsedRows : token[s].ticket = t => ticket[t].state = "consumed" /\ ticket[t].user = token[s].user
          /\ \A q \in LoginRequest : Bears(request[q], t) => ticket[t].state = "consumed" /\ ticket[t].user = request[q].user
          /\ \A s, z \in Token : Root(s, t) /\ Root(z, t) => s = z
          /\ \A q, p \in LoginRequest : Bears(request[q], t) /\ Bears(request[p], t) => q = p
          /\ \A s \in Token, q \in LoginRequest : ~(Root(s, t) /\ Bears(request[q], t))
      BY DEF Tickets, TicketIs
    <2> QED
      BY <1>1, <2>1, <2>2, <2>3, <2>4 DEF TicketsMove, TicketIs
  <1> QED
    BY <1>3, <1>4, <1>5, <1>6, <1>7, <1>8
---------------------------------------------------------------------------
LEMMA Requests ==
  ASSUME LoginTypes, NEW q \in LoginRequest
  PROVE  /\ \A r : AskFor(q, r) => /\ request[q] = Nothing
                                   /\ request' = [p \in LoginRequest |-> request'[p]]
                                   /\ \A p \in LoginRequest : request'[p] = IF p = q THEN r ELSE request[p]
         /\ Done(q) => /\ request' = [p \in LoginRequest |-> request'[p]]
                       /\ \A p \in LoginRequest : request'[p] = IF p = q THEN Nothing ELSE request[p]
  BY DEF LoginTypes, AskFor, Done

\* A request that ends, or begins with what is calm.
LEMMA AskIsCalm ==
  ASSUME SessionsInv, NEW q \in LoginRequest
  PROVE  /\ \A r : AskFor(q, r) /\ r.op # "rotating" /\ RequestIs(r) /\ (\A t \in Ticket : ~Bears(r, t))
                   => \A p \in LoginRequest : Calmly(p)
         /\ Done(q) => \A p \in LoginRequest : Calmly(p)
         /\ UNCHANGED request => \A p \in LoginRequest : Calmly(p)
  <1>1. LoginTypes
    BY DEF SessionsInv
  <1>2. Nothing.op = "none" /\ RequestIs(Nothing) /\ \A t \in Ticket : ~Bears(Nothing, t)
    BY DEF Nothing, RequestIs, Bears
  <1>3. ASSUME NEW r, AskFor(q, r), r.op # "rotating", RequestIs(r), \A t \in Ticket : ~Bears(r, t)
        PROVE  \A p \in LoginRequest : Calmly(p)
    BY <1>1, <1>3, Requests DEF Calmly
  <1>4. ASSUME Done(q)
        PROVE  \A p \in LoginRequest : Calmly(p)
    BY <1>1, <1>2, <1>4, Requests DEF Calmly
  <1>5. ASSUME UNCHANGED request
        PROVE  \A p \in LoginRequest : Calmly(p)
    BY <1>5 DEF Calmly
  <1> QED
    BY <1>3, <1>4, <1>5

LEMMA CalmTypes ==
  ASSUME LoginTypes, Weaker, UNCHANGED newest,
         endings' \in [Account -> 0 .. MaxEnd], resets' \in [Account -> 0 .. MaxEnd],
         ban' \in [Account -> {"no", "until", "forever"}],
         ticket' \in [Ticket -> [state : {"none", "pending", "confirmed", "consumed", "expired"},
                                 user : Account \union {NoUser}]],
         UNCHANGED request \/ \E q \in LoginRequest : Done(q) \/ \E r : AskFor(q, r)
  PROVE  LoginTypes'
  <1>1. request' = [q \in LoginRequest |-> request'[q]]
    BY Requests DEF LoginTypes
  <1>2. /\ DOMAIN token' = Token /\ token' = [t \in Token |-> token'[t]]
        /\ \A t \in Token : token'[t] = NoRow \/ token'[t] \in Row
    BY DEF Weaker, Keeps, UsedRows, UnusedRows
  <1> QED
    BY <1>1, <1>2 DEF LoginTypes

\* Requests that are only asked, and those that end without a change.
LEMMA AskInv ==
  ASSUME SessionsInv, NEW q \in LoginRequest,
         UNCHANGED <<ban, endings, token, newest, ticket>>,
         resets' \in [Account -> 0 .. MaxEnd],
         \/ Done(q)
         \/ \E r : AskFor(q, r) /\ r.op # "rotating" /\ RequestIs(r) /\ (\A t \in Ticket : ~Bears(r, t))
  PROVE  SessionsInv'
  <1>1. LoginTypes
    BY DEF SessionsInv
  <1>2. Weaker
    BY <1>1, WeakerFacts
  <1>3. LoginTypes'
    BY <1>1, <1>2, CalmTypes DEF LoginTypes
  <1> QED
    BY <1>2, <1>3, AskIsCalm, StayQuiet, CalmInv

LEMMA AskSteps ==
  ASSUME SessionsInv, NEW q \in LoginRequest
  PROVE  /\ GiveUp(q) => SessionsInv'
         /\ \A u \in Account : UpdatePassword(q, u) => SessionsInv'
         /\ \A u \in Account, k \in DeviceKind : PasswordLogin(q, u, k) => SessionsInv'
         /\ \A t \in Token : Refresh(q, t) \/ Logout(q, t) \/ AskDeletion(q, t) => SessionsInv'
         /\ \A s \in Token, t \in Ticket : ConfirmQRLogin(q, s, t) => SessionsInv'
  <1>1. LoginTypes /\ resets \in [Account -> 0 .. MaxEnd]
    BY DEF SessionsInv, LoginTypes
  <1>2. \A t \in UsedRows : token[t].user \in Account /\ token[t].kind \in DeviceKind
    BY <1>1 DEF LoginTypes, UsedRows, UnusedRows, Row
  <1>3. ASSUME GiveUp(q)
        PROVE  SessionsInv'
    BY <1>1, <1>3, AskInv DEF GiveUp, accountRowVars
  <1>4. ASSUME NEW u \in Account, UpdatePassword(q, u)
        PROVE  SessionsInv'
    <2> DEFINE r == [op |-> "reset", user |-> u, to |-> resets[u] + 1]
    <2>1. r.op # "rotating" /\ RequestIs(r) /\ \A t \in Ticket : ~Bears(r, t)
      BY DEF RequestIs, Bears
    <2>2. resets' \in [Account -> 0 .. MaxEnd]
      BY <1>1, <1>4, SessionsAssumption DEF UpdatePassword
    <2>3. AskFor(q, r) /\ UNCHANGED <<ban, endings, token, newest, ticket>>
      BY <1>4 DEF UpdatePassword
    <2> HIDE DEF r
    <2> QED
      BY <2>1, <2>2, <2>3, AskInv
  <1>5. ASSUME NEW u \in Account, NEW k \in DeviceKind, PasswordLogin(q, u, k)
        PROVE  SessionsInv'
    <2> DEFINE r == IssueUserSession(u, k, NoTicket)
    <2>1. r.op # "rotating" /\ RequestIs(r) /\ \A t \in Ticket : ~Bears(r, t)
      BY SessionsAssumption DEF IssueUserSession, RequestIs, Bears
    <2>2. AskFor(q, r) /\ UNCHANGED <<ban, endings, resets, token, newest, ticket>>
      BY <1>5 DEF PasswordLogin, accountRowVars
    <2> HIDE DEF r
    <2> QED
      BY <1>1, <2>1, <2>2, AskInv
  <1>6. ASSUME NEW t \in Token, Refresh(q, t)
        PROVE  SessionsInv'
    <2> DEFINE r == [op |-> "refresh", token |-> t]
    <2>1. r.op # "rotating" /\ RequestIs(r) /\ \A x \in Ticket : ~Bears(r, x)
      BY <1>6 DEF Refresh, RequestIs, Bears
    <2>2. AskFor(q, r) /\ UNCHANGED <<ban, endings, resets, token, newest, ticket>>
      BY <1>6 DEF Refresh, accountRowVars
    <2> HIDE DEF r
    <2> QED
      BY <1>1, <2>1, <2>2, AskInv
  <1>7. ASSUME NEW t \in Token, Logout(q, t)
        PROVE  SessionsInv'
    <2> DEFINE r == [op |-> "logout", user |-> token[t].user, kind |-> token[t].kind]
    <2>1. r.op # "rotating" /\ RequestIs(r) /\ \A x \in Ticket : ~Bears(r, x)
      BY <1>2, <1>7 DEF Logout, RequireAuth, DeviceSessionActive, RequestIs, Bears
    <2>2. AskFor(q, r) /\ UNCHANGED <<ban, endings, resets, token, newest, ticket>>
      BY <1>7 DEF Logout, accountRowVars
    <2> HIDE DEF r
    <2> QED
      BY <1>1, <2>1, <2>2, AskInv
  <1>8. ASSUME NEW t \in Token, AskDeletion(q, t)
        PROVE  SessionsInv'
    <2> DEFINE r == [op |-> "delete", user |-> token[t].user]
    <2>1. r.op # "rotating" /\ RequestIs(r) /\ \A x \in Ticket : ~Bears(r, x)
      BY <1>2, <1>8 DEF AskDeletion, DeviceSessionActive, RequestIs, Bears
    <2>2. AskFor(q, r) /\ UNCHANGED <<ban, endings, resets, token, newest, ticket>>
      BY <1>8 DEF AskDeletion, accountRowVars
    <2> HIDE DEF r
    <2> QED
      BY <1>1, <2>1, <2>2, AskInv
  <1>9. ASSUME NEW s \in Token, NEW t \in Ticket, ConfirmQRLogin(q, s, t)
        PROVE  SessionsInv'
    <2> DEFINE r == [op |-> "confirm", user |-> token[s].user, ticket |-> t]
    <2>1. r.op # "rotating" /\ RequestIs(r) /\ \A x \in Ticket : ~Bears(r, x)
      BY <1>2, <1>9 DEF ConfirmQRLogin, RequireAuth, DeviceSessionActive, RequestIs, Bears
    <2>2. AskFor(q, r) /\ UNCHANGED <<ban, endings, resets, token, newest, ticket>>
      BY <1>9 DEF ConfirmQRLogin, accountRowVars
    <2> HIDE DEF r
    <2> QED
      BY <1>1, <2>1, <2>2, AskInv
  <1> QED
    BY <1>3, <1>4, <1>5, <1>6, <1>7, <1>8, <1>9

\* What revokes or expires sessions.
LEMMA EndSteps ==
  ASSUME SessionsInv
  PROVE  /\ \A q \in LoginRequest : RevokeDeviceRefreshSessions(q) \/ RevokeUserRefreshSessions(q)
                                    \/ DeleteOwnAccount(q) => SessionsInv'
         /\ \A t \in Token : RefreshTokenExpires(t) => SessionsInv'
         /\ \A u \in Account : ExpireUserBans(u) => SessionsInv'
         /\ \A u \in Account, b \in {"no", "until", "forever"} : SetUserBanRecord(u, b) => SessionsInv'
  <1>1. LoginTypes
    BY DEF SessionsInv
  <1> USE DEF LoginTypes
  <1>2. \A u : AllOf(u) \subseteq UsedRows /\ \A k : Of(u, k) \subseteq UsedRows
    BY DEF AllOf, Of
  <1>3. ASSUME NEW q \in LoginRequest, RevokeDeviceRefreshSessions(q)
        PROVE  SessionsInv'
    <2>1. Weaker
      BY <1>1, <1>2, <1>3, WeakerFacts DEF RevokeDeviceRefreshSessions
    <2>2. Done(q) /\ UNCHANGED <<ban, endings, resets, newest, ticket>>
      BY <1>3 DEF RevokeDeviceRefreshSessions, accountRowVars
    <2>3. LoginTypes'
      BY <1>1, <2>1, <2>2, CalmTypes
    <2> QED
      BY <2>1, <2>2, <2>3, AskIsCalm, StayQuiet, CalmInv
  <1>4. ASSUME NEW q \in LoginRequest, RevokeUserRefreshSessions(q)
        PROVE  SessionsInv'
    <2>1. Weaker
      BY <1>1, <1>2, <1>4, WeakerFacts DEF RevokeUserRefreshSessions
    <2>2. Done(q) /\ UNCHANGED <<ban, endings, resets, newest, ticket>>
      BY <1>4 DEF RevokeUserRefreshSessions
    <2>3. LoginTypes'
      BY <1>1, <2>1, <2>2, CalmTypes
    <2> QED
      BY <2>1, <2>2, <2>3, AskIsCalm, StayQuiet, CalmInv
  <1>5. ASSUME NEW u \in Account, ~UserLocked(u), token' = Revoke(AllOf(u)), endings[u] < MaxEnd,
               endings' = [endings EXCEPT ![u] = @ + 1],
               ban' \in [Account -> {"no", "until", "forever"}],
               UNCHANGED <<resets, newest, ticket>>,
               UNCHANGED request \/ \E q \in LoginRequest : Done(q)
        PROVE  SessionsInv'
    <2>1. Weaker /\ \A t \in AllOf(u) : token'[t].state # "live"
      BY <1>1, <1>2, <1>5, WeakerFacts
    <2>2. endings' \in [Account -> 0 .. MaxEnd]
      BY <1>1, <1>5, SessionsAssumption
    <2>3. LoginTypes'
      BY <1>1, <1>5, <2>1, <2>2, CalmTypes
    <2>4. \A v \in Account : endings'[v] = endings[v]
                             \/ (~UserLocked(v) /\ \A t \in AllOf(v) : token'[t].state # "live")
      BY <1>1, <1>5, <2>1
    <2>5. \A p \in LoginRequest : Calmly(p)
      BY <1>5, AskIsCalm DEF Calmly
    <2> QED
      BY <1>5, <2>1, <2>3, <2>4, <2>5, StayQuiet, CalmInv
  <1>6. ASSUME NEW q \in LoginRequest, DeleteOwnAccount(q)
        PROVE  SessionsInv'
    <2> DEFINE u == request[q].user
    <2>1. u \in Account
      BY <1>6 DEF DeleteOwnAccount, SessionsInv, RequestIs
    <2>2. Done(q) /\ ~UserLocked(u) /\ UNCHANGED <<newest, ticket>>
      BY <1>6 DEF DeleteOwnAccount
    <2>3. CASE u \in deleted
      <3>1. UNCHANGED <<ban, endings, resets, token>>
        BY <1>6, <2>3 DEF DeleteOwnAccount, accountRowVars
      <3> QED
        BY <1>1, <2>2, <3>1, AskInv
    <2>4. CASE u \notin deleted
      <3>1. /\ token' = Revoke(AllOf(u)) /\ endings[u] < MaxEnd
            /\ endings' = [endings EXCEPT ![u] = @ + 1] /\ UNCHANGED resets
            /\ ban' = [ban EXCEPT ![u] = IF @ = "until" THEN @ ELSE "forever"]
        BY <1>6, <2>4 DEF DeleteOwnAccount
      <3>2. ban' \in [Account -> {"no", "until", "forever"}]
        BY <1>1, <2>1, <3>1
      <3> QED
        BY <1>5, <2>1, <2>2, <3>1, <3>2
    <2> QED
      BY <2>3, <2>4
  <1>7. ASSUME NEW t \in Token, RefreshTokenExpires(t)
        PROVE  SessionsInv'
    <2>1. Weaker
      BY <1>1, <1>7, WeakerFacts DEF RefreshTokenExpires, DeviceSessionActive
    <2>2. UNCHANGED <<ban, endings, resets, newest, ticket, request>>
      BY <1>7 DEF RefreshTokenExpires, accountRowVars
    <2>3. LoginTypes'
      BY <1>1, <2>1, <2>2, CalmTypes
    <2> QED
      BY <2>1, <2>2, <2>3, StayQuiet, CalmInv DEF Calmly
  <1>8. ASSUME NEW u \in Account, ExpireUserBans(u)
        PROVE  SessionsInv'
    <2>1. Weaker
      BY <1>1, <1>8, WeakerFacts DEF ExpireUserBans
    <2>2. UNCHANGED <<endings, resets, newest, ticket, request>>
          /\ ban' \in [Account -> {"no", "until", "forever"}]
      BY <1>1, <1>8 DEF ExpireUserBans
    <2>3. LoginTypes'
      BY <1>1, <2>1, <2>2, CalmTypes
    <2> QED
      BY <2>1, <2>2, <2>3, StayQuiet, CalmInv DEF Calmly
  <1>9. ASSUME NEW u \in Account, NEW b \in {"no", "until", "forever"}, SetUserBanRecord(u, b)
        PROVE  SessionsInv'
    <2>1. /\ UNCHANGED <<resets, newest, ticket, request>> /\ ~UserLocked(u)
          /\ ban' \in [Account -> {"no", "until", "forever"}]
      BY <1>1, <1>9 DEF SetUserBanRecord
    <2>2. CASE b = "no"
      <3>1. UNCHANGED <<token, endings>>
        BY <1>9, <2>2 DEF SetUserBanRecord
      <3>2. Weaker
        BY <1>1, <3>1, WeakerFacts
      <3>3. LoginTypes'
        BY <1>1, <2>1, <3>1, <3>2, CalmTypes
      <3> QED
        BY <2>1, <3>1, <3>2, <3>3, StayQuiet, CalmInv DEF Calmly
    <2>3. CASE b # "no"
      BY <1>5, <1>9, <2>1, <2>3 DEF SetUserBanRecord
    <2> QED
      BY <2>2, <2>3
  <1> QED
    BY <1>3, <1>4, <1>6, <1>7, <1>8, <1>9
---------------------------------------------------------------------------
\* Tickets that change but are not consumed.
LEMMA TicketSteps ==
  ASSUME SessionsInv
  PROVE  /\ \A t \in Ticket : CreateQRLoginTicket(t) \/ TicketExpires(t) => SessionsInv'
         /\ \A q \in LoginRequest : ConfirmQRLoginTicket(q) \/ PollQRLogin(q) => SessionsInv'
  <1>1. LoginTypes /\ Tickets /\ \A q \in LoginRequest : RequestIs(request[q])
    BY DEF SessionsInv
  <1>2. \A t \in Ticket : ticket[t].user \in Account \union {NoUser}
    BY <1>1 DEF LoginTypes
  <1>3. ASSUME NEW t \in Ticket, CreateQRLoginTicket(t)
        PROVE  SessionsInv'
    <2>1. ticket' = [ticket EXCEPT ![t].state = "pending"] /\ ticket[t].state = "none"
          /\ UNCHANGED <<ban, endings, resets, token, newest, request>>
      BY <1>3 DEF CreateQRLoginTicket, accountRowVars
    <2>2. TicketsMove
      BY <1>1, <2>1 DEF TicketsMove, Tickets, TicketIs, LoginTypes
    <2>3. Weaker
      BY <1>1, <2>1, WeakerFacts
    <2>4. LoginTypes'
      BY <1>1, <2>1, <2>3, CalmTypes DEF LoginTypes
    <2> QED
      BY <2>1, <2>2, <2>3, <2>4, CalmInv DEF Calmly
  <1>4. ASSUME NEW t \in Ticket, TicketExpires(t)
        PROVE  SessionsInv'
    <2>1. ticket' = [ticket EXCEPT ![t].state = "expired"] /\ ticket[t].state \in {"pending", "confirmed"}
          /\ UNCHANGED <<ban, endings, resets, token, newest, request>>
      BY <1>4 DEF TicketExpires, accountRowVars
    <2>2. TicketsMove
      BY <1>1, <2>1 DEF TicketsMove, Tickets, TicketIs, LoginTypes
    <2>3. Weaker
      BY <1>1, <2>1, WeakerFacts
    <2>4. LoginTypes'
      BY <1>1, <2>1, <2>3, CalmTypes DEF LoginTypes
    <2> QED
      BY <2>1, <2>2, <2>3, <2>4, CalmInv DEF Calmly
  <1>5. ASSUME NEW q \in LoginRequest, ConfirmQRLoginTicket(q)
        PROVE  SessionsInv'
    <2> DEFINE t == request[q].ticket
               u == request[q].user
    <2>1. t \in Ticket /\ u \in Account
      BY <1>1, <1>5 DEF ConfirmQRLoginTicket, RequestIs
    <2>2. Done(q) /\ UNCHANGED <<ban, endings, resets, token, newest>>
      BY <1>5 DEF ConfirmQRLoginTicket, accountRowVars
    <2>3. UNCHANGED ticket \/ /\ ticket[t].state = "pending"
                              /\ ticket' = [ticket EXCEPT ![t].state = "confirmed", ![t].user = u]
      BY <1>5 DEF ConfirmQRLoginTicket
    <2>4. /\ ticket' \in [Ticket -> [state : {"none", "pending", "confirmed", "consumed", "expired"},
                                     user : Account \union {NoUser}]]
          /\ TicketsMove
      <3>1. CASE UNCHANGED ticket
        BY <1>1, <3>1, StayQuiet DEF LoginTypes
      <3>2. CASE ticket' = [ticket EXCEPT ![t].state = "confirmed", ![t].user = u] /\ ticket[t].state = "pending"
        <4>1. \A x \in Ticket : x # t => ticket'[x] = ticket[x]
          BY <1>1, <3>2 DEF LoginTypes
        <4>2. ticket'[t] = [state |-> "confirmed", user |-> u]
          BY <1>1, <2>1, <3>2 DEF LoginTypes
        <4>3. ticket' \in [Ticket -> [state : {"none", "pending", "confirmed", "consumed", "expired"},
                                      user : Account \union {NoUser}]]
          BY <1>1, <2>1, <3>2 DEF LoginTypes
        <4> QED
          BY <1>1, <2>1, <3>2, <4>1, <4>2, <4>3 DEF TicketsMove, Tickets, TicketIs
      <3> QED
        BY <2>3, <3>1, <3>2
    <2>5. Weaker
      BY <1>1, <2>2, WeakerFacts
    <2>6. LoginTypes'
      BY <1>1, <2>2, <2>4, <2>5, CalmTypes DEF LoginTypes
    <2> QED
      BY <2>2, <2>4, <2>5, <2>6, AskIsCalm, CalmInv
  <1>6. ASSUME NEW q \in LoginRequest, PollQRLogin(q)
        PROVE  SessionsInv'
    <2> DEFINE r == IF ban[request[q].user] = "no"
                    THEN IssueUserSession(request[q].user, request[q].kind, request[q].ticket) ELSE Nothing
    <2>1. /\ request[q].op = "consumed" /\ request' = [request EXCEPT ![q] = r]
          /\ UNCHANGED <<ban, endings, resets, token, newest, ticket>>
      BY <1>6 DEF PollQRLogin, accountRowVars
    <2>2. /\ r.op # "rotating" /\ RequestIs(r)
          /\ \A t \in Ticket : Bears(r, t) => Bears(request[q], t) /\ r.user = request[q].user
      <3>1. CASE ban[request[q].user] = "no"
        BY <1>1, <2>1, <3>1 DEF RequestIs, Bears, IssueUserSession
      <3>2. CASE ban[request[q].user] # "no"
        BY <3>2 DEF RequestIs, Bears, Nothing
      <3> QED
        BY <3>1, <3>2
    <2> HIDE DEF r
    <2>3. /\ request' = [p \in LoginRequest |-> request'[p]]
          /\ \A p \in LoginRequest : request'[p] = IF p = q THEN r ELSE request[p]
      BY <1>1, <2>1 DEF LoginTypes
    <2>4. \A p \in LoginRequest : Calmly(p)
      BY <2>2, <2>3 DEF Calmly
    <2>5. Weaker
      BY <1>1, <2>1, WeakerFacts
    <2>6. LoginTypes'
      BY <1>1, <2>1, <2>3 DEF LoginTypes
    <2> QED
      BY <2>1, <2>4, <2>5, <2>6, StayQuiet, CalmInv
  <1> QED
    BY <1>3, <1>4, <1>5, <1>6

\* A poll takes a confirmed ticket: nothing came of it before.
LEMMA ConsumeInv ==
  ASSUME SessionsInv, NEW q \in LoginRequest, NEW t \in Ticket, NEW k \in DeviceKind,
         ConsumeQRLoginTicket(q, t, k)
  PROVE  SessionsInv'
  <1> DEFINE r == [op |-> "consumed", user |-> ticket[t].user, kind |-> k, ticket |-> t]
  <1>1. /\ ticket[t].state = "confirmed" /\ AskFor(q, r)
        /\ ticket' = [ticket EXCEPT ![t].state = "consumed"]
        /\ UNCHANGED <<ban, deleted, endings, resets, revoked, token, newest>>
    BY DEF ConsumeQRLoginTicket, Consume, accountRowVars
  <1>2. LoginTypes /\ Tickets /\ Rotation /\ ticket[t].user \in Account
    BY <1>1 DEF SessionsInv, Tickets, TicketIs
  <1>3. /\ r.op = "consumed" /\ r.ticket = t /\ r.user = ticket[t].user /\ RequestIs(r)
        /\ r.op # "rotating" /\ \A x \in Ticket : Bears(r, x) <=> x = t
    BY <1>2 DEF RequestIs, Bears
  <1> HIDE DEF r
  <1>4. /\ request[q] = Nothing /\ request' = [p \in LoginRequest |-> request'[p]]
        /\ \A p \in LoginRequest : request'[p] = IF p = q THEN r ELSE request[p]
    BY <1>1, <1>2, Requests
  <1>5. /\ ticket'[t].state = "consumed" /\ ticket'[t].user = ticket[t].user
        /\ \A x \in Ticket : x # t => ticket'[x] = ticket[x]
        /\ ticket' \in [Ticket -> [state : {"none", "pending", "confirmed", "consumed", "expired"},
                                   user : Account \union {NoUser}]]
    BY <1>1, <1>2 DEF LoginTypes
  <1>6. LoginTypes'
    BY <1>1, <1>2, <1>4, <1>5 DEF LoginTypes
  <1>7. UsedRows' = UsedRows
    BY <1>1 DEF UsedRows, UnusedRows
  <1>8. (\A p \in LoginRequest : RequestIs(request[p]))'
    BY <1>3, <1>4, <1>7 DEF SessionsInv, RequestIs
  <1>9. Lineage' /\ NewestLoginOwns' /\ EndedForGood'
    BY <1>1, <1>7 DEF SessionsInv, Lineage, RefreshedOnce, NewestLoginOwns, EndedForGood, DeviceSessionActive
  <1>10. Rotation'
    <2>1. \A p \in LoginRequest : Rotating(p)' => Rotating(p) /\ request'[p] = request[p]
      BY <1>3, <1>4 DEF Rotating
    <2> QED
      BY <1>1, <1>2, <1>7, <2>1 DEF Rotation
  <1>11. Tickets'
    <2>1. \A s \in UsedRows : token[s].ticket # t
      BY <1>1, <1>2 DEF Tickets, TicketIs
    <2>2. \A p \in LoginRequest : ~Bears(request[p], t)
      BY <1>1, <1>2 DEF Tickets, TicketIs
    <2> SUFFICES ASSUME NEW x \in Ticket
                 PROVE  TicketIs(x)'
      BY DEF Tickets
    <2>3. \A s \in Token : Root(s, x)' <=> Root(s, x)
      BY <1>1, <1>7 DEF Root
    <2>4. CASE x = t
      <3>1. \A s \in Token : ~Root(s, t)
        BY <2>1 DEF Root
      <3>2. \A p \in LoginRequest : Bears(request'[p], t) => p = q
        BY <1>4, <2>2
      <3> QED
        BY <1>1, <1>2, <1>3, <1>4, <1>5, <1>7, <2>1, <2>3, <2>4, <3>1, <3>2 DEF TicketIs
    <2>5. CASE x # t
      <3>1. \A p \in LoginRequest : Bears(request'[p], x) => Bears(request[p], x) /\ request'[p] = request[p]
        BY <1>3, <1>4, <2>5
      <3> QED
        BY <1>1, <1>2, <1>5, <1>7, <2>3, <2>5, <3>1 DEF Tickets, TicketIs
    <2> QED
      BY <2>4, <2>5
  <1> QED
    BY <1>6, <1>8, <1>9, <1>10, <1>11 DEF SessionsInv

\* A rotation begins with a token in use, and locks the user.
LEMMA RotateBeginInv ==
  ASSUME SessionsInv, NEW q \in LoginRequest, RotateBegin(q)
  PROVE  SessionsInv'
  <1> DEFINE t == request[q].token
             r == [op |-> "rotating", token |-> t, user |-> token[t].user]
  <1>1. /\ request[q].op = "refresh" /\ ~UserLocked(token[t].user) /\ token[t].state = "live"
        /\ request' = [request EXCEPT ![q] = r]
        /\ UNCHANGED <<ban, deleted, endings, resets, revoked, token, newest, ticket>>
    BY DEF RotateBegin, Rotatable, accountRowVars
  <1>2. LoginTypes /\ Tickets /\ Rotation /\ Lineage /\ t \in UsedRows
    BY <1>1 DEF SessionsInv, RequestIs
  <1>3. /\ r.op = "rotating" /\ r.token = t /\ r.user = token[t].user /\ RequestIs(r)
        /\ \A x \in Ticket : ~Bears(r, x)
    BY DEF RequestIs, Bears
  <1>4. \A s \in UsedRows : token[s].parent # t
    <2>1. \A s \in UsedRows : token[s].parent # NoToken => token[token[s].parent].state = "revoked"
      BY <1>2 DEF Lineage
    <2>2. t # NoToken
      BY <1>2, NoRowFacts, SessionsAssumption
    <2> QED
      BY <1>1, <2>1, <2>2
  <1>5. /\ token[t].login = newest[token[t].user][token[t].kind]
        /\ token[t].end = endings[token[t].user]
    BY <1>1, <1>2 DEF SessionsInv, NewestLoginOwns, EndedForGood, DeviceSessionActive
  <1>6. \A p \in LoginRequest : Rotating(p) => request[p].user # token[t].user
    BY <1>1 DEF UserLocked, Rotating
  <1> HIDE DEF r
  <1>7. /\ request' = [p \in LoginRequest |-> request'[p]]
        /\ \A p \in LoginRequest : request'[p] = IF p = q THEN r ELSE request[p]
    BY <1>1, <1>2 DEF LoginTypes
  <1>8. LoginTypes'
    BY <1>1, <1>2, <1>7 DEF LoginTypes
  <1>9. UsedRows' = UsedRows
    BY <1>1 DEF UsedRows, UnusedRows
  <1>10. (\A p \in LoginRequest : RequestIs(request[p]))'
    BY <1>3, <1>7, <1>9 DEF SessionsInv, RequestIs
  <1>11. Lineage' /\ NewestLoginOwns' /\ EndedForGood'
    BY <1>1, <1>9 DEF SessionsInv, Lineage, RefreshedOnce, NewestLoginOwns, EndedForGood, DeviceSessionActive
  <1>12. Rotation'
    <2>1. \A p \in LoginRequest : Rotating(p)' => p = q \/ (Rotating(p) /\ request'[p] = request[p])
      BY <1>7 DEF Rotating
    <2>2. request'[q] = r
      BY <1>7
    <2>3. \A p \in LoginRequest : Rotating(p)' /\ p # q => request'[p].user # token[t].user
      BY <1>6, <2>1
    <2>4. \A p, o \in LoginRequest :
             Rotating(p)' /\ Rotating(o)' /\ request'[p].user = request'[o].user => p = o
      BY <1>2, <1>3, <2>1, <2>2, <2>3 DEF Rotation
    <2>5. ASSUME NEW p \in LoginRequest, Rotating(p)'
          PROVE  LET x == request'[p].token
                 IN  /\ x \in UsedRows /\ token[x].user = request'[p].user
                     /\ token[x].login = newest[token[x].user][token[x].kind]
                     /\ token[x].end = endings[token[x].user]
                     /\ \A s \in UsedRows : token[s].parent # x
      <3>1. CASE p = q
        BY <1>2, <1>3, <1>4, <1>5, <2>2, <3>1
      <3>2. CASE p # q
        BY <1>2, <2>1, <2>5, <3>2 DEF Rotation
      <3> QED
        BY <3>1, <3>2
    <2> QED
      BY <1>1, <1>9, <2>4, <2>5 DEF Rotation
  <1>13. Tickets'
    <2>1. \A p \in LoginRequest, x \in Ticket : Bears(request'[p], x) => Bears(request[p], x) /\ request'[p] = request[p]
      BY <1>3, <1>7
    <2>2. \A s \in Token, x \in Ticket : Root(s, x)' <=> Root(s, x)
      BY <1>1, <1>9 DEF Root
    <2> SUFFICES ASSUME NEW x \in Ticket
                 PROVE  TicketIs(x)'
      BY DEF Tickets
    <2> QED
      BY <1>1, <1>2, <1>9, <2>1, <2>2 DEF Tickets, TicketIs
  <1> QED
    BY <1>8, <1>10, <1>11, <1>12, <1>13 DEF SessionsInv
---------------------------------------------------------------------------
\* A row n is inserted at f, while the others may be revoked.
Inserted(f, n) ==
    /\ f \in UnusedRows /\ n \in Row /\ n.state = "live"
    /\ token' = [t \in Token |-> token'[t]] /\ token'[f] = n
    /\ \A t \in UnusedRows : t # f => token'[t] = NoRow
    /\ \A t \in UsedRows : Keeps(t)

LEMMA RevokeInsert ==
  ASSUME LoginTypes, UnusedRows # {}, NEW S \in SUBSET UsedRows, NEW n \in Row, n.state = "live",
         token' = [Revoke(S) EXCEPT ![Free] = n]
  PROVE  /\ Inserted(Free, n)
         /\ \A t \in Unrevoked(S) : token'[t].state = "revoked"
         /\ \A t \in UsedRows : token'[t] = Revoke(S)[t]
  <1>1. Free \in UnusedRows
    BY DEF Free
  <1>2. \A t \in Token : token'[t] = IF t = Free THEN n ELSE Revoke(S)[t]
    BY DEF Revoke
  <1>3. \A t \in UsedRows : t \in Token /\ t # Free /\ token[t] \in Row
    BY <1>1 DEF UsedRows, UnusedRows, LoginTypes
  <1>4. \A t \in Unrevoked(S) : t \in UsedRows
    BY DEF Unrevoked
  <1>5. \A t \in Unrevoked(S) : token'[t] = [token[t] EXCEPT !.state = "revoked"]
    BY <1>2, <1>3, <1>4 DEF Revoke
  <1>6. \A t \in UsedRows \ Unrevoked(S) : token'[t] = token[t]
    BY <1>2, <1>3 DEF Revoke
  <1>7. \A t \in UnusedRows : t # Free => token'[t] = NoRow
    BY <1>2, <1>4, NoRowFacts DEF Revoke, UsedRows, UnusedRows
  <1>8. ASSUME NEW t \in UsedRows
        PROVE  Keeps(t) /\ (t \in Unrevoked(S) => token'[t].state = "revoked")
    <2>1. CASE t \in Unrevoked(S)
      <3> DEFINE m == [token[t] EXCEPT !.state = "revoked"]
      <3>1. /\ m \in Row /\ m.state = "revoked" /\ m.user = token[t].user /\ m.kind = token[t].kind
            /\ m.login = token[t].login /\ m.parent = token[t].parent
            /\ m.ticket = token[t].ticket /\ m.end = token[t].end
        BY <1>3, RowState
      <3>2. token'[t] = m
        BY <1>5, <2>1
      <3> HIDE DEF m
      <3> QED
        BY <3>1, <3>2 DEF Keeps
    <2>2. CASE t \notin Unrevoked(S)
      BY <1>3, <1>6, <2>2 DEF Keeps
    <2> QED
      BY <2>1, <2>2
  <1>9. token' = [t \in Token |-> token'[t]] /\ token'[Free] = n
    BY <1>1, <1>2, NoRowFacts DEF Revoke
  <1>10. \A t \in UsedRows : token'[t] = Revoke(S)[t]
    BY <1>2, <1>3
  <1> HIDE DEF Free
  <1> QED
    BY <1>1, <1>4, <1>7, <1>8, <1>9, <1>10 DEF Inserted, Keeps

LEMMA InsertInv ==
  ASSUME SessionsInv, NEW q \in LoginRequest, Done(q), NEW f, NEW n, Inserted(f, n),
         UNCHANGED <<ban, endings, resets, ticket>>,
         newest' \in [Account -> [DeviceKind -> Token \union {NoToken}]],
         \A u \in Account, k \in DeviceKind :
             u # n.user \/ k # n.kind => newest'[u][k] = newest[u][k],
         n.login = newest'[n.user][n.kind], n.end = endings[n.user],
         \A t \in UsedRows : token[t].user = n.user /\ token[t].kind = n.kind => token'[t].state # "live",
         \A p \in LoginRequest : p # q /\ Rotating(p) => request[p].user # n.user,
         n.parent # NoToken => /\ n.parent \in UsedRows /\ token'[n.parent].state = "revoked"
                               /\ token[n.parent].user = n.user
                               /\ token[n.parent].ticket = n.ticket
                               /\ \A s \in UsedRows : token[s].parent # n.parent,
         n.parent = NoToken /\ n.ticket \in Ticket =>
             Bears(request[q], n.ticket) /\ request[q].user = n.user
  PROVE  SessionsInv'
  <1>1. LoginTypes /\ Tickets /\ Rotation /\ Lineage /\ NewestLoginOwns /\ EndedForGood
        /\ \A p \in LoginRequest : RequestIs(request[p])
    BY DEF SessionsInv
  <1>2. /\ request' = [p \in LoginRequest |-> request'[p]]
        /\ \A p \in LoginRequest : request'[p] = IF p = q THEN Nothing ELSE request[p]
    BY <1>1, Requests
  <1>3. /\ Nothing.op = "none" /\ RequestIs(Nothing) /\ \A t \in Ticket : ~Bears(Nothing, t)
    BY DEF Nothing, RequestIs, Bears
  <1>4. /\ f \in Token /\ f \notin UsedRows /\ UsedRows' = UsedRows \union {f}
        /\ \A t \in UsedRows : t \in Token /\ t # f
        /\ n.user \in Account /\ n.kind \in DeviceKind
    <2>1. f \in Token /\ f \notin UsedRows
      BY DEF Inserted, Keeps, UsedRows, UnusedRows
    <2>2. \A t \in Token : token'[t] = NoRow <=> t \in UnusedRows /\ t # f
      BY <2>1, NoRowFacts DEF Inserted, Keeps, UsedRows
    <2>3. UsedRows' = UsedRows \union {f}
      BY <2>1, <2>2 DEF UsedRows, UnusedRows
    <2> QED
      BY <2>1, <2>3, NoRowFacts DEF Inserted, Keeps, Row
  <1>5. \A t \in UsedRows : /\ token'[t].user = token[t].user /\ token'[t].kind = token[t].kind
                            /\ token'[t].login = token[t].login /\ token'[t].parent = token[t].parent
                            /\ token'[t].ticket = token[t].ticket /\ token'[t].end = token[t].end
                            /\ token'[t].state = "live" => token[t].state = "live"
                            /\ token[t].state = "revoked" => token'[t].state = "revoked"
                            /\ token[t].user \in Account /\ token[t].kind \in DeviceKind
    BY <1>1 DEF Inserted, Keeps, Row
  <1>6. token'[f] = n
    BY DEF Inserted, Keeps
  <1>7. LoginTypes'
    <2>1. \A t \in Token : token'[t] = NoRow \/ token'[t] \in Row
      BY <1>4 DEF Inserted, Keeps, UsedRows
    <2>2. token' = [t \in Token |-> token'[t]] /\ DOMAIN token' = Token
      BY DEF Inserted, Keeps
    <2> QED
      BY <1>1, <1>2, <2>1, <2>2 DEF LoginTypes
  <1>8. (\A p \in LoginRequest : RequestIs(request[p]))'
    <2> SUFFICES ASSUME NEW p \in LoginRequest
                 PROVE  RequestIs(request[p])'
      OBVIOUS
    <2>1. RequestIs(request'[p])
      BY <1>1, <1>2, <1>3
    <2> QED
      BY <1>4, <2>1 DEF RequestIs
  <1>9. Lineage'
    <2>1. \A s \in UsedRows : token[s].parent # NoToken =>
             token[s].parent \in UsedRows /\ token[token[s].parent].state = "revoked"
      BY <1>1 DEF Lineage
    <2>2. \A s \in UsedRows : token'[s].parent # NoToken =>
             token'[s].parent \in UsedRows /\ token'[token'[s].parent].state = "revoked"
      BY <1>5, <2>1
    <2>3. \A s, t \in UsedRows : s # t /\ token'[s].parent = token'[t].parent => token'[s].parent = NoToken
      BY <1>1, <1>5 DEF Lineage, RefreshedOnce
    <2>4. \A s \in UsedRows : token'[s].parent = n.parent => n.parent = NoToken
      BY <1>5
    <2> QED
      BY <1>4, <1>6, <2>2, <2>3, <2>4 DEF Lineage, RefreshedOnce
  <1>10. NewestLoginOwns'
    <2> SUFFICES ASSUME NEW t \in UsedRows', token'[t].state = "live"
                 PROVE  token'[t].login = newest'[token'[t].user][token'[t].kind]
      BY DEF NewestLoginOwns, DeviceSessionActive
    <2>1. CASE t = f
      BY <1>6, <2>1
    <2>2. CASE t \in UsedRows
      <3>1. /\ token[t].login = newest[token[t].user][token[t].kind]
            /\ token[t].user # n.user \/ token[t].kind # n.kind
        BY <1>1, <1>5, <2>2 DEF NewestLoginOwns, DeviceSessionActive
      <3> QED
        BY <1>5, <2>2, <3>1
    <2> QED
      BY <1>4, <2>1, <2>2
  <1>11. EndedForGood'
    <2> SUFFICES ASSUME NEW t \in UsedRows', token'[t].state = "live"
                 PROVE  token'[t].end = endings[token'[t].user]
      BY DEF EndedForGood, DeviceSessionActive
    <2>1. CASE t = f
      BY <1>6, <2>1
    <2>2. CASE t \in UsedRows
      BY <1>1, <1>5, <2>2 DEF EndedForGood, DeviceSessionActive
    <2> QED
      BY <1>4, <2>1, <2>2
  <1>12. Rotation'
    <2>1. \A p \in LoginRequest : Rotating(p)' => p # q /\ Rotating(p) /\ request'[p] = request[p]
      BY <1>2, <1>3 DEF Rotating
    <2>2. ASSUME NEW p \in LoginRequest, Rotating(p)'
          PROVE  LET x == request'[p].token
                 IN  /\ x \in UsedRows' /\ token'[x].user = request'[p].user
                     /\ token'[x].login = newest'[token'[x].user][token'[x].kind]
                     /\ token'[x].end = endings'[token'[x].user]
                     /\ \A s \in UsedRows' : token'[s].parent # x
      <3> DEFINE x == request[p].token
      <3>1. /\ p # q /\ request'[p] = request[p] /\ x \in UsedRows
            /\ token[x].user = request[p].user
            /\ token[x].login = newest[token[x].user][token[x].kind]
            /\ token[x].end = endings[token[x].user]
            /\ \A s \in UsedRows : token[s].parent # x
        BY <1>1, <2>1, <2>2 DEF Rotation
      <3>2. token[x].user # n.user
        BY <2>1, <2>2, <3>1
      <3>3. n.parent # x
        BY <3>1, <3>2, <1>4, SessionsAssumption
      <3>4. \A s \in UsedRows' : token'[s].parent # x
        BY <1>4, <1>5, <1>6, <3>1, <3>3
      <3> QED
        BY <1>4, <1>5, <3>1, <3>2, <3>4
    <2>3. \A p, o \in LoginRequest :
             Rotating(p)' /\ Rotating(o)' /\ request'[p].user = request'[o].user => p = o
      BY <1>1, <2>1 DEF Rotation
    <2> QED
      BY <2>2, <2>3 DEF Rotation
  <1>13. Tickets'
    <2> SUFFICES ASSUME NEW x \in Ticket
                 PROVE  TicketIs(x)'
      BY DEF Tickets
    <2>1. \A p \in LoginRequest : Bears(request'[p], x) => p # q /\ Bears(request[p], x) /\ request'[p] = request[p]
      BY <1>2, <1>3
    <2>2. /\ \A s \in UsedRows : token[s].ticket = x => ticket[x].state = "consumed" /\ ticket[x].user = token[s].user
          /\ \A p \in LoginRequest : Bears(request[p], x) => ticket[x].state = "consumed" /\ ticket[x].user = request[p].user
          /\ \A s, z \in Token : Root(s, x) /\ Root(z, x) => s = z
          /\ \A p, o \in LoginRequest : Bears(request[p], x) /\ Bears(request[o], x) => p = o
          /\ \A s \in Token, p \in LoginRequest : ~(Root(s, x) /\ Bears(request[p], x))
          /\ ticket[x].state \in {"none", "pending"} => ticket[x].user = NoUser
          /\ ticket[x].state \in {"confirmed", "consumed"} => ticket[x].user \in Account
      BY <1>1 DEF Tickets, TicketIs
    <2>3. \A s \in Token : Root(s, x)' => Root(s, x) \/ (s = f /\ n.ticket = x /\ n.parent = NoToken)
      BY <1>4, <1>5, <1>6 DEF Root
    <2>4. n.ticket = x /\ n.parent = NoToken => Bears(request[q], x)
      OBVIOUS
    <2>5. n.ticket = x => ticket[x].state = "consumed" /\ ticket[x].user = n.user
      BY <2>2, <2>4
    <2>6. \A s \in UsedRows' : token'[s].ticket = x => ticket[x].state = "consumed" /\ ticket[x].user = token'[s].user
      BY <1>4, <1>5, <1>6, <2>2, <2>5
    <2>7. ~Root(f, x)
      BY <1>4 DEF Root
    <2>8. \A s, z \in Token : Root(s, x)' /\ Root(z, x)' => s = z
      BY <2>2, <2>3, <2>4
    <2>9. \A s \in Token, p \in LoginRequest : ~(Root(s, x)' /\ Bears(request'[p], x))
      BY <2>1, <2>2, <2>3, <2>4
    <2> QED
      BY <2>1, <2>2, <2>6, <2>8, <2>9 DEF TicketIs
  <1> QED
    BY <1>7, <1>8, <1>9, <1>10, <1>11, <1>12, <1>13 DEF SessionsInv
---------------------------------------------------------------------------
\* A login replaces the session of its device.
LEMMA CreateInv ==
  ASSUME SessionsInv, NEW q \in LoginRequest, CreateDeviceRefreshSession(q)
  PROVE  SessionsInv'
  <1> DEFINE u == request[q].user
             k == request[q].kind
             n == [state |-> "live", user |-> u, kind |-> k, login |-> Free,
                   parent |-> NoToken, ticket |-> request[q].ticket,
                   end |-> endings[u], reset |-> resets[u]]
  <1>1. /\ request[q].op = "issue" /\ UnusedRows # {} /\ ~UserLocked(u) /\ Done(q)
        /\ token' = [Revoke(Of(u, k)) EXCEPT ![Free] = n]
        /\ newest' = [newest EXCEPT ![u][k] = Free]
        /\ UNCHANGED <<ban, endings, resets, ticket>>
    BY DEF CreateDeviceRefreshSession, accountRowVars
  <1>2. LoginTypes /\ u \in Account /\ k \in DeviceKind /\ request[q].ticket \in Ticket \union {NoTicket}
    BY <1>1 DEF SessionsInv, RequestIs
  <1>3. Free \in Token /\ Of(u, k) \subseteq UsedRows
    BY <1>1, NoRowFacts DEF Free, Of
  <1>4. n \in Row
    BY <1>2, <1>3 DEF Row, LoginTypes
  <1>5. /\ n.state = "live" /\ n.user = u /\ n.kind = k /\ n.login = Free /\ n.parent = NoToken
        /\ n.ticket = request[q].ticket /\ n.end = endings[u]
    OBVIOUS
  <1> HIDE DEF n, Free
  <1>6. Inserted(Free, n) /\ \A t \in Unrevoked(Of(u, k)) : token'[t].state = "revoked"
    BY <1>1, <1>2, <1>3, <1>4, <1>5, RevokeInsert
  <1>7. /\ newest' \in [Account -> [DeviceKind -> Token \union {NoToken}]]
        /\ \A v \in Account, j \in DeviceKind : v # u \/ j # k => newest'[v][j] = newest[v][j]
        /\ newest'[u][k] = Free
    <2>1. newest' = [newest EXCEPT ![u] = [newest[u] EXCEPT ![k] = Free]]
      BY <1>1
    <2>2. newest \in [Account -> [DeviceKind -> Token \union {NoToken}]]
      BY <1>2 DEF LoginTypes
    <2>3. [newest[u] EXCEPT ![k] = Free] \in [DeviceKind -> Token \union {NoToken}]
      BY <1>2, <1>3, <2>2
    <2> QED
      BY <1>2, <1>3, <2>1, <2>2, <2>3
  <1>8. \A t \in UsedRows : token[t].user = u /\ token[t].kind = k => token'[t].state # "live"
    <2> SUFFICES ASSUME NEW t \in UsedRows, token[t].user = u, token[t].kind = k
                 PROVE  token'[t].state # "live"
      OBVIOUS
    <2>1. t \in Of(u, k)
      BY DEF Of
    <2>2. CASE t \in Unrevoked(Of(u, k))
      BY <1>6, <2>2
    <2>3. CASE t \notin Unrevoked(Of(u, k))
      <3>1. token[t].state = "revoked"
        BY <1>2, <2>1, <2>3 DEF Unrevoked, LoginTypes, UsedRows, UnusedRows, Row
      <3> QED
        BY <1>6, <3>1 DEF Inserted, Keeps
    <2> QED
      BY <2>2, <2>3
  <1>9. \A p \in LoginRequest : Rotating(p) => request[p].user # u
    BY <1>1 DEF UserLocked, Rotating
  <1>10. n.ticket \in Ticket => Bears(request[q], n.ticket) /\ request[q].user = n.user
    BY <1>1, <1>5 DEF Bears
  <1> QED
    BY <1>1, <1>5, <1>6, <1>7, <1>8, <1>9, <1>10, InsertInv

\* A rotation replaces the token.
LEMMA RotateEndInv ==
  ASSUME SessionsInv, NEW q \in LoginRequest, RotateEnd(q)
  PROVE  SessionsInv'
  <1> DEFINE t == request[q].token
             n == [token[t] EXCEPT !.state = "live", !.parent = t]
  <1>1. /\ Rotating(q) /\ UnusedRows # {} /\ Done(q)
        /\ Unrevoked(Of(n.user, n.kind)) \subseteq {t}
        /\ token' = [Revoke({t}) EXCEPT ![Free] = n]
        /\ UNCHANGED <<ban, endings, resets, newest, ticket>>
    BY DEF RotateEnd, Rotating, accountRowVars
  <1>2. LoginTypes /\ Rotation
    BY DEF SessionsInv
  <1>3. /\ t \in UsedRows /\ token[t].user = request[q].user
        /\ token[t].login = newest[token[t].user][token[t].kind]
        /\ token[t].end = endings[token[t].user]
        /\ \A s \in UsedRows : token[s].parent # t
    BY <1>1, <1>2 DEF Rotation
  <1>4. token[t] \in Row /\ t \in Token
    BY <1>2, <1>3 DEF LoginTypes, UsedRows, UnusedRows
  <1>5. /\ n \in Row /\ n.state = "live" /\ n.parent = t
        /\ n.user = token[t].user /\ n.kind = token[t].kind /\ n.login = token[t].login
        /\ n.ticket = token[t].ticket /\ n.end = token[t].end
    BY <1>4 DEF Row
  <1> HIDE DEF n, Free
  <1>6. /\ Inserted(Free, n)
        /\ \A s \in Unrevoked({t}) : token'[s].state = "revoked"
    BY <1>1, <1>2, <1>3, <1>5, RevokeInsert
  <1>7. \A s \in UsedRows : token[s].state # "revoked" => token[s].state \in {"live", "expired"}
    BY <1>2 DEF LoginTypes, UsedRows, UnusedRows, Row
  <1>8. token'[t].state = "revoked"
    <2>1. CASE t \in Unrevoked({t})
      BY <1>6, <2>1
    <2>2. CASE t \notin Unrevoked({t})
      BY <1>3, <1>6, <1>7, <2>2 DEF Unrevoked, Inserted, Keeps
    <2> QED
      BY <2>1, <2>2
  <1>9. \A s \in UsedRows : token[s].user = n.user /\ token[s].kind = n.kind => token'[s].state # "live"
    <2> SUFFICES ASSUME NEW s \in UsedRows, token[s].user = n.user, token[s].kind = n.kind
                 PROVE  token'[s].state # "live"
      OBVIOUS
    <2>1. CASE s = t
      BY <1>8, <2>1
    <2>2. CASE s # t
      <3>1. s \in Of(n.user, n.kind)
        BY DEF Of
      <3>2. token[s].state = "revoked"
        BY <1>1, <1>7, <2>2, <3>1 DEF Unrevoked
      <3> QED
        BY <1>6, <3>2 DEF Inserted, Keeps
    <2> QED
      BY <2>1, <2>2
  <1>10. \A p \in LoginRequest : p # q /\ Rotating(p) => request[p].user # n.user
    BY <1>1, <1>2, <1>3, <1>5 DEF Rotation
  <1>11. /\ newest' \in [Account -> [DeviceKind -> Token \union {NoToken}]]
         /\ n.login = newest'[n.user][n.kind] /\ n.end = endings[n.user]
         /\ \A v \in Account, j \in DeviceKind : newest'[v][j] = newest[v][j]
    BY <1>1, <1>2, <1>3, <1>5 DEF LoginTypes
  <1>12. n.parent # NoToken
    BY <1>4, <1>5, SessionsAssumption
  <1>13. /\ n.parent \in UsedRows /\ token'[n.parent].state = "revoked"
         /\ token[n.parent].user = n.user /\ token[n.parent].ticket = n.ticket
         /\ \A s \in UsedRows : token[s].parent # n.parent
    BY <1>3, <1>5, <1>8
  <1> QED
    BY <1>1, <1>6, <1>9, <1>10, <1>11, <1>12, <1>13, InsertInv
---------------------------------------------------------------------------
LEMMA SessionsInitInv == SessionsInit => SessionsInv
  <1> SUFFICES ASSUME SessionsInit PROVE SessionsInv
    OBVIOUS
  <1>1. UsedRows = {} /\ \A t \in Token : token[t] = NoRow
    BY DEF SessionsInit, UsedRows, UnusedRows
  <1>2. \A q \in LoginRequest : request[q].op = "none"
    BY DEF SessionsInit, Nothing
  <1>3. LoginTypes
    BY SessionsAssumption DEF SessionsInit, LoginTypes
  <1>4. \A q \in LoginRequest : RequestIs(request[q])
    BY <1>2 DEF RequestIs
  <1>5. Lineage /\ NewestLoginOwns /\ EndedForGood
    BY <1>1 DEF Lineage, RefreshedOnce, NewestLoginOwns, EndedForGood
  <1>6. Rotation
    BY <1>2 DEF Rotation, Rotating
  <1>7. Tickets
    <2>1. \A t \in Ticket : ticket[t].state = "none" /\ ticket[t].user = NoUser
      BY DEF SessionsInit
    <2> QED
      BY <1>1, <1>2, <2>1 DEF Tickets, TicketIs, Root, Bears
  <1> QED
    BY <1>3, <1>4, <1>5, <1>6, <1>7 DEF SessionsInv

LEMMA SessionsNextInv == SessionsInv /\ [SessionsNext]_sessionVars => SessionsInv'
  <1>1. ASSUME SessionsInv, UNCHANGED sessionVars
        PROVE  SessionsInv'
    <2>1. Weaker /\ LoginTypes'
      BY <1>1, WeakerFacts DEF SessionsInv, LoginTypes, sessionVars, accountRowVars
    <2> QED
      BY <1>1, <2>1, StayQuiet, CalmInv DEF sessionVars, accountRowVars, Calmly
  <1> QED
    BY <1>1, AskSteps, EndSteps, TicketSteps, ConsumeInv, RotateBeginInv, CreateInv, RotateEndInv
       DEF SessionsNext

LEMMA SessionsInvariant == SessionsSpec => []SessionsInv
  BY SessionsInitInv, SessionsNextInv, PTL DEF SessionsSpec

LEMMA OneLoginOfATicket ==
  ASSUME SessionsInv
  PROVE  TicketLogsInOnce
  <1>1. Tickets /\ LoginTypes
    BY DEF SessionsInv
  <1>2. ASSUME NEW t \in Ticket
        PROVE  Cardinality(Logins(t)) <= 1
    <2>1. \A x, y \in Logins(t) : x = y
      BY <1>1, NoRowFacts DEF Logins, Tickets, TicketIs, Root, Bears
    <2>2. CASE Logins(t) = {}
      BY <2>2, FS_EmptySet
    <2>3. CASE Logins(t) # {}
      <3>1. PICK x : Logins(t) = {x}
        BY <2>1, <2>3
      <3> QED
        BY <3>1, FS_Singleton
    <2> QED
      BY <2>2, <2>3
  <1>3. ASSUME NEW s \in UsedRows, token[s].ticket # NoTicket
        PROVE  token[s].user = ticket[token[s].ticket].user
    <2>1. token[s].ticket \in Ticket
      BY <1>1, <1>3 DEF LoginTypes, UsedRows, UnusedRows, Row
    <2> QED
      BY <1>1, <2>1 DEF Tickets, TicketIs
  <1> QED
    BY <1>2, <1>3 DEF TicketLogsInOnce

\* The user of a ticket stays: only a pending ticket, which has none, gets one.
LEMMA UserOfTicketStays ==
  ASSUME SessionsInv, [SessionsNext]_sessionVars, NEW t \in Ticket, ticket[t].user # NoUser
  PROVE  ticket'[t].user = ticket[t].user
  <1>1. ticket \in [Ticket -> [state : {"none", "pending", "confirmed", "consumed", "expired"},
                               user : Account \union {NoUser}]]
    BY DEF SessionsInv, LoginTypes
  <1>2. ticket[t].state # "pending"
    BY DEF SessionsInv, Tickets, TicketIs
  <1>3. ASSUME NEW x \in Ticket, NEW s, ticket' = [ticket EXCEPT ![x].state = s]
        PROVE  ticket'[t].user = ticket[t].user
    BY <1>1, <1>3
  <1>4. ASSUME NEW q \in LoginRequest, ConfirmQRLoginTicket(q)
        PROVE  ticket'[t].user = ticket[t].user
    <2>1. CASE UNCHANGED ticket
      BY <2>1
    <2>2. CASE /\ ticket[request[q].ticket].state = "pending"
               /\ ticket' = [ticket EXCEPT ![request[q].ticket].state = "confirmed",
                                           ![request[q].ticket].user = request[q].user]
      <3>1. request[q].ticket # t
        BY <1>2, <2>2
      <3> QED
        BY <1>1, <2>2, <3>1
    <2> QED
      BY <1>4, <2>1, <2>2 DEF ConfirmQRLoginTicket
  <1>5. ASSUME NEW q \in LoginRequest, NEW x \in Ticket, NEW k \in DeviceKind, ConsumeQRLoginTicket(q, x, k)
        PROVE  ticket'[t].user = ticket[t].user
    BY <1>3, <1>5 DEF ConsumeQRLoginTicket
  <1>6. ASSUME NEW x \in Ticket, CreateQRLoginTicket(x) \/ TicketExpires(x)
        PROVE  ticket'[t].user = ticket[t].user
    BY <1>3, <1>6 DEF CreateQRLoginTicket, TicketExpires
  <1>7. CASE UNCHANGED ticket
    BY <1>7
  <1> QED
    BY <1>4, <1>5, <1>6, <1>7
       DEF SessionsNext, sessionVars, GiveUp, CreateDeviceRefreshSession, RotateBegin, RotateEnd,
           RevokeDeviceRefreshSessions, RevokeUserRefreshSessions, DeleteOwnAccount, PollQRLogin,
           UpdatePassword, PasswordLogin, Refresh, Logout, AskDeletion, ConfirmQRLogin,
           RefreshTokenExpires, ExpireUserBans, SetUserBanRecord

\* The promise of sessions, for any accounts, kinds of devices, tokens, tickets
\* and requests under way: a token has one successor, the newest login owns the
\* device, what a ban or a deletion ended stays ended, a ticket logs in once and
\* keeps its user.
THEOREM SessionsKeepPromise == SessionsSpec => SessionsKept
  <1>1. SessionsInv => RefreshedOnce /\ NewestLoginOwns /\ EndedForGood /\ TicketLogsInOnce
    BY OneLoginOfATicket DEF SessionsInv, Lineage
  <1>2. SessionsInv /\ [SessionsNext]_sessionVars =>
           [\A t \in Ticket : ticket[t].user # NoUser => ticket'[t].user = ticket[t].user]_sessionVars
    BY UserOfTicketStays
  <1>3. SessionsSpec => [](RefreshedOnce /\ NewestLoginOwns /\ EndedForGood /\ TicketLogsInOnce)
    BY <1>1, SessionsInvariant, PTL
  <1>4. SessionsSpec => TicketKeepsUser
    BY <1>2, SessionsInvariant, PTL DEF SessionsSpec, TicketKeepsUser
  <1> QED
    BY <1>3, <1>4 DEF SessionsKept

---------------------------------------------------------------------------
(* Administrators.  A request that has counted the platform administrators   *)
(* holds the rows of all of them until it writes, so nobody else counts      *)
(* meanwhile, and there is another one beside its target.                    *)

AdminTypes ==
    /\ adminRow = [a \in Admin |-> adminRow[a]]
    /\ \A a \in Admin : /\ DOMAIN adminRow[a] = {"version", "active", "role", "secret"}
                        /\ adminRow[a].version \in Nat
    /\ adminRequest = [q \in AdminRequest |-> adminRequest[q]]
    /\ \A q \in AdminRequest : /\ adminRequest[q].holds \subseteq Admin
                               /\ At(q, "locked") => DOMAIN adminRequest[q] = {"phase", "actor", "holds", "target"}

\* Accounts that were not created have no token and no rights.
NotYet ==
    /\ \A a \in Admin : adminRow[a].active => adminRow[a].version > 0
    /\ \A t \in adminToken : t.id \in Admin /\ t.version \in Nat /\ 0 < t.version
                             /\ t.version <= adminRow[t.id].version
    /\ \A q \in AdminRequest : /\ adminRequest[q].phase \in {"admitted", "locked", "counted"} => Existing # {}
                               /\ adminRequest[q].holds \subseteq Existing

\* A row has one holder.
OneHolder ==
    \A q, o \in AdminRequest : adminRequest[q].holds \intersect adminRequest[o].holds # {} => q = o

\* What a request has locked and counted.
Counting ==
    \A q \in AdminRequest :
        /\ At(q, "locked") => adminRequest[q].target \in Admin /\ adminRequest[q].target \in adminRequest[q].holds
        /\ At(q, "counted") =>
              /\ adminRequest[q].target \in Admin /\ adminRequest[q].target \in adminRequest[q].holds
              /\ \E a \in InCharge \intersect adminRequest[q].holds : a # adminRequest[q].target

\* The row a login has read is of its version.
ReadRow ==
    \A q \in AdminRequest :
        /\ At(q, "known") =>
              LET r == adminRequest[q].row
                  a == adminRequest[q].actor
              IN  /\ a \in Admin /\ r.version \in Nat /\ 0 < r.version /\ r.version <= adminRow[a].version
                  /\ r.version = adminRow[a].version => adminRow[a].active /\ r.secret = adminRow[a].secret
        /\ At(q, "verified") => adminRequest[q].actor \in Admin

AdminInv ==
    /\ AdminTypes
    /\ NotYet
    /\ OneHolder
    /\ Counting
    /\ ReadRow
    /\ SomebodyIsInCharge
    /\ TokensAreCurrent
---------------------------------------------------------------------------
\* A request comes to r, and no account changes.
LEMMA RequestMoves ==
  ASSUME AdminInv, NEW q \in AdminRequest, NEW r, Becomes(q, r), UNCHANGED adminRow,
         \A t \in adminToken' : t \in adminToken \/ (/\ t.id \in Admin /\ t.version \in Nat /\ 0 < t.version
                                                     /\ t.version <= adminRow[t.id].version
                                                     /\ t.version = adminRow[t.id].version =>
                                                           adminRow[t.id].active /\ t.secret = adminRow[t.id].secret),
         r.holds \subseteq Existing,
         r.phase = "locked" => DOMAIN r = {"phase", "actor", "holds", "target"},
         \A a \in r.holds \ adminRequest[q].holds : AdminFree(q, a),
         r.phase \in {"admitted", "locked", "counted"} => Existing # {},
         r.phase = "locked" => r.target \in Admin /\ r.target \in r.holds,
         r.phase = "counted" => /\ r.target \in Admin /\ r.target \in r.holds
                                /\ \E a \in InCharge \intersect r.holds : a # r.target,
         r.phase = "known" => /\ r.actor \in Admin /\ r.row.version \in Nat /\ 0 < r.row.version
                              /\ r.row.version <= adminRow[r.actor].version
                              /\ r.row.version = adminRow[r.actor].version =>
                                    adminRow[r.actor].active /\ r.row.secret = adminRow[r.actor].secret,
         r.phase = "verified" => r.actor \in Admin
  PROVE  AdminInv'
  <1> USE DEF AdminInv
  <1>1. /\ adminRequest' = [p \in AdminRequest |-> adminRequest'[p]]
        /\ \A p \in AdminRequest : adminRequest'[p] = IF p = q THEN r ELSE adminRequest[p]
    BY DEF AdminTypes, Becomes
  <1>2. AdminTypes'
    BY <1>1 DEF AdminTypes, At, Existing
  <1>3. InCharge' = InCharge /\ Existing' = Existing
    BY DEF InCharge, Existing
  <1>4. NotYet'
    BY <1>1, <1>3 DEF NotYet
  <1>5. OneHolder'
    <2> SUFFICES ASSUME NEW p \in AdminRequest, NEW o \in AdminRequest, NEW a,
                        a \in adminRequest'[p].holds, a \in adminRequest'[o].holds
                 PROVE  p = o
      BY DEF OneHolder
    <2>1. \A x, y \in AdminRequest : a \in adminRequest[x].holds /\ a \in adminRequest[y].holds => x = y
      BY DEF OneHolder
    <2>2. \A x \in AdminRequest : x # q /\ a \in r.holds => a \notin adminRequest[x].holds
      BY <2>1 DEF AdminFree
    <2> QED
      BY <1>1, <2>1, <2>2
  <1>6. Counting'
    BY <1>1, <1>3 DEF Counting, At
  <1>7. ReadRow'
    BY <1>1 DEF ReadRow, At
  <1>8. SomebodyIsInCharge' /\ TokensAreCurrent'
    BY <1>3 DEF SomebodyIsInCharge, TokensAreCurrent
  <1> QED
    BY <1>2, <1>4, <1>5, <1>6, <1>7, <1>8

\* A request ends and, unless it wrote, that is all.
LEMMA RequestEnds ==
  ASSUME AdminInv, NEW q \in AdminRequest, RequestOver(q), UNCHANGED adminRow,
         adminToken' \subseteq adminToken
  PROVE  AdminInv'
  <1>1. /\ NoAdminRequest.phase = "none" /\ NoAdminRequest.holds = {}
    BY DEF NoAdminRequest
  <1> QED
    BY <1>1, RequestMoves DEF RequestOver

\* One account gets a new row, of a higher version; who else is in charge stays.
LEMMA AccountWritten ==
  ASSUME AdminInv, NEW q \in AdminRequest, RequestOver(q), NEW a \in Admin,
         NEW v \in Nat, NEW on, NEW role, NEW s, Write(a, AdminRow(v, on, role, s)),
         v > adminRow[a].version, UNCHANGED adminToken,
         \A p \in AdminRequest \ {q} : a \notin adminRequest[p].holds,
         a \in InCharge => \/ on /\ role = "platform_admin"
                           \/ \E b \in InCharge : b # a,
         Existing # {}
  PROVE  AdminInv'
  <1> USE DEF AdminInv
  <1>1. /\ adminRequest' = [p \in AdminRequest |-> adminRequest'[p]]
        /\ \A p \in AdminRequest : adminRequest'[p] = IF p = q THEN NoAdminRequest ELSE adminRequest[p]
        /\ NoAdminRequest.phase = "none" /\ NoAdminRequest.holds = {}
    BY DEF AdminTypes, RequestOver, Becomes, NoAdminRequest
  <1> DEFINE writes == AdminRow(v, on, role, s)
  <1>2. /\ writes.version = v /\ writes.active = on /\ writes.role = role /\ writes.secret = s
        /\ DOMAIN writes = {"version", "active", "role", "secret"}
    BY DEF AdminRow
  <1> HIDE DEF writes
  <1>3. /\ adminRow' = [b \in Admin |-> adminRow'[b]] /\ adminRow'[a] = writes
        /\ \A b \in Admin : b # a => adminRow'[b] = adminRow[b]
    BY DEF Write, AdminTypes, writes
  <1>4. AdminTypes'
    BY <1>1, <1>2, <1>3 DEF AdminTypes, At
  <1>5. \A b \in Admin : b # a => (b \in InCharge' <=> b \in InCharge)
    BY <1>3 DEF InCharge
  <1>6. Existing' = Existing \union {a}
    BY <1>2, <1>3 DEF Existing, AdminTypes
  <1>7. \A b \in Admin : adminRow[b].version \in Nat /\ adminRow'[b].version \in Nat
                         /\ adminRow[b].version <= adminRow'[b].version
    BY <1>2, <1>3 DEF AdminTypes
  <1>8. NotYet'
    BY <1>1, <1>2, <1>3, <1>6, <1>7 DEF NotYet, AdminTypes
  <1>9. OneHolder'
    BY <1>1 DEF OneHolder
  <1>10. Counting'
    <2> SUFFICES ASSUME NEW p \in AdminRequest
                 PROVE  /\ At(p, "locked")' => adminRequest'[p].target \in Admin /\ adminRequest'[p].target \in adminRequest'[p].holds
                        /\ At(p, "counted")' =>
                              /\ adminRequest'[p].target \in Admin /\ adminRequest'[p].target \in adminRequest'[p].holds
                              /\ \E b \in InCharge' \intersect adminRequest'[p].holds : b # adminRequest'[p].target
      BY DEF Counting
    <2>1. CASE p = q
      BY <1>1, <2>1 DEF At
    <2>2. CASE p # q
      <3>1. adminRequest'[p] = adminRequest[p] /\ a \notin adminRequest[p].holds
        BY <1>1, <2>2
      <3> QED
        BY <1>5, <3>1 DEF Counting, At, InCharge
    <2> QED
      BY <2>1, <2>2
  <1>11. ReadRow'
    <2> SUFFICES ASSUME NEW p \in AdminRequest
                 PROVE  /\ At(p, "known")' =>
                           LET r == adminRequest'[p].row
                               b == adminRequest'[p].actor
                           IN  /\ b \in Admin /\ r.version \in Nat /\ 0 < r.version /\ r.version <= adminRow'[b].version
                               /\ r.version = adminRow'[b].version => adminRow'[b].active /\ r.secret = adminRow'[b].secret
                        /\ At(p, "verified")' => adminRequest'[p].actor \in Admin
      BY DEF ReadRow
    <2>1. CASE p = q
      BY <1>1, <2>1 DEF At
    <2>2. CASE p # q
      <3>1. adminRequest'[p] = adminRequest[p]
        BY <1>1, <2>2
      <3>2. CASE At(p, "known")
        <4> DEFINE r == adminRequest[p].row
                   b == adminRequest[p].actor
        <4>1. /\ b \in Admin /\ r.version \in Nat /\ 0 < r.version /\ r.version <= adminRow[b].version
              /\ r.version = adminRow[b].version => adminRow[b].active /\ r.secret = adminRow[b].secret
          BY <3>2 DEF ReadRow
        <4> HIDE DEF r, b
        <4>2. /\ r.version <= adminRow'[b].version
              /\ r.version = adminRow'[b].version => adminRow'[b].active /\ r.secret = adminRow'[b].secret
          <5>1. CASE b = a
            BY <1>2, <1>3, <4>1, <5>1 DEF AdminTypes
          <5>2. CASE b # a
            BY <1>3, <4>1, <5>2
          <5> QED
            BY <5>1, <5>2
        <4> QED
          BY <3>1, <3>2, <4>1, <4>2 DEF At, r, b
      <3>3. CASE ~At(p, "known")
        BY <3>1, <3>3 DEF ReadRow, At
      <3> QED
        BY <3>2, <3>3
    <2> QED
      BY <2>1, <2>2
  <1>12. SomebodyIsInCharge'
    <2>1. PICK c \in InCharge : TRUE
      BY DEF SomebodyIsInCharge
    <2>2. c \in Admin
      BY DEF InCharge
    <2>3. CASE a \in InCharge /\ on /\ role = "platform_admin"
      <3>1. a \in InCharge'
        BY <1>2, <1>3, <2>3 DEF InCharge
      <3> QED
        BY <3>1 DEF SomebodyIsInCharge
    <2>4. CASE \E b \in InCharge : b # a
      <3>1. PICK b \in InCharge : b # a
        BY <2>4
      <3>2. b \in InCharge'
        BY <1>5, <3>1 DEF InCharge
      <3> QED
        BY <3>2 DEF SomebodyIsInCharge
    <2> QED
      BY <2>1, <2>3, <2>4 DEF SomebodyIsInCharge
  <1>13. TokensAreCurrent'
    <2> SUFFICES ASSUME NEW t \in adminToken, t.version = adminRow'[t.id].version
                 PROVE  adminRow'[t.id].active /\ t.secret = adminRow'[t.id].secret
      BY DEF TokensAreCurrent
    <2>1. t.id \in Admin /\ t.version \in Nat /\ t.version <= adminRow[t.id].version
      BY DEF NotYet
    <2>2. t.id # a
      BY <1>2, <1>3, <2>1 DEF AdminTypes
    <2> QED
      BY <1>3, <2>1, <2>2 DEF TokensAreCurrent
  <1> QED
    BY <1>4, <1>8, <1>9, <1>10, <1>11, <1>12, <1>13

\* One account at a time is written by a request that has read or locked it.
LEMMA AdminWrites ==
  ASSUME AdminInv, NEW q \in AdminRequest, NEW a \in Admin, NEW s, NEW role, NEW on \in BOOLEAN,
         \/ CreateAdminAccount(q, a, role, s)
         \/ UpdateAdminAccount(q, role, on)
         \/ PutSecret(q, a, s) /\ Existing # {}
  PROVE  AdminInv'
  <1>1. CASE CreateAdminAccount(q, a, role, s)
    <2>1. At(q, "admitted") /\ a \notin Existing /\ Write(a, AdminRow(1, TRUE, role, s)) /\ RequestOver(q) /\ UNCHANGED adminToken
      BY <1>1 DEF CreateAdminAccount
    <2>2. Existing # {} /\ \A p \in AdminRequest \ {q} : a \notin adminRequest[p].holds
      BY <2>1 DEF AdminInv, NotYet, At
    <2>3. 1 \in Nat /\ 1 > adminRow[a].version /\ a \notin InCharge
      BY <2>1 DEF AdminInv, NotYet, AdminTypes, Existing, InCharge
    <2> QED
      BY <2>1, <2>2, <2>3, AccountWritten
  <1>2. CASE UpdateAdminAccount(q, role, on)
    <2> DEFINE who == adminRequest[q].target
               v == NewVersion(adminRow[who].version)
    <2>1. /\ adminRequest[q].phase \in {"locked", "counted"}
          /\ At(q, "counted") <=> TakesAway(who, role, on)
          /\ Write(who, AdminRow(v, on, role, adminRow[who].secret))
          /\ RequestOver(q) /\ UNCHANGED adminToken
      BY <1>2 DEF UpdateAdminAccount
    <2>2. who \in Admin /\ who \in adminRequest[q].holds /\ Existing # {}
      BY <2>1 DEF AdminInv, Counting, NotYet, At
    <2>3. \A p \in AdminRequest \ {q} : who \notin adminRequest[p].holds
      BY <2>2 DEF AdminInv, OneHolder
    <2>4. who \in InCharge => \/ on /\ role = "platform_admin"
                              \/ \E b \in InCharge : b # who
      BY <2>1 DEF AdminInv, Counting, TakesAway, At
    <2>5. v \in Nat /\ v > adminRow[who].version
      BY <2>2 DEF AdminInv, AdminTypes, NewVersion
    <2> HIDE DEF who, v
    <2> QED
      BY <2>1, <2>2, <2>3, <2>4, <2>5, AccountWritten
  <1>3. CASE PutSecret(q, a, s) /\ Existing # {}
    <2> DEFINE v == NewVersion(adminRow[a].version)
    <2>1. /\ AdminFree(q, a) /\ RequestOver(q) /\ UNCHANGED adminToken
          /\ Write(a, AdminRow(v, adminRow[a].active, adminRow[a].role, s))
      BY <1>3 DEF PutSecret, SecretVersion
    <2>2. \A p \in AdminRequest \ {q} : a \notin adminRequest[p].holds
      BY <2>1 DEF AdminFree
    <2>3. v \in Nat /\ v > adminRow[a].version
      BY DEF AdminInv, AdminTypes, NewVersion
    <2>4. a \in InCharge => adminRow[a].active /\ adminRow[a].role = "platform_admin"
      BY DEF InCharge
    <2> HIDE DEF v
    <2> QED
      BY <1>3, <2>1, <2>2, <2>3, <2>4, AccountWritten
  <1> QED
    BY <1>1, <1>2, <1>3

\* Logins, tokens and the steps of a request before it writes.
LEMMA AdminReads ==
  ASSUME AdminInv, AdminAssumption, NEW q \in AdminRequest,
         \/ \E a \in Admin, s \in Secret : AuthenticateAdmin(q, a, s)
         \/ IssueAdmin(q)
         \/ \E t \in adminToken : RequireAdmin(q, t) \/ \E s \in Secret : VerifyOwnPassword(q, t, s)
         \/ \E a \in Admin : LockAccount(q, a)
         \/ CountPlatformAdmins(q)
  PROVE  AdminInv'
  <1> USE DEF AdminInv
  <1>1. ASSUME NEW a \in Admin, NEW s \in Secret, AuthenticateAdmin(q, a, s) PROVE AdminInv'
    <2> DEFINE r == [phase |-> "known", actor |-> a, holds |-> {}, row |-> adminRow[a]]
    <2>1. Becomes(q, r) /\ UNCHANGED <<adminRow, adminToken>> /\ a \in Existing /\ adminRow[a].active
      BY <1>1 DEF AuthenticateAdmin
    <2>2. r.phase = "known" /\ r.actor = a /\ r.holds = {} /\ r.row = adminRow[a]
      OBVIOUS
    <2>3. adminRow[a].version \in Nat /\ 0 < adminRow[a].version /\ adminRow[a].version <= adminRow[a].version
      BY <2>1 DEF Existing, AdminTypes
    <2> HIDE DEF r
    <2> QED
      BY <2>1, <2>2, <2>3, RequestMoves
  <1>2. ASSUME IssueAdmin(q) PROVE AdminInv'
    <2> DEFINE a == adminRequest[q].actor
               w == adminRequest[q].row
               new == [id |-> a, version |-> w.version, secret |-> w.secret]
    <2>1. /\ At(q, "known") /\ Becomes(q, NoAdminRequest) /\ UNCHANGED adminRow
          /\ adminToken' = adminToken \cup {new}
      BY <1>2 DEF IssueAdmin, RequestOver, IssuedVersion
    <2>2. /\ a \in Admin /\ w.version \in Nat /\ 0 < w.version /\ w.version <= adminRow[a].version
          /\ w.version = adminRow[a].version => adminRow[a].active /\ w.secret = adminRow[a].secret
      BY <2>1 DEF ReadRow
    <2>3. new.id = a /\ new.version = w.version /\ new.secret = w.secret
      OBVIOUS
    <2>4. NoAdminRequest.phase = "none" /\ NoAdminRequest.holds = {}
      BY DEF NoAdminRequest
    <2> HIDE DEF a, w, new
    <2> QED
      BY <2>1, <2>2, <2>3, <2>4, RequestMoves
  <1>3. ASSUME NEW t \in adminToken, RequireAdmin(q, t) PROVE AdminInv'
    <2> DEFINE r == [phase |-> "admitted", actor |-> t.id, holds |-> {}]
    <2>1. Becomes(q, r) /\ UNCHANGED <<adminRow, adminToken>>
      BY <1>3 DEF RequireAdmin
    <2>2. r.phase = "admitted" /\ r.holds = {}
      OBVIOUS
    <2>3. Existing # {}
      BY <1>3 DEF RequireAdmin, Authenticated, NotYet, Existing
    <2> HIDE DEF r
    <2> QED
      BY <2>1, <2>2, <2>3, RequestMoves
  <1>4. ASSUME NEW t \in adminToken, NEW s \in Secret, VerifyOwnPassword(q, t, s) PROVE AdminInv'
    <2> DEFINE r == [phase |-> "verified", actor |-> t.id, holds |-> {}, was |-> s]
    <2>1. Becomes(q, r) /\ UNCHANGED <<adminRow, adminToken>>
      BY <1>4 DEF VerifyOwnPassword
    <2>2. r.phase = "verified" /\ r.holds = {} /\ r.actor = t.id
      OBVIOUS
    <2>3. t.id \in Admin
      BY DEF NotYet
    <2> HIDE DEF r
    <2> QED
      BY <2>1, <2>2, <2>3, RequestMoves
  <1>5. ASSUME NEW a \in Admin, LockAccount(q, a) PROVE AdminInv'
    <2> DEFINE r == [phase |-> "locked", actor |-> adminRequest[q].actor, holds |-> {a}, target |-> a]
    <2>1. Becomes(q, r) /\ UNCHANGED <<adminRow, adminToken>> /\ a \in Existing /\ AdminFree(q, a)
      BY <1>5 DEF LockAccount
    <2>2. /\ r.phase = "locked" /\ r.holds = {a} /\ r.target = a
          /\ DOMAIN r = {"phase", "actor", "holds", "target"}
      OBVIOUS
    <2>3. r.holds \subseteq Existing /\ \A b \in r.holds \ adminRequest[q].holds : AdminFree(q, b)
      BY <2>1, <2>2
    <2> HIDE DEF r
    <2> QED
      BY <2>1, <2>2, <2>3, RequestMoves
  <1>6. ASSUME CountPlatformAdmins(q) PROVE AdminInv'
    <2> DEFINE r == [adminRequest[q] EXCEPT !.phase = "counted", !.holds = @ \cup InCharge]
    <2>1. /\ At(q, "locked") /\ adminRequest[q].target \in InCharge /\ \A a \in InCharge : AdminFree(q, a)
          /\ UNCHANGED <<adminRow, adminToken>>
          /\ IF Cardinality(InCharge) > 1 THEN Becomes(q, r) ELSE RequestOver(q)
      BY <1>6 DEF CountPlatformAdmins, CountedRows
    <2>2. CASE ~(Cardinality(InCharge) > 1)
      BY <2>1, <2>2, RequestEnds
    <2>3. CASE Cardinality(InCharge) > 1
      <3>1. DOMAIN adminRequest[q] = {"phase", "actor", "holds", "target"}
        BY <2>1 DEF AdminTypes
      <3>2. /\ r.phase = "counted" /\ r.holds = adminRequest[q].holds \cup InCharge
            /\ r.target = adminRequest[q].target
        BY <3>1
      <3>3. PICK b \in InCharge : b # adminRequest[q].target
        <4> SUFFICES ASSUME InCharge = {adminRequest[q].target} PROVE FALSE
          BY <2>1
        <4>1. Cardinality({adminRequest[q].target}) = 1
          BY FS_Singleton
        <4> QED
          BY <4>1, <2>3
      <3>4. InCharge \subseteq Existing /\ Existing \subseteq Admin
        BY DEF InCharge, Existing, NotYet
      <3>5. r.holds \subseteq Existing
        BY <3>2, <3>4 DEF NotYet
      <3>6. r.target \in Admin /\ r.target \in r.holds /\ Existing # {}
        BY <2>1, <3>2, <3>4
      <3>7. \E a \in InCharge \intersect r.holds : a # r.target
        BY <3>2, <3>3
      <3>8. \A a \in r.holds \ adminRequest[q].holds : AdminFree(q, a)
        BY <2>1, <3>2
      <3>9. Becomes(q, r)
        BY <2>1, <2>3
      <3> HIDE DEF r
      <3> QED
        BY <2>1, <3>2, <3>5, <3>6, <3>7, <3>8, <3>9, RequestMoves
    <2> QED
      BY <2>2, <2>3
  <1> QED
    BY <1>1, <1>2, <1>3, <1>4, <1>5, <1>6

\* The first administrator is created while there is none.
LEMMA BootstrapInv ==
  ASSUME AdminInv, NEW a \in Admin, NEW s \in Secret, BootstrapAdmin(a, s)
  PROVE  AdminInv'
  <1> USE DEF AdminInv
  <1> DEFINE writes == AdminRow(1, TRUE, "platform_admin", s)
  <1>1. /\ Existing = {} /\ Write(a, writes) /\ UNCHANGED <<adminRequest, adminToken>>
    BY DEF BootstrapAdmin
  <1>2. /\ writes.version = 1 /\ writes.active = TRUE /\ writes.role = "platform_admin"
        /\ DOMAIN writes = {"version", "active", "role", "secret"}
    BY DEF AdminRow
  <1> HIDE DEF writes
  <1>3. /\ adminRow' = [b \in Admin |-> adminRow'[b]] /\ adminRow'[a] = writes
        /\ \A b \in Admin : b # a => adminRow'[b] = adminRow[b]
    BY <1>1 DEF Write, AdminTypes
  <1>4. adminToken = {} /\ \A b \in Admin : adminRow[b].version = 0
    <2>1. \A b \in Admin : adminRow[b].version = 0
      BY <1>1 DEF Existing, AdminTypes
    <2>2. \A t \in adminToken : t.id \in Admin /\ t.version \in Nat /\ 0 < t.version
                               /\ t.version <= adminRow[t.id].version
      BY DEF NotYet
    <2>3. ASSUME NEW t \in adminToken PROVE FALSE
      <3>1. adminRow[t.id].version = 0
        BY <2>1, <2>2
      <3> QED
        BY <2>2, <3>1
    <2> QED
      BY <2>1, <2>3
  <1>5. \A q \in AdminRequest : /\ adminRequest[q].holds = {} /\ ~At(q, "known")
                                /\ adminRequest[q].phase \notin {"admitted", "locked", "counted"}
    <2> SUFFICES ASSUME NEW q \in AdminRequest
                 PROVE  /\ adminRequest[q].holds = {} /\ ~At(q, "known")
                        /\ adminRequest[q].phase \notin {"admitted", "locked", "counted"}
      OBVIOUS
    <2>1. ~At(q, "known")
      <3> SUFFICES ASSUME At(q, "known") PROVE FALSE
        OBVIOUS
      <3> DEFINE w == adminRequest[q].row.version
      <3>1. w \in Nat /\ 0 < w /\ w <= adminRow[adminRequest[q].actor].version /\ adminRequest[q].actor \in Admin
        BY DEF ReadRow
      <3> HIDE DEF w
      <3> QED
        BY <1>4, <3>1
    <2> QED
      BY <1>1, <2>1 DEF NotYet
  <1>6. a \in InCharge' /\ a \in Existing'
    BY <1>2, <1>3 DEF InCharge, Existing
  <1>7. AdminTypes'
    BY <1>1, <1>2, <1>3 DEF AdminTypes, At
  <1>8. NotYet'
    BY <1>1, <1>2, <1>3, <1>4, <1>5, <1>6 DEF NotYet
  <1>9. OneHolder' /\ Counting' /\ ReadRow'
    BY <1>1, <1>5 DEF OneHolder, Counting, ReadRow, At
  <1>10. SomebodyIsInCharge' /\ TokensAreCurrent'
    BY <1>1, <1>4, <1>6 DEF SomebodyIsInCharge, TokensAreCurrent
  <1> QED
    BY <1>7, <1>8, <1>9, <1>10

\* However administrators demote, disable, create and reset each other at the
\* same time, one active platform administrator is left, and a token that is
\* still accepted was issued for the password of today.
THEOREM AdminStaysSafe == AdminSpec => []AdminSafety
  <1> USE AdminAssumption
  <1>1. AdminInit => AdminInv
    <2> SUFFICES ASSUME AdminInit PROVE AdminInv
      OBVIOUS
    <2>1. \A a \in Admin : /\ adminRow[a].version = 0 /\ adminRow[a].active = FALSE
                           /\ DOMAIN adminRow[a] = {"version", "active", "role", "secret"}
      BY DEF AdminInit
    <2>2. \A q \in AdminRequest : adminRequest[q].phase = "none" /\ adminRequest[q].holds = {}
      BY DEF AdminInit, NoAdminRequest
    <2>3. AdminTypes
      BY <2>1, <2>2 DEF AdminTypes, AdminInit, At
    <2>4. adminToken = {} /\ Existing = {}
      BY <2>1 DEF AdminInit, Existing
    <2> HIDE DEF AdminInit
    <2> QED
      BY <2>1, <2>2, <2>3, <2>4 DEF AdminInv, NotYet, OneHolder, Counting, ReadRow, SomebodyIsInCharge, TokensAreCurrent, At
  <1>2. AdminInv /\ [AdminNext]_adminVars => AdminInv'
    <2> SUFFICES ASSUME AdminInv, [AdminNext]_adminVars PROVE AdminInv'
      OBVIOUS
    <2>1. ASSUME NEW a \in Admin, NEW s \in Secret, BootstrapAdmin(a, s) PROVE AdminInv'
      BY <2>1, BootstrapInv
    <2>2. ASSUME NEW q \in AdminRequest, NEW a \in Admin, NEW s \in Secret, ResetAdminPassword(q, a, s) PROVE AdminInv'
      <3>1. PutSecret(q, a, s) /\ Existing # {}
        BY <2>2 DEF ResetAdminPassword, PutSecret
      <3>2. TRUE \in BOOLEAN
        OBVIOUS
      <3> QED
        BY <3>1, <3>2, AdminWrites
    <2>3. ASSUME NEW q \in AdminRequest, NEW s \in Secret, ChangeAdminPassword(q, s) PROVE AdminInv'
      <3> DEFINE a == adminRequest[q].actor
      <3>1. PutSecret(q, a, s) /\ Existing # {} /\ a \in Admin
        BY <2>3 DEF ChangeAdminPassword, PutSecret, Existing
      <3>2. TRUE \in BOOLEAN
        OBVIOUS
      <3> HIDE DEF a
      <3> QED
        BY <3>1, <3>2, AdminWrites
    <2>4. ASSUME NEW q \in AdminRequest, NEW a \in Admin, NEW r, NEW s \in Secret, CreateAdminAccount(q, a, r, s) PROVE AdminInv'
      <3>2. TRUE \in BOOLEAN
        OBVIOUS
      <3> QED
        BY <2>4, <3>2, AdminWrites
    <2>5. ASSUME NEW q \in AdminRequest, NEW r, NEW on \in BOOLEAN, UpdateAdminAccount(q, r, on) PROVE AdminInv'
      <3>1. adminRequest[q].target \in Admin
        BY <2>5 DEF UpdateAdminAccount, AdminInv, Counting, At
      <3> QED
        BY <2>5, <3>1, AdminWrites
    <2>6. ASSUME NEW q \in AdminRequest, \/ AdminRequestEnds(q)
                                         \/ \E r \in CustomRole : CreateAdminRole(q, r) \/ DeleteAdminRole(q, r)
          PROVE  AdminInv'
      <3>1. RequestOver(q) /\ UNCHANGED <<adminRow, adminToken>>
        BY <2>6 DEF AdminRequestEnds, CreateAdminRole, DeleteAdminRole
      <3> QED
        BY <3>1, RequestEnds
    <2>7. ASSUME NEW t \in adminToken, TokenExpires(t) PROVE AdminInv'
      <3>1. UNCHANGED <<adminRow, adminRequest>> /\ adminToken' \subseteq adminToken
        BY <2>7 DEF TokenExpires
      <3> QED
        BY <3>1 DEF AdminInv, AdminTypes, NotYet, OneHolder, Counting, ReadRow, SomebodyIsInCharge,
                    TokensAreCurrent, At, InCharge, Existing
    <2>8. CASE UNCHANGED adminVars
      BY <2>8 DEF adminVars, AdminInv, AdminTypes, NotYet, OneHolder, Counting, ReadRow, SomebodyIsInCharge,
                  TokensAreCurrent, At, InCharge, Existing
    <2> QED
      BY <2>1, <2>2, <2>3, <2>4, <2>5, <2>6, <2>7, <2>8, AdminReads DEF AdminNext
  <1>3. AdminInv => AdminSafety
    BY DEF AdminInv, AdminSafety
  <1> QED
    BY <1>1, <1>2, <1>3, PTL DEF AdminSpec

---------------------------------------------------------------------------
(* IM sessions.  In one process at most one login with a token is beyond the  *)
(* lock, so what it read in the row of the token is still so when it installs. *)

CredentialInv ==
    /\ issuer = [r \in Issuer |-> issuer[r]] /\ \A r \in Issuer : "step" \in DOMAIN issuer[r]
    /\ \A r, s \in Issuer :
          ~IssuerAt(r, "idle") /\ ~IssuerAt(s, "idle") /\ issuer[r].generation = issuer[s].generation => r = s
    /\ \A r \in Issuer : /\ ~IssuerAt(r, "idle") => issuer[r].instance \in Instance /\ issuer[r].generation \in Generation
                         /\ IssuerAt(r, "install") => credential # issuer[r].generation

\* One process never installs a token that is recorded, so logins side by side
\* with one token disconnect the device once.
THEOREM OneProcessKicksOnce ==
  ASSUME \A i, j \in Instance : i = j
  PROVE  CredentialSpec => NoNeedlessKick
  <1>1. CredentialInit => CredentialInv
    BY DEF CredentialInit, CredentialInv, IssuerAt
  <1>2. ASSUME CredentialInv, [CredentialNext]_credentialVars PROVE CredentialInv'
    <2>1. ASSUME NEW r \in Issuer, NEW new, issuer' = [issuer EXCEPT ![r] = new], "step" \in DOMAIN new,
                 \/ new.step = "idle"
                 \/ /\ new.generation \in Generation /\ new.instance \in Instance
                    /\ \A s \in Issuer \ {r} : ~IssuerAt(s, "idle") => issuer[s].generation # new.generation
                    /\ new.step = "install" => credential' # new.generation,
                 \A s \in Issuer \ {r} : IssuerAt(s, "install") => credential' # issuer[s].generation
          PROVE  CredentialInv'
      <3>1. /\ issuer' = [s \in Issuer |-> issuer'[s]]
            /\ \A s \in Issuer : issuer'[s] = IF s = r THEN new ELSE issuer[s]
        BY <1>2, <2>1 DEF CredentialInv
      <3> QED
        BY <1>2, <2>1, <3>1 DEF CredentialInv, IssuerAt
    <2>2. ASSUME NEW r \in Issuer, NEW step, IssuerTo(r, step)
          PROVE  /\ issuer' = [issuer EXCEPT ![r] = [issuer[r] EXCEPT !.step = step]]
                 /\ [issuer[r] EXCEPT !.step = step].step = step
                 /\ "step" \in DOMAIN [issuer[r] EXCEPT !.step = step]
                 /\ [issuer[r] EXCEPT !.step = step].generation = issuer[r].generation
                 /\ [issuer[r] EXCEPT !.step = step].instance = issuer[r].instance
      BY <1>2, <2>2 DEF IssuerTo, CredentialInv
    <2>3. ASSUME NEW r \in Issuer, NEW i \in Instance, NEW g \in Generation, IssueGeneration(r, i, g)
          PROVE  CredentialInv'
      <3> DEFINE new == [step |-> "look", instance |-> i, generation |-> g]
      <3>1. /\ issuer' = [issuer EXCEPT ![r] = new] /\ "step" \in DOMAIN new /\ new.step = "look"
            /\ new.generation = g /\ new.instance = i
        BY <2>3 DEF IssueGeneration
      <3>2. \A s \in Issuer \ {r} : ~IssuerAt(s, "idle") => issuer[s].generation # g
        BY <1>2, <2>3 DEF IssueGeneration, StripeFree, CredentialInv
      <3>3. \A s \in Issuer \ {r} : IssuerAt(s, "install") => credential' # issuer[s].generation
        BY <1>2, <2>3 DEF IssueGeneration, CredentialInv
      <3> HIDE DEF new
      <3> QED
        BY <2>1, <3>1, <3>2, <3>3
    <2>4. ASSUME NEW r \in Issuer, NEW step, IssuerTo(r, step), ~IssuerAt(r, "idle"),
                 \/ UNCHANGED credential
                 \/ credential' = issuer[r].generation,
                 step = "install" => credential' # issuer[r].generation
          PROVE  CredentialInv'
      <3> DEFINE new == [issuer[r] EXCEPT !.step = step]
      <3>1. /\ issuer' = [issuer EXCEPT ![r] = new] /\ "step" \in DOMAIN new /\ new.step = step
            /\ new.generation = issuer[r].generation /\ new.instance = issuer[r].instance
        BY <2>2, <2>4
      <3>2. \A s \in Issuer \ {r} : ~IssuerAt(s, "idle") => issuer[s].generation # issuer[r].generation
        BY <1>2, <2>4 DEF CredentialInv
      <3>3. \A s \in Issuer \ {r} : IssuerAt(s, "install") => credential' # issuer[s].generation
        BY <1>2, <2>4, <3>2 DEF CredentialInv, IssuerAt
      <3>4. issuer[r].generation \in Generation /\ issuer[r].instance \in Instance
        BY <1>2, <2>4 DEF CredentialInv
      <3> HIDE DEF new
      <3> QED
        BY <2>1, <2>4, <3>1, <3>2, <3>3, <3>4
    <2>5. ASSUME NEW r \in Issuer, WukongCredentialProvisioned(r) PROVE CredentialInv'
      <3>1. CASE credential = issuer[r].generation
        BY <2>4, <2>5, <3>1 DEF WukongCredentialProvisioned, IssuerAt
      <3>2. CASE credential # issuer[r].generation
        BY <2>4, <2>5, <3>2 DEF WukongCredentialProvisioned, IssuerAt
      <3> QED
        BY <3>1, <3>2
    <2>6. ASSUME NEW r \in Issuer, ProvisionUser(r) \/ MarkWukongCredentialProvisioned(r) \/ IssueFails(r)
          PROVE  CredentialInv'
      BY <2>4, <2>6 DEF ProvisionUser, MarkWukongCredentialProvisioned, IssueFails, IssuerAt
    <2>7. ASSUME UNCHANGED issuer, UNCHANGED credential \/ credential' = 0 PROVE CredentialInv'
      BY <1>2, <2>7, CredentialAssumption DEF CredentialInv, IssuerAt
    <2> QED
      BY <1>2, <2>3, <2>5, <2>6, <2>7
         DEF CredentialNext, credentialVars, QuitUserIMDevice, InvalidateWukongCredential, QuitStops
  <1>3. CredentialInv =>
          [\A r \in Issuer : IssuerAt(r, "install") /\ issuer'[r].step = "mark" => credential # issuer[r].generation
          ]_credentialVars
    BY DEF CredentialInv
  <1> QED
    BY <1>1, <1>2, <1>3, PTL DEF CredentialSpec, NoNeedlessKick

---------------------------------------------------------------------------
(* Decisions about sends.  The sends of a version that are still in the window *)
(* number at most its limit, and fewer at the time a refused member was told   *)
(* to come back at.                                                            *)

PolicyTypes ==
    /\ clock \in Nat
    /\ CurrentVersion \in 1 .. MaxVersion /\ Version = 1 .. CurrentVersion
    /\ \A v \in Version : limitOf[v] \in Nat
    /\ hits = [v \in 1 .. MaxVersion |-> hits[v]] /\ \A v \in 1 .. MaxVersion : hits[v] \subseteq 0 .. clock
    /\ retryAt = [v \in 1 .. MaxVersion |-> retryAt[v]] /\ \A v \in 1 .. MaxVersion : retryAt[v] \in Nat
    /\ ask = [q \in Ask |-> ask[q]]
    /\ \A q \in Ask : DOMAIN ask[q] = {"step", "version"} /\ (ask[q].version = 0 \/ ask[q].version \in Version)

\* A version that was not set yet has no sends.
NotSetYet == \A v \in 1 .. MaxVersion \ Version : hits[v] = {} /\ retryAt[v] = 0

InWindowOf(v, t) == {s \in hits[v] : t <= s /\ s < t + Window}
LeftAt(v, t) == {s \in hits[v] : s + Window > t}
LimitHolds(v) == limitOf[v] # 0 => \A t \in hits[v] : Cardinality(InWindowOf(v, t)) <= limitOf[v]
WaitEnds(v) == retryAt[v] # 0 => Cardinality(LeftAt(v, retryAt[v])) < limitOf[v]

PolicyInv ==
    /\ PolicyTypes
    /\ NotSetYet
    /\ friendly => ~barred
    /\ \A v \in Version : LimitHolds(v) /\ WaitEnds(v)

\* A set of natural numbers has a least member.
LEMMA LeastOf ==
  ASSUME NEW S, S \subseteq Nat, S # {}
  PROVE  \E m \in S : \A k \in S : m <= k
  <1>1. PICK m \in S : \A k \in S : ~(<<k, m>> \in OpToRel(<, Nat))
    BY NatLessThanWellFounded, WFMin
  <1>2. ASSUME NEW k \in S PROVE m <= k
    <2>1. k \in Nat /\ m \in Nat
      OBVIOUS
    <2>2. ~(k < m)
      BY <1>1, <2>1 DEF OpToRel
    <2> QED
      BY <2>1, <2>2
  <1> QED
    BY <1>2

\* A part of the sends of a version is finite and no larger than a larger part.
LEMMA PartOfHits ==
  ASSUME PolicyTypes, NEW v \in 1 .. MaxVersion, NEW T, NEW S, T \subseteq S, S \subseteq hits[v]
  PROVE  /\ IsFiniteSet(S) /\ IsFiniteSet(T) /\ Cardinality(S) \in Nat /\ Cardinality(T) \in Nat
         /\ Cardinality(T) <= Cardinality(S)
  <1>1. IsFiniteSet(0 .. clock)
    <2>1. 0 \in Int /\ clock \in Int
      BY DEF PolicyTypes
    <2> QED
      BY <2>1, FS_Interval
  <1>2. S \in SUBSET (0 .. clock)
    BY DEF PolicyTypes
  <1>3. IsFiniteSet(S)
    BY <1>1, <1>2, FS_Subset
  <1>4. T \in SUBSET S
    OBVIOUS
  <1>5. IsFiniteSet(T) /\ Cardinality(T) <= Cardinality(S)
    BY <1>3, <1>4, FS_Subset
  <1> QED
    BY <1>3, <1>5, FS_CardinalityType

\* One decision moves and Redis is not asked.
LEMMA AskMoves ==
  ASSUME PolicyInv, NEW q \in Ask, NEW new, ask' = [ask EXCEPT ![q] = new], Unmoved,
         DOMAIN new = {"step", "version"}, new.version = 0 \/ new.version \in Version
  PROVE  PolicyInv'
  <1>1. /\ ask' = [o \in Ask |-> ask'[o]]
        /\ \A o \in Ask : ask'[o] = IF o = q THEN new ELSE ask[o]
    BY DEF PolicyInv, PolicyTypes
  <1>2. UNCHANGED <<clock, friendly, barred, standing, limitOf, hits, retryAt, Version, CurrentVersion>>
    BY DEF Unmoved, Version, CurrentVersion
  <1>3. PolicyTypes'
    BY <1>1, <1>2 DEF PolicyInv, PolicyTypes
  <1>4. \A v : LimitHolds(v)' = LimitHolds(v) /\ WaitEnds(v)' = WaitEnds(v)
    BY <1>2 DEF LimitHolds, WaitEnds, InWindowOf, LeftAt
  <1> QED
    BY <1>2, <1>3, <1>4 DEF PolicyInv, NotSetYet

LEMMA StepMoves ==
  ASSUME PolicyInv, NEW q \in Ask, NEW step, AskTo(q, step)
  PROVE  \E new : /\ ask' = [ask EXCEPT ![q] = new] /\ DOMAIN new = {"step", "version"}
                  /\ new.step = step /\ new.version = ask[q].version
  <1> DEFINE new == [ask[q] EXCEPT !.step = step]
  <1>1. /\ ask' = [ask EXCEPT ![q] = new] /\ DOMAIN new = {"step", "version"}
        /\ new.step = step /\ new.version = ask[q].version
    BY DEF AskTo, PolicyInv, PolicyTypes
  <1> HIDE DEF new
  <1> QED
    BY <1>1

\* The others move and no decision does.
LEMMA OthersMove ==
  ASSUME PolicyInv, PolicyAssumption, PeersMove \/ GroupMoves
  PROVE  PolicyInv'
  <1>1. CASE PeersMove
    <2>1. UNCHANGED <<clock, standing, limitOf, ask, hits, retryAt>> /\ (friendly' => ~barred')
      BY <1>1 DEF PeersMove, MakeFriends, BlockPeer, UnblockPeer, PolicyInv
    <2> QED
      BY <2>1 DEF PolicyInv, PolicyTypes, NotSetYet, LimitHolds, WaitEnds, InWindowOf, LeftAt, Version, CurrentVersion
  <1>2. CASE ChangeStanding
    BY <1>2 DEF ChangeStanding, PolicyInv, PolicyTypes, NotSetYet, LimitHolds, WaitEnds, InWindowOf, LeftAt, Version, CurrentVersion
  <1>3. CASE PolicyTick
    <2>1. UNCHANGED <<friendly, barred, limitOf, ask, hits, retryAt, Version, CurrentVersion>> /\ clock' = clock + 1
      BY <1>3 DEF PolicyTick, Version, CurrentVersion
    <2>2. PolicyTypes'
      <3>1. clock' \in Nat /\ 0 .. clock \subseteq 0 .. clock'
        BY <2>1 DEF PolicyInv, PolicyTypes
      <3> QED
        BY <2>1, <3>1 DEF PolicyInv, PolicyTypes
    <2>3. \A v : LimitHolds(v)' = LimitHolds(v) /\ WaitEnds(v)' = WaitEnds(v)
      BY <2>1 DEF LimitHolds, WaitEnds, InWindowOf, LeftAt
    <2> QED
      BY <2>1, <2>2, <2>3 DEF PolicyInv, NotSetYet
  <1>4. ASSUME NEW limit \in Limit, SetRateLimit(limit) PROVE PolicyInv'
    <2> DEFINE n == CurrentVersion
    <2>1. /\ UNCHANGED <<clock, friendly, barred, ask, hits, retryAt>> /\ n < MaxVersion
          /\ limitOf' = [v \in 1 .. n + 1 |-> IF v \in 1 .. n THEN limitOf[v] ELSE limit]
      BY <1>4 DEF SetRateLimit, LimitAdded, PolicyInv, PolicyTypes, CurrentVersion, Version
    <2>2. n \in 1 .. MaxVersion /\ Version = 1 .. n /\ MaxVersion \in Nat /\ n \in Nat
      BY PolicyAssumption DEF PolicyInv, PolicyTypes
    <2>3. Version' = 1 .. n + 1 /\ Version' = Version \cup {n + 1} /\ n + 1 \in 1 .. MaxVersion
      BY <2>1, <2>2 DEF Version
    <2> HIDE DEF n
    <2>4. CurrentVersion' = n + 1
      <3>1. Cardinality(1 .. n + 1) = n + 1
        BY <2>2, FS_Interval
      <3> QED
        BY <2>3, <3>1 DEF CurrentVersion
    <2>5. /\ \A v \in Version : limitOf'[v] = limitOf[v]
          /\ limitOf'[n + 1] = limit /\ limit \in Nat /\ n + 1 \notin Version
      BY <2>1, <2>2, PolicyAssumption
    <2>6. PolicyTypes'
      BY <2>1, <2>2, <2>3, <2>4, <2>5 DEF PolicyInv, PolicyTypes
    <2>7. NotSetYet' /\ hits[n + 1] = {} /\ retryAt[n + 1] = 0
      BY <2>1, <2>3, <2>5 DEF PolicyInv, NotSetYet
    <2>8. ASSUME NEW v \in Version' PROVE LimitHolds(v)' /\ WaitEnds(v)'
      <3>1. CASE v \in Version
        BY <2>1, <2>5, <3>1 DEF PolicyInv, LimitHolds, WaitEnds, InWindowOf, LeftAt
      <3>2. CASE v = n + 1
        BY <2>1, <2>7, <3>2 DEF LimitHolds, WaitEnds
      <3> QED
        BY <2>3, <3>1, <3>2
    <2> QED
      BY <2>1, <2>6, <2>7, <2>8 DEF PolicyInv
  <1> QED
    BY <1>1, <1>2, <1>3, <1>4 DEF GroupMoves

\* A send that is counted is the last of at most limitOf[v] in its window.
LEMMA SendCounted ==
  ASSUME PolicyInv, PolicyAssumption, NEW q \in Ask, NEW v \in Version, limitOf[v] # 0,
         Cardinality(Used(v)) < limitOf[v], AskTo(q, "bind"), ask[q].version = v,
         hits' = [hits EXCEPT ![v] = @ \cup {clock}], retryAt' = [retryAt EXCEPT ![v] = 0],
         UNCHANGED <<clock, friendly, barred, standing, limitOf>>
  PROVE  PolicyInv'
  <1>1. PICK new : /\ ask' = [ask EXCEPT ![q] = new] /\ DOMAIN new = {"step", "version"}
                   /\ new.step = "bind" /\ new.version = v
    BY StepMoves
  <1>2. v \in 1 .. MaxVersion /\ limitOf[v] \in Nat /\ clock \in Nat /\ Window \in Nat /\ Window > 0
    BY PolicyAssumption DEF PolicyInv, PolicyTypes
  <1>3. /\ hits' = [w \in 1 .. MaxVersion |-> hits'[w]] /\ retryAt' = [w \in 1 .. MaxVersion |-> retryAt'[w]]
        /\ hits'[v] = hits[v] \cup {clock} /\ retryAt'[v] = 0
        /\ \A w \in 1 .. MaxVersion : w # v => hits'[w] = hits[w] /\ retryAt'[w] = retryAt[w]
    BY <1>2 DEF PolicyInv, PolicyTypes
  <1>4. Version' = Version /\ CurrentVersion' = CurrentVersion
    BY DEF Version, CurrentVersion
  <1>5. PolicyTypes'
    <2>1. /\ ask' = [o \in Ask |-> ask'[o]]
          /\ \A o \in Ask : ask'[o] = IF o = q THEN new ELSE ask[o]
      BY <1>1 DEF PolicyInv, PolicyTypes
    <2>2. \A o \in Ask : DOMAIN ask'[o] = {"step", "version"} /\ (ask'[o].version = 0 \/ ask'[o].version \in Version)
      BY <1>1, <2>1 DEF PolicyInv, PolicyTypes
    <2>3. \A w \in 1 .. MaxVersion : hits'[w] \subseteq 0 .. clock
      BY <1>2, <1>3 DEF PolicyInv, PolicyTypes
    <2> QED
      BY <2>1, <2>2, <2>3, <1>3, <1>4 DEF PolicyInv, PolicyTypes
  <1>6. NotSetYet'
    BY <1>3, <1>4 DEF PolicyInv, NotSetYet
  <1>7. WaitEnds(v)'
    BY <1>3 DEF WaitEnds
  <1>8. ASSUME NEW t \in hits'[v] PROVE Cardinality(InWindowOf(v, t)') <= limitOf[v]
    <2> DEFINE before == {s \in hits[v] : t <= s /\ s < t + Window}
    <2>0. t \in Nat /\ hits[v] \subseteq Nat
      BY <1>2, <1>3, <1>8 DEF PolicyInv, PolicyTypes
    <2>1. InWindowOf(v, t)' \subseteq before \cup {clock}
      BY <1>3 DEF InWindowOf
    <2>2. IsFiniteSet(before) /\ Cardinality(before) \in Nat
      BY <1>2, PartOfHits DEF PolicyInv
    <2>3. /\ IsFiniteSet(before \cup {clock})
          /\ Cardinality(before \cup {clock}) <= Cardinality(before) + 1
      <3>1. /\ IsFiniteSet(before \cup {clock})
            /\ Cardinality(before \cup {clock}) = IF clock \in before THEN Cardinality(before) ELSE Cardinality(before) + 1
        BY <2>2, FS_AddElement
      <3> HIDE DEF before
      <3> QED
        BY <2>2, <3>1
    <2>4. CASE clock < t + Window
      <3>1. before \subseteq Used(v) /\ Used(v) \subseteq hits[v]
        BY <1>2, <2>0, <2>4 DEF Used
      <3>2. Cardinality(before) <= Cardinality(Used(v)) /\ Cardinality(Used(v)) \in Nat
        BY <1>2, <3>1, PartOfHits DEF PolicyInv
      <3>3. InWindowOf(v, t)' \in SUBSET (before \cup {clock})
        BY <2>1
      <3>4. Cardinality(InWindowOf(v, t)') <= Cardinality(before \cup {clock})
        BY <2>3, <3>3, FS_Subset
      <3>5. IsFiniteSet(InWindowOf(v, t)')
        BY <2>3, <3>3, FS_Subset
      <3>6. Cardinality(InWindowOf(v, t)') \in Nat /\ Cardinality(before \cup {clock}) \in Nat
        BY <3>5, <2>3, FS_CardinalityType
      <3> HIDE DEF before
      <3> QED
        BY <1>2, <2>2, <2>3, <3>2, <3>4, <3>6
    <2>5. CASE ~(clock < t + Window)
      <3>1. t # clock /\ t \in hits[v]
        BY <1>2, <1>3, <1>8, <2>0, <2>5
      <3>2. InWindowOf(v, t)' = InWindowOf(v, t)
        BY <1>2, <1>3, <2>0, <2>5 DEF InWindowOf
      <3>3. LimitHolds(v)
        BY DEF PolicyInv
      <3> QED
        BY <3>1, <3>2, <3>3 DEF LimitHolds
    <2> QED
      BY <2>4, <2>5
  <1>9. LimitHolds(v)'
    BY <1>8 DEF LimitHolds
  <1>10. ASSUME NEW w \in Version, w # v PROVE LimitHolds(w)' /\ WaitEnds(w)'
    <2>1. hits'[w] = hits[w] /\ retryAt'[w] = retryAt[w]
      BY <1>3, <1>10 DEF PolicyInv, PolicyTypes
    <2> QED
      BY <2>1 DEF PolicyInv, LimitHolds, WaitEnds, InWindowOf, LeftAt
  <1> QED
    BY <1>4, <1>5, <1>6, <1>7, <1>9, <1>10 DEF PolicyInv

\* When the oldest send leaves the window there is room again.
LEMMA SendRefused ==
  ASSUME PolicyInv, PolicyAssumption, NEW q \in Ask, NEW v \in Version, limitOf[v] # 0,
         Cardinality(Used(v)) >= limitOf[v], AskTo(q, "limited"), ask[q].version = v,
         retryAt' = [retryAt EXCEPT ![v] = OldestHit(v) + Window],
         UNCHANGED <<clock, friendly, barred, standing, limitOf, hits>>
  PROVE  PolicyInv'
  <1>1. PICK new : /\ ask' = [ask EXCEPT ![q] = new] /\ DOMAIN new = {"step", "version"}
                   /\ new.step = "limited" /\ new.version = v
    BY StepMoves
  <1>2. v \in 1 .. MaxVersion /\ limitOf[v] \in Nat /\ clock \in Nat /\ Window \in Nat /\ Window > 0
    BY PolicyAssumption DEF PolicyInv, PolicyTypes
  <1> DEFINE old == OldestHit(v)
             n == Cardinality(Used(v))
             later == {s \in hits[v] : s + Window > old + Window}
  <1>3. Used(v) \subseteq hits[v] /\ hits[v] \subseteq 0 .. clock /\ hits[v] \subseteq Nat
    BY <1>2 DEF PolicyInv, PolicyTypes, Used
  <1>4. IsFiniteSet(Used(v)) /\ n \in Nat
    BY <1>2, <1>3, PartOfHits DEF PolicyInv
  <1>5. Used(v) # {}
    BY <1>2, <1>4, FS_EmptySet
  <1>6. old \in Used(v) /\ \A s \in Used(v) : old <= s
    BY <1>3, <1>5, LeastOf DEF OldestHit
  <1> HIDE DEF old
  <1>7. old \in Nat /\ old \in hits[v] /\ old + Window > clock
    BY <1>3, <1>6 DEF Used
  <1>8. n <= limitOf[v]
    <2>1. Used(v) \subseteq InWindowOf(v, old) /\ InWindowOf(v, old) \subseteq hits[v]
      <3>1. ASSUME NEW s \in Used(v) PROVE s \in InWindowOf(v, old)
        <4>1. s \in hits[v] /\ s \in 0 .. clock /\ old <= s
          BY <1>3, <1>6
        <4>2. s < old + Window
          BY <1>2, <1>7, <4>1
        <4> QED
          BY <4>1, <4>2 DEF InWindowOf
      <3> QED
        BY <3>1 DEF InWindowOf
    <2>2. n <= Cardinality(InWindowOf(v, old)) /\ Cardinality(InWindowOf(v, old)) \in Nat
      BY <1>2, <2>1, PartOfHits DEF PolicyInv
    <2>3. Cardinality(InWindowOf(v, old)) <= limitOf[v]
      BY <1>7 DEF PolicyInv, LimitHolds
    <2> HIDE DEF n
    <2> QED
      BY <1>2, <1>4, <2>2, <2>3
  <1>9. later \subseteq Used(v) \ {old}
    <2>1. ASSUME NEW s \in later PROVE s \in Used(v) \ {old}
      <3>1. s \in hits[v] /\ s \in Nat /\ s + Window > old + Window
        BY <1>3
      <3>2. s # old /\ s + Window > clock
        BY <1>2, <1>7, <3>1
      <3> QED
        BY <3>1, <3>2 DEF Used
    <2> QED
      BY <2>1
  <1>10. Cardinality(later) < limitOf[v]
    <2>1. IsFiniteSet(Used(v) \ {old}) /\ Cardinality(Used(v) \ {old}) = n - 1
      BY <1>4, <1>6, FS_RemoveElement
    <2>2. later \in SUBSET (Used(v) \ {old})
      BY <1>9
    <2>3. IsFiniteSet(later) /\ Cardinality(later) <= Cardinality(Used(v) \ {old})
      BY <2>1, <2>2, FS_Subset
    <2>4. Cardinality(later) \in Nat
      BY <2>3, FS_CardinalityType
    <2> HIDE DEF n, later
    <2> QED
      BY <1>2, <1>4, <1>8, <2>1, <2>3, <2>4
  <1>11. /\ retryAt' = [w \in 1 .. MaxVersion |-> retryAt'[w]] /\ retryAt'[v] = old + Window
         /\ \A w \in 1 .. MaxVersion : w # v => retryAt'[w] = retryAt[w]
    BY <1>2 DEF PolicyInv, PolicyTypes, old
  <1>12. Version' = Version /\ CurrentVersion' = CurrentVersion
    BY DEF Version, CurrentVersion
  <1>13. PolicyTypes'
    <2>1. /\ ask' = [o \in Ask |-> ask'[o]]
          /\ \A o \in Ask : ask'[o] = IF o = q THEN new ELSE ask[o]
      BY <1>1 DEF PolicyInv, PolicyTypes
    <2>2. \A o \in Ask : DOMAIN ask'[o] = {"step", "version"} /\ (ask'[o].version = 0 \/ ask'[o].version \in Version)
      BY <1>1, <2>1 DEF PolicyInv, PolicyTypes
    <2>3. \A w \in 1 .. MaxVersion : retryAt'[w] \in Nat
      BY <1>2, <1>7, <1>11 DEF PolicyInv, PolicyTypes
    <2> QED
      BY <2>1, <2>2, <2>3, <1>11, <1>12 DEF PolicyInv, PolicyTypes
  <1>14. NotSetYet'
    BY <1>11, <1>12 DEF PolicyInv, NotSetYet
  <1>15. WaitEnds(v)'
    BY <1>10, <1>11 DEF WaitEnds, LeftAt
  <1>16. ASSUME NEW w \in Version PROVE LimitHolds(w)' /\ (w # v => WaitEnds(w)')
    <2>1. w # v => retryAt'[w] = retryAt[w]
      BY <1>11 DEF PolicyInv, PolicyTypes
    <2> QED
      BY <2>1 DEF PolicyInv, LimitHolds, WaitEnds, InWindowOf, LeftAt
  <1> QED
    BY <1>12, <1>13, <1>14, <1>15, <1>16 DEF PolicyInv

\* A message that is not the next to be decided about keeps its step.
LEMMA DecisionInv ==
  ASSUME PolicyInv, PolicyAssumption, NEW q \in Ask, ParsePayload(q) \/ DecideDirect(q) \/ DecideGroup(q)
  PROVE  PolicyInv'
  <1>0. ask[q].version = 0 \/ ask[q].version \in Version
    BY DEF PolicyInv, PolicyTypes
  <1>1. ASSUME NEW step, AskTo(q, step), Unmoved PROVE PolicyInv'
    <2>1. PICK new : /\ ask' = [ask EXCEPT ![q] = new] /\ DOMAIN new = {"step", "version"}
                     /\ new.step = step /\ new.version = ask[q].version
      BY <1>1, StepMoves
    <2> QED
      BY <1>0, <1>1, <2>1, AskMoves
  <1>2. CASE ReadStanding(q)
    <2>1. CASE standing = "barred"
      BY <1>1, <1>2, <2>1 DEF ReadStanding
    <2>2. CASE standing # "barred"
      <3> DEFINE new == [step |-> "content", version |-> IF standing = "admin" THEN 0 ELSE CurrentVersion]
      <3>1. ask' = [ask EXCEPT ![q] = new] /\ Unmoved
        BY <1>2, <2>2 DEF ReadStanding
      <3>2. DOMAIN new = {"step", "version"} /\ (new.version = 0 \/ new.version = CurrentVersion)
        OBVIOUS
      <3>3. CurrentVersion \in Version
        BY DEF PolicyInv, PolicyTypes
      <3> HIDE DEF new
      <3> QED
        BY <3>1, <3>2, <3>3, AskMoves
    <2> QED
      BY <2>1, <2>2
  <1>3. CASE ConsumeGroupMessageRate(q)
    <2> DEFINE v == ask[q].version
    <2>1. CASE ~Limited(q)
      BY <1>1, <1>3, <2>1 DEF ConsumeGroupMessageRate, Unmoved
    <2>2. CASE Limited(q)
      <3>1. v \in Version /\ limitOf[v] # 0
        BY <1>0, <2>2 DEF Limited
      <3>2. /\ IF Cardinality(Used(v)) >= limitOf[v]
               THEN AskTo(q, "limited") /\ retryAt' = [retryAt EXCEPT ![v] = OldestHit(v) + Window] /\ UNCHANGED hits
               ELSE /\ AskTo(q, "bind") /\ hits' = [hits EXCEPT ![v] = @ \cup {clock}]
                    /\ retryAt' = [retryAt EXCEPT ![v] = 0]
            /\ UNCHANGED <<clock, friendly, barred, standing, limitOf>>
        BY <1>3, <2>2 DEF ConsumeGroupMessageRate
      <3>3. Cardinality(Used(v)) \in Nat /\ limitOf[v] \in Nat
        <4>1. v \in 1 .. MaxVersion /\ Used(v) \subseteq hits[v] /\ Used(v) \subseteq Used(v)
          BY <3>1 DEF PolicyInv, PolicyTypes, Used
        <4> QED
          BY <3>1, <4>1, PartOfHits DEF PolicyInv, PolicyTypes
      <3>4. CASE Cardinality(Used(v)) >= limitOf[v]
        BY <3>1, <3>2, <3>4, SendRefused
      <3>5. CASE Cardinality(Used(v)) < limitOf[v]
        BY <3>1, <3>2, <3>3, <3>5, SendCounted
      <3> HIDE DEF v
      <3> QED
        BY <3>3, <3>4, <3>5
    <2> QED
      BY <2>1, <2>2
  <1>4. ParsePayload(q) \/ ReadPeer(q) \/ ReadBlocks(q) \/ ReadFriendship(q) \/ ReadContent(q) \/ BindAndAllow(q)
          => \E step : AskTo(q, step) /\ Unmoved
    <2>1. ParsePayload(q) => \E step : AskTo(q, step) /\ Unmoved
      BY DEF ParsePayload
    <2>2. ReadPeer(q) => \E step : AskTo(q, step) /\ Unmoved
      BY DEF ReadPeer
    <2>3. ReadBlocks(q) => \E step : AskTo(q, step) /\ Unmoved
      BY DEF ReadBlocks
    <2>4. ReadFriendship(q) => \E step : AskTo(q, step) /\ Unmoved
      BY DEF ReadFriendship
    <2>5. ReadContent(q) \/ BindAndAllow(q) => \E step : AskTo(q, step) /\ Unmoved
      BY DEF ReadContent, BindAndAllow
    <2> QED
      BY <2>1, <2>2, <2>3, <2>4, <2>5
  <1> QED
    BY <1>1, <1>2, <1>3, <1>4 DEF DecideDirect, DecideGroup

\* Messages are routed between friends alone, a group's limit holds in every
\* window, and who waits as long as told is not refused: in every state and step.
THEOREM PolicyIsKept == PolicySpec => PolicyKept
  <1> USE PolicyAssumption
  <1>1. PolicyInit => PolicyInv
    <2> SUFFICES ASSUME PolicyInit PROVE PolicyInv
      OBVIOUS
    <2>1. Version = {1} /\ {1} = 1 .. 1 /\ 1 \in 1 .. MaxVersion
      BY DEF PolicyInit, Version
    <2>2. CurrentVersion = 1
      BY <2>1, FS_Singleton DEF CurrentVersion
    <2>3. /\ \A v \in 1 .. MaxVersion : hits[v] = {} /\ retryAt[v] = 0
          /\ limitOf[1] \in Nat
      BY DEF PolicyInit
    <2>4. \A q \in Ask : DOMAIN ask[q] = {"step", "version"} /\ ask[q].version = 0
      BY DEF PolicyInit, NoAsk
    <2>5. PolicyTypes
      BY <2>1, <2>2, <2>3, <2>4 DEF PolicyInit, PolicyTypes
    <2>6. NotSetYet
      BY <2>3 DEF NotSetYet
    <2>7. \A v \in Version : LimitHolds(v) /\ WaitEnds(v)
      BY <2>1, <2>3 DEF LimitHolds, WaitEnds
    <2> QED
      BY <2>5, <2>6, <2>7 DEF PolicyInit, PolicyInv
  <1>2. PolicyInv /\ [PolicyNext]_policyVars => PolicyInv'
    <2> SUFFICES ASSUME PolicyInv, [PolicyNext]_policyVars PROVE PolicyInv'
      OBVIOUS
    <2>1. CASE UNCHANGED policyVars
      BY <2>1 DEF policyVars, PolicyInv, PolicyTypes, NotSetYet, LimitHolds, WaitEnds, InWindowOf, LeftAt, Version, CurrentVersion
    <2> QED
      BY <2>1, OthersMove, DecisionInv DEF PolicyNext
  <1>3. PolicyInv => RateKept
    BY DEF PolicyInv, LimitHolds, InWindowOf, RateKept
  <1>4. PolicyInv /\ [PolicyNext]_policyVars
          => [\A q \in Ask : ask'[q].step = "routed" /\ ~AskAt(q, "routed") => friendly /\ ~barred]_policyVars
    <2> SUFFICES ASSUME PolicyInv, [PolicyNext]_policyVars, NEW q \in Ask, ask'[q].step = "routed", ~AskAt(q, "routed")
                 PROVE  friendly /\ ~barred
      OBVIOUS
    <2>1. PICK o \in Ask : ParsePayload(o) \/ DecideDirect(o) \/ DecideGroup(o)
      BY DEF PolicyNext, policyVars, PeersMove, GroupMoves, MakeFriends, BlockPeer, UnblockPeer, ChangeStanding,
             PolicyTick, SetRateLimit, AskAt
    <2>2. ASSUME NEW step, AskTo(o, step) PROVE o = q /\ step = "routed"
      <3>1. PICK new : ask' = [ask EXCEPT ![o] = new] /\ new.step = step
        BY <2>2, StepMoves
      <3> QED
        BY <3>1 DEF PolicyInv, PolicyTypes, AskAt
    <2>3. ReadFriendship(o)
      <3>1. ~ParsePayload(o) /\ ~ReadContent(o) /\ ~BindAndAllow(o)
        BY <2>2 DEF ParsePayload, ReadContent, BindAndAllow
      <3>2. ~ReadPeer(o) /\ ~ReadBlocks(o)
        BY <2>2 DEF ReadPeer, ReadBlocks, NextRead
      <3>3. ~ConsumeGroupMessageRate(o)
        BY <2>2 DEF ConsumeGroupMessageRate
      <3>4. ~ReadStanding(o)
        <4>1. CASE standing = "barred"
          BY <2>2, <4>1 DEF ReadStanding
        <4>2. CASE standing # "barred" /\ ReadStanding(o)
          <5> DEFINE new == [step |-> "content", version |-> IF standing = "admin" THEN 0 ELSE CurrentVersion]
          <5>1. ask' = [ask EXCEPT ![o] = new] /\ new.step = "content"
            BY <4>2 DEF ReadStanding
          <5> HIDE DEF new
          <5> QED
            BY <5>1 DEF PolicyInv, PolicyTypes, AskAt
        <4> QED
          BY <4>1, <4>2
      <3> QED
        BY <2>1, <3>1, <3>2, <3>3, <3>4 DEF DecideDirect, DecideGroup
    <2> QED
      BY <2>2, <2>3 DEF ReadFriendship, PolicyInv
  <1>5. PolicyInv /\ [PolicyNext]_policyVars
          => [\A q \in Ask : ask'[q].step = "limited" /\ ~AskAt(q, "limited")
                => clock < retryAt[ask[q].version] \/ retryAt[ask[q].version] = 0]_policyVars
    <2> SUFFICES ASSUME PolicyInv, [PolicyNext]_policyVars, NEW q \in Ask, ask'[q].step = "limited", ~AskAt(q, "limited"),
                        ~(clock < retryAt[ask[q].version]), retryAt[ask[q].version] # 0
                 PROVE  FALSE
      OBVIOUS
    <2>1. PICK o \in Ask : ParsePayload(o) \/ DecideDirect(o) \/ DecideGroup(o)
      BY DEF PolicyNext, policyVars, PeersMove, GroupMoves, MakeFriends, BlockPeer, UnblockPeer, ChangeStanding,
             PolicyTick, SetRateLimit, AskAt
    <2>2. ASSUME NEW step, AskTo(o, step) PROVE o = q /\ step = "limited"
      <3>1. PICK new : ask' = [ask EXCEPT ![o] = new] /\ new.step = step
        BY <2>2, StepMoves
      <3> QED
        BY <3>1 DEF PolicyInv, PolicyTypes, AskAt
    <2>3. ConsumeGroupMessageRate(o)
      <3>1. ~ParsePayload(o) /\ ~ReadContent(o) /\ ~BindAndAllow(o)
        BY <2>2 DEF ParsePayload, ReadContent, BindAndAllow
      <3>2. ~ReadPeer(o) /\ ~ReadBlocks(o) /\ ~ReadFriendship(o)
        BY <2>2 DEF ReadPeer, ReadBlocks, ReadFriendship, NextRead
      <3>4. ~ReadStanding(o)
        <4>1. CASE standing = "barred"
          BY <2>2, <4>1 DEF ReadStanding
        <4>2. CASE standing # "barred" /\ ReadStanding(o)
          <5> DEFINE new == [step |-> "content", version |-> IF standing = "admin" THEN 0 ELSE CurrentVersion]
          <5>1. ask' = [ask EXCEPT ![o] = new] /\ new.step = "content"
            BY <4>2 DEF ReadStanding
          <5> HIDE DEF new
          <5> QED
            BY <5>1 DEF PolicyInv, PolicyTypes, AskAt
        <4> QED
          BY <4>1, <4>2
      <3> QED
        BY <2>1, <3>1, <3>2, <3>4 DEF DecideDirect, DecideGroup
    <2> DEFINE v == ask[q].version
    <2>4. /\ v \in Version /\ limitOf[v] # 0 /\ Cardinality(Used(v)) >= limitOf[v]
      <3>1. Limited(o) /\ Cardinality(Used(ask[o].version)) >= limitOf[ask[o].version]
        BY <2>2, <2>3 DEF ConsumeGroupMessageRate
      <3>2. o = q
        BY <2>2, <2>3, <3>1 DEF ConsumeGroupMessageRate
      <3> QED
        BY <3>1, <3>2 DEF Limited, PolicyInv, PolicyTypes
    <2>5. /\ v \in 1 .. MaxVersion /\ retryAt[v] \in Nat /\ clock \in Nat /\ Window \in Nat /\ limitOf[v] \in Nat
          /\ hits[v] \subseteq Nat
      BY <2>4 DEF PolicyInv, PolicyTypes
    <2>6. Used(v) \subseteq LeftAt(v, retryAt[v]) /\ LeftAt(v, retryAt[v]) \subseteq hits[v]
      BY <2>5 DEF Used, LeftAt
    <2>7. /\ Cardinality(Used(v)) <= Cardinality(LeftAt(v, retryAt[v]))
          /\ Cardinality(Used(v)) \in Nat /\ Cardinality(LeftAt(v, retryAt[v])) \in Nat
      BY <2>5, <2>6, PartOfHits DEF PolicyInv
    <2>8. Cardinality(LeftAt(v, retryAt[v])) < limitOf[v]
      BY <2>4 DEF PolicyInv, WaitEnds
    <2> HIDE DEF v
    <2> QED
      BY <2>4, <2>5, <2>7, <2>8
  <1> QED
    BY <1>1, <1>2, <1>3, <1>4, <1>5, PTL DEF PolicySpec, PolicyKept, RoutedBetweenFriends, RefusedOnlyUntilTold

---------------------------------------------------------------------------
(* The settings of a group.  A time stamp belongs to one request, so a page   *)
(* whose time stamp the group still has shows what the group still has; and   *)
(* the publications of a version are told one by one.                         *)

Told == {"announcement", "rate", "visible"}
AtIn(m) == asked[m].at

SettingsTypes ==
    /\ setting = [f \in Field |-> setting[f]]
    /\ version = [f \in Versioned |-> version[f]] /\ \A f \in Versioned : version[f] \in Nat
    /\ asked = [m \in Manager |-> asked[m]] /\ shown = [c \in Page |-> shown[c]]
    /\ timeNow \in Nat /\ touchedAt \in Nat
    /\ \A m \in Manager : asked[m] # Closed => asked[m].edit \in Edit /\ asked[m].at \in Nat
    /\ \A c \in Page : shown[c] # Closed => shown[c].at \in Nat

\* A time stamp that was taken is no other request's and is not yet the group's.
OneStampEach ==
    /\ touchedAt < timeNow
    /\ \A c \in Page : shown[c] # Closed => shown[c].at < timeNow
    /\ \A m \in Manager : asked[m] # Closed =>
          /\ asked[m].at < timeNow /\ asked[m].at # touchedAt
          /\ \A c \in Page : shown[c] # Closed => shown[c].at # asked[m].at
          /\ \A o \in Manager \ {m} : asked[o] # Closed => asked[o].at # asked[m].at

PageIsCurrent ==
    \A c \in Page : shown[c] # Closed /\ shown[c].at = touchedAt => shown[c].setting = setting

Numbers(f, n) == {Published(f, i) : i \in 1 .. n}
ToldOf(f) == {e \in announced : e.event = f}
EachVersionTold == dissolved \/ \A f \in Told : ToldOf(f) = Numbers(f, version[f])

SettingsInv ==
    /\ SettingsTypes
    /\ OneStampEach
    /\ PageIsCurrent
    /\ EachVersionTold

\* A request that took a time stamp earlier, or takes one now, changes the group.
LEMMA GroupTouched ==
  ASSUME SettingsInv, NEW at \in Nat, touchedAt' = at,
         setting' = [f \in Field |-> setting'[f]], version' = [f \in Versioned |-> version'[f]],
         \A f \in Versioned : version'[f] \in Nat,
         timeNow' \in Nat, timeNow <= timeNow', at < timeNow',
         \A c \in Page : shown[c] # Closed => shown[c].at # at,
         asked' = [m \in Manager |-> asked'[m]],
         \A m \in Manager : asked'[m] # Closed => asked'[m] = asked[m] /\ asked[m].at # at,
         shown' = [c \in Page |-> shown'[c]],
         \A c \in Page : shown'[c] = shown[c] \/ shown'[c] = Closed,
         EachVersionTold'
  PROVE  SettingsInv'
  <1>1. SettingsTypes'
    BY DEF SettingsInv, SettingsTypes
  <1>2. OneStampEach'
    BY DEF SettingsInv, SettingsTypes, OneStampEach
  <1>3. PageIsCurrent'
    BY DEF SettingsInv, PageIsCurrent
  <1> QED
    BY <1>1, <1>2, <1>3 DEF SettingsInv

\* The group stays, while requests and pages come and go.
LEMMA GroupUntouched ==
  ASSUME SettingsInv, UNCHANGED <<setting, version, touchedAt, announced>>, dissolved' = dissolved,
         timeNow' \in Nat, timeNow <= timeNow',
         asked' = [m \in Manager |-> asked'[m]],
         \A m \in Manager : asked'[m] # Closed => asked'[m] = asked[m],
         shown' = [c \in Page |-> shown'[c]],
         \A c \in Page : \/ shown'[c] = shown[c]
                         \/ shown'[c] = Closed
                         \/ shown'[c].setting = setting /\ shown'[c].at = touchedAt
  PROVE  SettingsInv'
  <1>1. SettingsTypes'
    BY DEF SettingsInv, SettingsTypes
  <1>2. OneStampEach'
    BY DEF SettingsInv, SettingsTypes, OneStampEach
  <1>3. PageIsCurrent'
    BY DEF SettingsInv, PageIsCurrent
  <1>4. EachVersionTold'
    BY DEF SettingsInv, EachVersionTold, ToldOf
  <1> QED
    BY <1>1, <1>2, <1>3, <1>4 DEF SettingsInv

\* The next version of the published fields is told, and nothing else of them.
LEMMA VersionsTold ==
  ASSUME SettingsInv, NEW fields, NEW rows,
         version' = NextVersions(fields), dissolved' = dissolved, emitGroupSystem(rows),
         \A e \in rows : e.event \in Told => e.event \in fields /\ e = Published(e.event, version[e.event] + 1),
         \A f \in Told \cap fields : Published(f, version[f] + 1) \in rows
  PROVE  /\ EachVersionTold'
         /\ version' = [f \in Versioned |-> version'[f]] /\ \A f \in Versioned : version'[f] \in Nat
  <1>1. /\ version' = [f \in Versioned |-> version'[f]]
        /\ \A f \in Versioned : version'[f] = (IF f \in fields THEN version[f] + 1 ELSE version[f]) /\ version'[f] \in Nat
    BY DEF NextVersions, SettingsInv, SettingsTypes
  <1>2. ASSUME ~dissolved, NEW f \in Told PROVE ToldOf(f)' = Numbers(f, version'[f])
    <2>1. ToldOf(f) = Numbers(f, version[f]) /\ announced' = announced \cup rows
      BY <1>2 DEF SettingsInv, EachVersionTold, emitGroupSystem
    <2>2. version[f] \in Nat /\ f \in Versioned
      BY DEF Told, Versioned, SettingsInv, SettingsTypes
    <2>3. CASE f \in fields
      <3>1. ToldOf(f)' = ToldOf(f) \cup {Published(f, version[f] + 1)}
        <4>1. Published(f, version[f] + 1).event = f
          BY DEF Published
        <4> QED
          BY <2>1, <2>3, <4>1 DEF ToldOf
      <3>2. 1 .. version[f] + 1 = (1 .. version[f]) \cup {version[f] + 1}
        BY <2>2
      <3>3. Numbers(f, version[f] + 1) = Numbers(f, version[f]) \cup {Published(f, version[f] + 1)}
        BY <3>2 DEF Numbers
      <3> QED
        BY <1>1, <2>1, <2>2, <2>3, <3>1, <3>3
    <2>4. CASE f \notin fields
      BY <1>1, <2>1, <2>2, <2>4 DEF ToldOf
    <2> QED
      BY <2>3, <2>4
  <1> QED
    BY <1>1, <1>2 DEF EachVersionTold

\* The events of an edit are those of the fields it changes.
LEMMA EventsOfEdit ==
  ASSUME NEW u, NEW more, \A e \in more : e.event \notin Told
  PROVE  /\ \A e \in Events(u) \cup more : e.event \in Told => e.event \in Changed(u) /\ e = Published(e.event, version[e.event] + 1)
         /\ \A f \in Told \cap Changed(u) : Published(f, version[f] + 1) \in Events(u) \cup more
  <1>1. ASSUME NEW e \in Events(u), e.event \in Told
        PROVE  e.event \in Changed(u) /\ e = Published(e.event, version[e.event] + 1)
    <2>1. CASE \E f \in Changed(u) \cap {"mute", "ban"} : e = [event |-> f, data |-> u[f]]
      BY <1>1, <2>1 DEF Told
    <2>2. CASE \E f \in Changed(u) \cap Told : e = Published(f, version[f] + 1)
      BY <2>2 DEF Published
    <2> QED
      BY <2>1, <2>2 DEF Events, Told
  <1>2. \A f \in Told \cap Changed(u) : Published(f, version[f] + 1) \in Events(u)
    BY DEF Events, Told
  <1> QED
    BY <1>1, <1>2

\* A manager's request ends; what it had asked for happens at its own time.
LEMMA ManagersAct ==
  ASSUME SettingsInv, GroupSettingsAssumption, NEW m \in Manager,
         \/ \E u \in Edit : groupActor(m, u)
         \/ UpdateGroupProfile(m) \/ SetGroupAnnouncement(m) \/ LoseRole(m)
  PROVE  SettingsInv'
  <1>1. ASSUME NEW u \in Edit, groupActor(m, u) PROVE SettingsInv'
    <2> DEFINE new == [edit |-> u, at |-> timeNow]
    <2>1. /\ asked[m] = Closed /\ timeNow' = timeNow + 1 /\ asked' = [asked EXCEPT ![m] = new]
          /\ UNCHANGED <<setting, version, touchedAt, dissolved, shown, announced>>
      BY <1>1 DEF groupActor, TakesTime
    <2>2. new.edit = u /\ new.at = timeNow
      OBVIOUS
    <2> HIDE DEF new
    <2>3. /\ asked' = [o \in Manager |-> asked'[o]]
          /\ \A o \in Manager : asked'[o] = IF o = m THEN new ELSE asked[o]
      BY <2>1 DEF SettingsInv, SettingsTypes
    <2>4. SettingsTypes'
      BY <2>1, <2>2, <2>3 DEF SettingsInv, SettingsTypes
    <2>5. OneStampEach'
      BY <2>1, <2>2, <2>3 DEF SettingsInv, SettingsTypes, OneStampEach
    <2>6. PageIsCurrent' /\ EachVersionTold'
      BY <2>1 DEF SettingsInv, PageIsCurrent, EachVersionTold, ToldOf
    <2> QED
      BY <2>4, <2>5, <2>6 DEF SettingsInv
  <1>2. ASSUME asked[m] # Closed, asked' = [asked EXCEPT ![m] = Closed]
        PROVE  /\ asked' = [o \in Manager |-> asked'[o]]
               /\ \A o \in Manager : asked'[o] # Closed => asked'[o] = asked[o] /\ asked[o].at # asked[m].at
               /\ asked[m].at \in Nat /\ asked[m].at < timeNow /\ asked[m].edit \in Edit
               /\ \A c \in Page : shown[c] # Closed => shown[c].at # asked[m].at
    <2>1. /\ asked' = [o \in Manager |-> asked'[o]]
          /\ \A o \in Manager : asked'[o] = IF o = m THEN Closed ELSE asked[o]
      BY <1>2 DEF SettingsInv, SettingsTypes
    <2>2. \A o \in Manager \ {m} : asked[o] # Closed => asked[o].at # asked[m].at
      BY <1>2 DEF SettingsInv, OneStampEach
    <2> QED
      BY <1>2, <2>1, <2>2 DEF SettingsInv, SettingsTypes, OneStampEach
  <1>3. /\ timeNow \in Nat /\ timeNow <= timeNow
        /\ shown = [c \in Page |-> shown[c]]
        /\ setting = [f \in Field |-> setting[f]]
    BY DEF SettingsInv, SettingsTypes
  <1>4. CASE UpdateGroupProfile(m)
    <2> DEFINE u == asked[m].edit
               fields == Changed(u)
               more == IF DOMAIN u \subseteq {"rate", "mute"} THEN {} ELSE {[event |-> "profile", data |-> m]}
    <2>1. /\ asked[m] # Closed /\ asked' = [asked EXCEPT ![m] = Closed]
          /\ UNCHANGED <<timeNow, dissolved, shown>>
      BY <1>4 DEF UpdateGroupProfile
    <2>2. CASE UNCHANGED <<setting, version, touchedAt, announced>>
      BY <1>2, <1>3, <2>1, <2>2, GroupUntouched
    <2>3. CASE /\ setting' = Edited(u) /\ version' = NextVersions(fields)
               /\ touchedAt' = asked[m].at /\ emitGroupSystem(Events(u) \cup more)
      <3>1. \A e \in more : e.event \notin Told
        BY DEF Told
      <3> HIDE DEF more
      <3>2. /\ EachVersionTold'
            /\ version' = [f \in Versioned |-> version'[f]] /\ \A f \in Versioned : version'[f] \in Nat
        BY <2>1, <2>3, <3>1, EventsOfEdit, VersionsTold
      <3>3. setting' = [f \in Field |-> setting'[f]]
        BY <1>2, <2>1, <2>3 DEF Edited
      <3> QED
        BY <1>2, <1>3, <2>1, <2>3, <3>2, <3>3, GroupTouched
    <2> QED
      BY <1>4, <2>2, <2>3 DEF UpdateGroupProfile
  <1>5. CASE SetGroupAnnouncement(m)
    <2> DEFINE u == asked[m].edit
               notice == Published("announcement", version["announcement"] + 1)
    <2>1. /\ asked[m] # Closed /\ asked' = [asked EXCEPT ![m] = Closed]
          /\ UNCHANGED <<timeNow, dissolved, shown>>
          /\ setting' = Edited(u) /\ version' = NextVersions({"announcement"})
          /\ touchedAt' = asked[m].at /\ emitGroupSystem({notice})
      BY <1>5 DEF SetGroupAnnouncement
    <2>2. notice.event = "announcement"
      BY DEF Published
    <2>3. /\ \A e \in {notice} : e.event \in Told => e.event \in {"announcement"} /\ e = Published(e.event, version[e.event] + 1)
          /\ \A f \in Told \cap {"announcement"} : Published(f, version[f] + 1) \in {notice}
      BY <2>2
    <2> HIDE DEF notice
    <2>4. /\ EachVersionTold'
          /\ version' = [f \in Versioned |-> version'[f]] /\ \A f \in Versioned : version'[f] \in Nat
      BY <2>1, <2>3, VersionsTold
    <2>5. setting' = [f \in Field |-> setting'[f]]
      BY <1>2, <2>1 DEF Edited
    <2> QED
      BY <1>2, <1>3, <2>1, <2>4, <2>5, GroupTouched
  <1>6. CASE LoseRole(m)
    <2>1. UNCHANGED <<setting, version, touchedAt, timeNow, dissolved, asked, shown, announced>>
      BY <1>6 DEF LoseRole
    <2> QED
      BY <1>3, <2>1, GroupUntouched DEF SettingsInv, SettingsTypes
  <1> QED
    BY <1>1, <1>4, <1>5, <1>6

\* The console opens pages and saves them, and turns single switches.
LEMMA ConsoleActs ==
  ASSUME SettingsInv, GroupSettingsAssumption,
         \/ \E c \in Page : OpenPage(c) \/ \E u \in Edit : AdminUpdateGroupSettings(c, u)
         \/ \E v \in {0, 1} : \/ AdminSetGroupMuteAll(v) \/ AdminSetGroupBan(v)
                              \/ SetAdminGroupHistoryVisibility(v)
         \/ DisbandGroupRecord
  PROVE  SettingsInv'
  <1>0. /\ timeNow \in Nat /\ timeNow + 1 \in Nat /\ timeNow <= timeNow + 1 /\ timeNow < timeNow + 1
        /\ asked = [m \in Manager |-> asked[m]] /\ shown = [c \in Page |-> shown[c]]
        /\ setting = [f \in Field |-> setting[f]] /\ version = [f \in Versioned |-> version[f]]
        /\ \A f \in Versioned : version[f] \in Nat
        /\ \A m \in Manager : asked[m] # Closed => asked[m].at # timeNow
        /\ \A c \in Page : shown[c] # Closed => shown[c].at # timeNow
    BY DEF SettingsInv, SettingsTypes, OneStampEach
  <1>1. ASSUME NEW c \in Page, OpenPage(c) PROVE SettingsInv'
    <2> DEFINE new == [setting |-> setting, at |-> touchedAt]
    <2>1. /\ shown' = [shown EXCEPT ![c] = new]
          /\ UNCHANGED <<setting, version, touchedAt, timeNow, dissolved, asked, announced>>
      BY <1>1 DEF OpenPage
    <2>2. new.setting = setting /\ new.at = touchedAt
      OBVIOUS
    <2> HIDE DEF new
    <2>3. /\ shown' = [d \in Page |-> shown'[d]]
          /\ \A d \in Page : shown'[d] = shown[d] \/ (shown'[d].setting = setting /\ shown'[d].at = touchedAt)
      <3>1. /\ shown' = [d \in Page |-> shown'[d]]
            /\ \A d \in Page : shown'[d] = IF d = c THEN new ELSE shown[d]
        BY <1>0, <2>1
      <3> QED
        BY <2>2, <3>1
    <2> QED
      BY <1>0, <2>1, <2>3, GroupUntouched
  <1>2. ASSUME NEW c \in Page, NEW u \in Edit, AdminUpdateGroupSettings(c, u) PROVE SettingsInv'
    <2> DEFINE fields == Changed(u)
               more == {[event |-> "refresh", data |-> timeNow]}
    <2>1. /\ timeNow' = timeNow + 1 /\ shown' = [shown EXCEPT ![c] = Closed] /\ UNCHANGED <<dissolved, asked>>
      BY <1>2 DEF AdminUpdateGroupSettings, TakesTime
    <2>2. /\ shown' = [d \in Page |-> shown'[d]]
          /\ \A d \in Page : shown'[d] = shown[d] \/ shown'[d] = Closed
      BY <1>0, <2>1
    <2>3. CASE UNCHANGED <<setting, version, touchedAt, announced>>
      BY <1>0, <2>1, <2>2, <2>3, GroupUntouched
    <2>4. CASE /\ setting' = Edited(u) /\ version' = NextVersions(fields)
               /\ touchedAt' = timeNow /\ emitGroupSystem(Events(u) \cup more)
      <3>1. \A e \in more : e.event \notin Told
        BY DEF Told
      <3> HIDE DEF more
      <3>2. /\ EachVersionTold'
            /\ version' = [f \in Versioned |-> version'[f]] /\ \A f \in Versioned : version'[f] \in Nat
        BY <2>1, <2>4, <3>1, EventsOfEdit, VersionsTold
      <3>3. setting' = [f \in Field |-> setting'[f]]
        BY <2>4 DEF Edited
      <3> QED
        BY <1>0, <2>1, <2>2, <2>4, <3>2, <3>3, GroupTouched
    <2> QED
      BY <1>2, <2>3, <2>4 DEF AdminUpdateGroupSettings
  <1>3. ASSUME NEW f \in {"mute", "ban", "visible"}, NEW v, AdminSwitch(f, v) PROVE SettingsInv'
    <2> DEFINE u == Switched(f, v)
    <2>1. /\ setting[f] # v /\ timeNow' = timeNow + 1 /\ UNCHANGED <<dissolved, asked, shown>>
          /\ setting' = [setting EXCEPT ![f] = v] /\ version' = NextVersions({f})
          /\ touchedAt' = timeNow /\ emitGroupSystem(Events(u))
      BY <1>3 DEF AdminSwitch, TakesTime
    <2>2. DOMAIN u = {f} /\ u[f] = v
      BY DEF Switched
    <2> HIDE DEF u
    <2>3. Changed(u) = {f}
      BY <2>1, <2>2 DEF Changed
    <2>4. Events(u) \cup {} = Events(u)
      OBVIOUS
    <2>5. /\ \A e \in Events(u) : e.event \in Told => e.event \in {f} /\ e = Published(e.event, version[e.event] + 1)
          /\ \A g \in Told \cap {f} : Published(g, version[g] + 1) \in Events(u)
      <3>1. \A e \in {} : e.event \notin Told
        OBVIOUS
      <3>2. /\ \A e \in Events(u) \cup {} : e.event \in Told => e.event \in Changed(u) /\ e = Published(e.event, version[e.event] + 1)
            /\ \A g \in Told \cap Changed(u) : Published(g, version[g] + 1) \in Events(u) \cup {}
        BY <3>1, EventsOfEdit
      <3> QED
        BY <2>3, <2>4, <3>2
    <2>6. /\ EachVersionTold'
          /\ version' = [g \in Versioned |-> version'[g]] /\ \A g \in Versioned : version'[g] \in Nat
      BY <2>1, <2>5, VersionsTold
    <2>7. setting' = [g \in Field |-> setting'[g]]
      BY <1>0, <2>1
    <2> QED
      BY <1>0, <2>1, <2>6, <2>7, GroupTouched
  <1>4. CASE DisbandGroupRecord
    <2>1. /\ timeNow' = timeNow + 1 /\ dissolved' = TRUE /\ touchedAt' = timeNow
          /\ setting' = [setting EXCEPT !["ban"] = 0] /\ UNCHANGED <<version, asked, shown>>
      BY <1>4 DEF DisbandGroupRecord, TakesTime
    <2>2. setting' = [f \in Field |-> setting'[f]]
      BY <1>0, <2>1
    <2>3. EachVersionTold'
      BY <2>1 DEF EachVersionTold
    <2> QED
      BY <1>0, <2>1, <2>2, <2>3, GroupTouched
  <1> QED
    BY <1>1, <1>2, <1>3, <1>4 DEF AdminSetGroupMuteAll, AdminSetGroupBan, SetAdminGroupHistoryVisibility

\* Every version of the announcement, the rate and the history policy is told,
\* and no console page is saved over a change it does not show.
THEOREM SettingsAreKept == GroupSettingsSpec => SettingsKept
  <1> USE GroupSettingsAssumption
  <1>1. GroupSettingsInit => SettingsInv
    <2> SUFFICES ASSUME GroupSettingsInit PROVE SettingsInv
      OBVIOUS
    <2>1. SettingsTypes /\ OneStampEach /\ PageIsCurrent
      BY DEF GroupSettingsInit, SettingsTypes, OneStampEach, PageIsCurrent
    <2>2. EachVersionTold
      <3>1. \A f \in Told : version[f] = 0
        BY DEF GroupSettingsInit, Told, Versioned
      <3> QED
        BY <3>1 DEF GroupSettingsInit, EachVersionTold, ToldOf, Numbers
    <2> QED
      BY <2>1, <2>2 DEF SettingsInv
  <1>2. SettingsInv /\ [GroupSettingsNext]_settingsVars => SettingsInv'
    <2> SUFFICES ASSUME SettingsInv, [GroupSettingsNext]_settingsVars PROVE SettingsInv'
      OBVIOUS
    <2>1. CASE UNCHANGED settingsVars
      BY <2>1 DEF settingsVars, SettingsInv, SettingsTypes, OneStampEach, PageIsCurrent, EachVersionTold, ToldOf
    <2> QED
      BY <2>1, ManagersAct, ConsoleActs DEF GroupSettingsNext
  <1>3. SettingsInv => PublicationsTold
    <2> SUFFICES ASSUME SettingsInv, ~dissolved, NEW f \in Told PROVE Cardinality(ToldOf(f)) = version[f]
      BY DEF PublicationsTold, ToldOf, Told
    <2> DEFINE n == version[f]
               g == [i \in 1 .. n |-> Published(f, i)]
    <2>1. n \in Nat /\ ToldOf(f) = Numbers(f, n)
      BY DEF SettingsInv, SettingsTypes, EachVersionTold, Told, Versioned
    <2>2. \A i, j \in 1 .. n : Published(f, i) = Published(f, j) => i = j
      <3>1. \A i : Published(f, i).data = i
        BY DEF Published
      <3> QED
        BY <3>1
    <2> HIDE DEF n
    <2>3. IsFiniteSet(1 .. n) /\ Cardinality(1 .. n) = n
      <3>1. 1 \in Int /\ n \in Int
        BY <2>1
      <3> QED
        BY <2>1, <3>1, FS_Interval
    <2>4. g \in Bijection(1 .. n, Numbers(f, n))
      <3>1. g \in [1 .. n -> Numbers(f, n)]
        BY DEF Numbers
      <3>2. \A i, j \in 1 .. n : g[i] = g[j] => i = j
        BY <2>2
      <3>3. \A e \in Numbers(f, n) : \E i \in 1 .. n : g[i] = e
        BY DEF Numbers
      <3> HIDE DEF g
      <3> QED
        BY <3>1, <3>2, <3>3, Fun_IsBij
    <2> HIDE DEF g
    <2>5. ExistsBijection(1 .. n, Numbers(f, n))
      BY <2>4 DEF ExistsBijection
    <2>6. Cardinality(Numbers(f, n)) = n
      BY <2>3, <2>5, FS_Bijection
    <2> QED
      BY <2>1, <2>6 DEF n
  <1>4. SettingsInv /\ [GroupSettingsNext]_settingsVars
          => [\A c \in Page : shown[c] # Closed /\ shown'[c] = Closed /\ setting' # setting
                => shown[c].setting = setting]_settingsVars
    <2> SUFFICES ASSUME SettingsInv, GroupSettingsNext, NEW c \in Page, shown[c] # Closed, shown'[c] = Closed,
                        setting' # setting
                 PROVE  shown[c].setting = setting
      BY DEF settingsVars
    <2>1. PICK d \in Page : OpenPage(d) \/ \E u \in Edit : AdminUpdateGroupSettings(d, u)
      BY DEF GroupSettingsNext, groupActor, UpdateGroupProfile, SetGroupAnnouncement, LoseRole, AdminSetGroupMuteAll,
             AdminSetGroupBan, SetAdminGroupHistoryVisibility, AdminSwitch, DisbandGroupRecord
    <2>2. PICK u \in Edit : AdminUpdateGroupSettings(d, u)
      BY <2>1 DEF OpenPage
    <2>3. d = c
      BY <2>2 DEF AdminUpdateGroupSettings, SettingsInv, SettingsTypes
    <2>4. touchedAt = shown[c].at
      BY <2>2, <2>3 DEF AdminUpdateGroupSettings
    <2> QED
      BY <2>4 DEF SettingsInv, PageIsCurrent
  <1> QED
    BY <1>1, <1>2, <1>3, <1>4, PTL DEF GroupSettingsSpec, SettingsKept, NoBlindEdit

---------------------------------------------------------------------------
(* A moment.  Whoever adds to it or ends it holds its row and saw it not yet  *)
(* deleted.                                                                   *)

HoldsMoment(p) ==
    \/ post[p].kind \in {"delete", "moderate"}
    \/ post[p].kind \in {"like", "comment"} /\ post[p].step \in {"locked", "parent"}

MomentTypes ==
    /\ post = [p \in Post |-> post[p]] /\ comments = [c \in CommentId |-> comments[c]]
    /\ \A p \in Post : /\ "kind" \in DOMAIN post[p]
                       /\ post[p].kind \in {"like", "comment"} => "step" \in DOMAIN post[p]
                       /\ post[p].kind = "comment" => post[p].id \in CommentId
    /\ \A c \in CommentId : DOMAIN comments[c] = {"status", "by", "parent"}
    /\ DOMAIN moment = {"status", "visibility", "ids"}

MomentInv ==
    /\ MomentTypes
    /\ \A p \in Post : HoldsMoment(p) => rowLock = p /\ moment.status # "deleted"
    /\ ended => moment.status = "deleted"
    /\ NobodyMissesTheEnd

\* A request comes to r; the moment and what belongs to it stay.
LEMMA PostMoves ==
  ASSUME MomentInv, NEW p \in Post, NEW r, post' = [post EXCEPT ![p] = r],
         "kind" \in DOMAIN r, r.kind \in {"like", "comment"} => "step" \in DOMAIN r,
         r.kind = "comment" => r.id \in CommentId,
         \/ r.kind \in {"delete", "moderate"} /\ rowLock' = p
         \/ r.kind \in {"like", "comment"} /\ r.step \in {"locked", "parent"} /\ rowLock' = p
         \/ r.kind = "none"
         \/ r.kind \in {"like", "comment"} /\ r.step = "asked",
         rowLock' = p => moment.status # "deleted",
         \/ rowLock' = rowLock
         \/ \A q \in Post \ {p} : ~HoldsMoment(q),
         UNCHANGED <<moment, likes, comments, told, ended>>
  PROVE  MomentInv'
  <1>1. /\ post' = [q \in Post |-> post'[q]]
        /\ \A q \in Post : post'[q] = IF q = p THEN r ELSE post[q]
    BY DEF MomentInv, MomentTypes
  <1>2. MomentTypes'
    BY <1>1 DEF MomentInv, MomentTypes
  <1>3. \A q \in Post : HoldsMoment(q)' => rowLock' = q /\ moment.status # "deleted"
    <2> SUFFICES ASSUME NEW q \in Post, HoldsMoment(q)' PROVE rowLock' = q /\ moment.status # "deleted"
      OBVIOUS
    <2>1. CASE q = p
      BY <1>1, <2>1 DEF HoldsMoment
    <2>2. CASE q # p
      <3>1. HoldsMoment(q)
        BY <1>1, <2>2 DEF HoldsMoment
      <3> QED
        BY <2>2, <3>1 DEF MomentInv
    <2> QED
      BY <2>1, <2>2
  <1> QED
    BY <1>2, <1>3 DEF MomentInv, NobodyMissesTheEnd

\* The holder of the row answers: whatever it wrote, nobody holds it afterwards.
LEMMA HolderResponds ==
  ASSUME MomentInv, NEW p \in Post, HoldsMoment(p), Respond(p),
         comments' = [c \in CommentId |-> comments'[c]],
         \A c \in CommentId : DOMAIN comments'[c] = {"status", "by", "parent"},
         DOMAIN moment' = {"status", "visibility", "ids"},
         ended' => moment'.status = "deleted", NobodyMissesTheEnd'
  PROVE  MomentInv'
  <1>1. /\ post' = [q \in Post |-> post'[q]]
        /\ \A q \in Post : post'[q] = IF q = p THEN NoRequest ELSE post[q]
    BY DEF MomentInv, MomentTypes, Respond
  <1>2. MomentTypes'
    BY <1>1 DEF MomentInv, MomentTypes, NoRequest
  <1>3. \A q \in Post : ~HoldsMoment(q)'
    BY <1>1 DEF MomentInv, HoldsMoment, NoRequest
  <1> QED
    BY <1>2, <1>3 DEF MomentInv

\* What happens beside the requests that hold the row.
LEMMA MomentSteps ==
  ASSUME MomentInv, MomentAssumption,
         \/ \E v \in Audience, ids \in SUBSET Viewer : CreateMoment(v, ids)
         \/ \E u \in Viewer : SetFriendship(u)
         \/ \E u \in MomentUser, c \in CommentId : DeleteMomentComment(u, c)
  PROVE  MomentInv'
  <1>1. ASSUME NEW v \in Audience, NEW ids \in SUBSET Viewer, CreateMoment(v, ids) PROVE MomentInv'
    <2>1. /\ UNCHANGED <<likes, comments, rowLock, post, told, ended>> /\ moment.status = "none"
          /\ moment'.status = "published" /\ DOMAIN moment' = {"status", "visibility", "ids"}
      BY <1>1 DEF CreateMoment
    <2> QED
      BY <2>1 DEF MomentInv, MomentTypes, HoldsMoment, NobodyMissesTheEnd
  <1>2. ASSUME NEW u \in Viewer, SetFriendship(u) PROVE MomentInv'
    BY <1>2 DEF SetFriendship, MomentInv, MomentTypes, HoldsMoment, NobodyMissesTheEnd
  <1>3. ASSUME NEW u \in MomentUser, NEW c \in CommentId, DeleteMomentComment(u, c) PROVE MomentInv'
    <2> DEFINE new == [comments[c] EXCEPT !.status = "deleted"]
    <2>1. /\ comments[c].status = "active" /\ comments' = [comments EXCEPT ![c] = new]
          /\ UNCHANGED <<moment, likes, rowLock, post, told, ended>>
      BY <1>3 DEF DeleteMomentComment
    <2>2. DOMAIN new = {"status", "by", "parent"} /\ new.status = "deleted" /\ new.by = comments[c].by
      BY DEF MomentInv, MomentTypes
    <2> HIDE DEF new
    <2>3. /\ comments' = [d \in CommentId |-> comments'[d]]
          /\ \A d \in CommentId : comments'[d] = IF d = c THEN new ELSE comments[d]
      BY <2>1 DEF MomentInv, MomentTypes
    <2>4. \A d \in CommentId : comments'[d].by = comments[d].by /\ (comments'[d].status = "none" <=> comments[d].status = "none")
      BY <2>1, <2>2, <2>3
    <2>5. NobodyMissesTheEnd'
      BY <2>1, <2>4 DEF MomentInv, NobodyMissesTheEnd
    <2> QED
      BY <2>1, <2>2, <2>3, <2>5 DEF MomentInv, MomentTypes, HoldsMoment
  <1> QED
    BY <1>1, <1>2, <1>3

\* Requests are accepted, wait for the row, and read under it.
LEMMA RequestsWait ==
  ASSUME MomentInv, MomentAssumption, NEW p \in Post,
         \/ \E u \in MomentUser, b \in BOOLEAN : AskLike(p, u, b)
         \/ \E u \in MomentUser, c \in CommentId, parent \in CommentId \union {0} : AskComment(p, u, c, parent)
         \/ LockMoment(p) \/ ReadParent(p) \/ UpdateDeleted(p)
         \/ \E s \in {"published", "hidden", "deleted"} : LockForModeration(p, s)
  PROVE  MomentInv'
  <1>0. /\ \A q \in Post : q # NoPost /\ (HoldsMoment(q) => rowLock = q /\ moment.status # "deleted")
        /\ post = [q \in Post |-> post[q]]
    BY MomentAssumption DEF MomentInv, MomentTypes
  <1>1. ASSUME NEW u \in MomentUser, NEW b \in BOOLEAN, AskLike(p, u, b) PROVE MomentInv'
    <2> DEFINE r == [kind |-> "like", step |-> "asked", by |-> u, active |-> b]
    <2>1. /\ post' = [post EXCEPT ![p] = r] /\ im_can_access_moment(u)
          /\ UNCHANGED <<moment, likes, comments, rowLock, told, ended>>
      BY <1>1 DEF AskLike, Submit
    <2>2. "kind" \in DOMAIN r /\ "step" \in DOMAIN r /\ r.kind = "like" /\ r.step = "asked"
      OBVIOUS
    <2>3. moment.status # "deleted"
      BY <2>1 DEF im_can_access_moment
    <2> HIDE DEF r
    <2> QED
      BY <2>1, <2>2, <2>3, PostMoves
  <1>2. ASSUME NEW u \in MomentUser, NEW c \in CommentId, NEW parent, AskComment(p, u, c, parent) PROVE MomentInv'
    <2> DEFINE r == [kind |-> "comment", step |-> "asked", by |-> u, id |-> c, parent |-> parent]
    <2>1. /\ post' = [post EXCEPT ![p] = r] /\ im_can_access_moment(u)
          /\ UNCHANGED <<moment, likes, comments, rowLock, told, ended>>
      BY <1>2 DEF AskComment, Submit
    <2>2. "kind" \in DOMAIN r /\ "step" \in DOMAIN r /\ r.kind = "comment" /\ r.step = "asked" /\ r.id = c
      OBVIOUS
    <2>3. moment.status # "deleted"
      BY <2>1 DEF im_can_access_moment
    <2> HIDE DEF r
    <2> QED
      BY <2>1, <2>2, <2>3, PostMoves
  <1>3. ASSUME NEW step, post[p].kind \in {"like", "comment"}
        PROVE  LET r == [post[p] EXCEPT !.step = step]
               IN  /\ "kind" \in DOMAIN r /\ "step" \in DOMAIN r
                   /\ r.step = step /\ r.kind = post[p].kind /\ (r.kind = "comment" => r.id \in CommentId)
    BY <1>3 DEF MomentInv, MomentTypes
  <1>4. ASSUME Respond(p), UNCHANGED <<moment, likes, comments, told, ended>>,
               rowLock = NoPost \/ HoldsMoment(p)
        PROVE  MomentInv'
    <2>1. NoRequest.kind = "none" /\ "kind" \in DOMAIN NoRequest
      BY DEF NoRequest
    <2>2. \A q \in Post \ {p} : ~HoldsMoment(q)
      BY <1>0, <1>4
    <2>3. rowLock' # p /\ post' = [post EXCEPT ![p] = NoRequest]
      BY <1>0, <1>4 DEF Respond
    <2> QED
      BY <1>4, <2>1, <2>2, <2>3, PostMoves
  <1>5. CASE LockMoment(p)
    <2>1. /\ post[p].kind \in {"like", "comment"} /\ rowLock = NoPost
          /\ UNCHANGED <<moment, likes, comments, told, ended>>
      BY <1>5 DEF LockMoment, RowFree
    <2>2. CASE ~StillThere(p)
      BY <1>4, <1>5, <2>1, <2>2 DEF LockMoment
    <2>3. CASE StillThere(p)
      <3>1. rowLock' = p /\ post' = [post EXCEPT ![p].step = "locked"] /\ moment.status # "deleted"
        BY <1>5, <2>3 DEF LockMoment, StillThere
      <3> DEFINE r == [post[p] EXCEPT !.step = "locked"]
      <3>2. /\ post' = [post EXCEPT ![p] = r] /\ "kind" \in DOMAIN r /\ "step" \in DOMAIN r
            /\ r.step = "locked" /\ r.kind = post[p].kind /\ (r.kind = "comment" => r.id \in CommentId)
        BY <1>3, <2>1, <3>1
      <3> HIDE DEF r
      <3>3. \A q \in Post : ~HoldsMoment(q)
        BY <1>0, <2>1
      <3>4. r.kind \in {"like", "comment"} /\ r.step \in {"locked", "parent"}
        BY <2>1, <3>2
      <3>5. \/ rowLock' = rowLock
            \/ \A q \in Post \ {p} : ~HoldsMoment(q)
        BY <3>3
      <3> QED
        BY <2>1, <3>1, <3>2, <3>4, <3>5, PostMoves
    <2> QED
      BY <2>2, <2>3
  <1>6. CASE ReadParent(p)
    <2>1. /\ post[p].kind = "comment" /\ post[p].step = "locked" /\ HoldsMoment(p)
          /\ UNCHANGED <<moment, likes, comments, told, ended>>
      BY <1>6 DEF ReadParent, HoldsMoment
    <2>2. CASE Respond(p)
      BY <1>4, <2>1, <2>2
    <2>3. CASE post' = [post EXCEPT ![p].step = "parent"] /\ UNCHANGED rowLock
      <3> DEFINE r == [post[p] EXCEPT !.step = "parent"]
      <3>1. /\ post' = [post EXCEPT ![p] = r] /\ "kind" \in DOMAIN r /\ "step" \in DOMAIN r
            /\ r.step = "parent" /\ r.kind = post[p].kind /\ (r.kind = "comment" => r.id \in CommentId)
        BY <1>3, <2>1, <2>3
      <3> HIDE DEF r
      <3>2. rowLock = p /\ moment.status # "deleted"
        BY <1>0, <2>1
      <3>3. r.kind \in {"like", "comment"} /\ r.step \in {"locked", "parent"}
        BY <2>1, <3>1
      <3> QED
        BY <2>1, <2>3, <3>1, <3>2, <3>3, PostMoves
    <2> QED
      BY <1>6, <2>2, <2>3 DEF ReadParent
  <1>7. ASSUME NEW r, Submit(p, r), rowLock' = p, RowFree(p), "kind" \in DOMAIN r, r.kind \in {"delete", "moderate"},
               moment.status # "deleted", UNCHANGED <<moment, likes, comments, told, ended>>
        PROVE  MomentInv'
    <2>1. \A q \in Post : ~HoldsMoment(q)
      BY <1>0, <1>7 DEF RowFree
    <2> QED
      BY <1>7, <2>1, PostMoves DEF Submit
  <1>8. CASE UpdateDeleted(p)
    <2> DEFINE r == [kind |-> "delete"]
    <2>1. "kind" \in DOMAIN r /\ r.kind = "delete"
      OBVIOUS
    <2>2. /\ Submit(p, r) /\ rowLock' = p /\ RowFree(p) /\ moment.status # "deleted"
          /\ UNCHANGED <<moment, likes, comments, told, ended>>
      BY <1>8 DEF UpdateDeleted
    <2> HIDE DEF r
    <2> QED
      BY <1>7, <2>1, <2>2
  <1>9. ASSUME NEW s, LockForModeration(p, s) PROVE MomentInv'
    <2> DEFINE r == [kind |-> "moderate", status |-> s]
    <2>1. "kind" \in DOMAIN r /\ r.kind = "moderate"
      OBVIOUS
    <2>2. /\ Submit(p, r) /\ rowLock' = p /\ RowFree(p) /\ moment.status # "deleted"
          /\ UNCHANGED <<moment, likes, comments, told, ended>>
      BY <1>9 DEF LockForModeration
    <2> HIDE DEF r
    <2> QED
      BY <1>7, <2>1, <2>2
  <1> QED
    BY <1>1, <1>2, <1>5, <1>6, <1>8, <1>9

\* The steps of the request that holds the row.
LEMMA HolderWrites ==
  ASSUME MomentInv, MomentAssumption, NEW p \in Post,
         SetMomentLike(p) \/ CreateMomentComment(p) \/ DeleteMoment(p) \/ ModerateMoment(p)
  PROVE  HoldsMoment(p) /\ moment.status # "deleted" /\ MomentInv'
  <1>1. HoldsMoment(p)
    BY DEF SetMomentLike, CreateMomentComment, DeleteMoment, ModerateMoment, HoldsMoment
  <1>2. /\ rowLock = p /\ moment.status # "deleted" /\ ~ended
        /\ comments = [c \in CommentId |-> comments[c]]
        /\ \A c \in CommentId : DOMAIN comments[c] = {"status", "by", "parent"}
        /\ DOMAIN moment = {"status", "visibility", "ids"}
    BY <1>1 DEF MomentInv, MomentTypes
  <1>3. CASE SetMomentLike(p)
    <2>1. Respond(p) /\ UNCHANGED <<moment, comments, ended>>
      BY <1>3 DEF SetMomentLike
    <2> QED
      BY <1>1, <1>2, <2>1, HolderResponds DEF NobodyMissesTheEnd
  <1>4. CASE CreateMomentComment(p)
    <2> DEFINE new == [status |-> "active", by |-> post[p].by, parent |-> post[p].parent]
    <2>1. Respond(p) /\ UNCHANGED <<moment, ended>> /\ comments' = [comments EXCEPT ![post[p].id] = new]
      BY <1>4 DEF CreateMomentComment
    <2>2. DOMAIN new = {"status", "by", "parent"}
      OBVIOUS
    <2> HIDE DEF new
    <2>3. /\ comments' = [c \in CommentId |-> comments'[c]]
          /\ \A c \in CommentId : DOMAIN comments'[c] = {"status", "by", "parent"}
      BY <1>2, <2>1, <2>2
    <2> QED
      BY <1>1, <1>2, <2>1, <2>3, HolderResponds DEF NobodyMissesTheEnd
  <1>5. CASE DeleteMoment(p)
    <2>1. /\ Respond(p) /\ UNCHANGED <<likes, comments>>
          /\ moment' = [moment EXCEPT !.status = "deleted"]
          /\ told' = told \union ((likes \union {comments[c].by : c \in {d \in CommentId : comments[d].status # "none"}}) \ {Author})
      BY <1>5 DEF DeleteMoment
    <2>2. moment'.status = "deleted" /\ DOMAIN moment' = {"status", "visibility", "ids"}
      BY <1>2, <2>1
    <2>3. NobodyMissesTheEnd'
      BY <2>1 DEF NobodyMissesTheEnd
    <2> QED
      BY <1>1, <1>2, <2>1, <2>2, <2>3, HolderResponds
  <1>6. CASE ModerateMoment(p)
    <2>1. /\ Respond(p) /\ UNCHANGED <<comments, ended>> /\ moment' = [moment EXCEPT !.status = post[p].status]
      BY <1>6 DEF ModerateMoment
    <2>2. DOMAIN moment' = {"status", "visibility", "ids"}
      BY <1>2, <2>1
    <2> QED
      BY <1>1, <1>2, <2>1, <2>2, HolderResponds DEF NobodyMissesTheEnd
  <1> QED
    BY <1>1, <1>2, <1>3, <1>4, <1>5, <1>6

\* When the author has deleted a moment, everybody who took part was told, nothing
\* is added afterwards and no moderator brings it back.
THEOREM TheEndIsTheEnd == MomentsSpec => EndIsTheEnd
  <1> USE MomentAssumption
  <1>1. MomentsInit => MomentInv
    BY DEF MomentsInit, MomentInv, MomentTypes, HoldsMoment, NobodyMissesTheEnd, NoRequest, NoComment
  <1>2. MomentInv /\ [MomentsNext]_momentVars => MomentInv'
    <2> SUFFICES ASSUME MomentInv, [MomentsNext]_momentVars PROVE MomentInv'
      OBVIOUS
    <2>1. CASE UNCHANGED momentVars
      BY <2>1 DEF momentVars, MomentInv, MomentTypes, HoldsMoment, NobodyMissesTheEnd
    <2> QED
      BY <2>1, MomentSteps, RequestsWait, HolderWrites DEF MomentsNext
  <1>3. MomentInv => NobodyMissesTheEnd
    BY DEF MomentInv
  <1>4. MomentInv /\ [MomentsNext]_momentVars
          => [moment.status = "deleted" =>
                /\ likes' \subseteq likes /\ reminders' = reminders
                /\ \A c \in CommentId : comments[c].status = "none" => comments'[c].status = "none"
             ]_<<moment, likes, reminders, comments>>
    <2> SUFFICES ASSUME MomentInv, [MomentsNext]_momentVars, moment.status = "deleted"
                 PROVE  /\ likes' \subseteq likes /\ reminders' = reminders
                        /\ \A c \in CommentId : comments[c].status = "none" => comments'[c].status = "none"
      OBVIOUS
    <2>1. CASE \E u \in MomentUser, c \in CommentId : DeleteMomentComment(u, c)
      <3>1. PICK u \in MomentUser, c \in CommentId : DeleteMomentComment(u, c)
        BY <2>1
      <3>2. UNCHANGED <<likes, reminders>> /\ comments[c].status = "active" /\ comments' = [comments EXCEPT ![c].status = "deleted"]
        BY <3>1 DEF DeleteMomentComment
      <3>3. \A d \in CommentId : d # c => comments'[d] = comments[d]
        BY <3>2 DEF MomentInv, MomentTypes
      <3> QED
        BY <3>2, <3>3
    <2>2. CASE UNCHANGED <<likes, reminders, comments>>
      BY <2>2
    <2> QED
      BY <2>1, <2>2, HolderWrites
         DEF MomentsNext, momentVars, CreateMoment, SetFriendship, AskLike, AskComment, LockMoment, ReadParent,
             UpdateDeleted, LockForModeration
  <1>5. MomentInv /\ [MomentsNext]_momentVars => [moment.status = "deleted" => moment'.status = "deleted"]_moment
    <2> SUFFICES ASSUME MomentInv, [MomentsNext]_momentVars, moment.status = "deleted", moment' # moment
                 PROVE  FALSE
      OBVIOUS
    <2> QED
      BY HolderWrites
         DEF MomentsNext, momentVars, CreateMoment, SetFriendship, AskLike, AskComment, LockMoment, ReadParent,
             UpdateDeleted, LockForModeration, DeleteMomentComment
  <1> QED
    BY <1>1, <1>2, <1>3, <1>4, <1>5, PTL DEF MomentsSpec, EndIsTheEnd, QuietOnceDeleted, DeletedForGood

---------------------------------------------------------------------------
(* The state in memory.  Users and numbers name each other, rooms that were   *)
(* not created are empty, and the owner of a group is out of everybody's      *)
(* reach.                                                                     *)

AccountsInv ==
    /\ phone = [u \in MemUser |-> phone[u]] /\ byPhone = [n \in Phone |-> byPhone[n]]
    /\ \A u \in MemUser : phone[u] \in Phone \cup {Blank}
    /\ \A n \in Phone : byPhone[n] \in MemUser \cup {Blank}
    /\ PhoneIndexAgrees

FriendsInv ==
    /\ asking = [r \in MemAsk |-> asking[r]]
    /\ \A r \in MemAsk : DOMAIN asking[r] = {"from", "to", "st", "due"}
    /\ \A e \in mate : e = <<e[1], e[2]>>
    /\ MutualInMemory

RoomTypes ==
    /\ rank = [c \in MemRoom |-> rank[c]] /\ \A c \in MemRoom : rank[c] = [u \in In(c) |-> rank[c][u]]
    /\ kind = [c \in MemRoom |-> kind[c]] /\ hushed = [c \in MemRoom |-> hushed[c]]
    /\ directIndex = [P \in Pairs |-> directIndex[P]] /\ \A P \in Pairs : directIndex[P] \in MemRoom \cup {Blank}

NotCreatedYet == \A c \in MemRoom : kind[c] = "none" => In(c) = {} /\ hushed[c] = {}

RoomsInv == RoomTypes /\ NotCreatedYet /\ OneOwnerInMemory /\ DirectIndexed
MemoryInv == AccountsInv /\ FriendsInv /\ RoomsInv
---------------------------------------------------------------------------
LEMMA AccountsStay ==
  ASSUME AccountsInv, UNCHANGED <<phone, byPhone>>
  PROVE  AccountsInv'
  BY DEF AccountsInv, PhoneIndexAgrees

LEMMA FriendsStay ==
  ASSUME FriendsInv, UNCHANGED friendVars
  PROVE  FriendsInv'
  BY DEF FriendsInv, MutualInMemory, friendVars

LEMMA RoomsStay ==
  ASSUME RoomsInv, UNCHANGED roomVars
  PROVE  RoomsInv'
  <1>1. \A c : In(c)' = In(c)
    BY DEF In, roomVars
  <1>2. RoomTypes'
    BY <1>1 DEF RoomsInv, RoomTypes, roomVars
  <1>3. NotCreatedYet' /\ OneOwnerInMemory'
    BY <1>1 DEF RoomsInv, NotCreatedYet, OneOwnerInMemory, Owns, roomVars
  <1>4. DirectIndexed'
    BY <1>1 DEF RoomsInv, DirectIndexed, roomVars
  <1> QED
    BY <1>2, <1>3, <1>4 DEF RoomsInv

\* Registrations, numbers and handles.
LEMMA AccountSteps ==
  ASSUME AccountsInv, MemoryStateAssumption, NEW u \in MemUser,
         \/ \E n \in Phone : MemoryRegister(u, n) \/ UpdateUserPhone(u, n)
         \/ \E h \in Handle : UpdateUserHandle(u, h)
  PROVE  AccountsInv' /\ UNCHANGED <<friendVars, roomVars>>
  <1>1. ASSUME NEW n \in Phone, MemoryRegister(u, n) PROVE AccountsInv' /\ UNCHANGED <<friendVars, roomVars>>
    <2>1. /\ phone[u] = Blank /\ byPhone[n] = Blank /\ UNCHANGED <<friendVars, roomVars>>
          /\ phone' = [phone EXCEPT ![u] = n] /\ byPhone' = [byPhone EXCEPT ![n] = u]
      BY <1>1 DEF MemoryRegister, Known
    <2>2. /\ phone' = [v \in MemUser |-> phone'[v]] /\ \A v \in MemUser : phone'[v] = IF v = u THEN n ELSE phone[v]
          /\ byPhone' = [m \in Phone |-> byPhone'[m]] /\ \A m \in Phone : byPhone'[m] = IF m = n THEN u ELSE byPhone[m]
      BY <2>1 DEF AccountsInv
    <2>3. n # Blank /\ u # Blank
      BY DEF MemoryStateAssumption
    <2>4. PhoneIndexAgrees'
      BY <2>1, <2>2, <2>3 DEF AccountsInv, PhoneIndexAgrees
    <2> QED
      BY <2>1, <2>2, <2>4 DEF AccountsInv
  <1>2. ASSUME NEW n \in Phone, UpdateUserPhone(u, n) PROVE AccountsInv' /\ UNCHANGED <<friendVars, roomVars>>
    <2>1. /\ byPhone[n] \in {Blank, u} /\ UNCHANGED <<friendVars, roomVars>>
          /\ byPhone' = MoveNumber(u, n) /\ phone' = [phone EXCEPT ![u] = n]
      BY <1>2 DEF UpdateUserPhone
    <2>2. /\ phone' = [v \in MemUser |-> phone'[v]] /\ \A v \in MemUser : phone'[v] = IF v = u THEN n ELSE phone[v]
          /\ byPhone' = [m \in Phone |-> byPhone'[m]]
          /\ \A m \in Phone : byPhone'[m] = IF m = n THEN u ELSE IF m = phone[u] THEN Blank ELSE byPhone[m]
      BY <2>1 DEF AccountsInv, MoveNumber
    <2>3. n # Blank /\ u # Blank /\ \A v \in MemUser : v # Blank
      BY DEF MemoryStateAssumption
    <2>4. PhoneIndexAgrees'
      BY <2>1, <2>2, <2>3 DEF AccountsInv, PhoneIndexAgrees
    <2> QED
      BY <2>1, <2>2, <2>4 DEF AccountsInv
  <1>3. ASSUME NEW h \in Handle, UpdateUserHandle(u, h) PROVE AccountsInv' /\ UNCHANGED <<friendVars, roomVars>>
    BY <1>3, AccountsStay DEF UpdateUserHandle
  <1> QED
    BY <1>1, <1>2, <1>3

\* Requests, answers, blocks.
LEMMA FriendSteps ==
  ASSUME FriendsInv, FriendRequests
  PROVE  /\ FriendsInv' /\ UNCHANGED <<accountVars, roomVars>>
         /\ \A r \in MemAsk : asking[r].st \notin {"none", "pending"} => asking'[r].st = asking[r].st
  <1> DEFINE Answers == \A r \in MemAsk : asking[r].st \notin {"none", "pending"} => asking'[r].st = asking[r].st
  <1>1. ASSUME NEW r \in MemAsk, NEW new, asking' = [asking EXCEPT ![r] = new],
               DOMAIN new = {"from", "to", "st", "due"}, asking[r].st \in {"none", "pending"},
               \/ UNCHANGED mate
               \/ \E u, v : mate' = mate \cup Both(u, v)
        PROVE  FriendsInv' /\ Answers
    <2>1. /\ asking' = [q \in MemAsk |-> asking'[q]]
          /\ \A q \in MemAsk : asking'[q] = IF q = r THEN new ELSE asking[q]
      BY <1>1 DEF FriendsInv
    <2>2. (\A e \in mate' : e = <<e[1], e[2]>>) /\ MutualInMemory'
      <3>1. CASE UNCHANGED mate
        BY <3>1 DEF FriendsInv, MutualInMemory
      <3>2. ASSUME NEW u, NEW v, mate' = mate \cup Both(u, v) PROVE (\A e \in mate' : e = <<e[1], e[2]>>) /\ MutualInMemory'
        BY <3>2 DEF FriendsInv, MutualInMemory, Both
      <3> QED
        BY <1>1, <3>1, <3>2
    <2> QED
      BY <1>1, <2>1, <2>2 DEF FriendsInv
  <1>2. ASSUME NEW u, NEW v, mate' = mate \ Both(u, v), UNCHANGED asking PROVE FriendsInv' /\ Answers
    <2>1. \A e \in mate' : e \in mate /\ <<e[2], e[1]>> \in mate /\ e = <<e[1], e[2]>>
      BY <1>2 DEF FriendsInv, MutualInMemory
    <2>2. \A e \in mate' : <<e[2], e[1]>> \notin Both(u, v)
      BY <1>2, <2>1 DEF Both
    <2>3. MutualInMemory'
      BY <1>2, <2>1, <2>2 DEF MutualInMemory
    <2> QED
      BY <1>2, <2>1, <2>3 DEF FriendsInv
  <1>3. ASSUME NEW r \in MemAsk, NEW s \in {"accepted", "rejected", "cancelled"}, MemoryAnswer(r, s)
        PROVE  FriendsInv' /\ Answers
    <2> DEFINE new == [asking[r] EXCEPT !.st = IF asking[r].due THEN "expired" ELSE s]
    <2>1. /\ asking[r].st = "pending" /\ asking' = [asking EXCEPT ![r] = new]
          /\ \/ UNCHANGED mate
             \/ mate' = mate \cup Both(asking[r].from, asking[r].to)
      BY <1>3 DEF MemoryAnswer, StillAsked
    <2>2. DOMAIN new = {"from", "to", "st", "due"}
      BY DEF FriendsInv
    <2> HIDE DEF new
    <2> QED
      BY <1>1, <2>1, <2>2
  <1>4. ASSUME NEW r \in MemAsk, RequestDue(r) PROVE FriendsInv' /\ Answers
    <2> DEFINE new == [asking[r] EXCEPT !.due = TRUE]
    <2>1. /\ asking[r].st = "pending" /\ asking' = [asking EXCEPT ![r] = new] /\ UNCHANGED mate
      BY <1>4 DEF RequestDue, StillAsked
    <2>2. DOMAIN new = {"from", "to", "st", "due"}
      BY DEF FriendsInv
    <2> HIDE DEF new
    <2> QED
      BY <1>1, <2>1, <2>2
  <1>5. ASSUME NEW r \in MemAsk, NEW u, NEW v, MemoryRequest(r, u, v) PROVE FriendsInv' /\ Answers
    <2> DEFINE new == [from |-> u, to |-> v, st |-> "pending", due |-> FALSE]
    <2>1. /\ asking[r].st = "none" /\ asking' = [asking EXCEPT ![r] = new] /\ UNCHANGED mate
      BY <1>5 DEF MemoryRequest
    <2>2. DOMAIN new = {"from", "to", "st", "due"}
      OBVIOUS
    <2> HIDE DEF new
    <2> QED
      BY <1>1, <2>1, <2>2
  <1>6. ASSUME NEW u, NEW v, MemoryBlock(u, v) \/ MemoryUnblock(u, v) \/ MemoryUnfriend(u, v)
        PROVE  FriendsInv' /\ Answers
    <2>1. UNCHANGED asking /\ (mate' = mate \ Both(u, v) \/ mate' = mate)
      BY <1>6 DEF MemoryBlock, MemoryUnblock, MemoryUnfriend, BothSides
    <2>2. CASE mate' = mate
      BY <2>1, <2>2 DEF FriendsInv, MutualInMemory
    <2> QED
      BY <1>2, <2>1, <2>2
  <1>7. UNCHANGED <<accountVars, roomVars>>
    BY DEF FriendRequests, MemoryAnswer, RequestDue, MemoryRequest, MemoryBlock, MemoryUnblock, MemoryUnfriend
  <1> QED
    BY <1>3, <1>4, <1>5, <1>6, <1>7 DEF FriendRequests

\* One room gets members f and muted h; its owner keeps both places.
LEMMA RoomChanges ==
  ASSUME RoomsInv, NEW c \in MemRoom, NEW f, NEW h,
         rank' = [rank EXCEPT ![c] = f], hushed' = [hushed EXCEPT ![c] = h], UNCHANGED <<kind, directIndex>>,
         f = [u \in DOMAIN f |-> f[u]], In(c) # {},
         kind[c] = "direct" => DOMAIN f \subseteq In(c),
         \A u : Owns(c, u) <=> u \in DOMAIN f /\ f[u] = "owner",
         \A u : Owns(c, u) /\ u \in h => u \in hushed[c]
  PROVE  RoomsInv'
  <1>1. /\ rank' = [d \in MemRoom |-> rank'[d]] /\ hushed' = [d \in MemRoom |-> hushed'[d]]
        /\ rank'[c] = f /\ hushed'[c] = h
        /\ \A d \in MemRoom : d # c => rank'[d] = rank[d] /\ hushed'[d] = hushed[d]
    BY DEF RoomsInv, RoomTypes
  <1>2. In(c)' = DOMAIN f /\ \A d \in MemRoom : d # c => In(d)' = In(d)
    BY <1>1 DEF In
  <1>3. RoomTypes'
    BY <1>1, <1>2 DEF RoomsInv, RoomTypes
  <1>4. kind[c] # "none" /\ NotCreatedYet'
    BY <1>1, <1>2 DEF RoomsInv, NotCreatedYet
  <1>5. OneOwnerInMemory'
    <2> SUFFICES ASSUME NEW d \in MemRoom, kind[d] = "group"
                 PROVE  \E u \in In(d)' : Owns(d, u)' /\ u \notin hushed'[d] /\ \A v \in In(d)' \ {u} : ~Owns(d, v)'
      BY DEF OneOwnerInMemory
    <2>1. PICK u \in In(d) : Owns(d, u) /\ u \notin hushed[d] /\ \A v \in In(d) \ {u} : ~Owns(d, v)
      BY DEF RoomsInv, OneOwnerInMemory
    <2>2. CASE d = c
      <3>1. \A v : Owns(c, v)' <=> Owns(c, v)
        BY <1>1, <1>2 DEF Owns
      <3>2. u \in In(c)' /\ u \notin hushed'[c]
        BY <1>1, <1>2, <2>1, <2>2
      <3>3. \A v : Owns(c, v) => v \in In(c)
        BY DEF Owns
      <3> QED
        BY <2>1, <2>2, <3>1, <3>2, <3>3
    <2>3. CASE d # c
      BY <1>1, <1>2, <2>1, <2>3 DEF Owns
    <2> QED
      BY <2>2, <2>3
  <1>6. DirectIndexed'
    <2>1. \A d \in MemRoom : kind[d] = "direct" => In(d)' \subseteq In(d)
      BY <1>2
    <2>2. \A P \in Pairs : directIndex[P] \in MemRoom \cup {Blank}
      BY DEF RoomsInv, RoomTypes
    <2> QED
      BY <2>1, <2>2 DEF RoomsInv, DirectIndexed
  <1> QED
    BY <1>3, <1>4, <1>5, <1>6 DEF RoomsInv

\* Members leave, are removed, promoted and muted; the owner is not among them.
LEMMA MembersChange ==
  ASSUME RoomsInv, NEW c \in MemRoom, NEW v,
         \/ Expel(c, v)
         \/ \E r \in {"member", "admin"} : Promote(c, v, r)
         \/ \E on \in BOOLEAN : Silence(c, v, on)
  PROVE  RoomsInv'
  <1>0. /\ v \in In(c) /\ ~Owns(c, v) /\ UNCHANGED <<kind, directIndex>>
        /\ rank[c] = [u \in In(c) |-> rank[c][u]] /\ In(c) = DOMAIN rank[c]
        /\ rank = [d \in MemRoom |-> rank[d]] /\ hushed = [d \in MemRoom |-> hushed[d]]
    BY DEF Expel, Promote, Silence, Untouchable, RoomsInv, RoomTypes, In
  <1>1. CASE Expel(c, v)
    <2> DEFINE f == Kept(c, In(c) \ {v})
               h == hushed[c] \ {v}
    <2>1. rank' = [rank EXCEPT ![c] = f] /\ hushed' = [hushed EXCEPT ![c] = h]
      BY <1>1 DEF Expel
    <2>2. DOMAIN f = In(c) \ {v} /\ f = [u \in DOMAIN f |-> f[u]] /\ \A u \in DOMAIN f : f[u] = rank[c][u]
      BY DEF Kept
    <2>3. \A u : Owns(c, u) /\ u \in h => u \in hushed[c]
      OBVIOUS
    <2> HIDE DEF f, h
    <2>4. \A u : Owns(c, u) <=> u \in DOMAIN f /\ f[u] = "owner"
      BY <1>0, <2>2 DEF Owns
    <2>5. In(c) # {} /\ DOMAIN f \subseteq In(c)
      BY <1>0, <2>2
    <2> QED
      BY <1>0, <2>1, <2>2, <2>3, <2>4, <2>5, RoomChanges
  <1>2. ASSUME NEW r \in {"member", "admin"}, Promote(c, v, r) PROVE RoomsInv'
    <2> DEFINE f == [rank[c] EXCEPT ![v] = r]
               h == hushed[c]
    <2>1. rank' = [rank EXCEPT ![c] = f] /\ hushed' = [hushed EXCEPT ![c] = h]
      BY <1>0, <1>2 DEF Promote
    <2>2. /\ DOMAIN f = In(c) /\ f = [u \in DOMAIN f |-> f[u]] /\ f[v] = r
          /\ \A u \in In(c) : u # v => f[u] = rank[c][u]
      BY <1>0
    <2>3. \A u : Owns(c, u) /\ u \in h => u \in hushed[c]
      OBVIOUS
    <2> HIDE DEF f, h
    <2>4. \A u : Owns(c, u) <=> u \in DOMAIN f /\ f[u] = "owner"
      BY <1>0, <2>2 DEF Owns
    <2>5. In(c) # {} /\ DOMAIN f \subseteq In(c)
      BY <1>0, <2>2
    <2> QED
      BY <1>0, <2>1, <2>2, <2>3, <2>4, <2>5, RoomChanges
  <1>3. ASSUME NEW on \in BOOLEAN, Silence(c, v, on) PROVE RoomsInv'
    <2> DEFINE f == rank[c]
               h == IF on THEN hushed[c] \cup {v} ELSE hushed[c] \ {v}
    <2>1. rank' = [rank EXCEPT ![c] = f] /\ hushed' = [hushed EXCEPT ![c] = h]
      BY <1>0, <1>3 DEF Silence
    <2>2. \A u : Owns(c, u) /\ u \in h => u \in hushed[c]
      BY <1>0
    <2>3. \A u : Owns(c, u) <=> u \in DOMAIN f /\ f[u] = "owner"
      BY DEF Owns, In
    <2>4. f = [u \in DOMAIN f |-> f[u]] /\ DOMAIN f = In(c)
      BY <1>0
    <2> HIDE DEF f, h
    <2>5. In(c) # {} /\ DOMAIN f \subseteq In(c)
      BY <1>0, <2>4
    <2> QED
      BY <1>0, <2>1, <2>2, <2>3, <2>4, <2>5, RoomChanges
  <1> QED
    BY <1>1, <1>2, <1>3

\* A pair has two members.
LEMMA PairOfTwo ==
  ASSUME NEW u \in MemUser, NEW v \in MemUser, u # v
  PROVE  {u, v} \in Pairs
  <1>1. IsFiniteSet({u}) /\ Cardinality({u}) = 1
    BY FS_Singleton
  <1>2. Cardinality({u} \cup {v}) = 2
    BY <1>1, FS_AddElement
  <1>3. {u} \cup {v} = {u, v}
    OBVIOUS
  <1> QED
    BY <1>2, <1>3 DEF Pairs

\* At most one pair gets a new entry: the room c, of kind k and with members S.
IndexGains(c, k, S) ==
    \A P \in Pairs : \/ directIndex'[P] = directIndex[P]
                     \/ /\ directIndex'[P] = c /\ k = "direct" /\ S \subseteq P
                        /\ \A Q \in Pairs \ {P} : directIndex'[Q] = directIndex[Q]

\* Rooms are created and disbanded.
LEMMA RoomsComeAndGo ==
  ASSUME RoomsInv, MemoryStateAssumption, NEW c \in MemRoom, NEW u \in MemUser,
         \/ MemoryDisband(c)
         \/ \E S \in SUBSET MemUser : MemoryCreateGroup(u, S, c)
         \/ \E v \in MemUser : DirectConversation(u, v, c)
  PROVE  RoomsInv'
  <1>0. /\ kind = [d \in MemRoom |-> kind[d]] /\ rank = [d \in MemRoom |-> rank[d]]
        /\ hushed = [d \in MemRoom |-> hushed[d]] /\ directIndex = [P \in Pairs |-> directIndex[P]]
        /\ \A d \in MemRoom : rank[d] = [x \in In(d) |-> rank[d][x]]
        /\ c # Blank /\ \A P \in Pairs : directIndex[P] \in MemRoom \cup {Blank}
    BY DEF RoomsInv, RoomTypes, MemoryStateAssumption
  <1>1. ASSUME NEW k, NEW f, k # "none", kind[c] # "direct", f = [x \in DOMAIN f |-> f[x]],
               kind' = [kind EXCEPT ![c] = k], rank' = [rank EXCEPT ![c] = f],
               hushed' = [d \in MemRoom |-> hushed'[d]],
               \A d \in MemRoom : d # c => hushed'[d] = hushed[d],
               directIndex' = [P \in Pairs |-> directIndex'[P]],
               k = "group" => \E x \in DOMAIN f : f[x] = "owner" /\ x \notin hushed'[c]
                                                  /\ \A y \in DOMAIN f \ {x} : f[y] # "owner",
               IndexGains(c, k, DOMAIN f)
        PROVE  RoomsInv'
    <2>1. /\ rank' = [d \in MemRoom |-> rank'[d]] /\ kind' = [d \in MemRoom |-> kind'[d]]
          /\ rank'[c] = f /\ kind'[c] = k
          /\ \A d \in MemRoom : d # c => rank'[d] = rank[d] /\ kind'[d] = kind[d]
      BY <1>0, <1>1
    <2>2. In(c)' = DOMAIN f /\ \A d \in MemRoom : d # c => In(d)' = In(d)
      BY <2>1 DEF In
    <2>3. RoomTypes'
      <3>1. \A P \in Pairs : directIndex'[P] \in MemRoom \cup {Blank}
        BY <1>0, <1>1 DEF IndexGains
      <3>2. \A d \in MemRoom : rank'[d] = [x \in In(d)' |-> rank'[d][x]]
        <4>1. rank'[c] = [x \in In(c)' |-> rank'[c][x]]
          BY <1>1, <2>1, <2>2
        <4>2. ASSUME NEW d \in MemRoom, d # c PROVE rank'[d] = [x \in In(d)' |-> rank'[d][x]]
          BY <1>0, <2>1, <2>2, <4>2
        <4> QED
          BY <4>1, <4>2
      <3> QED
        BY <1>1, <2>1, <3>1, <3>2 DEF RoomTypes
    <2>4. NotCreatedYet'
      BY <1>1, <2>1, <2>2 DEF RoomsInv, NotCreatedYet
    <2>5. OneOwnerInMemory'
      <3> SUFFICES ASSUME NEW d \in MemRoom, kind'[d] = "group"
                   PROVE  \E x \in In(d)' : Owns(d, x)' /\ x \notin hushed'[d] /\ \A y \in In(d)' \ {x} : ~Owns(d, y)'
        BY DEF OneOwnerInMemory
      <3>1. CASE d = c
        BY <1>1, <2>1, <2>2, <3>1 DEF Owns
      <3>2. CASE d # c
        <4>1. PICK x \in In(d) : Owns(d, x) /\ x \notin hushed[d] /\ \A y \in In(d) \ {x} : ~Owns(d, y)
          BY <2>1, <3>2 DEF RoomsInv, OneOwnerInMemory
        <4> QED
          BY <1>1, <2>1, <2>2, <3>2, <4>1 DEF Owns
      <3> QED
        BY <3>1, <3>2
    <2>6. DirectIndexed'
      <3> SUFFICES ASSUME NEW P \in Pairs, directIndex'[P] # Blank
                   PROVE  /\ kind'[directIndex'[P]] = "direct" /\ DOMAIN rank'[directIndex'[P]] \subseteq P
                          /\ \A Q \in Pairs \ {P} : directIndex'[Q] # directIndex'[P]
        BY DEF DirectIndexed, In
      <3>1. \A Q \in Pairs : directIndex[Q] # c
        <4>1. kind[c] # "direct" /\ c # Blank
          BY <1>0, <1>1
        <4> QED
          BY <4>1 DEF RoomsInv, DirectIndexed
      <3>2. CASE directIndex'[P] # directIndex[P]
        <4>1. /\ directIndex'[P] = c /\ k = "direct" /\ DOMAIN f \subseteq P
              /\ \A Q \in Pairs \ {P} : directIndex'[Q] = directIndex[Q]
          BY <1>1, <3>2 DEF IndexGains
        <4> QED
          BY <2>1, <2>2, <3>1, <4>1
      <3>3. CASE directIndex'[P] = directIndex[P]
        <4>1. /\ kind[directIndex[P]] = "direct" /\ DOMAIN rank[directIndex[P]] \subseteq P
              /\ \A Q \in Pairs \ {P} : directIndex[Q] # directIndex[P]
              /\ directIndex[P] \in MemRoom /\ directIndex[P] # c
          BY <1>0, <3>1, <3>3 DEF RoomsInv, DirectIndexed, In
        <4>2. \A Q \in Pairs \ {P} : directIndex'[Q] # directIndex'[P]
          BY <1>1, <3>3, <4>1 DEF IndexGains
        <4> QED
          BY <2>1, <2>2, <3>3, <4>1, <4>2
      <3> QED
        BY <3>2, <3>3
    <2> QED
      BY <2>3, <2>4, <2>5, <2>6 DEF RoomsInv
  <1>2. CASE MemoryDisband(c)
    <2> DEFINE f == <<>>
               h == {}
    <2>1. /\ kind[c] = "group" /\ kind' = [kind EXCEPT ![c] = "gone"] /\ rank' = [rank EXCEPT ![c] = f]
          /\ hushed' = [hushed EXCEPT ![c] = h] /\ UNCHANGED directIndex
      BY <1>2 DEF MemoryDisband, IsGroupRoom
    <2>2. f = [x \in DOMAIN f |-> f[x]]
      OBVIOUS
    <2> HIDE DEF f, h
    <2>3. hushed' = [d \in MemRoom |-> hushed'[d]] /\ \A d \in MemRoom : d # c => hushed'[d] = hushed[d]
      BY <1>0, <2>1
    <2>4. \A k, Q : IndexGains(c, k, Q)
      BY <2>1 DEF IndexGains
    <2> QED
      BY <1>0, <1>1, <2>1, <2>2, <2>3, <2>4
  <1>3. ASSUME NEW S \in SUBSET MemUser, MemoryCreateGroup(u, S, c) PROVE RoomsInv'
    <2> DEFINE f == [x \in {u} \union {v \in S : Known(v)} |-> IF x = u THEN "owner" ELSE "member"]
    <2>1. /\ kind[c] = "none" /\ kind' = [kind EXCEPT ![c] = "group"] /\ rank' = [rank EXCEPT ![c] = f]
          /\ UNCHANGED <<hushed, directIndex>>
      BY <1>3 DEF MemoryCreateGroup
    <2>2. /\ f = [x \in DOMAIN f |-> f[x]] /\ u \in DOMAIN f /\ f[u] = "owner"
          /\ \A y \in DOMAIN f \ {u} : f[y] # "owner"
      OBVIOUS
    <2>3. hushed[c] = {}
      BY <2>1 DEF RoomsInv, NotCreatedYet
    <2> HIDE DEF f
    <2>4. \A k, Q : IndexGains(c, k, Q)
      BY <2>1 DEF IndexGains
    <2> QED
      BY <1>0, <1>1, <2>1, <2>2, <2>3, <2>4
  <1>4. ASSUME NEW v \in MemUser, DirectConversation(u, v, c) PROVE RoomsInv'
    <2> DEFINE f == [x \in {u, v} |-> "member"]
               k == "direct"
    <2>1. /\ kind[c] = "none" /\ kind' = [kind EXCEPT ![c] = k] /\ rank' = [rank EXCEPT ![c] = f]
          /\ directIndex' = [directIndex EXCEPT ![{u, v}] = c] /\ u # v /\ UNCHANGED hushed
      BY <1>4 DEF DirectConversation
    <2>2. f = [x \in DOMAIN f |-> f[x]] /\ DOMAIN f = {u, v}
      OBVIOUS
    <2> HIDE DEF f
    <2>3. {u, v} \in Pairs
      BY <2>1, PairOfTwo
    <2>4. /\ directIndex' = [P \in Pairs |-> directIndex'[P]]
          /\ \A P \in Pairs : directIndex'[P] = IF P = {u, v} THEN c ELSE directIndex[P]
      BY <1>0, <2>1, <2>3
    <2>6. /\ hushed' = [d \in MemRoom |-> hushed'[d]] /\ \A d \in MemRoom : d # c => hushed'[d] = hushed[d]
          /\ k # "none" /\ kind[c] # "direct" /\ k # "group" /\ k = "direct"
      BY <1>0, <2>1
    <2> HIDE DEF k
    <2>7. IndexGains(c, k, DOMAIN f)
      BY <2>2, <2>4, <2>6 DEF IndexGains
    <2>8. /\ k # "none" /\ kind[c] # "direct" /\ f = [x \in DOMAIN f |-> f[x]]
          /\ kind' = [kind EXCEPT ![c] = k] /\ rank' = [rank EXCEPT ![c] = f]
          /\ directIndex' = [P \in Pairs |-> directIndex'[P]]
          /\ k = "group" => \E x \in DOMAIN f : f[x] = "owner" /\ x \notin hushed'[c]
                                                /\ \A y \in DOMAIN f \ {x} : f[y] # "owner"
      BY <2>1, <2>2, <2>4, <2>6
    <2> QED
      BY <1>1, <2>6, <2>7, <2>8
  <1> QED
    BY <1>2, <1>3, <1>4

LEMMA GroupGrows ==
  ASSUME RoomsInv, NEW c \in MemRoom, NEW u, NEW S, MemoryAddMembers(u, c, S)
  PROVE  RoomsInv'
  <1> DEFINE new == {v \in S : Known(v)}
             f == Joining(c, new)
             h == hushed[c]
  <1>1. /\ kind[c] = "group" /\ In(c) # {} /\ rank' = [rank EXCEPT ![c] = f] /\ UNCHANGED <<kind, directIndex, hushed>>
    BY DEF MemoryAddMembers, MayManage
  <1>2. hushed' = [hushed EXCEPT ![c] = h]
    BY <1>1 DEF RoomsInv, RoomTypes
  <1>3. DOMAIN f = In(c) \cup new /\ f = [x \in DOMAIN f |-> f[x]]
        /\ \A x \in DOMAIN f : f[x] = IF x \in In(c) THEN rank[c][x] ELSE "member"
    BY DEF Joining
  <1>4. \A x : Owns(c, x) /\ x \in h => x \in hushed[c]
    OBVIOUS
  <1> HIDE DEF f, h, new
  <1>5. \A x : Owns(c, x) <=> x \in DOMAIN f /\ f[x] = "owner"
    BY <1>3 DEF Owns
  <1>6. kind[c] = "direct" => DOMAIN f \subseteq In(c)
    BY <1>1
  <1> QED
    BY <1>1, <1>2, <1>3, <1>4, <1>5, <1>6, RoomChanges

LEMMA RoomSteps ==
  ASSUME RoomsInv, MemoryStateAssumption, RoomRequests
  PROVE  RoomsInv' /\ UNCHANGED <<accountVars, friendVars>>
  <1>2. PICK c \in MemRoom, u \in MemUser :
          \/ MemoryDisband(c)
          \/ AdminModerateGroupMember(c, u)
          \/ \E S \in SUBSET MemUser : Known(u) /\ (MemoryCreateGroup(u, S, c) \/ MemoryAddMembers(u, c, S))
          \/ \E v \in MemUser : (Known(u) /\ DirectConversation(u, v, c)) \/ MemoryRemoveMember(u, c, v)
          \/ \E v \in MemUser, r \in {"member", "admin"} : MemorySetRole(u, c, v, r)
          \/ \E v \in MemUser, on \in BOOLEAN : MemoryMute(u, c, v, on)
    BY DEF RoomRequests
  <1>0. \A v : /\ Expel(c, v) => UNCHANGED <<accountVars, friendVars>>
               /\ \A r : Promote(c, v, r) => UNCHANGED <<accountVars, friendVars>>
               /\ \A on : Silence(c, v, on) => UNCHANGED <<accountVars, friendVars>>
    BY DEF Expel, Promote, Silence
  <1>1. UNCHANGED <<accountVars, friendVars>>
    <2>1. CASE MemoryDisband(c)
      BY <2>1 DEF MemoryDisband
    <2>2. CASE AdminModerateGroupMember(c, u)
      BY <1>0, <2>2 DEF AdminModerateGroupMember
    <2>3. CASE \E S \in SUBSET MemUser : MemoryCreateGroup(u, S, c) \/ MemoryAddMembers(u, c, S)
      BY <2>3 DEF MemoryCreateGroup, MemoryAddMembers
    <2>4. CASE \E v \in MemUser : DirectConversation(u, v, c)
      BY <2>4 DEF DirectConversation
    <2>5. CASE \E v \in MemUser : MemoryRemoveMember(u, c, v)
      BY <1>0, <2>5 DEF MemoryRemoveMember
    <2>6. CASE \E v \in MemUser, r \in {"member", "admin"} : MemorySetRole(u, c, v, r)
      BY <1>0, <2>6 DEF MemorySetRole
    <2>7. CASE \E v \in MemUser, on \in BOOLEAN : MemoryMute(u, c, v, on)
      BY <1>0, <2>7 DEF MemoryMute
    <2> QED
      BY <1>2, <2>1, <2>2, <2>3, <2>4, <2>5, <2>6, <2>7
  <1>3. CASE \/ MemoryDisband(c)
             \/ \E S \in SUBSET MemUser : MemoryCreateGroup(u, S, c)
             \/ \E v \in MemUser : DirectConversation(u, v, c)
    BY <1>1, <1>3, RoomsComeAndGo
  <1>4. CASE \E S \in SUBSET MemUser : MemoryAddMembers(u, c, S)
    BY <1>1, <1>4, GroupGrows
  <1>5. CASE \E v \in MemUser : \/ Expel(c, v)
                                \/ \E r \in {"member", "admin"} : Promote(c, v, r)
                                \/ \E on \in BOOLEAN : Silence(c, v, on)
    BY <1>1, <1>5, MembersChange
  <1>6. ASSUME \/ AdminModerateGroupMember(c, u)
               \/ \E v \in MemUser : MemoryRemoveMember(u, c, v)
               \/ \E v \in MemUser, r \in {"member", "admin"} : MemorySetRole(u, c, v, r)
               \/ \E v \in MemUser, on \in BOOLEAN : MemoryMute(u, c, v, on)
        PROVE  \E v \in MemUser : \/ Expel(c, v)
                                  \/ \E r \in {"member", "admin"} : Promote(c, v, r)
                                  \/ \E on \in BOOLEAN : Silence(c, v, on)
    BY <1>6 DEF AdminModerateGroupMember, MemoryRemoveMember, MemorySetRole, MemoryMute
  <1> QED
    BY <1>2, <1>3, <1>4, <1>5, <1>6

\* A deleted account leaves every room, and groups only as somebody else's.
LEMMA AccountDeleted ==
  ASSUME MemoryInv, MemoryStateAssumption, NEW u \in MemUser, MemoryDeleteAccount(u)
  PROVE  /\ MemoryInv'
         /\ \A r \in MemAsk : asking[r].st \notin {"none", "pending"} => asking'[r].st = asking[r].st
  <1>1. AccountsInv'
    <2>1. /\ phone' = [phone EXCEPT ![u] = Blank]
          /\ byPhone' = [n \in Phone |-> IF n = phone[u] THEN Blank ELSE byPhone[n]]
      BY DEF MemoryDeleteAccount
    <2>2. /\ phone' = [v \in MemUser |-> phone'[v]] /\ \A v \in MemUser : phone'[v] = IF v = u THEN Blank ELSE phone[v]
          /\ byPhone' = [n \in Phone |-> byPhone'[n]]
          /\ \A n \in Phone : byPhone'[n] = IF n = phone[u] THEN Blank ELSE byPhone[n]
      BY <2>1 DEF MemoryInv, AccountsInv
    <2>3. (\A n \in Phone : n # Blank) /\ \A v \in MemUser : v # Blank
      BY DEF MemoryStateAssumption
    <2>4. PhoneIndexAgrees'
      BY <2>2, <2>3 DEF MemoryInv, AccountsInv, PhoneIndexAgrees
    <2> QED
      BY <2>2, <2>4 DEF MemoryInv, AccountsInv
  <1>2. FriendsInv' /\ \A r \in MemAsk : asking[r].st \notin {"none", "pending"} => asking'[r].st = asking[r].st
    <2>1. mate' = WithoutUser(mate, u)
      BY DEF MemoryDeleteAccount
    <2>2. (\A e \in mate' : e = <<e[1], e[2]>>) /\ MutualInMemory'
      BY <2>1 DEF MemoryInv, FriendsInv, MutualInMemory, WithoutUser
    <2>3. /\ asking' = [r \in MemAsk |-> asking'[r]]
          /\ \A r \in MemAsk : \/ asking'[r] = asking[r]
                               \/ asking[r].st = "pending" /\ asking'[r] = [asking[r] EXCEPT !.st = "cancelled"]
      BY DEF MemoryDeleteAccount, StillAsked
    <2>4. \A r \in MemAsk : DOMAIN asking'[r] = {"from", "to", "st", "due"}
      BY <2>3 DEF MemoryInv, FriendsInv
    <2> QED
      BY <2>2, <2>3, <2>4 DEF FriendsInv
  <1>3. RoomsInv'
    <2>1. /\ rank' = [c \in MemRoom |-> Kept(c, In(c) \ {u})] /\ hushed' = [c \in MemRoom |-> hushed[c] \ {u}]
          /\ UNCHANGED <<kind, directIndex>> /\ \A c \in MemRoom : kind[c] = "group" => ~Owns(c, u)
      BY DEF MemoryDeleteAccount
    <2>2. ASSUME NEW c \in MemRoom
          PROVE  /\ In(c)' = In(c) \ {u} /\ rank'[c] = [x \in In(c)' |-> rank'[c][x]]
                 /\ \A x \in In(c)' : rank'[c][x] = rank[c][x]
                 /\ hushed'[c] = hushed[c] \ {u}
      BY <2>1 DEF In, Kept
    <2>3. RoomTypes'
      BY <2>1, <2>2 DEF MemoryInv, RoomsInv, RoomTypes
    <2>4. NotCreatedYet'
      BY <2>1, <2>2 DEF MemoryInv, RoomsInv, NotCreatedYet
    <2>5. OneOwnerInMemory'
      <3> SUFFICES ASSUME NEW c \in MemRoom, kind[c] = "group"
                   PROVE  \E x \in In(c)' : Owns(c, x)' /\ x \notin hushed'[c] /\ \A y \in In(c)' \ {x} : ~Owns(c, y)'
        BY <2>1 DEF OneOwnerInMemory
      <3>1. PICK x \in In(c) : Owns(c, x) /\ x \notin hushed[c] /\ \A y \in In(c) \ {x} : ~Owns(c, y)
        BY DEF MemoryInv, RoomsInv, OneOwnerInMemory
      <3>2. x # u
        BY <2>1, <3>1
      <3> QED
        BY <2>2, <3>1, <3>2 DEF Owns
    <2>6. DirectIndexed'
      <3>1. /\ \A P \in Pairs : directIndex[P] \in MemRoom \union {Blank} /\ directIndex'[P] = directIndex[P]
            /\ kind' = kind
        BY <2>1 DEF MemoryInv, RoomsInv, RoomTypes
      <3>2. \A c \in MemRoom : DOMAIN rank'[c] \subseteq DOMAIN rank[c]
        BY <2>2 DEF In
      <3> SUFFICES ASSUME NEW P \in Pairs, directIndex[P] # Blank
                   PROVE  /\ kind[directIndex[P]] = "direct" /\ DOMAIN rank'[directIndex[P]] \subseteq P
                          /\ \A Q \in Pairs \ {P} : directIndex[Q] # directIndex[P]
        BY <3>1 DEF DirectIndexed, In
      <3>3. /\ kind[directIndex[P]] = "direct" /\ DOMAIN rank[directIndex[P]] \subseteq P
            /\ \A Q \in Pairs \ {P} : directIndex[Q] # directIndex[P]
        BY DEF MemoryInv, RoomsInv, DirectIndexed, In
      <3> QED
        BY <3>1, <3>2, <3>3
    <2> QED
      BY <2>3, <2>4, <2>5, <2>6 DEF RoomsInv
  <1> QED
    BY <1>1, <1>2, <1>3 DEF MemoryInv

\* Any sequence of requests keeps the maps of the state in memory in agreement.
THEOREM MemoryIsKept == MemoryStateSpec => MemoryKept
  <1> USE MemoryStateAssumption
  <1>1. MemoryStateInit => MemoryInv
    <2> SUFFICES ASSUME MemoryStateInit PROVE MemoryInv
      OBVIOUS
    <2>1. AccountsInv
      BY DEF MemoryStateInit, MemoryStateAssumption, AccountsInv, PhoneIndexAgrees
    <2>2. FriendsInv
      BY DEF MemoryStateInit, FriendsInv, MutualInMemory, Unasked
    <2>3. \A c \in MemRoom : In(c) = {}
      BY DEF MemoryStateInit, In
    <2>4. RoomTypes /\ NotCreatedYet
      BY <2>3 DEF MemoryStateInit, RoomTypes, NotCreatedYet
    <2>5. OneOwnerInMemory /\ DirectIndexed
      <3>1. (\A c \in MemRoom : kind[c] = "none") /\ \A P \in Pairs : directIndex[P] = Blank
        BY DEF MemoryStateInit
      <3> QED
        BY <3>1 DEF OneOwnerInMemory, DirectIndexed
    <2> QED
      BY <2>1, <2>2, <2>4, <2>5 DEF MemoryInv, RoomsInv
  <1>2. MemoryInv /\ [MemoryStateNext]_memStateVars
          => /\ MemoryInv'
             /\ \A r \in MemAsk : asking[r].st \notin {"none", "pending"} => asking'[r].st = asking[r].st
    <2> SUFFICES ASSUME MemoryInv, [MemoryStateNext]_memStateVars
                 PROVE  /\ MemoryInv'
                        /\ \A r \in MemAsk : asking[r].st \notin {"none", "pending"} => asking'[r].st = asking[r].st
      OBVIOUS
    <2>0. /\ UNCHANGED accountVars => UNCHANGED <<phone, byPhone>>
          /\ UNCHANGED friendVars => UNCHANGED asking
      BY DEF accountVars, friendVars
    <2>1. CASE UNCHANGED memStateVars
      BY <2>0, <2>1, AccountsStay, FriendsStay, RoomsStay DEF memStateVars, MemoryInv
    <2>2. CASE FriendRequests
      BY <2>0, <2>2, FriendSteps, AccountsStay, RoomsStay DEF MemoryInv
    <2>3. CASE RoomRequests
      BY <2>0, <2>3, RoomSteps, AccountsStay, FriendsStay DEF MemoryInv
    <2>4. CASE AccountRequests
      <3>1. PICK u \in MemUser : \/ \E n \in Phone : MemoryRegister(u, n) \/ UpdateUserPhone(u, n)
                                 \/ \E h \in Handle : UpdateUserHandle(u, h)
                                 \/ MemoryDeleteAccount(u)
        BY <2>4 DEF AccountRequests
      <3>2. CASE MemoryDeleteAccount(u)
        BY <3>2, AccountDeleted
      <3>3. CASE \/ \E n \in Phone : MemoryRegister(u, n) \/ UpdateUserPhone(u, n)
                 \/ \E h \in Handle : UpdateUserHandle(u, h)
        BY <2>0, <3>3, AccountSteps, FriendsStay, RoomsStay DEF MemoryInv
      <3> QED
        BY <3>1, <3>2, <3>3
    <2> QED
      BY <2>1, <2>2, <2>3, <2>4 DEF MemoryStateNext
  <1>3. MemoryInv => PhoneIndexAgrees /\ MutualInMemory /\ OneOwnerInMemory /\ DirectIndexed
    BY DEF MemoryInv, AccountsInv, FriendsInv, RoomsInv
  <1>4. MemoryInv /\ [MemoryStateNext]_memStateVars
          => [\A r \in MemAsk : asking[r].st \notin {"none", "pending"} => asking'[r].st = asking[r].st]_memStateVars
    BY <1>2
  <1> QED
    BY <1>1, <1>2, <1>3, <1>4, PTL DEF MemoryStateSpec, MemoryKept, AnsweredForGood

(***************************************************************************)
(* Friend requests, friendships and blocks (FriendGraph).                  *)
(*                                                                         *)
(* That there is one open request between two users rests on what the      *)
(* transactions hold: a row that is locked is pending and stays so         *)
(* (LocksHold), one transaction at a time creates for a pair (OneCreator), *)
(* and the one that is about to insert has locked every open request it    *)
(* does not leave behind (InsertClear).                                    *)
(***************************************************************************)
LocksHold ==
    /\ \A p \in Tx : \A r \in tx[p].rows : answer[r] = "pending"
    /\ \A p, q \in Tx : tx[p].rows \intersect tx[q].rows # {} => p = q

Creating(p) == tx[p].kind \in {"create", "insert"}
OneCreator ==
    \A p, q \in Tx :
        /\ Creating(p) /\ Creating(q)
        /\ <<tx[p].user, tx[p].target>> \in Pair(tx[q].user, tx[q].target)
        => p = q

InsertClear ==
    \A p \in Tx : tx[p].kind = "insert" =>
        Pending(tx[p].user, tx[p].target) \subseteq tx[p].rows

\* The work of a transaction fits its kind.
WorkFits ==
    \A p \in Tx :
        /\ tx[p].kind = "idle" <=> tx[p] = NoTx
        /\ tx[p].kind # "idle" => tx[p].user \in User /\ tx[p].target \in User
        /\ tx[p].kind \in {"create", "block"} => tx[p].rows = {}
        /\ \A e \in tx[p].doomed : <<e[2], e[1]>> \in tx[p].doomed

\* Who asks whom in an open request.
Named == \A r \in Request : answer[r] = "pending" => from[r] \in User /\ to[r] \in User

\* The inductive invariant.
FriendInv ==
    /\ FriendTypeOK
    /\ LocksHold
    /\ OneCreator
    /\ InsertClear
    /\ WorkFits
    /\ Named
    /\ OnePending
    /\ Mutual
---------------------------------------------------------------------------
LEMMA PairSymmetric ==
  ASSUME NEW u, NEW v
  PROVE  Pair(u, v) = Pair(v, u)
  BY DEF Pair

LEMMA InitInv == FriendInit => FriendInv
  <1> SUFFICES ASSUME FriendInit PROVE FriendInv
    OBVIOUS
  <1>1. FriendTypeOK
    BY DEF FriendInit, FriendTypeOK, AnswerStatus, Work, NoTx
  <1>2. \A p \in Tx : tx[p] = NoTx
    BY DEF FriendInit
  <1>3. LocksHold /\ OneCreator /\ InsertClear /\ WorkFits
    BY <1>2 DEF LocksHold, OneCreator, Creating, InsertClear, WorkFits, NoTx
  <1>4. OnePending /\ Mutual /\ Named
    BY DEF FriendInit, OnePending, Mutual, Named
  <1> QED
    BY <1>1, <1>3, <1>4 DEF FriendInv

\* The transactions in T, and no others, end in this step.
TxEnded(T) ==
    /\ tx' \in [Tx -> Work]
    /\ \A p \in T : tx'[p] = NoTx
    /\ \A p \in Tx \ T : tx'[p] = tx[p]

LEMMA EndedFacts ==
  ASSUME FriendTypeOK
  PROVE  /\ UNCHANGED tx => TxEnded({})
         /\ \A p \in Tx : Commit(p) => TxEnded({p})
  <1>1. NoTx \in Work
    BY DEF NoTx, Work
  <1>2. ASSUME NEW p \in Tx, Commit(p)
        PROVE  TxEnded({p})
    BY <1>1, <1>2 DEF TxEnded, Commit, FriendTypeOK
  <1>3. ASSUME UNCHANGED tx
        PROVE  TxEnded({})
    BY <1>3 DEF TxEnded, FriendTypeOK
  <1> QED
    BY <1>2, <1>3

\* Resolving unlocked requests, and ending transactions that hold the rows of
\* those that were locked, keeps the invariant: less is pending, and less held.
\* T are the transactions that end.
LEMMA ResolveInv ==
  ASSUME FriendInv,
         NEW S \in SUBSET Request, NEW s \in Resolved, NEW T \in SUBSET Tx,
         Resolve(S, s),
         \A r \in S : answer[r] = "pending",
         \A r \in S, p \in Tx \ T : r \notin tx[p].rows,
         TxEnded(T),
         friends' \subseteq User \X User, blocks' \subseteq User \X User,
         Mutual',
         UNCHANGED <<from, to, due>>
  PROVE  FriendInv'
  <1> USE DEF FriendInv
  <1>1. \A r \in Request : /\ answer'[r] = IF r \in S THEN s ELSE answer[r]
                           /\ answer'[r] = "pending" => answer[r] = "pending"
    BY DEF Resolve, Resolved
  <1>2. \A p \in Tx : tx'[p] = IF p \in T THEN NoTx ELSE tx[p]
    BY DEF TxEnded
  <1>3. FriendTypeOK'
    <2>1. answer' \in [Request -> AnswerStatus]
      BY DEF FriendTypeOK, Resolve, AnswerStatus
    <2>2. tx' \in [Tx -> Work]
      BY DEF TxEnded
    <2> QED
      BY <2>1, <2>2 DEF FriendTypeOK
  <1>4. LocksHold'
    <2>1. ASSUME NEW p \in Tx, NEW r \in tx'[p].rows
          PROVE  answer'[r] = "pending"
      <3>1. p \notin T /\ r \in tx[p].rows
        BY <1>2, <2>1 DEF NoTx
      <3>2. r \in Request
        BY <3>1 DEF FriendTypeOK, Work
      <3> QED
        BY <1>1, <3>1, <3>2 DEF LocksHold
    <2>2. ASSUME NEW p \in Tx, NEW q \in Tx, tx'[p].rows \intersect tx'[q].rows # {}
          PROVE  p = q
      BY <1>2, <2>2 DEF LocksHold, NoTx
    <2> QED
      BY <2>1, <2>2 DEF LocksHold
  <1>5. OneCreator'
    <2>1. \A p \in Tx : Creating(p)' => Creating(p) /\ tx'[p] = tx[p]
      BY <1>2 DEF Creating, NoTx
    <2> QED
      BY <2>1 DEF OneCreator
  <1>6. InsertClear'
    <2> SUFFICES ASSUME NEW p \in Tx, tx'[p].kind = "insert",
                        NEW r \in Request, <<from[r], to[r]>> \in Pair(tx'[p].user, tx'[p].target),
                        answer'[r] = "pending"
                 PROVE  r \in tx'[p].rows
      BY DEF InsertClear, Pending, Between
    <2>1. tx'[p] = tx[p] /\ answer[r] = "pending"
      BY <1>1, <1>2 DEF NoTx
    <2> QED
      BY <2>1 DEF InsertClear, Pending, Between
  <1>7. WorkFits'
    <2>1. /\ NoTx.kind = "idle" /\ NoTx.rows = {} /\ NoTx.doomed = {}
          /\ \A p \in Tx : tx'[p] = NoTx \/ tx'[p] = tx[p]
      BY <1>2 DEF NoTx
    <2> QED
      BY <2>1 DEF WorkFits
  <1>8. OnePending' /\ Named'
    BY <1>1 DEF OnePending, Named
  <1> QED
    BY <1>3, <1>4, <1>5, <1>6, <1>7, <1>8

\* Starting a transaction that has changed nothing yet.
LEMMA StartInv ==
  ASSUME FriendInv,
         NEW p \in Tx, NEW k \in {"create", "accept", "block"},
         NEW u \in User, NEW v \in User,
         NEW rows \in SUBSET Request, NEW doomed \in SUBSET (User \X User),
         StartTx(p, k, u, v, rows, doomed),
         \A r \in rows : answer[r] = "pending" /\ ~RowLocked(r),
         k # "accept" => rows = {},
         k = "create" => ~PairLocked(u, v),
         \A e \in doomed : <<e[2], e[1]>> \in doomed,
         UNCHANGED <<friends, blocks, from, to, answer, due>>
  PROVE  FriendInv'
  <1> USE DEF FriendInv
  <1> DEFINE w == [kind |-> k, user |-> u, target |-> v, rows |-> rows, doomed |-> doomed]
  <1>1. tx[p] = NoTx /\ \A q \in Tx : tx'[q] = IF q = p THEN w ELSE tx[q]
    BY DEF StartTx, FriendTypeOK
  <1>2. FriendTypeOK'
    <2>1. w \in Work
      BY DEF Work
    <2>2. tx' \in [Tx -> Work]
      BY <2>1 DEF FriendTypeOK, StartTx
    <2> QED
      BY <2>2 DEF FriendTypeOK
  <1>3. LocksHold'
    BY <1>1 DEF LocksHold, RowLocked
  <1>4. OneCreator'
    <2>1. ASSUME NEW q \in Tx, q # p, Creating(q), k = "create"
          PROVE  /\ <<tx[q].user, tx[q].target>> \notin Pair(u, v)
                 /\ <<u, v>> \notin Pair(tx[q].user, tx[q].target)
      <3>1. <<tx[q].user, tx[q].target>> \notin Pair(u, v)
        BY <2>1 DEF PairLocked, Creating
      <3> QED
        BY <3>1 DEF Pair
    <2>2. \A q \in Tx : Creating(q)' => (q = p /\ k = "create") \/ (q # p /\ Creating(q))
      BY <1>1 DEF Creating
    <2>3. tx'[p].user = u /\ tx'[p].target = v /\ \A q \in Tx \ {p} : tx'[q] = tx[q]
      BY <1>1
    <2> SUFFICES ASSUME NEW q \in Tx, NEW r \in Tx, Creating(q)', Creating(r)',
                        <<tx'[q].user, tx'[q].target>> \in Pair(tx'[r].user, tx'[r].target),
                        q # r
                 PROVE  FALSE
      BY DEF OneCreator, Creating
    <2>4. CASE q = p
      BY <2>1, <2>2, <2>3, <2>4
    <2>5. CASE r = p
      BY <2>1, <2>2, <2>3, <2>5
    <2>6. CASE q # p /\ r # p
      BY <2>2, <2>3, <2>6 DEF OneCreator
    <2> QED
      BY <2>4, <2>5, <2>6
  <1>5. InsertClear'
    BY <1>1 DEF InsertClear, Pending, Between
  <1>6. WorkFits'
    BY <1>1 DEF WorkFits, NoTx
  <1>7. OnePending' /\ Mutual' /\ Named'
    BY DEF OnePending, Mutual, Named
  <1> QED
    BY <1>2, <1>3, <1>4, <1>5, <1>6, <1>7
---------------------------------------------------------------------------
LEMMA CreateReadInv ==
  ASSUME FriendInv, NEW p \in Tx, CreateRead(p)
  PROVE  FriendInv'
  <1> USE DEF FriendInv
  <1> DEFINE u == tx[p].user
             v == tx[p].target
             E == Expiring(u, v)
  <1>1. /\ tx[p].kind = "create"
        /\ \A q \in E : ~RowLocked(q)
        /\ UNCHANGED <<friends, blocks, from, to, due>>
    BY DEF CreateRead
  <1>2. E \subseteq Request /\ \A q \in E : answer[q] = "pending"
    BY DEF Expiring, Pending, Between
  <1>3. CASE Resolve(E, "expired") /\ Commit(p)
    <2>1. TxEnded({p})
      BY <1>3, EndedFacts
    <2>2. \A r \in E, q \in Tx \ {p} : r \notin tx[q].rows
      BY <1>1 DEF RowLocked
    <2>3. Mutual' /\ friends' \subseteq User \X User /\ blocks' \subseteq User \X User
      BY <1>1 DEF Mutual, FriendTypeOK
    <2>4. "expired" \in Resolved /\ {p} \in SUBSET Tx
      BY DEF Resolved
    <2> HIDE DEF FriendInv
    <2> QED
      BY <1>1, <1>2, <1>3, <2>1, <2>2, <2>3, <2>4, ResolveInv
  <1>4. CASE /\ Pending(u, v) \ E = {}
             /\ tx' = [tx EXCEPT ![p] = [kind |-> "insert", user |-> u, target |-> v,
                                            rows |-> E, doomed |-> {}]]
             /\ UNCHANGED answer
    <2>1. \A q \in Tx : tx'[q] = IF q = p THEN [kind |-> "insert", user |-> u, target |-> v,
                                               rows |-> E, doomed |-> {}]
                                 ELSE tx[q]
      BY <1>4 DEF FriendTypeOK
    <2>2. u \in User /\ v \in User
      BY <1>1 DEF WorkFits
    <2>3. /\ tx'[p].kind = "insert" /\ tx'[p].rows = E
          /\ tx'[p].user = u /\ tx'[p].target = v /\ tx'[p].doomed = {}
          /\ tx'[p] \in Work
      BY <1>2, <2>1, <2>2 DEF Work
    <2>4. \A q \in Tx \ {p} : tx'[q] = tx[q]
      BY <2>1
    <2> HIDE DEF E
    <2>5. FriendTypeOK'
      <3>1. tx' \in [Tx -> Work]
        BY <1>4, <2>3, <2>4 DEF FriendTypeOK
      <3> QED
        BY <1>1, <1>4, <3>1 DEF FriendTypeOK
    <2>6. LocksHold'
      <3>1. \A q \in E : \A r \in Tx : q \notin tx[r].rows
        BY <1>1 DEF RowLocked
      <3>2. ASSUME NEW q \in Tx, NEW r \in Tx, tx'[q].rows \intersect tx'[r].rows # {}, q # r
            PROVE  FALSE
        <4>1. CASE q = p
          BY <2>3, <2>4, <3>1, <3>2, <4>1
        <4>2. CASE r = p
          BY <2>3, <2>4, <3>1, <3>2, <4>2
        <4>3. CASE q # p /\ r # p
          BY <2>4, <3>2, <4>3 DEF LocksHold
        <4> QED
          BY <4>1, <4>2, <4>3
      <3>3. ASSUME NEW q \in Tx, NEW r \in tx'[q].rows
            PROVE  answer'[r] = "pending"
        BY <1>2, <1>4, <2>3, <2>4, <3>3 DEF LocksHold
      <3> QED
        BY <3>2, <3>3 DEF LocksHold
    <2>7. OneCreator'
      <3>1. \A q \in Tx : (Creating(q)' <=> Creating(q)) /\ tx'[q].user = tx[q].user
                          /\ tx'[q].target = tx[q].target
        BY <1>1, <2>3, <2>4 DEF Creating
      <3> QED
        BY <3>1 DEF OneCreator
    <2>8. InsertClear'
      <3> SUFFICES ASSUME NEW q \in Tx, tx'[q].kind = "insert",
                          NEW r \in Request, <<from[r], to[r]>> \in Pair(tx'[q].user, tx'[q].target),
                          answer[r] = "pending"
                   PROVE  r \in tx'[q].rows
        BY <1>1, <1>4 DEF InsertClear, Pending, Between
      <3>1. CASE q = p
        BY <1>4, <2>3, <3>1 DEF Pending, Between
      <3>2. CASE q # p
        BY <2>4, <3>2 DEF InsertClear, Pending, Between
      <3> QED
        BY <3>1, <3>2
    <2>9. WorkFits'
      <3>1. tx'[p] # NoTx
        BY <2>3 DEF NoTx
      <3>2. u \in User /\ v \in User
        BY <1>1 DEF WorkFits
      <3> QED
        BY <2>3, <2>4, <3>1, <3>2 DEF WorkFits
    <2>10. OnePending' /\ Mutual' /\ Named'
      BY <1>1, <1>4 DEF OnePending, Mutual, Named
    <2> QED
      BY <2>5, <2>6, <2>7, <2>8, <2>9, <2>10
  <1> QED
    BY <1>3, <1>4 DEF CreateRead

LEMMA CreateEndInv ==
  ASSUME FriendInv, NEW p \in Tx, NEW c \in Request, CreateEnd(p, c)
  PROVE  FriendInv'
  <1> USE DEF FriendInv
  <1> DEFINE u == tx[p].user
             v == tx[p].target
  <1>1. /\ tx[p].kind = "insert" /\ answer[c] = "none"
        /\ u \in User /\ v \in User
        /\ UNCHANGED <<friends, blocks, due>>
    BY DEF CreateEnd, WorkFits
  <1>2. \A r \in Request : /\ answer'[r] = IF r \in tx[p].rows THEN "expired"
                                           ELSE IF r = c THEN "pending" ELSE answer[r]
                           /\ from'[r] = IF r = c THEN u ELSE from[r]
                           /\ to'[r] = IF r = c THEN v ELSE to[r]
    BY DEF CreateEnd, FriendTypeOK
  <1>3. \A q \in Tx : tx'[q] = IF q = p THEN NoTx ELSE tx[q]
    BY DEF CreateEnd, Commit, FriendTypeOK
  <1>4. c \notin tx[p].rows
    BY <1>1 DEF LocksHold
  <1>5. FriendTypeOK'
    <2>1. answer' \in [Request -> AnswerStatus]
      BY DEF FriendTypeOK, CreateEnd, AnswerStatus, Resolved
    <2>2. from' \in [Request -> User \union {None}] /\ to' \in [Request -> User \union {None}]
      BY <1>1 DEF FriendTypeOK, CreateEnd
    <2>3. tx' \in [Tx -> Work]
      BY DEF FriendTypeOK, CreateEnd, Commit, Work, NoTx
    <2> QED
      BY <1>1, <2>1, <2>2, <2>3 DEF FriendTypeOK
  <1>6. LocksHold'
    <2>1. ASSUME NEW q \in Tx, NEW r \in tx'[q].rows
          PROVE  answer'[r] = "pending"
      <3>1. q # p /\ r \in tx[q].rows
        BY <1>3, <2>1 DEF NoTx
      <3>2. r \notin tx[p].rows /\ answer[r] = "pending" /\ r \in Request
        BY <3>1 DEF LocksHold, FriendTypeOK, Work
      <3> QED
        BY <1>1, <1>2, <3>2
    <2>2. ASSUME NEW q \in Tx, NEW r \in Tx, tx'[q].rows \intersect tx'[r].rows # {}
          PROVE  q = r
      BY <1>3, <2>2 DEF LocksHold, NoTx
    <2> QED
      BY <2>1, <2>2 DEF LocksHold
  <1>7. OneCreator'
    <2>1. \A q \in Tx : Creating(q)' => Creating(q) /\ tx'[q] = tx[q]
      BY <1>3 DEF Creating, NoTx
    <2> QED
      BY <2>1 DEF OneCreator
  <1>8. InsertClear'
    <2> SUFFICES ASSUME NEW q \in Tx, tx'[q].kind = "insert",
                        NEW r \in Request,
                        <<from'[r], to'[r]>> \in Pair(tx'[q].user, tx'[q].target),
                        answer'[r] = "pending"
                 PROVE  r \in tx'[q].rows
      BY DEF InsertClear, Pending, Between
    <2>1. q # p /\ tx'[q] = tx[q]
      BY <1>3 DEF NoTx
    <2>2. r # c
      <3>1. Creating(p) /\ Creating(q)
        BY <1>1, <2>1 DEF Creating
      <3>2. <<u, v>> \notin Pair(tx[q].user, tx[q].target)
        BY <2>1, <3>1 DEF OneCreator
      <3> QED
        BY <1>2, <2>1, <3>2
    <2>3. answer[r] = "pending" /\ <<from[r], to[r]>> \in Pair(tx[q].user, tx[q].target)
      BY <1>2, <2>1, <2>2
    <2> QED
      BY <2>1, <2>3 DEF InsertClear, Pending, Between
  <1>9. WorkFits'
    <2>1. /\ NoTx.kind = "idle" /\ NoTx.rows = {} /\ NoTx.doomed = {}
      BY DEF NoTx
    <2>2. ASSUME NEW q \in Tx
          PROVE  (tx'[q] = NoTx \/ tx'[q] = tx[q])
      BY <1>3
    <2> QED
      BY <2>1, <2>2 DEF WorkFits
  <1>10. OnePending'
    <2>1. ASSUME NEW q \in Request, q # c, answer'[q] = "pending"
          PROVE  /\ answer[q] = "pending"
                 /\ <<from[q], to[q]>> \notin Pair(u, v)
                 /\ from'[q] = from[q] /\ to'[q] = to[q]
      <3>1. answer[q] = "pending" /\ q \notin tx[p].rows /\ from'[q] = from[q] /\ to'[q] = to[q]
        BY <1>2, <2>1
      <3> QED
        BY <1>1, <3>1 DEF InsertClear, Pending, Between
    <2> SUFFICES ASSUME NEW q \in Request, NEW r \in Request,
                        answer'[q] = "pending", answer'[r] = "pending",
                        <<from'[q], to'[q]>> \in Pair(from'[r], to'[r])
                 PROVE  q = r
      BY DEF OnePending, Pair
    <2>2. CASE q = c /\ r # c
      <3>1. <<u, v>> \in Pair(from[r], to[r]) /\ <<from[r], to[r]>> \notin Pair(u, v)
        BY <1>2, <2>1, <2>2
      <3> QED
        BY <3>1 DEF Pair
    <2>3. CASE q # c /\ r = c
      BY <1>2, <2>1, <2>3
    <2>4. CASE q # c /\ r # c
      BY <2>1, <2>4 DEF OnePending
    <2> QED
      BY <2>2, <2>3, <2>4
  <1>11. Mutual' /\ Named'
    BY <1>1, <1>2 DEF Mutual, Named
  <1> QED
    BY <1>5, <1>6, <1>7, <1>8, <1>9, <1>10, <1>11
---------------------------------------------------------------------------
\* What each transition other than an insertion does to requests: it resolves
\* pending ones that no other transaction has locked.
LEMMA ClosingInv ==
  ASSUME FriendInv
  PROVE  /\ \A r \in Request : Answer(r) => FriendInv'
         /\ \A p \in Tx : AcceptEnd(p) => FriendInv'
         /\ \A p \in Tx : BlockEnd(p) => FriendInv'
         /\ \A u \in User : DeleteAccount(u) => FriendInv'
         /\ ExpireFriendRequests => FriendInv'
  <1> USE DEF FriendInv
  <1>0. /\ UNCHANGED tx => TxEnded({})
        /\ \A p \in Tx : Commit(p) => TxEnded({p})
    BY EndedFacts
  <1>1. ASSUME NEW r \in Request, Answer(r)
        PROVE  FriendInv'
    <2>1. PICK s \in Resolved : Resolve({r}, s)
      BY <1>1 DEF Answer, Resolved
    <2>2. /\ answer[r] = "pending" /\ \A p \in Tx : r \notin tx[p].rows
          /\ UNCHANGED <<friends, blocks, from, to, due, tx>>
      BY <1>1 DEF Answer, RowLocked
    <2>3. Mutual' /\ friends' \subseteq User \X User /\ blocks' \subseteq User \X User
      BY <2>2 DEF Mutual, FriendTypeOK
    <2>4. TxEnded({})
      BY <1>0, <2>2
    <2> HIDE DEF FriendInv
    <2> QED
      BY <2>1, <2>2, <2>3, <2>4, ResolveInv
  <1>2. ASSUME NEW p \in Tx, AcceptEnd(p)
        PROVE  FriendInv'
    <2> DEFINE u == tx[p].user
               v == tx[p].target
    <2>1. /\ friends' = friends \union Pair(u, v)
          /\ Resolve(tx[p].rows, "accepted")
          /\ TxEnded({p})
          /\ UNCHANGED <<blocks, from, to, due>>
      BY <1>0, <1>2 DEF AcceptEnd
    <2>2. u \in User /\ v \in User
      BY <1>2 DEF AcceptEnd, WorkFits
    <2>3. Mutual' /\ friends' \subseteq User \X User /\ blocks' \subseteq User \X User
      BY <2>1, <2>2 DEF Mutual, FriendTypeOK, Pair
    <2>4. /\ tx[p].rows \in SUBSET Request
          /\ \A r \in tx[p].rows : answer[r] = "pending"
          /\ \A r \in tx[p].rows, q \in Tx \ {p} : r \notin tx[q].rows
      BY DEF FriendTypeOK, Work, LocksHold
    <2>5. "accepted" \in Resolved
      BY DEF Resolved
    <2> HIDE DEF FriendInv
    <2> QED
      BY <2>1, <2>3, <2>4, <2>5, ResolveInv
  <1>3. ASSUME NEW p \in Tx, BlockEnd(p)
        PROVE  FriendInv'
    <2> DEFINE u == tx[p].user
               v == tx[p].target
               S == Pending(u, v)
    <2>1. /\ friends' = friends \ tx[p].doomed
          /\ blocks' = blocks \union {<<u, v>>}
          /\ Resolve(S, "cancelled")
          /\ \A r \in S : ~RowLocked(r)
          /\ TxEnded({p})
          /\ UNCHANGED <<from, to, due>>
      BY <1>0, <1>3 DEF BlockEnd
    <2>2. u \in User /\ v \in User
      BY <1>3 DEF BlockEnd, WorkFits
    <2>3. friends' \subseteq User \X User /\ blocks' \subseteq User \X User
      BY <2>1, <2>2 DEF FriendTypeOK
    <2>4. Mutual'
      <3> SUFFICES ASSUME NEW e \in friends, e \notin tx[p].doomed
                   PROVE  <<e[2], e[1]>> \in friends /\ <<e[2], e[1]>> \notin tx[p].doomed
        BY <2>1 DEF Mutual
      <3>1. e \in User \X User
        BY DEF FriendTypeOK
      <3>2. PICK x, y : e = <<x, y>>
        BY <3>1
      <3> QED
        BY <3>2 DEF Mutual, WorkFits
    <2>5. /\ S \in SUBSET Request
          /\ \A r \in S : answer[r] = "pending"
          /\ \A r \in S, q \in Tx \ {p} : r \notin tx[q].rows
      BY <2>1 DEF Pending, Between, RowLocked
    <2>6. "cancelled" \in Resolved
      BY DEF Resolved
    <2> HIDE DEF S
    <2> HIDE DEF FriendInv
    <2> QED
      BY <2>1, <2>3, <2>4, <2>5, <2>6, ResolveInv
  <1>4. ASSUME NEW u \in User, DeleteAccount(u)
        PROVE  FriendInv'
    <2> DEFINE S == {r \in Request : answer[r] = "pending" /\ u \in {from[r], to[r]}}
    <2>1. /\ friends' = {e \in friends : u \notin {e[1], e[2]}}
          /\ blocks' = {b \in blocks : u \notin {b[1], b[2]}}
          /\ Resolve(S, "cancelled")
          /\ \A r \in S : ~RowLocked(r)
          /\ UNCHANGED <<from, to, due, tx>>
      BY <1>4 DEF DeleteAccount
    <2>2. friends' \subseteq User \X User /\ blocks' \subseteq User \X User
      BY <2>1 DEF FriendTypeOK
    <2>3. Mutual'
      BY <2>1 DEF Mutual
    <2>4. /\ S \in SUBSET Request
          /\ \A r \in S : answer[r] = "pending"
          /\ \A r \in S, q \in Tx : r \notin tx[q].rows
      BY <2>1 DEF RowLocked
    <2>5. "cancelled" \in Resolved
      BY DEF Resolved
    <2>6. TxEnded({})
      BY <1>0, <2>1
    <2> HIDE DEF S
    <2> HIDE DEF FriendInv
    <2> QED
      BY <2>1, <2>2, <2>3, <2>4, <2>5, <2>6, ResolveInv
  <1>5. ASSUME ExpireFriendRequests
        PROVE  FriendInv'
    <2>1. PICK S \in SUBSET {r \in Request : answer[r] = "pending" /\ due[r] /\ ~RowLocked(r)} :
              Resolve(S, "expired")
      BY <1>5 DEF ExpireFriendRequests
    <2>2. UNCHANGED <<friends, blocks, from, to, due, tx>>
      BY <1>5 DEF ExpireFriendRequests
    <2>3. Mutual' /\ friends' \subseteq User \X User /\ blocks' \subseteq User \X User
      BY <2>2 DEF Mutual, FriendTypeOK
    <2>4. TxEnded({})
      BY <1>0, <2>2
    <2>5. S \in SUBSET Request /\ \A r \in S, p \in Tx : r \notin tx[p].rows
      BY DEF RowLocked
    <2>6. "expired" \in Resolved
      BY DEF Resolved
    <2> HIDE DEF FriendInv
    <2> QED
      BY <2>1, <2>2, <2>3, <2>4, <2>5, <2>6, ResolveInv
  <1> QED
    BY <1>1, <1>2, <1>3, <1>4, <1>5

\* Steps that leave the requests alone and end some transactions.
LEMMA QuietInv ==
  ASSUME FriendInv, NEW T \in SUBSET Tx,
         TxEnded(T),
         friends' \subseteq User \X User, blocks' \subseteq User \X User, Mutual',
         due' \in [Request -> BOOLEAN],
         UNCHANGED <<from, to, answer>>
  PROVE  FriendInv'
  <1> USE DEF FriendInv
  <1>1. \A p \in Tx : tx'[p] = IF p \in T THEN NoTx ELSE tx[p]
    BY DEF TxEnded
  <1>2. FriendTypeOK'
    <2>1. tx' \in [Tx -> Work]
      BY DEF TxEnded
    <2> QED
      BY <2>1 DEF FriendTypeOK
  <1>3. LocksHold' /\ WorkFits' /\ Named'
    <2>1. /\ NoTx.kind = "idle" /\ NoTx.rows = {} /\ NoTx.doomed = {}
          /\ \A p \in Tx : tx'[p] = NoTx \/ tx'[p] = tx[p]
      BY <1>1 DEF NoTx
    <2>2. LocksHold'
      BY <2>1 DEF LocksHold
    <2>3. WorkFits'
      BY <2>1 DEF WorkFits
    <2> QED
      BY <2>2, <2>3 DEF Named
  <1>4. OneCreator'
    <2>1. \A p \in Tx : Creating(p)' => Creating(p) /\ tx'[p] = tx[p]
      BY <1>1 DEF Creating, NoTx
    <2> QED
      BY <2>1 DEF OneCreator
  <1>5. InsertClear'
    BY <1>1 DEF InsertClear, Pending, Between, NoTx
  <1>6. OnePending'
    BY DEF OnePending
  <1> QED
    BY <1>2, <1>3, <1>4, <1>5, <1>6

LEMMA NextInv == FriendInv /\ [FriendNext]_graphVars => FriendInv'
  <1> SUFFICES ASSUME FriendInv, [FriendNext]_graphVars PROVE FriendInv'
    OBVIOUS
  <1> USE DEF FriendInv
  <1>0. /\ UNCHANGED tx => TxEnded({})
        /\ \A p \in Tx : Commit(p) => TxEnded({p})
    BY EndedFacts
  <1>1. ASSUME NEW p \in Tx, NEW u \in User, NEW v \in User, CreateBegin(p, u, v)
        PROVE  FriendInv'
    <2> HIDE DEF FriendInv
    <2> QED
      BY <1>1, StartInv DEF CreateBegin
  <1>2. ASSUME NEW p \in Tx, NEW u \in User, NEW v \in User, BlockBegin(p, u, v)
        PROVE  FriendInv'
    <2> DEFINE D == friends \intersect Pair(u, v)
    <2>1. \A e \in D : <<e[2], e[1]>> \in D
      <3> SUFFICES ASSUME NEW e \in friends, e \in Pair(u, v)
                   PROVE  <<e[2], e[1]>> \in friends /\ <<e[2], e[1]>> \in Pair(u, v)
        OBVIOUS
      <3> QED
        BY DEF Mutual, Pair
    <2>2. D \in SUBSET (User \X User)
      BY DEF FriendTypeOK
    <2>3. StartTx(p, "block", u, v, {}, D) /\ UNCHANGED <<friends, blocks, from, to, answer, due>>
      BY <1>2 DEF BlockBegin
    <2> HIDE DEF D
    <2> HIDE DEF FriendInv
    <2> QED
      BY <2>1, <2>2, <2>3, StartInv
  <1>3. ASSUME NEW p \in Tx, NEW r \in Request, AcceptBegin(p, r)
        PROVE  FriendInv'
    <2>1. /\ answer[r] = "pending" /\ ~RowLocked(r)
          /\ StartTx(p, "accept", from[r], to[r], {r}, {})
          /\ UNCHANGED <<friends, blocks, from, to, answer, due>>
      BY <1>3 DEF AcceptBegin
    <2>2. from[r] \in User /\ to[r] \in User
      BY <2>1 DEF Named
    <2> HIDE DEF FriendInv
    <2> QED
      BY <2>1, <2>2, StartInv
  <1>4. ASSUME NEW u \in User, NEW v \in User, DeleteFriend(u, v)
        PROVE  FriendInv'
    <2>1. /\ friends' = friends \ Pair(u, v)
          /\ UNCHANGED <<blocks, from, to, answer, due, tx>>
      BY <1>4 DEF DeleteFriend
    <2>2. Mutual'
      <3> SUFFICES ASSUME NEW e \in friends, e \notin Pair(u, v)
                   PROVE  <<e[2], e[1]>> \in friends /\ <<e[2], e[1]>> \notin Pair(u, v)
        BY <2>1 DEF Mutual
      <3>1. PICK x, y : e = <<x, y>>
        BY DEF FriendTypeOK
      <3> QED
        BY <3>1 DEF Mutual, Pair
    <2>3. friends' \subseteq User \X User /\ blocks' \subseteq User \X User
          /\ due' \in [Request -> BOOLEAN]
      BY <2>1 DEF FriendTypeOK
    <2>4. TxEnded({})
      BY <1>0, <2>1
    <2> HIDE DEF FriendInv
    <2> QED
      BY <2>1, <2>2, <2>3, <2>4, QuietInv
  <1>5. ASSUME NEW u \in User, NEW v \in User, Unblock(u, v)
        PROVE  FriendInv'
    <2>1. UNCHANGED <<friends, from, to, answer, due, tx>> /\ blocks' \subseteq blocks
      BY <1>5 DEF Unblock
    <2>2. friends' \subseteq User \X User /\ blocks' \subseteq User \X User
          /\ due' \in [Request -> BOOLEAN] /\ Mutual'
      BY <2>1 DEF FriendTypeOK, Mutual
    <2>3. TxEnded({})
      BY <1>0, <2>1
    <2> HIDE DEF FriendInv
    <2> QED
      BY <2>1, <2>2, <2>3, QuietInv
  <1>6. ASSUME NEW p \in Tx, RollBack(p)
        PROVE  FriendInv'
    <2>1. /\ TxEnded({p})
          /\ UNCHANGED <<friends, blocks, from, to, answer, due>>
      BY <1>0, <1>6 DEF RollBack
    <2>2. friends' \subseteq User \X User /\ blocks' \subseteq User \X User
          /\ due' \in [Request -> BOOLEAN] /\ Mutual'
      BY <2>1 DEF FriendTypeOK, Mutual
    <2> HIDE DEF FriendInv
    <2> QED
      BY <2>1, <2>2, QuietInv
  <1>7. ASSUME NEW r \in Request, BecomesDue(r)
        PROVE  FriendInv'
    <2>1. UNCHANGED <<friends, blocks, from, to, answer, tx>>
      BY <1>7 DEF BecomesDue
    <2>2. friends' \subseteq User \X User /\ blocks' \subseteq User \X User
          /\ due' \in [Request -> BOOLEAN] /\ Mutual'
      BY <1>7, <2>1 DEF BecomesDue, FriendTypeOK, Mutual
    <2>3. TxEnded({})
      BY <1>0, <2>1
    <2> HIDE DEF FriendInv
    <2> QED
      BY <2>1, <2>2, <2>3, QuietInv
  <1>8. CASE UNCHANGED graphVars
    <2>1. UNCHANGED <<friends, blocks, from, to, answer, due, tx>>
      BY <1>8 DEF graphVars
    <2>2. friends' \subseteq User \X User /\ blocks' \subseteq User \X User
          /\ due' \in [Request -> BOOLEAN] /\ Mutual'
      BY <2>1 DEF FriendTypeOK, Mutual
    <2>3. TxEnded({})
      BY <1>0, <2>1
    <2> HIDE DEF FriendInv
    <2> QED
      BY <2>1, <2>2, <2>3, QuietInv
  <1> HIDE DEF FriendInv
  <1> QED
    BY <1>1, <1>2, <1>3, <1>4, <1>5, <1>6, <1>7, <1>8,
       CreateReadInv, CreateEndInv, ClosingInv DEF FriendNext
---------------------------------------------------------------------------
LEMMA FriendInvariant == FriendSpec => []FriendInv
  BY InitInv, NextInv, PTL DEF FriendSpec

\* The tables keep the columns and statuses the schema gives them.
THEOREM FriendTypeCorrect == FriendSpec => []FriendTypeOK
  <1>1. FriendInv => FriendTypeOK
    BY DEF FriendInv
  <1> QED
    BY <1>1, FriendInvariant, PTL

\* The advisory lock on the pair keeps a second open request out, in either
\* direction, whatever the other transactions do.
THEOREM FriendOnePending == FriendSpec => []OnePending
  <1>1. FriendInv => OnePending
    BY DEF FriendInv
  <1> QED
    BY <1>1, FriendInvariant, PTL

\* Both rows of a friendship appear and disappear together.
THEOREM FriendMutual == FriendSpec => []Mutual
  <1>1. FriendInv => Mutual
    BY DEF FriendInv
  <1> QED
    BY <1>1, FriendInvariant, PTL

\* A request that is resolved never changes its status again.
THEOREM FriendResolvedForever == FriendSpec => ResolvedForever
  <1>1. ASSUME FriendInv, [FriendNext]_graphVars, NEW r \in Request, answer[r] \in Resolved
        PROVE  answer'[r] = answer[r]
    <2> USE DEF FriendInv
    <2>1. answer[r] # "pending" /\ answer[r] # "none"
      BY <1>1 DEF Resolved
    <2>2. ASSUME NEW S, NEW s, Resolve(S, s), \A q \in S : answer[q] = "pending"
          PROVE  answer'[r] = answer[r]
      BY <2>1, <2>2 DEF Resolve
    <2>3. ASSUME NEW p \in Tx, NEW c \in Request, CreateEnd(p, c)
          PROVE  answer'[r] = answer[r]
      <3>1. r # c /\ r \notin tx[p].rows
        BY <1>1, <2>1, <2>3 DEF CreateEnd, LocksHold
      <3> QED
        BY <2>3, <3>1 DEF CreateEnd
    <2>4. ASSUME NEW p \in Tx, CreateRead(p)
          PROVE  answer'[r] = answer[r]
      BY <2>2, <2>4 DEF CreateRead, Expiring, Pending
    <2>5. ASSUME NEW p \in Tx, AcceptEnd(p)
          PROVE  answer'[r] = answer[r]
      BY <1>1, <2>2, <2>5 DEF AcceptEnd, LocksHold
    <2>6. ASSUME NEW p \in Tx, BlockEnd(p)
          PROVE  answer'[r] = answer[r]
      BY <2>2, <2>6 DEF BlockEnd, Pending
    <2>7. ASSUME NEW q \in Request, Answer(q)
          PROVE  answer'[r] = answer[r]
      BY <2>2, <2>7 DEF Answer
    <2>8. ASSUME NEW u \in User, DeleteAccount(u)
          PROVE  answer'[r] = answer[r]
      BY <2>2, <2>8 DEF DeleteAccount
    <2>9. CASE ExpireFriendRequests
      BY <2>2, <2>9 DEF ExpireFriendRequests
    <2>10. CASE UNCHANGED answer
      BY <2>10
    <2> QED
      BY <1>1, <2>3, <2>4, <2>5, <2>6, <2>7, <2>8, <2>9, <2>10
         DEF FriendNext, CreateBegin, BlockBegin, AcceptBegin, RollBack, BecomesDue,
             DeleteFriend, Unblock, graphVars
  <1>2. FriendInv /\ [FriendNext]_graphVars =>
            [\A r \in Request : answer[r] \in Resolved => answer'[r] = answer[r]]_graphVars
    BY <1>1
  <1> QED
    BY <1>2, FriendInvariant, PTL DEF FriendSpec, ResolvedForever

\* The whole promise of friend requests, blocks and deletions
\* (CreateFriendRequest, TransitionFriendRequest, SetFriendBlock and the rest).
THEOREM FriendsKeepPromise == FriendSpec => FriendKept
  BY FriendTypeCorrect, FriendOnePending, FriendMutual, FriendResolvedForever, PTL
  DEF FriendKept

(***************************************************************************)
(* Invitations (Invitations): who invited whom is a forest, a transaction  *)
(* that knows an active code holds it, and a correction looks at a binding *)
(* that is current as long as its version is.                              *)
(***************************************************************************)
\* Who invited whom, as a function of those who were invited by somebody.
Bounds == {u \in Invited : bound[u] # NoBinding}
Inviters == [u \in Bounds |-> inviteCode[bound[u].code].owner]

Upward(S, up) == \A x \in S : x \in DOMAIN up => up[x] \in S
Above(up, u) == {v \in Invited : \A S \in SUBSET Invited : u \in S /\ Upward(S, up) => v \in S}
Acyclic(up) == \A u \in DOMAIN up : u \notin Above(up, up[u])
Forest(up) == /\ DOMAIN up \subseteq Invited /\ \A u \in DOMAIN up : up[u] \in Invited
              /\ Acyclic(up)

CodesOK ==
    /\ DOMAIN inviteCode = Text
    /\ \A c \in Text :
         /\ DOMAIN inviteCode[c] = {"owner", "status", "source"}
         /\ inviteCode[c].status \in {"none", "active", "disabled", "retired"}
         /\ inviteCode[c].status # "none" =>
              inviteCode[c].owner \in Invited /\ member[inviteCode[c].owner].registered
         /\ inviteCode[c].source = "user" =>
              inviteCode[c].status # "none" /\ member[inviteCode[c].owner].changed
    /\ \A c, d \in Text : inviteCode[c].source = "user" /\ inviteCode[d].source = "user"
                          /\ inviteCode[c].owner = inviteCode[d].owner => c = d

MembersOK ==
    /\ DOMAIN member = Invited
    /\ \A u \in Invited : /\ DOMAIN member[u] = {"registered", "banned", "changed"}
                          /\ ~member[u].registered => bound[u] = NoBinding

\* A binding is to a code somebody was issued; only a relation that was never
\* bound has version 0.
BindingsOK ==
    /\ DOMAIN bound = Invited
    /\ \A u \in Invited : bound[u] # NoBinding =>
         /\ DOMAIN bound[u] = {"code", "version"}
         /\ bound[u].version \in Nat \ {0} /\ bound[u].code \in Text
         /\ inviteCode[bound[u].code].status # "none"
    /\ Forest(Inviters)

\* A transaction that knows an active code holds it, one that changes the own code
\* has a change left, and a correction looks at a binding that is current as long
\* as its version is.
Seen(d) == /\ d.seen.version \in Nat /\ d.seen.version <= bound[d.user].version
           /\ d.seen.version = bound[d.user].version => d.seen = bound[d.user]
DealOK(t) ==
    /\ deal[t].kind \in {"none", "register", "change", "reset", "look", "relate"}
    /\ deal[t].kind = "none" => deal[t] = NoDeal
    /\ deal[t].kind = "register" =>
         /\ DOMAIN deal[t] = {"kind", "user", "text", "password", "by", "holds", "resolved"}
         /\ deal[t].user \in Invited /\ deal[t].text \in Text \cup {NoText}
         /\ deal[t].resolved /\ deal[t].text # NoText =>
              deal[t].holds = deal[t].text /\ inviteCode[deal[t].text].status = "active"
         /\ ~deal[t].resolved => deal[t].holds = NoText
         /\ deal[t].text = NoText => deal[t].holds = NoText
    /\ deal[t].kind = "change" =>
         /\ deal[t].user \in Invited /\ deal[t].text \in Text /\ deal[t].holds = NoText
         /\ member[deal[t].user].registered /\ ~member[deal[t].user].changed
    /\ deal[t].kind = "reset" =>
         /\ deal[t].text \in Text /\ deal[t].holds = deal[t].text
         /\ inviteCode[deal[t].text].status \in Current
    /\ deal[t].kind \in {"look", "relate"} =>
         /\ deal[t].user \in Invited /\ deal[t].text \in Text /\ deal[t].holds = NoText /\ Seen(deal[t])
    /\ deal[t].kind = "relate" => member[deal[t].user].registered

Exclusive ==
    /\ \A t, o \in Deal : t # o /\ deal[t].kind # "none" /\ deal[o].kind # "none" /\ deal[t].holds # NoText
                          => deal[o].holds # deal[t].holds
    /\ \A t, o \in Deal : t # o /\ deal[t].kind = "change" /\ deal[o].kind = "change"
                          => deal[o].user # deal[t].user

DealsOK == DOMAIN deal = Deal /\ (\A t \in Deal : DealOK(t)) /\ Exclusive

InviteInv == MembersOK /\ CodesOK /\ BindingsOK /\ DealsOK

LEMMA AboveFacts ==
    ASSUME NEW up, NEW u \in Invited, \A x \in DOMAIN up : up[x] \in Invited
    PROVE  /\ u \in Above(up, u) /\ Upward(Above(up, u), up) /\ Above(up, u) \in SUBSET Invited
           /\ \A S \in SUBSET Invited : u \in S /\ Upward(S, up) => Above(up, u) \subseteq S
  <1>1. u \in Above(up, u) /\ Above(up, u) \in SUBSET Invited
    BY DEF Above
  <1>2. ASSUME NEW x \in Above(up, u), x \in DOMAIN up PROVE up[x] \in Above(up, u)
    BY <1>2 DEF Above, Upward
  <1>3. ASSUME NEW S \in SUBSET Invited, u \in S, Upward(S, up) PROVE Above(up, u) \subseteq S
    BY <1>3 DEF Above
  <1> QED
    BY <1>1, <1>2, <1>3 DEF Upward

\* A correction that hangs u below p, who is not invited by u, closes no circle.
LEMMA MovedStaysAcyclic ==
    ASSUME NEW up, NEW next, Forest(up), NEW u \in Invited, NEW p \in Invited, u \notin Above(up, p),
           DOMAIN next = DOMAIN up \cup {u}, next[u] = p, \A x \in DOMAIN up \ {u} : next[x] = up[x]
    PROVE  Forest(next)
  <1>1. /\ DOMAIN next \subseteq Invited /\ \A x \in DOMAIN next : next[x] \in Invited
        /\ \A x \in DOMAIN up : up[x] \in Invited
    BY DEF Forest
  <1>2. Upward(Above(up, p), next)
    BY <1>1, AboveFacts DEF Upward
  <1> SUFFICES ASSUME NEW x \in DOMAIN next, x \in Above(next, next[x]) PROVE FALSE
    BY <1>1 DEF Forest, Acyclic
  <1>3. CASE x = u
    <2>1. Above(next, p) \subseteq Above(up, p)
      BY <1>1, <1>2, AboveFacts
    <2> QED
      BY <1>3, <2>1
  <1>4. CASE x # u
    <2> PICK q : q = up[x]
      OBVIOUS
    <2>1. x \in DOMAIN up /\ next[x] = q /\ q \in Invited /\ x \notin Above(up, q) /\ x \in Invited
      BY <1>1, <1>4 DEF Forest, Acyclic
    <2>2. /\ Upward(Above(up, q), up) /\ q \in Above(up, q) /\ Above(up, q) \in SUBSET Invited
          /\ Upward(Above(up, p), up) /\ p \in Above(up, p) /\ Above(up, p) \in SUBSET Invited
          /\ \A S \in SUBSET Invited : q \in S /\ Upward(S, up) => Above(up, q) \subseteq S
          /\ \A S \in SUBSET Invited : q \in S /\ Upward(S, next) => Above(next, q) \subseteq S
      BY <1>1, <2>1, AboveFacts
    <2>3. CASE u \notin Above(up, q)
      <3>1. Upward(Above(up, q), next)
        BY <2>2, <2>3 DEF Upward
      <3> QED
        BY <2>1, <2>2, <3>1
    <2>4. CASE u \in Above(up, q)
      <3>1. Upward(Above(up, q) \cup Above(up, p), next)
        BY <2>2 DEF Upward
      <3>2. x \in Above(up, p)
        BY <2>1, <2>2, <3>1
      <3>3. q \in Above(up, p)
        BY <2>1, <2>2, <3>2 DEF Upward
      <3>4. Above(up, q) \subseteq Above(up, p)
        BY <2>2, <3>3
      <3> QED
        BY <2>4, <3>4
    <2> QED
      BY <2>3, <2>4
  <1> QED
    BY <1>3, <1>4

\* The registration of u binds a leaf: nobody was invited by u, and p's inviters
\* are among those who were there.
LEMMA LeafStaysAcyclic ==
    ASSUME NEW up, NEW next, Forest(up), NEW u \in Invited, NEW R \in SUBSET Invited, NEW p \in R, u \notin R,
           Upward(R, up), DOMAIN next = DOMAIN up \cup {u}, next[u] = p,
           \A x \in DOMAIN up \ {u} : next[x] = up[x]
    PROVE  Forest(next)
  <1>1. Above(up, p) \subseteq R
    BY AboveFacts DEF Forest
  <1> QED
    BY <1>1, MovedStaysAcyclic

LEMMA AncestorsAreAbove ==
    ASSUME BindingsOK, NEW u
    PROVE  ancestors(u) = Above(Inviters, u)
  <1>1. ASSUME NEW S \in SUBSET Invited PROVE Parents(S) \subseteq S <=> Upward(S, Inviters)
    <2>1. \A x \in S : x \in Bounds <=> bound[x] # NoBinding
      BY DEF Bounds
    <2>2. DOMAIN Inviters = Bounds /\ \A x \in Bounds : Inviters[x] = inviteCode[bound[x].code].owner
      BY DEF Inviters
    <2>3. ASSUME Parents(S) \subseteq S, NEW x \in S, x \in DOMAIN Inviters PROVE Inviters[x] \in S
      <3>1. inviteCode[bound[x].code].owner \in Parents(S)
        BY <2>1, <2>2, <2>3 DEF Parents
      <3> QED
        BY <2>2, <2>3, <3>1
    <2>4. ASSUME Upward(S, Inviters), NEW p \in Parents(S) PROVE p \in S
      <3>1. PICK x \in S : bound[x] # NoBinding /\ p = inviteCode[bound[x].code].owner
        BY <2>4 DEF Parents
      <3> QED
        BY <2>1, <2>2, <2>4, <3>1 DEF Upward
    <2> QED
      BY <2>3, <2>4 DEF Upward
  <1> QED
    BY <1>1 DEF ancestors, Above

\* What a transaction does to codes and accounts leaves the bindings as they are.
LEMMA BindingsStay ==
    ASSUME MembersOK, CodesOK, BindingsOK, UNCHANGED bound,
           \A c \in Text : inviteCode[c].status # "none" =>
               inviteCode'[c].status # "none" /\ inviteCode'[c].owner = inviteCode[c].owner
    PROVE  BindingsOK'
  <1>1. Bounds' = Bounds
    BY DEF Bounds
  <1>2. \A u \in Bounds : bound[u].code \in Text /\ inviteCode[bound[u].code].status # "none"
    BY DEF Bounds, BindingsOK
  <1>3. Inviters' = Inviters
    BY <1>1, <1>2 DEF Inviters
  <1>4. Forest(Inviters')
    BY <1>3 DEF BindingsOK
  <1>5. \A u \in Invited : bound'[u] # NoBinding =>
         /\ DOMAIN bound'[u] = {"code", "version"}
         /\ bound'[u].version \in Nat \ {0} /\ bound'[u].code \in Text
         /\ inviteCode'[bound'[u].code].status # "none"
    BY <1>2 DEF BindingsOK
  <1> QED
    BY <1>4, <1>5 DEF BindingsOK, Forest, Acyclic, Above, Upward

LEMMA VersionsAreNumbers == ASSUME BindingsOK, NEW u \in Invited PROVE bound[u].version \in Nat
  BY DEF BindingsOK, NoBinding

\* A transaction that goes on keeps apart from the others.
LEMMA StaysExclusive ==
    ASSUME Exclusive, NEW t \in Deal, \A o \in Deal \ {t} : deal'[o] = deal[o],
           deal'[t].kind # "none" =>
             /\ deal'[t].holds # NoText =>
                  \A o \in Deal \ {t} : deal[o].kind # "none" => deal[o].holds # deal'[t].holds
             /\ deal'[t].kind = "change" =>
                  \A o \in Deal \ {t} : deal[o].kind = "change" => deal[o].user # deal'[t].user
    PROVE  Exclusive'
  <1>1. ASSUME NEW a \in Deal, NEW b \in Deal, a # b, deal'[a].kind # "none", deal'[b].kind # "none",
               deal'[a].holds # NoText
        PROVE  deal'[b].holds # deal'[a].holds
    <2>1. CASE a = t
      BY <1>1, <2>1
    <2>2. CASE b = t
      BY <1>1, <2>2
    <2>3. CASE a # t /\ b # t
      BY <1>1, <2>3 DEF Exclusive
    <2> QED
      BY <2>1, <2>2, <2>3
  <1>2. ASSUME NEW a \in Deal, NEW b \in Deal, a # b, deal'[a].kind = "change", deal'[b].kind = "change"
        PROVE  deal'[b].user # deal'[a].user
    <2>1. CASE a = t
      BY <1>2, <2>1
    <2>2. CASE b = t
      BY <1>2, <2>2
    <2>3. CASE a # t /\ b # t
      BY <1>2, <2>3 DEF Exclusive
    <2> QED
      BY <2>1, <2>2, <2>3
  <1> QED
    BY <1>1, <1>2 DEF Exclusive

\* The other transactions still know what they knew, if nobody touches the codes
\* they hold or uses up their change.
LEMMA OthersKnow ==
    ASSUME DealsOK, BindingsOK, NEW o \in Deal, deal'[o] = deal[o],
           \A u \in Invited : member[u].registered => member'[u].registered,
           deal[o].kind = "change" => member'[deal[o].user].changed = member[deal[o].user].changed,
           deal[o].kind # "none" /\ deal[o].holds # NoText => inviteCode'[deal[o].holds] = inviteCode[deal[o].holds],
           \A u \in Invited : bound'[u] = bound[u] \/ bound'[u].version = bound[u].version + 1
    PROVE  DealOK(o)'
  <1>0. DealOK(o)
    BY DEF DealsOK
  <1>1. deal[o].kind \in {"look", "relate"} => Seen(deal[o])'
    <2> SUFFICES ASSUME deal[o].kind \in {"look", "relate"} PROVE Seen(deal[o])'
      OBVIOUS
    <2> PICK d : d = deal[o]
      OBVIOUS
    <2>1. d.user \in Invited /\ Seen(d)
      BY <1>0 DEF DealOK
    <2>2. bound[d.user].version \in Nat
      BY <2>1, VersionsAreNumbers
    <2>3. CASE bound'[d.user] = bound[d.user]
      BY <2>1, <2>3 DEF Seen
    <2>4. CASE bound'[d.user].version = bound[d.user].version + 1
      BY <2>1, <2>2, <2>4 DEF Seen
    <2> QED
      BY <2>1, <2>3, <2>4
  <1>2. CASE deal[o].kind = "register"
    <2>1. NoText \notin Text
      BY InvitationAssumption DEF InvitationAssumption
    <2> QED
      BY <1>0, <1>2, <2>1 DEF DealOK
  <1>3. CASE deal[o].kind = "change"
    BY <1>0, <1>3 DEF DealOK
  <1>4. CASE deal[o].kind = "reset"
    <2>1. NoText \notin Text
      BY InvitationAssumption DEF InvitationAssumption
    <2> QED
      BY <1>0, <1>4, <2>1 DEF DealOK
  <1>5. CASE deal[o].kind \in {"look", "relate"}
    BY <1>0, <1>1, <1>5 DEF DealOK
  <1>6. CASE deal[o].kind = "none"
    BY <1>0, <1>6 DEF DealOK
  <1> QED
    BY <1>0, <1>2, <1>3, <1>4, <1>5, <1>6 DEF DealOK

LEMMA DealOnly ==
    ASSUME InviteInv, NEW t \in Deal, UNCHANGED <<member, inviteCode, bound>>, DOMAIN deal' = Deal,
           \A o \in Deal \ {t} : deal'[o] = deal[o], DealOK(t)',
           deal'[t].kind # "none" =>
             /\ deal'[t].holds # NoText =>
                  \A o \in Deal \ {t} : deal[o].kind # "none" => deal[o].holds # deal'[t].holds
             /\ deal'[t].kind = "change" =>
                  \A o \in Deal \ {t} : deal[o].kind = "change" => deal[o].user # deal'[t].user
    PROVE  InviteInv'
  <1>1. MembersOK' /\ CodesOK'
    BY DEF InviteInv, MembersOK, CodesOK
  <1>2. BindingsOK'
    BY BindingsStay DEF InviteInv
  <1>3. Exclusive'
    BY StaysExclusive DEF InviteInv, DealsOK
  <1>4. ASSUME NEW o \in Deal \ {t} PROVE DealOK(o)'
    BY <1>4, OthersKnow DEF InviteInv
  <1> QED
    BY <1>1, <1>2, <1>3, <1>4 DEF InviteInv, DealsOK

LEMMA NoDealIsOK == ASSUME NEW t, deal'[t] = NoDeal PROVE DealOK(t)'
  BY DEF DealOK, NoDeal

LEMMA Replaces ==
    ASSUME DealsOK, NEW t \in Deal, NEW r, deal' = [deal EXCEPT ![t] = r]
    PROVE  DOMAIN deal' = Deal /\ deal'[t] = r /\ \A o \in Deal \ {t} : deal'[o] = deal[o]
  BY DEF DealsOK

LEMMA ClosesOnly ==
    ASSUME InviteInv, NEW t \in Deal, Close(t), UNCHANGED <<member, inviteCode, bound>>
    PROVE  InviteInv'
  <1>1. DOMAIN deal' = Deal /\ deal'[t] = NoDeal /\ \A o \in Deal \ {t} : deal'[o] = deal[o]
    BY Replaces DEF InviteInv, Close, Goes
  <1>2. deal'[t].kind = "none"
    BY <1>1 DEF NoDeal
  <1> QED
    BY <1>1, <1>2, NoDealIsOK, DealOnly

\* registrationPolicy, and the look at a relation: transactions without a lock.
LEMMA OpensWithoutLock ==
    ASSUME InviteInv, NEW t \in Deal,
           \/ \E u \in Invited, c \in Text \union {NoText}, pw \in BOOLEAN : registrationPolicy(t, u, c, pw)
           \/ \E u \in Invited, c \in Text : LookAtRelation(t, u, c)
    PROVE  InviteInv'
  <1>1. ASSUME NEW u \in Invited, NEW c \in Text \union {NoText}, NEW pw \in BOOLEAN, registrationPolicy(t, u, c, pw)
        PROVE  InviteInv'
    <2> PICK r : r = [kind |-> "register", user |-> u, text |-> IF mode = "disabled" THEN NoText ELSE c,
                      password |-> pw, by |-> t, holds |-> NoText, resolved |-> FALSE]
      OBVIOUS
    <2>1. deal' = [deal EXCEPT ![t] = r] /\ UNCHANGED <<member, inviteCode, bound>>
      BY <1>1 DEF registrationPolicy, Open
    <2>2. DOMAIN deal' = Deal /\ deal'[t] = r /\ \A o \in Deal \ {t} : deal'[o] = deal[o]
      BY <2>1, Replaces DEF InviteInv
    <2>3. DealOK(t)'
      <3>1. /\ DOMAIN r = {"kind", "user", "text", "password", "by", "holds", "resolved"}
            /\ r.kind = "register" /\ r.user = u /\ r.text \in Text \cup {NoText} /\ ~r.resolved /\ r.holds = NoText
        OBVIOUS
      <3> QED
        BY <2>2, <3>1 DEF DealOK
    <2> QED
      BY <2>1, <2>2, <2>3, DealOnly
  <1>2. ASSUME NEW u \in Invited, NEW c \in Text, LookAtRelation(t, u, c) PROVE InviteInv'
    <2> PICK r : r = [kind |-> "look", user |-> u, text |-> c, seen |-> bound[u], holds |-> NoText]
      OBVIOUS
    <2>1. deal' = [deal EXCEPT ![t] = r] /\ UNCHANGED <<member, inviteCode, bound>>
      BY <1>2 DEF LookAtRelation, Open
    <2>2. DOMAIN deal' = Deal /\ deal'[t] = r /\ \A o \in Deal \ {t} : deal'[o] = deal[o]
      BY <2>1, Replaces DEF InviteInv
    <2>3. DealOK(t)'
      <3>1. bound[u].version \in Nat
        BY VersionsAreNumbers DEF InviteInv
      <3>2. r.kind = "look" /\ r.user = u /\ r.text = c /\ r.seen = bound[u] /\ r.holds = NoText
        OBVIOUS
      <3> QED
        BY <2>1, <2>2, <3>1, <3>2 DEF DealOK, Seen
    <2> QED
      BY <2>1, <2>2, <2>3, DealOnly
  <1> QED
    BY <1>1, <1>2

LEMMA ResolvesCode == ASSUME InviteInv, NEW t \in Deal, resolveInviteCodeTx(t) PROVE InviteInv'
  <1> PICK d : d = deal[t]
    OBVIOUS
  <1>1. /\ DealOK(t) /\ d.kind = "register" /\ ~d.resolved /\ UNCHANGED <<member, inviteCode, bound>>
        /\ d.text # NoText => CodeFree(t, d.text)
    BY DEF resolveInviteCodeTx, InviteInv, DealsOK
  <1>2. /\ DOMAIN d = {"kind", "user", "text", "password", "by", "holds", "resolved"} /\ d.holds = NoText
        /\ d.user \in Invited /\ d.text \in Text \cup {NoText}
    BY <1>1 DEF DealOK
  <1>3. CASE d.text = NoText
    <2> PICK r : r = [d EXCEPT !.resolved = TRUE]
      OBVIOUS
    <2>1. deal' = [deal EXCEPT ![t] = r]
      BY <1>3 DEF resolveInviteCodeTx, Goes
    <2>2. DOMAIN deal' = Deal /\ deal'[t] = r /\ \A o \in Deal \ {t} : deal'[o] = deal[o]
      BY <2>1, Replaces DEF InviteInv
    <2>3. /\ DOMAIN r = {"kind", "user", "text", "password", "by", "holds", "resolved"}
          /\ r.kind = "register" /\ r.user = d.user /\ r.text = NoText /\ r.holds = NoText
      BY <1>1, <1>2, <1>3
    <2>4. DealOK(t)'
      BY <1>2, <2>2, <2>3 DEF DealOK
    <2> QED
      BY <1>1, <2>2, <2>3, <2>4, DealOnly
  <1>4. CASE d.text # NoText /\ Usable(d.text)
    <2> PICK r : r = [d EXCEPT !.resolved = TRUE, !.holds = d.text]
      OBVIOUS
    <2>1. deal' = [deal EXCEPT ![t] = r]
      BY <1>4 DEF resolveInviteCodeTx, Goes, Held
    <2>2. DOMAIN deal' = Deal /\ deal'[t] = r /\ \A o \in Deal \ {t} : deal'[o] = deal[o]
      BY <2>1, Replaces DEF InviteInv
    <2>3. /\ DOMAIN r = {"kind", "user", "text", "password", "by", "holds", "resolved"} /\ r.resolved
          /\ r.kind = "register" /\ r.user = d.user /\ r.text = d.text /\ r.holds = d.text
      BY <1>1, <1>2, <1>4
    <2>4. DealOK(t)'
      BY <1>1, <1>2, <1>4, <2>2, <2>3 DEF DealOK, Usable
    <2>5. \A o \in Deal \ {t} : deal[o].kind # "none" => deal[o].holds # deal'[t].holds
      BY <1>1, <1>4, <2>2, <2>3 DEF CodeFree
    <2> QED
      BY <1>1, <2>2, <2>3, <2>4, <2>5, DealOnly
  <1>5. CASE d.text # NoText /\ ~Usable(d.text)
    BY <1>1, <1>5, ClosesOnly DEF resolveInviteCodeTx, Close
  <1> QED
    BY <1>3, <1>4, <1>5

\* A change locks its user, a reset its code, a correction the graph and a pair.
LEMMA LocksForDeal ==
    ASSUME InviteInv, NEW t \in Deal,
           \/ \E u \in Invited, c \in Text : LockUserForChange(t, u, c)
           \/ \E c \in Text : LockForReset(t, c)
           \/ LockPair(t)
    PROVE  InviteInv'
  <1>1. ASSUME NEW u \in Invited, NEW c \in Text, LockUserForChange(t, u, c) PROVE InviteInv'
    <2> PICK r : r = [kind |-> "change", user |-> u, text |-> c, holds |-> NoText]
      OBVIOUS
    <2>1. deal' = [deal EXCEPT ![t] = r] /\ UNCHANGED <<member, inviteCode, bound>>
      BY <1>1 DEF LockUserForChange, Open
    <2>2. DOMAIN deal' = Deal /\ deal'[t] = r /\ \A o \in Deal \ {t} : deal'[o] = deal[o]
      BY <2>1, Replaces DEF InviteInv
    <2>3. r.kind = "change" /\ r.user = u /\ r.text = c /\ r.holds = NoText
      OBVIOUS
    <2>4. DealOK(t)'
      BY <1>1, <2>1, <2>2, <2>3 DEF DealOK, LockUserForChange, MayChange
    <2>5. \A o \in Deal \ {t} : deal[o].kind = "change" => deal[o].user # u
      BY <1>1 DEF LockUserForChange, UserFree, KeyShared
    <2> QED
      BY <2>1, <2>2, <2>3, <2>4, <2>5, DealOnly
  <1>2. ASSUME NEW c \in Text, LockForReset(t, c) PROVE InviteInv'
    <2> PICK r : r = [kind |-> "reset", text |-> c, holds |-> c]
      OBVIOUS
    <2>1. deal' = [deal EXCEPT ![t] = r] /\ UNCHANGED <<member, inviteCode, bound>>
      BY <1>2 DEF LockForReset, Open
    <2>2. DOMAIN deal' = Deal /\ deal'[t] = r /\ \A o \in Deal \ {t} : deal'[o] = deal[o]
      BY <2>1, Replaces DEF InviteInv
    <2>3. r.kind = "reset" /\ r.text = c /\ r.holds = c
      OBVIOUS
    <2>4. DealOK(t)'
      BY <1>2, <2>1, <2>2, <2>3 DEF DealOK, LockForReset
    <2>5. \A o \in Deal \ {t} : deal[o].kind # "none" => deal[o].holds # c
      BY <1>2 DEF LockForReset, CodeFree
    <2> QED
      BY <2>1, <2>2, <2>3, <2>4, <2>5, DealOnly
  <1>3. CASE LockPair(t)
    <2> PICK d, o : d = deal[t] /\ o = inviteCode[d.text].owner
      OBVIOUS
    <2>1. DealOK(t) /\ d.kind = "look" /\ UNCHANGED <<member, inviteCode, bound>>
      BY <1>3 DEF LockPair, InviteInv, DealsOK
    <2>2. CASE inviteCode[d.text].status # "none" /\ o # d.user /\ ~member[o].banned /\ member[d.user].registered
      <3> PICK r : r = [kind |-> "relate", user |-> d.user, text |-> d.text, seen |-> d.seen,
                        pair |-> {d.user, o}, holds |-> NoText]
        OBVIOUS
      <3>1. deal' = [deal EXCEPT ![t] = r]
        BY <1>3, <2>2 DEF LockPair, Goes
      <3>2. DOMAIN deal' = Deal /\ deal'[t] = r /\ \A x \in Deal \ {t} : deal'[x] = deal[x]
        BY <3>1, Replaces DEF InviteInv
      <3>3. r.kind = "relate" /\ r.user = d.user /\ r.text = d.text /\ r.seen = d.seen /\ r.holds = NoText
        OBVIOUS
      <3>4. d.user \in Invited /\ d.text \in Text /\ Seen(d)
        BY <2>1 DEF DealOK
      <3>5. Seen(r)'
        BY <2>1, <3>3, <3>4 DEF Seen
      <3>6. DealOK(t)'
        BY <2>1, <2>2, <3>2, <3>3, <3>4, <3>5 DEF DealOK
      <3> QED
        BY <2>1, <3>2, <3>3, <3>6, DealOnly
    <2>3. CASE ~(inviteCode[d.text].status # "none" /\ o # d.user /\ ~member[o].banned /\ member[d.user].registered)
      BY <1>3, <2>1, <2>3, ClosesOnly DEF LockPair, Close
    <2> QED
      BY <2>2, <2>3
  <1> QED
    BY <1>1, <1>2, <1>3

LEMMA HeldIsCurrent ==
    ASSUME DealsOK, NEW o \in Deal, deal[o].kind # "none", deal[o].holds # NoText
    PROVE  deal[o].holds \in Text /\ inviteCode[deal[o].holds].status \in Current
  <1>1. DealOK(o)
    BY DEF DealsOK
  <1> QED
    BY <1>1 DEF DealOK, Current

LEMMA StatusSteps ==
    ASSUME InviteInv, NEW c \in Text, NEW status \in Current, SetAdminInviteCodeStatus(c, status)
    PROVE  InviteInv'
  <1>1. UNCHANGED <<member, bound, deal>>
    BY DEF SetAdminInviteCodeStatus
  <1>2. /\ DOMAIN inviteCode' = Text /\ \A x \in Text \ {c} : inviteCode'[x] = inviteCode[x]
        /\ inviteCode'[c].status = status /\ inviteCode'[c].owner = inviteCode[c].owner
        /\ inviteCode'[c].source = inviteCode[c].source /\ inviteCode[c].status \in Current
        /\ DOMAIN inviteCode'[c] = {"owner", "status", "source"}
    BY DEF SetAdminInviteCodeStatus, InviteInv, CodesOK
  <1>3. MembersOK'
    BY <1>1 DEF InviteInv, MembersOK
  <1>4. CodesOK'
    BY <1>1, <1>2 DEF InviteInv, CodesOK, Current
  <1>5. BindingsOK'
    BY <1>1, <1>2, BindingsStay DEF InviteInv, Current
  <1>6. ASSUME NEW o \in Deal PROVE DealOK(o)'
    <2>1. deal[o].kind # "none" => deal[o].holds # c
      BY DEF SetAdminInviteCodeStatus
    <2>2. deal[o].kind # "none" /\ deal[o].holds # NoText => inviteCode'[deal[o].holds] = inviteCode[deal[o].holds]
      BY <1>2, <2>1, HeldIsCurrent DEF InviteInv
    <2> QED
      BY <1>1, <2>2, OthersKnow DEF InviteInv
  <1>7. Exclusive' /\ DOMAIN deal' = Deal
    BY <1>1 DEF InviteInv, DealsOK, Exclusive
  <1> QED
    BY <1>3, <1>4, <1>5, <1>6, <1>7 DEF InviteInv, DealsOK

\* A code is retired for another one of the same owner.
LEMMA Reissued ==
    ASSUME InviteInv, NEW t \in Deal, NEW c \in Text, NEW n \in Unused, NEW u, NEW source,
           inviteCode[c].status \in Current, inviteCode[c].owner = u, CodeFree(t, c), Close(t),
           inviteCode' = Issue(Retire(inviteCode, c), u, n, source), UNCHANGED bound,
           \/ source = "admin" /\ UNCHANGED member
           \/ source = "user" /\ member' = [member EXCEPT ![u].changed = TRUE]
              /\ deal[t].kind = "change" /\ deal[t].user = u
    PROVE  InviteInv'
  <1>1. /\ n \in Text /\ n # c /\ inviteCode[n].status = "none" /\ u \in Invited /\ member[u].registered
    BY DEF Unused, InviteInv, CodesOK, Current
  <1>2. DOMAIN deal' = Deal /\ deal'[t] = NoDeal /\ \A o \in Deal \ {t} : deal'[o] = deal[o]
    BY Replaces DEF InviteInv, Close, Goes
  <1>3. /\ DOMAIN inviteCode' = Text /\ \A x \in Text \ {c, n} : inviteCode'[x] = inviteCode[x]
        /\ inviteCode'[c].status = "retired" /\ inviteCode'[c].owner = u /\ inviteCode'[c].source = inviteCode[c].source
        /\ DOMAIN inviteCode'[c] = {"owner", "status", "source"}
        /\ inviteCode'[n] = [owner |-> u, status |-> "active", source |-> source]
    BY <1>1 DEF Issue, Retire, InviteInv, CodesOK
  <1>4. /\ DOMAIN member' = Invited
        /\ \A x \in Invited : /\ DOMAIN member'[x] = {"registered", "banned", "changed"}
                              /\ member'[x].registered = member[x].registered
                              /\ x # u => member'[x] = member[x]
                              /\ member[x].changed => member'[x].changed
    BY <1>1 DEF InviteInv, MembersOK
  <1>5. MembersOK'
    BY <1>4 DEF InviteInv, MembersOK
  <1>6. CodesOK'
    <2>1. ASSUME NEW x \in Text
          PROVE  /\ DOMAIN inviteCode'[x] = {"owner", "status", "source"}
                 /\ inviteCode'[x].status \in {"none", "active", "disabled", "retired"}
                 /\ inviteCode'[x].status # "none" =>
                      inviteCode'[x].owner \in Invited /\ member'[inviteCode'[x].owner].registered
      <3>1. CASE x = c
        BY <1>1, <1>3, <1>4, <3>1
      <3>2. CASE x = n
        BY <1>1, <1>3, <1>4, <3>2
      <3>3. CASE x \notin {c, n}
        BY <1>3, <1>4, <3>3 DEF InviteInv, CodesOK
      <3> QED
        BY <3>1, <3>2, <3>3
    <2>2. ASSUME NEW x \in Text, inviteCode'[x].source = "user"
          PROVE  inviteCode'[x].status # "none" /\ member'[inviteCode'[x].owner].changed
      <3>1. CASE x = c
        <4>1. member[u].changed
          BY <1>3, <2>2, <3>1 DEF InviteInv, CodesOK
        <4> QED
          BY <1>1, <1>3, <1>4, <3>1, <4>1
      <3>2. CASE x = n
        <4>1. source = "user" /\ inviteCode'[n].owner = u /\ inviteCode'[n].status = "active"
          BY <1>3, <2>2, <3>2
        <4>2. member'[u].changed
          BY <1>1, <4>1 DEF InviteInv, MembersOK
        <4> QED
          BY <3>2, <4>1, <4>2
      <3>3. CASE x \notin {c, n}
        BY <1>3, <1>4, <2>2, <3>3 DEF InviteInv, CodesOK
      <3> QED
        BY <3>1, <3>2, <3>3
    <2>3. source = "user" => ~member[u].changed
      <3>1. DealOK(t)
        BY DEF InviteInv, DealsOK
      <3> QED
        BY <3>1 DEF DealOK
    <2>4. \A x \in Text : inviteCode[x].source = "user" =>
             inviteCode[x].status # "none" /\ member[inviteCode[x].owner].changed
      BY DEF InviteInv, CodesOK
    <2>5. \A x \in Text \ {n} : inviteCode'[x].source = inviteCode[x].source /\ inviteCode'[x].owner = inviteCode[x].owner
      BY <1>3
    <2>6. ASSUME NEW x \in Text, NEW y \in Text, inviteCode'[x].source = "user", inviteCode'[y].source = "user",
                 inviteCode'[x].owner = inviteCode'[y].owner, x # y
          PROVE  FALSE
      <3>1. CASE x # n /\ y # n
        BY <2>5, <2>6, <3>1 DEF InviteInv, CodesOK
      <3>2. CASE x = n
        BY <1>3, <2>3, <2>4, <2>5, <2>6, <3>2
      <3>3. CASE y = n
        BY <1>3, <2>3, <2>4, <2>5, <2>6, <3>3
      <3> QED
        BY <3>1, <3>2, <3>3
    <2> QED
      BY <1>3, <2>1, <2>2, <2>6 DEF CodesOK
  <1>7. BindingsOK'
    <2>1. \A x \in Text : inviteCode[x].status # "none" =>
             inviteCode'[x].status # "none" /\ inviteCode'[x].owner = inviteCode[x].owner
      BY <1>1, <1>3
    <2> QED
      BY <2>1, BindingsStay DEF InviteInv
  <1>8. ASSUME NEW o \in Deal \ {t} PROVE DealOK(o)'
    <2>1. deal[o].kind # "none" /\ deal[o].holds # NoText => inviteCode'[deal[o].holds] = inviteCode[deal[o].holds]
      <3> SUFFICES ASSUME deal[o].kind # "none", deal[o].holds # NoText
                   PROVE  inviteCode'[deal[o].holds] = inviteCode[deal[o].holds]
        OBVIOUS
      <3>1. deal[o].holds \in Text /\ deal[o].holds # n
        BY <1>1, HeldIsCurrent DEF InviteInv, Current
      <3>2. deal[o].holds # c
        BY DEF CodeFree
      <3> QED
        BY <1>3, <3>1, <3>2
    <2>2. deal[o].kind = "change" => member'[deal[o].user].changed = member[deal[o].user].changed
      <3> SUFFICES ASSUME deal[o].kind = "change"
                   PROVE  member'[deal[o].user].changed = member[deal[o].user].changed
        OBVIOUS
      <3>1. CASE UNCHANGED member
        BY <3>1
      <3>2. CASE deal[t].kind = "change" /\ deal[t].user = u
        <4>1. deal[o].user # u /\ deal[o].user \in Invited
          BY <3>2 DEF InviteInv, DealsOK, Exclusive, DealOK
        <4> QED
          BY <1>4, <4>1
      <3> QED
        BY <3>1, <3>2
    <2> QED
      BY <1>2, <1>4, <2>1, <2>2, OthersKnow DEF InviteInv
  <1>9. Exclusive'
    <2>1. deal'[t].kind = "none"
      BY <1>2 DEF NoDeal
    <2> QED
      BY <1>2, <2>1, StaysExclusive DEF InviteInv, DealsOK
  <1> QED
    BY <1>2, <1>5, <1>6, <1>7, <1>8, <1>9, NoDealIsOK DEF InviteInv, DealsOK

LEMMA ReplacementSteps ==
    ASSUME InviteInv, NEW t \in Deal, ChangeUserInviteCode(t) \/ ResetAdminInviteCode(t)
    PROVE  InviteInv'
  <1> PICK d : d = deal[t]
    OBVIOUS
  <1>0. DealOK(t)
    BY DEF InviteInv, DealsOK
  <1>1. CASE ChangeUserInviteCode(t)
    <2>1. CASE d.text \in Unused /\ \E c \in CodesOf(d.user) : inviteCode[c].status = "active"
      <3>1. PICK c \in CodesOf(d.user) :
                   /\ inviteCode' = Issue(Retire(inviteCode, c), d.user, d.text, "user")
                   /\ member' = [member EXCEPT ![d.user].changed = TRUE]
        BY <1>1, <2>1 DEF ChangeUserInviteCode
      <3>2. d.kind = "change" /\ Close(t) /\ UNCHANGED bound /\ CodeFree(t, c)
        BY <1>1 DEF ChangeUserInviteCode
      <3>3. c \in Text /\ inviteCode[c].status \in Current /\ inviteCode[c].owner = d.user
        BY DEF CodesOf
      <3> QED
        BY <2>1, <3>1, <3>2, <3>3, Reissued
    <2>2. CASE ~(d.text \in Unused /\ \E c \in CodesOf(d.user) : inviteCode[c].status = "active")
      BY <1>1, <2>2, ClosesOnly DEF ChangeUserInviteCode
    <2> QED
      BY <2>1, <2>2
  <1>2. CASE ResetAdminInviteCode(t)
    <2>1. d.kind = "reset" /\ Close(t) /\ UNCHANGED <<member, bound>>
      BY <1>2 DEF ResetAdminInviteCode
    <2>2. PICK n \in Unused : inviteCode' = Issue(Retire(inviteCode, d.text), inviteCode[d.text].owner, n, "admin")
      BY <1>2 DEF ResetAdminInviteCode
    <2>3. d.text \in Text /\ d.holds = d.text /\ inviteCode[d.text].status \in Current
      BY <1>0, <2>1 DEF DealOK
    <2>4. d.text # NoText
      BY <2>3, InvitationAssumption DEF InvitationAssumption
    <2>5. CodeFree(t, d.text)
      BY <2>1, <2>3, <2>4 DEF CodeFree, InviteInv, DealsOK, Exclusive
    <2> QED
      BY <2>1, <2>2, <2>3, <2>5, Reissued
  <1> QED
    BY <1>1, <1>2

LEMMA BanSteps == ASSUME InviteInv, NEW u \in Invited, NEW on \in BOOLEAN, SetInviterBanned(u, on) PROVE InviteInv'
  <1>1. UNCHANGED <<inviteCode, bound, deal>> /\ member' = [member EXCEPT ![u].banned = on]
    BY DEF SetInviterBanned
  <1>2. /\ DOMAIN member' = Invited
        /\ \A x \in Invited : /\ DOMAIN member'[x] = {"registered", "banned", "changed"}
                              /\ member'[x].registered = member[x].registered
                              /\ member'[x].changed = member[x].changed
    BY <1>1 DEF InviteInv, MembersOK
  <1>3. MembersOK'
    BY <1>1, <1>2 DEF InviteInv, MembersOK
  <1>4. CodesOK'
    <2>1. \A c \in Text : inviteCode[c].source = "user" => inviteCode[c].owner \in Invited
      BY DEF InviteInv, CodesOK
    <2> QED
      BY <1>1, <1>2, <2>1 DEF InviteInv, CodesOK
  <1>5. BindingsOK'
    BY <1>1, BindingsStay DEF InviteInv
  <1>6. ASSUME NEW o \in Deal PROVE DealOK(o)'
    <2>1. deal[o].kind = "change" => deal[o].user \in Invited
      BY DEF InviteInv, DealsOK, DealOK
    <2> QED
      BY <1>1, <1>2, <2>1, OthersKnow DEF InviteInv
  <1>7. Exclusive' /\ DOMAIN deal' = Deal
    BY <1>1 DEF InviteInv, DealsOK, Exclusive
  <1> QED
    BY <1>3, <1>4, <1>5, <1>6, <1>7 DEF InviteInv, DealsOK

\* A new account gets a code nobody had, and a relation to a code that is active.
LEMMA RegistersSteps ==
    ASSUME InviteInv, NEW t \in Deal, deal[t].kind = "register", deal[t].resolved,
           ~member[deal[t].user].registered, Registers(deal[t]), Close(t)
    PROVE  /\ InviteInv'
           /\ \A u \in Invited : bound'[u] # bound[u] => inviteCode[bound'[u].code].status = "active"
  <1> PICK u, text : u = deal[t].user /\ text = deal[t].text
    OBVIOUS
  <1>0. NoText \notin Text
    BY InvitationAssumption DEF InvitationAssumption
  <1>1. /\ u \in Invited /\ ~member[u].registered /\ bound[u] = NoBinding
        /\ text \in Text \cup {NoText}
        /\ text # NoText => text \in Text /\ inviteCode[text].status = "active"
    BY DEF InviteInv, DealsOK, DealOK, MembersOK
  <1>2. DOMAIN deal' = Deal /\ deal'[t] = NoDeal /\ \A o \in Deal \ {t} : deal'[o] = deal[o]
    BY Replaces DEF InviteInv, Close, Goes
  <1>3. /\ DOMAIN member' = Invited
        /\ \A x \in Invited : /\ DOMAIN member'[x] = {"registered", "banned", "changed"}
                              /\ x # u => member'[x] = member[x]
                              /\ member'[x].changed = member[x].changed
        /\ member'[u].registered
    BY <1>1 DEF Registers, Joined, InviteInv, MembersOK
  <1>4. \/ UNCHANGED inviteCode
        \/ \E c \in Unused : inviteCode' = Issue(inviteCode, u, c, "system")
    BY DEF Registers, ensureInviteCodeTx
  <1>5. /\ DOMAIN inviteCode' = Text
        /\ \A x \in Text :
             \/ inviteCode'[x] = inviteCode[x]
             \/ inviteCode[x].status = "none" /\ inviteCode'[x] = [owner |-> u, status |-> "active", source |-> "system"]
    <2>1. CASE UNCHANGED inviteCode
      BY <2>1 DEF InviteInv, CodesOK
    <2>2. CASE \E c \in Unused : inviteCode' = Issue(inviteCode, u, c, "system")
      BY <2>2 DEF Issue, Unused, InviteInv, CodesOK
    <2> QED
      BY <1>4, <2>1, <2>2
  <1>6. bound' = IF text = NoText THEN bound ELSE [bound EXCEPT ![u] = [code |-> text, version |-> 1]]
    BY DEF Registers, Bound
  <1>7. /\ DOMAIN bound' = Invited /\ \A x \in Invited \ {u} : bound'[x] = bound[x]
        /\ text = NoText => bound' = bound
        /\ text # NoText => bound'[u] = [code |-> text, version |-> 1]
    BY <1>1, <1>6 DEF InviteInv, BindingsOK
  <1>8. MembersOK'
    BY <1>1, <1>3, <1>7 DEF InviteInv, MembersOK
  <1>9. CodesOK'
    <2>1. ASSUME NEW x \in Text
          PROVE  /\ DOMAIN inviteCode'[x] = {"owner", "status", "source"}
                 /\ inviteCode'[x].status \in {"none", "active", "disabled", "retired"}
                 /\ inviteCode'[x].status # "none" =>
                      inviteCode'[x].owner \in Invited /\ member'[inviteCode'[x].owner].registered
                 /\ inviteCode'[x].source = "user" => inviteCode'[x] = inviteCode[x]
      <3>1. CASE inviteCode'[x] = inviteCode[x]
        BY <1>1, <1>3, <3>1 DEF InviteInv, CodesOK
      <3>2. CASE inviteCode'[x] = [owner |-> u, status |-> "active", source |-> "system"]
        BY <1>1, <1>3, <3>2
      <3> QED
        BY <1>5, <3>1, <3>2
    <2>2. ASSUME NEW x \in Text, inviteCode'[x].source = "user"
          PROVE  inviteCode'[x].status # "none" /\ member'[inviteCode'[x].owner].changed
      BY <1>3, <2>1, <2>2 DEF InviteInv, CodesOK
    <2>3. \A x, y \in Text : inviteCode'[x].source = "user" /\ inviteCode'[y].source = "user"
                             /\ inviteCode'[x].owner = inviteCode'[y].owner => x = y
      BY <2>1 DEF InviteInv, CodesOK
    <2> QED
      BY <1>5, <2>1, <2>2, <2>3 DEF CodesOK
  <1>10. \A c \in Text : inviteCode[c].status # "none" => inviteCode'[c] = inviteCode[c]
    BY <1>5
  <1>11. BindingsOK'
    <2>1. CASE text = NoText
      BY <1>7, <1>10, <2>1, BindingsStay DEF InviteInv
    <2>2. CASE text # NoText
      <3> PICK up, next : up = Inviters /\ next = Inviters'
        OBVIOUS
      <3> PICK p : p = inviteCode[text].owner
        OBVIOUS
      <3>1. p \in Invited /\ member[p].registered /\ p # u
        BY <1>1, <2>2 DEF InviteInv, CodesOK
      <3>2. [code |-> text, version |-> 1] # NoBinding
        BY <2>2 DEF NoBinding
      <3>3. Bounds' = Bounds \cup {u}
        BY <1>1, <1>7, <2>2, <3>2 DEF Bounds
      <3>4. \A x \in Bounds : bound[x].code \in Text /\ inviteCode[bound[x].code].status # "none" /\ x # u
        BY <1>1 DEF Bounds, InviteInv, BindingsOK
      <3>5. /\ DOMAIN next = DOMAIN up \cup {u} /\ next[u] = p
            /\ \A x \in DOMAIN up \ {u} : next[x] = up[x]
        <4>1. DOMAIN up = Bounds /\ DOMAIN next = Bounds \cup {u}
          BY <3>3 DEF Inviters
        <4>2. next[u] = inviteCode'[bound'[u].code].owner
          BY <3>3 DEF Inviters
        <4>3. next[u] = p
          BY <1>1, <1>7, <1>10, <2>2, <4>2
        <4>4. ASSUME NEW x \in Bounds PROVE next[x] = up[x]
          <5>1. next[x] = inviteCode'[bound'[x].code].owner /\ up[x] = inviteCode[bound[x].code].owner
            BY <3>3 DEF Inviters
          <5>2. bound'[x] = bound[x]
            BY <1>7, <3>4 DEF Bounds
          <5> QED
            BY <1>10, <3>4, <5>1, <5>2
        <4> QED
          BY <4>1, <4>3, <4>4
      <3>6. Forest(up)
        BY DEF InviteInv, BindingsOK
      <3>7. Upward({x \in Invited : member[x].registered}, up)
        <4> SUFFICES ASSUME NEW x \in Bounds PROVE up[x] \in Invited /\ member[up[x]].registered
          BY DEF Upward, Inviters
        <4>1. up[x] = inviteCode[bound[x].code].owner
          BY DEF Inviters
        <4> QED
          BY <3>4, <4>1 DEF InviteInv, CodesOK
      <3>8. Forest(next)
        BY <1>1, <3>1, <3>5, <3>6, <3>7, LeafStaysAcyclic
      <3>9. ASSUME NEW x \in Invited, bound'[x] # NoBinding
            PROVE  /\ DOMAIN bound'[x] = {"code", "version"}
                   /\ bound'[x].version \in Nat \ {0} /\ bound'[x].code \in Text
                   /\ inviteCode'[bound'[x].code].status # "none"
        <4>1. CASE x = u
          BY <1>1, <1>7, <1>10, <2>2, <4>1
        <4>2. CASE x # u
          <5>1. bound'[x] = bound[x]
            BY <1>7, <4>2
          <5> QED
            BY <1>10, <3>9, <5>1 DEF InviteInv, BindingsOK
        <4> QED
          BY <4>1, <4>2
      <3> QED
        BY <1>7, <3>8, <3>9 DEF BindingsOK, Forest, Acyclic, Above, Upward
    <2> QED
      BY <2>1, <2>2
  <1>12. ASSUME NEW o \in Deal \ {t} PROVE DealOK(o)'
    <2>1. deal[o].kind # "none" /\ deal[o].holds # NoText => inviteCode'[deal[o].holds] = inviteCode[deal[o].holds]
      BY <1>10, HeldIsCurrent DEF InviteInv, Current
    <2>2. deal[o].kind = "change" => deal[o].user \in Invited
      BY DEF InviteInv, DealsOK, DealOK
    <2>3. \A x \in Invited : bound'[x] = bound[x] \/ bound'[x].version = bound[x].version + 1
      BY <1>1, <1>7 DEF NoBinding
    <2> QED
      BY <1>2, <1>3, <2>1, <2>2, <2>3, OthersKnow DEF InviteInv
  <1>13. Exclusive'
    <2>1. deal'[t].kind = "none"
      BY <1>2 DEF NoDeal
    <2> QED
      BY <1>2, <2>1, StaysExclusive DEF InviteInv, DealsOK
  <1>14. \A x \in Invited : bound'[x] # bound[x] => inviteCode[bound'[x].code].status = "active"
    BY <1>1, <1>7
  <1> QED
    BY <1>2, <1>8, <1>9, <1>11, <1>12, <1>13, <1>14, NoDealIsOK DEF InviteInv, DealsOK

LEMMA RegistrationSteps ==
    ASSUME InviteInv, NEW t \in Deal,
           RegisterPasswordUserWithInvite(t) \/ LoginOrCreateUserWithInvite(t) \/ LoginOfExisting(t)
    PROVE  /\ InviteInv'
           /\ \A u \in Invited : bound'[u] # bound[u] => inviteCode[bound'[u].code].status = "active"
  <1>1. CASE UNCHANGED <<member, inviteCode, bound>>
    <2>1. Close(t)
      BY DEF RegisterPasswordUserWithInvite, LoginOrCreateUserWithInvite, LoginOfExisting
    <2> QED
      BY <1>1, <2>1, ClosesOnly
  <1>2. CASE ~UNCHANGED <<member, inviteCode, bound>>
    <2>1. deal[t].kind = "register" /\ deal[t].resolved /\ ~member[deal[t].user].registered
          /\ Registers(deal[t]) /\ Close(t)
      BY <1>2 DEF RegisterPasswordUserWithInvite, LoginOrCreateUserWithInvite, LoginOfExisting
    <2> QED
      BY <2>1, RegistersSteps
  <1> QED
    BY <1>1, <1>2

\* A correction hangs a user below somebody who is not among the user's own, with
\* a code that is active and in place of the binding that was shown.
LEMMA RelationSteps ==
    ASSUME InviteInv, NEW t \in Deal, SetAdminInviteRelation(t)
    PROVE  /\ InviteInv'
           /\ \A u \in Invited : bound'[u] # bound[u] =>
                inviteCode[bound'[u].code].status = "active" /\ bound[u] = deal[t].seen
  <1> PICK u, text : u = deal[t].user /\ text = deal[t].text
    OBVIOUS
  <1>1. deal[t].kind = "relate" /\ DealOK(t) /\ Close(t) /\ UNCHANGED <<member, inviteCode>>
    BY DEF SetAdminInviteRelation, InviteInv, DealsOK
  <1>2. u \in Invited /\ text \in Text /\ Seen(deal[t]) /\ member[u].registered
    BY <1>1 DEF DealOK
  <1>3. CASE UNCHANGED bound
    BY <1>1, <1>3, ClosesOnly
  <1>4. CASE bound' # bound
    <2>1. /\ Usable(text) /\ bound[u].version = deal[t].seen.version
          /\ ~MakesCycle(u, inviteCode[text].owner)
          /\ bound' = [bound EXCEPT ![u] = [code |-> text, version |-> bound[u].version + 1]]
      BY <1>4 DEF SetAdminInviteRelation, NextBindingVersion
    <2>2. inviteCode[text].status = "active" /\ bound[u] = deal[t].seen
      BY <1>2, <2>1 DEF Usable, Seen
    <2>3. DOMAIN deal' = Deal /\ deal'[t] = NoDeal /\ \A o \in Deal \ {t} : deal'[o] = deal[o]
      BY <1>1, Replaces DEF InviteInv, Close, Goes
    <2>4. bound[u].version \in Nat
      BY <1>2, VersionsAreNumbers DEF InviteInv
    <2>5. /\ DOMAIN bound' = Invited /\ \A x \in Invited \ {u} : bound'[x] = bound[x]
          /\ bound'[u] = [code |-> text, version |-> bound[u].version + 1]
      BY <1>2, <2>1 DEF InviteInv, BindingsOK
    <2> PICK up, next : up = Inviters /\ next = Inviters'
      OBVIOUS
    <2> PICK p : p = inviteCode[text].owner
      OBVIOUS
    <2>6. p \in Invited
      BY <1>2, <2>2 DEF InviteInv, CodesOK
    <2>7. bound'[u] # NoBinding
      <3>1. text # NoText
        BY <1>2, InvitationAssumption DEF InvitationAssumption
      <3> QED
        BY <2>5, <3>1 DEF NoBinding
    <2>8. Bounds' = Bounds \cup {u}
      BY <1>2, <2>5, <2>7 DEF Bounds
    <2>9. /\ DOMAIN next = DOMAIN up \cup {u} /\ next[u] = p
          /\ \A x \in DOMAIN up \ {u} : next[x] = up[x]
      <3>1. DOMAIN up = Bounds /\ DOMAIN next = Bounds \cup {u}
        BY <2>8 DEF Inviters
      <3>2. next[u] = inviteCode'[bound'[u].code].owner
        BY <2>8 DEF Inviters
      <3>3. next[u] = p
        BY <1>1, <2>5, <3>2
      <3>4. ASSUME NEW x \in Bounds \ {u} PROVE next[x] = up[x]
        <4>1. next[x] = inviteCode'[bound'[x].code].owner /\ up[x] = inviteCode[bound[x].code].owner
          BY <2>8 DEF Inviters
        <4>2. bound'[x] = bound[x]
          BY <2>5 DEF Bounds
        <4> QED
          BY <1>1, <4>1, <4>2
      <3> QED
        BY <3>1, <3>3, <3>4
    <2>10. u \notin Above(up, p)
      BY <2>1, AncestorsAreAbove DEF MakesCycle, InviteInv
    <2>11. Forest(up)
      BY DEF InviteInv, BindingsOK
    <2>12. Forest(next)
      BY <1>2, <2>6, <2>9, <2>10, <2>11, MovedStaysAcyclic
    <2>13. ASSUME NEW x \in Invited, bound'[x] # NoBinding
           PROVE  /\ DOMAIN bound'[x] = {"code", "version"}
                  /\ bound'[x].version \in Nat \ {0} /\ bound'[x].code \in Text
                  /\ inviteCode'[bound'[x].code].status # "none"
      <3>1. CASE x = u
        BY <1>1, <1>2, <2>2, <2>4, <2>5, <3>1
      <3>2. CASE x # u
        <4>1. bound'[x] = bound[x]
          BY <2>5, <3>2
        <4> QED
          BY <1>1, <2>13, <4>1 DEF InviteInv, BindingsOK
      <3> QED
        BY <3>1, <3>2
    <2>14. BindingsOK'
      BY <2>5, <2>12, <2>13 DEF BindingsOK, Forest, Acyclic, Above, Upward
    <2>15. MembersOK'
      BY <1>1, <1>2, <2>5 DEF InviteInv, MembersOK
    <2>16. CodesOK'
      BY <1>1 DEF InviteInv, CodesOK
    <2>17. ASSUME NEW o \in Deal \ {t} PROVE DealOK(o)'
      <3>1. \A x \in Invited : bound'[x] = bound[x] \/ bound'[x].version = bound[x].version + 1
        BY <2>5
      <3> QED
        BY <1>1, <2>3, <3>1, OthersKnow DEF InviteInv
    <2>18. Exclusive'
      <3>1. deal'[t].kind = "none"
        BY <2>3 DEF NoDeal
      <3> QED
        BY <2>3, <3>1, StaysExclusive DEF InviteInv, DealsOK
    <2>19. \A x \in Invited : bound'[x] # bound[x] =>
             inviteCode[bound'[x].code].status = "active" /\ bound[x] = deal[t].seen
      BY <2>2, <2>5
    <2> QED
      BY <2>3, <2>14, <2>15, <2>16, <2>17, <2>18, <2>19, NoDealIsOK DEF InviteInv, DealsOK
  <1> QED
    BY <1>3, <1>4

LEMMA InvitationsStart == InvitationsInit => InviteInv
  <1> SUFFICES ASSUME InvitationsInit PROVE InviteInv
    OBVIOUS
  <1>0. Registered \subseteq Invited /\ NoText \notin Text
    BY InvitationAssumption DEF InvitationAssumption
  <1>1. OwnCode \in [Registered -> Text] /\ \A u, v \in Registered : u # v => OwnCode[u] # OwnCode[v]
    <2>1. \E own \in [Registered -> Text] : \A u, v \in Registered : u # v => own[u] # own[v]
      BY InvitationAssumption DEF InvitationAssumption
    <2> QED
      BY <2>1 DEF OwnCode
  <1>2. ASSUME NEW c \in Text
        PROVE  \/ inviteCode[c].status = "none" /\ inviteCode[c].source = "system"
                  /\ DOMAIN inviteCode[c] = {"owner", "status", "source"} /\ \A u \in Registered : OwnCode[u] # c
               \/ \E u \in Registered : OwnCode[u] = c
                  /\ inviteCode[c] = [owner |-> u, status |-> "active", source |-> "system"]
    <2>1. CASE \E u \in Registered : OwnCode[u] = c
      <3> PICK o : o = CHOOSE u \in Registered : OwnCode[u] = c
        OBVIOUS
      <3>1. o \in Registered /\ OwnCode[o] = c
        BY <2>1
      <3>2. inviteCode[c] = [owner |-> o, status |-> "active", source |-> "system"]
        BY <2>1 DEF InvitationsInit
      <3> QED
        BY <3>1, <3>2
    <2>2. CASE ~\E u \in Registered : OwnCode[u] = c
      <3>1. inviteCode[c] = NoCode(CHOOSE u \in Registered : TRUE)
        BY <2>2 DEF InvitationsInit
      <3>2. \A x : LET r == NoCode(x) IN r.status = "none" /\ r.source = "system" /\ DOMAIN r = {"owner", "status", "source"}
        BY DEF NoCode
      <3> QED
        BY <2>2, <3>1, <3>2
    <2> QED
      BY <2>1, <2>2
  <1>3. /\ DOMAIN member = Invited
        /\ \A u \in Invited : /\ DOMAIN member[u] = {"registered", "banned", "changed"}
                              /\ member[u].registered <=> u \in Registered
    BY DEF InvitationsInit
  <1>4. CodesOK
    <2>1. DOMAIN inviteCode = Text
      BY DEF InvitationsInit
    <2>2. \A c \in Text :
         /\ DOMAIN inviteCode[c] = {"owner", "status", "source"} /\ inviteCode[c].source = "system"
         /\ inviteCode[c].status \in {"none", "active", "disabled", "retired"}
         /\ inviteCode[c].status # "none" =>
              inviteCode[c].owner \in Invited /\ member[inviteCode[c].owner].registered
      <3> SUFFICES ASSUME NEW c \in Text
                   PROVE  /\ DOMAIN inviteCode[c] = {"owner", "status", "source"} /\ inviteCode[c].source = "system"
                          /\ inviteCode[c].status \in {"none", "active", "disabled", "retired"}
                          /\ inviteCode[c].status # "none" =>
                               inviteCode[c].owner \in Invited /\ member[inviteCode[c].owner].registered
        OBVIOUS
      <3>1. CASE inviteCode[c].status = "none" /\ inviteCode[c].source = "system"
                 /\ DOMAIN inviteCode[c] = {"owner", "status", "source"}
        BY <3>1
      <3>2. CASE \E u \in Registered : inviteCode[c] = [owner |-> u, status |-> "active", source |-> "system"]
        <4> PICK u \in Registered : inviteCode[c] = [owner |-> u, status |-> "active", source |-> "system"]
          BY <3>2
        <4>1. u \in Invited /\ member[u].registered
          BY <1>0, <1>3
        <4>2. inviteCode[c].owner = u /\ inviteCode[c].status = "active" /\ inviteCode[c].source = "system"
              /\ DOMAIN inviteCode[c] = {"owner", "status", "source"}
          OBVIOUS
        <4> QED
          BY <4>1, <4>2
      <3> QED
        BY <1>2, <3>1, <3>2
    <2> QED
      BY <2>1, <2>2 DEF CodesOK
  <1>5. \/ bound = [u \in Invited |-> NoBinding]
        \/ \E a, b \in Registered : a # b /\
             bound = [u \in Invited |-> IF u = a THEN [code |-> OwnCode[b], version |-> 1] ELSE NoBinding]
    <2>1. bound \in FirstBindings
      BY DEF InvitationsInit
    <2> QED
      BY <2>1 DEF FirstBindings
  <1>6. MembersOK /\ BindingsOK
    <2>1. CASE bound = [u \in Invited |-> NoBinding]
      <3>1. DOMAIN Inviters = {}
        BY <2>1 DEF Inviters, Bounds
      <3> QED
        BY <1>3, <2>1, <3>1 DEF MembersOK, BindingsOK, Forest, Acyclic
    <2>2. CASE \E a, b \in Registered : a # b /\
             bound = [u \in Invited |-> IF u = a THEN [code |-> OwnCode[b], version |-> 1] ELSE NoBinding]
      <3> PICK a \in Registered, b \in Registered : a # b /\
             bound = [u \in Invited |-> IF u = a THEN [code |-> OwnCode[b], version |-> 1] ELSE NoBinding]
        BY <2>2
      <3>1. OwnCode[b] \in Text /\ OwnCode[b] # NoText
        BY <1>0, <1>1
      <3>2. inviteCode[OwnCode[b]].owner = b /\ inviteCode[OwnCode[b]].status = "active"
        <4>1. PICK u \in Registered : OwnCode[u] = OwnCode[b]
                  /\ inviteCode[OwnCode[b]] = [owner |-> u, status |-> "active", source |-> "system"]
          BY <1>2, <3>1
        <4>2. u = b
          BY <1>1, <4>1
        <4> QED
          BY <4>1, <4>2
      <3>3. bound[a] = [code |-> OwnCode[b], version |-> 1] /\ bound[a] # NoBinding
        BY <1>0, <3>1 DEF NoBinding
      <3>4. Bounds = {a}
        BY <1>0, <3>3 DEF Bounds
      <3>5. DOMAIN Inviters = {a} /\ Inviters[a] = b
        BY <3>2, <3>3, <3>4 DEF Inviters
      <3>6. Above(Inviters, b) \subseteq {b}
        BY <1>0, <3>5 DEF Above, Upward
      <3>7. Forest(Inviters)
        BY <1>0, <3>5, <3>6 DEF Forest, Acyclic
      <3>8. \A u \in Invited : bound[u] # NoBinding => u = a
        OBVIOUS
      <3>9. MembersOK
        BY <1>3, <3>8 DEF MembersOK
      <3> QED
        BY <1>0, <3>1, <3>2, <3>3, <3>7, <3>8, <3>9 DEF BindingsOK
    <2> QED
      BY <1>5, <2>1, <2>2
  <1>7. DealsOK
    BY DEF InvitationsInit, DealsOK, DealOK, Exclusive, NoDeal
  <1> QED
    BY <1>4, <1>6, <1>7 DEF InviteInv

LEMMA InvitationSteps == ASSUME InviteInv, [InvitationsNext]_inviteVars PROVE InviteInv'
  <1>1. CASE UNCHANGED inviteVars
    <2>1. UNCHANGED <<member, inviteCode, bound, deal>>
      BY <1>1 DEF inviteVars
    <2>2. MembersOK' /\ CodesOK' /\ DealsOK'
      BY <2>1 DEF InviteInv, MembersOK, CodesOK, DealsOK, DealOK, Exclusive, Seen
    <2>3. BindingsOK'
      BY <2>1, BindingsStay DEF InviteInv
    <2> QED
      BY <2>2, <2>3 DEF InviteInv
  <1>2. CASE \E m \in Mode : SetInviteMode(m)
    <2>1. UNCHANGED <<member, inviteCode, bound, deal>>
      BY <1>2 DEF SetInviteMode
    <2>2. MembersOK' /\ CodesOK' /\ DealsOK'
      BY <2>1 DEF InviteInv, MembersOK, CodesOK, DealsOK, DealOK, Exclusive, Seen
    <2>3. BindingsOK'
      BY <2>1, BindingsStay DEF InviteInv
    <2> QED
      BY <2>2, <2>3 DEF InviteInv
  <1>3. CASE \E c \in Text, s \in Current : SetAdminInviteCodeStatus(c, s)
    BY <1>3, StatusSteps
  <1>4. CASE \E u \in Invited, on \in BOOLEAN : SetInviterBanned(u, on)
    BY <1>4, BanSteps
  <1>5. ASSUME NEW t \in Deal,
               \/ \E u \in Invited, c \in Text \union {NoText}, pw \in BOOLEAN : registrationPolicy(t, u, c, pw)
               \/ resolveInviteCodeTx(t) \/ LoginOfExisting(t) \/ RegisterPasswordUserWithInvite(t)
               \/ LoginOrCreateUserWithInvite(t)
               \/ \E u \in Invited, c \in Text : LockUserForChange(t, u, c)
               \/ ChangeUserInviteCode(t)
               \/ \E c \in Text : LockForReset(t, c)
               \/ ResetAdminInviteCode(t)
               \/ \E u \in Invited, c \in Text : LookAtRelation(t, u, c)
               \/ LockPair(t) \/ SetAdminInviteRelation(t) \/ RollBackDeal(t)
        PROVE  InviteInv'
    <2>1. CASE RollBackDeal(t)
      BY <2>1, ClosesOnly DEF RollBackDeal
    <2> QED
      BY <1>5, <2>1, OpensWithoutLock, ResolvesCode, RegistrationSteps, LocksForDeal, ReplacementSteps, RelationSteps
  <1> QED
    BY <1>1, <1>2, <1>3, <1>4, <1>5 DEF InvitationsNext

\* Only a registration and a correction bind anybody.
LEMMA BindingSteps ==
    ASSUME InviteInv, InvitationsNext, bound' # bound
    PROVE  \E t \in Deal : RegisterPasswordUserWithInvite(t) \/ LoginOrCreateUserWithInvite(t)
                           \/ SetAdminInviteRelation(t)
  BY DEF InvitationsNext, SetInviteMode, SetAdminInviteCodeStatus, SetInviterBanned, registrationPolicy,
         resolveInviteCodeTx, LoginOfExisting, LockUserForChange, ChangeUserInviteCode, LockForReset,
         ResetAdminInviteCode, LookAtRelation, LockPair, RollBackDeal

LEMMA NobodyInvitesTheInviter == ASSUME InviteInv PROVE NoInviteCycle
  <1> SUFFICES ASSUME NEW u \in Invited, bound[u] # NoBinding, u \in ancestors(inviteCode[bound[u].code].owner)
               PROVE  FALSE
    BY DEF NoInviteCycle
  <1>1. u \in DOMAIN Inviters /\ Inviters[u] = inviteCode[bound[u].code].owner
    BY DEF Inviters, Bounds
  <1> QED
    BY <1>1, AncestorsAreAbove DEF InviteInv, BindingsOK, Forest, Acyclic

LEMMA ChangedOnlyOnce == ASSUME InviteInv PROVE SelfChangedOnce
  <1> SUFFICES ASSUME NEW u \in Invited
               PROVE  Cardinality({c \in Text : inviteCode[c].owner = u /\ inviteCode[c].source = "user"}) <= 1
    BY DEF SelfChangedOnce
  <1> PICK own : own = {c \in Text : inviteCode[c].owner = u /\ inviteCode[c].source = "user"}
    OBVIOUS
  <1>1. \A c, d \in own : c = d
    BY DEF InviteInv, CodesOK
  <1>2. Cardinality(own) <= 1
    <2>1. CASE own = {}
      BY <2>1, FS_EmptySet
    <2>2. CASE own # {}
      <3> PICK c : c \in own
        BY <2>2
      <3>1. own = {c}
        BY <1>1
      <3>2. Cardinality({c}) = 1
        BY FS_Singleton
      <3>3. Cardinality(own) = 1
        BY <3>1, <3>2, Zenon
      <3> QED
        BY <3>3
    <2> QED
      BY <2>1, <2>2
  <1> QED
    BY <1>2, Zenon

\* Nobody is invited by someone they invited, a user chooses the own code once, a
\* relation is bound to a code that is active in that step, and a correction
\* replaces the binding that was shown (InvitationsKept), for any accounts, codes
\* and transactions under way.
THEOREM InvitationsKeepPromise == InvitationsSpec => InvitationsKept
  <1>1. InviteInv /\ [InvitationsNext]_inviteVars => InviteInv'
    BY InvitationSteps
  <1>2. InviteInv /\ [InvitationsNext]_inviteVars =>
            [\A u \in Invited : bound'[u] # bound[u] => inviteCode[bound'[u].code].status = "active"]_inviteVars
    <2> SUFFICES ASSUME InviteInv, InvitationsNext, NEW u \in Invited, bound'[u] # bound[u]
                 PROVE  inviteCode[bound'[u].code].status = "active"
      OBVIOUS
    <2> PICK t \in Deal : RegisterPasswordUserWithInvite(t) \/ LoginOrCreateUserWithInvite(t)
                          \/ SetAdminInviteRelation(t)
      BY BindingSteps
    <2> QED
      BY RegistrationSteps, RelationSteps
  <1>3. InviteInv /\ [InvitationsNext]_inviteVars =>
            [\A t \in Deal : (deal[t].kind = "relate" /\ deal'[t] = NoDeal) =>
                \A u \in Invited : bound'[u] # bound[u] => bound[u] = deal[t].seen]_inviteVars
    <2> SUFFICES ASSUME InviteInv, InvitationsNext, NEW t \in Deal, deal[t].kind = "relate", deal'[t] = NoDeal,
                        NEW u \in Invited, bound'[u] # bound[u]
                 PROVE  bound[u] = deal[t].seen
      OBVIOUS
    <2> PICK o \in Deal : RegisterPasswordUserWithInvite(o) \/ LoginOrCreateUserWithInvite(o)
                          \/ SetAdminInviteRelation(o)
      BY BindingSteps
    <2>1. Close(o) /\ (SetAdminInviteRelation(o) \/ deal[o].kind = "register")
      BY DEF RegisterPasswordUserWithInvite, LoginOrCreateUserWithInvite, SetAdminInviteRelation
    <2>2. \A x \in Deal \ {o} : deal'[x] = deal[x]
      BY <2>1, Replaces DEF InviteInv, Close, Goes
    <2>3. o = t
      BY <2>2 DEF NoDeal
    <2> QED
      BY <2>1, <2>3, RelationSteps
  <1>4. InviteInv => NoInviteCycle /\ SelfChangedOnce
    BY NobodyInvitesTheInviter, ChangedOnlyOnce
  <1> QED
    BY <1>1, <1>2, <1>3, <1>4, InvitationsStart, PTL
    DEF InvitationsSpec, InvitationsKept, BoundToActiveCode, CorrectsWhatWasSeen

(***************************************************************************)
(* Customer support: the queue, the loads and the channels.                *)
(***************************************************************************)
\* The rows of the sessions: who waits has no agent, and a visitor has one unfinished session.
DSession(ses) ==
    /\ DOMAIN ses = Session
    /\ \A x \in Session :
         /\ ses[x] \in [status : {"none", "queued", "active", "ended"}, visitor : Visitor \union {NoAgent},
                        skill : SkillGroup \union {NoAgent}, agent : Agent \union {NoAgent}]
         /\ ses[x].status = "none" => ses[x] = NoSession
         /\ ses[x].status # "none" => ses[x].visitor \in Visitor /\ ses[x].skill \in SkillGroup
         /\ ses[x].status = "active" => ses[x].agent \in Agent
         /\ ses[x].status = "queued" => ses[x].agent = NoAgent
    /\ \A x, y \in Session :
         ses[x].status \in Unfinished /\ ses[y].status \in Unfinished /\ ses[x].visitor = ses[y].visitor => x = y

\* The order lists every session that was opened, once.
DArrived(ses) ==
    /\ arrived \in Seq(Session)
    /\ \A x \in Session : ses[x].status # "none" <=> \E i \in DOMAIN arrived : arrived[i] = x
    /\ \A i, j \in DOMAIN arrived : arrived[i] = arrived[j] => i = j

\* The other tables have a row for everybody.
DShape ==
    /\ DOMAIN presence = Agent /\ skillsOf \in [Agent -> SUBSET SkillGroup] /\ DOMAIN freed = Agent
    /\ DOMAIN choosing = DeskRequest /\ DOMAIN inChannel = Visitor

\* The limits and the channels, of any table of sessions.
DCapacity(ses) == \A g \in Agent, k \in SkillGroup : SkillLoadIn(ses, g, k) <= MaxConcurrentPerAgent

DParticipants(ses, members) ==
    \A v \in Visitor :
        members[v] = {ses[x].agent : x \in {y \in Session : ses[y].status = "active" /\ ses[y].visitor = v}}

\* What a transaction has read is still so while it holds its group's lock: those it
\* chose from have room in the group, one that opens a session chose from everybody
\* who could take it, and the session it is about is as it was.
DRequest(r) ==
    LET c == choosing[r] IN
    /\ c.kind \in {"create", "claim", "transfer"}
    /\ c.x \in Session /\ c.visitor \in Visitor /\ c.skill \in SkillGroup /\ c.eligible \subseteq Agent
    /\ \A g \in c.eligible : SkillLoadIn(session, g, c.skill) < MaxConcurrentPerAgent
    /\ c.kind = "create" =>
         /\ session[c.x] = NoSession
         /\ \A y \in Session : session[y].visitor = c.visitor => session[y].status \notin Unfinished
         /\ \A g \in Agent : presence[g] = "available" /\ c.skill \in skillsOf[g] /\ freed[g] \subseteq {c.skill}
                             /\ Room(session, g, c.skill) => g \in c.eligible
    /\ c.kind = "claim" => session[c.x].status = "queued"
    /\ c.kind = "transfer" => /\ session[c.x].status = "active"
                              /\ \E h \in Agent : c.eligible = {h} /\ h # session[c.x].agent
    /\ c.kind # "create" => session[c.x].skill = c.skill /\ session[c.x].visitor = c.visitor

\* One transaction in each group, and none about the session or the visitor of another.
DLocks ==
    \A r, q \in DeskRequest : r # q /\ choosing[r] # NotChoosing /\ choosing[q] # NotChoosing =>
        /\ choosing[r].skill # choosing[q].skill
        /\ choosing[r].x # choosing[q].x /\ choosing[r].visitor # choosing[q].visitor

\* The inductive invariant.
DeskInv ==
    /\ DSession(session) /\ DArrived(session) /\ DShape
    /\ DCapacity(session) /\ DParticipants(session, inChannel) /\ QueueDrained
    /\ DLocks /\ \A r \in DeskRequest : choosing[r] # NotChoosing => DRequest(r)

\* Sets of sessions are finite, and a part is no larger than the whole.
LEMMA SessionsCounted ==
  ASSUME DeskAssumption, NEW S, NEW T, S \subseteq T, T \subseteq Session
  PROVE  /\ IsFiniteSet(S) /\ Cardinality(S) \in Nat /\ Cardinality(T) \in Nat
         /\ Cardinality(S) <= Cardinality(T)
  <1>1. T \in SUBSET Session /\ S \in SUBSET T
    OBVIOUS
  <1>2. IsFiniteSet(T)
    BY <1>1, FS_Subset DEF DeskAssumption
  <1>3. IsFiniteSet(S) /\ Cardinality(S) <= Cardinality(T)
    BY <1>1, <1>2, FS_Subset
  <1> QED
    BY <1>2, <1>3, FS_CardinalityType

\* One session more adds at most one to a load.
LEMMA OneMoreSession ==
  ASSUME DeskAssumption, NEW S, NEW T, NEW x \in Session, T \subseteq Session, S \subseteq T \union {x}
  PROVE  Cardinality(S) <= Cardinality(T) + 1
  <1>1. IsFiniteSet(T) /\ Cardinality(T) \in Nat
    BY SessionsCounted
  <1>2. Cardinality(T \union {x}) <= Cardinality(T) + 1
    <2>1. Cardinality(T \union {x}) = IF x \in T THEN Cardinality(T) ELSE Cardinality(T) + 1
      BY <1>1, FS_AddElement
    <2> QED
      BY <1>1, <2>1
  <1>3. T \union {x} \subseteq Session
    OBVIOUS
  <1>4. /\ Cardinality(S) \in Nat /\ Cardinality(T \union {x}) \in Nat
        /\ Cardinality(S) <= Cardinality(T \union {x})
    BY <1>3, SessionsCounted
  <1> QED
    BY <1>1, <1>2, <1>4

\* Loads are numbers, the one in a group at most the whole.
LEMMA LoadsCounted ==
  ASSUME DeskAssumption, NEW ses, NEW g, NEW k
  PROVE  LoadIn(ses, g) \in Nat /\ SkillLoadIn(ses, g, k) \in Nat /\ SkillLoadIn(ses, g, k) <= LoadIn(ses, g)
  <1>1. {x \in Session : ses[x].status = "active" /\ ses[x].agent = g /\ ses[x].skill = k}
          \subseteq {x \in Session : ses[x].status = "active" /\ ses[x].agent = g}
    OBVIOUS
  <1>2. {x \in Session : ses[x].status = "active" /\ ses[x].agent = g} \subseteq Session
    OBVIOUS
  <1> QED
    BY <1>1, <1>2, SessionsCounted DEF LoadIn, SkillLoadIn

\* An agent who has the same sessions and perhaps more has no more room.
LEMMA LoadGrows ==
  ASSUME DeskAssumption, NEW ses, NEW more, NEW g, NEW k,
         \A x \in Session : ses[x].status = "active" /\ ses[x].agent = g =>
            more[x].status = "active" /\ more[x].agent = g /\ more[x].skill = ses[x].skill
  PROVE  /\ LoadIn(ses, g) <= LoadIn(more, g)
         /\ SkillLoadIn(ses, g, k) <= SkillLoadIn(more, g, k)
         /\ Room(more, g, k) => Room(ses, g, k)
  <1>1. LoadIn(ses, g) <= LoadIn(more, g)
    <2>1. {x \in Session : ses[x].status = "active" /\ ses[x].agent = g}
            \subseteq {x \in Session : more[x].status = "active" /\ more[x].agent = g}
      OBVIOUS
    <2>2. {x \in Session : more[x].status = "active" /\ more[x].agent = g} \subseteq Session
      OBVIOUS
    <2> QED
      BY <2>1, <2>2, SessionsCounted DEF LoadIn
  <1>2. SkillLoadIn(ses, g, k) <= SkillLoadIn(more, g, k)
    <2>1. {x \in Session : ses[x].status = "active" /\ ses[x].agent = g /\ ses[x].skill = k}
            \subseteq {x \in Session : more[x].status = "active" /\ more[x].agent = g /\ more[x].skill = k}
      OBVIOUS
    <2>2. {x \in Session : more[x].status = "active" /\ more[x].agent = g /\ more[x].skill = k} \subseteq Session
      OBVIOUS
    <2> QED
      BY <2>1, <2>2, SessionsCounted DEF SkillLoadIn
  <1>3. /\ LoadIn(ses, g) \in Nat /\ LoadIn(more, g) \in Nat
        /\ SkillLoadIn(ses, g, k) \in Nat /\ SkillLoadIn(more, g, k) \in Nat
        /\ MaxConcurrent \in Nat /\ MaxConcurrentPerAgent \in Nat
    BY LoadsCounted DEF DeskAssumption
  <1> QED
    BY <1>1, <1>2, <1>3 DEF Room

\* The load in one group grows only with sessions of that group.
LEMMA SkillLoadGrows ==
  ASSUME DeskAssumption, NEW ses, NEW more, NEW g, NEW k,
         \A x \in Session : ses[x].status = "active" /\ ses[x].agent = g /\ ses[x].skill = k =>
            more[x].status = "active" /\ more[x].agent = g /\ more[x].skill = k
  PROVE  SkillLoadIn(ses, g, k) <= SkillLoadIn(more, g, k)
  <1>1. {x \in Session : ses[x].status = "active" /\ ses[x].agent = g /\ ses[x].skill = k}
          \subseteq {x \in Session : more[x].status = "active" /\ more[x].agent = g /\ more[x].skill = k}
    OBVIOUS
  <1>2. {x \in Session : more[x].status = "active" /\ more[x].agent = g /\ more[x].skill = k} \subseteq Session
    OBVIOUS
  <1> QED
    BY <1>1, <1>2, SessionsCounted DEF SkillLoadIn

\* Of the places an agent takes sessions from, one is the last.
LEMMA LastPlace ==
  ASSUME NEW S, S \subseteq DOMAIN arrived, arrived \in Seq(Session), S # {}
  PROVE  \E m \in S : \A i \in S : i <= m
  <1> DEFINE Below == {Len(arrived) - i : i \in S}
  <1>1. Len(arrived) \in Nat /\ \A i \in S : i \in 1 .. Len(arrived)
    OBVIOUS
  <1>2. Below \subseteq Nat /\ Below # {}
    BY <1>1
  <1>3. PICK n \in Below : \A j \in Below : n <= j
    BY <1>2, LeastOf
  <1>4. PICK m \in S : n = Len(arrived) - m
    OBVIOUS
  <1>5. ASSUME NEW i \in S PROVE i <= m
    <2>1. n <= Len(arrived) - i
      BY <1>3
    <2> QED
      BY <2>1, <1>1, <1>4
  <1> QED
    BY <1>5

(***************************************************************************)
(* Filling an agent's slots.                                               *)
(***************************************************************************)
\* The rows of the sessions that were given to an agent.
LEMMA TakenSessions ==
  ASSUME NEW ses, NEW g \in Agent, NEW taken \in SUBSET Session, DSession(ses),
         \A x \in taken : ses[x].status = "queued"
  PROVE  /\ \A x \in Session : x \notin taken => Assigned(ses, taken, g)[x] = ses[x]
         /\ \A x \in taken : /\ Assigned(ses, taken, g)[x].status = "active" /\ Assigned(ses, taken, g)[x].agent = g
                             /\ Assigned(ses, taken, g)[x].visitor = ses[x].visitor
                             /\ Assigned(ses, taken, g)[x].skill = ses[x].skill
         /\ DSession(Assigned(ses, taken, g))
  <1>1. /\ DOMAIN Assigned(ses, taken, g) = Session
        /\ \A x \in Session : x \notin taken => Assigned(ses, taken, g)[x] = ses[x]
        /\ \A x \in taken : Assigned(ses, taken, g)[x] = [ses[x] EXCEPT !.status = "active", !.agent = g]
    BY DEF Assigned
  <1>2. ASSUME NEW x \in taken
        PROVE  /\ Assigned(ses, taken, g)[x].status = "active" /\ Assigned(ses, taken, g)[x].agent = g
               /\ Assigned(ses, taken, g)[x].visitor = ses[x].visitor
               /\ Assigned(ses, taken, g)[x].skill = ses[x].skill
               /\ Assigned(ses, taken, g)[x] \in [status : {"none", "queued", "active", "ended"}, visitor : Visitor \union {NoAgent},
                        skill : SkillGroup \union {NoAgent}, agent : Agent \union {NoAgent}]
    <2>1. PICK entry : entry = ses[x]
      OBVIOUS
    <2>2. entry \in [status : {"none", "queued", "active", "ended"}, visitor : Visitor \union {NoAgent},
                    skill : SkillGroup \union {NoAgent}, agent : Agent \union {NoAgent}]
      BY <2>1 DEF DSession
    <2>3. Assigned(ses, taken, g)[x] = [entry EXCEPT !.status = "active", !.agent = g]
      BY <1>1, <2>1
    <2>4. PICK out : out = [entry EXCEPT !.status = "active", !.agent = g]
      OBVIOUS
    <2>5. /\ out.status = "active" /\ out.agent = g /\ out.visitor = entry.visitor /\ out.skill = entry.skill
          /\ out \in [status : {"none", "queued", "active", "ended"}, visitor : Visitor \union {NoAgent},
                      skill : SkillGroup \union {NoAgent}, agent : Agent \union {NoAgent}]
      BY <2>2, <2>4
    <2> QED
      BY <2>1, <2>3, <2>4, <2>5
  <1>3. DSession(Assigned(ses, taken, g))
    <2> DEFINE out == Assigned(ses, taken, g)
    <2>1. ASSUME NEW x \in Session
          PROVE  /\ out[x] \in [status : {"none", "queued", "active", "ended"}, visitor : Visitor \union {NoAgent},
                        skill : SkillGroup \union {NoAgent}, agent : Agent \union {NoAgent}]
                 /\ out[x].status = "none" => out[x] = NoSession
                 /\ out[x].status # "none" => out[x].visitor \in Visitor /\ out[x].skill \in SkillGroup
                 /\ out[x].status = "active" => out[x].agent \in Agent
                 /\ out[x].status = "queued" => out[x].agent = NoAgent
                 /\ out[x].status \in Unfinished => ses[x].status \in Unfinished
                 /\ out[x].visitor = ses[x].visitor
      <3>1. CASE x \in taken
        <4>1. ses[x].status = "queued"
          BY <3>1
        <4>2. ses[x].visitor \in Visitor /\ ses[x].skill \in SkillGroup
          BY <4>1 DEF DSession
        <4> HIDE DEF out
        <4> QED
          BY <1>2, <3>1, <4>1, <4>2 DEF out, Unfinished
      <3>2. CASE x \notin taken
        BY <1>1, <3>2 DEF DSession
      <3> QED
        BY <3>1, <3>2
    <2> HIDE DEF out
    <2>2. \A x, y \in Session : out[x].status \in Unfinished /\ out[y].status \in Unfinished
                                /\ out[x].visitor = out[y].visitor => x = y
      BY <2>1 DEF DSession
    <2> QED
      BY <1>1, <2>1, <2>2 DEF DSession, out
  <1> QED
    BY <1>1, <1>2, <1>3

\* What becomes of the sessions and the channels when an agent's slots are filled:
\* he gets waiting sessions of the groups asked for and nothing else changes, the
\* limits and the channels stay right, and what still waits does not fit.
LEMMA Filled ==
  ASSUME DeskAssumption, NEW mid, NEW members, NEW g \in Agent, NEW groups, NEW available \in BOOLEAN,
         DSession(mid), DArrived(mid), DCapacity(mid), DParticipants(mid, members), DOMAIN members = Visitor,
         FilledBy(mid, members, g, groups, available)
  PROVE  /\ DSession(session') /\ DCapacity(session') /\ DParticipants(session', inChannel')
         /\ DOMAIN inChannel' = Visitor /\ arrived' = arrived
         /\ \A x \in Session :
              /\ session'[x].visitor = mid[x].visitor /\ session'[x].skill = mid[x].skill
              /\ session'[x] = mid[x] \/ (mid[x].status = "queued" /\ mid[x].skill \in groups
                                          /\ session'[x].status = "active" /\ session'[x].agent = g)
         /\ available => \A x \in Session : session'[x].status = "queued" /\ session'[x].skill \in groups =>
                            ~Room(session', g, session'[x].skill)
  <1>1. PICK taken \in SUBSET {arrived[i] : i \in DOMAIN arrived} :
          /\ IF available THEN assignQueuedSessionsToAgentTx(mid, g, groups, taken) ELSE taken = {}
          /\ session' = Assigned(mid, taken, g)
          /\ inChannel' = WithAgent(members, Visitors(mid, taken), g)
          /\ arrived' = arrived
    BY DEF FilledBy
  <1>2. PICK out : out = Assigned(mid, taken, g)
    OBVIOUS
  <1>3. session' = out
    BY <1>1, <1>2
  <1>4. /\ \A i \in DOMAIN arrived : arrived[i] \in Session
        /\ taken \in SUBSET Session
        /\ \A i \in DOMAIN arrived : i \in 1 .. Len(arrived)
        /\ Len(arrived) \in Nat
    <2>1. arrived \in Seq(Session)
      BY DEF DArrived
    <2>2. \A i \in DOMAIN arrived : arrived[i] \in Session
      BY <2>1
    <2> QED
      BY <2>1, <2>2
  <1>5. ASSUME NEW i \in DOMAIN arrived, available
        PROVE  arrived[i] \in taken <=> /\ mid[arrived[i]].status = "queued" /\ mid[arrived[i]].skill \in groups
                        /\ Fits(mid, taken \intersect {arrived[j] : j \in 1 .. i - 1}, g, arrived[i])
    BY <1>1, <1>5 DEF assignQueuedSessionsToAgentTx
  <1>6. \A x \in taken : mid[x].status = "queued" /\ mid[x].skill \in groups
    <2>1. CASE available
      <3>1. SUFFICES ASSUME NEW x \in taken PROVE mid[x].status = "queued" /\ mid[x].skill \in groups
        OBVIOUS
      <3>2. PICK i \in DOMAIN arrived : x = arrived[i]
        OBVIOUS
      <3> QED
        BY <3>2, <2>1, <1>5
    <2>2. CASE ~available
      BY <1>1, <2>2
    <2> QED
      BY <2>1, <2>2
  <1>7. /\ \A x \in Session : x \notin taken => out[x] = mid[x]
        /\ \A x \in taken : /\ out[x].status = "active" /\ out[x].agent = g
                            /\ out[x].visitor = mid[x].visitor /\ out[x].skill = mid[x].skill
        /\ DSession(out)
    BY <1>2, <1>4, <1>6, TakenSessions
  <1>8. ASSUME NEW early \in SUBSET taken
        PROVE  /\ \A x \in Session : x \notin early => Assigned(mid, early, g)[x] = mid[x]
               /\ \A x \in early : /\ Assigned(mid, early, g)[x].status = "active" /\ Assigned(mid, early, g)[x].agent = g
                                   /\ Assigned(mid, early, g)[x].skill = mid[x].skill
    <2>1. early \in SUBSET Session
      BY <1>4
    <2> QED
      BY <2>1, <1>6, TakenSessions
  <1>9. DCapacity(out)
    <2>1. SUFFICES ASSUME NEW h \in Agent, NEW k \in SkillGroup
                   PROVE  SkillLoadIn(out, h, k) <= MaxConcurrentPerAgent
      BY DEF DCapacity
    <2>2. CASE h = g /\ \E x \in taken : mid[x].skill = k
      <3>1. PICK S : S = {i \in DOMAIN arrived : arrived[i] \in taken /\ mid[arrived[i]].skill = k}
        OBVIOUS
      <3>2. S # {} /\ S \subseteq DOMAIN arrived
        <4>1. PICK x \in taken : mid[x].skill = k
          BY <2>2
        <4>2. PICK i \in DOMAIN arrived : x = arrived[i]
          OBVIOUS
        <4> QED
          BY <4>1, <4>2, <3>1
      <3>3. PICK m \in S : \A i \in S : i <= m
        BY <3>2, LastPlace DEF DArrived
      <3>4. PICK last : last = arrived[m]
        OBVIOUS
      <3>5. m \in DOMAIN arrived /\ last \in taken /\ mid[last].skill = k /\ last \in Session
        BY <3>1, <3>4, <1>4
      <3>6. PICK early \in SUBSET taken : early = taken \intersect {arrived[j] : j \in 1 .. m - 1}
        OBVIOUS
      <3>7. available
        BY <3>5, <1>1
      <3>8. Room(Assigned(mid, early, g), g, k)
        BY <3>4, <3>5, <3>6, <3>7, <1>5 DEF Fits
      <3>9. PICK part : part = {x \in Session : Assigned(mid, early, g)[x].status = "active"
                                     /\ Assigned(mid, early, g)[x].agent = g /\ Assigned(mid, early, g)[x].skill = k}
        OBVIOUS
      <3>10. {x \in Session : out[x].status = "active" /\ out[x].agent = g /\ out[x].skill = k} \subseteq part \union {last}
        <4>1. SUFFICES ASSUME NEW x \in Session, out[x].status = "active", out[x].agent = g, out[x].skill = k, x # last
                       PROVE  x \in part
          OBVIOUS
        <4>2. CASE x \in taken
          <5>1. PICK i \in DOMAIN arrived : x = arrived[i]
            BY <4>2
          <5>2. mid[x].skill = k
            BY <1>7, <4>1, <4>2
          <5>3. i \in S
            BY <5>1, <5>2, <4>2, <3>1
          <5>4. i \in 1 .. m - 1
            <6>1. i <= m /\ i # m
              BY <5>1, <5>3, <3>3, <3>4, <4>1
            <6> QED
              BY <6>1, <5>1, <1>4, <3>5
          <5>5. x \in early
            BY <5>1, <5>4, <4>2, <3>6
          <5> QED
            BY <5>2, <5>5, <1>8, <3>9
        <4>3. CASE x \notin taken
          <5>1. out[x] = mid[x] /\ Assigned(mid, early, g)[x] = mid[x]
            BY <4>3, <1>7, <1>8
          <5> QED
            BY <5>1, <4>1, <3>9
        <4> QED
          BY <4>2, <4>3
      <3>11. SkillLoadIn(out, g, k) <= SkillLoadIn(Assigned(mid, early, g), g, k) + 1
        <4>1. part \subseteq Session
          BY <3>9
        <4> QED
          BY <4>1, <3>5, <3>9, <3>10, OneMoreSession DEF SkillLoadIn
      <3>12. /\ SkillLoadIn(out, g, k) \in Nat /\ SkillLoadIn(Assigned(mid, early, g), g, k) \in Nat
             /\ MaxConcurrentPerAgent \in Nat
        BY LoadsCounted DEF DeskAssumption
      <3>13. SkillLoadIn(Assigned(mid, early, g), g, k) < MaxConcurrentPerAgent
        BY <3>8 DEF Room
      <3> QED
        BY <2>2, <3>11, <3>12, <3>13
    <2>3. CASE ~(h = g /\ \E x \in taken : mid[x].skill = k)
      <3>1. \A x \in Session : out[x].status = "active" /\ out[x].agent = h /\ out[x].skill = k =>
               mid[x].status = "active" /\ mid[x].agent = h /\ mid[x].skill = k
        BY <2>3, <1>7
      <3>2. SkillLoadIn(out, h, k) <= SkillLoadIn(mid, h, k)
        BY <3>1, SkillLoadGrows
      <3>3. SkillLoadIn(mid, h, k) <= MaxConcurrentPerAgent
        BY DEF DCapacity
      <3>4. /\ SkillLoadIn(out, h, k) \in Nat /\ SkillLoadIn(mid, h, k) \in Nat /\ MaxConcurrentPerAgent \in Nat
        BY LoadsCounted DEF DeskAssumption
      <3> QED
        BY <3>2, <3>3, <3>4
    <2> QED
      BY <2>2, <2>3
  <1>10. DOMAIN inChannel' = Visitor
    BY <1>1 DEF WithAgent
  <1>11. ASSUME NEW v \in Visitor
         PROVE  inChannel'[v] = {out[x].agent : x \in {y \in Session : out[y].status = "active" /\ out[y].visitor = v}}
    <2>1. inChannel'[v] = IF v \in Visitors(mid, taken) THEN members[v] \union {g} ELSE members[v]
      BY <1>1 DEF WithAgent
    <2>2. members[v] = {mid[x].agent : x \in {y \in Session : mid[y].status = "active" /\ mid[y].visitor = v}}
      BY DEF DParticipants
    <2>3. ASSUME NEW h, h \in inChannel'[v]
          PROVE  \E x \in Session : out[x].status = "active" /\ out[x].visitor = v /\ h = out[x].agent
      <3>1. CASE h \in members[v]
        <4>1. PICK x \in Session : mid[x].status = "active" /\ mid[x].visitor = v /\ h = mid[x].agent
          BY <3>1, <2>2
        <4>2. x \notin taken
          BY <4>1, <1>6
        <4> QED
          BY <4>1, <4>2, <1>7
      <3>2. CASE h = g /\ v \in Visitors(mid, taken)
        <4>1. PICK x \in taken : v = mid[x].visitor
          BY <3>2 DEF Visitors
        <4> QED
          BY <4>1, <3>2, <1>7, <1>4
      <3> QED
        BY <2>1, <2>3, <3>1, <3>2
    <2>4. ASSUME NEW x \in Session, out[x].status = "active", out[x].visitor = v
          PROVE  out[x].agent \in inChannel'[v]
      <3>1. CASE x \in taken
        <4>1. v \in Visitors(mid, taken) /\ out[x].agent = g
          BY <3>1, <2>4, <1>7 DEF Visitors
        <4> QED
          BY <4>1, <2>1
      <3>2. CASE x \notin taken
        <4>1. out[x] = mid[x]
          BY <3>2, <1>7
        <4>2. mid[x].agent \in members[v]
          BY <4>1, <2>2, <2>4
        <4> QED
          BY <4>1, <4>2, <2>1
      <3> QED
        BY <3>1, <3>2
    <2> QED
      BY <2>3, <2>4
  <1>12. ASSUME available, NEW x \in Session, out[x].status = "queued", out[x].skill \in groups
         PROVE  ~Room(out, g, out[x].skill)
    <2>1. x \notin taken
      BY <1>12, <1>7
    <2>2. out[x] = mid[x]
      BY <2>1, <1>7
    <2>3. PICK i \in DOMAIN arrived : x = arrived[i]
      BY <1>12, <2>2 DEF DArrived
    <2>4. PICK early \in SUBSET taken : early = taken \intersect {arrived[j] : j \in 1 .. i - 1}
      OBVIOUS
    <2>5. ~Room(Assigned(mid, early, g), g, mid[x].skill)
      BY <2>1, <2>2, <2>3, <2>4, <1>5, <1>12 DEF Fits
    <2>6. \A y \in Session : Assigned(mid, early, g)[y].status = "active" /\ Assigned(mid, early, g)[y].agent = g =>
            out[y].status = "active" /\ out[y].agent = g /\ out[y].skill = Assigned(mid, early, g)[y].skill
      <3>1. SUFFICES ASSUME NEW y \in Session, Assigned(mid, early, g)[y].status = "active",
                            Assigned(mid, early, g)[y].agent = g
                     PROVE  out[y].status = "active" /\ out[y].agent = g /\ out[y].skill = Assigned(mid, early, g)[y].skill
        OBVIOUS
      <3>2. CASE y \in early
        BY <3>2, <1>7, <1>8
      <3>3. CASE y \notin early
        <4>1. Assigned(mid, early, g)[y] = mid[y]
          BY <3>3, <1>8
        <4>2. y \notin taken
          BY <4>1, <3>1, <1>6
        <4> QED
          BY <4>1, <4>2, <3>1, <1>7
      <3> QED
        BY <3>2, <3>3
    <2> QED
      BY <2>2, <2>5, <2>6, LoadGrows
  <1>13. ASSUME NEW x \in Session
         PROVE  /\ out[x].visitor = mid[x].visitor /\ out[x].skill = mid[x].skill
                /\ out[x] = mid[x] \/ (mid[x].status = "queued" /\ mid[x].skill \in groups
                                       /\ out[x].status = "active" /\ out[x].agent = g)
    BY <1>6, <1>7
  <1>14. DParticipants(session', inChannel')
    BY <1>3, <1>11 DEF DParticipants
  <1> QED
    BY <1>1, <1>3, <1>7, <1>9, <1>10, <1>12, <1>13, <1>14

(***************************************************************************)
(* A transaction that holds its group's lock while others take their steps.*)
(***************************************************************************)
\* What it has read stays true when its own session stays, nobody gets a session of
\* its group, and nobody becomes able to take one.
LEMMA RequestKept ==
  ASSUME DeskAssumption, NEW r \in DeskRequest, DRequest(r), choosing'[r] = choosing[r],
         choosing[r].kind = "create" => session'[choosing[r].x] = session[choosing[r].x],
         choosing[r].kind # "create" => session'[choosing[r].x] = session[choosing[r].x],
         \A x \in Session : session'[x].status = "active" /\ session'[x].skill = choosing[r].skill =>
            session'[x] = session[x],
         choosing[r].kind = "create" =>
            \A y \in Session : session'[y].visitor = choosing[r].visitor /\ session'[y].status \in Unfinished =>
               session[y].visitor = choosing[r].visitor /\ session[y].status \in Unfinished,
         choosing[r].kind = "create" =>
            \A g \in Agent : presence'[g] = "available" /\ choosing[r].skill \in skillsOf'[g]
                             /\ freed'[g] \subseteq {choosing[r].skill} /\ Room(session', g, choosing[r].skill) =>
               /\ presence[g] = "available" /\ choosing[r].skill \in skillsOf[g]
               /\ freed[g] \subseteq {choosing[r].skill} /\ Room(session, g, choosing[r].skill)
  PROVE  DRequest(r)'
  <1>1. PICK c : c = choosing[r]
    OBVIOUS
  <1>2. PICK now : now = session'
    OBVIOUS
  <1>3. ASSUME NEW g \in c.eligible PROVE SkillLoadIn(now, g, c.skill) < MaxConcurrentPerAgent
    <2>1. \A x \in Session : now[x].status = "active" /\ now[x].agent = g /\ now[x].skill = c.skill =>
             session[x].status = "active" /\ session[x].agent = g /\ session[x].skill = c.skill
      BY <1>1, <1>2
    <2>2. SkillLoadIn(now, g, c.skill) <= SkillLoadIn(session, g, c.skill)
      BY <2>1, SkillLoadGrows
    <2>3. SkillLoadIn(session, g, c.skill) < MaxConcurrentPerAgent
      BY <1>1 DEF DRequest
    <2>4. /\ SkillLoadIn(session, g, c.skill) \in Nat /\ SkillLoadIn(now, g, c.skill) \in Nat
          /\ MaxConcurrentPerAgent \in Nat
      BY LoadsCounted DEF DeskAssumption
    <2> QED
      BY <2>2, <2>3, <2>4
  <1>4. /\ c.kind \in {"create", "claim", "transfer"}
        /\ c.x \in Session /\ c.visitor \in Visitor /\ c.skill \in SkillGroup /\ c.eligible \subseteq Agent
    BY <1>1 DEF DRequest
  <1>5. CASE c.kind = "create"
    <2>1. /\ session[c.x] = NoSession /\ session'[c.x] = session[c.x]
          /\ \A y \in Session : session[y].visitor = c.visitor => session[y].status \notin Unfinished
          /\ \A g \in Agent : presence[g] = "available" /\ c.skill \in skillsOf[g] /\ freed[g] \subseteq {c.skill}
                             /\ Room(session, g, c.skill) => g \in c.eligible
      BY <1>1, <1>5 DEF DRequest
    <2>2. \A y \in Session : session'[y].visitor = c.visitor => session'[y].status \notin Unfinished
      BY <2>1, <1>1, <1>5
    <2>3. \A g \in Agent : presence'[g] = "available" /\ c.skill \in skillsOf'[g] /\ freed'[g] \subseteq {c.skill}
                             /\ Room(session', g, c.skill) => g \in c.eligible
      BY <2>1, <1>1, <1>5
    <2> QED
      BY <2>1, <2>2, <2>3, <1>1, <1>2, <1>3, <1>4, <1>5 DEF DRequest
  <1>6. CASE c.kind # "create"
    <2>1. session'[c.x] = session[c.x]
      BY <1>1, <1>6
    <2>2. /\ session[c.x].skill = c.skill /\ session[c.x].visitor = c.visitor
          /\ c.kind = "claim" => session[c.x].status = "queued"
          /\ c.kind = "transfer" => /\ session[c.x].status = "active"
                                    /\ \E h \in Agent : c.eligible = {h} /\ h # session[c.x].agent
      BY <1>1, <1>6 DEF DRequest
    <2> QED
      BY <2>1, <2>2, <1>1, <1>2, <1>3, <1>4, <1>6 DEF DRequest
  <1> QED
    BY <1>5, <1>6

\* The queue is kept drained when nobody starts to wait, and whoever is available
\* with nothing freed elsewhere was so before, with the same room or more.
LEMMA StaysDrained ==
  ASSUME QueueDrained, NEW x \in Session, NEW g \in Agent,
         session'[x].status = "queued" => session[x].status = "queued" /\ session'[x].skill = session[x].skill,
         presence'[g] = "available" => presence[g] = "available",
         skillsOf'[g] = skillsOf[g], freed[g] \subseteq freed'[g],
         Room(session', g, session'[x].skill) => Room(session, g, session'[x].skill)
  PROVE  session'[x].status = "queued" /\ presence'[g] = "available" /\ session'[x].skill \in skillsOf'[g]
         /\ freed'[g] \subseteq {session'[x].skill} => ~Room(session', g, session'[x].skill)
  BY DEF QueueDrained

\* The order stays right when nobody arrives.
LEMMA ArrivedKept ==
  ASSUME DArrived(session), arrived' = arrived,
         \A x \in Session : session'[x].status = "none" <=> session[x].status = "none"
  PROVE  DArrived(session)'
  BY DEF DArrived

\* The same of the tables as they are.
LEMMA FilledNow ==
  ASSUME DeskAssumption, DeskInv, NEW g \in Agent, NEW groups, NEW able \in BOOLEAN,
         FilledBy(session, inChannel, g, groups, able)
  PROVE  /\ DSession(session') /\ DCapacity(session') /\ DParticipants(session', inChannel')
         /\ DOMAIN inChannel' = Visitor /\ arrived' = arrived
         /\ \A x \in Session :
              /\ session'[x].visitor = session[x].visitor /\ session'[x].skill = session[x].skill
              /\ session'[x] = session[x] \/ (session[x].status = "queued" /\ session[x].skill \in groups
                                          /\ session'[x].status = "active" /\ session'[x].agent = g)
         /\ able => \A x \in Session : session'[x].status = "queued" /\ session'[x].skill \in groups =>
                            ~Room(session', g, session'[x].skill)
  <1>1. /\ DSession(session) /\ DArrived(session) /\ DOMAIN inChannel = Visitor
        /\ DCapacity(session) /\ DParticipants(session, inChannel)
    BY DEF DeskInv, DShape
  <1> QED
    BY <1>1, Filled

\* An agent becomes available, unavailable, or changes his groups.
LEMMA RosterStep ==
  ASSUME DeskAssumption, DeskInv, NEW g \in Agent, NEW groups \in SUBSET SkillGroup, NEW new,
         \A k \in groups : SkillFree(k),
         presence' = [presence EXCEPT ![g] = new], skillsOf' = [skillsOf EXCEPT ![g] = groups],
         FilledBy(session, inChannel, g, groups, new = "available"),
         freed' = IF new = "available" THEN [freed EXCEPT ![g] = {}] ELSE freed,
         choosing' = choosing
  PROVE  DeskInv'
  <1>1. /\ DSession(session) /\ DArrived(session) /\ DShape
        /\ DCapacity(session) /\ DParticipants(session, inChannel) /\ QueueDrained
        /\ DLocks /\ \A r \in DeskRequest : choosing[r] # NotChoosing => DRequest(r)
    BY DEF DeskInv
  <1>2. /\ DSession(session') /\ DCapacity(session') /\ DParticipants(session', inChannel')
        /\ DOMAIN inChannel' = Visitor /\ arrived' = arrived
        /\ \A x \in Session :
              /\ session'[x].visitor = session[x].visitor /\ session'[x].skill = session[x].skill
              /\ session'[x] = session[x] \/ (session[x].status = "queued" /\ session[x].skill \in groups
                                          /\ session'[x].status = "active" /\ session'[x].agent = g)
        /\ new = "available" => \A x \in Session : session'[x].status = "queued" /\ session'[x].skill \in groups =>
                            ~Room(session', g, session'[x].skill)
    <2>1. CASE new = "available"
      <3>1. FilledBy(session, inChannel, g, groups, TRUE)
        BY <2>1
      <3> QED
        BY <3>1, FilledNow
    <2>2. CASE new # "available"
      <3>1. FilledBy(session, inChannel, g, groups, FALSE)
        BY <2>2
      <3> QED
        BY <2>2, <3>1, FilledNow
    <2> QED
      BY <2>1, <2>2
  <1>3. PICK now : now = session'
    OBVIOUS
  <1>4. ASSUME NEW h \in Agent, NEW k PROVE Room(now, h, k) => Room(session, h, k)
    <2>1. \A x \in Session : session[x].status = "active" /\ session[x].agent = h =>
             now[x].status = "active" /\ now[x].agent = h /\ now[x].skill = session[x].skill
      BY <1>2, <1>3
    <2> QED
      BY <2>1, LoadGrows
  <1>5. DArrived(session)'
    BY <1>1, <1>2, ArrivedKept
  <1>6. /\ \A h \in Agent : h # g => presence'[h] = presence[h] /\ skillsOf'[h] = skillsOf[h] /\ freed'[h] = freed[h]
        /\ presence'[g] = new /\ skillsOf'[g] = groups
        /\ DShape'
    BY <1>1, <1>2 DEF DShape
  <1>7. QueueDrained'
    <2>1. SUFFICES ASSUME NEW x \in Session, NEW h \in Agent
                   PROVE  session'[x].status = "queued" /\ presence'[h] = "available" /\ session'[x].skill \in skillsOf'[h]
                          /\ freed'[h] \subseteq {session'[x].skill} => ~Room(session', h, session'[x].skill)
      BY DEF QueueDrained
    <2>2. CASE h = g
      BY <2>2, <1>2, <1>6
    <2>3. CASE h # g
      <3>1. session'[x].status = "queued" => session[x].status = "queued" /\ session'[x].skill = session[x].skill
        BY <1>2
      <3>2. Room(session', h, session'[x].skill) => Room(session, h, session'[x].skill)
        BY <1>3, <1>4
      <3> QED
        BY <1>1, <2>3, <3>1, <3>2, <1>6, StaysDrained
    <2> QED
      BY <2>2, <2>3
  <1>8. DLocks'
    BY <1>1 DEF DLocks
  <1>9. ASSUME NEW r \in DeskRequest, choosing[r] # NotChoosing PROVE DRequest(r)'
    <2>1. DRequest(r) /\ choosing[r].skill \notin groups /\ choosing'[r] = choosing[r]
      BY <1>1, <1>9 DEF SkillFree
    <2>2. choosing[r].x \in Session
      BY <2>1 DEF DRequest
    <2>3. choosing[r].kind = "create" => session'[choosing[r].x] = session[choosing[r].x]
      BY <2>1, <2>2, <1>2 DEF DRequest, NoSession
    <2>4. choosing[r].kind # "create" => session'[choosing[r].x] = session[choosing[r].x]
      BY <2>1, <2>2, <1>2 DEF DRequest
    <2>5. \A x \in Session : session'[x].status = "active" /\ session'[x].skill = choosing[r].skill =>
            session'[x] = session[x]
      BY <2>1, <1>2
    <2>6. \A y \in Session : session'[y].visitor = choosing[r].visitor /\ session'[y].status \in Unfinished =>
               session[y].visitor = choosing[r].visitor /\ session[y].status \in Unfinished
      BY <1>2 DEF Unfinished
    <2>7. \A h \in Agent : presence'[h] = "available" /\ choosing[r].skill \in skillsOf'[h]
                             /\ freed'[h] \subseteq {choosing[r].skill} /\ Room(session', h, choosing[r].skill) =>
               /\ presence[h] = "available" /\ choosing[r].skill \in skillsOf[h]
               /\ freed[h] \subseteq {choosing[r].skill} /\ Room(session, h, choosing[r].skill)
      BY <2>1, <1>3, <1>4, <1>6
    <2> QED
      BY <2>1, <2>3, <2>4, <2>5, <2>6, <2>7, RequestKept
  <1> QED
    BY <1>1, <1>2, <1>5, <1>6, <1>7, <1>8, <1>9 DEF DeskInv

\* A session leaves its agent g: it has ended, or another agent has it.
LEMMA FreedStep ==
  ASSUME DeskAssumption, DeskInv, NEW x \in Session, session[x].status = "active", NEW mid, NEW members,
         DSession(mid), DCapacity(mid), DParticipants(mid, members), DOMAIN members = Visitor,
         \A y \in Session : y # x => mid[y] = session[y],
         mid[x].visitor = session[x].visitor, mid[x].skill = session[x].skill,
         mid[x].status \in {"active", "ended"}, mid[x].agent \in Agent,
         mid[x].status = "active" => mid[x].agent # session[x].agent,
         FilledBy(mid, members, session[x].agent, {session[x].skill} \intersect skillsOf[session[x].agent],
                  presence[session[x].agent] = "available"),
         freed' = [freed EXCEPT ![session[x].agent] = @ \union {session[x].skill}],
         presence' = presence, skillsOf' = skillsOf, DOMAIN choosing' = DeskRequest,
         \A r \in DeskRequest : choosing'[r] # NotChoosing =>
            choosing'[r] = choosing[r] /\ choosing[r].skill # session[x].skill
  PROVE  DeskInv'
  <1>1. /\ DSession(session) /\ DArrived(session) /\ DShape
        /\ DCapacity(session) /\ DParticipants(session, inChannel) /\ QueueDrained
        /\ DLocks /\ \A r \in DeskRequest : choosing[r] # NotChoosing => DRequest(r)
    BY DEF DeskInv
  <1>2. PICK g \in Agent : g = session[x].agent
    BY <1>1 DEF DSession
  <1>3. PICK k \in SkillGroup : k = session[x].skill
    BY <1>1 DEF DSession
  <1>4. DArrived(mid)
    <2>1. \A y \in Session : mid[y].status # "none" <=> session[y].status # "none"
      OBVIOUS
    <2> QED
      BY <1>1, <2>1 DEF DArrived
  <1>5. /\ DSession(session') /\ DCapacity(session') /\ DParticipants(session', inChannel')
        /\ DOMAIN inChannel' = Visitor /\ arrived' = arrived
        /\ \A y \in Session :
              /\ session'[y].visitor = mid[y].visitor /\ session'[y].skill = mid[y].skill
              /\ session'[y] = mid[y] \/ (mid[y].status = "queued" /\ mid[y].skill \in {k} \intersect skillsOf[g]
                                          /\ session'[y].status = "active" /\ session'[y].agent = g)
        /\ presence[g] = "available" =>
              \A y \in Session : session'[y].status = "queued" /\ session'[y].skill \in {k} \intersect skillsOf[g] =>
                            ~Room(session', g, session'[y].skill)
    <2>1. PICK groups : groups = {k} \intersect skillsOf[g]
      OBVIOUS
    <2>2. PICK able \in BOOLEAN : able = (presence[g] = "available")
      OBVIOUS
    <2>3. FilledBy(mid, members, g, groups, able)
      BY <2>1, <2>2, <1>2, <1>3
    <2> QED
      BY <1>4, <2>1, <2>2, <2>3, Filled
  <1>6. PICK now : now = session'
    OBVIOUS
  <1>7. \A y \in Session : now[y].visitor = session[y].visitor /\ now[y].skill = session[y].skill
    BY <1>5, <1>6
  <1>8. \A y \in Session : session[y].skill # k => now[y] = session[y]
    BY <1>3, <1>5, <1>6
  <1>9. ASSUME NEW h \in Agent, h # g, NEW j PROVE Room(now, h, j) => Room(session, h, j)
    <2>1. \A y \in Session : session[y].status = "active" /\ session[y].agent = h =>
             now[y].status = "active" /\ now[y].agent = h /\ now[y].skill = session[y].skill
      BY <1>2, <1>5, <1>6, <1>9
    <2> QED
      BY <2>1, LoadGrows
  <1>10. /\ \A h \in Agent : h # g => freed'[h] = freed[h]
         /\ freed'[g] = freed[g] \union {k}
         /\ DShape'
    BY <1>1, <1>2, <1>3, <1>5 DEF DShape
  <1>11. DArrived(session)'
    <2>1. \A y \in Session : session'[y].status = "none" <=> session[y].status = "none"
      BY <1>5
    <2> QED
      BY <1>1, <1>5, <2>1, ArrivedKept
  <1>12. QueueDrained'
    <2>1. SUFFICES ASSUME NEW y \in Session, NEW h \in Agent
                   PROVE  session'[y].status = "queued" /\ presence'[h] = "available" /\ session'[y].skill \in skillsOf'[h]
                          /\ freed'[h] \subseteq {session'[y].skill} => ~Room(session', h, session'[y].skill)
      BY DEF QueueDrained
    <2>2. CASE h = g
      <3>1. freed'[g] \subseteq {session'[y].skill} => session'[y].skill = k
        BY <1>10
      <3> QED
        BY <2>2, <3>1, <1>5
    <2>3. CASE h # g
      <3>1. session'[y].status = "queued" => session[y].status = "queued" /\ session'[y].skill = session[y].skill
        BY <1>5, <1>6, <1>7
      <3>2. Room(session', h, session'[y].skill) => Room(session, h, session'[y].skill)
        BY <2>3, <1>6, <1>9
      <3> QED
        BY <1>1, <2>3, <3>1, <3>2, <1>10, StaysDrained
    <2> QED
      BY <2>2, <2>3
  <1>13. DLocks'
    BY <1>1 DEF DLocks
  <1>14. ASSUME NEW r \in DeskRequest, choosing'[r] # NotChoosing PROVE DRequest(r)'
    <2>1. DRequest(r) /\ choosing[r].skill # k /\ choosing'[r] = choosing[r]
      BY <1>1, <1>3, <1>14
    <2>2. choosing[r].x \in Session
      BY <2>1 DEF DRequest
    <2>3. choosing[r].kind = "create" => session'[choosing[r].x] = session[choosing[r].x]
      <3>1. choosing[r].kind = "create" => session[choosing[r].x] = NoSession /\ choosing[r].x # x
        BY <2>1 DEF DRequest, NoSession
      <3> QED
        BY <3>1, <2>2, <1>5 DEF NoSession
    <2>4. choosing[r].kind # "create" => session'[choosing[r].x] = session[choosing[r].x]
      BY <2>1, <2>2, <1>6, <1>8 DEF DRequest
    <2>5. \A y \in Session : session'[y].status = "active" /\ session'[y].skill = choosing[r].skill =>
            session'[y] = session[y]
      BY <2>1, <1>6, <1>7, <1>8
    <2>6. \A y \in Session : session'[y].visitor = choosing[r].visitor /\ session'[y].status \in Unfinished =>
               session[y].visitor = choosing[r].visitor /\ session[y].status \in Unfinished
      BY <1>5, <1>6, <1>7 DEF Unfinished
    <2>7. ASSUME NEW h \in Agent, presence'[h] = "available", choosing[r].skill \in skillsOf'[h],
                 freed'[h] \subseteq {choosing[r].skill}, Room(session', h, choosing[r].skill)
          PROVE  /\ presence[h] = "available" /\ choosing[r].skill \in skillsOf[h]
                 /\ freed[h] \subseteq {choosing[r].skill} /\ Room(session, h, choosing[r].skill)
      <3>1. h # g
        BY <2>1, <2>7, <1>10
      <3> QED
        BY <3>1, <2>7, <1>6, <1>9, <1>10
    <2> QED
      BY <2>1, <2>3, <2>4, <2>5, <2>6, <2>7, RequestKept
  <1> QED
    BY <1>5, <1>10, <1>11, <1>12, <1>13, <1>14 DEF DeskInv

(***************************************************************************)
(* One row is written.                                                     *)
(***************************************************************************)
\* The rows stay well-formed when one is written for a visitor who has no other.
LEMMA RowReplaced ==
  ASSUME NEW ses, NEW out, NEW x \in Session, DSession(ses), DOMAIN out = Session,
         \A y \in Session : y # x => out[y] = ses[y],
         out[x] \in [status : {"none", "queued", "active", "ended"}, visitor : Visitor \union {NoAgent},
                     skill : SkillGroup \union {NoAgent}, agent : Agent \union {NoAgent}],
         out[x].status # "none", out[x].visitor \in Visitor, out[x].skill \in SkillGroup,
         out[x].status = "active" => out[x].agent \in Agent,
         out[x].status = "queued" => out[x].agent = NoAgent,
         \A y \in Session : y # x /\ ses[y].status \in Unfinished => ses[y].visitor # out[x].visitor
  PROVE  DSession(out)
  <1>1. ASSUME NEW y \in Session
        PROVE  /\ out[y] \in [status : {"none", "queued", "active", "ended"}, visitor : Visitor \union {NoAgent},
                              skill : SkillGroup \union {NoAgent}, agent : Agent \union {NoAgent}]
               /\ out[y].status = "none" => out[y] = NoSession
               /\ out[y].status # "none" => out[y].visitor \in Visitor /\ out[y].skill \in SkillGroup
               /\ out[y].status = "active" => out[y].agent \in Agent
               /\ out[y].status = "queued" => out[y].agent = NoAgent
    <2>1. CASE y = x
      BY <2>1
    <2>2. CASE y # x
      BY <2>2 DEF DSession
    <2> QED
      BY <2>1, <2>2
  <1>2. ASSUME NEW y \in Session, NEW z \in Session, out[y].status \in Unfinished, out[z].status \in Unfinished,
               out[y].visitor = out[z].visitor
        PROVE  y = z
    <2>1. CASE y = x \/ z = x
      BY <2>1, <1>2
    <2>2. CASE y # x /\ z # x
      BY <2>2, <1>2 DEF DSession
    <2> QED
      BY <2>1, <2>2
  <1> QED
    BY <1>1, <1>2 DEF DSession

\* The channel of a visitor with an unfinished session, who has no other one.
LEMMA ChannelOf ==
  ASSUME NEW ses, NEW members, NEW x \in Session, DSession(ses), DParticipants(ses, members),
         ses[x].status \in Unfinished
  PROVE  /\ members[ses[x].visitor] = IF ses[x].status = "active" THEN {ses[x].agent} ELSE {}
         /\ \A y \in Session : y # x /\ ses[y].status \in Unfinished => ses[y].visitor # ses[x].visitor
  <1>1. \A y \in Session : y # x /\ ses[y].status \in Unfinished => ses[y].visitor # ses[x].visitor
    BY DEF DSession
  <1>2. ses[x].visitor \in Visitor
    BY DEF DSession, Unfinished
  <1>3. PICK v \in Visitor : v = ses[x].visitor
    BY <1>2
  <1>4. members[v] = {ses[y].agent : y \in {z \in Session : ses[z].status = "active" /\ ses[z].visitor = v}}
    BY DEF DParticipants
  <1>5. \A y \in Session : ses[y].status = "active" /\ ses[y].visitor = v => y = x
    BY <1>1, <1>3 DEF Unfinished
  <1> QED
    BY <1>1, <1>3, <1>4, <1>5

\* The channels stay right when that of the row's visitor follows the row.
LEMMA ChannelReplaced ==
  ASSUME NEW ses, NEW members, NEW out, NEW now, NEW x \in Session, NEW v \in Visitor, DParticipants(ses, members),
         \A y \in Session : y # x => out[y] = ses[y],
         out[x].visitor = v, ses[x].status = "active" => ses[x].visitor = v,
         \A y \in Session : y # x /\ ses[y].status \in Unfinished => ses[y].visitor # v,
         \A u \in Visitor : u # v => now[u] = members[u],
         now[v] = IF out[x].status = "active" THEN {out[x].agent} ELSE {}
  PROVE  DParticipants(out, now)
  <1>1. ASSUME NEW u \in Visitor
        PROVE  now[u] = {out[y].agent : y \in {z \in Session : out[z].status = "active" /\ out[z].visitor = u}}
    <2>1. CASE u = v
      <3>1. \A y \in Session : out[y].status = "active" /\ out[y].visitor = u => y = x
        BY <2>1 DEF Unfinished
      <3> QED
        BY <2>1, <3>1
    <2>2. CASE u # v
      <3>1. members[u] = {ses[y].agent : y \in {z \in Session : ses[z].status = "active" /\ ses[z].visitor = u}}
        BY DEF DParticipants
      <3>2. \A y \in Session : (out[y].status = "active" /\ out[y].visitor = u)
                                  <=> (ses[y].status = "active" /\ ses[y].visitor = u)
        BY <2>2
      <3>3. \A y \in Session : out[y].status = "active" /\ out[y].visitor = u => out[y] = ses[y]
        BY <2>2
      <3>4. {out[y].agent : y \in {z \in Session : out[z].status = "active" /\ out[z].visitor = u}}
              = {ses[y].agent : y \in {z \in Session : ses[z].status = "active" /\ ses[z].visitor = u}}
        BY <3>2, <3>3
      <3> QED
        BY <2>2, <3>1, <3>4
    <2> QED
      BY <2>1, <2>2
  <1> QED
    BY <1>1 DEF DParticipants

\* A transaction takes a group's lock and reads the loads.
LEMMA AcquireStep ==
  ASSUME DeskAssumption, DeskInv, NEW r \in DeskRequest, NEW c, c # NotChoosing,
         choosing' = [choosing EXCEPT ![r] = c], SkillFree(c.skill), DRequest(r)',
         \A q \in DeskRequest : q # r /\ choosing[q] # NotChoosing =>
            choosing[q].x # c.x /\ choosing[q].visitor # c.visitor,
         UNCHANGED <<session, arrived, presence, skillsOf, inChannel, deskSteps, freed>>
  PROVE  DeskInv'
  <1>1. /\ session' = session /\ arrived' = arrived /\ presence' = presence /\ skillsOf' = skillsOf
        /\ inChannel' = inChannel /\ freed' = freed
    OBVIOUS
  <1>2. /\ DSession(session) /\ DArrived(session) /\ DShape
        /\ DCapacity(session) /\ DParticipants(session, inChannel) /\ QueueDrained
        /\ DLocks /\ \A q \in DeskRequest : choosing[q] # NotChoosing => DRequest(q)
    BY DEF DeskInv
  <1>3. DOMAIN choosing' = DeskRequest /\ choosing'[r] = c /\ \A q \in DeskRequest : q # r => choosing'[q] = choosing[q]
    BY <1>2 DEF DShape
  <1>4. ASSUME NEW q \in DeskRequest, choosing'[q] # NotChoosing PROVE DRequest(q)'
    <2>1. CASE q = r
      BY <2>1
    <2>2. CASE q # r
      <3>1. choosing'[q] = choosing[q] /\ DRequest(q)
        BY <1>2, <1>3, <1>4, <2>2
      <3> QED
        BY <3>1, <1>1 DEF DRequest
    <2> QED
      BY <2>1, <2>2
  <1>5. DLocks'
    <2>1. SUFFICES ASSUME NEW q \in DeskRequest, NEW w \in DeskRequest, q # w, choosing'[q] # NotChoosing, choosing'[w] # NotChoosing
                   PROVE  /\ choosing'[q].skill # choosing'[w].skill
                          /\ choosing'[q].x # choosing'[w].x /\ choosing'[q].visitor # choosing'[w].visitor
      BY DEF DLocks
    <2>2. CASE q = r
      BY <2>1, <2>2, <1>3 DEF SkillFree
    <2>3. CASE w = r
      BY <2>1, <2>3, <1>3 DEF SkillFree
    <2>4. CASE q # r /\ w # r
      BY <2>1, <2>4, <1>2, <1>3 DEF DLocks
    <2> QED
      BY <2>2, <2>3, <2>4
  <1>6. DArrived(session)' /\ DShape' /\ QueueDrained'
    <2>1. DArrived(session)'
      BY <1>1, <1>2 DEF DArrived
    <2>2. DShape'
      BY <1>1, <1>2, <1>3 DEF DShape
    <2>3. QueueDrained'
      BY <1>1, <1>2 DEF QueueDrained
    <2> QED
      BY <2>1, <2>2, <2>3
  <1> QED
    BY <1>1, <1>2, <1>4, <1>5, <1>6 DEF DeskInv

\* The steps.
LEMMA StartStep ==
  ASSUME DeskAssumption, DeskInv, NEW r \in DeskRequest, NEW x \in Session, NEW v \in Visitor, NEW k \in SkillGroup,
         CreateSupportSession(r, x, v, k)
  PROVE  DeskInv'
  <1>1. PICK c : c = [kind |-> "create", x |-> x, visitor |-> v, skill |-> k, eligible |-> Eligible(k, NoAgent)]
    OBVIOUS
  <1>2. /\ c # NotChoosing /\ c.kind = "create" /\ c.x = x /\ c.visitor = v /\ c.skill = k /\ c.eligible = Eligible(k, NoAgent)
    <2>1. c.kind = "create" /\ c.x = x /\ c.visitor = v /\ c.skill = k /\ c.eligible = Eligible(k, NoAgent)
      BY <1>1
    <2>2. NotChoosing.kind = "none"
      BY DEF NotChoosing
    <2> QED
      BY <2>1, <2>2
  <1>3. /\ choosing' = [choosing EXCEPT ![r] = c] /\ SkillFree(c.skill)
        /\ session[x] = NoSession
        /\ \A q \in DeskRequest : choosing[q] # NotChoosing => choosing[q].x # c.x /\ choosing[q].visitor # c.visitor
        /\ \A y \in Session : session[y].visitor = v => session[y].status \notin Unfinished
        /\ UNCHANGED <<session, arrived, presence, skillsOf, inChannel, deskSteps, freed>>
    BY <1>1, <1>2 DEF CreateSupportSession
  <1>4. choosing'[r] = c
    BY <1>3 DEF DeskInv, DShape
  <1>5. DRequest(r)'
    <2>1. /\ c.eligible \subseteq Agent
          /\ \A g \in c.eligible : SkillLoadIn(session, g, k) < MaxConcurrentPerAgent
          /\ \A g \in Agent : presence[g] = "available" /\ k \in skillsOf[g] /\ Room(session, g, k) => g \in c.eligible
      BY <1>2 DEF Eligible, Room
    <2> QED
      BY <1>2, <1>3, <1>4, <2>1 DEF DRequest
  <1> QED
    BY <1>2, <1>3, <1>5, AcquireStep

\* Nobody else is about an unfinished session of a group whose lock is free.
LEMMA OthersOf ==
  ASSUME DeskInv, NEW x \in Session, session[x].status \in Unfinished, SkillFree(session[x].skill),
         NEW q \in DeskRequest, choosing[q] # NotChoosing
  PROVE  choosing[q].x # x /\ choosing[q].visitor # session[x].visitor
  <1>1. DRequest(q) /\ choosing[q].skill # session[x].skill
    BY DEF DeskInv, SkillFree
  <1>2. CASE choosing[q].kind = "create"
    BY <1>1, <1>2 DEF DRequest, NoSession, Unfinished
  <1>3. CASE choosing[q].kind # "create"
    <2>1. /\ session[choosing[q].x].skill = choosing[q].skill /\ session[choosing[q].x].visitor = choosing[q].visitor
          /\ session[choosing[q].x].status \in Unfinished /\ choosing[q].x \in Session
      BY <1>1, <1>3 DEF DRequest, Unfinished
    <2> QED
      BY <2>1, <1>1 DEF DeskInv, DSession
  <1> QED
    BY <1>2, <1>3

LEMMA ClaimStep ==
  ASSUME DeskAssumption, DeskInv, NEW r \in DeskRequest, NEW x \in Session, NEW h \in Agent,
         ClaimSupportSession(r, x, h)
  PROVE  DeskInv'
  <1>1. PICK c : c = [kind |-> "claim", x |-> x, visitor |-> session[x].visitor, skill |-> session[x].skill,
                      eligible |-> Eligible(session[x].skill, h)]
    OBVIOUS
  <1>2. /\ c.kind = "claim" /\ c.x = x /\ c.visitor = session[x].visitor /\ c.skill = session[x].skill
        /\ c.eligible = Eligible(session[x].skill, h) /\ c # NotChoosing
    <2>1. /\ c.kind = "claim" /\ c.x = x /\ c.visitor = session[x].visitor /\ c.skill = session[x].skill
          /\ c.eligible = Eligible(session[x].skill, h)
      BY <1>1
    <2>2. NotChoosing.kind = "none"
      BY DEF NotChoosing
    <2> QED
      BY <2>1, <2>2
  <1>3. /\ choosing' = [choosing EXCEPT ![r] = c] /\ SkillFree(c.skill) /\ session[x].status = "queued"
        /\ UNCHANGED <<session, arrived, presence, skillsOf, inChannel, deskSteps, freed>>
    BY <1>1, <1>2 DEF ClaimSupportSession
  <1>4. choosing'[r] = c
    BY <1>3 DEF DeskInv, DShape
  <1>5. DRequest(r)'
    <2>1. /\ c.eligible \subseteq Agent
          /\ \A g \in c.eligible : SkillLoadIn(session, g, c.skill) < MaxConcurrentPerAgent
      BY <1>2 DEF Eligible, Room
    <2>2. c.visitor \in Visitor /\ c.skill \in SkillGroup
      BY <1>2, <1>3 DEF DeskInv, DSession
    <2> QED
      BY <1>2, <1>3, <1>4, <2>1, <2>2 DEF DRequest
  <1>6. \A q \in DeskRequest : choosing[q] # NotChoosing => choosing[q].x # c.x /\ choosing[q].visitor # c.visitor
    BY <1>2, <1>3, OthersOf DEF Unfinished
  <1> QED
    BY <1>2, <1>3, <1>5, <1>6, AcquireStep

LEMMA CheckStep ==
  ASSUME DeskAssumption, DeskInv, NEW r \in DeskRequest, NEW x \in Session, NEW h \in Agent,
         CheckTransfer(r, x, h)
  PROVE  DeskInv'
  <1>1. PICK c : c = [kind |-> "transfer", x |-> x, visitor |-> session[x].visitor, skill |-> session[x].skill,
                      eligible |-> {h}]
    OBVIOUS
  <1>2. /\ c.kind = "transfer" /\ c.x = x /\ c.visitor = session[x].visitor /\ c.skill = session[x].skill
        /\ c.eligible = {h} /\ c # NotChoosing
    <2>1. /\ c.kind = "transfer" /\ c.x = x /\ c.visitor = session[x].visitor /\ c.skill = session[x].skill
          /\ c.eligible = {h}
      BY <1>1
    <2>2. NotChoosing.kind = "none"
      BY DEF NotChoosing
    <2> QED
      BY <2>1, <2>2
  <1>3. /\ choosing' = [choosing EXCEPT ![r] = c] /\ SkillFree(c.skill) /\ session[x].status = "active"
        /\ h # session[x].agent /\ TargetAllowed(h, session[x].skill)
        /\ UNCHANGED <<session, arrived, presence, skillsOf, inChannel, deskSteps, freed>>
    BY <1>1, <1>2 DEF CheckTransfer
  <1>4. choosing'[r] = c
    BY <1>3 DEF DeskInv, DShape
  <1>5. DRequest(r)'
    <2>1. SkillLoadIn(session, h, c.skill) < MaxConcurrentPerAgent
      <3>1. LoadIn(session, h) < MaxConcurrentPerAgent
        BY <1>3 DEF TargetAllowed
      <3>2. /\ LoadIn(session, h) \in Nat /\ SkillLoadIn(session, h, c.skill) \in Nat
            /\ SkillLoadIn(session, h, c.skill) <= LoadIn(session, h) /\ MaxConcurrentPerAgent \in Nat
        BY LoadsCounted DEF DeskAssumption
      <3> QED
        BY <3>1, <3>2
    <2>2. c.visitor \in Visitor /\ c.skill \in SkillGroup
      BY <1>2, <1>3 DEF DeskInv, DSession
    <2> QED
      BY <1>2, <1>3, <1>4, <2>1, <2>2 DEF DRequest
  <1>6. \A q \in DeskRequest : choosing[q] # NotChoosing => choosing[q].x # c.x /\ choosing[q].visitor # c.visitor
    BY <1>2, <1>3, OthersOf DEF Unfinished
  <1> QED
    BY <1>2, <1>3, <1>5, <1>6, AcquireStep

LEMMA StatusStep ==
  ASSUME DeskAssumption, DeskInv, NEW g \in Agent, NEW new, SetSupportAgentStatus(g, new)
  PROVE  DeskInv'
  <1>1. PICK groups \in SUBSET SkillGroup : groups = skillsOf[g]
    BY DEF DeskInv, DShape
  <1>2. skillsOf' = [skillsOf EXCEPT ![g] = groups]
    <2>1. skillsOf' = skillsOf /\ skillsOf \in [Agent -> SUBSET SkillGroup]
      BY DEF SetSupportAgentStatus, DeskInv, DShape
    <2> QED
      BY <1>1, <2>1
  <1>3. \A k \in groups : SkillFree(k)
    BY <1>1 DEF SetSupportAgentStatus, AgentFree
  <1>4. /\ presence' = [presence EXCEPT ![g] = new] /\ choosing' = choosing
        /\ FilledBy(session, inChannel, g, groups, new = "available")
        /\ freed' = IF new = "available" THEN [freed EXCEPT ![g] = {}] ELSE freed
    BY <1>1 DEF SetSupportAgentStatus
  <1> QED
    BY <1>2, <1>3, <1>4, RosterStep

LEMMA SaveStep ==
  ASSUME DeskAssumption, DeskInv, NEW g \in Agent, NEW groups \in SUBSET SkillGroup, NEW new,
         SaveSupportAgent(g, groups, new)
  PROVE  DeskInv'
  <1>1. /\ presence' = [presence EXCEPT ![g] = new] /\ choosing' = choosing
        /\ skillsOf' = [skillsOf EXCEPT ![g] = groups] /\ \A k \in groups : SkillFree(k)
        /\ FilledBy(session, inChannel, g, groups, new = "available")
        /\ freed' = IF new = "available" THEN [freed EXCEPT ![g] = {}] ELSE freed
    BY DEF SaveSupportAgent
  <1> QED
    BY <1>1, RosterStep

\* The choice is written: the session is opened or claimed, with an agent or without.
LEMMA AssignStep ==
  ASSUME DeskAssumption, DeskInv, NEW r \in DeskRequest, assignSupportSessionTx(r)
  PROVE  DeskInv'
  <1>1. PICK c : c = choosing[r]
    OBVIOUS
  <1>2. /\ c.kind \in {"create", "claim"} /\ choosing' = [choosing EXCEPT ![r] = NotChoosing]
        /\ presence' = presence /\ skillsOf' = skillsOf /\ freed' = freed
        /\ arrived' = IF c.kind = "create" THEN Append(arrived, c.x) ELSE arrived
    BY <1>1 DEF assignSupportSessionTx
  <1>3. choosing[r] # NotChoosing
    BY <1>1, <1>2 DEF NotChoosing
  <1>4. /\ DSession(session) /\ DArrived(session) /\ DShape
        /\ DCapacity(session) /\ DParticipants(session, inChannel) /\ QueueDrained
        /\ DLocks /\ DRequest(r) /\ \A q \in DeskRequest : choosing[q] # NotChoosing => DRequest(q)
    BY <1>3 DEF DeskInv
  <1>5. /\ c.x \in Session /\ c.visitor \in Visitor /\ c.skill \in SkillGroup /\ c.eligible \subseteq Agent
        /\ \A g \in c.eligible : SkillLoadIn(session, g, c.skill) < MaxConcurrentPerAgent
        /\ c.kind = "create" =>
             /\ session[c.x] = NoSession
             /\ \A y \in Session : session[y].visitor = c.visitor => session[y].status \notin Unfinished
             /\ \A g \in Agent : presence[g] = "available" /\ c.skill \in skillsOf[g] /\ freed[g] \subseteq {c.skill}
                             /\ Room(session, g, c.skill) => g \in c.eligible
        /\ c.kind = "claim" => session[c.x].status = "queued" /\ session[c.x].skill = c.skill /\ session[c.x].visitor = c.visitor
    BY <1>1, <1>4 DEF DRequest
  <1>6. PICK opened : opened = IF c.kind = "create"
                  THEN [session EXCEPT ![c.x] = [status |-> "queued", visitor |-> c.visitor, skill |-> c.skill, agent |-> NoAgent]]
                  ELSE session
    OBVIOUS
  <1>7. PICK cleared : cleared = IF c.kind = "create" THEN [inChannel EXCEPT ![c.visitor] = {}] ELSE inChannel
    OBVIOUS
  <1>8. IF StillEligible(c) = {}
        THEN session' = opened /\ inChannel' = cleared
        ELSE \E g \in StillEligible(c) :
               session' = Assigned(opened, {c.x}, g) /\ inChannel' = WithAgent(cleared, {c.visitor}, g)
    BY <1>1, <1>6, <1>7 DEF assignSupportSessionTx
  <1>9. \A y \in Session : y # c.x /\ session[y].status \in Unfinished => session[y].visitor # c.visitor
    <2>1. CASE c.kind = "create"
      BY <2>1, <1>5
    <2>2. CASE c.kind = "claim"
      BY <2>2, <1>4, <1>5 DEF DSession, Unfinished
    <2> QED
      BY <2>1, <2>2, <1>2
  <1>10. session[c.x].status \in {"none", "queued"}
    BY <1>2, <1>5 DEF NoSession
  <1>11. /\ DSession(opened) /\ DOMAIN opened = Session
         /\ opened[c.x].status = "queued" /\ opened[c.x].visitor = c.visitor /\ opened[c.x].skill = c.skill
         /\ \A y \in Session : y # c.x => opened[y] = session[y]
    <2>1. CASE c.kind = "create"
      <3>1. PICK entry : entry = [status |-> "queued", visitor |-> c.visitor, skill |-> c.skill, agent |-> NoAgent]
        OBVIOUS
      <3>2. /\ entry.status = "queued" /\ entry.visitor = c.visitor /\ entry.skill = c.skill /\ entry.agent = NoAgent
            /\ entry \in [status : {"none", "queued", "active", "ended"}, visitor : Visitor \union {NoAgent},
                        skill : SkillGroup \union {NoAgent}, agent : Agent \union {NoAgent}]
        BY <3>1, <1>5
      <3>3. opened = [session EXCEPT ![c.x] = entry]
        BY <2>1, <3>1, <1>6
      <3>4. DOMAIN opened = Session /\ opened[c.x] = entry /\ \A y \in Session : y # c.x => opened[y] = session[y]
        BY <3>3, <1>4, <1>5 DEF DSession
      <3>5. DSession(opened)
        BY <3>2, <3>4, <1>4, <1>5, <1>9, RowReplaced
      <3> QED
        BY <3>2, <3>4, <3>5
    <2>2. CASE c.kind = "claim"
      BY <2>2, <1>4, <1>5, <1>6 DEF DSession
    <2> QED
      BY <2>1, <2>2, <1>2
  <1>12. PICK now : now = session'
    OBVIOUS
  <1>13. /\ DSession(now) /\ DOMAIN now = Session /\ \A y \in Session : y # c.x => now[y] = session[y]
         /\ now[c.x].visitor = c.visitor /\ now[c.x].skill = c.skill /\ now[c.x].status \in Unfinished
         /\ now[c.x].status = "queued" => StillEligible(c) = {}
         /\ now[c.x].status = "active" => now[c.x].agent \in StillEligible(c)
    <2>1. CASE StillEligible(c) = {}
      <3>1. now = opened
        BY <2>1, <1>8, <1>12
      <3> QED
        BY <2>1, <3>1, <1>11 DEF Unfinished
    <2>2. CASE StillEligible(c) # {}
      <3>1. PICK g \in StillEligible(c) : now = Assigned(opened, {c.x}, g)
        BY <2>2, <1>8, <1>12
      <3>2. PICK one \in SUBSET Session : one = {c.x}
        BY <1>5
      <3>3. g \in Agent /\ now = Assigned(opened, one, g) /\ \A y \in one : opened[y].status = "queued"
        BY <3>1, <3>2, <1>5, <1>11 DEF StillEligible
      <3>4. /\ \A y \in Session : y \notin one => now[y] = opened[y]
            /\ \A y \in one : /\ now[y].status = "active" /\ now[y].agent = g
                              /\ now[y].visitor = opened[y].visitor /\ now[y].skill = opened[y].skill
            /\ DSession(now)
        BY <3>3, <1>11, TakenSessions
      <3>5. /\ \A y \in Session : y # c.x => now[y] = session[y]
            /\ now[c.x].status = "active" /\ now[c.x].agent = g
            /\ now[c.x].visitor = c.visitor /\ now[c.x].skill = c.skill
        BY <3>2, <3>4, <1>11
      <3>6. DOMAIN now = Session
        BY <3>4 DEF DSession
      <3> QED
        BY <3>1, <3>4, <3>5, <3>6 DEF Unfinished
    <2> QED
      BY <2>1, <2>2
  <1>14. StillEligible(c) \subseteq c.eligible
    BY DEF StillEligible
  <1>15. DCapacity(now)
    <2>1. SUFFICES ASSUME NEW g \in Agent, NEW k \in SkillGroup PROVE SkillLoadIn(now, g, k) <= MaxConcurrentPerAgent
      BY DEF DCapacity
    <2>2. /\ SkillLoadIn(now, g, k) \in Nat /\ SkillLoadIn(session, g, k) \in Nat /\ MaxConcurrentPerAgent \in Nat
      BY LoadsCounted DEF DeskAssumption
    <2>3. CASE now[c.x].status = "active" /\ now[c.x].agent = g /\ k = c.skill
      <3>1. SkillLoadIn(session, g, k) < MaxConcurrentPerAgent
        BY <2>3, <1>5, <1>13, <1>14
      <3>2. PICK part : part = {y \in Session : session[y].status = "active" /\ session[y].agent = g /\ session[y].skill = k}
        OBVIOUS
      <3>3. /\ part \subseteq Session
            /\ {y \in Session : now[y].status = "active" /\ now[y].agent = g /\ now[y].skill = k} \subseteq part \union {c.x}
        BY <3>2, <1>13
      <3>4. SkillLoadIn(now, g, k) <= SkillLoadIn(session, g, k) + 1
        BY <3>2, <3>3, <1>5, OneMoreSession DEF SkillLoadIn
      <3> QED
        BY <2>2, <3>1, <3>4
    <2>4. CASE ~(now[c.x].status = "active" /\ now[c.x].agent = g /\ k = c.skill)
      <3>1. \A y \in Session : now[y].status = "active" /\ now[y].agent = g /\ now[y].skill = k =>
               session[y].status = "active" /\ session[y].agent = g /\ session[y].skill = k
        BY <2>4, <1>13
      <3>2. SkillLoadIn(now, g, k) <= SkillLoadIn(session, g, k)
        BY <3>1, SkillLoadGrows
      <3>3. SkillLoadIn(session, g, k) <= MaxConcurrentPerAgent
        BY <1>4 DEF DCapacity
      <3> QED
        BY <2>2, <3>2, <3>3
    <2> QED
      BY <2>3, <2>4
  <1>16. DOMAIN inChannel' = Visitor /\ DParticipants(now, inChannel')
    <2>1. DOMAIN inChannel = Visitor
      BY <1>4 DEF DShape
    <2>2. DOMAIN cleared = Visitor /\ cleared[c.visitor] = {} /\ \A u \in Visitor : u # c.visitor => cleared[u] = inChannel[u]
      <3>1. CASE c.kind = "create"
        BY <3>1, <2>1, <1>5, <1>7
      <3>2. CASE c.kind = "claim"
        <4>1. inChannel[c.visitor] = {}
          <5>1. session[c.x].status = "queued" /\ session[c.x].status \in Unfinished /\ session[c.x].visitor = c.visitor
            BY <3>2, <1>5 DEF Unfinished
          <5>2. inChannel[session[c.x].visitor] = IF session[c.x].status = "active" THEN {session[c.x].agent} ELSE {}
            BY <5>1, <1>4, <1>5, ChannelOf
          <5> QED
            BY <5>1, <5>2
        <4> QED
          BY <3>2, <4>1, <2>1, <1>7
      <3> QED
        BY <3>1, <3>2, <1>2
    <2>3. /\ DOMAIN inChannel' = Visitor
          /\ \A u \in Visitor : u # c.visitor => inChannel'[u] = inChannel[u]
          /\ inChannel'[c.visitor] = IF now[c.x].status = "active" THEN {now[c.x].agent} ELSE {}
      <3>1. CASE StillEligible(c) = {}
        BY <3>1, <2>2, <1>8, <1>11, <1>12
      <3>2. CASE StillEligible(c) # {}
        <4>1. PICK g \in StillEligible(c) : now = Assigned(opened, {c.x}, g) /\ inChannel' = WithAgent(cleared, {c.visitor}, g)
          BY <3>2, <1>8, <1>12
        <4>2. now[c.x] = [opened[c.x] EXCEPT !.status = "active", !.agent = g]
          BY <4>1, <1>5 DEF Assigned
        <4>3. PICK entry : entry = opened[c.x]
          OBVIOUS
        <4>4. entry \in [status : {"none", "queued", "active", "ended"}, visitor : Visitor \union {NoAgent},
                       skill : SkillGroup \union {NoAgent}, agent : Agent \union {NoAgent}]
          BY <4>3, <1>5, <1>11 DEF DSession
        <4>5. now[c.x].status = "active" /\ now[c.x].agent = g
          BY <4>2, <4>3, <4>4
        <4>6. \A u \in Visitor : inChannel'[u] = IF u \in {c.visitor} THEN cleared[u] \union {g} ELSE cleared[u]
          BY <4>1 DEF WithAgent
        <4>7. DOMAIN inChannel' = Visitor
          BY <4>1 DEF WithAgent
        <4> QED
          BY <4>5, <4>6, <4>7, <2>2, <1>5
      <3> QED
        BY <3>1, <3>2
    <2>4. PICK members : members = inChannel'
      OBVIOUS
    <2>5. session[c.x].status # "active"
      BY <1>10
    <2>6. DParticipants(now, members)
      BY <2>3, <2>4, <2>5, <1>4, <1>5, <1>9, <1>13, ChannelReplaced
    <2> QED
      BY <2>3, <2>4, <2>6
  <1>17. DArrived(session)'
    <2>1. CASE c.kind = "create"
      <3>1. arrived' = Append(arrived, c.x) /\ arrived \in Seq(Session) /\ session[c.x].status = "none"
        BY <2>1, <1>2, <1>4, <1>5 DEF DArrived, NoSession
      <3>2. /\ arrived' \in Seq(Session) /\ DOMAIN arrived' = 1 .. Len(arrived) + 1 /\ DOMAIN arrived = 1 .. Len(arrived)
            /\ Len(arrived) \in Nat /\ arrived'[Len(arrived) + 1] = c.x
            /\ \A i \in DOMAIN arrived : arrived'[i] = arrived[i]
        BY <3>1, <1>5
      <3>3. \A i \in DOMAIN arrived : arrived[i] # c.x
        BY <3>1, <1>4, <1>5 DEF DArrived
      <3>4. ASSUME NEW x \in Session PROVE session'[x].status # "none" <=> \E i \in DOMAIN arrived' : arrived'[i] = x
        <4>1. CASE x = c.x
          <5>1. Len(arrived) + 1 \in DOMAIN arrived'
            BY <3>2
          <5> QED
            BY <4>1, <5>1, <3>2, <1>12, <1>13 DEF Unfinished
        <4>2. CASE x # c.x
          <5>1. session'[x] = session[x]
            BY <4>2, <1>12, <1>13
          <5>2. session[x].status # "none" <=> \E i \in DOMAIN arrived : arrived[i] = x
            BY <1>4 DEF DArrived
          <5>3. ASSUME NEW i \in DOMAIN arrived', arrived'[i] = x PROVE \E j \in DOMAIN arrived : arrived[j] = x
            <6>1. i # Len(arrived) + 1
              BY <5>3, <4>2, <3>2
            <6>2. i \in DOMAIN arrived
              BY <6>1, <3>2
            <6> QED
              BY <6>2, <5>3, <3>2
          <5>4. ASSUME NEW i \in DOMAIN arrived, arrived[i] = x PROVE \E j \in DOMAIN arrived' : arrived'[j] = x
            <6>1. i \in DOMAIN arrived'
              BY <3>2
            <6> QED
              BY <6>1, <5>4, <3>2
          <5> QED
            BY <5>1, <5>2, <5>3, <5>4
        <4> QED
          BY <4>1, <4>2
      <3>5. ASSUME NEW i \in DOMAIN arrived', NEW j \in DOMAIN arrived', arrived'[i] = arrived'[j] PROVE i = j
        <4>1. \A n \in DOMAIN arrived' : n \in DOMAIN arrived \/ n = Len(arrived) + 1
          BY <3>2
        <4>2. CASE i \in DOMAIN arrived /\ j \in DOMAIN arrived
          BY <4>2, <3>5, <3>2, <1>4 DEF DArrived
        <4>3. CASE i = Len(arrived) + 1 \/ j = Len(arrived) + 1
          BY <4>1, <4>3, <3>5, <3>2, <3>3
        <4> QED
          BY <4>1, <4>2, <4>3
      <3> QED
        BY <3>2, <3>4, <3>5 DEF DArrived
    <2>2. CASE c.kind = "claim"
      <3>1. arrived' = arrived /\ session[c.x].status = "queued"
        BY <2>2, <1>2, <1>5
      <3>2. \A x \in Session : session'[x].status = "none" <=> session[x].status = "none"
        BY <3>1, <1>12, <1>13 DEF Unfinished
      <3> QED
        BY <3>1, <3>2, <1>4, ArrivedKept
    <2> QED
      BY <2>1, <2>2, <1>2
  <1>18. ASSUME NEW g \in Agent, NEW k PROVE Room(now, g, k) => Room(session, g, k)
    <2>1. \A y \in Session : session[y].status = "active" /\ session[y].agent = g =>
             now[y].status = "active" /\ now[y].agent = g /\ now[y].skill = session[y].skill
      BY <1>10, <1>13
    <2> QED
      BY <2>1, LoadGrows
  <1>19. QueueDrained'
    <2>1. SUFFICES ASSUME NEW x \in Session, NEW g \in Agent
                   PROVE  session'[x].status = "queued" /\ presence'[g] = "available" /\ session'[x].skill \in skillsOf'[g]
                          /\ freed'[g] \subseteq {session'[x].skill} => ~Room(session', g, session'[x].skill)
      BY DEF QueueDrained
    <2>2. CASE x = c.x /\ c.kind = "create"
      <3>1. SUFFICES ASSUME now[c.x].status = "queued", presence[g] = "available", c.skill \in skillsOf[g],
                            freed[g] \subseteq {c.skill}, Room(now, g, c.skill)
                     PROVE  FALSE
        BY <2>2, <1>2, <1>12, <1>13
      <3>2. StillEligible(c) = {}
        BY <3>1, <1>13
      <3>3. g \in c.eligible
        BY <3>1, <2>2, <1>5, <1>18
      <3> QED
        BY <3>1, <3>2, <3>3 DEF StillEligible
    <2>3. CASE x # c.x \/ c.kind = "claim"
      <3>1. session'[x].status = "queued" => session[x].status = "queued" /\ session'[x].skill = session[x].skill
        BY <2>3, <1>5, <1>12, <1>13
      <3>2. Room(session', g, session'[x].skill) => Room(session, g, session'[x].skill)
        BY <1>12, <1>18
      <3> QED
        BY <1>2, <1>4, <3>1, <3>2, StaysDrained
    <2> QED
      BY <2>2, <2>3, <1>2
  <1>20. /\ DOMAIN choosing' = DeskRequest /\ choosing'[r] = NotChoosing
         /\ \A q \in DeskRequest : q # r => choosing'[q] = choosing[q]
    BY <1>2, <1>4 DEF DShape
  <1>21. DShape' /\ DLocks'
    <2>1. DShape'
      BY <1>2, <1>4, <1>16, <1>20 DEF DShape
    <2>2. DLocks'
      BY <1>4, <1>20 DEF DLocks
    <2> QED
      BY <2>1, <2>2
  <1>22. ASSUME NEW q \in DeskRequest, choosing'[q] # NotChoosing PROVE DRequest(q)'
    <2>1. q # r /\ choosing'[q] = choosing[q] /\ choosing[q] # NotChoosing
      BY <1>20, <1>22
    <2>2. DRequest(q) /\ choosing[q].skill # c.skill /\ choosing[q].x # c.x /\ choosing[q].visitor # c.visitor
      BY <2>1, <1>1, <1>3, <1>4 DEF DLocks
    <2>3. choosing[q].x \in Session /\ session'[choosing[q].x] = session[choosing[q].x]
      BY <2>2, <1>12, <1>13 DEF DRequest
    <2>4. \A x \in Session : session'[x].status = "active" /\ session'[x].skill = choosing[q].skill =>
            session'[x] = session[x]
      BY <2>2, <1>12, <1>13
    <2>5. \A y \in Session : session'[y].visitor = choosing[q].visitor /\ session'[y].status \in Unfinished =>
               session[y].visitor = choosing[q].visitor /\ session[y].status \in Unfinished
      BY <2>2, <1>12, <1>13
    <2>6. \A h \in Agent : presence'[h] = "available" /\ choosing[q].skill \in skillsOf'[h]
                             /\ freed'[h] \subseteq {choosing[q].skill} /\ Room(session', h, choosing[q].skill) =>
               /\ presence[h] = "available" /\ choosing[q].skill \in skillsOf[h]
               /\ freed[h] \subseteq {choosing[q].skill} /\ Room(session, h, choosing[q].skill)
      BY <1>2, <1>12, <1>18
    <2> QED
      BY <2>1, <2>2, <2>3, <2>4, <2>5, <2>6, RequestKept
  <1> QED
    BY <1>12, <1>13, <1>15, <1>16, <1>17, <1>19, <1>21, <1>22 DEF DeskInv

\* A session that waited is ended: nobody's slot is freed.
LEMMA EndWaitingStep ==
  ASSUME DeskAssumption, DeskInv, NEW x \in Session, session[x].status = "queued", SkillFree(session[x].skill),
         session' = [session EXCEPT ![x].status = "ended"],
         UNCHANGED <<arrived, inChannel, freed, presence, skillsOf, choosing>>
  PROVE  DeskInv'
  <1>1. /\ DSession(session) /\ DArrived(session) /\ DShape
        /\ DCapacity(session) /\ DParticipants(session, inChannel) /\ QueueDrained
        /\ DLocks /\ \A r \in DeskRequest : choosing[r] # NotChoosing => DRequest(r)
    BY DEF DeskInv
  <1>2. /\ arrived' = arrived /\ inChannel' = inChannel /\ freed' = freed /\ presence' = presence
        /\ skillsOf' = skillsOf /\ choosing' = choosing
    OBVIOUS
  <1>3. PICK entry : entry = session[x]
    OBVIOUS
  <1>4. /\ entry \in [status : {"none", "queued", "active", "ended"}, visitor : Visitor \union {NoAgent},
                   skill : SkillGroup \union {NoAgent}, agent : Agent \union {NoAgent}]
        /\ entry.status = "queued" /\ entry.visitor \in Visitor /\ entry.skill \in SkillGroup
    BY <1>1, <1>3 DEF DSession
  <1>5. PICK done : done = [entry EXCEPT !.status = "ended"]
    OBVIOUS
  <1>6. /\ done \in [status : {"none", "queued", "active", "ended"}, visitor : Visitor \union {NoAgent},
                   skill : SkillGroup \union {NoAgent}, agent : Agent \union {NoAgent}]
        /\ done.status = "ended" /\ done.visitor = entry.visitor /\ done.skill = entry.skill
    BY <1>4, <1>5
  <1>7. PICK now : now = session'
    OBVIOUS
  <1>8. DOMAIN now = Session /\ now[x] = done /\ \A y \in Session : y # x => now[y] = session[y]
    BY <1>1, <1>3, <1>5, <1>7 DEF DSession
  <1>9. \A y \in Session : y # x /\ session[y].status \in Unfinished => session[y].visitor # entry.visitor
    <2>1. session[x].status \in Unfinished
      BY DEF Unfinished
    <2>2. \A y \in Session : y # x /\ session[y].status \in Unfinished => session[y].visitor # session[x].visitor
      BY <1>1, <2>1, ChannelOf
    <2> QED
      BY <2>2, <1>3
  <1>10. DSession(now)
    BY <1>1, <1>4, <1>6, <1>8, <1>9, RowReplaced
  <1>11. \A y \in Session : now[y].status = "active" <=> session[y].status = "active"
    BY <1>3, <1>4, <1>6, <1>8
  <1>12. \A y \in Session : now[y].status = "active" => now[y] = session[y]
    BY <1>6, <1>8
  <1>13. ASSUME NEW g, NEW k
         PROVE  SkillLoadIn(now, g, k) <= SkillLoadIn(session, g, k) /\ (Room(now, g, k) => Room(session, g, k))
    <2>1. \A y \in Session : now[y].status = "active" /\ now[y].agent = g /\ now[y].skill = k =>
            session[y].status = "active" /\ session[y].agent = g /\ session[y].skill = k
      BY <1>12
    <2>2. \A y \in Session : session[y].status = "active" /\ session[y].agent = g =>
            now[y].status = "active" /\ now[y].agent = g /\ now[y].skill = session[y].skill
      BY <1>11, <1>12
    <2> QED
      BY <2>1, <2>2, SkillLoadGrows, LoadGrows
  <1>14. DCapacity(now)
    <2>1. SUFFICES ASSUME NEW g \in Agent, NEW k \in SkillGroup PROVE SkillLoadIn(now, g, k) <= MaxConcurrentPerAgent
      BY DEF DCapacity
    <2>2. /\ SkillLoadIn(now, g, k) \in Nat /\ SkillLoadIn(session, g, k) \in Nat /\ MaxConcurrentPerAgent \in Nat
      BY LoadsCounted DEF DeskAssumption
    <2>3. SkillLoadIn(session, g, k) <= MaxConcurrentPerAgent
      BY <1>1 DEF DCapacity
    <2> QED
      BY <2>2, <2>3, <1>13
  <1>15. DParticipants(now, inChannel)
    <2>1. inChannel[entry.visitor] = {}
      <3>1. session[x].status \in Unfinished /\ session[x].status # "active"
        BY <1>3, <1>4 DEF Unfinished
      <3> QED
        BY <3>1, <1>1, <1>3, ChannelOf
    <2>2. PICK v \in Visitor : v = entry.visitor
      BY <1>4
    <2> QED
      <3>1. /\ now[x].visitor = v /\ session[x].status # "active"
            /\ inChannel[v] = IF now[x].status = "active" THEN {now[x].agent} ELSE {}
            /\ \A y \in Session : y # x /\ session[y].status \in Unfinished => session[y].visitor # v
        BY <2>1, <2>2, <1>6, <1>8, <1>9
      <3> QED
        BY <3>1, <1>1, <1>8, ChannelReplaced
  <1>16. DArrived(session)'
    <2>1. \A y \in Session : session'[y].status = "none" <=> session[y].status = "none"
      BY <1>3, <1>4, <1>6, <1>7, <1>8
    <2> QED
      BY <2>1, <1>1, <1>2, ArrivedKept
  <1>17. QueueDrained'
    <2>1. SUFFICES ASSUME NEW y \in Session, NEW g \in Agent
                   PROVE  session'[y].status = "queued" /\ presence'[g] = "available" /\ session'[y].skill \in skillsOf'[g]
                          /\ freed'[g] \subseteq {session'[y].skill} => ~Room(session', g, session'[y].skill)
      BY DEF QueueDrained
    <2>2. session'[y].status = "queued" => session[y].status = "queued" /\ session'[y].skill = session[y].skill
      BY <1>6, <1>7, <1>8
    <2>3. Room(session', g, session'[y].skill) => Room(session, g, session'[y].skill)
      BY <1>7, <1>13
    <2> QED
      BY <1>1, <1>2, <2>2, <2>3, StaysDrained
  <1>18. DShape' /\ DLocks'
    BY <1>1, <1>2 DEF DShape, DLocks
  <1>19. ASSUME NEW q \in DeskRequest, choosing'[q] # NotChoosing PROVE DRequest(q)'
    <2>1. choosing'[q] = choosing[q] /\ choosing[q] # NotChoosing
      BY <1>2, <1>19
    <2>2. DRequest(q) /\ choosing[q].x # x
      BY <2>1, <1>1, OthersOf DEF Unfinished
    <2>3. choosing[q].x \in Session /\ session'[choosing[q].x] = session[choosing[q].x]
      BY <2>2, <1>7, <1>8 DEF DRequest
    <2>4. \A y \in Session : session'[y].status = "active" /\ session'[y].skill = choosing[q].skill =>
            session'[y] = session[y]
      BY <1>7, <1>12
    <2>5. \A y \in Session : session'[y].visitor = choosing[q].visitor /\ session'[y].status \in Unfinished =>
               session[y].visitor = choosing[q].visitor /\ session[y].status \in Unfinished
      BY <1>6, <1>7, <1>8 DEF Unfinished
    <2>6. \A h \in Agent : presence'[h] = "available" /\ choosing[q].skill \in skillsOf'[h]
                             /\ freed'[h] \subseteq {choosing[q].skill} /\ Room(session', h, choosing[q].skill) =>
               /\ presence[h] = "available" /\ choosing[q].skill \in skillsOf[h]
               /\ freed[h] \subseteq {choosing[q].skill} /\ Room(session, h, choosing[q].skill)
      BY <1>2, <1>7, <1>13
    <2> QED
      BY <2>1, <2>2, <2>3, <2>4, <2>5, <2>6, RequestKept
  <1> QED
    BY <1>2, <1>7, <1>10, <1>14, <1>15, <1>16, <1>17, <1>18, <1>19 DEF DeskInv

LEMMA EndStep ==
  ASSUME DeskAssumption, DeskInv, NEW x \in Session, EndSupportSession(x)
  PROVE  DeskInv'
  <1>1. /\ DSession(session) /\ DShape /\ DCapacity(session) /\ DParticipants(session, inChannel)
    BY DEF DeskInv
  <1>2. session[x].status \in Unfinished /\ SkillFree(session[x].skill)
        /\ presence' = presence /\ skillsOf' = skillsOf /\ choosing' = choosing
    BY DEF EndSupportSession
  <1>3. CASE session[x].agent = NoAgent
    <2>1. session[x].status = "queued"
      BY <1>1, <1>2, <1>3 DEF DSession, Unfinished, DeskAssumption
    <2>2. session' = [session EXCEPT ![x].status = "ended"] /\ UNCHANGED <<arrived, inChannel, freed, presence, skillsOf, choosing>>
      BY <1>3 DEF EndSupportSession
    <2> QED
      BY <1>2, <2>1, <2>2, EndWaitingStep
  <1>4. CASE session[x].agent # NoAgent
    <2>1. session[x].status = "active"
      BY <1>1, <1>2, <1>4 DEF DSession, Unfinished
    <2>2. PICK entry : entry = session[x]
      OBVIOUS
    <2>3. /\ entry \in [status : {"none", "queued", "active", "ended"}, visitor : Visitor \union {NoAgent},
                     skill : SkillGroup \union {NoAgent}, agent : Agent \union {NoAgent}]
          /\ entry.visitor \in Visitor /\ entry.skill \in SkillGroup /\ entry.agent \in Agent
      BY <1>1, <2>1, <2>2 DEF DSession
    <2>4. PICK done : done = [entry EXCEPT !.status = "ended"]
      OBVIOUS
    <2>5. /\ done \in [status : {"none", "queued", "active", "ended"}, visitor : Visitor \union {NoAgent},
                     skill : SkillGroup \union {NoAgent}, agent : Agent \union {NoAgent}]
          /\ done.status = "ended" /\ done.visitor = entry.visitor /\ done.skill = entry.skill /\ done.agent = entry.agent
      BY <2>3, <2>4
    <2>6. PICK mid : mid = [session EXCEPT ![x].status = "ended"]
      OBVIOUS
    <2>7. PICK members : members = [inChannel EXCEPT ![session[x].visitor] = @ \ {session[x].agent}]
      OBVIOUS
    <2>8. /\ FilledBy(mid, members, session[x].agent, {session[x].skill} \intersect skillsOf[session[x].agent],
                      presence[session[x].agent] = "available")
          /\ freed' = [freed EXCEPT ![session[x].agent] = @ \union {session[x].skill}]
      BY <1>4, <2>6, <2>7 DEF EndSupportSession
    <2>9. DOMAIN mid = Session /\ mid[x] = done /\ \A y \in Session : y # x => mid[y] = session[y]
      BY <1>1, <2>2, <2>4, <2>6 DEF DSession
    <2>10. /\ \A y \in Session : y # x /\ session[y].status \in Unfinished => session[y].visitor # entry.visitor
           /\ inChannel[entry.visitor] = {entry.agent}
      <3>1. /\ inChannel[session[x].visitor] = IF session[x].status = "active" THEN {session[x].agent} ELSE {}
            /\ \A y \in Session : y # x /\ session[y].status \in Unfinished => session[y].visitor # session[x].visitor
        BY <1>1, <1>2, ChannelOf
      <3> QED
        BY <3>1, <2>1, <2>2
    <2>11. DSession(mid)
      BY <1>1, <2>3, <2>5, <2>9, <2>10, RowReplaced
    <2>12. DCapacity(mid)
      <3>1. SUFFICES ASSUME NEW g \in Agent, NEW k \in SkillGroup PROVE SkillLoadIn(mid, g, k) <= MaxConcurrentPerAgent
        BY DEF DCapacity
      <3>2. \A y \in Session : mid[y].status = "active" /\ mid[y].agent = g /\ mid[y].skill = k =>
              session[y].status = "active" /\ session[y].agent = g /\ session[y].skill = k
        BY <2>5, <2>9
      <3>3. SkillLoadIn(mid, g, k) <= SkillLoadIn(session, g, k)
        BY <3>2, SkillLoadGrows
      <3>4. /\ SkillLoadIn(mid, g, k) \in Nat /\ SkillLoadIn(session, g, k) \in Nat /\ MaxConcurrentPerAgent \in Nat
        BY LoadsCounted DEF DeskAssumption
      <3>5. SkillLoadIn(session, g, k) <= MaxConcurrentPerAgent
        BY <1>1 DEF DCapacity
      <3> QED
        BY <3>3, <3>4, <3>5
    <2>13. DOMAIN members = Visitor /\ DParticipants(mid, members)
      <3>1. PICK v \in Visitor : v = entry.visitor
        BY <2>3
      <3>2. /\ DOMAIN members = Visitor /\ members[v] = {}
            /\ \A u \in Visitor : u # v => members[u] = inChannel[u]
        BY <1>1, <2>2, <2>7, <2>10, <3>1 DEF DShape
      <3>3. mid[x].visitor = v /\ mid[x].status # "active" /\ session[x].visitor = v
        BY <2>2, <2>5, <2>9, <3>1
      <3> QED
        <4>1. /\ members[v] = IF mid[x].status = "active" THEN {mid[x].agent} ELSE {}
              /\ \A y \in Session : y # x /\ session[y].status \in Unfinished => session[y].visitor # v
          BY <2>10, <3>1, <3>2, <3>3
        <4>2. \A y \in Session : y # x => mid[y] = session[y]
          BY <2>9
        <4>3. \A u \in Visitor : u # v => members[u] = inChannel[u]
          BY <3>2
        <4>4. mid[x].visitor = v /\ (session[x].status = "active" => session[x].visitor = v)
          BY <3>3
        <4>5. DParticipants(mid, members)
          BY <4>1, <4>2, <4>3, <4>4, <1>1, ChannelReplaced
        <4> QED
          BY <3>2, <4>5
    <2>14. /\ mid[x].visitor = session[x].visitor /\ mid[x].skill = session[x].skill
           /\ mid[x].status \in {"active", "ended"} /\ mid[x].agent \in Agent
           /\ mid[x].status = "active" => mid[x].agent # session[x].agent
      BY <2>2, <2>3, <2>5, <2>9
    <2>15. \A q \in DeskRequest : choosing'[q] # NotChoosing => choosing'[q] = choosing[q] /\ choosing[q].skill # session[x].skill
      BY <1>2 DEF SkillFree
    <2>16. DOMAIN choosing' = DeskRequest
      BY <1>1, <1>2 DEF DShape
    <2> QED
      BY <1>2, <2>1, <2>8, <2>9, <2>11, <2>12, <2>13, <2>14, <2>15, <2>16, FreedStep
  <1> QED
    BY <1>3, <1>4

LEMMA TransferStep ==
  ASSUME DeskAssumption, DeskInv, NEW r \in DeskRequest, TransferSupportSession(r)
  PROVE  DeskInv'
  <1>1. PICK c : c = choosing[r]
    OBVIOUS
  <1>2. /\ c.kind = "transfer" /\ choosing' = [choosing EXCEPT ![r] = NotChoosing]
        /\ presence' = presence /\ skillsOf' = skillsOf
    BY <1>1 DEF TransferSupportSession
  <1>3. choosing[r] # NotChoosing
    BY <1>1, <1>2 DEF NotChoosing
  <1>4. /\ DSession(session) /\ DShape /\ DCapacity(session) /\ DParticipants(session, inChannel)
        /\ DLocks /\ DRequest(r)
    BY <1>3 DEF DeskInv
  <1>5. /\ c.x \in Session /\ c.visitor \in Visitor /\ c.skill \in SkillGroup
        /\ \A h \in c.eligible : SkillLoadIn(session, h, c.skill) < MaxConcurrentPerAgent
        /\ session[c.x].status = "active" /\ session[c.x].skill = c.skill /\ session[c.x].visitor = c.visitor
        /\ \E h \in Agent : c.eligible = {h} /\ h # session[c.x].agent
    BY <1>1, <1>2, <1>4 DEF DRequest
  <1>6. PICK h \in Agent : c.eligible = {h} /\ h # session[c.x].agent
    BY <1>5
  <1>7. (CHOOSE target \in c.eligible : TRUE) = h
    BY <1>6
  <1>8. PICK x \in Session : x = c.x
    BY <1>5
  <1>9. PICK entry : entry = session[x]
    OBVIOUS
  <1>10. /\ entry \in [status : {"none", "queued", "active", "ended"}, visitor : Visitor \union {NoAgent},
                    skill : SkillGroup \union {NoAgent}, agent : Agent \union {NoAgent}]
         /\ entry.visitor = c.visitor /\ entry.skill = c.skill /\ entry.agent \in Agent /\ h # entry.agent
    BY <1>4, <1>5, <1>6, <1>8, <1>9 DEF DSession
  <1>11. PICK given : given = [entry EXCEPT !.status = "active", !.agent = h]
    OBVIOUS
  <1>12. /\ given \in [status : {"none", "queued", "active", "ended"}, visitor : Visitor \union {NoAgent},
                    skill : SkillGroup \union {NoAgent}, agent : Agent \union {NoAgent}]
         /\ given.status = "active" /\ given.visitor = entry.visitor /\ given.skill = entry.skill /\ given.agent = h
    BY <1>10, <1>11
  <1>13. PICK mid : mid = Assigned(session, {c.x}, h)
    OBVIOUS
  <1>14. PICK members : members = HandedOver(inChannel, c.visitor, entry.agent, h)
    OBVIOUS
  <1>15. /\ FilledBy(mid, members, session[x].agent, {session[x].skill} \intersect skillsOf[session[x].agent],
                     presence[session[x].agent] = "available")
         /\ freed' = [freed EXCEPT ![session[x].agent] = @ \union {session[x].skill}]
    <2>1. /\ FilledBy(Assigned(session, {c.x}, h), HandedOver(inChannel, c.visitor, session[c.x].agent, h), session[c.x].agent,
                   {c.skill} \intersect skillsOf[session[c.x].agent], presence[session[c.x].agent] = "available")
          /\ freed' = [freed EXCEPT ![session[c.x].agent] = @ \union {c.skill}]
      BY <1>1, <1>7 DEF TransferSupportSession
    <2>2. session[x].skill = c.skill /\ session[c.x].agent = entry.agent
      BY <1>5, <1>8, <1>9
    <2> QED
      BY <2>1, <2>2, <1>8, <1>13, <1>14
  <1>16. DOMAIN mid = Session /\ mid[x] = given /\ \A y \in Session : y # x => mid[y] = session[y]
    BY <1>8, <1>9, <1>11, <1>13 DEF Assigned
  <1>17. /\ \A y \in Session : y # x /\ session[y].status \in Unfinished => session[y].visitor # entry.visitor
         /\ inChannel[entry.visitor] = {entry.agent}
    <2>1. session[x].status = "active" /\ session[x].status \in Unfinished
      BY <1>5, <1>8 DEF Unfinished
    <2> QED
      <3>1. /\ inChannel[session[x].visitor] = IF session[x].status = "active" THEN {session[x].agent} ELSE {}
            /\ \A y \in Session : y # x /\ session[y].status \in Unfinished => session[y].visitor # session[x].visitor
        BY <2>1, <1>4, ChannelOf
      <3> QED
        BY <3>1, <2>1, <1>9
  <1>18. DSession(mid)
    BY <1>4, <1>5, <1>10, <1>12, <1>16, <1>17, RowReplaced
  <1>19. DCapacity(mid)
    <2>1. SUFFICES ASSUME NEW g \in Agent, NEW k \in SkillGroup PROVE SkillLoadIn(mid, g, k) <= MaxConcurrentPerAgent
      BY DEF DCapacity
    <2>2. /\ SkillLoadIn(mid, g, k) \in Nat /\ SkillLoadIn(session, g, k) \in Nat /\ MaxConcurrentPerAgent \in Nat
      BY LoadsCounted DEF DeskAssumption
    <2>3. CASE g = h /\ k = c.skill
      <3>1. SkillLoadIn(session, g, k) < MaxConcurrentPerAgent
        BY <2>3, <1>5, <1>6
      <3>2. PICK part : part = {y \in Session : session[y].status = "active" /\ session[y].agent = g /\ session[y].skill = k}
        OBVIOUS
      <3>3. /\ part \subseteq Session
            /\ {y \in Session : mid[y].status = "active" /\ mid[y].agent = g /\ mid[y].skill = k} \subseteq part \union {x}
        BY <3>2, <1>16
      <3>4. SkillLoadIn(mid, g, k) <= SkillLoadIn(session, g, k) + 1
        BY <3>2, <3>3, OneMoreSession DEF SkillLoadIn
      <3> QED
        BY <2>2, <3>1, <3>4
    <2>4. CASE ~(g = h /\ k = c.skill)
      <3>1. \A y \in Session : mid[y].status = "active" /\ mid[y].agent = g /\ mid[y].skill = k =>
               session[y].status = "active" /\ session[y].agent = g /\ session[y].skill = k
        BY <2>4, <1>10, <1>12, <1>16
      <3>2. SkillLoadIn(mid, g, k) <= SkillLoadIn(session, g, k)
        BY <3>1, SkillLoadGrows
      <3>3. SkillLoadIn(session, g, k) <= MaxConcurrentPerAgent
        BY <1>4 DEF DCapacity
      <3> QED
        BY <2>2, <3>2, <3>3
    <2> QED
      BY <2>3, <2>4
  <1>20. DOMAIN members = Visitor /\ DParticipants(mid, members)
    <2>1. PICK v \in Visitor : v = entry.visitor
      BY <1>5, <1>10
    <2>2. /\ DOMAIN members = Visitor /\ members[v] = {h}
          /\ \A u \in Visitor : u # v => members[u] = inChannel[u]
      BY <1>4, <1>10, <1>14, <1>17, <2>1 DEF DShape, HandedOver
    <2>3. mid[x].visitor = v /\ mid[x].status = "active" /\ mid[x].agent = h /\ session[x].visitor = v
      BY <1>9, <1>12, <1>16, <2>1
    <2> QED
      BY <1>4, <1>16, <1>17, <2>1, <2>2, <2>3, ChannelReplaced
  <1>21. /\ mid[x].visitor = session[x].visitor /\ mid[x].skill = session[x].skill
         /\ mid[x].status \in {"active", "ended"} /\ mid[x].agent \in Agent
         /\ mid[x].status = "active" => mid[x].agent # session[x].agent
    BY <1>9, <1>10, <1>12, <1>16
  <1>22. DOMAIN choosing' = DeskRequest
    BY <1>2, <1>4 DEF DShape
  <1>23. \A q \in DeskRequest : choosing'[q] # NotChoosing => choosing'[q] = choosing[q] /\ choosing[q].skill # session[x].skill
    <2>1. SUFFICES ASSUME NEW q \in DeskRequest, choosing'[q] # NotChoosing
                   PROVE  choosing'[q] = choosing[q] /\ choosing[q].skill # session[x].skill
      OBVIOUS
    <2>2. q # r /\ choosing'[q] = choosing[q]
      BY <2>1, <1>2, <1>4 DEF DShape
    <2>3. choosing[q].skill # c.skill
      BY <2>1, <2>2, <1>1, <1>3, <1>4 DEF DLocks
    <2> QED
      BY <2>2, <2>3, <1>5, <1>8
  <1>24. session[x].status = "active"
    BY <1>5, <1>8
  <1> QED
    BY <1>2, <1>15, <1>16, <1>18, <1>19, <1>20, <1>21, <1>22, <1>23, <1>24, FreedStep

LEMMA DeskStarts ==
  ASSUME DeskAssumption, DeskInit
  PROVE  DeskInv
  <1>1. /\ session = [x \in Session |-> NoSession] /\ arrived = <<>> /\ choosing = [r \in DeskRequest |-> NotChoosing]
        /\ inChannel = [v \in Visitor |-> {}] /\ freed = [g \in Agent |-> {}]
        /\ skillsOf = [g \in Agent |-> SkillGroup] /\ presence \in [Agent -> {"available", "offline"}]
    BY DEF DeskInit
  <1>2. /\ NoSession.status = "none"
        /\ NoSession \in [status : {"none", "queued", "active", "ended"}, visitor : Visitor \union {NoAgent},
                          skill : SkillGroup \union {NoAgent}, agent : Agent \union {NoAgent}]
    BY DEF NoSession
  <1>3. DSession(session)
    BY <1>1, <1>2 DEF DSession, Unfinished
  <1>4. DArrived(session)
    BY <1>1, <1>2 DEF DArrived
  <1>5. DShape
    BY <1>1 DEF DShape
  <1>6. DCapacity(session)
    <2>1. SUFFICES ASSUME NEW g \in Agent, NEW k \in SkillGroup PROVE SkillLoadIn(session, g, k) <= MaxConcurrentPerAgent
      BY DEF DCapacity
    <2>2. {x \in Session : session[x].status = "active" /\ session[x].agent = g /\ session[x].skill = k} = {}
      BY <1>1, <1>2
    <2>3. SkillLoadIn(session, g, k) = 0
      BY <2>2, FS_EmptySet DEF SkillLoadIn
    <2> QED
      BY <2>3 DEF DeskAssumption
  <1>7. DParticipants(session, inChannel)
    BY <1>1, <1>2 DEF DParticipants
  <1>8. QueueDrained
    BY <1>1, <1>2 DEF QueueDrained
  <1>9. DLocks /\ \A r \in DeskRequest : choosing[r] # NotChoosing => DRequest(r)
    BY <1>1 DEF DLocks
  <1> QED
    BY <1>3, <1>4, <1>5, <1>6, <1>7, <1>8, <1>9 DEF DeskInv

\* Whichever ways sessions come to agents and go: nobody waits for an available
\* agent who has a free slot nobody else freed, no agent has more sessions in a
\* group than the group allows, and a visitor's channel holds the agent of the
\* open session and nobody else (postgres_support.go).
THEOREM DeskStaysSafe == DeskSpec => []DeskSafety
  <1>1. DeskInit => DeskInv
    BY DeskStarts, DeskAssumption
  <1>2. DeskInv /\ [DeskNext]_deskVars => DeskInv'
    <2>1. SUFFICES ASSUME DeskInv, [DeskNext]_deskVars PROVE DeskInv'
      OBVIOUS
    <2>2. ASSUME NEW r \in DeskRequest, NEW x \in Session, NEW v \in Visitor, NEW k \in SkillGroup,
                 CreateSupportSession(r, x, v, k)
          PROVE  DeskInv'
      BY <2>1, <2>2, StartStep, DeskAssumption
    <2>3. ASSUME NEW r \in DeskRequest, NEW x \in Session, NEW g \in Agent,
                 ClaimSupportSession(r, x, g) \/ CheckTransfer(r, x, g)
          PROVE  DeskInv'
      BY <2>1, <2>3, ClaimStep, CheckStep, DeskAssumption
    <2>4. ASSUME NEW r \in DeskRequest, assignSupportSessionTx(r) \/ TransferSupportSession(r)
          PROVE  DeskInv'
      BY <2>1, <2>4, AssignStep, TransferStep, DeskAssumption
    <2>5. ASSUME NEW g \in Agent, NEW new, SetSupportAgentStatus(g, new)
          PROVE  DeskInv'
      BY <2>1, <2>5, StatusStep, DeskAssumption
    <2>6. ASSUME NEW g \in Agent, NEW groups \in SUBSET SkillGroup, NEW new, SaveSupportAgent(g, groups, new)
          PROVE  DeskInv'
      BY <2>1, <2>6, SaveStep, DeskAssumption
    <2>7. ASSUME NEW x \in Session, EndSupportSession(x)
          PROVE  DeskInv'
      BY <2>1, <2>7, EndStep, DeskAssumption
    <2>8. CASE UNCHANGED deskVars
      <3>1. /\ session' = session /\ arrived' = arrived /\ presence' = presence /\ skillsOf' = skillsOf
            /\ inChannel' = inChannel /\ freed' = freed /\ choosing' = choosing
        BY <2>8 DEF deskVars
      <3>2. DSession(session') /\ DCapacity(session') /\ DParticipants(session', inChannel') /\ DLocks'
        BY <2>1, <3>1 DEF DeskInv, DLocks
      <3>3. DArrived(session)' /\ DShape' /\ QueueDrained'
        BY <2>1, <3>1 DEF DeskInv, DArrived, DShape, QueueDrained
      <3>4. ASSUME NEW q \in DeskRequest, choosing'[q] # NotChoosing PROVE DRequest(q)'
        <4>1. DRequest(q) /\ choosing'[q] = choosing[q]
          BY <2>1, <3>1, <3>4 DEF DeskInv
        <4> QED
          BY <4>1, <3>1 DEF DRequest
      <3> QED
        BY <3>2, <3>3, <3>4 DEF DeskInv
    <2> QED
      BY <2>1, <2>2, <2>3, <2>4, <2>5, <2>6, <2>7, <2>8 DEF DeskNext
  <1>3. DeskInv => DeskSafety
    BY DEF DeskInv, DeskSafety, DCapacity, SkillCapacityKept, DParticipants, ParticipantsOnly
  <1> QED
    BY <1>1, <1>2, <1>3, PTL DEF DeskSpec
=============================================================================
