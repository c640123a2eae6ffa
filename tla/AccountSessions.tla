-------------------------- MODULE AccountSessions --------------------------
(***************************************************************************)
(* Login, refresh tokens and the events that end sessions.  A row of       *)
(* im_refresh_sessions is one refresh token; its rows with the same login  *)
(* form the session of a user on one kind of device.                       *)
(*                                                                         *)
(* A rotation is the one transaction that others can see half-way: it      *)
(* holds the row lock of the user and has revoked the old token in its own *)
(* eyes only.  Statements that do not lock the user run past it and do not *)
(* see the token it is about to insert.                                    *)
(***************************************************************************)
EXTENDS Naturals, FiniteSets

CONSTANTS
    Account,     \* users
    DeviceKind,  \* "app", "web", "desktop": one session each
    Token,       \* identifiers of refresh tokens
    LoginRequest,     \* HTTP requests under way at the same time
    Ticket,      \* QR login tickets
    NoToken, NoTicket, NoUser,
    MaxEnd       \* bound on bans and deletions, and on resets, of one user

ASSUME SessionsAssumption ==
    /\ MaxEnd \in Nat
    /\ NoToken \notin Token /\ NoTicket \notin Ticket /\ NoUser \notin Account

VARIABLES
    ban,      \* im_users.banned and banned_until: "no", "until" or "forever"
    deleted,  \* accounts with deleted_at
    token,    \* im_refresh_sessions
    newest,   \* newest[u][k]: the first token of the last login that committed
    endings,    \* how often u was banned or deleted
    resets,   \* how often the password of u was set
    revoked,  \* the reset up to which u's sessions were revoked for a reset
    ticket,   \* im_qr_login_tickets
    request   \* what each request is about to do

accountRowVars == <<ban, deleted, endings, resets, revoked>>
sessionVars == <<accountRowVars, token, newest, ticket, request>>

NoRow == [state |-> "free"]
Nothing == [op |-> "none"]
UnusedRows == {t \in Token : token[t] = NoRow}
Free == CHOOSE t \in UnusedRows : TRUE
UsedRows == Token \ UnusedRows
Of(u, k) == {t \in UsedRows : token[t].user = u /\ token[t].kind = k}
Unrevoked(S) == {t \in S : token[t].state \in {"live", "expired"}}

SessionsInit ==
    /\ ban = [u \in Account |-> "no"] /\ deleted = {}
    /\ endings = [u \in Account |-> 0]
    /\ resets = [u \in Account |-> 0] /\ revoked = [u \in Account |-> 0]
    /\ token = [t \in Token |-> NoRow]
    /\ newest = [u \in Account |-> [k \in DeviceKind |-> NoToken]]
    /\ ticket = [t \in Ticket |-> [state |-> "none", user |-> NoUser]]
    /\ request = [q \in LoginRequest |-> Nothing]

\* A plausible slip: the rotation does not lock the row of the user.
UserLockedNever(u) == FALSE

UserLocked(u) == \E q \in LoginRequest : request[q].op = "rotating" /\ request[q].user = u

Revoke(S) == [t \in Token |-> IF t \in Unrevoked(S)
                              THEN [token[t] EXCEPT !.state = "revoked"] ELSE token[t]]
AllOf(u) == {t \in UsedRows : token[t].user = u}

AskFor(q, r) == request[q] = Nothing /\ request' = [request EXCEPT ![q] = r]
Done(q) == request' = [request EXCEPT ![q] = Nothing]

DeviceSessionActive(t) == t \in UsedRows /\ token[t].state = "live"
RequireAuth(t) == DeviceSessionActive(t) /\ ban[token[t].user] = "no"

(***************************************************************************)
(* Logins.                                                                 *)
(***************************************************************************)
\* Finds no account that is deleted; a banned one is refused.
MaySignIn(u) == ban[u] = "no" /\ u \notin deleted

\* The handler provisions WuKongIM and signs the tokens before it writes the row.
IssueUserSession(u, k, t) == [op |-> "issue", user |-> u, kind |-> k, ticket |-> t]

PasswordLogin(q, u, k) ==
    /\ MaySignIn(u) /\ AskFor(q, IssueUserSession(u, k, NoTicket))
    /\ UNCHANGED <<accountRowVars, token, newest, ticket>>

\* Any request may end with an error, for example of WuKongIM.
GiveUp(q) ==
    /\ request[q] # Nothing
    /\ Done(q)
    /\ UNCHANGED <<accountRowVars, token, newest, ticket>>

\* Revokes the session of the kind of device and inserts the new one; the row
\* lock of the user keeps rotations, bans and deletions out.
CreateDeviceRefreshSession(q) ==
    /\ request[q].op = "issue" /\ UnusedRows # {}
    /\ LET u == request[q].user
           k == request[q].kind
       IN  /\ ~UserLocked(u)
           /\ token' = [Revoke(Of(u, k)) EXCEPT ![Free] =
                [state |-> "live", user |-> u, kind |-> k, login |-> Free,
                 parent |-> NoToken, ticket |-> request[q].ticket,
                 end |-> endings[u], reset |-> resets[u]]]
           /\ newest' = [newest EXCEPT ![u][k] = Free]
    /\ Done(q)
    /\ UNCHANGED <<accountRowVars, ticket>>

(***************************************************************************)
(* Refreshing: the handler looks at the user first.                        *)
(***************************************************************************)
Refresh(q, t) ==
    /\ t \in UsedRows /\ ban[token[t].user] = "no"
    /\ AskFor(q, [op |-> "refresh", token |-> t])
    /\ UNCHANGED <<accountRowVars, token, newest, ticket>>

Rotatable(t) == token[t].state = "live"

RotateBegin(q) ==
    /\ request[q].op = "refresh"
    /\ LET t == request[q].token IN
         /\ ~UserLocked(token[t].user) /\ Rotatable(t)
         /\ request' = [request EXCEPT ![q] =
                [op |-> "rotating", token |-> t, user |-> token[t].user]]
    /\ UNCHANGED <<accountRowVars, token, newest, ticket>>

\* The key on (user_id, device_kind) WHERE revoked_at IS NULL refuses a second one.
RotateEnd(q) ==
    /\ request[q].op = "rotating" /\ UnusedRows # {}
    /\ LET t == request[q].token
           row == [token[t] EXCEPT !.state = "live", !.parent = t]
       IN  /\ Unrevoked(Of(row.user, row.kind)) \subseteq {t}
           /\ token' = [Revoke({t}) EXCEPT ![Free] = row]
    /\ Done(q)
    /\ UNCHANGED <<accountRowVars, newest, ticket>>

RefreshTokenExpires(t) ==
    /\ DeviceSessionActive(t)
    /\ token' = [token EXCEPT ![t].state = "expired"]
    /\ UNCHANGED <<accountRowVars, newest, ticket, request>>

(***************************************************************************)
(* What ends sessions.                                                     *)
(***************************************************************************)
Logout(q, t) ==
    /\ RequireAuth(t)
    /\ AskFor(q, [op |-> "logout", user |-> token[t].user, kind |-> token[t].kind])
    /\ UNCHANGED <<accountRowVars, token, newest, ticket>>

RevokeDeviceRefreshSessions(q) ==
    /\ request[q].op = "logout"
    /\ token' = Revoke(Of(request[q].user, request[q].kind))
    /\ Done(q)
    /\ UNCHANGED <<accountRowVars, newest, ticket>>

UpdatePassword(q, u) ==
    /\ u \notin deleted /\ ~UserLocked(u) /\ resets[u] < MaxEnd
    /\ resets' = [resets EXCEPT ![u] = @ + 1]
    /\ AskFor(q, [op |-> "reset", user |-> u, to |-> resets[u] + 1])
    /\ UNCHANGED <<ban, deleted, endings, revoked, token, newest, ticket>>

RevokeUserRefreshSessions(q) ==
    /\ request[q].op = "reset"
    /\ LET u == request[q].user IN
         /\ token' = Revoke(AllOf(u))
         /\ revoked' = [revoked EXCEPT ![u] = request[q].to]
    /\ Done(q)
    /\ UNCHANGED <<ban, deleted, endings, resets, newest, ticket>>

SetUserBanRecord(u, b) ==
    /\ ~UserLocked(u) /\ ban[u] # b
    /\ b # "no" => endings[u] < MaxEnd
    /\ ban' = [ban EXCEPT ![u] = b]
    /\ IF b = "no" THEN UNCHANGED <<token, endings>>
       ELSE token' = Revoke(AllOf(u)) /\ endings' = [endings EXCEPT ![u] = @ + 1]
    /\ UNCHANGED <<deleted, resets, revoked, newest, ticket, request>>

\* The batch skips users whose row is locked.
ExpireUserBans(u) ==
    /\ ban[u] = "until" /\ ~UserLocked(u)
    /\ ban' = [ban EXCEPT ![u] = "no"]
    /\ UNCHANGED <<deleted, endings, resets, revoked, token, newest, ticket, request>>

\* requireUserToken asks for a session, not for an account that is not banned.
AskDeletion(q, t) ==
    /\ DeviceSessionActive(t)
    /\ AskFor(q, [op |-> "delete", user |-> token[t].user])
    /\ UNCHANGED <<accountRowVars, token, newest, ticket>>

DeleteOwnAccount(q) ==
    /\ request[q].op = "delete"
    /\ LET u == request[q].user IN
         /\ ~UserLocked(u)
         /\ IF u \in deleted THEN UNCHANGED <<accountRowVars, token>>
            ELSE /\ endings[u] < MaxEnd
                 /\ deleted' = deleted \cup {u}
                 /\ token' = Revoke(AllOf(u))
                 /\ ban' = [ban EXCEPT ![u] = IF @ = "until" THEN @ ELSE "forever"]
                 /\ endings' = [endings EXCEPT ![u] = @ + 1]
                 /\ UNCHANGED <<resets, revoked>>
    /\ Done(q)
    /\ UNCHANGED <<newest, ticket>>

(***************************************************************************)
(* QR login.  A ticket is confirmed by a user who is logged in, and polled *)
(* by the client that shows it.                                            *)
(***************************************************************************)
CreateQRLoginTicket(t) ==
    /\ ticket[t].state = "none"
    /\ ticket' = [ticket EXCEPT ![t].state = "pending"]
    /\ UNCHANGED <<accountRowVars, token, newest, request>>

ConfirmQRLogin(q, s, t) ==
    /\ RequireAuth(s) /\ ticket[t].state # "none"
    /\ AskFor(q, [op |-> "confirm", user |-> token[s].user, ticket |-> t])
    /\ UNCHANGED <<accountRowVars, token, newest, ticket>>

ConfirmQRLoginTicket(q) ==
    /\ request[q].op = "confirm"
    /\ LET t == request[q].ticket IN
         IF ban[request[q].user] = "no" /\ ticket[t].state = "pending"
         THEN ticket' = [ticket EXCEPT ![t].state = "confirmed",
                                       ![t].user = request[q].user]
         ELSE UNCHANGED ticket
    /\ Done(q)
    /\ UNCHANGED <<accountRowVars, token, newest>>

TicketExpires(t) ==
    /\ ticket[t].state \in {"pending", "confirmed"}
    /\ ticket' = [ticket EXCEPT ![t].state = "expired"]
    /\ UNCHANGED <<accountRowVars, token, newest, request>>

Consume(q, t, k) ==
    AskFor(q, [op |-> "consumed", user |-> ticket[t].user, kind |-> k, ticket |-> t])

ConsumeQRLoginTicket(q, t, k) ==
    /\ ticket[t].state = "confirmed" /\ k # "app"
    /\ ticket' = [ticket EXCEPT ![t].state = "consumed"]
    /\ Consume(q, t, k)
    /\ UNCHANGED <<accountRowVars, token, newest>>

PollQRLogin(q) ==
    /\ request[q].op = "consumed"
    /\ request' = [request EXCEPT ![q] = IF ban[@.user] = "no"
                        THEN IssueUserSession(@.user, @.kind, @.ticket) ELSE Nothing]
    /\ UNCHANGED <<accountRowVars, token, newest, ticket>>

SessionsNext ==
    \/ \E q \in LoginRequest :
         \/ GiveUp(q) \/ CreateDeviceRefreshSession(q) \/ RotateBegin(q) \/ RotateEnd(q)
         \/ RevokeDeviceRefreshSessions(q) \/ RevokeUserRefreshSessions(q)
         \/ DeleteOwnAccount(q) \/ ConfirmQRLoginTicket(q) \/ PollQRLogin(q)
         \/ \E u \in Account : UpdatePassword(q, u)
         \/ \E u \in Account, k \in DeviceKind : PasswordLogin(q, u, k)
         \/ \E t \in Token : Refresh(q, t) \/ Logout(q, t) \/ AskDeletion(q, t)
         \/ \E t \in Ticket : \/ \E s \in Token : ConfirmQRLogin(q, s, t)
                              \/ \E k \in DeviceKind : ConsumeQRLoginTicket(q, t, k)
    \/ \E t \in Token : RefreshTokenExpires(t)
    \/ \E u \in Account : \/ ExpireUserBans(u)
                          \/ \E b \in {"no", "until", "forever"} : SetUserBanRecord(u, b)
    \/ \E t \in Ticket : CreateQRLoginTicket(t) \/ TicketExpires(t)

SessionsSpec == SessionsInit /\ [][SessionsNext]_sessionVars

(***************************************************************************)
(* Properties.                                                             *)
(***************************************************************************)
Row == [state : {"live", "expired", "revoked"}, user : Account, kind : DeviceKind,
        login : Token, parent : Token \cup {NoToken}, ticket : Ticket \cup {NoTicket},
        end : 0 .. MaxEnd, reset : 0 .. MaxEnd]

\* Accounts, tokens and tickets have the columns of their tables.
SessionsTypeOK ==
    /\ ban \in [Account -> {"no", "until", "forever"}] /\ deleted \subseteq Account
    /\ \A t \in Token : token[t] \in Row \cup {NoRow}
    /\ endings \in [Account -> 0 .. MaxEnd]
    /\ resets \in [Account -> 0 .. MaxEnd] /\ revoked \in [Account -> 0 .. MaxEnd]
    /\ \A t \in Ticket : ticket[t].state = "none" \/ ticket[t] \in
         [state : {"pending", "confirmed", "consumed", "expired"},
          user : Account \cup {NoUser}]

\* Two requests that present one refresh token get at most one successor between
\* them, whatever logs out, expires or is reset meanwhile.
RefreshedOnce == \A s, t \in UsedRows :
    s # t /\ token[s].parent = token[t].parent => token[s].parent = NoToken

\* A device that signed in again has replaced the older session for good: no
\* refresh in flight brings it back.
NewestLoginOwns == \A t \in UsedRows :
    DeviceSessionActive(t) => token[t].login = newest[token[t].user][token[t].kind]

\* A session that a ban or a deletion ended does not come back by a refresh that
\* was under way, nor when the ban is lifted.
EndedForGood == \A t \in UsedRows :
    DeviceSessionActive(t) => token[t].end = endings[token[t].user]

\* A confirmed ticket logs in once, and only the user who confirmed it first.
Logins(t) == {s \in UsedRows : token[s].ticket = t /\ token[s].parent = NoToken}
             \cup {q \in LoginRequest : request[q].op \in {"consumed", "issue"}
                                        /\ request[q].ticket = t}
TicketLogsInOnce ==
    /\ \A t \in Ticket : Cardinality(Logins(t)) <= 1
    /\ \A s \in UsedRows : token[s].ticket # NoTicket =>
         token[s].user = ticket[token[s].ticket].user
TicketKeepsUser == [][\A t \in Ticket :
    ticket[t].user # NoUser => ticket'[t].user = ticket[t].user]_sessionVars

\* server/README.md:115: "a successful reset revokes existing refresh sessions".  It does
\* not hold: a rotation between the new hash and the revocation keeps its session.
ResetRevokesSessions == \A t \in UsedRows :
    DeviceSessionActive(t) => token[t].reset >= revoked[token[t].user]

\* The promise of sessions: sign-ins, refreshes, bans, deletions and tickets keep
\* to the four in every state, and a ticket keeps its user.
SessionsKept ==
    /\ [](RefreshedOnce /\ NewestLoginOwns /\ EndedForGood /\ TicketLogsInOnce)
    /\ TicketKeepsUser
=============================================================================
