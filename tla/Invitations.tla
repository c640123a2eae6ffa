------------------------------ MODULE Invitations ------------------------------
(***************************************************************************)
(* Invitation codes and who invited whom.  Registration binds a fresh      *)
(* account to the owner of an active code; a user may replace the own code *)
(* once, administrators disable, enable and reset codes and correct a      *)
(* relation.  Transactions are cut where they wait for a row of im_users   *)
(* or of im_user_invite_codes; what follows the last lock is one step.     *)
(***************************************************************************)
EXTENDS Naturals, FiniteSets

CONSTANTS
    Invited,      \* accounts, by phone number
    Registered,   \* those registered from the start
    Text,         \* texts of invitation codes
    NoText,
    Deal,         \* concurrent transactions
    MaxBinding,   \* bound on the versions of a relation
    MaxDeal,      \* bound on the transactions
    Mode          \* inviteRegistrationMode: a subset of disabled, optional, required

ASSUME InvitationAssumption ==
    /\ Registered \subseteq Invited /\ NoText \notin Text /\ MaxBinding \in Nat /\ MaxDeal \in Nat
    /\ \E own \in [Registered -> Text] : \A u, v \in Registered : u # v => own[u] # own[v]
    /\ IsFiniteSet(Invited) /\ Mode \subseteq {"disabled", "optional", "required"}

VARIABLES
    member,    \* im_users: registered, banned, changed (invite_code_change_count)
    inviteCode,\* im_user_invite_codes by text: owner, status, source
    bound,     \* im_user_invite_relations by invitee: code and version
    mode,      \* the setting inviteRegistrationMode
    deal,      \* open transactions with the locks they hold
    deals      \* how many were made

inviteVars == <<member, inviteCode, bound, mode, deal, deals>>

Current == {"active", "disabled"}
NoDeal == [kind |-> "none"]
NoBinding == [code |-> NoText, version |-> 0]
NoCode(o) == [owner |-> o, status |-> "none", source |-> "system"]
Unused == {c \in Text : inviteCode[c].status = "none"}
CodesOf(u) == {c \in Text : inviteCode[c].status \in Current /\ inviteCode[c].owner = u}

\* At first each registered user has a code, and one of them may be bound to another's.
OwnCode == CHOOSE f \in [Registered -> Text] : \A u, v \in Registered : u # v => f[u] # f[v]
FirstBindings == {[u \in Invited |-> NoBinding]} \union
    {[u \in Invited |-> IF u = x[1] THEN [code |-> OwnCode[x[2]], version |-> 1] ELSE NoBinding] :
        x \in {pair \in Registered \X Registered : pair[1] # pair[2]}}

InvitationsInit ==
    /\ member = [u \in Invited |-> [registered |-> u \in Registered, banned |-> FALSE, changed |-> FALSE]]
    /\ inviteCode = [c \in Text |->
          IF \E u \in Registered : OwnCode[u] = c
          THEN [owner |-> CHOOSE u \in Registered : OwnCode[u] = c, status |-> "active", source |-> "system"]
          ELSE NoCode(CHOOSE u \in Registered : TRUE)]
    /\ bound \in FirstBindings
    /\ mode \in Mode /\ deal = [t \in Deal |-> NoDeal] /\ deals = 0

Count == deals < MaxDeal /\ deals' = deals + 1
Open(t, r) == deal[t] = NoDeal /\ Count /\ deal' = [deal EXCEPT ![t] = r]
Goes(t, r) == deal' = [deal EXCEPT ![t] = r] /\ UNCHANGED deals
Close(t) == Goes(t, NoDeal)

\* Who holds a row: FOR UPDATE of a code, FOR UPDATE of a user (a change of the
\* own code), FOR NO KEY UPDATE of two users (a correction).
CodeFree(t, c) == \A o \in Deal \ {t} : deal[o].kind # "none" => deal[o].holds # c
KeyShared(t, u) == \A o \in Deal \ {t} : deal[o].kind = "change" => deal[o].user # u
UserFree(t, u) == /\ KeyShared(t, u)
                  /\ \A o \in Deal \ {t} : deal[o].kind = "relate" => u \notin deal[o].pair

\* resolveInviteCodeTx: active, and of a live account that is not banned.
Usable(c) == inviteCode[c].status = "active" /\ ~member[inviteCode[c].owner].banned

Issue(codes, u, c, source) == [codes EXCEPT ![c] = [owner |-> u, status |-> "active", source |-> source]]
Retire(codes, c) == [codes EXCEPT ![c].status = "retired"]

SetInviteMode(m) == mode' = m /\ m # mode /\ UNCHANGED <<member, inviteCode, bound, deal, deals>>

\* Registration with a password (pw) or by one-time code: the policy is read
\* from the settings before the transaction.
registrationPolicy(t, u, c, pw) ==
    /\ ~(mode = "required" /\ c = NoText)
    /\ Open(t, [kind |-> "register", user |-> u, text |-> IF mode = "disabled" THEN NoText ELSE c,
                 password |-> pw, by |-> t, holds |-> NoText, resolved |-> FALSE])
    /\ UNCHANGED <<member, inviteCode, bound, mode>>

\* A plausible slip: the code is looked up without FOR UPDATE.
HeldUnlocked(c) == NoText
Held(c) == c

resolveInviteCodeTx(t) ==
    LET d == deal[t] IN
    /\ d.kind = "register" /\ ~d.resolved
    /\ d.password \/ ~member[d.user].registered
    /\ d.text # NoText => CodeFree(t, d.text)
    /\ Goes(t,
          IF d.text = NoText THEN [d EXCEPT !.resolved = TRUE]
          ELSE IF Usable(d.text) THEN [d EXCEPT !.resolved = TRUE, !.holds = Held(d.text)] ELSE NoDeal)
    /\ UNCHANGED <<member, inviteCode, bound, mode>>

\* A login with a phone that has an account ends there.
LoginOfExisting(t) ==
    /\ deal[t].kind = "register" /\ ~deal[t].resolved /\ ~deal[t].password /\ member[deal[t].user].registered
    /\ Close(t) /\ UNCHANGED <<member, inviteCode, bound, mode>>

Joined(u) == [member EXCEPT ![u].registered = TRUE]

\* ensureInviteCodeTx: the current code, or a random one that was never used.
ensureInviteCodeTx(u) ==
    IF CodesOf(u) # {} THEN UNCHANGED inviteCode
    ELSE \E c \in Unused : inviteCode' = Issue(inviteCode, u, c, "system")

Bound(u, c) == IF c = NoText THEN bound ELSE [bound EXCEPT ![u] = [code |-> c, version |-> 1]]

\* The new account with its code and its relation, which refers to the inviter's row.
Registers(d) ==
    /\ d.text # NoText => KeyShared(d.by, inviteCode[d.text].owner)
    /\ member' = Joined(d.user)
    /\ ensureInviteCodeTx(d.user)
    /\ bound' = Bound(d.user, d.text)

\* A phone registered meanwhile is a conflict.
RegisterPasswordUserWithInvite(t) ==
    /\ deal[t].kind = "register" /\ deal[t].resolved /\ deal[t].password
    /\ IF member[deal[t].user].registered THEN UNCHANGED <<member, inviteCode, bound>> ELSE Registers(deal[t])
    /\ Close(t) /\ UNCHANGED mode

\* A phone registered meanwhile is a login: the account keeps the inviter it has.
LoginOrCreateUserWithInvite(t) ==
    /\ deal[t].kind = "register" /\ deal[t].resolved /\ ~deal[t].password
    /\ \/ member[deal[t].user].registered /\ UNCHANGED <<member, inviteCode, bound>>
       \/ ~member[deal[t].user].registered /\ Registers(deal[t])
    /\ Close(t) /\ UNCHANGED mode

\* ChangeUserInviteCode locks the user, then the current code, then replaces it.
MayChange(u) == ~member[u].banned /\ ~member[u].changed

LockUserForChange(t, u, c) ==
    /\ member[u].registered /\ UserFree(t, u) /\ MayChange(u)
    /\ Open(t, [kind |-> "change", user |-> u, text |-> c, holds |-> NoText])
    /\ UNCHANGED <<member, inviteCode, bound, mode>>

ChangeUserInviteCode(t) ==
    LET d == deal[t] IN
    /\ d.kind = "change" /\ \A c \in CodesOf(d.user) : CodeFree(t, c)
    /\ IF d.text \in Unused /\ \E c \in CodesOf(d.user) : inviteCode[c].status = "active"
       THEN \E c \in CodesOf(d.user) :
              /\ inviteCode' = Issue(Retire(inviteCode, c), d.user, d.text, "user")
              /\ member' = [member EXCEPT ![d.user].changed = TRUE]
       ELSE UNCHANGED <<inviteCode, member>>
    /\ Close(t) /\ UNCHANGED <<bound, mode>>

\* ResetAdminInviteCode locks the code first and refers to the user afterwards.
LockForReset(t, c) ==
    /\ inviteCode[c].status \in Current /\ CodeFree(t, c)
    /\ Open(t, [kind |-> "reset", text |-> c, holds |-> c])
    /\ UNCHANGED <<member, inviteCode, bound, mode>>

ResetAdminInviteCode(t) ==
    LET c == deal[t].text IN
    /\ deal[t].kind = "reset" /\ KeyShared(t, inviteCode[c].owner)
    /\ \E n \in Unused : inviteCode' = Issue(Retire(inviteCode, c), inviteCode[c].owner, n, "admin")
    /\ Close(t) /\ UNCHANGED <<member, bound, mode>>

SetAdminInviteCodeStatus(c, status) ==
    /\ inviteCode[c].status \in Current \ {status} /\ \A o \in Deal : deal[o].kind # "none" => deal[o].holds # c
    /\ inviteCode' = [inviteCode EXCEPT ![c].status = status]
    /\ Count /\ UNCHANGED <<member, bound, mode, deal>>

\* SetAdminInviteRelation, with the binding the administrator has on screen.
LookAtRelation(t, u, c) ==
    /\ Open(t, [kind |-> "look", user |-> u, text |-> c, seen |-> bound[u], holds |-> NoText])
    /\ UNCHANGED <<member, inviteCode, bound, mode>>

GraphFree(t) == \A o \in Deal \ {t} : deal[o].kind # "relate"

\* Graph lock, then both users in order; an unfit pair ends the transaction.
LockPair(t) ==
    LET d == deal[t]  o == inviteCode[d.text].owner IN
    /\ d.kind = "look" /\ GraphFree(t) /\ UserFree(t, d.user) /\ UserFree(t, o)
    /\ Goes(t,
          IF inviteCode[d.text].status # "none" /\ o # d.user /\ ~member[o].banned /\ member[d.user].registered
          THEN [kind |-> "relate", user |-> d.user, text |-> d.text, seen |-> d.seen,
                pair |-> {d.user, o}, holds |-> NoText]
          ELSE NoDeal)
    /\ UNCHANGED <<member, inviteCode, bound, mode>>

Parents(U) == {inviteCode[bound[u].code].owner : u \in {x \in U : bound[x] # NoBinding}}
\* WITH RECURSIVE ... UNION: what is in every set that has u and its members' inviters.
ancestors(u) == {v \in Invited : \A S \in SUBSET Invited : u \in S /\ Parents(S) \subseteq S => v \in S}

MakesCycle(u, inviter) == u \in ancestors(inviter)

NextBindingVersion(v) == v + 1

SetAdminInviteRelation(t) ==
    LET d == deal[t]  b == bound[d.user] IN
    /\ d.kind = "relate" /\ CodeFree(t, d.text)
    /\ bound' = IF /\ Usable(d.text) /\ b.code # d.text /\ b.version = d.seen.version
                   /\ ~MakesCycle(d.user, inviteCode[d.text].owner) /\ b.version < MaxBinding
                THEN [bound EXCEPT ![d.user] = [code |-> d.text, version |-> NextBindingVersion(b.version)]]
                ELSE bound
    /\ Close(t) /\ UNCHANGED <<member, inviteCode, mode>>

\* Suspension updates the user's row.
SetInviterBanned(u, on) ==
    /\ member[u].registered /\ member[u].banned # on
    /\ \A o \in Deal : /\ deal[o].kind = "change" => deal[o].user # u
                       /\ deal[o].kind = "relate" => u \notin deal[o].pair
    /\ member' = [member EXCEPT ![u].banned = on]
    /\ Count /\ UNCHANGED <<inviteCode, bound, mode, deal>>

\* A timeout, or the victim PostgreSQL picks when a reset or a registration,
\* which lock the code first, and a change of the code wait for each other.
RollBackDeal(t) == deal[t] # NoDeal /\ Close(t) /\ UNCHANGED <<member, inviteCode, bound, mode>>

InvitationsNext ==
    \/ \E m \in Mode : SetInviteMode(m)
    \/ \E t \in Deal :
          \/ \E u \in Invited, c \in Text \union {NoText}, pw \in BOOLEAN : registrationPolicy(t, u, c, pw)
          \/ resolveInviteCodeTx(t) \/ LoginOfExisting(t) \/ RegisterPasswordUserWithInvite(t) \/ LoginOrCreateUserWithInvite(t)
          \/ \E u \in Invited, c \in Text : LockUserForChange(t, u, c)
          \/ ChangeUserInviteCode(t)
          \/ \E c \in Text : LockForReset(t, c)
          \/ ResetAdminInviteCode(t)
          \/ \E u \in Invited, c \in Text : LookAtRelation(t, u, c)
          \/ LockPair(t) \/ SetAdminInviteRelation(t) \/ RollBackDeal(t)
    \/ \E c \in Text, s \in Current : SetAdminInviteCodeStatus(c, s)
    \/ \E u \in Invited, on \in BOOLEAN : SetInviterBanned(u, on)

InvitationsSpec == InvitationsInit /\ [][InvitationsNext]_inviteVars

-----------------------------------------------------------------------------
\* Nobody is invited by someone they invited, directly or through others, however
\* registrations, corrections, resets and changes of codes interleave
\* (admin_invite_relation.go:36 "Registration only inserts a fresh leaf and
\* cannot introduce a cycle").
NoInviteCycle == \A u \in Invited : bound[u] # NoBinding => u \notin ancestors(inviteCode[bound[u].code].owner)

\* A user chooses the own code at most once in the account's life, also when two
\* requests are under way and administrators reset the code in between.
SelfChangedOnce ==
    \A u \in Invited : Cardinality({c \in Text : inviteCode[c].owner = u /\ inviteCode[c].source = "user"}) <= 1

\* A relation is only ever bound to a code that is active in that very step,
\* although the code was looked up earlier and administrators disable, reset and
\* replace codes meanwhile.
BoundToActiveCode ==
    [][\A u \in Invited : bound'[u] # bound[u] => inviteCode[bound'[u].code].status = "active"]_inviteVars

\* A correction replaces exactly the binding its administrator was looking at.
CorrectsWhatWasSeen ==
    [][\A t \in Deal : (deal[t].kind = "relate" /\ deal'[t] = NoDeal) =>
          \A u \in Invited : bound'[u] # bound[u] => bound[u] = deal[t].seen]_inviteVars

\* What registrations, corrections, resets and changes of codes keep to.
InvitationsKept == [](NoInviteCycle /\ SelfChangedOnce) /\ BoundToActiveCode /\ CorrectsWhatWasSeen
=============================================================================
