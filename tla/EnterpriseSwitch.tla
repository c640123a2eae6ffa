------------------------- MODULE EnterpriseSwitch -------------------------
(***************************************************************************)
(* One user of the identity platform and the enterprises it is moved       *)
(* between.  The platform keeps the assignment and a receipt for every     *)
(* operation; each enterprise keeps an identity that is active or not, the *)
(* sessions it issued and the credential it installed in its WuKongIM.     *)
(* The two databases share no transaction: an operation is a sequence of   *)
(* calls that may fail or lose their answer, and is retried by its receipt.*)
(***************************************************************************)
EXTENDS Naturals, FiniteSets

CONSTANTS
    Tenant,        \* enterprises
    Home,          \* the enterprise the user registered with
    Operation,     \* 1..n, receipts in lp_operations, in the order they are started
    Kind,          \* "switch", "ban", "unban", "password" or "phone"
    Runner,        \* requests of the platform that run or retry an operation
    Grant,         \* 1..n, tickets in lp_tickets
    NoOne, NoOp,
    MaxEdit,       \* bound on edits of the profile in one enterprise
    MaxFail        \* bound on failed runs and failed offline calls

ASSUME SwitchAssumption ==
    /\ Home \in Tenant /\ MaxEdit \in Nat /\ MaxFail \in Nat /\ NoOp \notin Operation \cup Nat
    /\ Kind \subseteq {"switch", "ban", "unban", "password", "phone"}
    /\ NoOne \notin Operation \cup Grant

VARIABLES
    user,        \* row of lp_users
    operation,   \* lp_operations
    membership,  \* lp_memberships: version of the profile the platform has, or NoOp
    grant,       \* lp_tickets
    runner,      \* where each run of an operation is
    identity,    \* lp_identity of each enterprise
    holder,      \* who holds the advisory lock of the user in each enterprise
    completed,   \* lp_offline rows with completed, in each enterprise
    session,     \* refresh sessions in force in each enterprise
    device,      \* WuKongIM of each enterprise: generation of the installed token, 0 if none
    marker,      \* im_wukong_credentials: generation recorded as installed, 0 if none
    issuing,     \* generation an im-session request is about to provision, 0 if none
    snapshot,    \* profile reports under way to the platform
    profileEdits,
    failures     \* ghost: failed runs and failed offline calls

platformVars == <<user, operation, membership, grant, runner>>
imVars == <<device, marker, issuing>>
switchVars == <<platformVars, identity, holder, completed, session, imVars, snapshot, profileEdits,
                failures>>

Absent == [known |-> FALSE, active |-> FALSE, revision |-> 0, epoch |-> 1,
           version |-> 1, synced |-> 0, phone |-> 0]

\* Nobody holds the lock of the user in an enterprise.
Unheld == [kind |-> "none", who |-> NoOne, step |-> "none"]

SwitchInit ==
    /\ user = [tenant |-> Home, revision |-> 1, pending |-> NoOp, banned |-> FALSE, phone |-> 0]
    /\ operation = [o \in Operation |-> [phase |-> "none"]]
    /\ membership = [t \in Tenant |-> IF t = Home THEN 0 ELSE NoOp]
    /\ grant = [g \in Grant |-> [state |-> "none"]]
    /\ runner = [r \in Runner |-> [op |-> NoOp]]
    /\ identity = [t \in Tenant |-> Absent]
    /\ holder = [t \in Tenant |-> Unheld]
    /\ completed = [t \in Tenant |-> {}] /\ session = [t \in Tenant |-> {}]
    /\ device = [t \in Tenant |-> 0] /\ marker = [t \in Tenant |-> 0]
    /\ issuing = [t \in Tenant |-> 0]
    /\ snapshot = {} /\ profileEdits = [t \in Tenant |-> 0] /\ failures = 0

Unlocked(t) == holder[t] = Unheld
Release(t) == holder' = [holder EXCEPT ![t] = Unheld]
At(r, step) == runner[r].op # NoOp /\ runner[r].step = step
MoveTo(r, step) == runner' = [runner EXCEPT ![r].step = step]
Stop(r) == runner' = [runner EXCEPT ![r] = [op |-> NoOp]]
Of(r) == operation[runner[r].op]
Members == {t \in Tenant : membership[t] # NoOp}

(***************************************************************************)
(* The platform: login grants and operations.                              *)
(***************************************************************************)
\* The directory signs a ticket for the present assignment.
SignTicket(g) ==
    /\ grant[g].state = "none" /\ \A h \in Grant : h < g => grant[h].state # "none"
    /\ ~user.banned /\ user.pending = NoOp
    /\ grant' = [grant EXCEPT ![g] =
         [state |-> "fresh", tenant |-> user.tenant, revision |-> user.revision]]
    /\ UNCHANGED <<user, operation, membership, runner, identity, holder, completed,
                   session, imVars, snapshot, profileEdits, failures>>

\* Only a switch names another enterprise.
Wanted(kind, target) == (kind = "switch") = (target # user.tenant)

StartOperation(o, kind, target) ==
    /\ operation[o].phase = "none" /\ \A p \in Operation : p < o => operation[p].phase # "none"
    /\ user.pending = NoOp
    /\ Wanted(kind, target)
    /\ user' = [user EXCEPT !.pending = o]
    /\ operation' = [operation EXCEPT ![o] =
         [phase |-> "prepare", kind |-> kind, source |-> user.tenant,
          target |-> target, revision |-> user.revision]]
    /\ UNCHANGED <<membership, grant, runner, identity, holder, completed, session,
                   imVars, snapshot, profileEdits, failures>>

\* The advisory lock of the user.
NobodyRuns == \A r \in Runner : runner[r].op = NoOp

\* Takes the lock and only then reads the phase.
RunOperation(r, o) ==
    /\ runner[r].op = NoOp /\ NobodyRuns
    /\ operation[o].phase \notin {"none", "done"}
    /\ user.pending = o /\ user.revision = operation[o].revision
    /\ runner' = [runner EXCEPT ![r] = [op |-> o, step |-> operation[o].phase, told |-> {}]]
    /\ UNCHANGED <<user, operation, membership, grant, identity, holder, completed,
                   session, imVars, snapshot, profileEdits, failures>>

\* A call fails, its answer is lost or the process stops: the receipt stays.
RunFails(r) ==
    /\ runner[r].op # NoOp /\ Stop(r)
    /\ failures < MaxFail /\ failures' = failures + 1
    /\ UNCHANGED <<user, operation, membership, grant, identity, holder, completed,
                   session, imVars, snapshot, profileEdits>>

\* The row the enterprise makes for a user it has never seen.
Known(t, phone) ==
    IF identity[t].known THEN identity[t]
    ELSE [identity[t] EXCEPT !.known = TRUE, !.phone = phone]

\* Calls the target, which makes the account unless it has one.
PrepareTarget(r) ==
    /\ At(r, "prepare") /\ Of(r).kind = "switch"
    /\ LET t == Of(r).target IN
         /\ Unlocked(t)
         /\ identity' = [identity EXCEPT ![t] = Known(t, user.phone)]
    /\ MoveTo(r, "prepared")
    /\ UNCHANGED <<user, operation, membership, grant, holder, completed, session,
                   imVars, snapshot, profileEdits, failures>>

FinishPrepare(r) ==
    /\ At(r, "prepared") \/ (At(r, "prepare") /\ Of(r).kind # "switch")
    /\ LET t == Of(r).target IN membership' =
         IF membership[t] = NoOp THEN [membership EXCEPT ![t] = identity[t].version]
         ELSE membership
    /\ operation' = [operation EXCEPT ![runner[r].op].phase = "offline"]
    /\ MoveTo(r, "offline")
    /\ UNCHANGED <<user, grant, identity, holder, completed, session, imVars, snapshot, profileEdits, failures>>

(***************************************************************************)
(* The enterprise the user leaves.  Its handler may outlive the call.      *)
(***************************************************************************)

OfflineLock(t) == Unlocked(t)

Closing(t, step) == holder[t].kind = "offline" /\ holder[t].step = step

AskOffline(r) ==
    /\ At(r, "offline")
    /\ LET t == Of(r).source
           o == runner[r].op
       IN  /\ OfflineLock(t)
           /\ IF o \in completed[t] \/ ~identity[t].known
              THEN MoveTo(r, "offlined") /\ UNCHANGED holder
              ELSE /\ identity[t].revision <= user.revision
                   /\ holder' = [holder EXCEPT ![t] = [kind |-> "offline", who |-> o, step |-> "close"]]
                   /\ MoveTo(r, "asked")
    /\ UNCHANGED <<user, operation, membership, grant, identity, completed, session,
                   imVars, snapshot, profileEdits, failures>>

CloseIdentity(t) ==
    /\ Closing(t, "close")
    /\ identity' = [identity EXCEPT ![t].active = FALSE, ![t].epoch = @ + 1]
    /\ session' = [session EXCEPT ![t] = {}]
    /\ holder' = [holder EXCEPT ![t].step = "cut"]
    /\ UNCHANGED <<platformVars, completed, imVars, snapshot, profileEdits, failures>>

\* Replaces the token, disconnects, and forgets that one was installed.
OfflineEnterpriseUser(t) ==
    /\ Closing(t, "cut")
    /\ device' = [device EXCEPT ![t] = 0] /\ marker' = [marker EXCEPT ![t] = 0]
    /\ completed' = [completed EXCEPT ![t] = @ \cup {holder[t].who}]
    /\ Release(t)
    /\ UNCHANGED <<platformVars, identity, session, issuing, snapshot, profileEdits, failures>>

\* Any step of the handler may fail; a later call does it again.
OfflineFails(t) ==
    /\ holder[t].kind = "offline" /\ Release(t)
    /\ failures < MaxFail /\ failures' = failures + 1
    /\ UNCHANGED <<platformVars, identity, completed, session, imVars, snapshot, profileEdits>>

OfflineAnswers(r) ==
    /\ At(r, "asked") /\ runner[r].op \in completed[Of(r).source]
    /\ MoveTo(r, "offlined")
    /\ UNCHANGED <<user, operation, membership, grant, identity, holder, completed,
                   session, imVars, snapshot, profileEdits, failures>>

PhaseAfterOffline == "commit"

FinishOffline(r) ==
    /\ At(r, "offlined")
    /\ operation' = [operation EXCEPT ![runner[r].op].phase = PhaseAfterOffline]
    /\ MoveTo(r, "commit")
    /\ UNCHANGED <<user, membership, grant, identity, holder, completed, session,
                   imVars, snapshot, profileEdits, failures>>

\* Gives the new number to one enterprise the user is a member of.
TellPhone(r, t) ==
    /\ At(r, "commit") /\ Of(r).kind = "phone" /\ t \in Members \ runner[r].told
    /\ identity[t].known => ~identity[t].active /\ identity[t].revision <= user.revision
    /\ identity' = IF identity[t].known
         THEN [identity EXCEPT ![t].phone = runner[r].op, ![t].version = @ + 1]
         ELSE identity
    /\ runner' = [runner EXCEPT ![r].told = @ \cup {t}]
    /\ UNCHANGED <<user, operation, membership, grant, holder, completed, session,
                   imVars, snapshot, profileEdits, failures>>

PhoneTold(r) == Members \subseteq runner[r].told

\* The transaction that makes the operation take effect.
CommitOperation(r) ==
    /\ At(r, "commit") /\ (Of(r).kind = "phone" => PhoneTold(r))
    /\ user.pending = runner[r].op /\ user.revision = Of(r).revision
    /\ user' = [user EXCEPT
         !.tenant = Of(r).target, !.revision = @ + 1, !.pending = NoOp,
         !.banned = IF Of(r).kind \in {"ban", "unban"} THEN Of(r).kind = "ban" ELSE @,
         !.phone = IF Of(r).kind = "phone" THEN runner[r].op ELSE @]
    /\ operation' = [operation EXCEPT ![runner[r].op].phase = "done"]
    /\ Stop(r)
    /\ UNCHANGED <<membership, grant, identity, holder, completed, session, imVars,
                   snapshot, profileEdits, failures>>

(***************************************************************************)
(* Entering an enterprise with a ticket.                                   *)
(***************************************************************************)
Entering(t, step) == holder[t].kind = "enter" /\ holder[t].step = step

Exchange(g) ==
    /\ grant[g].state = "fresh"
    /\ LET t == grant[g].tenant IN
         /\ Unlocked(t)
         /\ holder' = [holder EXCEPT ![t] = [kind |-> "enter", who |-> g, step |-> "consume"]]
    /\ UNCHANGED <<platformVars, identity, completed, session, imVars, snapshot, profileEdits, failures>>

\* A plausible slip: a ticket is good as long as the user has not moved.
ConsumeLoosely(t) ==
    /\ Entering(t, "consume")
    /\ LET ticket == holder[t].who IN
         /\ grant[ticket].state = "fresh" /\ user.tenant = t /\ ~user.banned
         /\ grant' = [grant EXCEPT ![ticket].state = "used"]
    /\ holder' = [holder EXCEPT ![t].step = "prepare"]
    /\ UNCHANGED <<user, operation, membership, runner, identity, completed, session,
                   imVars, snapshot, profileEdits, failures>>

Consume(t) ==
    /\ Entering(t, "consume")
    /\ LET ticket == holder[t].who IN
         /\ grant[ticket].state = "fresh"
         /\ user.tenant = t /\ user.revision = grant[ticket].revision
         /\ user.pending = NoOp /\ ~user.banned
         /\ grant' = [grant EXCEPT ![ticket].state = "used"]
    /\ holder' = [holder EXCEPT ![t].step = "prepare"]
    /\ UNCHANGED <<user, operation, membership, runner, identity, completed, session,
                   imVars, snapshot, profileEdits, failures>>

ExchangePrepare(t) ==
    /\ Entering(t, "prepare")
    /\ identity' = [identity EXCEPT ![t] = Known(t, user.phone)]
    /\ holder' = [holder EXCEPT ![t].step = "activate"]
    /\ UNCHANGED <<platformVars, completed, session, imVars, snapshot, profileEdits, failures>>

\* Setting the phone fires the trigger that counts the profile's versions.
ExchangeActivate(t) ==
    /\ Entering(t, "activate")
    /\ LET rev == grant[holder[t].who].revision
           i == identity[t]
       IN  /\ i.revision <= rev
           /\ identity' = [identity EXCEPT ![t] =
                [i EXCEPT !.active = TRUE, !.revision = rev, !.phone = user.phone,
                          !.version = @ + (IF i.revision # rev THEN 2 ELSE 1)]]
    /\ holder' = [holder EXCEPT ![t].step = "session"]
    /\ UNCHANGED <<platformVars, completed, session, imVars, snapshot, profileEdits, failures>>

\* Installs the token of this generation and writes the session.
ExchangeSession(t) ==
    /\ Entering(t, "session")
    /\ LET e == identity[t].epoch IN
         /\ device' = IF marker[t] = e THEN device ELSE [device EXCEPT ![t] = e]
         /\ marker' = [marker EXCEPT ![t] = e]
         /\ session' = [session EXCEPT ![t] = @ \cup
              {[epoch |-> e, revision |-> grant[holder[t].who].revision]}]
    /\ Release(t)
    /\ UNCHANGED <<platformVars, identity, completed, issuing, snapshot, profileEdits, failures>>

ExchangeFails(t) ==
    /\ holder[t].kind = "enter" /\ Release(t)
    /\ UNCHANGED <<platformVars, identity, completed, session, imVars, snapshot, profileEdits, failures>>

(***************************************************************************)
(* Business requests of a user who is in.                                  *)
(***************************************************************************)
Usable(t) == {s \in session[t] : identity[t].active /\ s.epoch = identity[t].epoch}

\* The user disconnects one of the devices: the server clears its token.
QuitDevice(t) ==
    /\ Usable(t) # {} /\ marker[t] # 0
    /\ device' = [device EXCEPT ![t] = 0] /\ marker' = [marker EXCEPT ![t] = 0]
    /\ UNCHANGED <<platformVars, identity, holder, completed, session, issuing, snapshot, profileEdits, failures>>

\* Reads the epoch, and that no token of it is installed.
AskIMSession(t) ==
    /\ Usable(t) # {} /\ issuing[t] = 0 /\ marker[t] # identity[t].epoch
    /\ issuing' = [issuing EXCEPT ![t] = identity[t].epoch]
    /\ UNCHANGED <<platformVars, identity, holder, completed, session, device, marker,
                   snapshot, profileEdits, failures>>

EnsureProvisioned(t) ==
    /\ issuing[t] # 0
    /\ device' = [device EXCEPT ![t] = issuing[t]]
    /\ marker' = [marker EXCEPT ![t] = issuing[t]]
    /\ issuing' = [issuing EXCEPT ![t] = 0]
    /\ UNCHANGED <<platformVars, identity, holder, completed, session, snapshot, profileEdits, failures>>

EditProfile(t) ==
    /\ Usable(t) # {} /\ profileEdits[t] < MaxEdit
    /\ identity' = [identity EXCEPT ![t].version = @ + 1]
    /\ profileEdits' = [profileEdits EXCEPT ![t] = @ + 1]
    /\ UNCHANGED <<platformVars, holder, completed, session, imVars, snapshot, failures>>

(***************************************************************************)
(* Reporting the profile.  A report whose call timed out may still arrive. *)
(***************************************************************************)
Report(t) == [tenant |-> t, revision |-> identity[t].revision, version |-> identity[t].version]

SyncOnce(t) ==
    /\ identity[t].active /\ identity[t].version > identity[t].synced
    /\ Report(t) \notin snapshot /\ Cardinality(snapshot) < 2
    /\ snapshot' = snapshot \cup {Report(t)}
    /\ UNCHANGED <<platformVars, identity, holder, completed, session, imVars, profileEdits, failures>>

StoreSnapshot(m) ==
    IF membership[m.tenant] < m.version THEN [membership EXCEPT ![m.tenant] = m.version]
    ELSE membership

\* Refused when the user was assigned anew; the answer may be lost.
SnapshotArrives(m, heard) ==
    /\ m \in snapshot /\ snapshot' = snapshot \ {m}
    /\ IF user.tenant = m.tenant /\ user.revision = m.revision
       THEN /\ membership' = StoreSnapshot(m)
            /\ identity' = IF heard /\ identity[m.tenant].revision = m.revision
                              /\ identity[m.tenant].synced < m.version
                           THEN [identity EXCEPT ![m.tenant].synced = m.version]
                           ELSE identity
       ELSE UNCHANGED <<membership, identity>>
    /\ UNCHANGED <<user, operation, grant, runner, holder, completed, session, imVars, profileEdits, failures>>

OperationNext ==
    \/ \E g \in Grant : SignTicket(g)
    \/ \E o \in Operation, k \in Kind, t \in Tenant : StartOperation(o, k, t)
    \/ \E r \in Runner :
         \/ \E o \in Operation : RunOperation(r, o)
         \/ RunFails(r) \/ PrepareTarget(r) \/ FinishPrepare(r) \/ AskOffline(r)
         \/ OfflineAnswers(r) \/ FinishOffline(r) \/ CommitOperation(r)
         \/ \E t \in Tenant : TellPhone(r, t)

EnterpriseNext == \E t \in Tenant :
    \/ CloseIdentity(t) \/ OfflineEnterpriseUser(t) \/ OfflineFails(t)
    \/ Consume(t) \/ ExchangePrepare(t) \/ ExchangeActivate(t) \/ ExchangeSession(t)
    \/ ExchangeFails(t) \/ QuitDevice(t) \/ AskIMSession(t) \/ EnsureProvisioned(t)
    \/ EditProfile(t) \/ SyncOnce(t)

SwitchNext ==
    \/ OperationNext \/ EnterpriseNext
    \/ \E g \in Grant : Exchange(g)
    \/ \E m \in snapshot, heard \in BOOLEAN : SnapshotArrives(m, heard)

Delivered == \E m \in snapshot : SnapshotArrives(m, TRUE)

\* RunSync repeats every three seconds and the network delivers in the end.
SwitchFairness == WF_switchVars(Delivered) /\ \A t \in Tenant : WF_switchVars(SyncOnce(t))

SwitchSpec == SwitchInit /\ [][SwitchNext]_switchVars /\ SwitchFairness

(***************************************************************************)
(* Properties.                                                             *)
(***************************************************************************)
\* The rows of both databases have their columns' values.
SwitchTypeOK ==
    /\ user.tenant \in Tenant /\ user.pending \in Operation \cup {NoOp}
    /\ \A o \in Operation : operation[o].phase \in {"none", "prepare", "offline", "commit", "done"}
    /\ \A t \in Tenant : membership[t] = NoOp \/ membership[t] \in Nat
    /\ \A r \in Runner : runner[r].op \in Operation \cup {NoOp}
    /\ \A t \in Tenant : device[t] <= identity[t].epoch /\ completed[t] \subseteq Operation

\* The user is in at most one enterprise, the one the platform assigns, under
\* the present version of the assignment, whatever is retried or half done.
ActiveAgrees == \A t \in Tenant :
    identity[t].active => user.tenant = t /\ user.revision = identity[t].revision

\* From the moment an operation may commit, nothing the source issued before it
\* is accepted there.
LeftBehind == \A o \in Operation : operation[o].phase = "commit" =>
    Usable(operation[o].source) = {} /\ ~identity[operation[o].source].active

\* A session that is accepted was issued under the present assignment.
SessionsOfThisAssignment == \A t \in Tenant : \A s \in Usable(t) :
    user.tenant = t /\ s.revision = user.revision

\* Every operation takes effect once, however often it is retried.
TakesEffectOnce ==
    user.revision = 1 + Cardinality({o \in Operation : operation[o].phase = "done"})

\* Between operations, every enterprise the user was ever in has the number the
\* platform has: the old one is free for somebody else.
PhoneAgrees == user.pending = NoOp =>
    \A t \in Members : identity[t].known => identity[t].phone = user.phone

\* A report that arrives late never replaces a newer profile.
ProfileNeverGoesBack == [][\A t \in Members : membership'[t] >= membership[t]]_switchVars

\* Once edits stop, the platform has the profile of the enterprise the user is in.
EventuallySynced == <>[](\A t \in Tenant :
    identity[t].active => membership[t] >= identity[t].version)

\* docs/LIGHTWEIGHT_TENANCY_LOCAL.md:43: the old IM is revoked before the new
\* version of the assignment is committed.  It does not hold: a session that was being
\* issued while the source went offline installs its token afterwards.
IMRevoked == \A o \in Operation : operation[o].phase = "commit" =>
    device[operation[o].source] = 0

\* What the two databases agree on however calls are lost, late or repeated; and
\* the platform's copy of a profile only moves forward.
SwitchKept ==
    /\ [](/\ SwitchTypeOK /\ ActiveAgrees /\ LeftBehind /\ SessionsOfThisAssignment
          /\ TakesEffectOnce /\ PhoneAgrees)
    /\ ProfileNeverGoesBack
=============================================================================
