---------------------------- MODULE ImCredentials ----------------------------
(***************************************************************************)
(* The token of one user and one kind of device in WuKongIM, and the row   *)
(* of im_wukong_credentials that says which token was installed.  Every    *)
(* installation disconnects the device, so a login installs only a token   *)
(* the row does not name.  A disconnection by the user or an administrator *)
(* clears the token and then deletes the row.                              *)
(***************************************************************************)
EXTENDS Naturals, FiniteSets

CONSTANTS
    Instance,    \* processes of the server: the stripes of locks are theirs
    Issuer,      \* logins and refreshes that need an IM session
    Generation,  \* 1..n, generations of the token; one without tenancy
    MaxQuit      \* bound on disconnections

ASSUME CredentialAssumption == Generation \subseteq Nat \ {0} /\ MaxQuit \in Nat

VARIABLES
    credential,  \* generation the row names, 0 if there is none
    installed,   \* generation of the token WuKongIM has, 0 if it has none
    issuer,      \* where each IssueGeneration is
    quitting,    \* disconnections that have yet to delete the row
    quits

credentialVars == <<credential, installed, issuer, quitting, quits>>

CredentialInit ==
    /\ credential = 0 /\ installed = 0 /\ quitting = 0 /\ quits = 0
    /\ issuer = [r \in Issuer |-> [step |-> "idle"]]

IssuerAt(r, step) == issuer[r].step = step
IssuerTo(r, step) == issuer' = [issuer EXCEPT ![r].step = step]

\* A plausible slip: the lock is held for the look-up alone.
StripeOfLook(i, g) == \A r \in Issuer :
    ~(IssuerAt(r, "look") /\ issuer[r].instance = i /\ issuer[r].generation = g)

\* The mutex chosen by the digest of the token, in this process.
StripeFree(i, g) == \A r \in Issuer :
    ~(~IssuerAt(r, "idle") /\ issuer[r].instance = i /\ issuer[r].generation = g)

IssueGeneration(r, i, g) ==
    /\ IssuerAt(r, "idle") /\ StripeFree(i, g)
    /\ issuer' = [issuer EXCEPT ![r] = [step |-> "look", instance |-> i, generation |-> g]]
    /\ UNCHANGED <<credential, installed, quitting, quits>>

\* The row names the token: the session is answered as it is.
WukongCredentialProvisioned(r) ==
    /\ IssuerAt(r, "look")
    /\ IssuerTo(r, IF credential = issuer[r].generation THEN "idle" ELSE "install")
    /\ UNCHANGED <<credential, installed, quitting, quits>>

ProvisionUser(r) ==
    /\ IssuerAt(r, "install") /\ installed' = issuer[r].generation /\ IssuerTo(r, "mark")
    /\ UNCHANGED <<credential, quitting, quits>>

MarkWukongCredentialProvisioned(r) ==
    /\ IssuerAt(r, "mark") /\ credential' = issuer[r].generation /\ IssuerTo(r, "idle")
    /\ UNCHANGED <<installed, quitting, quits>>

\* A call fails or the process stops.
IssueFails(r) ==
    /\ issuer[r].step \in {"install", "mark"} /\ IssuerTo(r, "idle")
    /\ UNCHANGED <<credential, installed, quitting, quits>>

\* WuKongIM clears the token and disconnects.
QuitUserIMDevice ==
    /\ quits < MaxQuit /\ quits' = quits + 1
    /\ installed' = 0 /\ quitting' = quitting + 1
    /\ UNCHANGED <<credential, issuer>>

InvalidateWukongCredential ==
    /\ quitting > 0 /\ quitting' = quitting - 1 /\ credential' = 0
    /\ UNCHANGED <<installed, issuer, quits>>

\* The process stops, or the database refuses, between the two.
QuitStops ==
    /\ quitting > 0 /\ quitting' = quitting - 1
    /\ UNCHANGED <<credential, installed, issuer, quits>>

CredentialNext ==
    \/ \E r \in Issuer :
         \/ \E i \in Instance, g \in Generation : IssueGeneration(r, i, g)
         \/ WukongCredentialProvisioned(r) \/ ProvisionUser(r)
         \/ MarkWukongCredentialProvisioned(r) \/ IssueFails(r)
    \/ QuitUserIMDevice \/ InvalidateWukongCredential \/ QuitStops

CredentialSpec == CredentialInit /\ [][CredentialNext]_credentialVars

(***************************************************************************)
(* Properties.                                                             *)
(***************************************************************************)
\* One process never installs a token again that is recorded: logins that run
\* side by side disconnect the device once.
NoNeedlessKick == [][\A r \in Issuer :
    IssuerAt(r, "install") /\ issuer'[r].step = "mark" => credential # issuer[r].generation
    ]_credentialVars

\* httpapi/admin_wukong.go: after a disconnection the next login installs the
\* token again, so a row at rest never names a token that is gone.  It does not
\* hold when the process stops between the disconnection and the row.
NextLoginInstalls ==
    (\A r \in Issuer : IssuerAt(r, "idle")) /\ quitting = 0 /\ credential # 0
        => installed = credential
=============================================================================
