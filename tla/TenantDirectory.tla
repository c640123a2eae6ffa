--------------------------- MODULE TenantDirectory ---------------------------
(***************************************************************************)
(* What the identity platform keeps for all users: the enterprises, one of *)
(* them the default; the numbers users sign in with and the numbers that   *)
(* are reserved for a change under way; one-time codes; and the import of  *)
(* a stand-alone deployment, which writes two databases user by user.      *)
(***************************************************************************)
EXTENDS Naturals, FiniteSets

CONSTANTS
    Phone, PhoneUser,  \* numbers and accounts
    Unowned,
    MaxCode,        \* bound on the codes sent
    Tries,          \* guesses per code: 5 in the code
    Verifier,       \* requests that carry a code
    Company,        \* enterprises
    Admin,          \* requests of administrators that save an enterprise
    MaxSave,        \* bound on the versions of one enterprise
    Source,         \* accounts of the deployment that is imported
    Deleted,        \* those of them that were deleted
    MaxCrash        \* bound on interrupted imports

ASSUME DirectoryAssumption ==
    /\ Unowned \notin PhoneUser /\ Deleted \subseteq Source /\ IsFiniteSet(Source)
    /\ MaxCode \in Nat /\ Tries \in Nat \ {0} /\ MaxSave \in Nat /\ MaxCrash \in Nat

VARIABLES
    owner,        \* lp_users.phone
    reservation,  \* lp_phone_reservations
    otp,          \* lp_otp: the code in force for a number and its attempts; 0 if none
    sent,         \* codes sent so far
    verifying,    \* requests between the statements of verifyOTP and after it
    accepted,     \* ghost: how often each code was accepted
    company,      \* lp_tenants
    saving,       \* requests in saveTenant between reading and writing
    imported,     \* users of the import in lp_users and lp_memberships
    mapped,       \* lp_identity rows in the source
    importer,     \* where the import is
    crashes

numberVars == <<owner, reservation, otp, sent, verifying, accepted>>
companyVars == <<company, saving>>
importVars == <<imported, mapped, importer, crashes>>
directoryVars == <<numberVars, companyVars, importVars>>

NotSaved == [exists |-> FALSE, enabled |-> FALSE, default |-> FALSE, version |-> 0]

DirectoryInit ==
    /\ owner = [p \in Phone |-> Unowned] /\ reservation = [p \in Phone |-> Unowned]
    /\ otp = [p \in Phone |-> [code |-> 0, attempts |-> 0]] /\ sent = 0
    /\ verifying = [v \in Verifier |-> [step |-> "idle"]]
    /\ accepted = [c \in 1 .. MaxCode |-> 0]
    /\ company = [c \in Company |-> NotSaved]
    /\ saving = [a \in Admin |-> [step |-> "idle"]]
    /\ imported = {} /\ mapped = {} /\ importer = [step |-> "idle"] /\ crashes = 0

(***************************************************************************)
(* Codes.                                                                  *)
(***************************************************************************)
Code(p) ==
    /\ sent < MaxCode /\ sent' = sent + 1
    /\ otp' = [otp EXCEPT ![p] = [code |-> sent', attempts |-> 0]]
    /\ UNCHANGED <<owner, reservation, verifying, accepted, companyVars, importVars>>

Verify(v, step) == verifying' = [verifying EXCEPT ![v].step = step]

AttemptLeft(p) == otp[p].attempts < Tries

\* Counts the attempt and reads the digest in one statement.
VerifyBegin(v, person, p, code) ==
    /\ verifying[v].step = "idle" /\ otp[p].code # 0 /\ AttemptLeft(p)
    /\ otp' = [otp EXCEPT ![p].attempts = @ + 1]
    /\ verifying' = IF code = otp[p].code
         THEN [verifying EXCEPT ![v] =
                [step |-> "delete", person |-> person, phone |-> p, code |-> code]]
         ELSE verifying
    /\ UNCHANGED <<owner, reservation, sent, accepted, companyVars, importVars>>

\* A plausible slip: the code that matched is good whatever the deletion found.
MatchIsEnough(v) == TRUE

\* The deletion names the digest, and only its one row makes the code good.
RowDeleted(v) == otp[verifying[v].phone].code = verifying[v].code

VerifyEnd(v) ==
    /\ verifying[v].step = "delete"
    /\ LET p == verifying[v].phone
           tried == verifying[v].code
       IN  /\ otp' = IF otp[p].code = tried THEN [otp EXCEPT ![p] = [code |-> 0, attempts |-> 0]]
                     ELSE otp
           /\ IF RowDeleted(v)
              THEN accepted' = [accepted EXCEPT ![tried] = @ + 1] /\ Verify(v, "good")
              ELSE Verify(v, "idle") /\ UNCHANGED accepted
    /\ UNCHANGED <<owner, reservation, sent, companyVars, importVars>>

(***************************************************************************)
(* Numbers.  Both transactions hold the advisory lock of the number.       *)
(***************************************************************************)
HasNumber(person) == \E p \in Phone : owner[p] = person
Changing(person) == \E p \in Phone : reservation[p] = person

\* No row of lp_users has the number, and no operation holds it.
NumberFree(p) == owner[p] = Unowned /\ reservation[p] = Unowned

\* A person who has no account registers.
AddUser(v) ==
    /\ verifying[v].step = "good" /\ ~HasNumber(verifying[v].person)
    /\ owner' = IF NumberFree(verifying[v].phone)
                THEN [owner EXCEPT ![verifying[v].phone] = verifying[v].person] ELSE owner
    /\ Verify(v, "idle")
    /\ UNCHANGED <<reservation, otp, sent, accepted, companyVars, importVars>>

\* One who has an account asks for another number: startOperation.
ChangePhone(v) ==
    /\ verifying[v].step = "good" /\ HasNumber(verifying[v].person)
    /\ reservation' = IF NumberFree(verifying[v].phone) /\ ~Changing(verifying[v].person)
                      THEN [reservation EXCEPT ![verifying[v].phone] = verifying[v].person]
                      ELSE reservation
    /\ Verify(v, "idle")
    /\ UNCHANGED <<owner, otp, sent, accepted, companyVars, importVars>>

\* The operation takes effect once every enterprise has the number.
CommitPhone(p) ==
    /\ reservation[p] # Unowned /\ owner[p] = Unowned
    /\ owner' = [q \in Phone |-> IF q = p THEN reservation[p]
                                 ELSE IF owner[q] = reservation[p] THEN Unowned ELSE owner[q]]
    /\ reservation' = [reservation EXCEPT ![p] = Unowned]
    /\ UNCHANGED <<otp, sent, verifying, accepted, companyVars, importVars>>

(***************************************************************************)
(* Enterprises.  Administrators' transactions hold one advisory lock.      *)
(***************************************************************************)
NoneSaving == \A a \in Admin : saving[a].step = "idle"
Existing == {c \in Company : company[c].exists}

\* Makes a new enterprise, the first of all the default.
CreateTenant(c, enabled) ==
    /\ NoneSaving /\ ~company[c].exists
    /\ company' = [company EXCEPT ![c] =
         [exists |-> TRUE, enabled |-> enabled, default |-> Existing = {}, version |-> 1]]
    /\ UNCHANGED <<saving, numberVars, importVars>>

\* Takes the lock and reads the row in another connection.
SaveTenantBegin(a, c, enabled, version) ==
    /\ NoneSaving /\ company[c].exists /\ company[c].version < MaxSave
    /\ saving' = [saving EXCEPT ![a] =
         [step |-> IF company[c].default /\ ~enabled THEN "idle" ELSE "write",
          company |-> c, enabled |-> enabled, version |-> version]]
    /\ UNCHANGED <<company, numberVars, importVars>>

SaveTenantEnd(a) ==
    /\ saving[a].step = "write"
    /\ company' = IF company[saving[a].company].version = saving[a].version
         THEN [company EXCEPT ![saving[a].company].enabled = saving[a].enabled,
                              ![saving[a].company].version = @ + 1]
         ELSE company
    /\ saving' = [saving EXCEPT ![a] = [step |-> "idle"]]
    /\ UNCHANGED <<numberVars, importVars>>

MayBeDefault(c) == company[c].exists /\ company[c].enabled

DefaultTenant(c) ==
    /\ NoneSaving /\ MayBeDefault(c) /\ company[c].version < MaxSave
    /\ company' = [d \in Company |->
         IF d = c THEN [company[d] EXCEPT !.default = TRUE, !.version = @ + 1]
         ELSE IF company[d].default THEN [company[d] EXCEPT !.default = FALSE, !.version = @ + 1]
         ELSE company[d]]
    /\ UNCHANGED <<saving, numberVars, importVars>>

(***************************************************************************)
(* Import.                                                                 *)
(***************************************************************************)
Live == Source \ Deleted
Importer(step, rest) == importer' = [step |-> step, left |-> rest]

ImportBegin ==
    /\ importer.step \in {"idle", "failed"} /\ Importer("user", Live)
    /\ UNCHANGED <<numberVars, companyVars, imported, mapped, crashes>>

\* Two rows in one transaction that keeps what is there.
ImportUser(u) ==
    /\ importer.step = "user" /\ u \in importer.left
    /\ imported' = imported \cup {u} /\ importer' = [step |-> "map", left |-> importer.left, user |-> u]
    /\ UNCHANGED <<numberVars, companyVars, mapped, crashes>>

\* A plausible slip: a mapping that is there already is a conflict.
InsertMapping == importer.user \notin mapped

\* ON CONFLICT DO NOTHING, and the row is compared afterwards.
KeepMapping == TRUE

ImportMap ==
    /\ importer.step = "map"
    /\ IF KeepMapping
       THEN /\ mapped' = mapped \cup {importer.user}
            /\ Importer("user", importer.left \ {importer.user})
       ELSE UNCHANGED mapped /\ Importer("failed", {})
    /\ UNCHANGED <<numberVars, companyVars, imported, crashes>>

MappingsOfDeleted == Deleted

\* Deleted accounts get a mapping that is never active; then the totals.
ImportFinish ==
    /\ importer.step = "user" /\ importer.left = {}
    /\ mapped' = mapped \cup MappingsOfDeleted
    /\ Importer(IF Cardinality(imported) = Cardinality(Live) THEN "done" ELSE "failed", {})
    /\ UNCHANGED <<numberVars, companyVars, imported, crashes>>

ImportStops ==
    /\ importer.step \in {"user", "map"} /\ crashes < MaxCrash
    /\ importer' = [step |-> "idle"] /\ crashes' = crashes + 1
    /\ UNCHANGED <<numberVars, companyVars, imported, mapped>>

ImportNext == ImportBegin \/ (\E u \in Source : ImportUser(u)) \/ ImportMap \/ ImportFinish

DirectoryNext ==
    \/ \E p \in Phone : Code(p) \/ CommitPhone(p)
    \/ \E v \in Verifier :
         \/ \E person \in PhoneUser, p \in Phone, c \in 1 .. MaxCode : VerifyBegin(v, person, p, c)
         \/ VerifyEnd(v) \/ AddUser(v) \/ ChangePhone(v)
    \/ \E c \in Company : DefaultTenant(c) \/ \E enabled \in BOOLEAN : CreateTenant(c, enabled)
    \/ \E a \in Admin :
         \/ \E c \in Company, enabled \in BOOLEAN, n \in 1 .. MaxSave :
              SaveTenantBegin(a, c, enabled, n)
         \/ SaveTenantEnd(a)
    \/ ImportNext \/ ImportStops

\* An operator reruns an import that was interrupted.
DirectoryFairness == WF_directoryVars(ImportNext)

DirectorySpec == DirectoryInit /\ [][DirectoryNext]_directoryVars /\ DirectoryFairness

(***************************************************************************)
(* Properties.                                                             *)
(***************************************************************************)
\* The rows have their columns' values; a person has at most one number and one
\* change of it under way.
DirectoryTypeOK ==
    /\ owner \in [Phone -> PhoneUser \cup {Unowned}] /\ reservation \in [Phone -> PhoneUser \cup {Unowned}]
    /\ \A p \in Phone : otp[p].code \in 0 .. sent /\ otp[p].attempts \in 0 .. Tries
    /\ \A p, q \in Phone : p # q => /\ owner[p] # Unowned => owner[p] # owner[q]
                                    /\ reservation[p] # Unowned => reservation[p] # reservation[q]
    /\ imported \subseteq Live /\ mapped \subseteq Source

\* However many requests carry a code, it is accepted once.
CodeAcceptedOnce == \A c \in 1 .. MaxCode : accepted[c] <= 1

\* A number held for a change belongs to nobody, so the change can always take
\* effect: the unique index refuses no commit.
ReservedIsFree == \A p \in Phone : reservation[p] # Unowned => owner[p] = Unowned

\* Registration without an invite never loses its enterprise: an enabled default
\* is followed by an enabled default.
DefaultStaysEnabled == [][
    (\E c \in Company : company[c].default /\ company[c].enabled) =>
        \E c \in Company : company'[c].default /\ company'[c].enabled]_directoryVars

\* An import that reports success has every live account in both databases, and
\* a mapping for every deleted one.
ImportComplete == importer.step = "done" => imported = Live /\ mapped = Source

\* An import that is interrupted anywhere and run again succeeds in the end.
EventuallyImported == importer.step # "idle" ~> importer.step = "done"

\* What the directory of numbers and companies and its import keep to.
DirectoryKept ==
    /\ [](CodeAcceptedOnce /\ ReservedIsFree /\ ImportComplete)
    /\ DefaultStaysEnabled
=============================================================================
