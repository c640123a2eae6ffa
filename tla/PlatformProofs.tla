--------------------------- MODULE PlatformProofs ---------------------------
(***************************************************************************)
(* Proofs about the components of the run "platform": no reconcile cycle   *)
(* skips a channel, for any number of users and channels, any page size    *)
(* and any answers of WuKongIM; a user who is moved between enterprises is *)
(* in at most one of them, for any number of enterprises, operations,      *)
(* tickets and requests that run them; edits, pins, reactions, recalls and *)
(* deletions that race over the messages of a conversation leave them as   *)
(* they should, for any number of messages, clients, bodies and            *)
(* synchronisation numbers; and codes, numbers, the default enterprise and *)
(* the import of a deployment keep what they promise, whatever requests    *)
(* cross.                                                                  *)
(***************************************************************************)
EXTENDS ReconcileCycle, EnterpriseSwitch, MessageExtras, TenantDirectory, FiniteSetTheorems,
        SequenceTheorems, WellFoundedInduction, TLAPS

(***************************************************************************)
(* The reconcile cycle (ReconcileCycle).                                   *)
(***************************************************************************)
Covered(c) == c \in synced \union deferred

\* What lies behind the cursor is covered.
BehindCursor == \A c \in steady : c <= channelCursor => Covered(c)

\* The page lies ahead of the cursor, and whatever else does lies beyond a
\* full page.
AheadOfCursor ==
    loop = "channels" =>
        /\ \A d \in page : d > channelCursor
        /\ \A c \in steady : c > channelCursor =>
              c \in page \/ (full /\ \A d \in page : d < c)

CoverInv ==
    /\ CycleTypeOK
    /\ steady \subseteq channels
    /\ BehindCursor
    /\ AheadOfCursor
    /\ channelsDone => \A c \in steady : Covered(c)
    /\ ~cycleFailure => deferred = {}
---------------------------------------------------------------------------
\* A listed page leaves out only what lies beyond it, and only when full.
LEMMA PageIsPrefix ==
    ASSUME NEW S, IsFiniteSet(S), S \subseteq Nat, NEW after \in Nat, NEW P, Lists(S, after, P),
           NEW c \in S, c > after, c \notin P
    PROVE  Cardinality(P) = PageSize /\ \A d \in P : d < c
<1> DEFINE rest == {i \in S : i > after}
<1>1. P \subseteq S /\ c \in rest /\ P # rest
  BY DEF Lists
<1>2. Cardinality(P) \in Nat
  BY <1>1, FS_Subset, FS_CardinalityType
<1>3. Cardinality(P) = PageSize
  BY <1>1, <1>2, CycleAssumption DEF Lists
<1>4. ASSUME NEW d \in P PROVE d < c
  <2>1. d \in Nat /\ c \in Nat /\ d # c
    BY <1>1
  <2>2. ~(c < d)
    BY <1>1 DEF Lists
  <2> QED BY <2>1, <2>2
<1> QED BY <1>3, <1>4

LEMMA CycleInitTypes ==
    ASSUME CycleInit
    PROVE  CycleTypeOK
<1>1. 0 \in 0..(MaxAttempts - 1)
  BY CycleAssumption
<1> QED BY <1>1 DEF CycleInit, CycleTypeOK

LEMMA CycleTypeInductive ==
    ASSUME CycleTypeOK, [CycleNext]_cycleVars
    PROVE  CycleTypeOK'
<1> USE DEF CycleTypeOK, listVars, cursorVars, failVars, cycleHistory
<1>0. 0 \in 0..(MaxAttempts - 1)
  BY CycleAssumption
<1>1. CASE StartPage
  BY <1>1 DEF StartPage, TakePage, Lists
<1>2. CASE UserUpToDate
  BY <1>2 DEF UserUpToDate
<1>3. CASE UserFails
  BY <1>3 DEF UserFails, ReturnPage
<1>14. CASE ListingFails
  BY <1>14 DEF ListingFails, ReturnPage
<1>4. ASSUME NEW u \in BOOLEAN, NEW d \in BOOLEAN, EndPage(u, d) PROVE CycleTypeOK'
  <2>1. CASE u /\ d
    BY <1>0, <1>4, <2>1 DEF EndPage, FinishCycle, ReturnPage
  <2>2. CASE ~(u /\ d)
    BY <1>4, <2>2 DEF EndPage, ReturnPage
  <2> QED BY <2>1, <2>2
<1>5. CASE UsersPageDone
  <2>1. CASE channelsDone
    BY <1>4, <1>5, <2>1 DEF UsersPageDone
  <2>2. CASE ~channelsDone
    BY <1>5, <2>2 DEF UsersPageDone, TakePage, Lists
  <2> QED BY <2>1, <2>2
<1>6. CASE ChannelsPageDone
  BY <1>4, <1>6 DEF ChannelsPageDone
<1>7. CASE ChannelUpToDate
  BY <1>0, <1>7 DEF ChannelUpToDate
<1>8. ASSUME NEW c \in Channel, PutOff(c, TRUE) PROVE CycleTypeOK'
  BY <1>0, <1>8 DEF PutOff
<1>9. CASE ChannelRefused
  BY <1>8, <1>9 DEF ChannelRefused
<1>10. CASE ChannelFails
  <2>1. PICK c \in Channel :
          IF Attempts(c) < MaxAttempts
          THEN /\ failCursor' = c /\ failAttempts' = Attempts(c)
               /\ ReturnPage("retry")
               /\ UNCHANGED <<channels, cursorVars, cycleFailure, cycleHistory>>
          ELSE PutOff(c, TRUE)
    BY <1>10 DEF ChannelFails, ChannelFailsUpTo
  <2>2. CASE Attempts(c) < MaxAttempts
    <3>1. Attempts(c) \in 0..(MaxAttempts - 1)
      BY <2>2, CycleAssumption DEF Attempts
    <3> QED BY <2>1, <2>2, <3>1 DEF ReturnPage
  <2> QED BY <1>8, <2>1, <2>2
<1>11. ASSUME NEW c \in Channel, CreateChannel(c) \/ DeleteChannel(c) PROVE CycleTypeOK'
  BY <1>11 DEF CreateChannel, DeleteChannel
<1>12. CASE Restart
  BY <1>0, <1>12 DEF Restart
<1>13. CASE UNCHANGED cycleVars
  BY <1>13 DEF cycleVars
<1> QED
  BY <1>1, <1>2, <1>3, <1>5, <1>6, <1>7, <1>9, <1>10, <1>11, <1>12, <1>13, <1>14
  DEF CycleNext, RunPage

\* Listing channels establishes what lies ahead.
LEMMA TakeAhead ==
    ASSUME CoverInv, TakePage(channels, channelCursor), UNCHANGED <<steady, channelCursor>>
    PROVE  AheadOfCursor'
<1>1. PICK P \in SUBSET channels : /\ Lists(channels, channelCursor, P)
                                   /\ page' = P
                                   /\ full' = (Cardinality(P) = PageSize)
  BY DEF TakePage
<1>2. /\ IsFiniteSet(channels) /\ channels \subseteq Nat /\ channelCursor \in Nat
      /\ steady \subseteq channels
  <2>1. channels \subseteq Channel /\ channelCursor \in Channel \union {0}
        /\ steady \subseteq channels
    BY DEF CoverInv, CycleTypeOK
  <2>2. IsFiniteSet(channels)
    BY <2>1, CycleAssumption, FS_Subset
  <2> QED BY <2>1, <2>2, CycleAssumption
<1>3. ASSUME NEW c \in steady, c > channelCursor, c \notin P
      PROVE  Cardinality(P) = PageSize /\ \A d \in P : d < c
  <2>1. c \in channels
    BY <1>2
  <2> HIDE DEF Lists
  <2> QED BY <1>1, <1>2, <1>3, <2>1, PageIsPrefix
<1>4. \A d \in P : d > channelCursor
  BY <1>1 DEF Lists
<1> QED BY <1>1, <1>3, <1>4 DEF AheadOfCursor

\* Moving the cursor to the current channel once that is covered.
LEMMA AdvanceCovers ==
    ASSUME CoverInv, loop = "channels", NEW c \in Channel, Current(c),
           channelCursor' = c, page' = page \ {c}, UNCHANGED <<loop, full, steady>>,
           synced' \union deferred' = synced \union deferred \union {c}
    PROVE  BehindCursor' /\ AheadOfCursor'
<1>1. /\ steady \subseteq Nat /\ channelCursor \in Nat /\ c \in Nat
      /\ page \subseteq Nat
  BY CycleAssumption DEF CoverInv, CycleTypeOK
<1>2. ASSUME NEW d \in steady, d <= c PROVE d \in synced' \union deferred'
  <2>1. CASE d <= channelCursor
    BY <2>1 DEF CoverInv, BehindCursor, Covered
  <2>2. CASE d > channelCursor
    <3>1. d \in page
      BY <1>1, <1>2, <2>2 DEF CoverInv, AheadOfCursor, Current
    <3> QED BY <1>1, <1>2, <3>1 DEF Current
  <2> QED BY <1>1, <2>1, <2>2
<1>3. ASSUME NEW d \in steady, d > c
      PROVE  d \in page' \/ (full /\ \A e \in page' : e < d)
  <2>1. c > channelCursor
    BY DEF CoverInv, AheadOfCursor, Current
  <2>2. d \in page \/ (full /\ \A e \in page : e < d)
    BY <1>1, <1>3, <2>1 DEF CoverInv, AheadOfCursor
  <2> QED BY <1>1, <1>3, <2>2
<1>4. \A d \in page' : d > c
  BY <1>1 DEF Current
<1> QED BY <1>2, <1>3, <1>4 DEF BehindCursor, AheadOfCursor, Covered

LEMMA CoverInductive ==
    ASSUME CoverInv, CycleTypeOK', [CycleNext]_cycleVars
    PROVE  CoverInv'
<1> USE DEF CoverInv, listVars, cursorVars, failVars, cycleHistory
<1>1. CASE StartPage
  <2>1. CASE usersDone
    BY <1>1, <2>1, TakeAhead DEF StartPage, BehindCursor, Covered
  <2>2. CASE ~usersDone
    BY <1>1, <2>2 DEF StartPage, BehindCursor, AheadOfCursor, Covered
  <2> QED BY <2>1, <2>2
<1>2. CASE UserUpToDate
  BY <1>2 DEF UserUpToDate, BehindCursor, AheadOfCursor, Covered
<1>3. CASE UserFails
  BY <1>3 DEF UserFails, ReturnPage, BehindCursor, AheadOfCursor, Covered
<1>14. CASE ListingFails
  BY <1>14 DEF ListingFails, ReturnPage, BehindCursor, AheadOfCursor, Covered
<1>4. ASSUME FinishCycle \/ Restart PROVE CoverInv'
  <2>1. /\ steady' = channels /\ channels' = channels /\ channelCursor' = 0
        /\ loop' = "waiting" /\ channelsDone' = FALSE /\ deferred' = {}
    BY <1>4 DEF FinishCycle, ReturnPage, Restart
  <2>2. \A c \in channels : ~(c <= 0)
    BY CycleAssumption DEF CycleTypeOK
  <2> QED BY <2>1, <2>2 DEF BehindCursor, AheadOfCursor
<1>5. ASSUME NEW u, NEW d, EndPage(u, d), d => \A c \in steady : Covered(c)
      PROVE  CoverInv'
  <2>1. CASE u /\ d
    BY <1>4, <1>5, <2>1 DEF EndPage
  <2>2. CASE ~(u /\ d)
    BY <1>5, <2>2 DEF EndPage, ReturnPage, BehindCursor, AheadOfCursor, Covered
  <2> QED BY <2>1, <2>2
<1>6. CASE UsersPageDone
  <2>1. CASE channelsDone
    BY <1>5, <1>6, <2>1 DEF UsersPageDone
  <2>2. CASE ~channelsDone
    BY <1>6, <2>2, TakeAhead DEF UsersPageDone, BehindCursor, Covered
  <2> QED BY <2>1, <2>2
<1>7. CASE ChannelsPageDone
  <2>1. ~full => \A c \in steady : Covered(c)
    <3> SUFFICES ASSUME ~full, NEW c \in steady PROVE Covered(c)
      OBVIOUS
    <3>1. c \in Nat /\ channelCursor \in Nat
      BY CycleAssumption DEF CycleTypeOK
    <3>2. ~(c > channelCursor)
      BY <1>7 DEF ChannelsPageDone, AheadOfCursor
    <3> QED BY <3>1, <3>2 DEF BehindCursor
  <2> QED BY <1>5, <1>7, <2>1 DEF ChannelsPageDone
<1>8. CASE ChannelUpToDate
  <2>1. PICK c \in channels :
          /\ Current(c) /\ page' = page \ {c} /\ channelCursor' = c
          /\ synced' = synced \union {c}
          /\ UNCHANGED <<channels, loop, full, channelsDone, cycleFailure, steady, deferred>>
    BY <1>8 DEF ChannelUpToDate
  <2>2. BehindCursor' /\ AheadOfCursor'
    BY <1>8, <2>1, AdvanceCovers DEF ChannelUpToDate, CycleTypeOK
  <2> QED BY <2>1, <2>2 DEF Covered
<1>9. ASSUME NEW c \in Channel, loop = "channels", Current(c), PutOff(c, TRUE)
      PROVE  CoverInv'
  <2>1. BehindCursor' /\ AheadOfCursor'
    BY <1>9, AdvanceCovers DEF PutOff
  <2> QED BY <1>9, <2>1 DEF PutOff, Covered
<1>10. CASE ChannelRefused
  BY <1>9, <1>10 DEF ChannelRefused
<1>11. CASE ChannelFails
  <2>1. PICK c \in Channel :
          /\ loop = "channels" /\ Current(c)
          /\ IF Attempts(c) < MaxAttempts
             THEN /\ ReturnPage("retry")
                  /\ UNCHANGED <<channels, cursorVars, cycleFailure, cycleHistory>>
             ELSE PutOff(c, TRUE)
    BY <1>11 DEF ChannelFails, ChannelFailsUpTo
  <2>2. CASE Attempts(c) < MaxAttempts
    BY <2>1, <2>2 DEF ReturnPage, BehindCursor, AheadOfCursor, Covered
  <2> QED BY <1>9, <2>1, <2>2
<1>12. ASSUME NEW c \in Channel, CreateChannel(c) \/ DeleteChannel(c) PROVE CoverInv'
  BY <1>12 DEF CreateChannel, DeleteChannel, BehindCursor, AheadOfCursor, Covered
<1>13. CASE UNCHANGED cycleVars
  BY <1>13 DEF cycleVars, BehindCursor, AheadOfCursor, Covered
<1> QED
  BY <1>1, <1>2, <1>3, <1>4, <1>6, <1>7, <1>8, <1>10, <1>11, <1>12, <1>13, <1>14
  DEF CycleNext, RunPage

\* The cursors and the bookkeeping of failures keep their types, and a channel
\* never has MaxAttempts failures on the books.
THEOREM CycleTypeCorrect == CycleSpec => []CycleTypeOK
<1>1. CycleInit => CycleTypeOK
  BY CycleInitTypes
<1>2. CycleTypeOK /\ [CycleNext]_cycleVars => CycleTypeOK'
  BY CycleTypeInductive
<1> QED BY <1>1, <1>2, PTL DEF CycleSpec

LEMMA CoverInvariant == CycleSpec => []CoverInv
<1>1. CycleInit => CoverInv
  <2> SUFFICES ASSUME CycleInit PROVE CoverInv
    OBVIOUS
  <2>1. CycleTypeOK
    BY CycleInitTypes
  <2>2. \A c \in channels : ~(c <= 0)
    BY <2>1, CycleAssumption DEF CycleTypeOK
  <2> QED BY <2>1, <2>2 DEF CycleInit, CoverInv, BehindCursor, AheadOfCursor
<1>2. CoverInv /\ [CycleNext]_cycleVars => CoverInv'
  BY CoverInductive, CycleTypeInductive DEF CoverInv
<1> QED BY <1>1, <1>2, PTL DEF CycleSpec

\* A step that ends a cycle finds every steady channel covered.
LEMMA CompletesCovered ==
    ASSUME CoverInv, CycleNext, Completes
    PROVE  \A c \in steady : Covered(c)
<1>1. CASE UsersPageDone
  <2>1. channelsDone
    BY <1>1 DEF UsersPageDone, Completes
  <2> QED BY <2>1 DEF CoverInv
<1>2. CASE ChannelsPageDone
  <2>1. ~full /\ page = {} /\ loop = "channels"
    BY <1>2 DEF ChannelsPageDone, EndPage, ReturnPage, Completes
  <2> SUFFICES ASSUME NEW c \in steady PROVE Covered(c)
    OBVIOUS
  <2>2. c \in Nat /\ channelCursor \in Nat
    BY CycleAssumption DEF CoverInv, CycleTypeOK
  <2>3. ~(c > channelCursor)
    BY <2>1 DEF CoverInv, AheadOfCursor
  <2> QED BY <2>2, <2>3 DEF CoverInv, BehindCursor
<1>3. ~StartPage /\ ~UserUpToDate /\ ~ChannelUpToDate
  BY DEF Completes, StartPage, UserUpToDate, ChannelUpToDate
<1>4. ~UserFails /\ ~Restart /\ ~ChannelRefused /\ ~ChannelFails /\ ~ListingFails
  BY DEF Completes, UserFails, ListingFails, Restart, ChannelRefused, ChannelFails, ChannelFailsUpTo,
         ReturnPage, PutOff
<1>5. \A c \in Channel : ~CreateChannel(c) /\ ~DeleteChannel(c)
  BY DEF Completes, CreateChannel, DeleteChannel
<1> QED BY <1>1, <1>2, <1>3, <1>4, <1>5 DEF CycleNext, RunPage

\* No cycle skips a channel that existed throughout.
THEOREM CycleCovers == CycleSpec => CycleCoversAll
<1> DEFINE Good == Completes => steady \subseteq synced \union deferred
<1>1. CoverInv /\ [CycleNext]_cycleVars => [Good]_cycleVars
  BY CompletesCovered DEF Covered
<1> QED BY <1>1, CoverInvariant, PTL DEF CycleSpec, CycleCoversAll

\* A cycle reported without an error brought every such channel up to date.
THEOREM CycleIsHonest == CycleSpec => SuccessIsHonest
<1> DEFINE Good == Completes /\ ~cycleFailure => steady \subseteq synced
<1>1. CoverInv /\ [CycleNext]_cycleVars => [Good]_cycleVars
  BY CompletesCovered DEF Covered, CoverInv
<1> QED BY <1>1, CoverInvariant, PTL DEF CycleSpec, SuccessIsHonest

\* The whole promise of runPage's cycles: no channel skipped, no failure hidden.
THEOREM CycleKeepsPromise == CycleSpec => CycleKept
  BY CycleTypeCorrect, CycleCovers, CycleIsHonest, PTL DEF CycleKept

(***************************************************************************)
(* Moves between enterprises (EnterpriseSwitch).  While an operation is    *)
(* under way nobody enters; once the enterprise the user leaves has closed *)
(* its identity and its sessions, and holds nobody who came in before      *)
(* (Closed), it stays so until the operation takes effect.                 *)
(***************************************************************************)
OperationField == {"phase", "kind", "source", "target", "revision"}
IdentityField == {"known", "active", "revision", "epoch", "version", "synced", "phone"}

UserTypes ==
    /\ DOMAIN user = {"tenant", "revision", "pending", "banned", "phone"}
    /\ user.tenant \in Tenant /\ user.revision \in Nat /\ user.pending \in Operation \union {NoOp}

OperationTypes ==
    /\ DOMAIN operation = Operation
    /\ \A o \in Operation :
          /\ operation[o].phase \in {"none", "prepare", "offline", "commit", "done"}
          /\ operation[o].phase # "none" =>
                DOMAIN operation[o] = OperationField /\ operation[o].source \in Tenant /\ operation[o].target \in Tenant

RunnerTypes ==
    /\ DOMAIN runner = Runner
    /\ \A r \in Runner :
          /\ runner[r].op \in Operation \union {NoOp}
          /\ runner[r].op # NoOp => DOMAIN runner[r] = {"op", "step", "told"}
          /\ runner[r].op # NoOp => \A q \in Runner : runner[q].op # NoOp => q = r

IdentityTypes ==
    /\ DOMAIN identity = Tenant
    /\ \A t \in Tenant :
          /\ DOMAIN identity[t] = IdentityField
          /\ identity[t].revision \in Nat /\ identity[t].epoch \in Nat /\ identity[t].version \in Nat

GrantTypes ==
    /\ DOMAIN grant = Grant
    /\ \A h \in Grant : grant[h].state # "none" =>
          DOMAIN grant[h] = {"state", "tenant", "revision"} /\ grant[h].tenant \in Tenant /\ grant[h].revision \in Nat

PlaceTypes ==
    /\ DOMAIN membership = Tenant /\ \A t \in Tenant : membership[t] = NoOp \/ membership[t] \in Nat
    /\ DOMAIN holder = Tenant
    /\ \A t \in Tenant : DOMAIN holder[t] = {"kind", "who", "step"} /\ holder[t].kind \in {"none", "offline", "enter"}
    /\ DOMAIN completed = Tenant /\ \A t \in Tenant : completed[t] \subseteq Operation
    /\ DOMAIN session = Tenant
    /\ DOMAIN device = Tenant /\ DOMAIN marker = Tenant /\ DOMAIN issuing = Tenant
    /\ \A t \in Tenant : device[t] \in Nat /\ device[t] <= identity[t].epoch
    /\ \A t \in Tenant : issuing[t] \in Nat /\ issuing[t] <= identity[t].epoch
    /\ \A m \in snapshot : m.tenant \in Tenant /\ m.version \in Nat

\* Past the ticket's check: the request holds the lock and lets the user in.
Inside(t) == holder[t].kind = "enter" /\ holder[t].step # "consume"
Closed(t) == ~identity[t].active /\ session[t] = {} /\ ~Inside(t)

\* The one operation under way is about the present assignment.
UnderWay ==
    /\ \A o \in Operation : user.pending = o <=> operation[o].phase \notin {"none", "done"}
    /\ \A o \in Operation : user.pending = o =>
          /\ operation[o].source = user.tenant /\ operation[o].revision = user.revision
          /\ operation[o].kind # "switch" => operation[o].target = user.tenant
          /\ operation[o].phase # "prepare" => membership[operation[o].target] # NoOp
    /\ membership[user.tenant] # NoOp

\* An enterprise keeps a receipt only of an operation that had to leave it.
Receipts == \A t \in Tenant : \A o \in completed[t] : operation[o].phase \notin {"none", "prepare"}

Runs == \A r \in Runner : runner[r].op # NoOp =>
    /\ runner[r].op = user.pending
    /\ operation[runner[r].op].phase = "prepare" => runner[r].step \in {"prepare", "prepared"}
    /\ operation[runner[r].op].phase = "offline" => runner[r].step \in {"offline", "asked", "offlined"}
    /\ operation[runner[r].op].phase = "commit" => runner[r].step = "commit"
    /\ runner[r].step # "commit" => runner[r].told = {}
    /\ runner[r].step = "prepared" => identity[operation[runner[r].op].target].known

\* The enterprise the user leaves is closed before the operation may commit.
Left(o) ==
    \/ operation[o].phase = "commit" \/ o \in completed[operation[o].source]
    \/ \E r \in Runner : runner[r].op = o /\ runner[r].step = "offlined"
SourceClosed == \A o \in Operation : user.pending = o /\ Left(o) => Closed(operation[o].source)

\* A handler that closes an enterprise serves the operation under way.
Handlers == \A t \in Tenant : holder[t].kind = "offline" =>
    /\ holder[t].who \in Operation /\ user.pending = holder[t].who
    /\ operation[holder[t].who].phase = "offline" /\ operation[holder[t].who].source = t
    /\ holder[t].who \notin completed[t]
    /\ \A r \in Runner : runner[r].op # NoOp => runner[r].step # "offlined"
    /\ holder[t].step = "cut" => Closed(t)

\* Who is being let in has a ticket for the present assignment.
Entrants == \A t \in Tenant :
    /\ holder[t].kind = "enter" => holder[t].who \in Grant
    /\ Inside(t) =>
          /\ user.tenant = t /\ grant[holder[t].who].state = "used" /\ grant[holder[t].who].revision = user.revision
          /\ holder[t].step # "prepare" => identity[t].known
          /\ holder[t].step \in {"prepare", "activate", "session"}

\* Whoever is in is in the enterprise the platform assigns.
Present == \A t \in Tenant :
    /\ identity[t].active => user.tenant = t /\ user.revision = identity[t].revision
    /\ session[t] # {} => user.tenant = t
    /\ \A s \in session[t] : s.revision = user.revision
    /\ ~identity[t].known => ~identity[t].active /\ session[t] = {}

\* A number is the platform's, or the one that is being told to everybody.
Told(o) == operation[o].phase = "commit" /\ operation[o].kind = "phone"
Numbers == \A t \in Tenant : identity[t].known =>
    /\ membership[t] = NoOp => \E o \in Operation : /\ user.pending = o /\ operation[o].target = t
                                                    /\ operation[o].phase = "prepare"
    /\ identity[t].phone = user.phone \/ \E o \in Operation : user.pending = o /\ Told(o)
    /\ \A r \in Runner : runner[r].op # NoOp /\ t \in runner[r].told => identity[t].phone = runner[r].op

Done == {o \in Operation : operation[o].phase = "done"}
Effects == IsFiniteSet(Done) /\ user.revision = 1 + Cardinality(Done)

SwitchInv ==
    /\ UserTypes /\ OperationTypes /\ RunnerTypes /\ IdentityTypes /\ GrantTypes /\ PlaceTypes
    /\ UnderWay /\ Receipts /\ Runs /\ SourceClosed /\ Handlers /\ Entrants /\ Present /\ Numbers /\ Effects

---------------------------------------------------------------------------
\* The places of the platform's runs after a step of one of them.
LEMMA Moved ==
  ASSUME RunnerTypes, NEW r \in Runner, runner[r].op # NoOp, NEW step, MoveTo(r, step)
  PROVE  /\ RunnerTypes'
         /\ \A q \in Runner : q # r => runner'[q] = runner[q] /\ runner[q].op = NoOp
         /\ runner'[r].op = runner[r].op /\ runner'[r].step = step /\ runner'[r].told = runner[r].told
  <1>1. DOMAIN runner = Runner /\ DOMAIN runner[r] = {"op", "step", "told"}
    BY DEF RunnerTypes
  <1>2. DOMAIN runner' = Runner /\ \A q \in Runner : q # r => runner'[q] = runner[q]
    BY <1>1 DEF MoveTo
  <1>3. DOMAIN runner'[r] = {"op", "step", "told"}
    BY <1>1 DEF MoveTo
  <1>4. runner'[r].op = runner[r].op /\ runner'[r].step = step /\ runner'[r].told = runner[r].told
    BY <1>1 DEF MoveTo
  <1> QED
    BY <1>2, <1>3, <1>4 DEF RunnerTypes

LEMMA Stopped ==
  ASSUME RunnerTypes, NEW r \in Runner, runner[r].op # NoOp, Stop(r)
  PROVE  RunnerTypes' /\ \A q \in Runner : runner'[q].op = NoOp
  <1>1. DOMAIN runner = Runner
    BY DEF RunnerTypes
  <1>2. DOMAIN runner' = Runner /\ runner'[r].op = NoOp /\ \A q \in Runner : q # r => runner'[q] = runner[q]
    BY <1>1 DEF Stop
  <1>3. \A q \in Runner : q # r => runner[q].op = NoOp
    BY DEF RunnerTypes
  <1> QED
    BY <1>2, <1>3 DEF RunnerTypes

LEMMA OneHolder ==
  ASSUME PlaceTypes, NEW t \in Tenant, NEW k \in {"none", "offline", "enter"}, NEW w, NEW s,
         holder' = [holder EXCEPT ![t] = [kind |-> k, who |-> w, step |-> s]]
  PROVE  /\ DOMAIN holder' = Tenant
         /\ \A u \in Tenant : DOMAIN holder'[u] = {"kind", "who", "step"}
                              /\ holder'[u].kind \in {"none", "offline", "enter"}
         /\ \A u \in Tenant : u # t => holder'[u] = holder[u]
         /\ holder'[t].kind = k /\ holder'[t].who = w /\ holder'[t].step = s
  BY DEF PlaceTypes

LEMMA Released ==
  ASSUME PlaceTypes, NEW t \in Tenant, Release(t)
  PROVE  /\ DOMAIN holder' = Tenant
         /\ \A u \in Tenant : DOMAIN holder'[u] = {"kind", "who", "step"}
                              /\ holder'[u].kind \in {"none", "offline", "enter"}
         /\ \A u \in Tenant : u # t => holder'[u] = holder[u]
         /\ holder'[t].kind = "none"
  BY DEF PlaceTypes, Release, Unheld

LEMMA StepTaken ==
  ASSUME PlaceTypes, NEW t \in Tenant, NEW s, holder' = [holder EXCEPT ![t].step = s]
  PROVE  /\ DOMAIN holder' = Tenant
         /\ \A u \in Tenant : DOMAIN holder'[u] = {"kind", "who", "step"}
                              /\ holder'[u].kind \in {"none", "offline", "enter"}
         /\ \A u \in Tenant : u # t => holder'[u] = holder[u]
         /\ holder'[t].kind = holder[t].kind /\ holder'[t].who = holder[t].who /\ holder'[t].step = s
  BY DEF PlaceTypes

LEMMA RunFailsKeeps ==
  ASSUME SwitchInv, NEW r \in Runner, RunFails(r)
  PROVE  SwitchInv'
  <1>1. /\ runner[r].op # NoOp /\ Stop(r)
        /\ UNCHANGED <<user, operation, membership, grant, identity, holder, completed, session, imVars, snapshot>>
    BY DEF RunFails
  <1>2. RunnerTypes' /\ \A q \in Runner : runner'[q].op = NoOp
    BY <1>1, Stopped DEF SwitchInv
  <1>3. UserTypes' /\ OperationTypes' /\ IdentityTypes' /\ GrantTypes' /\ PlaceTypes' /\ UnderWay' /\ Receipts' /\ Effects'
    BY <1>1 DEF SwitchInv, UserTypes, OperationTypes, IdentityTypes, GrantTypes, PlaceTypes, UnderWay, Receipts, Effects, Done, imVars
  <1>4. Runs'
    BY <1>2 DEF Runs
  <1>5. SourceClosed'
    BY <1>1, <1>2, SwitchAssumption DEF SwitchInv, UserTypes, SourceClosed, Left, Closed, Inside
  <1>6. Handlers'
    BY <1>1, <1>2 DEF SwitchInv, Handlers, Closed, Inside
  <1>7. Entrants' /\ Present'
    BY <1>1 DEF SwitchInv, Entrants, Present, Inside
  <1>8. Numbers'
    BY <1>1, <1>2 DEF SwitchInv, Numbers, Told
  <1> QED
    BY <1>2, <1>3, <1>4, <1>5, <1>6, <1>7, <1>8 DEF SwitchInv

LEMMA TicketsKeep ==
  ASSUME SwitchInv, NEW g \in Grant, SignTicket(g)
  PROVE  SwitchInv'
  <1>1. /\ grant[g].state = "none"
        /\ grant' = [grant EXCEPT ![g] = [state |-> "fresh", tenant |-> user.tenant, revision |-> user.revision]]
        /\ UNCHANGED <<user, operation, membership, runner, identity, holder, completed, session, imVars, snapshot>>
    BY DEF SignTicket
  <1>2. DOMAIN grant' = Grant /\ (\A h \in Grant : h # g => grant'[h] = grant[h])
        /\ grant'[g] = [state |-> "fresh", tenant |-> user.tenant, revision |-> user.revision]
    BY <1>1 DEF SwitchInv, GrantTypes
  <1>3. GrantTypes'
    BY <1>2 DEF SwitchInv, GrantTypes, UserTypes
  <1>4. UserTypes' /\ OperationTypes' /\ IdentityTypes' /\ RunnerTypes' /\ PlaceTypes' /\ UnderWay' /\ Receipts' /\ Effects'
    BY <1>1 DEF SwitchInv, UserTypes, OperationTypes, IdentityTypes, RunnerTypes, PlaceTypes, UnderWay, Receipts, Effects, Done, imVars
  <1>5. Runs' /\ SourceClosed' /\ Handlers' /\ Present' /\ Numbers'
    BY <1>1 DEF SwitchInv, Runs, SourceClosed, Left, Handlers, Closed, Inside, Present, Numbers, Told
  <1>6. Entrants'
    BY <1>1, <1>2 DEF SwitchInv, Entrants, Inside
  <1> QED
    BY <1>3, <1>4, <1>5, <1>6 DEF SwitchInv

LEMMA StartKeeps ==
  ASSUME SwitchInv, NEW o \in Operation, NEW k \in Kind, NEW t \in Tenant, StartOperation(o, k, t)
  PROVE  SwitchInv'
  <1>1. /\ operation[o].phase = "none" /\ user.pending = NoOp /\ Wanted(k, t)
        /\ user' = [user EXCEPT !.pending = o]
        /\ operation' = [operation EXCEPT ![o] = [phase |-> "prepare", kind |-> k, source |-> user.tenant,
                                                  target |-> t, revision |-> user.revision]]
        /\ UNCHANGED <<membership, grant, runner, identity, holder, completed, session, imVars, snapshot>>
    BY DEF StartOperation
  <1>2. /\ UserTypes' /\ user'.pending = o /\ user'.tenant = user.tenant /\ user'.revision = user.revision
        /\ user'.phone = user.phone
    BY <1>1 DEF SwitchInv, UserTypes
  <1>3. /\ DOMAIN operation' = Operation /\ \A p \in Operation : p # o => operation'[p] = operation[p]
        /\ operation'[o] = [phase |-> "prepare", kind |-> k, source |-> user.tenant, target |-> t,
                            revision |-> user.revision]
    BY <1>1 DEF SwitchInv, OperationTypes
  <1>4. OperationTypes'
    BY <1>3 DEF SwitchInv, OperationTypes, OperationField, UserTypes
  <1>5. RunnerTypes' /\ IdentityTypes' /\ GrantTypes' /\ PlaceTypes'
    BY <1>1 DEF SwitchInv, RunnerTypes, IdentityTypes, GrantTypes, PlaceTypes, imVars
  <1>6. \A p \in Operation : operation[p].phase \in {"none", "done"}
    BY <1>1, SwitchAssumption DEF SwitchInv, UnderWay
  <1>7. UnderWay'
    BY <1>1, <1>2, <1>3, <1>6 DEF SwitchInv, UnderWay, Wanted
  <1>8. Receipts'
    BY <1>1, <1>3 DEF SwitchInv, Receipts, PlaceTypes
  <1>9. \A r \in Runner : runner[r].op = NoOp
    BY <1>1 DEF SwitchInv, Runs
  <1>10. \A u \in Tenant : holder[u].kind # "offline"
    BY <1>1, SwitchAssumption DEF SwitchInv, Handlers
  <1>11. Runs' /\ Handlers'
    BY <1>1, <1>9, <1>10 DEF Runs, Handlers
  <1>12. SourceClosed'
    BY <1>1, <1>2, <1>3, <1>9, SwitchAssumption DEF SwitchInv, SourceClosed, Left, Receipts, UserTypes
  <1>13. Entrants' /\ Present'
    BY <1>1, <1>2 DEF SwitchInv, Entrants, Inside, Present
  <1>14. Numbers'
    <2>1. ASSUME NEW u \in Tenant, identity[u].known PROVE membership[u] # NoOp /\ identity[u].phone = user.phone
      BY <1>1, <2>1, SwitchAssumption DEF SwitchInv, Numbers
    <2> QED
      BY <1>1, <1>2, <1>9, <2>1 DEF Numbers
  <1>15. Effects'
    <2>1. Done' = Done
      BY <1>1, <1>3 DEF Done
    <2> QED
      BY <1>2, <2>1 DEF SwitchInv, Effects
  <1> QED
    BY <1>2, <1>4, <1>5, <1>7, <1>8, <1>11, <1>12, <1>13, <1>14, <1>15 DEF SwitchInv

LEMMA RunKeeps ==
  ASSUME SwitchInv, NEW r \in Runner, NEW o \in Operation, RunOperation(r, o)
  PROVE  SwitchInv'
  <1>1. /\ \A q \in Runner : runner[q].op = NoOp
        /\ operation[o].phase \notin {"none", "done"} /\ user.pending = o
        /\ runner' = [runner EXCEPT ![r] = [op |-> o, step |-> operation[o].phase, told |-> {}]]
        /\ UNCHANGED <<user, operation, membership, grant, identity, holder, completed, session, imVars, snapshot>>
    BY DEF RunOperation, NobodyRuns
  <1>2. /\ DOMAIN runner' = Runner /\ \A q \in Runner : q # r => runner'[q] = runner[q]
        /\ runner'[r] = [op |-> o, step |-> operation[o].phase, told |-> {}]
    BY <1>1 DEF SwitchInv, RunnerTypes
  <1>3. RunnerTypes'
    BY <1>1, <1>2 DEF SwitchInv, RunnerTypes
  <1>4. operation[o].phase \in {"prepare", "offline", "commit"}
    BY <1>1 DEF SwitchInv, OperationTypes
  <1>5. UserTypes' /\ OperationTypes' /\ IdentityTypes' /\ GrantTypes' /\ PlaceTypes' /\ UnderWay' /\ Receipts' /\ Effects'
    BY <1>1 DEF SwitchInv, UserTypes, OperationTypes, IdentityTypes, GrantTypes, PlaceTypes, UnderWay, Receipts, Effects, Done, imVars
  <1>6. Runs'
    BY <1>1, <1>2, <1>4 DEF Runs
  <1>7. SourceClosed'
    BY <1>1, <1>2, <1>4, SwitchAssumption DEF SwitchInv, SourceClosed, Left, Closed, Inside
  <1>8. Handlers'
    BY <1>1, <1>2, <1>4 DEF SwitchInv, Handlers, Closed, Inside
  <1>9. Entrants' /\ Present'
    BY <1>1 DEF SwitchInv, Entrants, Present, Inside
  <1>10. Numbers'
    BY <1>1, <1>2 DEF SwitchInv, Numbers, Told
  <1> QED
    BY <1>3, <1>5, <1>6, <1>7, <1>8, <1>9, <1>10 DEF SwitchInv

\* The run that takes a step serves the operation under way.
LEMMA TheRun ==
  ASSUME SwitchInv, NEW r \in Runner, runner[r].op # NoOp
  PROVE  /\ runner[r].op \in Operation /\ user.pending = runner[r].op
         /\ operation[runner[r].op].phase \in {"prepare", "offline", "commit"}
         /\ runner[r].step \in {"prepare", "prepared"} => operation[runner[r].op].phase = "prepare"
         /\ runner[r].step \in {"offline", "asked", "offlined"} => operation[runner[r].op].phase = "offline"
         /\ runner[r].step = "commit" => operation[runner[r].op].phase = "commit"
         /\ operation[runner[r].op].source = user.tenant /\ user.tenant \in Tenant
         /\ operation[runner[r].op].target \in Tenant
         /\ DOMAIN operation[runner[r].op] = OperationField
  <1> DEFINE o == runner[r].op
  <1>1. o \in Operation /\ user.pending = o
    BY DEF SwitchInv, RunnerTypes, Runs
  <1>2. operation[o].phase \in {"prepare", "offline", "commit"}
    BY <1>1 DEF SwitchInv, OperationTypes, UnderWay
  <1>3. /\ operation[o].phase = "prepare" => runner[r].step \in {"prepare", "prepared"}
        /\ operation[o].phase = "offline" => runner[r].step \in {"offline", "asked", "offlined"}
        /\ operation[o].phase = "commit" => runner[r].step = "commit"
    BY DEF SwitchInv, Runs
  <1>4. operation[o].source = user.tenant /\ user.tenant \in Tenant
    BY <1>1 DEF SwitchInv, UnderWay, UserTypes
  <1>5. operation[o].target \in Tenant /\ DOMAIN operation[o] = OperationField
    BY <1>1, <1>2 DEF SwitchInv, OperationTypes
  <1> HIDE DEF o
  <1> QED
    BY <1>1, <1>2, <1>3, <1>4, <1>5 DEF o

LEMMA MadeKnown ==
  ASSUME IdentityTypes, NEW t \in Tenant, NEW phone, identity' = [identity EXCEPT ![t] = Known(t, phone)]
  PROVE  /\ IdentityTypes' /\ \A u \in Tenant : u # t => identity'[u] = identity[u]
         /\ identity'[t].known = TRUE /\ identity'[t].active = identity[t].active
         /\ identity'[t].revision = identity[t].revision /\ identity'[t].epoch = identity[t].epoch
         /\ identity[t].known => identity'[t].phone = identity[t].phone
         /\ ~identity[t].known => identity'[t].phone = phone
  <1>1. /\ DOMAIN identity' = Tenant /\ \A u \in Tenant : u # t => identity'[u] = identity[u]
        /\ identity'[t] = Known(t, phone)
    BY DEF IdentityTypes
  <1>2. CASE identity[t].known
    BY <1>1, <1>2 DEF IdentityTypes, Known
  <1>3. CASE ~identity[t].known
    <2>1. identity'[t] = [identity[t] EXCEPT !.known = TRUE, !.phone = phone]
      BY <1>1, <1>3 DEF Known
    <2> QED
      BY <1>1, <1>3, <2>1 DEF IdentityTypes, IdentityField
  <1> QED
    BY <1>2, <1>3

LEMMA PhaseSet ==
  ASSUME OperationTypes, NEW o \in Operation, operation[o].phase # "none", NEW x \in {"offline", "commit", "done"},
         operation' = [operation EXCEPT ![o].phase = x]
  PROVE  /\ OperationTypes' /\ \A p \in Operation : p # o => operation'[p] = operation[p]
         /\ operation'[o].phase = x /\ operation'[o].kind = operation[o].kind
         /\ operation'[o].source = operation[o].source /\ operation'[o].target = operation[o].target
         /\ operation'[o].revision = operation[o].revision
  <1>1. DOMAIN operation[o] = OperationField /\ operation[o].source \in Tenant /\ operation[o].target \in Tenant
    BY DEF OperationTypes
  <1>2. /\ DOMAIN operation' = Operation /\ \A p \in Operation : p # o => operation'[p] = operation[p]
        /\ operation'[o] = [operation[o] EXCEPT !.phase = x]
    BY DEF OperationTypes
  <1>3. /\ DOMAIN operation'[o] = OperationField
        /\ operation'[o].phase = x /\ operation'[o].kind = operation[o].kind
        /\ operation'[o].source = operation[o].source /\ operation'[o].target = operation[o].target
        /\ operation'[o].revision = operation[o].revision
    BY <1>1, <1>2 DEF OperationField
  <1>4. OperationTypes'
    BY <1>1, <1>2, <1>3 DEF OperationTypes
  <1> QED
    BY <1>2, <1>3, <1>4

LEMMA PrepareKeeps ==
  ASSUME SwitchInv, NEW r \in Runner, PrepareTarget(r)
  PROVE  SwitchInv'
  <1> DEFINE o == runner[r].op
             t == operation[o].target
  <1>1. /\ runner[r].op # NoOp /\ runner[r].step = "prepare"
        /\ identity' = [identity EXCEPT ![t] = Known(t, user.phone)]
        /\ MoveTo(r, "prepared")
        /\ UNCHANGED <<user, operation, membership, grant, holder, completed, session, imVars, snapshot>>
    BY DEF PrepareTarget, At, Of
  <1>2. o \in Operation /\ user.pending = o /\ operation[o].phase = "prepare" /\ t \in Tenant
    BY <1>1, TheRun
  <1>3. /\ RunnerTypes' /\ \A q \in Runner : q # r => runner'[q] = runner[q] /\ runner[q].op = NoOp
        /\ runner'[r].op = o /\ runner'[r].step = "prepared" /\ runner'[r].told = runner[r].told
    BY <1>1, Moved DEF SwitchInv
  <1>4. /\ IdentityTypes' /\ \A u \in Tenant : u # t => identity'[u] = identity[u]
        /\ identity'[t].known = TRUE /\ identity'[t].active = identity[t].active
        /\ identity'[t].revision = identity[t].revision /\ identity'[t].epoch = identity[t].epoch
        /\ identity[t].known => identity'[t].phone = identity[t].phone
        /\ ~identity[t].known => identity'[t].phone = user.phone
    BY <1>1, <1>2, MadeKnown DEF SwitchInv
  <1>5. runner[r].told = {}
    BY <1>1 DEF SwitchInv, Runs
  <1> HIDE DEF o, t
  <1>6. operation[o].target = t /\ o # NoOp
    BY <1>1 DEF o, t
  <1>7. UserTypes' /\ OperationTypes' /\ GrantTypes' /\ UnderWay' /\ Receipts' /\ Effects'
    BY <1>1 DEF SwitchInv, UserTypes, OperationTypes, GrantTypes, UnderWay, Receipts, Effects, Done
  <1>8. PlaceTypes'
    BY <1>1, <1>4 DEF SwitchInv, PlaceTypes, imVars
  <1>9. Runs'
    BY <1>1, <1>2, <1>3, <1>4, <1>5, <1>6 DEF Runs
  <1>10. \A u \in Tenant : Closed(u) => Closed(u)'
    BY <1>1, <1>4 DEF Closed, Inside
  <1>11. SourceClosed'
    <2>1. ASSUME NEW p \in Operation, user.pending = p, Left(p)' PROVE Left(p)
      BY <1>1, <1>3, <2>1 DEF Left
    <2>2. \A p \in Operation : user.pending = p => operation[p].source \in Tenant
      BY DEF SwitchInv, UnderWay, UserTypes
    <2> QED
      BY <1>1, <1>10, <2>1, <2>2 DEF SwitchInv, SourceClosed
  <1>12. Handlers'
    <2>1. \A u \in Tenant : holder[u].kind # "offline"
      BY <1>2 DEF SwitchInv, Handlers
    <2> QED
      BY <1>1, <2>1 DEF Handlers
  <1>13. Entrants'
    BY <1>1, <1>4 DEF SwitchInv, Entrants, Inside
  <1>14. Present'
    BY <1>1, <1>4 DEF SwitchInv, Present
  <1>15. Numbers'
    <2>1. ASSUME NEW u \in Tenant, identity'[u].known, u # t
          PROVE  /\ membership'[u] = NoOp => \E p \in Operation : user'.pending = p /\ operation'[p].target = u /\ operation'[p].phase = "prepare"
                 /\ identity'[u].phone = user'.phone \/ \E p \in Operation : user'.pending = p /\ Told(p)'
                 /\ \A q \in Runner : runner'[q].op # NoOp /\ u \in runner'[q].told => identity'[u].phone = runner'[q].op
      BY <1>1, <1>3, <1>4, <1>5, <2>1 DEF SwitchInv, Numbers, Told
    <2>2. /\ membership'[t] = NoOp => \E p \in Operation : user'.pending = p /\ operation'[p].target = t /\ operation'[p].phase = "prepare"
          /\ identity'[t].phone = user'.phone \/ \E p \in Operation : user'.pending = p /\ Told(p)'
          /\ \A q \in Runner : runner'[q].op # NoOp /\ t \in runner'[q].told => identity'[t].phone = runner'[q].op
      BY <1>1, <1>2, <1>3, <1>4, <1>5, <1>6 DEF SwitchInv, Numbers, Told
    <2> QED
      BY <2>1, <2>2 DEF Numbers
  <1> QED
    BY <1>3, <1>4, <1>7, <1>8, <1>9, <1>11, <1>12, <1>13, <1>14, <1>15 DEF SwitchInv

LEMMA FinishKeeps ==
  ASSUME SwitchInv, NEW r \in Runner, FinishPrepare(r)
  PROVE  SwitchInv'
  <1> DEFINE o == runner[r].op
             t == operation[o].target
  <1>1. /\ runner[r].op # NoOp /\ runner[r].step \in {"prepare", "prepared"}
        /\ membership' = IF membership[t] = NoOp THEN [membership EXCEPT ![t] = identity[t].version] ELSE membership
        /\ operation' = [operation EXCEPT ![o].phase = "offline"]
        /\ MoveTo(r, "offline")
        /\ UNCHANGED <<user, grant, identity, holder, completed, session, imVars, snapshot>>
    BY DEF FinishPrepare, At, Of
  <1>2. o \in Operation /\ user.pending = o /\ operation[o].phase = "prepare" /\ t \in Tenant
    BY <1>1, TheRun
  <1>3. /\ RunnerTypes' /\ \A q \in Runner : q # r => runner'[q] = runner[q] /\ runner[q].op = NoOp
        /\ runner'[r].op = o /\ runner'[r].step = "offline" /\ runner'[r].told = runner[r].told
    BY <1>1, Moved DEF SwitchInv
  <1>4. /\ OperationTypes' /\ \A p \in Operation : p # o => operation'[p] = operation[p]
        /\ operation'[o].phase = "offline" /\ operation'[o].kind = operation[o].kind
        /\ operation'[o].source = operation[o].source /\ operation'[o].target = operation[o].target
        /\ operation'[o].revision = operation[o].revision
    BY <1>1, <1>2, PhaseSet DEF SwitchInv
  <1>5. runner[r].told = {}
    BY <1>1 DEF SwitchInv, Runs
  <1> HIDE DEF o, t
  <1>6. operation[o].target = t /\ o # NoOp
    BY <1>1 DEF o, t
  <1>7. /\ DOMAIN membership' = Tenant /\ (membership'[t] \in Nat \/ membership'[t] = membership[t])
        /\ membership'[t] # NoOp /\ \A u \in Tenant : u # t => membership'[u] = membership[u]
    BY <1>1, <1>2, SwitchAssumption DEF SwitchInv, PlaceTypes, IdentityTypes
  <1>8. UserTypes' /\ IdentityTypes' /\ GrantTypes'
    BY <1>1 DEF SwitchInv, UserTypes, IdentityTypes, GrantTypes
  <1>9. PlaceTypes'
    BY <1>1, <1>7 DEF SwitchInv, PlaceTypes, imVars
  <1>10. UnderWay'
    <2>1. membership'[user.tenant] # NoOp
      BY <1>7 DEF SwitchInv, UnderWay, UserTypes
    <2> QED
      BY <1>1, <1>2, <1>4, <1>6, <1>7, <2>1 DEF SwitchInv, UnderWay
  <1>11. Receipts'
    BY <1>1, <1>4 DEF SwitchInv, Receipts, PlaceTypes
  <1>12. Runs'
    BY <1>1, <1>2, <1>3, <1>4, <1>5 DEF Runs
  <1>13. SourceClosed'
    <2>1. \A p \in Operation : user.pending = p => p = o
      BY <1>2
    <2>2. o \notin completed[operation[o].source] /\ operation[o].source \in Tenant
      BY <1>2 DEF SwitchInv, Receipts, UnderWay, UserTypes
    <2>3. \A q \in Runner : runner'[q].op # o \/ runner'[q].step # "offlined"
      BY <1>3, <1>6
    <2>4. ASSUME NEW p \in Operation, p = o PROVE ~Left(p)'
      BY <1>1, <1>4, <2>2, <2>3, <2>4 DEF Left
    <2> QED
      BY <1>1, <2>1, <2>4 DEF SourceClosed
  <1>14. Handlers'
    <2>1. \A u \in Tenant : holder[u].kind # "offline"
      BY <1>2 DEF SwitchInv, Handlers
    <2> QED
      BY <1>1, <2>1 DEF Handlers
  <1>15. Entrants' /\ Present'
    BY <1>1 DEF SwitchInv, Entrants, Inside, Present
  <1>16. Numbers'
    <2>1. ASSUME NEW u \in Tenant, identity[u].known PROVE membership'[u] # NoOp /\ identity[u].phone = user.phone
      BY <1>2, <1>6, <1>7, <2>1 DEF SwitchInv, Numbers, Told
    <2> QED
      BY <1>1, <1>3, <1>5, <2>1 DEF Numbers
  <1>17. Effects'
    <2>1. Done' = Done
      BY <1>2, <1>4 DEF Done
    <2> QED
      BY <1>1, <2>1 DEF SwitchInv, Effects
  <1> QED
    BY <1>3, <1>4, <1>8, <1>9, <1>10, <1>11, <1>12, <1>13, <1>14, <1>15, <1>16, <1>17 DEF SwitchInv

LEMMA AskKeeps ==
  ASSUME SwitchInv, NEW r \in Runner, AskOffline(r)
  PROVE  SwitchInv'
  <1> DEFINE o == runner[r].op
             t == operation[o].source
  <1>1. /\ runner[r].op # NoOp /\ runner[r].step = "offline" /\ holder[t] = Unheld
        /\ IF o \in completed[t] \/ ~identity[t].known
           THEN MoveTo(r, "offlined") /\ UNCHANGED holder
           ELSE /\ holder' = [holder EXCEPT ![t] = [kind |-> "offline", who |-> o, step |-> "close"]]
                /\ MoveTo(r, "asked")
        /\ UNCHANGED <<user, operation, membership, grant, identity, completed, session, imVars, snapshot>>
    BY DEF AskOffline, At, Of, OfflineLock, Unlocked
  <1>2. o \in Operation /\ user.pending = o /\ operation[o].phase = "offline" /\ t = user.tenant /\ t \in Tenant
    BY <1>1, TheRun
  <1>3. runner[r].told = {}
    BY <1>1 DEF SwitchInv, Runs
  <1> HIDE DEF o, t
  <1>4. operation[o].source = t /\ o # NoOp /\ runner[r].op = o
    BY <1>1 DEF o, t
  <1>5. UserTypes' /\ OperationTypes' /\ IdentityTypes' /\ GrantTypes' /\ UnderWay' /\ Receipts' /\ Effects'
    BY <1>1 DEF SwitchInv, UserTypes, OperationTypes, IdentityTypes, GrantTypes, UnderWay, Receipts, Effects, Done
  <1>6. \A u \in Tenant : holder[u].kind = "offline" => u = t
    BY <1>2, <1>4 DEF SwitchInv, Handlers
  <1>7. \A u \in Tenant : holder[u].kind # "offline"
    BY <1>1, <1>6 DEF Unheld
  <1>8. Present'
    BY <1>1 DEF SwitchInv, Present
  <1>9. CASE MoveTo(r, "offlined") /\ UNCHANGED holder /\ (o \in completed[t] \/ ~identity[t].known)
    <2>1. /\ RunnerTypes' /\ \A q \in Runner : q # r => runner'[q] = runner[q] /\ runner[q].op = NoOp
          /\ runner'[r].op = o /\ runner'[r].step = "offlined" /\ runner'[r].told = runner[r].told
      BY <1>4, <1>9, Moved DEF SwitchInv
    <2>2. PlaceTypes' /\ Entrants'
      BY <1>1, <1>9 DEF SwitchInv, PlaceTypes, Entrants, Inside, imVars
    <2>3. Runs'
      BY <1>1, <1>2, <1>3, <2>1 DEF Runs
    <2>4. Closed(t)
      <3>1. CASE o \in completed[t]
        BY <1>2, <1>4, <3>1 DEF SwitchInv, SourceClosed, Left
      <3>2. CASE ~identity[t].known
        BY <1>1, <1>2, <3>2 DEF SwitchInv, Present, Closed, Inside, Unheld
      <3> QED
        BY <1>9, <3>1, <3>2
    <2>5. SourceClosed'
      BY <1>1, <1>2, <1>4, <1>9, <2>4 DEF SourceClosed, Closed, Inside
    <2>6. Handlers'
      BY <1>7, <1>9 DEF Handlers
    <2>7. Numbers'
      BY <1>1, <1>3, <2>1 DEF SwitchInv, Numbers, Told
    <2> QED
      BY <1>5, <1>8, <2>1, <2>2, <2>3, <2>5, <2>6, <2>7 DEF SwitchInv
  <1>10. CASE /\ holder' = [holder EXCEPT ![t] = [kind |-> "offline", who |-> o, step |-> "close"]]
              /\ MoveTo(r, "asked") /\ o \notin completed[t]
    <2>1. /\ RunnerTypes' /\ \A q \in Runner : q # r => runner'[q] = runner[q] /\ runner[q].op = NoOp
          /\ runner'[r].op = o /\ runner'[r].step = "asked" /\ runner'[r].told = runner[r].told
      BY <1>4, <1>10, Moved DEF SwitchInv
    <2>2. /\ DOMAIN holder' = Tenant
          /\ \A u \in Tenant : DOMAIN holder'[u] = {"kind", "who", "step"}
                               /\ holder'[u].kind \in {"none", "offline", "enter"}
          /\ \A u \in Tenant : u # t => holder'[u] = holder[u]
          /\ holder'[t].kind = "offline" /\ holder'[t].who = o /\ holder'[t].step = "close"
      BY <1>2, <1>10, OneHolder DEF SwitchInv
    <2>3. PlaceTypes'
      BY <1>1, <2>2 DEF SwitchInv, PlaceTypes, imVars
    <2>4. Entrants'
      BY <1>1, <2>2 DEF SwitchInv, Entrants, Inside
    <2>5. Runs'
      BY <1>1, <1>2, <1>3, <2>1 DEF Runs
    <2>6. SourceClosed'
      <3>1. \A p \in Operation : user.pending = p => p = o
        BY <1>2
      <3>2. ASSUME NEW p \in Operation, p = o PROVE ~Left(p)'
        BY <1>1, <1>2, <1>4, <1>10, <2>1, <3>2 DEF Left
      <3> QED
        BY <1>1, <3>1, <3>2 DEF SourceClosed
    <2>7. Handlers'
      BY <1>1, <1>2, <1>4, <1>7, <1>10, <2>1, <2>2 DEF Handlers
    <2>8. Numbers'
      BY <1>1, <1>3, <2>1 DEF SwitchInv, Numbers, Told
    <2> QED
      BY <1>5, <1>8, <2>1, <2>3, <2>4, <2>5, <2>6, <2>7, <2>8 DEF SwitchInv
  <1> QED
    BY <1>1, <1>9, <1>10 DEF o, t

LEMMA AnswersKeep ==
  ASSUME SwitchInv, NEW r \in Runner, OfflineAnswers(r)
  PROVE  SwitchInv'
  <1> DEFINE o == runner[r].op
             t == operation[o].source
  <1>1. /\ runner[r].op # NoOp /\ runner[r].step = "asked" /\ o \in completed[t] /\ MoveTo(r, "offlined")
        /\ UNCHANGED <<user, operation, membership, grant, identity, holder, completed, session, imVars, snapshot>>
    BY DEF OfflineAnswers, At, Of
  <1>2. o \in Operation /\ user.pending = o /\ operation[o].phase = "offline" /\ t = user.tenant /\ t \in Tenant
    BY <1>1, TheRun
  <1>3. runner[r].told = {}
    BY <1>1 DEF SwitchInv, Runs
  <1>4. /\ RunnerTypes' /\ \A q \in Runner : q # r => runner'[q] = runner[q] /\ runner[q].op = NoOp
        /\ runner'[r].op = o /\ runner'[r].step = "offlined" /\ runner'[r].told = runner[r].told
    BY <1>1, Moved DEF SwitchInv
  <1> HIDE DEF o, t
  <1>5. operation[o].source = t /\ o # NoOp /\ runner[r].op = o
    BY <1>1 DEF o, t
  <1>6. UserTypes' /\ OperationTypes' /\ IdentityTypes' /\ GrantTypes' /\ PlaceTypes' /\ UnderWay' /\ Receipts' /\ Effects'
    BY <1>1 DEF SwitchInv, UserTypes, OperationTypes, IdentityTypes, GrantTypes, PlaceTypes, UnderWay, Receipts, Effects, Done, imVars
  <1>7. Runs'
    BY <1>1, <1>2, <1>3, <1>4 DEF Runs
  <1>8. SourceClosed'
    <2>1. Closed(t)
      BY <1>1, <1>2, <1>5 DEF SwitchInv, SourceClosed, Left
    <2> QED
      BY <1>1, <1>2, <1>5, <2>1 DEF SourceClosed, Closed, Inside
  <1>9. Handlers'
    <2>1. ASSUME NEW u \in Tenant, holder[u].kind = "offline" PROVE FALSE
      BY <1>1, <1>2, <1>5, <2>1 DEF SwitchInv, Handlers
    <2> QED
      BY <1>1, <2>1 DEF Handlers
  <1>10. Entrants' /\ Present'
    BY <1>1 DEF SwitchInv, Entrants, Present, Inside
  <1>11. Numbers'
    BY <1>1, <1>3, <1>4 DEF SwitchInv, Numbers, Told
  <1> QED
    BY <1>4, <1>6, <1>7, <1>8, <1>9, <1>10, <1>11 DEF SwitchInv

LEMMA FinishOfflineKeeps ==
  ASSUME SwitchInv, NEW r \in Runner, FinishOffline(r)
  PROVE  SwitchInv'
  <1> DEFINE o == runner[r].op
             t == operation[o].source
  <1>1. /\ runner[r].op # NoOp /\ runner[r].step = "offlined"
        /\ operation' = [operation EXCEPT ![o].phase = "commit"] /\ MoveTo(r, "commit")
        /\ UNCHANGED <<user, membership, grant, identity, holder, completed, session, imVars, snapshot>>
    BY DEF FinishOffline, At, PhaseAfterOffline
  <1>2. o \in Operation /\ user.pending = o /\ operation[o].phase = "offline" /\ t = user.tenant /\ t \in Tenant
    BY <1>1, TheRun
  <1>3. runner[r].told = {}
    BY <1>1 DEF SwitchInv, Runs
  <1>4. /\ RunnerTypes' /\ \A q \in Runner : q # r => runner'[q] = runner[q] /\ runner[q].op = NoOp
        /\ runner'[r].op = o /\ runner'[r].step = "commit" /\ runner'[r].told = runner[r].told
    BY <1>1, Moved DEF SwitchInv
  <1>5. /\ OperationTypes' /\ \A p \in Operation : p # o => operation'[p] = operation[p]
        /\ operation'[o].phase = "commit" /\ operation'[o].kind = operation[o].kind
        /\ operation'[o].source = operation[o].source /\ operation'[o].target = operation[o].target
        /\ operation'[o].revision = operation[o].revision
    BY <1>1, <1>2, PhaseSet DEF SwitchInv
  <1> HIDE DEF o, t
  <1>6. operation[o].source = t /\ o # NoOp /\ runner[r].op = o
    BY <1>1 DEF o, t
  <1>7. UserTypes' /\ IdentityTypes' /\ GrantTypes' /\ PlaceTypes'
    BY <1>1 DEF SwitchInv, UserTypes, IdentityTypes, GrantTypes, PlaceTypes, imVars
  <1>8. UnderWay'
    BY <1>1, <1>2, <1>5 DEF SwitchInv, UnderWay
  <1>9. Receipts'
    BY <1>1, <1>5 DEF SwitchInv, Receipts, PlaceTypes
  <1>10. Runs'
    BY <1>1, <1>2, <1>3, <1>4, <1>5 DEF Runs
  <1>11. SourceClosed'
    <2>1. Closed(t)
      BY <1>1, <1>2, <1>6 DEF SwitchInv, SourceClosed, Left
    <2> QED
      BY <1>1, <1>2, <1>5, <1>6, <2>1 DEF SourceClosed, Closed, Inside
  <1>12. Handlers'
    <2>1. ASSUME NEW u \in Tenant, holder[u].kind = "offline" PROVE FALSE
      BY <1>1, <1>6, <2>1 DEF SwitchInv, Handlers
    <2> QED
      BY <1>1, <2>1 DEF Handlers
  <1>13. Entrants' /\ Present'
    BY <1>1 DEF SwitchInv, Entrants, Present, Inside
  <1>14. Numbers'
    <2>1. ASSUME NEW u \in Tenant, identity[u].known PROVE membership[u] # NoOp /\ identity[u].phone = user.phone
      BY <1>2, <2>1 DEF SwitchInv, Numbers, Told
    <2> QED
      BY <1>1, <1>3, <1>4, <2>1 DEF Numbers
  <1>15. Effects'
    <2>1. Done' = Done
      BY <1>2, <1>5 DEF Done
    <2> QED
      BY <1>1, <2>1 DEF SwitchInv, Effects
  <1> QED
    BY <1>4, <1>5, <1>7, <1>8, <1>9, <1>10, <1>11, <1>12, <1>13, <1>14, <1>15 DEF SwitchInv

LEMMA CommitKeeps ==
  ASSUME SwitchInv, NEW r \in Runner, CommitOperation(r)
  PROVE  SwitchInv'
  <1> DEFINE o == runner[r].op
             t == operation[o].source
  <1>1. /\ runner[r].op # NoOp /\ runner[r].step = "commit" /\ (operation[o].kind = "phone" => PhoneTold(r))
        /\ user' = [user EXCEPT
              !.tenant = operation[o].target, !.revision = @ + 1, !.pending = NoOp,
              !.banned = IF operation[o].kind \in {"ban", "unban"} THEN operation[o].kind = "ban" ELSE @,
              !.phone = IF operation[o].kind = "phone" THEN o ELSE @]
        /\ operation' = [operation EXCEPT ![o].phase = "done"] /\ Stop(r)
        /\ UNCHANGED <<membership, grant, identity, holder, completed, session, imVars, snapshot>>
    BY DEF CommitOperation, At, Of
  <1>2. o \in Operation /\ user.pending = o /\ operation[o].phase = "commit" /\ t = user.tenant /\ t \in Tenant
        /\ operation[o].target \in Tenant
    BY <1>1, TheRun
  <1>3. RunnerTypes' /\ \A q \in Runner : runner'[q].op = NoOp
    BY <1>1, Stopped DEF SwitchInv
  <1>4. /\ OperationTypes' /\ \A p \in Operation : p # o => operation'[p] = operation[p]
        /\ operation'[o].phase = "done" /\ operation'[o].target = operation[o].target
    BY <1>1, <1>2, PhaseSet DEF SwitchInv
  <1> HIDE DEF o, t
  <1>5. operation[o].source = t /\ o # NoOp /\ runner[r].op = o
    BY <1>1 DEF o, t
  <1>6. /\ DOMAIN user' = DOMAIN user /\ user'.tenant = operation[o].target /\ user'.revision = user.revision + 1
        /\ user'.pending = NoOp
        /\ operation[o].kind = "phone" => user'.phone = o
        /\ operation[o].kind # "phone" => user'.phone = user.phone
    BY <1>1 DEF SwitchInv, UserTypes
  <1>7. UserTypes'
    BY <1>2, <1>6 DEF SwitchInv, UserTypes
  <1>8. IdentityTypes' /\ GrantTypes' /\ PlaceTypes'
    BY <1>1 DEF SwitchInv, IdentityTypes, GrantTypes, PlaceTypes, imVars
  <1>9. UnderWay'
    <2>1. \A p \in Operation : operation'[p].phase \in {"none", "done"} /\ p # NoOp
      BY <1>2, <1>4, SwitchAssumption DEF SwitchInv, UnderWay
    <2>2. membership'[user'.tenant] # NoOp
      BY <1>1, <1>2, <1>6 DEF SwitchInv, UnderWay
    <2> QED
      BY <1>6, <2>1, <2>2 DEF UnderWay
  <1>10. Receipts'
    BY <1>1, <1>4 DEF SwitchInv, Receipts, PlaceTypes
  <1>11. Runs'
    BY <1>3 DEF Runs
  <1>12. SourceClosed'
    BY <1>6, SwitchAssumption DEF SourceClosed
  <1>13. \A u \in Tenant : ~identity[u].active /\ session[u] = {} /\ ~Inside(u)
    <2>1. Closed(t)
      BY <1>2, <1>5 DEF SwitchInv, SourceClosed, Left
    <2> QED
      BY <1>2, <2>1 DEF SwitchInv, Closed, Present, Entrants
  <1>14. Handlers'
    <2>1. ASSUME NEW u \in Tenant, holder[u].kind = "offline" PROVE FALSE
      BY <1>2, <2>1 DEF SwitchInv, Handlers
    <2> QED
      BY <1>1, <2>1 DEF Handlers
  <1>15. Entrants' /\ Present'
    BY <1>1, <1>13 DEF SwitchInv, Entrants, Inside, Present
  <1>16. Numbers'
    <2>1. ASSUME NEW u \in Tenant, identity[u].known PROVE membership[u] # NoOp /\ identity[u].phone = user'.phone
      <3>1. membership[u] # NoOp
        BY <1>2, <2>1 DEF SwitchInv, Numbers
      <3>2. CASE operation[o].kind = "phone"
        BY <1>1, <1>5, <1>6, <2>1, <3>1, <3>2 DEF SwitchInv, Numbers, PhoneTold, Members
      <3>3. CASE operation[o].kind # "phone"
        BY <1>2, <1>6, <2>1, <3>3 DEF SwitchInv, Numbers, Told
      <3> QED
        BY <3>1, <3>2, <3>3
    <2> QED
      BY <1>1, <1>3, <2>1 DEF Numbers
  <1>17. Effects'
    <2>1. Done' = Done \union {o} /\ o \notin Done
      BY <1>2, <1>4 DEF Done
    <2>2. IsFiniteSet(Done) /\ user.revision = 1 + Cardinality(Done)
      BY DEF SwitchInv, Effects
    <2>3. IsFiniteSet(Done \union {o}) /\ Cardinality(Done \union {o}) = Cardinality(Done) + 1
      BY <2>1, <2>2, FS_AddElement
    <2>4. Cardinality(Done) \in Nat
      BY <2>2, FS_CardinalityType
    <2> QED
      BY <1>6, <2>1, <2>2, <2>3, <2>4 DEF Effects
  <1> QED
    BY <1>3, <1>4, <1>7, <1>8, <1>9, <1>10, <1>11, <1>12, <1>14, <1>15, <1>16, <1>17 DEF SwitchInv

LEMMA TellKeeps ==
  ASSUME SwitchInv, NEW r \in Runner, NEW t \in Tenant, TellPhone(r, t)
  PROVE  SwitchInv'
  <1> DEFINE o == runner[r].op
  <1>1. /\ runner[r].op # NoOp /\ runner[r].step = "commit" /\ operation[o].kind = "phone" /\ membership[t] # NoOp
        /\ identity' = IF identity[t].known
              THEN [identity EXCEPT ![t].phone = o, ![t].version = @ + 1]
              ELSE identity
        /\ runner' = [runner EXCEPT ![r].told = @ \cup {t}]
        /\ UNCHANGED <<user, operation, membership, grant, holder, completed, session, imVars, snapshot>>
    BY DEF TellPhone, At, Of, Members
  <1>2. o \in Operation /\ user.pending = o /\ operation[o].phase = "commit"
    BY <1>1, TheRun
  <1>3. DOMAIN runner = Runner /\ DOMAIN runner[r] = {"op", "step", "told"}
        /\ \A q \in Runner : q # r => runner[q].op = NoOp
    BY <1>1 DEF SwitchInv, RunnerTypes
  <1>4. /\ DOMAIN runner' = Runner /\ \A q \in Runner : q # r => runner'[q] = runner[q]
        /\ DOMAIN runner'[r] = {"op", "step", "told"}
        /\ runner'[r].op = o /\ runner'[r].step = "commit" /\ runner'[r].told = runner[r].told \union {t}
    BY <1>1, <1>3
  <1> HIDE DEF o
  <1>5. o # NoOp /\ runner[r].op = o
    BY <1>1 DEF o
  <1>6. RunnerTypes'
    BY <1>2, <1>3, <1>4, <1>5 DEF SwitchInv, RunnerTypes
  <1>7. /\ IdentityTypes' /\ \A u \in Tenant : u # t => identity'[u] = identity[u]
        /\ identity'[t].known = identity[t].known /\ identity'[t].active = identity[t].active
        /\ identity'[t].revision = identity[t].revision /\ identity'[t].epoch = identity[t].epoch
        /\ identity[t].known => identity'[t].phone = o
    <2>1. CASE identity[t].known
      BY <1>1, <2>1 DEF SwitchInv, IdentityTypes, IdentityField
    <2>2. CASE ~identity[t].known
      BY <1>1, <2>2 DEF SwitchInv, IdentityTypes
    <2> QED
      BY <2>1, <2>2
  <1>8. UserTypes' /\ OperationTypes' /\ GrantTypes' /\ UnderWay' /\ Receipts' /\ Effects'
    BY <1>1 DEF SwitchInv, UserTypes, OperationTypes, GrantTypes, UnderWay, Receipts, Effects, Done
  <1>9. PlaceTypes'
    BY <1>1, <1>7 DEF SwitchInv, PlaceTypes, imVars
  <1>10. Runs'
    BY <1>1, <1>2, <1>3, <1>4, <1>5 DEF Runs
  <1>11. \A u \in Tenant : Closed(u) => Closed(u)'
    BY <1>1, <1>7 DEF Closed, Inside
  <1>12. SourceClosed'
    <2>1. \A p \in Operation : user.pending = p => Left(p)
      BY <1>2 DEF Left
    <2>2. \A p \in Operation : user.pending = p => operation[p].source \in Tenant
      BY DEF SwitchInv, UnderWay, UserTypes
    <2> QED
      BY <1>1, <1>11, <2>1, <2>2 DEF SwitchInv, SourceClosed
  <1>13. Handlers'
    <2>1. ASSUME NEW u \in Tenant, holder[u].kind = "offline" PROVE FALSE
      BY <1>2, <2>1 DEF SwitchInv, Handlers
    <2> QED
      BY <1>1, <2>1 DEF Handlers
  <1>14. Entrants'
    BY <1>1, <1>7 DEF SwitchInv, Entrants, Inside
  <1>15. Present'
    <2>1. /\ user' = user /\ session' = session
          /\ \A u \in Tenant : /\ identity'[u].known = identity[u].known /\ identity'[u].active = identity[u].active
                              /\ identity'[u].revision = identity[u].revision
      BY <1>1, <1>7
    <2>2. Present
      BY DEF SwitchInv
    <2> QED
      BY <2>1, <2>2 DEF Present
  <1>16. Numbers'
    <2>1. ASSUME NEW u \in Tenant, identity'[u].known
          PROVE  /\ membership'[u] = NoOp => \E p \in Operation : user'.pending = p /\ operation'[p].target = u /\ operation'[p].phase = "prepare"
                 /\ \A q \in Runner : runner'[q].op # NoOp /\ u \in runner'[q].told => identity'[u].phone = runner'[q].op
      <3>1. Numbers
        BY DEF SwitchInv
      <3>2. identity[u].known
        BY <1>7, <2>1
      <3>3. membership[u] # NoOp
        BY <1>1, <1>2, <3>1, <3>2 DEF Numbers
      <3>4. ASSUME NEW q \in Runner, runner'[q].op # NoOp, u \in runner'[q].told PROVE identity'[u].phone = runner'[q].op
        <4>1. q = r
          BY <1>3, <1>4, <3>4
        <4>2. CASE u = t
          BY <1>4, <1>7, <3>2, <4>1, <4>2
        <4>3. CASE u # t
          BY <1>4, <1>5, <1>7, <3>1, <3>2, <3>4, <4>1, <4>3 DEF Numbers
        <4> QED
          BY <4>2, <4>3
      <3> QED
        BY <1>1, <3>3, <3>4
    <2>2. \E p \in Operation : user'.pending = p /\ Told(p)'
      BY <1>1, <1>2 DEF Told
    <2> QED
      BY <2>1, <2>2 DEF Numbers
  <1> QED
    BY <1>6, <1>7, <1>8, <1>9, <1>10, <1>12, <1>13, <1>14, <1>15, <1>16 DEF SwitchInv

LEMMA PlatformStill ==
  ASSUME SwitchInv, UNCHANGED platformVars
  PROVE  /\ UserTypes' /\ OperationTypes' /\ RunnerTypes' /\ GrantTypes' /\ UnderWay' /\ Effects'
         /\ user' = user /\ operation' = operation /\ membership' = membership /\ grant' = grant /\ runner' = runner
  BY DEF platformVars, SwitchInv, UserTypes, OperationTypes, RunnerTypes, GrantTypes, UnderWay, Effects, Done

\* Who is past the ticket's check is alone: nothing is being closed.
LEMMA InsideAlone ==
  ASSUME SwitchInv, NEW t \in Tenant, Inside(t)
  PROVE  /\ user.tenant = t /\ holder[t].who \in Grant /\ grant[holder[t].who].revision = user.revision
         /\ \A o \in Operation : user.pending = o => ~Left(o)
         /\ \A u \in Tenant : holder[u].kind # "offline"
         /\ \A u \in Tenant : u # t => ~Inside(u)
         /\ \A r \in Runner : runner[r].op # NoOp => runner[r].told = {}
  <1>1. user.tenant = t /\ holder[t].who \in Grant /\ grant[holder[t].who].revision = user.revision
    BY DEF SwitchInv, Entrants, Inside
  <1>2. \A o \in Operation : user.pending = o => ~Left(o)
    BY <1>1 DEF SwitchInv, SourceClosed, Closed, UnderWay
  <1>3. ASSUME NEW u \in Tenant, holder[u].kind = "offline" PROVE FALSE
    <2>1. u = t
      BY <1>1, <1>3 DEF SwitchInv, Handlers, UnderWay
    <2> QED
      BY <1>3, <2>1 DEF Inside
  <1>4. \A u \in Tenant : u # t => ~Inside(u)
    BY <1>1 DEF SwitchInv, Entrants
  <1>5. ASSUME NEW r \in Runner, runner[r].op # NoOp PROVE runner[r].told = {}
    <2>1. runner[r].step # "commit"
      BY <1>2, <1>5, TheRun DEF Left
    <2> QED
      BY <1>5, <2>1 DEF SwitchInv, Runs
  <1> QED
    BY <1>1, <1>2, <1>3, <1>4, <1>5

LEMMA CloseKeeps ==
  ASSUME SwitchInv, NEW t \in Tenant, CloseIdentity(t)
  PROVE  SwitchInv'
  <1>1. /\ holder[t].kind = "offline"
        /\ identity' = [identity EXCEPT ![t].active = FALSE, ![t].epoch = @ + 1]
        /\ session' = [session EXCEPT ![t] = {}] /\ holder' = [holder EXCEPT ![t].step = "cut"]
        /\ UNCHANGED <<platformVars, completed, imVars, snapshot>>
    BY DEF CloseIdentity, Closing
  <1>2. /\ UserTypes' /\ OperationTypes' /\ RunnerTypes' /\ GrantTypes' /\ UnderWay' /\ Effects'
        /\ user' = user /\ operation' = operation /\ membership' = membership /\ grant' = grant /\ runner' = runner
    BY <1>1, PlatformStill
  <1>3. /\ DOMAIN holder' = Tenant
        /\ \A u \in Tenant : DOMAIN holder'[u] = {"kind", "who", "step"}
                             /\ holder'[u].kind \in {"none", "offline", "enter"}
        /\ \A u \in Tenant : u # t => holder'[u] = holder[u]
        /\ holder'[t].kind = holder[t].kind /\ holder'[t].who = holder[t].who /\ holder'[t].step = "cut"
    BY <1>1, StepTaken DEF SwitchInv
  <1>4. /\ IdentityTypes' /\ \A u \in Tenant : u # t => identity'[u] = identity[u]
        /\ identity'[t].known = identity[t].known /\ identity'[t].active = FALSE
        /\ identity'[t].revision = identity[t].revision /\ identity'[t].epoch = identity[t].epoch + 1
        /\ identity'[t].phone = identity[t].phone
    BY <1>1 DEF SwitchInv, IdentityTypes, IdentityField
  <1>5. DOMAIN session' = Tenant /\ session'[t] = {} /\ \A u \in Tenant : u # t => session'[u] = session[u]
    BY <1>1 DEF SwitchInv, PlaceTypes
  <1>6. PlaceTypes'
    <2>1. identity[t].epoch \in Nat
      BY DEF SwitchInv, IdentityTypes
    <2>2. \A u \in Tenant : device'[u] \in Nat /\ device'[u] <= identity'[u].epoch
                            /\ issuing'[u] \in Nat /\ issuing'[u] <= identity'[u].epoch
      <3>1. ASSUME NEW u \in Tenant
            PROVE  /\ device[u] \in Nat /\ device[u] <= identity[u].epoch
                   /\ issuing[u] \in Nat /\ issuing[u] <= identity[u].epoch
        BY DEF SwitchInv, PlaceTypes
      <3>2. device' = device /\ issuing' = issuing
        BY <1>1 DEF imVars
      <3> QED
        BY <1>4, <2>1, <3>1, <3>2
    <2> QED
      BY <1>1, <1>2, <1>3, <1>5, <2>2 DEF SwitchInv, PlaceTypes, imVars
  <1>14. \A u \in Tenant : identity'[u].known = identity[u].known
    BY <1>4
  <1>7. Receipts' /\ Runs'
    <2>1. \A r \in Runner : runner[r].op # NoOp => operation[runner[r].op].target \in Tenant
      BY TheRun
    <2> QED
      BY <1>1, <1>2, <1>14, <2>1 DEF SwitchInv, Receipts, Runs
  <1>8. Closed(t)' /\ \A u \in Tenant : Closed(u) => Closed(u)'
    BY <1>1, <1>3, <1>4, <1>5 DEF Closed, Inside
  <1>9. SourceClosed'
    <2>1. \A p \in Operation : user.pending = p => operation[p].source \in Tenant
      BY DEF SwitchInv, UnderWay, UserTypes
    <2> QED
      BY <1>1, <1>2, <1>8, <2>1 DEF SwitchInv, SourceClosed, Left
  <1>10. Handlers'
    BY <1>1, <1>2, <1>3, <1>8 DEF SwitchInv, Handlers
  <1>11. Entrants'
    <2>1. \A u \in Tenant : holder'[u].kind = "enter" => holder'[u] = holder[u]
      BY <1>1, <1>3
    <2> QED
      BY <1>2, <1>14, <2>1 DEF SwitchInv, Entrants, Inside
  <1>12. Present'
    BY <1>2, <1>4, <1>5 DEF SwitchInv, Present
  <1>13. Numbers'
    <2>1. \A u \in Tenant : identity'[u].known = identity[u].known /\ identity'[u].phone = identity[u].phone
      BY <1>4
    <2>2. Numbers
      BY DEF SwitchInv
    <2> QED
      BY <1>2, <2>1, <2>2 DEF Numbers, Told
  <1> QED
    BY <1>2, <1>4, <1>6, <1>7, <1>9, <1>10, <1>11, <1>12, <1>13 DEF SwitchInv

LEMMA CutKeeps ==
  ASSUME SwitchInv, NEW t \in Tenant, OfflineEnterpriseUser(t)
  PROVE  SwitchInv'
  <1> DEFINE o == holder[t].who
  <1>1. /\ holder[t].kind = "offline" /\ holder[t].step = "cut"
        /\ device' = [device EXCEPT ![t] = 0] /\ marker' = [marker EXCEPT ![t] = 0]
        /\ completed' = [completed EXCEPT ![t] = @ \cup {o}] /\ Release(t)
        /\ UNCHANGED <<platformVars, identity, session, issuing, snapshot>>
    BY DEF OfflineEnterpriseUser, Closing
  <1>2. /\ UserTypes' /\ OperationTypes' /\ RunnerTypes' /\ GrantTypes' /\ UnderWay' /\ Effects'
        /\ user' = user /\ operation' = operation /\ membership' = membership /\ grant' = grant /\ runner' = runner
    BY <1>1, PlatformStill
  <1>3. /\ DOMAIN holder' = Tenant
        /\ \A u \in Tenant : DOMAIN holder'[u] = {"kind", "who", "step"}
                             /\ holder'[u].kind \in {"none", "offline", "enter"}
        /\ \A u \in Tenant : u # t => holder'[u] = holder[u]
        /\ holder'[t].kind = "none"
    BY <1>1, Released DEF SwitchInv
  <1>4. /\ o \in Operation /\ user.pending = o /\ operation[o].phase = "offline" /\ operation[o].source = t
        /\ Closed(t)
    BY <1>1 DEF SwitchInv, Handlers
  <1> HIDE DEF o
  <1>5. /\ DOMAIN completed' = Tenant /\ completed'[t] = completed[t] \union {o}
        /\ \A u \in Tenant : u # t => completed'[u] = completed[u]
    BY <1>1 DEF SwitchInv, PlaceTypes
  <1>6. PlaceTypes'
    <2>1. /\ DOMAIN device' = Tenant /\ DOMAIN marker' = Tenant
          /\ \A u \in Tenant : device'[u] = device[u] \/ device'[u] = 0
      BY <1>1 DEF SwitchInv, PlaceTypes
    <2>2. \A u \in Tenant : device'[u] \in Nat /\ device'[u] <= identity'[u].epoch
      BY <1>1, <2>1 DEF SwitchInv, PlaceTypes, IdentityTypes
    <2> QED
      BY <1>1, <1>2, <1>3, <1>4, <1>5, <2>1, <2>2 DEF SwitchInv, PlaceTypes
  <1>7. IdentityTypes' /\ Runs' /\ Present' /\ Numbers'
    BY <1>1, <1>2 DEF SwitchInv, IdentityTypes, Runs, Present, Numbers, Told
  <1>8. Receipts'
    BY <1>2, <1>4, <1>5 DEF SwitchInv, Receipts
  <1>9. SourceClosed'
    BY <1>1, <1>2, <1>3, <1>4 DEF SourceClosed, Closed, Inside
  <1>10. Handlers'
    <2>1. \A u \in Tenant : holder[u].kind = "offline" => u = t
      BY <1>4 DEF SwitchInv, Handlers
    <2> QED
      BY <1>3, <2>1 DEF Handlers
  <1>11. Entrants'
    BY <1>1, <1>2, <1>3 DEF SwitchInv, Entrants, Inside
  <1> QED
    BY <1>2, <1>6, <1>7, <1>8, <1>9, <1>10, <1>11 DEF SwitchInv

\* A request that gives up lets go of the lock.
LEMMA LetGo ==
  ASSUME SwitchInv, NEW t \in Tenant, Release(t),
         UNCHANGED <<platformVars, identity, completed, session, imVars, snapshot>>
  PROVE  SwitchInv'
  <1>1. /\ UserTypes' /\ OperationTypes' /\ RunnerTypes' /\ GrantTypes' /\ UnderWay' /\ Effects'
        /\ user' = user /\ operation' = operation /\ membership' = membership /\ grant' = grant /\ runner' = runner
    BY PlatformStill
  <1>2. /\ DOMAIN holder' = Tenant
        /\ \A u \in Tenant : DOMAIN holder'[u] = {"kind", "who", "step"}
                             /\ holder'[u].kind \in {"none", "offline", "enter"}
        /\ \A u \in Tenant : u # t => holder'[u] = holder[u]
        /\ holder'[t].kind = "none"
    BY Released DEF SwitchInv
  <1>3. IdentityTypes' /\ Receipts' /\ Runs' /\ Present' /\ Numbers'
    BY <1>1 DEF SwitchInv, IdentityTypes, Receipts, Runs, Present, Numbers, Told
  <1>4. PlaceTypes'
    BY <1>1, <1>2 DEF SwitchInv, PlaceTypes, imVars
  <1>5. \A u \in Tenant : Closed(u) => Closed(u)'
    BY <1>2 DEF Closed, Inside
  <1>6. SourceClosed'
    <2>1. \A p \in Operation : user.pending = p => operation[p].source \in Tenant
      BY DEF SwitchInv, UnderWay, UserTypes
    <2> QED
      BY <1>1, <1>5, <2>1 DEF SwitchInv, SourceClosed, Left
  <1>7. Handlers'
    BY <1>1, <1>2, <1>5 DEF SwitchInv, Handlers
  <1>8. Entrants'
    BY <1>1, <1>2 DEF SwitchInv, Entrants, Inside
  <1> QED
    BY <1>1, <1>3, <1>4, <1>6, <1>7, <1>8 DEF SwitchInv

LEMMA ExchangeKeeps ==
  ASSUME SwitchInv, NEW g \in Grant, Exchange(g)
  PROVE  SwitchInv'
  <1> DEFINE t == grant[g].tenant
  <1>1. /\ grant[g].state = "fresh" /\ holder[t] = Unheld
        /\ holder' = [holder EXCEPT ![t] = [kind |-> "enter", who |-> g, step |-> "consume"]]
        /\ UNCHANGED <<platformVars, identity, completed, session, imVars, snapshot>>
    BY DEF Exchange, Unlocked
  <1>2. t \in Tenant
    BY <1>1 DEF SwitchInv, GrantTypes
  <1> HIDE DEF t
  <1>3. /\ UserTypes' /\ OperationTypes' /\ RunnerTypes' /\ GrantTypes' /\ UnderWay' /\ Effects'
        /\ user' = user /\ operation' = operation /\ membership' = membership /\ grant' = grant /\ runner' = runner
    BY <1>1, PlatformStill
  <1>4. /\ DOMAIN holder' = Tenant
        /\ \A u \in Tenant : DOMAIN holder'[u] = {"kind", "who", "step"}
                             /\ holder'[u].kind \in {"none", "offline", "enter"}
        /\ \A u \in Tenant : u # t => holder'[u] = holder[u]
        /\ holder'[t].kind = "enter" /\ holder'[t].who = g /\ holder'[t].step = "consume"
    BY <1>1, <1>2, OneHolder DEF SwitchInv
  <1>5. IdentityTypes' /\ Receipts' /\ Runs' /\ Present' /\ Numbers'
    BY <1>1, <1>3 DEF SwitchInv, IdentityTypes, Receipts, Runs, Present, Numbers, Told
  <1>6. PlaceTypes'
    BY <1>1, <1>3, <1>4 DEF SwitchInv, PlaceTypes, imVars
  <1>7. \A u \in Tenant : Closed(u) => Closed(u)'
    BY <1>1, <1>4 DEF Closed, Inside
  <1>8. SourceClosed'
    <2>1. \A p \in Operation : user.pending = p => operation[p].source \in Tenant
      BY DEF SwitchInv, UnderWay, UserTypes
    <2> QED
      BY <1>1, <1>3, <1>7, <2>1 DEF SwitchInv, SourceClosed, Left
  <1>9. Handlers'
    BY <1>1, <1>3, <1>4, <1>7 DEF SwitchInv, Handlers
  <1>10. Entrants'
    BY <1>1, <1>3, <1>4 DEF SwitchInv, Entrants, Inside
  <1> QED
    BY <1>3, <1>5, <1>6, <1>8, <1>9, <1>10 DEF SwitchInv

LEMMA ConsumeKeeps ==
  ASSUME SwitchInv, NEW t \in Tenant, Consume(t)
  PROVE  SwitchInv'
  <1> DEFINE g == holder[t].who
  <1>1. /\ holder[t].kind = "enter" /\ holder[t].step = "consume"
        /\ grant[g].state = "fresh" /\ user.tenant = t /\ user.revision = grant[g].revision /\ user.pending = NoOp
        /\ grant' = [grant EXCEPT ![g].state = "used"] /\ holder' = [holder EXCEPT ![t].step = "prepare"]
        /\ UNCHANGED <<user, operation, membership, runner, identity, completed, session, imVars, snapshot>>
    BY DEF Consume, Entering
  <1>2. g \in Grant
    BY <1>1 DEF SwitchInv, Entrants
  <1> HIDE DEF g
  <1>3. /\ GrantTypes' /\ grant'[g].state = "used" /\ grant'[g].revision = grant[g].revision
        /\ \A h \in Grant : h # g => grant'[h] = grant[h]
    BY <1>1, <1>2 DEF SwitchInv, GrantTypes
  <1>4. /\ DOMAIN holder' = Tenant
        /\ \A u \in Tenant : DOMAIN holder'[u] = {"kind", "who", "step"}
                             /\ holder'[u].kind \in {"none", "offline", "enter"}
        /\ \A u \in Tenant : u # t => holder'[u] = holder[u]
        /\ holder'[t].kind = holder[t].kind /\ holder'[t].who = g /\ holder'[t].step = "prepare"
    <2>1. PlaceTypes /\ holder' = [holder EXCEPT ![t].step = "prepare"] /\ g = holder[t].who
      BY <1>1 DEF SwitchInv, g
    <2> QED
      BY <2>1, StepTaken
  <1>5. UserTypes' /\ OperationTypes' /\ RunnerTypes' /\ IdentityTypes' /\ UnderWay' /\ Receipts' /\ Runs' /\ Present' /\ Numbers'
    BY <1>1 DEF SwitchInv, UserTypes, OperationTypes, RunnerTypes, IdentityTypes, UnderWay, Receipts, Runs, Present, Numbers, Told
  <1>6. Effects'
    BY <1>1 DEF SwitchInv, Effects, Done
  <1>7. PlaceTypes'
    BY <1>1, <1>4 DEF SwitchInv, PlaceTypes, imVars
  <1>8. SourceClosed'
    BY <1>1, SwitchAssumption DEF SourceClosed
  <1>9. Handlers'
    <2>1. \A u \in Tenant : holder[u].kind # "offline"
      BY <1>1, SwitchAssumption DEF SwitchInv, Handlers
    <2> QED
      BY <1>1, <1>4, <2>1 DEF Handlers
  <1>10. Entrants'
    <2>1. ASSUME NEW u \in Tenant, u # t PROVE ~Inside(u) /\ ~Inside(u)' /\ (holder'[u].kind = "enter" => holder'[u].who \in Grant)
      BY <1>1, <1>4, <2>1 DEF SwitchInv, Entrants, Inside
    <2> QED
      BY <1>1, <1>2, <1>3, <1>4, <2>1 DEF Entrants, Inside
  <1> QED
    BY <1>3, <1>4, <1>5, <1>6, <1>7, <1>8, <1>9, <1>10 DEF SwitchInv

\* What changes in the enterprise somebody is let in to.
LEMMA LettingIn ==
  ASSUME SwitchInv, NEW t \in Tenant, Inside(t), UNCHANGED <<platformVars, completed>>,
         \A u \in Tenant : u # t => holder'[u] = holder[u], holder'[t].kind \in {"none", "enter"},
         holder'[t].who = holder[t].who \/ holder'[t].kind = "none",
         holder'[t].step \in {"prepare", "activate", "session"} \/ holder'[t].kind = "none",
         holder'[t].step = "prepare" \/ holder'[t].kind = "none" \/ identity'[t].known,
         \A u \in Tenant : identity[u].known => identity'[u].known,
         \A u \in Tenant : u # t => identity'[u] = identity[u],
         identity'[t].known => identity'[t].phone = user.phone
  PROVE  SourceClosed' /\ Handlers' /\ Entrants' /\ Runs' /\ Receipts' /\ Numbers'
  <1>1. user' = user /\ operation' = operation /\ membership' = membership /\ grant' = grant /\ runner' = runner
        /\ completed' = completed
    BY DEF platformVars
  <1>2. /\ user.tenant = t /\ holder[t].who \in Grant /\ grant[holder[t].who].revision = user.revision
        /\ \A o \in Operation : user.pending = o => ~Left(o)
        /\ \A u \in Tenant : holder[u].kind # "offline"
        /\ \A u \in Tenant : u # t => ~Inside(u)
        /\ \A r \in Runner : runner[r].op # NoOp => runner[r].told = {}
    BY InsideAlone
  <1>3. SourceClosed'
    BY <1>1, <1>2 DEF SourceClosed, Left
  <1>4. Handlers'
    BY <1>1, <1>2 DEF Handlers
  <1>5. Entrants'
    <2>1. ASSUME NEW u \in Tenant, u # t PROVE ~Inside(u)' /\ (holder'[u].kind = "enter" => holder'[u].who \in Grant)
      BY <1>1, <1>2, <2>1 DEF SwitchInv, Entrants, Inside
    <2>2. grant[holder[t].who].state = "used"
      BY DEF SwitchInv, Entrants
    <2> QED
      BY <1>1, <1>2, <2>1, <2>2 DEF Entrants, Inside
  <1>6. Runs' /\ Receipts'
    <2>1. \A r \in Runner : runner[r].op # NoOp => operation[runner[r].op].target \in Tenant
      BY TheRun
    <2> QED
      BY <1>1, <2>1 DEF SwitchInv, Runs, Receipts
  <1>7. Numbers'
    <2>1. membership[t] # NoOp
      BY <1>2 DEF SwitchInv, UnderWay
    <2>2. Numbers
      BY DEF SwitchInv
    <2>3. ASSUME NEW u \in Tenant, u # t, identity'[u].known
          PROVE  /\ membership'[u] = NoOp => \E p \in Operation : user'.pending = p /\ operation'[p].target = u /\ operation'[p].phase = "prepare"
                 /\ identity'[u].phone = user'.phone \/ \E p \in Operation : user'.pending = p /\ Told(p)'
      BY <1>1, <2>2, <2>3 DEF Numbers, Told
    <2> QED
      BY <1>1, <1>2, <2>1, <2>3 DEF Numbers
  <1> QED
    BY <1>3, <1>4, <1>5, <1>6, <1>7

LEMMA EnterPrepareKeeps ==
  ASSUME SwitchInv, NEW t \in Tenant, ExchangePrepare(t)
  PROVE  SwitchInv'
  <1>1. /\ holder[t].kind = "enter" /\ holder[t].step = "prepare" /\ Inside(t)
        /\ identity' = [identity EXCEPT ![t] = Known(t, user.phone)]
        /\ holder' = [holder EXCEPT ![t].step = "activate"]
        /\ UNCHANGED <<platformVars, completed, session, imVars, snapshot>>
    BY DEF ExchangePrepare, Entering, Inside
  <1>2. /\ UserTypes' /\ OperationTypes' /\ RunnerTypes' /\ GrantTypes' /\ UnderWay' /\ Effects'
        /\ user' = user /\ operation' = operation /\ membership' = membership /\ grant' = grant /\ runner' = runner
    BY <1>1, PlatformStill
  <1>3. /\ DOMAIN holder' = Tenant
        /\ \A u \in Tenant : DOMAIN holder'[u] = {"kind", "who", "step"}
                             /\ holder'[u].kind \in {"none", "offline", "enter"}
        /\ \A u \in Tenant : u # t => holder'[u] = holder[u]
        /\ holder'[t].kind = holder[t].kind /\ holder'[t].who = holder[t].who /\ holder'[t].step = "activate"
    BY <1>1, StepTaken DEF SwitchInv
  <1>4. /\ IdentityTypes' /\ \A u \in Tenant : u # t => identity'[u] = identity[u]
        /\ identity'[t].known = TRUE /\ identity'[t].active = identity[t].active
        /\ identity'[t].revision = identity[t].revision /\ identity'[t].epoch = identity[t].epoch
        /\ identity[t].known => identity'[t].phone = identity[t].phone
        /\ ~identity[t].known => identity'[t].phone = user.phone
    BY <1>1, MadeKnown DEF SwitchInv
  <1>5. identity'[t].phone = user.phone
    <2>1. \A o \in Operation : user.pending = o => ~Told(o)
      BY <1>1, InsideAlone DEF Left, Told
    <2> QED
      BY <1>4, <2>1 DEF SwitchInv, Numbers
  <1>6. SourceClosed' /\ Handlers' /\ Entrants' /\ Runs' /\ Receipts' /\ Numbers'
    <2>1. \A u \in Tenant : identity[u].known => identity'[u].known
      BY <1>4
    <2> QED
      BY <1>1, <1>3, <1>4, <1>5, <2>1, LettingIn
  <1>7. PlaceTypes'
    BY <1>1, <1>2, <1>3, <1>4 DEF SwitchInv, PlaceTypes, imVars
  <1>8. Present'
    BY <1>1, <1>2, <1>4 DEF SwitchInv, Present
  <1> QED
    BY <1>2, <1>4, <1>6, <1>7, <1>8 DEF SwitchInv

LEMMA ActivateKeeps ==
  ASSUME SwitchInv, NEW t \in Tenant, ExchangeActivate(t)
  PROVE  SwitchInv'
  <1> DEFINE rev == grant[holder[t].who].revision
             i == identity[t]
  <1>1. /\ holder[t].kind = "enter" /\ holder[t].step = "activate" /\ Inside(t)
        /\ identity' = [identity EXCEPT ![t] =
              [i EXCEPT !.active = TRUE, !.revision = rev, !.phone = user.phone,
                        !.version = @ + (IF i.revision # rev THEN 2 ELSE 1)]]
        /\ holder' = [holder EXCEPT ![t].step = "session"]
        /\ UNCHANGED <<platformVars, completed, session, imVars, snapshot>>
    BY DEF ExchangeActivate, Entering, Inside
  <1>2. /\ UserTypes' /\ OperationTypes' /\ RunnerTypes' /\ GrantTypes' /\ UnderWay' /\ Effects'
        /\ user' = user /\ operation' = operation /\ membership' = membership /\ grant' = grant /\ runner' = runner
    BY <1>1, PlatformStill
  <1>3. /\ DOMAIN holder' = Tenant
        /\ \A u \in Tenant : DOMAIN holder'[u] = {"kind", "who", "step"}
                             /\ holder'[u].kind \in {"none", "offline", "enter"}
        /\ \A u \in Tenant : u # t => holder'[u] = holder[u]
        /\ holder'[t].kind = holder[t].kind /\ holder'[t].who = holder[t].who /\ holder'[t].step = "session"
    BY <1>1, StepTaken DEF SwitchInv
  <1>4. rev = user.revision /\ user.tenant = t /\ user.revision \in Nat
    BY <1>1, InsideAlone DEF SwitchInv, UserTypes
  <1>5. /\ DOMAIN i = IdentityField /\ i.revision \in Nat /\ i.epoch \in Nat /\ i.version \in Nat
        /\ DOMAIN identity = Tenant
    BY DEF SwitchInv, IdentityTypes
  <1>6. i.known /\ i = identity[t]
    BY <1>1 DEF SwitchInv, Entrants
  <1> HIDE DEF rev, i
  <1>7. /\ DOMAIN identity' = Tenant /\ \A u \in Tenant : u # t => identity'[u] = identity[u]
        /\ DOMAIN identity'[t] = IdentityField
        /\ identity'[t].known = i.known /\ identity'[t].active = TRUE
        /\ identity'[t].revision = user.revision /\ identity'[t].epoch = i.epoch
        /\ identity'[t].phone = user.phone
        /\ identity'[t].version = i.version + (IF i.revision # rev THEN 2 ELSE 1)
    BY <1>1, <1>4, <1>5 DEF IdentityField
  <1>8. IdentityTypes'
    <2>1. identity'[t].version \in Nat
      BY <1>5, <1>7
    <2> QED
      BY <1>4, <1>5, <1>7, <2>1 DEF SwitchInv, IdentityTypes
  <1>9. SourceClosed' /\ Handlers' /\ Entrants' /\ Runs' /\ Receipts' /\ Numbers'
    <2>1. \A u \in Tenant : identity[u].known => identity'[u].known
      BY <1>6, <1>7
    <2>2. identity'[t].known
      BY <1>6, <1>7
    <2> QED
      BY <1>1, <1>3, <1>7, <2>1, <2>2, LettingIn
  <1>10. PlaceTypes'
    <2>1. \A u \in Tenant : identity'[u].epoch = identity[u].epoch
      BY <1>6, <1>7
    <2> QED
      BY <1>1, <1>2, <1>3, <2>1 DEF SwitchInv, PlaceTypes, imVars
  <1>11. Present'
    <2>1. identity'[t].known
      BY <1>6, <1>7
    <2> QED
      BY <1>1, <1>2, <1>4, <1>7, <2>1 DEF SwitchInv, Present
  <1> QED
    BY <1>2, <1>8, <1>9, <1>10, <1>11 DEF SwitchInv

LEMMA SessionKeeps ==
  ASSUME SwitchInv, NEW t \in Tenant, ExchangeSession(t)
  PROVE  SwitchInv'
  <1> DEFINE e == identity[t].epoch
  <1>1. /\ holder[t].kind = "enter" /\ holder[t].step = "session" /\ Inside(t)
        /\ device' = IF marker[t] = e THEN device ELSE [device EXCEPT ![t] = e]
        /\ marker' = [marker EXCEPT ![t] = e]
        /\ session' = [session EXCEPT ![t] = @ \cup {[epoch |-> e, revision |-> grant[holder[t].who].revision]}]
        /\ Release(t)
        /\ UNCHANGED <<platformVars, identity, completed, issuing, snapshot>>
    BY DEF ExchangeSession, Entering, Inside
  <1>2. /\ UserTypes' /\ OperationTypes' /\ RunnerTypes' /\ GrantTypes' /\ UnderWay' /\ Effects'
        /\ user' = user /\ operation' = operation /\ membership' = membership /\ grant' = grant /\ runner' = runner
    BY <1>1, PlatformStill
  <1>3. /\ DOMAIN holder' = Tenant
        /\ \A u \in Tenant : DOMAIN holder'[u] = {"kind", "who", "step"}
                             /\ holder'[u].kind \in {"none", "offline", "enter"}
        /\ \A u \in Tenant : u # t => holder'[u] = holder[u]
        /\ holder'[t].kind = "none"
    BY <1>1, Released DEF SwitchInv
  <1>4. grant[holder[t].who].revision = user.revision /\ user.tenant = t /\ identity[t].known
    <2>1. identity[t].known
      BY <1>1 DEF SwitchInv, Entrants
    <2> QED
      BY <1>1, <2>1, InsideAlone
  <1>5. e \in Nat /\ e = identity[t].epoch /\ IdentityTypes'
    BY <1>1 DEF SwitchInv, IdentityTypes
  <1> HIDE DEF e
  <1>6. /\ DOMAIN session' = Tenant /\ \A u \in Tenant : u # t => session'[u] = session[u]
        /\ session'[t] = session[t] \union {[epoch |-> e, revision |-> user.revision]}
    BY <1>1, <1>4 DEF SwitchInv, PlaceTypes
  <1>7. /\ DOMAIN device' = Tenant /\ DOMAIN marker' = Tenant
        /\ \A u \in Tenant : u # t => device'[u] = device[u]
        /\ device'[t] = device[t] \/ device'[t] = e
    BY <1>1 DEF SwitchInv, PlaceTypes
  <1>8. PlaceTypes'
    <2>1. \A u \in Tenant : device'[u] \in Nat /\ device'[u] <= identity'[u].epoch
      BY <1>1, <1>5, <1>7 DEF SwitchInv, PlaceTypes
    <2> QED
      BY <1>1, <1>2, <1>3, <1>6, <1>7, <2>1 DEF SwitchInv, PlaceTypes
  <1>9. SourceClosed' /\ Handlers' /\ Entrants' /\ Runs' /\ Receipts' /\ Numbers'
    <2>1. identity[t].phone = user.phone
      <3>1. \A o \in Operation : user.pending = o => ~Told(o)
        BY <1>1, InsideAlone DEF Left, Told
      <3> QED
        BY <1>4, <3>1 DEF SwitchInv, Numbers
    <2> QED
      BY <1>1, <1>3, <1>4, <2>1, LettingIn
  <1>10. Present'
    <2>1. ASSUME NEW s \in session'[t] PROVE s.revision = user.revision
      BY <1>6 DEF SwitchInv, Present
    <2> QED
      BY <1>1, <1>2, <1>4, <1>6, <2>1 DEF SwitchInv, Present
  <1> QED
    BY <1>2, <1>5, <1>8, <1>9, <1>10 DEF SwitchInv

\* A step that changes no more than devices, profiles and reports.
LEMMA RestKeeps ==
  ASSUME SwitchInv, UNCHANGED <<user, operation, grant, runner, holder, completed, session>>,
         IdentityTypes', PlaceTypes', \A t \in Tenant : membership[t] # NoOp => membership'[t] # NoOp,
         \A t \in Tenant : membership[t] = NoOp => membership'[t] = NoOp,
         \A t \in Tenant : /\ identity'[t].known = identity[t].known /\ identity'[t].active = identity[t].active
                           /\ identity'[t].revision = identity[t].revision /\ identity'[t].phone = identity[t].phone
  PROVE  SwitchInv'
  <1>1. UserTypes' /\ OperationTypes' /\ RunnerTypes' /\ GrantTypes' /\ Effects'
    BY DEF SwitchInv, UserTypes, OperationTypes, RunnerTypes, GrantTypes, Effects, Done
  <1>2. /\ user' = user /\ operation' = operation /\ grant' = grant /\ runner' = runner
        /\ holder' = holder /\ completed' = completed /\ session' = session
    OBVIOUS
  <1>3. \A o \in Operation : operation[o].phase # "none" => operation[o].target \in Tenant /\ operation[o].source \in Tenant
    BY DEF SwitchInv, OperationTypes
  <1>4. UnderWay'
    <2>1. UnderWay /\ user.tenant \in Tenant
      BY DEF SwitchInv, UserTypes
    <2> QED
      BY <1>2, <1>3, <2>1 DEF UnderWay
  <1>5. Receipts'
    BY <1>2 DEF SwitchInv, Receipts
  <1>6. Runs'
    <2>1. \A r \in Runner : runner[r].op # NoOp => operation[runner[r].op].target \in Tenant
      BY TheRun
    <2> QED
      BY <1>2, <2>1 DEF SwitchInv, Runs
  <1>7. \A t \in Tenant : Closed(t) => Closed(t)'
    BY <1>2 DEF Closed, Inside
  <1>8. SourceClosed'
    <2>1. \A p \in Operation : user.pending = p => operation[p].source \in Tenant
      BY DEF SwitchInv, UnderWay, UserTypes
    <2> QED
      BY <1>2, <1>7, <2>1 DEF SwitchInv, SourceClosed, Left
  <1>9. Handlers'
    BY <1>2, <1>7 DEF SwitchInv, Handlers
  <1>10. Entrants'
    <2>1. Entrants
      BY DEF SwitchInv
    <2> QED
      BY <1>2, <2>1 DEF Entrants, Inside
  <1>11. Present'
    <2>1. Present
      BY DEF SwitchInv
    <2> QED
      BY <1>2, <2>1 DEF Present
  <1>12. Numbers'
    <2>1. Numbers
      BY DEF SwitchInv
    <2> QED
      BY <1>2, <2>1 DEF Numbers, Told
  <1> QED
    BY <1>1, <1>4, <1>5, <1>6, <1>8, <1>9, <1>10, <1>11, <1>12 DEF SwitchInv

LEMMA DevicesKeep ==
  ASSUME SwitchInv, NEW t \in Tenant, QuitDevice(t) \/ AskIMSession(t) \/ EnsureProvisioned(t)
  PROVE  SwitchInv'
  <1>1. UNCHANGED <<platformVars, identity, holder, completed, session, snapshot>>
    BY DEF QuitDevice, AskIMSession, EnsureProvisioned
  <1>2. user' = user /\ operation' = operation /\ membership' = membership /\ grant' = grant /\ runner' = runner
    BY <1>1 DEF platformVars
  <1>3. identity[t].epoch \in Nat
    BY DEF SwitchInv, IdentityTypes
  <1>4. /\ DOMAIN device' = Tenant /\ DOMAIN marker' = Tenant /\ DOMAIN issuing' = Tenant
        /\ \A u \in Tenant : device'[u] \in Nat /\ device'[u] <= identity[u].epoch
                             /\ issuing'[u] \in Nat /\ issuing'[u] <= identity[u].epoch
    <2>1. CASE QuitDevice(t)
      BY <1>3, <2>1 DEF SwitchInv, PlaceTypes, QuitDevice
    <2>2. CASE AskIMSession(t)
      BY <1>3, <2>2 DEF SwitchInv, PlaceTypes, AskIMSession
    <2>3. CASE EnsureProvisioned(t)
      BY <1>3, <2>3 DEF SwitchInv, PlaceTypes, EnsureProvisioned
    <2> QED
      BY <2>1, <2>2, <2>3
  <1>5. PlaceTypes' /\ IdentityTypes'
    BY <1>1, <1>2, <1>4 DEF SwitchInv, PlaceTypes, IdentityTypes
  <1> QED
    BY <1>1, <1>2, <1>5, RestKeeps

LEMMA ProfilesKeep ==
  ASSUME SwitchInv, NEW t \in Tenant, EditProfile(t) \/ SyncOnce(t)
  PROVE  SwitchInv'
  <1>1. UNCHANGED <<platformVars, holder, completed, session, imVars>>
    BY DEF EditProfile, SyncOnce
  <1>2. user' = user /\ operation' = operation /\ membership' = membership /\ grant' = grant /\ runner' = runner
        /\ device' = device /\ marker' = marker /\ issuing' = issuing
    BY <1>1 DEF platformVars, imVars
  <1>3. /\ IdentityTypes'
        /\ \A u \in Tenant : /\ identity'[u].known = identity[u].known /\ identity'[u].active = identity[u].active
                             /\ identity'[u].revision = identity[u].revision /\ identity'[u].phone = identity[u].phone
                             /\ identity'[u].epoch = identity[u].epoch
    <2>1. CASE EditProfile(t)
      BY <2>1 DEF SwitchInv, IdentityTypes, IdentityField, EditProfile
    <2>2. CASE SyncOnce(t)
      BY <2>2 DEF SwitchInv, IdentityTypes, SyncOnce
    <2> QED
      BY <2>1, <2>2
  <1>4. \A m \in snapshot' : m.tenant \in Tenant /\ m.version \in Nat
    <2>1. CASE EditProfile(t)
      BY <2>1 DEF SwitchInv, PlaceTypes, EditProfile
    <2>2. CASE SyncOnce(t)
      <3>1. snapshot' = snapshot \union {Report(t)} /\ identity[t].version \in Nat
        BY <2>2 DEF SwitchInv, IdentityTypes, SyncOnce
      <3> QED
        BY <3>1 DEF SwitchInv, PlaceTypes, Report
    <2> QED
      BY <2>1, <2>2
  <1>5. PlaceTypes'
    BY <1>1, <1>2, <1>3, <1>4 DEF SwitchInv, PlaceTypes
  <1> QED
    BY <1>1, <1>2, <1>3, <1>5, RestKeeps

LEMMA ReportsKeep ==
  ASSUME SwitchInv, NEW m \in snapshot, NEW heard \in BOOLEAN, SnapshotArrives(m, heard)
  PROVE  SwitchInv'
  <1>1. snapshot' = snapshot \ {m} /\ UNCHANGED <<user, operation, grant, runner, holder, completed, session, imVars>>
    BY DEF SnapshotArrives
  <1>2. m.tenant \in Tenant /\ m.version \in Nat /\ \A n \in snapshot' : n.tenant \in Tenant /\ n.version \in Nat
    BY <1>1 DEF SwitchInv, PlaceTypes
  <1>3. /\ DOMAIN membership' = Tenant
        /\ \A t \in Tenant : (membership'[t] = membership[t] \/ (membership'[t] \in Nat /\ membership[t] # NoOp))
    <2>1. CASE user.tenant = m.tenant /\ user.revision = m.revision
      <3>1. membership[m.tenant] # NoOp
        BY <2>1 DEF SwitchInv, UnderWay
      <3> QED
        BY <1>2, <2>1, <3>1 DEF SwitchInv, PlaceTypes, SnapshotArrives, StoreSnapshot
    <2>2. CASE ~(user.tenant = m.tenant /\ user.revision = m.revision)
      BY <2>2 DEF SwitchInv, PlaceTypes, SnapshotArrives
    <2> QED
      BY <2>1, <2>2
  <1>4. /\ IdentityTypes'
        /\ \A u \in Tenant : /\ identity'[u].known = identity[u].known /\ identity'[u].active = identity[u].active
                             /\ identity'[u].revision = identity[u].revision /\ identity'[u].phone = identity[u].phone
                             /\ identity'[u].epoch = identity[u].epoch
    <2>1. identity' = identity \/ identity' = [identity EXCEPT ![m.tenant].synced = m.version]
      BY DEF SnapshotArrives
    <2>2. CASE identity' = identity
      BY <2>2 DEF SwitchInv, IdentityTypes
    <2>3. CASE identity' = [identity EXCEPT ![m.tenant].synced = m.version]
      BY <1>2, <2>3 DEF SwitchInv, IdentityTypes, IdentityField
    <2> QED
      BY <2>1, <2>2, <2>3
  <1>5. PlaceTypes'
    BY <1>1, <1>2, <1>3, <1>4 DEF SwitchInv, PlaceTypes, imVars
  <1>6. \A t \in Tenant : (membership[t] # NoOp => membership'[t] # NoOp) /\ (membership[t] = NoOp => membership'[t] = NoOp)
    BY <1>3, SwitchAssumption
  <1> QED
    BY <1>1, <1>4, <1>5, <1>6, RestKeeps

LEMMA SwitchStep ==
  ASSUME SwitchInv, [SwitchNext]_switchVars
  PROVE  SwitchInv'
  <1>1. CASE UNCHANGED switchVars
    <2>1. UNCHANGED <<user, operation, membership, grant, runner, holder, completed, session, identity, imVars, snapshot>>
      BY <1>1 DEF switchVars, platformVars
    <2>2. IdentityTypes' /\ PlaceTypes'
      BY <2>1 DEF SwitchInv, IdentityTypes, PlaceTypes, imVars
    <2> QED
      BY <2>1, <2>2, RestKeeps
  <1>2. CASE OperationNext
    <2>1. CASE \E g \in Grant : SignTicket(g)
      BY <2>1, TicketsKeep
    <2>2. CASE \E o \in Operation, k \in Kind, t \in Tenant : StartOperation(o, k, t)
      BY <2>2, StartKeeps
    <2>3. ASSUME NEW r \in Runner,
                 \/ \E o \in Operation : RunOperation(r, o)
                 \/ RunFails(r) \/ PrepareTarget(r) \/ FinishPrepare(r) \/ AskOffline(r)
                 \/ OfflineAnswers(r) \/ FinishOffline(r) \/ CommitOperation(r)
                 \/ \E t \in Tenant : TellPhone(r, t)
          PROVE  SwitchInv'
      BY <2>3, RunKeeps, RunFailsKeeps, PrepareKeeps, FinishKeeps, AskKeeps, AnswersKeep, FinishOfflineKeeps,
         CommitKeeps, TellKeeps
    <2> QED
      BY <1>2, <2>1, <2>2, <2>3 DEF OperationNext
  <1>3. CASE EnterpriseNext
    <2>1. ASSUME NEW t \in Tenant, OfflineFails(t) \/ ExchangeFails(t) PROVE SwitchInv'
      BY <2>1, LetGo DEF OfflineFails, ExchangeFails
    <2>2. ASSUME NEW t \in Tenant,
                 \/ CloseIdentity(t) \/ OfflineEnterpriseUser(t)
                 \/ Consume(t) \/ ExchangePrepare(t) \/ ExchangeActivate(t) \/ ExchangeSession(t)
                 \/ QuitDevice(t) \/ AskIMSession(t) \/ EnsureProvisioned(t)
                 \/ EditProfile(t) \/ SyncOnce(t)
          PROVE  SwitchInv'
      BY <2>2, CloseKeeps, CutKeeps, ConsumeKeeps, EnterPrepareKeeps, ActivateKeeps, SessionKeeps, DevicesKeep,
         ProfilesKeep
    <2> QED
      BY <1>3, <2>1, <2>2 DEF EnterpriseNext
  <1>4. CASE \E g \in Grant : Exchange(g)
    BY <1>4, ExchangeKeeps
  <1>5. CASE \E m \in snapshot, heard \in BOOLEAN : SnapshotArrives(m, heard)
    BY <1>5, ReportsKeep
  <1> QED
    BY <1>1, <1>2, <1>3, <1>4, <1>5 DEF SwitchNext

LEMMA SwitchStart ==
  ASSUME SwitchInit
  PROVE  SwitchInv
  <1>1. NoOp \notin Operation /\ NoOp \notin Nat /\ Home \in Tenant
    BY SwitchAssumption
  <1>2. UserTypes /\ OperationTypes /\ RunnerTypes /\ GrantTypes
    BY <1>1 DEF SwitchInit, UserTypes, OperationTypes, RunnerTypes, GrantTypes
  <1>3. IdentityTypes
    BY DEF SwitchInit, IdentityTypes, Absent, IdentityField
  <1>4. \A t \in Tenant : holder[t].kind = "none" /\ DOMAIN holder[t] = {"kind", "who", "step"}
    BY DEF SwitchInit, Unheld
  <1>5. PlaceTypes
    BY <1>1, <1>4 DEF SwitchInit, PlaceTypes, Absent
  <1>6. UnderWay /\ Receipts /\ Runs /\ SourceClosed
    BY <1>1 DEF SwitchInit, UnderWay, Receipts, Runs, SourceClosed
  <1>7. Handlers /\ Entrants /\ Present /\ Numbers
    BY <1>4 DEF SwitchInit, Handlers, Entrants, Inside, Present, Numbers, Absent
  <1>8. Effects
    <2>1. Done = {} /\ user.revision = 1
      BY DEF SwitchInit, Done
    <2> QED
      BY <2>1, FS_EmptySet DEF Effects
  <1> QED
    BY <1>2, <1>3, <1>5, <1>6, <1>7, <1>8 DEF SwitchInv

LEMMA SwitchPromises ==
  ASSUME SwitchInv
  PROVE  /\ SwitchTypeOK /\ ActiveAgrees /\ LeftBehind /\ SessionsOfThisAssignment
         /\ TakesEffectOnce /\ PhoneAgrees
  <1>1. SwitchTypeOK
    BY DEF SwitchInv, SwitchTypeOK, UserTypes, OperationTypes, RunnerTypes, PlaceTypes
  <1>2. ActiveAgrees
    BY DEF SwitchInv, Present, ActiveAgrees
  <1>3. LeftBehind
    <2>1. ASSUME NEW o \in Operation, operation[o].phase = "commit" PROVE user.pending = o /\ Closed(operation[o].source)
      BY <2>1 DEF SwitchInv, UnderWay, SourceClosed, Left
    <2> QED
      BY <2>1 DEF LeftBehind, Usable, Closed
  <1>4. SessionsOfThisAssignment
    BY DEF SwitchInv, Present, SessionsOfThisAssignment, Usable
  <1>5. TakesEffectOnce
    BY DEF SwitchInv, Effects, Done, TakesEffectOnce
  <1>6. PhoneAgrees
    BY SwitchAssumption DEF SwitchInv, Numbers, PhoneAgrees, Members
  <1> QED
    BY <1>1, <1>2, <1>3, <1>4, <1>5, <1>6

\* What the two databases agree on holds of every state, for any number of
\* enterprises, operations, tickets and runs.
THEOREM SwitchStaysSafe == SwitchSpec =>
    [](/\ SwitchTypeOK /\ ActiveAgrees /\ LeftBehind /\ SessionsOfThisAssignment
       /\ TakesEffectOnce /\ PhoneAgrees)
  <1>1. SwitchInit => SwitchInv
    BY SwitchStart
  <1>2. SwitchInv /\ [SwitchNext]_switchVars => SwitchInv'
    BY SwitchStep
  <1>3. SwitchInv => /\ SwitchTypeOK /\ ActiveAgrees /\ LeftBehind /\ SessionsOfThisAssignment
                     /\ TakesEffectOnce /\ PhoneAgrees
    BY SwitchPromises
  <1> QED
    BY <1>1, <1>2, <1>3, PTL DEF SwitchSpec

\* A report that arrives late never replaces a newer profile.
THEOREM ProfilesMoveForward == SwitchSpec => ProfileNeverGoesBack
  <1> DEFINE Forward == \A t \in Members : membership'[t] >= membership[t]
  <1>1. ASSUME SwitchInv, [SwitchNext]_switchVars PROVE Forward
    <2>1. \A t \in Members : t \in Tenant /\ membership[t] \in Nat
      BY <1>1 DEF SwitchInv, PlaceTypes, Members
    <2>2. CASE membership' = membership
      BY <2>1, <2>2
    <2>3. ASSUME NEW r \in Runner, FinishPrepare(r) PROVE Forward
      <3>1. runner[r].op # NoOp
        BY <2>3 DEF FinishPrepare, At
      <3>2. Of(r).target \in Tenant
        BY <1>1, <3>1, TheRun DEF Of
      <3>3. \A t \in Members : membership'[t] = membership[t]
        BY <1>1, <2>3, <3>2 DEF SwitchInv, PlaceTypes, Members, FinishPrepare
      <3> QED
        BY <2>1, <3>3
    <2>4. ASSUME NEW m \in snapshot, NEW heard \in BOOLEAN, SnapshotArrives(m, heard) PROVE Forward
      <3>1. m.tenant \in Tenant /\ m.version \in Nat
        BY <1>1 DEF SwitchInv, PlaceTypes
      <3>2. CASE UNCHANGED membership
        BY <2>1, <3>2
      <3>3. CASE membership' = StoreSnapshot(m)
        BY <1>1, <2>1, <3>1, <3>3 DEF SwitchInv, PlaceTypes, Members, StoreSnapshot
      <3> QED
        BY <2>4, <3>2, <3>3 DEF SnapshotArrives
    <2>5. CASE OperationNext
      <3>1. (\E r \in Runner : FinishPrepare(r)) \/ UNCHANGED membership
        BY <2>5 DEF OperationNext, SignTicket, StartOperation, RunOperation, RunFails, PrepareTarget, AskOffline,
                    OfflineAnswers, FinishOffline, CommitOperation, TellPhone
      <3> QED
        BY <2>2, <2>3, <3>1
    <2>6. CASE EnterpriseNext \/ \E g \in Grant : Exchange(g)
      <3>1. UNCHANGED membership
        BY <2>6 DEF EnterpriseNext, CloseIdentity, OfflineEnterpriseUser, OfflineFails, Consume, ExchangePrepare,
                    ExchangeActivate, ExchangeSession, ExchangeFails, QuitDevice, AskIMSession, EnsureProvisioned,
                    EditProfile, SyncOnce, Exchange, platformVars
      <3> QED
        BY <2>2, <3>1
    <2> HIDE DEF Forward
    <2>7. CASE UNCHANGED switchVars
      BY <2>2, <2>7 DEF switchVars, platformVars
    <2> QED
      BY <1>1, <2>4, <2>5, <2>6, <2>7 DEF SwitchNext
  <1>2. SwitchInit => SwitchInv
    BY SwitchStart
  <1>3. SwitchInv /\ [SwitchNext]_switchVars => SwitchInv'
    BY SwitchStep
  <1>4. SwitchInv /\ [SwitchNext]_switchVars => [Forward]_switchVars
    BY <1>1
  <1> QED
    BY <1>2, <1>3, <1>4, PTL DEF SwitchSpec, ProfileNeverGoesBack

\* The user is in one enterprise at most, the one the platform assigns, however
\* calls are lost, late or repeated.
THEOREM SwitchKeepsPromise == SwitchSpec => SwitchKept
  BY SwitchStaysSafe, ProfilesMoveForward, PTL DEF SwitchKept

(***************************************************************************)
(* The extensions of messages (MessageExtras).  A transaction locks the     *)
(* index rows of its messages in their order, and what it read of a message *)
(* it holds is so until it ends.                                            *)
(***************************************************************************)
ExtField == {"recalled", "deleted", "version", "pinned"}
JobField == {"op", "todo", "new", "edit", "text"}
Busy(c) == job[c] # Idle
Taken(c) == DOMAIN job[c].new
Prepared(c, m) == job[c].new[m].ext

TableTypes ==
    /\ DOMAIN ext = Msg /\ \A m \in Msg : DOMAIN ext[m] = ExtField /\ ext[m].version \in Nat
    /\ DOMAIN edits = Msg /\ \A m \in Msg : edits[m] \in Seq(Text)
    /\ DOMAIN asked = Msg /\ \A m \in Msg : DOMAIN asked[m] = EditId
    /\ index \subseteq Msg
    /\ DOMAIN reminder = Person /\ \A p \in Person : DOMAIN reminder[p] = Msg

MemberTypes ==
    /\ DOMAIN role = Person
    /\ boundary \in [Person -> Nat] /\ read \in [Person -> Nat] /\ delivered \in [Person -> Nat]
    /\ last \in Nat

\* A transaction locks its messages in their order.
JobTypes ==
    /\ DOMAIN job = Client
    /\ \A c \in Client : Busy(c) =>
          /\ DOMAIN job[c] = JobField /\ job[c].op \in Ops
          /\ job[c].todo \subseteq index /\ Taken(c) \subseteq index
          /\ \A m \in Taken(c), n \in job[c].todo : m < n
          /\ job[c].op = "edit" => /\ job[c].edit \in EditId /\ job[c].text \in Text
                                   /\ Taken(c) \union job[c].todo # {}
                                   /\ \A m, n \in Taken(c) \union job[c].todo : m = n

\* No two hold the index row of a message.
Exclusive == \A c, d \in Client : Busy(c) /\ Busy(d) /\ c # d => Taken(c) \cap Taken(d) = {}

\* The version an edit prepared: the next one, or the one that is there.
EditRight(j, m, v) ==
    /\ v.version = ext[m].version \/ (asked[m][j.edit] = None /\ v.version = ext[m].version + 1)
    /\ asked[m][j.edit] = None => ext[m].version = Len(edits[m])
    /\ asked[m][j.edit] = None /\ v.version = ext[m].version => SameText(m, j.text)

\* What a transaction read of a message it holds is so until it ends: v is what
\* it prepared.
PreparedRight(j, p, m, v) ==
    /\ DOMAIN v = ExtField /\ v.version \in Nat
    /\ j.op = "delete" => v.deleted /\ v.recalled = ext[m].recalled
    /\ j.op # "delete" => ~ext[m].deleted /\ v.deleted = ext[m].deleted
    /\ j.op \in {"recall", "adminRecall"} => v.recalled
    /\ j.op \notin {"delete", "recall", "adminRecall"} => ~ext[m].recalled /\ v.recalled = ext[m].recalled
    /\ j.op \notin {"pin", "unpin"} => v.pinned = ext[m].pinned
    /\ j.op = "pin" /\ m \notin expired => v.pinned
    /\ j.op = "unpin" /\ m \notin expired => ~v.pinned
    /\ j.op # "edit" => v.version = ext[m].version
    /\ j.op = "edit" => EditRight(j, m, v)
    /\ j.op = "recall" => In(p) /\ (p = Author[m] \/ Manages(p))
StillRight(c, m) == PreparedRight(job[c], UserOf[c], m, Prepared(c, m))
JobsRight == \A c \in Client : Busy(c) => \A m \in Taken(c) : StillRight(c, m)

\* Who deletes for everybody holds the rows his right rests on.
DeletersRight == \A c \in Client : Has(c, "delete") =>
    UserOf[c] \in allowed /\ In(UserOf[c]) /\ (kind = "group" => Manages(UserOf[c]))

DeletedIndexed == \A m \in Msg : ext[m].deleted => m \in index

ExtrasInv ==
    /\ TableTypes /\ MemberTypes /\ JobTypes /\ Exclusive /\ JobsRight /\ DeletersRight /\ DeletedIndexed
    /\ ExtensionAgrees /\ DeletedLeavesNothing /\ NothingUnreadBeforeJoining

\* A set of natural numbers has a least member.
LEMMA LeastOf ==
  ASSUME NEW S, S \subseteq Nat, S # {}
  PROVE  \E m \in S : \A k \in S : m <= k
  <1>1. PICK m \in S : \A k \in S : ~(<<k, m>> \in OpToRel(<, Nat))
    BY NatLessThanWellFounded, WFMin
  <1>2. ASSUME NEW k \in S PROVE m <= k
    <2>1. k \in Nat /\ m \in Nat
      OBVIOUS
    <2>2. ~(k < m)
      BY <1>1, <2>1 DEF OpToRel
    <2> QED
      BY <2>1, <2>2
  <1> QED
    BY <1>2

LEMMA MinIsLeast ==
  ASSUME NEW S, S \subseteq Nat, S # {}
  PROVE  Min(S) \in S /\ \A k \in S : Min(S) <= k
  BY LeastOf DEF Min

\* A bounded set of natural numbers that holds 0 has a greatest member.
LEMMA GreatestOf ==
  ASSUME NEW S, S \subseteq Nat, NEW n \in Nat, \A k \in S : k <= n
  PROVE  Max(S \union {0}) \in Nat
  <1> DEFINE T == {n - k : k \in S \union {0}}
  <1>2. T \subseteq Nat /\ T # {}
    OBVIOUS
  <1>3. PICK d \in T : \A x \in T : d <= x
    BY <1>2, LeastOf
  <1>4. PICK m \in S \union {0} : d = n - m
    BY <1>3
  <1>5. ASSUME NEW k \in S \union {0} PROVE m >= k
    <2>1. n - k \in T /\ k \in Nat /\ m \in Nat
      BY <1>4
    <2>2. n - m <= n - k
      BY <1>3, <1>4, <2>1
    <2> QED
      BY <2>1, <2>2
  <1>6. Max(S \union {0}) \in S \union {0}
    BY <1>5 DEF Max
  <1>7. S \union {0} \subseteq Nat
    OBVIOUS
  <1> HIDE DEF T
  <1> QED
    BY <1>6, <1>7

LEMMA MaxOfTwo ==
  ASSUME NEW x \in Nat, NEW y \in Nat
  PROVE  Max({x, y}) \in Nat /\ Max({x, y}) >= x /\ Max({x, y}) >= y
  <1>1. \E m \in {x, y} : \A k \in {x, y} : m >= k
    BY DEF Max
  <1>2. Max({x, y}) \in {x, y} /\ \A k \in {x, y} : Max({x, y}) >= k
    BY <1>1 DEF Max
  <1> QED
    BY <1>2

LEMMA MessagesAreNumbers == Msg \subseteq Nat /\ \A m \in Msg : m >= 1
  <1>1. Cardinality(Msg) \in Nat
    BY ExtrasAssumption, FS_CardinalityType
  <1> QED
    BY <1>1, ExtrasAssumption

\* No two transactions wait for each other's messages: both lock in order.
LEMMA OrderPreventsCycle ==
  ASSUME JobTypes, index \subseteq Msg
  PROVE  NoWaitCycle
  <1> SUFFICES ASSUME NEW x \in Client, NEW y \in Client, Busy(x), Busy(y), job[x].todo # {}, job[y].todo # {},
                      NextToLock(x, job[x]) \in Taken(y), NextToLock(y, job[y]) \in Taken(x)
               PROVE  FALSE
    BY DEF NoWaitCycle, Busy, Taken
  <1> DEFINE m == Min(job[x].todo)
             n == Min(job[y].todo)
  <1>1. job[x].todo \subseteq Nat /\ job[y].todo \subseteq Nat
    BY MessagesAreNumbers DEF JobTypes
  <1>2. m \in job[x].todo /\ n \in job[y].todo /\ m \in Nat /\ n \in Nat
    BY <1>1, MinIsLeast
  <1>3. m \in Taken(y) /\ n \in Taken(x)
    BY DEF NextToLock
  <1>4. m < n /\ n < m
    BY <1>2, <1>3 DEF JobTypes
  <1> QED
    BY <1>2, <1>4

MemberPart == MemberTypes /\ NothingUnreadBeforeJoining
TablePart == TableTypes /\ ExtensionAgrees /\ DeletedLeavesNothing /\ DeletedIndexed
JobPart == JobTypes /\ Exclusive /\ JobsRight /\ DeletersRight

LEMMA MembersStay ==
  ASSUME MemberPart, UNCHANGED <<role, boundary, read, delivered>>, last' \in Nat
  PROVE  MemberPart'
  BY DEF MemberPart, MemberTypes, NothingUnreadBeforeJoining, In

LEMMA TablesStay ==
  ASSUME TablePart, UNCHANGED <<ext, edits, asked, index, reminder, pins, expired>>
  PROVE  TablePart'
  BY DEF TablePart, TableTypes, ExtensionAgrees, DeletedLeavesNothing, DeletedIndexed

\* What a transaction read of a message it holds is so while the message and,
\* for a recall, the membership stay.
LEMMA HeldStays ==
  ASSUME NEW c \in Client, NEW m, job'[c] = job[c], StillRight(c, m),
         ext'[m] = ext[m], edits'[m] = edits[m], asked'[m] = asked[m], m \notin expired' => m \notin expired,
         job[c].op = "recall" => role'[UserOf[c]] = role[UserOf[c]]
  PROVE  StillRight(c, m)'
  <1>1. ASSUME NEW j, j = job[c], NEW v
        PROVE  PreparedRight(j, UserOf[c], m, v) => PreparedRight(j, UserOf[c], m, v)'
    <2>1. EditRight(j, m, v) => EditRight(j, m, v)'
      BY DEF EditRight, SameText
    <2>2. j.op = "recall" => (In(UserOf[c]) => In(UserOf[c])') /\ (Manages(UserOf[c]) => Manages(UserOf[c])')
      BY <1>1 DEF In, Manages
    <2>3. j.op = "edit" => (EditRight(j, m, v) => EditRight(j, m, v)')
      BY <2>1
    <2> QED
      BY <2>2, <2>3 DEF PreparedRight
  <1> QED
    BY <1>1 DEF StillRight, Prepared

\* Transactions that go on see no change of what they hold.
LEMMA JobsGoOn ==
  ASSUME JobPart, DOMAIN job' = Client, \A c \in Client : job'[c] = job[c] \/ job'[c] = Idle,
         kind' = kind, index \subseteq index',
         \A c \in Client, m \in Msg : Busy(c) /\ m \in Taken(c) /\ job'[c] = job[c] =>
            ext'[m] = ext[m] /\ edits'[m] = edits[m] /\ asked'[m] = asked[m] /\ (m \notin expired' => m \notin expired),
         \A c \in Client, m \in Msg : Has(c, "recall") /\ m \in Taken(c) => role'[UserOf[c]] = role[UserOf[c]],
         \A c \in Client : Has(c, "delete") =>
            role'[UserOf[c]] = role[UserOf[c]] /\ (UserOf[c] \in allowed => UserOf[c] \in allowed'),
         index \subseteq Msg
  PROVE  JobPart'
  <1>1. \A c \in Client : job'[c] # Idle => job'[c] = job[c] /\ Busy(c)
    BY DEF Busy
  <1>2. JobTypes' /\ Exclusive'
    BY <1>1 DEF JobPart, JobTypes, Exclusive, Busy, Taken
  <1>3. ASSUME NEW c \in Client, Busy(c)', NEW m \in Taken(c)' PROVE StillRight(c, m)'
    <2>1. job'[c] = job[c] /\ Busy(c) /\ m \in Taken(c)
      BY <1>1, <1>3 DEF Busy, Taken
    <2>2. m \in Msg /\ StillRight(c, m)
      BY <2>1 DEF JobPart, JobTypes, JobsRight
    <2>3. ext'[m] = ext[m] /\ edits'[m] = edits[m] /\ asked'[m] = asked[m] /\ (m \notin expired' => m \notin expired)
      BY <2>1, <2>2
    <2>4. job[c].op = "recall" => role'[UserOf[c]] = role[UserOf[c]]
      BY <2>1, <2>2 DEF Has
    <2> QED
      BY <2>1, <2>2, <2>3, <2>4, HeldStays
  <1>4. JobsRight'
    BY <1>3 DEF JobsRight
  <1>5. DeletersRight'
    BY <1>1 DEF JobPart, DeletersRight, Has, In, Manages, Idle
  <1> QED
    BY <1>2, <1>4, <1>5 DEF JobPart

LEMMA JobsStay ==
  ASSUME JobPart, job' = job, kind' = kind, index \subseteq index',
         \A c \in Client, m \in Msg : Busy(c) /\ m \in Taken(c) =>
            ext'[m] = ext[m] /\ edits'[m] = edits[m] /\ asked'[m] = asked[m] /\ (m \notin expired' => m \notin expired),
         \A c \in Client, m \in Msg : Has(c, "recall") /\ m \in Taken(c) => role'[UserOf[c]] = role[UserOf[c]],
         \A c \in Client : Has(c, "delete") =>
            role'[UserOf[c]] = role[UserOf[c]] /\ (UserOf[c] \in allowed => UserOf[c] \in allowed'),
         index \subseteq Msg
  PROVE  JobPart'
  <1>1. DOMAIN job' = Client
    BY DEF JobPart, JobTypes
  <1> QED
    BY <1>1, JobsGoOn

LEMMA ThreeParts == ExtrasInv <=> MemberPart /\ TablePart /\ JobPart
  BY DEF ExtrasInv, MemberPart, TablePart, JobPart

LEMMA IndexedMessages ==
  ASSUME ExtrasInv
  PROVE  index \subseteq Msg
  BY DEF ExtrasInv, TableTypes

LEMMA SetRoleKeeps ==
  ASSUME ExtrasInv, NEW p \in Person, NEW r \in Roles, SetRole(p, r)
  PROVE  ExtrasInv'
  <1>1. /\ In(p) /\ ~HoldsMember(p) /\ role' = [role EXCEPT ![p] = r]
        /\ kind' = kind /\ allowed' = allowed /\ last' = last /\ index' = index /\ expired' = expired
        /\ boundary' = boundary /\ job' = job /\ UNCHANGED <<data, marks>>
    BY DEF SetRole
  <1>2. UNCHANGED <<ext, edits, asked, reminder, pins, read, delivered>>
    BY <1>1 DEF data, marks
  <1>3. DOMAIN role = Person /\ last \in Nat
    BY DEF ExtrasInv, MemberTypes
  <1>4. DOMAIN role' = Person /\ role'[p] = r /\ \A q \in Person : q # p => role'[q] = role[q]
    BY <1>1, <1>3
  <1>5. MemberPart'
    <2>1. \A q \in Person : In(q)' => In(q)
      BY <1>1, <1>4 DEF In
    <2> QED
      BY <1>1, <1>2, <1>4, <2>1 DEF ExtrasInv, MemberPart, MemberTypes, NothingUnreadBeforeJoining
  <1>6. TablePart'
    BY <1>1, <1>2, ThreeParts, TablesStay
  <1>7. ASSUME NEW c \in Client, NEW m \in Msg, Has(c, "recall"), m \in Taken(c) PROVE role'[UserOf[c]] = role[UserOf[c]]
    <2>1. job[c].new # <<>>
      BY <1>7 DEF Taken
    <2>2. UserOf[c] # p
      BY <1>1, <1>7, <2>1 DEF HoldsMember
    <2> QED
      BY <1>4, <2>2, ExtrasAssumption
  <1>8. ASSUME NEW c \in Client, Has(c, "delete") PROVE role'[UserOf[c]] = role[UserOf[c]]
    <2>1. UserOf[c] # p
      BY <1>1, <1>8 DEF HoldsMember
    <2> QED
      BY <1>4, <2>1, ExtrasAssumption
  <1>9. JobPart'
    BY <1>1, <1>2, <1>7, <1>8, IndexedMessages, ThreeParts, JobsStay
  <1> QED
    BY <1>5, <1>6, <1>9 DEF ExtrasInv, MemberPart, TablePart, JobPart

LEMMA AddKeeps ==
  ASSUME ExtrasInv, NEW p \in Person, AddGroupMembersWithHistory(p)
  PROVE  ExtrasInv'
  <1>1. /\ ~In(p) /\ role' = [role EXCEPT ![p] = "member"] /\ boundary' = [boundary EXCEPT ![p] = last]
        /\ read' = [read EXCEPT ![p] = last] /\ delivered' = [delivered EXCEPT ![p] = last] /\ ~HoldsGroup
        /\ kind' = kind /\ allowed' = allowed /\ last' = last /\ index' = index /\ expired' = expired
        /\ job' = job /\ UNCHANGED data
    BY DEF AddGroupMembersWithHistory
  <1>2. UNCHANGED <<ext, edits, asked, reminder, pins>>
    BY <1>1 DEF data
  <1>3. DOMAIN role = Person /\ last \in Nat
        /\ boundary \in [Person -> Nat] /\ read \in [Person -> Nat] /\ delivered \in [Person -> Nat]
    BY DEF ExtrasInv, MemberTypes
  <1>4. /\ DOMAIN role' = Person /\ \A q \in Person : q # p => role'[q] = role[q]
        /\ boundary' \in [Person -> Nat] /\ read' \in [Person -> Nat] /\ delivered' \in [Person -> Nat]
        /\ boundary'[p] = last /\ read'[p] = last /\ delivered'[p] = last
        /\ \A q \in Person : q # p => boundary'[q] = boundary[q] /\ read'[q] = read[q] /\ delivered'[q] = delivered[q]
    BY <1>1, <1>3
  <1>5. MemberPart'
    <2>1. \A q \in Person : q # p => (In(q)' <=> In(q))
      BY <1>4 DEF In
    <2>2. ASSUME NEW q \in Person, In(q)' PROVE read'[q] >= boundary'[q] /\ delivered'[q] >= boundary'[q]
      <3>1. CASE q = p
        BY <1>3, <1>4, <3>1
      <3>2. CASE q # p
        BY <1>4, <2>1, <2>2, <3>2 DEF ExtrasInv, NothingUnreadBeforeJoining
      <3> QED
        BY <3>1, <3>2
    <2> QED
      BY <1>1, <1>3, <1>4, <2>2 DEF MemberPart, MemberTypes, NothingUnreadBeforeJoining
  <1>6. TablePart'
    BY <1>1, <1>2, ThreeParts, TablesStay
  <1>7. ASSUME NEW c \in Client, NEW m \in Msg, Has(c, "recall"), m \in Taken(c) PROVE role'[UserOf[c]] = role[UserOf[c]]
    <2>1. In(UserOf[c])
      BY <1>7 DEF ExtrasInv, JobsRight, StillRight, PreparedRight, Has, Busy, Idle
    <2> QED
      BY <1>1, <1>4, <2>1, ExtrasAssumption
  <1>8. ASSUME NEW c \in Client, Has(c, "delete") PROVE role'[UserOf[c]] = role[UserOf[c]]
    BY <1>1, <1>8 DEF HoldsGroup
  <1>9. JobPart'
    BY <1>1, <1>2, <1>7, <1>8, IndexedMessages, ThreeParts, JobsStay
  <1> QED
    BY <1>5, <1>6, <1>9 DEF ExtrasInv, MemberPart, TablePart, JobPart

LEMMA VisibilityKeeps ==
  ASSUME ExtrasInv, SetGroupHistoryVisibility
  PROVE  ExtrasInv' /\ \A p \in Person : read'[p] >= read[p]
  <1>1. /\ read' = [p \in Person |-> IF In(p) THEN Max({read[p], boundary[p]}) ELSE read[p]]
        /\ kind' = kind /\ allowed' = allowed /\ last' = last /\ index' = index /\ expired' = expired
        /\ role' = role /\ boundary' = boundary /\ delivered' = delivered /\ job' = job /\ UNCHANGED data
    BY DEF SetGroupHistoryVisibility
  <1>2. UNCHANGED <<ext, edits, asked, reminder, pins>>
    BY <1>1 DEF data
  <1>3. last \in Nat /\ boundary \in [Person -> Nat] /\ read \in [Person -> Nat]
    BY DEF ExtrasInv, MemberTypes
  <1>4. ASSUME NEW p \in Person PROVE read'[p] \in Nat /\ read'[p] >= read[p]
    <2>1. read[p] \in Nat /\ boundary[p] \in Nat
      BY <1>3
    <2>2. CASE In(p)
      BY <1>1, <2>1, <2>2, MaxOfTwo
    <2>3. CASE ~In(p)
      BY <1>1, <2>1, <2>3
    <2> QED
      BY <2>2, <2>3
  <1>5. read' \in [Person -> Nat]
    <2>1. read' = [p \in Person |-> read'[p]]
      BY <1>1
    <2> QED
      BY <1>4, <2>1
  <1>6. MemberPart'
    <2>1. ASSUME NEW q \in Person, In(q) PROVE read'[q] >= boundary[q] /\ delivered[q] >= boundary[q]
      <3>1. read[q] \in Nat /\ boundary[q] \in Nat /\ read[q] >= boundary[q] /\ delivered[q] >= boundary[q]
        BY <1>3, <2>1 DEF ExtrasInv, NothingUnreadBeforeJoining
      <3> QED
        BY <1>4, <3>1
    <2> QED
      BY <1>1, <1>5, <2>1 DEF ExtrasInv, MemberPart, MemberTypes, NothingUnreadBeforeJoining, In
  <1>7. TablePart'
    BY <1>1, <1>2, ThreeParts, TablesStay
  <1>8. JobPart'
    BY <1>1, <1>2, IndexedMessages, ThreeParts, JobsStay
  <1> QED
    BY <1>4, <1>6, <1>7, <1>8 DEF ExtrasInv, MemberPart, TablePart, JobPart

LEMMA MarksKeep ==
  ASSUME ExtrasInv, NEW p \in Person, NEW s \in Msg, MarkRead(p, s) \/ MarkDelivered(p, s)
  PROVE  ExtrasInv' /\ \A q \in Person : read'[q] >= read[q]
  <1>1. /\ UNCHANGED <<base, data, job>> /\ In(p)
        /\ \/ read' = [read EXCEPT ![p] = Max({read[p], Min({s, Newest})})] /\ delivered' = delivered
           \/ delivered' = [delivered EXCEPT ![p] = Max({delivered[p], Min({s, Newest})})] /\ read' = read
    BY DEF MarkRead, MarkDelivered
  <1>2. UNCHANGED <<kind, role, boundary, allowed, last, index, expired, ext, edits, asked, reminder, pins, job>>
    BY <1>1 DEF base, data
  <1>3. last \in Nat /\ boundary \in [Person -> Nat] /\ read \in [Person -> Nat] /\ delivered \in [Person -> Nat]
    BY DEF ExtrasInv, MemberTypes
  <1>4. Min({s, Newest}) \in Nat
    <2>1. s \in Nat /\ index \subseteq Nat /\ Cardinality(Msg) \in Nat /\ \A m \in index : m <= Cardinality(Msg)
      BY MessagesAreNumbers, IndexedMessages, ExtrasAssumption, FS_CardinalityType
    <2>2. Newest \in Nat
      BY <2>1, GreatestOf DEF Newest
    <2> QED
      BY <2>1, <2>2, MinIsLeast
  <1>5. /\ read' \in [Person -> Nat] /\ delivered' \in [Person -> Nat]
        /\ \A q \in Person : read'[q] >= read[q] /\ delivered'[q] >= delivered[q]
    <2>1. /\ Max({read[p], Min({s, Newest})}) \in Nat /\ Max({read[p], Min({s, Newest})}) >= read[p]
          /\ Max({delivered[p], Min({s, Newest})}) \in Nat /\ Max({delivered[p], Min({s, Newest})}) >= delivered[p]
      BY <1>3, <1>4, MaxOfTwo
    <2>2. ASSUME NEW f \in [Person -> Nat], NEW n \in Nat, n >= f[p], NEW h, h = [f EXCEPT ![p] = n]
          PROVE  h \in [Person -> Nat] /\ \A q \in Person : h[q] >= f[q]
      BY <2>2
    <2>3. \A q \in Person : read[q] >= read[q] /\ delivered[q] >= delivered[q]
      BY <1>3
    <2>4. CASE read' = [read EXCEPT ![p] = Max({read[p], Min({s, Newest})})] /\ delivered' = delivered
      BY <1>3, <2>1, <2>2, <2>3, <2>4
    <2>5. CASE delivered' = [delivered EXCEPT ![p] = Max({delivered[p], Min({s, Newest})})] /\ read' = read
      BY <1>3, <2>1, <2>2, <2>3, <2>5
    <2> QED
      BY <1>1, <2>4, <2>5
  <1>6. MemberPart'
    <2>1. ASSUME NEW q \in Person, In(q) PROVE read'[q] >= boundary[q] /\ delivered'[q] >= boundary[q]
      <3>1. /\ read[q] \in Nat /\ boundary[q] \in Nat /\ delivered[q] \in Nat
            /\ read[q] >= boundary[q] /\ delivered[q] >= boundary[q]
            /\ read'[q] \in Nat /\ delivered'[q] \in Nat
        BY <1>3, <1>5, <2>1 DEF ExtrasInv, NothingUnreadBeforeJoining
      <3> QED
        BY <1>5, <3>1
    <2> QED
      BY <1>2, <1>5, <2>1 DEF ExtrasInv, MemberPart, MemberTypes, NothingUnreadBeforeJoining, In
  <1>7. TablePart'
    BY <1>2, ThreeParts, TablesStay
  <1>8. JobPart'
    BY <1>2, IndexedMessages, ThreeParts, JobsStay
  <1> QED
    BY <1>5, <1>6, <1>7, <1>8 DEF ExtrasInv, MemberPart, TablePart, JobPart

LEMMA InternalKeeps ==
  ASSUME ExtrasInv, NEW p \in Person, SetUserInternal(p)
  PROVE  ExtrasInv'
  <1>1. /\ ~HoldsUser(p) /\ allowed' = (allowed \ {p}) \union ({p} \ allowed)
        /\ kind' = kind /\ role' = role /\ boundary' = boundary /\ last' = last /\ index' = index
        /\ expired' = expired /\ job' = job /\ UNCHANGED <<data, marks>>
    BY DEF SetUserInternal
  <1>2. UNCHANGED <<ext, edits, asked, reminder, pins, read, delivered>>
    BY <1>1 DEF data, marks
  <1>3. last' \in Nat
    BY <1>1 DEF ExtrasInv, MemberTypes
  <1>4. MemberPart' /\ TablePart'
    BY <1>1, <1>2, <1>3, ThreeParts, MembersStay, TablesStay
  <1>5. ASSUME NEW c \in Client, Has(c, "delete"), UserOf[c] \in allowed PROVE UserOf[c] \in allowed'
    BY <1>1, <1>5 DEF HoldsUser
  <1>6. JobPart'
    BY <1>1, <1>2, <1>5, IndexedMessages, ThreeParts, JobsStay
  <1> QED
    BY <1>4, <1>6 DEF ExtrasInv, MemberPart, TablePart, JobPart

\* A step that leaves the tables, the transactions and the members as they are.
LEMMA RestStays ==
  ASSUME ExtrasInv, last' \in Nat,
         UNCHANGED <<role, boundary, read, delivered, ext, edits, asked, index, reminder, pins, expired, kind, job, allowed>>
  PROVE  ExtrasInv'
  <1>1. MemberPart' /\ TablePart'
    BY ThreeParts, MembersStay, TablesStay
  <1>2. JobPart'
    BY IndexedMessages, ThreeParts, JobsStay
  <1> QED
    BY <1>1, <1>2 DEF ExtrasInv, MemberPart, TablePart, JobPart

LEMMA StoreKeeps ==
  ASSUME ExtrasInv, Store
  PROVE  ExtrasInv'
  <1>1. last' \in Nat
    BY DEF ExtrasInv, MemberTypes, Store
  <1> QED
    BY <1>1, RestStays DEF Store, data, marks

LEMMA ClientKeeps ==
  ASSUME ExtrasInv, \/ \E p \in Person, m \in Msg, on \in BOOLEAN : SetWukongFavorite(p, m, on)
                    \/ \E size \in 1 .. Cardinality(Msg) : SyncWukongMessageExtras(size)
                    \/ \E ms \in SUBSET Msg : LoadWukongMessageExtensions(ms)
                    \/ UNCHANGED extrasVars
  PROVE  ExtrasInv'
  <1>1. last' = last
    BY DEF SetWukongFavorite, SyncWukongMessageExtras, LoadWukongMessageExtensions, extrasVars, base
  <1>2. last' \in Nat
    BY <1>1 DEF ExtrasInv, MemberTypes
  <1>3. UNCHANGED <<role, boundary, read, delivered, ext, edits, asked, index, reminder, pins, expired, kind, job, allowed>>
    BY DEF SetWukongFavorite, SyncWukongMessageExtras, LoadWukongMessageExtensions, extrasVars, base, data, marks
  <1> QED
    BY <1>2, <1>3, RestStays

LEMMA RemindersDone ==
  ASSUME ExtrasInv, NEW p \in Person, NEW ms \in SUBSET Msg, DoneWukongReminders(p, ms)
  PROVE  ExtrasInv'
  <1>1. /\ reminder' = [reminder EXCEPT ![p] = [m \in Msg |-> IF m \in ms THEN "done" ELSE reminder[p][m]]]
        /\ UNCHANGED <<role, boundary, read, delivered, ext, edits, asked, index, pins, expired, kind, job, allowed, last>>
    BY DEF DoneWukongReminders, base, marks
  <1>2. /\ DOMAIN reminder' = Person /\ \A q \in Person : DOMAIN reminder'[q] = Msg
        /\ \A q \in Person, m \in Msg : reminder'[q][m] = "open" => reminder[q][m] = "open"
    BY <1>1 DEF ExtrasInv, TableTypes
  <1>3. MemberPart'
    BY <1>1, ThreeParts, MembersStay DEF ExtrasInv, MemberTypes
  <1>4. TablePart'
    BY <1>1, <1>2 DEF ExtrasInv, TablePart, TableTypes, ExtensionAgrees, DeletedLeavesNothing, DeletedIndexed
  <1>5. JobPart'
    BY <1>1, IndexedMessages, ThreeParts, JobsStay
  <1> QED
    BY <1>3, <1>4, <1>5 DEF ExtrasInv, MemberPart, TablePart, JobPart

LEMMA ReportKeeps ==
  ASSUME ExtrasInv, NEW m \in Msg, NEW answered \in BOOLEAN, PutWukongWebhookEvent(m, answered)
  PROVE  ExtrasInv'
  <1>1. UNCHANGED <<role, boundary, read, delivered, ext, edits, asked, pins, expired, kind, job, allowed, last>>
    BY DEF PutWukongWebhookEvent, marks
  <1>2. CASE m \in index
    BY <1>1, <1>2, RestStays DEF ExtrasInv, MemberTypes, PutWukongWebhookEvent
  <1>3. CASE m \notin index
    <2>1. /\ index' = index \union {m}
          /\ reminder' = [p \in Person |->
                IF kind = "group" /\ In(p) /\ p # Author[m] /\ reminder[p][m] = "none"
                THEN [reminder[p] EXCEPT ![m] = "open"] ELSE reminder[p]]
      BY <1>3 DEF PutWukongWebhookEvent, IndexWukongMessage, IndexWukongMentionReminders
    <2>2. /\ DOMAIN reminder' = Person /\ \A q \in Person : DOMAIN reminder'[q] = Msg
          /\ \A q \in Person, n \in Msg : n # m => reminder'[q][n] = reminder[q][n]
      BY <2>1 DEF ExtrasInv, TableTypes
    <2>3. MemberPart'
      BY <1>1, ThreeParts, MembersStay DEF ExtrasInv, MemberTypes
    <2>4. \A n \in Msg : ext[n].deleted => n \in index /\ n # m
      BY <1>3 DEF ExtrasInv, DeletedIndexed
    <2>5. TablePart'
      BY <1>1, <2>1, <2>2, <2>4 DEF ExtrasInv, TablePart, TableTypes, ExtensionAgrees, DeletedLeavesNothing, DeletedIndexed
    <2>6. JobPart'
      BY <1>1, <2>1, IndexedMessages, ThreeParts, JobsStay
    <2> QED
      BY <2>3, <2>5, <2>6 DEF ExtrasInv, MemberPart, TablePart, JobPart
  <1> QED
    BY <1>2, <1>3

LEMMA ExpireKeeps ==
  ASSUME ExtrasInv, NEW m \in Msg, ExpireMessages(m)
  PROVE  ExtrasInv'
  <1>1. /\ m \in index /\ ~Locked(m) /\ expired' = expired \union {m} /\ ext' = [ext EXCEPT ![m] = Blank]
        /\ pins' = pins \ {m} /\ reminder' = [p \in Person |-> [reminder[p] EXCEPT ![m] = "none"]]
        /\ UNCHANGED <<role, boundary, read, delivered, edits, asked, index, kind, job, allowed, last>>
    BY DEF ExpireMessages, marks
  <1>2. /\ DOMAIN reminder' = Person /\ \A q \in Person : DOMAIN reminder'[q] = Msg
        /\ \A q \in Person, n \in Msg : n # m => reminder'[q][n] = reminder[q][n]
        /\ \A q \in Person : reminder'[q][m] = "none"
    BY <1>1 DEF ExtrasInv, TableTypes
  <1>3. /\ DOMAIN ext' = Msg /\ \A n \in Msg : n # m => ext'[n] = ext[n]
        /\ ext'[m] = [recalled |-> FALSE, deleted |-> FALSE, version |-> 0, pinned |-> FALSE]
    BY <1>1 DEF ExtrasInv, TableTypes, Blank
  <1>4. MemberPart'
    BY <1>1, ThreeParts, MembersStay DEF ExtrasInv, MemberTypes
  <1>5. TableTypes'
    BY <1>1, <1>2, <1>3 DEF ExtrasInv, TableTypes, ExtField
  <1>6. ExtensionAgrees'
    <2>1. m \in expired'
      BY <1>1
    <2>2. ExtensionAgrees
      BY DEF ExtrasInv
    <2> QED
      BY <1>1, <1>3, <2>1, <2>2 DEF ExtensionAgrees
  <1>7. DeletedLeavesNothing' /\ DeletedIndexed'
    BY <1>1, <1>2, <1>3 DEF ExtrasInv, DeletedLeavesNothing, DeletedIndexed
  <1>8. ASSUME NEW c \in Client, NEW n \in Msg, Busy(c), n \in Taken(c)
        PROVE  ext'[n] = ext[n] /\ edits'[n] = edits[n] /\ asked'[n] = asked[n] /\ (n \notin expired' => n \notin expired)
    BY <1>1, <1>3, <1>8 DEF Locked, Busy, Taken
  <1>9. JobPart'
    BY <1>1, <1>8, IndexedMessages, ThreeParts, JobsStay
  <1> QED
    BY <1>4, <1>5, <1>6, <1>7, <1>9 DEF ExtrasInv, MemberPart, TablePart, JobPart

\* A transaction that begins has taken nothing yet.
LEMMA BeginKeeps ==
  ASSUME ExtrasInv, NEW c \in Client, NEW j, DOMAIN j = JobField, j.op \in Ops, j.new = <<>>,
         j.op = "edit" => /\ j.edit \in EditId /\ j.text \in Text
                          /\ j.todo # {} /\ \A m, n \in j.todo : m = n,
         j.op = "delete" => UserOf[c] \in allowed /\ In(UserOf[c]) /\ (kind = "group" => Manages(UserOf[c])),
         Begin(c, j)
  PROVE  ExtrasInv'
  <1>1. /\ job[c] = Idle /\ j.todo \subseteq index /\ job' = [job EXCEPT ![c] = j]
        /\ UNCHANGED <<role, boundary, read, delivered, ext, edits, asked, index, reminder, pins, expired, kind, allowed, last>>
    BY DEF Begin, base, data, marks
  <1>2. DOMAIN job = Client
    BY DEF ExtrasInv, JobTypes
  <1>3. DOMAIN job' = Client /\ job'[c] = j /\ \A d \in Client : d # c => job'[d] = job[d]
    BY <1>1, <1>2
  <1>4. DOMAIN j.new = {}
    OBVIOUS
  <1>5. MemberPart' /\ TablePart'
    <2>1. last' \in Nat
      BY <1>1 DEF ExtrasInv, MemberTypes
    <2> QED
      BY <1>1, <2>1, ThreeParts, MembersStay, TablesStay
  <1>6. JobTypes'
    <2>1. ASSUME NEW d \in Client, Busy(d)'
          PROVE  /\ DOMAIN job'[d] = JobField /\ job'[d].op \in Ops
                 /\ job'[d].todo \subseteq index /\ Taken(d)' \subseteq index
                 /\ \A m \in Taken(d)', n \in job'[d].todo : m < n
                 /\ job'[d].op = "edit" => /\ job'[d].edit \in EditId /\ job'[d].text \in Text
                                           /\ Taken(d)' \union job'[d].todo # {}
                                           /\ \A m, n \in Taken(d)' \union job'[d].todo : m = n
      <3>1. CASE d = c
        BY <1>1, <1>3, <1>4, <3>1 DEF Taken
      <3>2. CASE d # c
        BY <1>3, <2>1, <3>2 DEF ExtrasInv, JobTypes, Busy, Taken
      <3> QED
        BY <3>1, <3>2
    <2> QED
      BY <1>1, <1>3, <2>1 DEF JobTypes
  <1>7. Exclusive'
    <2>1. \A d \in Client : Busy(d)' /\ d # c => Busy(d) /\ Taken(d)' = Taken(d)
      BY <1>3 DEF Busy, Taken
    <2>2. Taken(c)' = {}
      BY <1>3, <1>4 DEF Taken
    <2> QED
      BY <2>1, <2>2 DEF ExtrasInv, Exclusive
  <1>8. JobsRight'
    <2>1. ASSUME NEW d \in Client, Busy(d)', NEW m \in Taken(d)' PROVE StillRight(d, m)'
      <3>1. d # c
        BY <1>3, <1>4, <2>1 DEF Taken
      <3>2. job'[d] = job[d] /\ Busy(d) /\ m \in Taken(d)
        BY <1>3, <2>1, <3>1 DEF Busy, Taken
      <3>3. StillRight(d, m)
        BY <3>2 DEF ExtrasInv, JobsRight
      <3> QED
        BY <1>1, <3>2, <3>3, HeldStays
    <2> QED
      BY <2>1 DEF JobsRight
  <1>9. DeletersRight'
    <2>1. ASSUME NEW d \in Client, Has(d, "delete")'
          PROVE  UserOf[d] \in allowed /\ In(UserOf[d]) /\ (kind = "group" => Manages(UserOf[d]))
      <3>1. CASE d = c
        BY <1>3, <2>1, <3>1 DEF Has
      <3>2. CASE d # c
        BY <1>3, <2>1, <3>2 DEF ExtrasInv, DeletersRight, Has
      <3> QED
        BY <3>1, <3>2
    <2> QED
      BY <1>1, <2>1 DEF DeletersRight, In, Manages
  <1> QED
    BY <1>5, <1>6, <1>7, <1>8, <1>9 DEF ExtrasInv, MemberPart, TablePart, JobPart

LEMMA BeginningsKeep ==
  ASSUME ExtrasInv, NEW c \in Client,
         \/ \E m \in Msg : RecallAuthorized(c, m) \/ AdminRecallWukongMessage(c, m)
         \/ \E m \in Msg, e \in EditId, t \in Text : EditWukongMessage(c, m, e, t)
         \/ \E m \in Msg, on \in BOOLEAN : ReactWukongMessage(c, m, on)
         \/ \E m \in Msg, pin \in BOOLEAN : SetWukongGroupMessagePin(c, m, pin)
         \/ \E ms \in SUBSET Msg : DeleteMessagesForEveryone(c, ms)
  PROVE  ExtrasInv'
  <1>1. ASSUME NEW op \in Ops, NEW ms \in SUBSET Msg, NEW e, NEW t, Begin(c, Job(op, ms, e, t)),
               op = "edit" => /\ e \in EditId /\ t \in Text
                              /\ ms # {} /\ \A m, n \in ms : m = n,
               op = "delete" => UserOf[c] \in allowed /\ In(UserOf[c]) /\ (kind = "group" => Manages(UserOf[c]))
        PROVE  ExtrasInv'
    <2> DEFINE j == Job(op, ms, e, t)
    <2>1. DOMAIN j = JobField /\ j.op = op /\ j.new = <<>> /\ j.todo = ms /\ j.edit = e /\ j.text = t
      BY DEF Job, JobField
    <2>2. Begin(c, j)
      BY <1>1
    <2> HIDE DEF j
    <2> QED
      BY <1>1, <2>1, <2>2, BeginKeeps
  <1>2. ASSUME NEW op \in Ops \ {"edit", "delete"}, NEW m \in Msg, Begin(c, Plain(op, m)) PROVE ExtrasInv'
    BY <1>1, <1>2 DEF Plain
  <1>3. CASE \E m \in Msg : RecallAuthorized(c, m) \/ AdminRecallWukongMessage(c, m)
    BY <1>2, <1>3 DEF RecallAuthorized, AdminRecallWukongMessage, Ops
  <1>4. CASE \E m \in Msg, e \in EditId, t \in Text : EditWukongMessage(c, m, e, t)
    <2>1. PICK m \in Msg, e \in EditId, t \in Text : Begin(c, Job("edit", {m}, e, t))
      BY <1>4 DEF EditWukongMessage
    <2> QED
      BY <1>1, <2>1 DEF Ops
  <1>5. CASE \E m \in Msg, on \in BOOLEAN : ReactWukongMessage(c, m, on)
    BY <1>2, <1>5 DEF ReactWukongMessage, Ops
  <1>6. CASE \E m \in Msg, pin \in BOOLEAN : SetWukongGroupMessagePin(c, m, pin)
    BY <1>2, <1>6 DEF SetWukongGroupMessagePin, Ops
  <1>7. CASE \E ms \in SUBSET Msg : DeleteMessagesForEveryone(c, ms)
    <2>1. PICK ms \in SUBSET Msg : DeleteMessagesForEveryone(c, ms)
      BY <1>7
    <2> QED
      BY <1>1, <2>1 DEF DeleteMessagesForEveryone, Ops
  <1> QED
    BY <1>3, <1>4, <1>5, <1>6, <1>7

LEMMA RollbackKeeps ==
  ASSUME ExtrasInv, NEW c \in Client, Rollback(c)
  PROVE  ExtrasInv'
  <1>1. /\ job' = [job EXCEPT ![c] = Idle]
        /\ UNCHANGED <<role, boundary, read, delivered, ext, edits, asked, index, reminder, pins, expired, kind, allowed, last>>
    BY DEF Rollback, base, data, marks
  <1>2. DOMAIN job' = Client /\ \A d \in Client : job'[d] = job[d] \/ job'[d] = Idle
    BY <1>1 DEF ExtrasInv, JobTypes
  <1>3. last' \in Nat
    BY <1>1 DEF ExtrasInv, MemberTypes
  <1>4. MemberPart' /\ TablePart'
    BY <1>1, <1>3, ThreeParts, MembersStay, TablesStay
  <1>5. JobPart'
    BY <1>1, <1>2, IndexedMessages, ThreeParts, JobsGoOn
  <1> QED
    BY <1>4, <1>5 DEF ExtrasInv, MemberPart, TablePart, JobPart

\* What an operation prepares of a message whose row it has just locked.
LEMMA MakesRight ==
  ASSUME TableTypes, ExtensionAgrees, NEW p \in Person, NEW j, j.op \in Ops, NEW m \in Msg,
         May(p, j, m), NEW v, v = IF Changes(p, j, m) THEN Mutated(p, j, m) ELSE ext[m]
  PROVE  PreparedRight(j, p, m, v)
  <1> SUFFICES ASSUME NEW x, x = ext[m] PROVE PreparedRight(j, p, m, v)
    OBVIOUS
  <1>1. DOMAIN x = ExtField /\ x.version \in Nat
    BY DEF TableTypes
  <1>2. CASE j.op = "delete"
    <2>1. Mutated(p, j, m) = [x EXCEPT !.deleted = TRUE]
      BY <1>2 DEF Mutated
    <2>2. Changes(p, j, m) <=> Mutated(p, j, m) # x
      BY <1>2 DEF Changes
    <2>3. v = [x EXCEPT !.deleted = TRUE]
      BY <2>1, <2>2
    <2> QED
      BY <1>1, <1>2, <2>3 DEF PreparedRight, ExtField
  <1>3. CASE j.op \in {"recall", "adminRecall"}
    <2>1. Mutated(p, j, m) = [x EXCEPT !.recalled = TRUE]
      BY <1>3 DEF Mutated
    <2>2. Changes(p, j, m) <=> Mutated(p, j, m) # x
      BY <1>3 DEF Changes
    <2>3. v = [x EXCEPT !.recalled = TRUE]
      BY <2>1, <2>2
    <2>4. ~ext[m].deleted /\ (j.op = "recall" => In(p) /\ (p = Author[m] \/ Manages(p)))
      BY <1>3 DEF May, MayRecall, MayAdminRecall, LoadWukongMutationMeta
    <2> QED
      BY <1>1, <1>3, <2>3, <2>4 DEF PreparedRight, ExtField
  <1>4. CASE j.op \in {"react", "unreact"}
    <2>1. Mutated(p, j, m) = x
      BY <1>4 DEF Mutated
    <2>2. ~ext[m].deleted /\ ~ext[m].recalled
      BY <1>4 DEF May, MayReact
    <2> QED
      BY <1>1, <1>4, <2>1, <2>2 DEF PreparedRight, ExtField
  <1>5. CASE j.op \in {"pin", "unpin"}
    <2>1. ~ext[m].deleted /\ ~ext[m].recalled
      BY <1>5 DEF May, MayPin
    <2>2. m \notin expired => (ext[m].pinned <=> m \in pins)
      BY <2>1 DEF ExtensionAgrees
    <2>3. CASE j.op = "pin"
      <3>1. Mutated(p, j, m) = [x EXCEPT !.pinned = TRUE]
        BY <2>3 DEF Mutated
      <3>2. Changes(p, j, m) <=> m \notin pins
        BY <2>3 DEF Changes
      <3>3. v = [x EXCEPT !.pinned = TRUE] \/ (v = x /\ m \in pins)
        BY <3>1, <3>2
      <3> QED
        BY <1>1, <2>1, <2>2, <2>3, <3>3 DEF PreparedRight, ExtField
    <2>4. CASE j.op = "unpin"
      <3>1. Mutated(p, j, m) = [x EXCEPT !.pinned = FALSE]
        BY <2>4 DEF Mutated
      <3>2. Changes(p, j, m) <=> m \in pins
        BY <2>4 DEF Changes
      <3>3. v = [x EXCEPT !.pinned = FALSE] \/ (v = x /\ m \notin pins)
        BY <3>1, <3>2
      <3> QED
        BY <1>1, <2>1, <2>2, <2>4, <3>3 DEF PreparedRight, ExtField
    <2> QED
      BY <1>5, <2>3, <2>4
  <1>6. CASE j.op = "edit"
    <2>1. /\ ~ext[m].deleted /\ ~ext[m].recalled
          /\ asked[m][j.edit] = None => ext[m].version = Len(edits[m])
      BY <1>6 DEF May, MayEdit
    <2>2. Changes(p, j, m) <=> Mutated(p, j, m) # x
      BY <1>6 DEF Changes
    <2>3. v = Mutated(p, j, m)
      BY <2>2
    <2>4. CASE asked[m][j.edit] = None /\ ~SameText(m, j.text)
      <3>1. v = [x EXCEPT !.version = x.version + 1]
        BY <1>6, <2>3, <2>4 DEF Mutated
      <3>2. /\ DOMAIN v = ExtField /\ v.version = x.version + 1
            /\ v.deleted = x.deleted /\ v.recalled = x.recalled /\ v.pinned = x.pinned
        BY <1>1, <3>1 DEF ExtField
      <3> QED
        BY <1>1, <1>6, <2>1, <2>4, <3>2 DEF PreparedRight, EditRight
    <2>5. CASE ~(asked[m][j.edit] = None /\ ~SameText(m, j.text))
      <3>1. v = x
        BY <1>6, <2>3, <2>5 DEF Mutated
      <3> QED
        BY <1>1, <1>6, <2>1, <2>5, <3>1 DEF PreparedRight, EditRight
    <2> QED
      BY <2>4, <2>5
  <1> QED
    BY <1>2, <1>3, <1>4, <1>5, <1>6 DEF Ops

LEMMA SameRequest ==
  ASSUME NEW j, NEW k, j.op = k.op, j.edit = k.edit, j.text = k.text, NEW p, NEW m, NEW v, PreparedRight(j, p, m, v)
  PROVE  PreparedRight(k, p, m, v)
  BY DEF PreparedRight, EditRight

LEMMA SaveKeeps ==
  ASSUME ExtrasInv, NEW c \in Client, SaveWukongMessageExtension(c)
  PROVE  ExtrasInv'
  <1> DEFINE j == job[c]
             p == UserOf[c]
             m == Min(j.todo)
             v == IF Changes(p, j, m) THEN Mutated(p, j, m) ELSE ext[m]
  <1>1. /\ Busy(c) /\ j.todo # {} /\ ~Locked(m) /\ May(p, j, m)
        /\ UNCHANGED <<role, boundary, read, delivered, ext, edits, asked, index, reminder, pins, expired, kind, allowed, last>>
    BY DEF SaveWukongMessageExtension, NextToLock, Busy, base, data, marks
  <1>2. /\ DOMAIN job = Client /\ DOMAIN j = JobField /\ j.op \in Ops /\ j.todo \subseteq index /\ index \subseteq Msg
        /\ p \in Person
    BY <1>1, ExtrasAssumption DEF ExtrasInv, JobTypes, TableTypes
  <1>3. m \in j.todo /\ m \in Msg /\ \A k \in j.todo : m <= k
    BY <1>1, <1>2, MessagesAreNumbers, MinIsLeast
  <1>4. PICK n : job' = [job EXCEPT
                     ![c].todo = @ \ {m},
                     ![c].new = [x \in DOMAIN @ \union {m} |->
                        IF x = m THEN [ext |-> v, number |-> n] ELSE @[x]]]
    BY DEF SaveWukongMessageExtension, NextToLock
  <1>5. PreparedRight(j, p, m, v)
    <2>1. TableTypes /\ ExtensionAgrees
      BY DEF ExtrasInv
    <2> QED
      BY <1>1, <1>2, <1>3, <2>1, MakesRight
  <1> HIDE DEF v
  <1>6. /\ DOMAIN job' = Client /\ DOMAIN job'[c] = JobField
        /\ job'[c].op = j.op /\ job'[c].edit = j.edit /\ job'[c].text = j.text
        /\ job'[c].todo = j.todo \ {m}
        /\ DOMAIN job'[c].new = DOMAIN j.new \union {m}
        /\ job'[c].new[m].ext = v
        /\ \A x \in DOMAIN j.new : x # m => job'[c].new[x].ext = j.new[x].ext
        /\ \A d \in Client : d # c => job'[d] = job[d]
    BY <1>2, <1>4 DEF JobField
  <1>7. MemberPart' /\ TablePart'
    <2>1. last' \in Nat
      BY <1>1 DEF ExtrasInv, MemberTypes
    <2> QED
      BY <1>1, <2>1, ThreeParts, MembersStay, TablesStay
  <1>8. /\ Taken(c)' = Taken(c) \union {m} /\ \A d \in Client : d # c => (Busy(d)' <=> Busy(d)) /\ Taken(d)' = Taken(d)
    BY <1>6 DEF Taken, Busy
  <1>9. JobTypes'
    <2>1. ASSUME NEW d \in Client, Busy(d)'
          PROVE  /\ DOMAIN job'[d] = JobField /\ job'[d].op \in Ops
                 /\ job'[d].todo \subseteq index /\ Taken(d)' \subseteq index
                 /\ \A x \in Taken(d)', k \in job'[d].todo : x < k
                 /\ job'[d].op = "edit" => /\ job'[d].edit \in EditId /\ job'[d].text \in Text
                                           /\ Taken(d)' \union job'[d].todo # {}
                                           /\ \A x, k \in Taken(d)' \union job'[d].todo : x = k
      <3>1. CASE d = c
        <4>1. /\ Taken(c) \subseteq index /\ \A x \in Taken(c), k \in j.todo : x < k
              /\ j.op = "edit" => /\ j.edit \in EditId /\ j.text \in Text
                                  /\ \A x, k \in Taken(c) \union j.todo : x = k
          BY <1>1 DEF ExtrasInv, JobTypes
        <4>2. ASSUME NEW x \in Taken(c) \union {m}, NEW k \in j.todo \ {m} PROVE x < k
          <5>1. m \in Nat /\ k \in Nat
            BY <1>2, <1>3, MessagesAreNumbers
          <5>2. m <= k /\ m # k
            BY <1>3
          <5> QED
            BY <4>1, <5>1, <5>2
        <4> QED
          BY <1>2, <1>3, <1>6, <1>8, <3>1, <4>1, <4>2
      <3>2. CASE d # c
        BY <1>6, <1>8, <2>1, <3>2 DEF ExtrasInv, JobTypes
      <3> QED
        BY <3>1, <3>2
    <2> QED
      BY <1>1, <1>6, <2>1 DEF JobTypes
  <1>10. Exclusive'
    <2>1. \A d \in Client : Busy(d) => m \notin Taken(d)
      BY <1>1 DEF Locked, Busy, Taken
    <2> QED
      BY <1>1, <1>8, <2>1 DEF ExtrasInv, Exclusive
  <1>11. JobsRight'
    <2>1. ASSUME NEW d \in Client, Busy(d)', NEW x \in Taken(d)' PROVE StillRight(d, x)'
      <3>1. CASE d # c
        <4>1. StillRight(d, x)
          BY <1>8, <2>1, <3>1 DEF ExtrasInv, JobsRight
        <4> QED
          BY <1>1, <1>6, <3>1, <4>1, HeldStays
      <3>2. CASE d = c
        <4>1. PreparedRight(j, p, x, job'[c].new[x].ext)
          <5>1. CASE x = m
            BY <1>5, <1>6, <5>1
          <5>2. CASE x # m
            <6>1. x \in Taken(c)
              BY <1>8, <2>1, <3>2, <5>2
            <6>2. StillRight(c, x)
              BY <1>1, <6>1 DEF ExtrasInv, JobsRight
            <6> QED
              BY <1>6, <5>2, <6>1, <6>2 DEF StillRight, Prepared, Taken
          <5> QED
            BY <5>1, <5>2
        <4>2. ASSUME NEW w, w = job'[c].new[x].ext, NEW k, k = job'[c] PROVE PreparedRight(k, p, x, w)'
          <5>1. PreparedRight(k, p, x, w)
            BY <1>6, <4>1, <4>2, SameRequest
          <5> QED
            BY <1>1, <5>1 DEF PreparedRight, EditRight, SameText, In, Manages
        <4> QED
          BY <3>2, <4>2 DEF StillRight, Prepared
      <3> QED
        BY <3>1, <3>2
    <2> QED
      BY <2>1 DEF JobsRight
  <1>12. DeletersRight'
    <2>1. \A d \in Client : Has(d, "delete")' => Has(d, "delete")
      BY <1>6 DEF Has
    <2> QED
      BY <1>1, <2>1 DEF ExtrasInv, DeletersRight, In, Manages
  <1> QED
    BY <1>7, <1>9, <1>10, <1>11, <1>12 DEF ExtrasInv, MemberPart, TablePart, JobPart

\* What a transaction's commit does to the tables beside the extension.
LEMMA TablesOfCommit ==
  ASSUME NEW p, NEW j, NEW ms, CommitTables(p, j, ms), TableTypes
  PROVE  /\ j.op = "pin" => pins' = pins \union ms
         /\ j.op \in {"unpin", "delete"} => pins' = pins \ ms
         /\ j.op \notin {"pin", "unpin", "delete"} => pins' = pins
         /\ DOMAIN reminder' = Person /\ \A q \in Person : DOMAIN reminder'[q] = Msg
         /\ \A q \in Person, m \in Msg : reminder'[q][m] = "open" =>
               reminder[q][m] = "open" /\ (j.op = "delete" => m \notin ms)
         /\ j.op \notin {"react"} => reacted' \subseteq reacted
         /\ j.op = "react" => reacted' = reacted \union ({p} \X ms)
  <1>1. /\ j.op = "pin" => pins' = pins \union ms
        /\ j.op \in {"unpin", "delete"} => pins' = pins \ ms
        /\ j.op \notin {"pin", "unpin", "delete"} => pins' = pins
    BY DEF CommitTables
  <1>2. CASE j.op # "delete"
    <2>1. reminder' = reminder
      BY <1>2 DEF CommitTables
    <2>2. j.op \notin {"react"} => reacted' \subseteq reacted
      BY DEF CommitTables
    <2>3. j.op = "react" => reacted' = reacted \union ({p} \X ms)
      BY DEF CommitTables
    <2> QED
      BY <1>1, <1>2, <2>1, <2>2, <2>3 DEF TableTypes
  <1>3. CASE j.op = "delete"
    <2>1. reminder' = [q \in Person |-> [m \in Msg |->
                           IF m \in ms /\ reminder[q][m] = "open" THEN "done"
                           ELSE reminder[q][m]]]
      BY <1>3 DEF CommitTables
    <2>2. reacted' = reacted
      BY <1>3 DEF CommitTables
    <2> QED
      BY <1>1, <1>3, <2>1, <2>2
  <1> QED
    BY <1>2, <1>3

\* A commit of an edit records the body it was asked for.
LEMMA EditRecorded ==
  ASSUME TableTypes, ExtensionAgrees, NEW j, NEW m \in Msg, NEW w, w = j.new[m].ext,
         j.edit \in EditId, j.text \in Text, w.version \in Nat, EditRight(j, m, w), CommitEdit(j, m)
  PROVE  /\ DOMAIN edits' = Msg /\ edits'[m] \in Seq(Text)
         /\ DOMAIN asked' = Msg /\ DOMAIN asked'[m] = EditId
         /\ \A x \in Msg : x # m => edits'[x] = edits[x] /\ asked'[x] = asked[x]
         /\ m \notin expired => w.version = Len(edits'[m])
         /\ \A e \in EditId : asked'[m][e] # None =>
               asked'[m][e].version \in DOMAIN edits'[m] /\ edits'[m][asked'[m][e].version] = asked'[m][e].text
  <1>1. /\ DOMAIN edits = Msg /\ edits[m] \in Seq(Text) /\ DOMAIN asked = Msg /\ DOMAIN asked[m] = EditId
        /\ ext[m].version \in Nat
    BY DEF TableTypes
  <1>2. /\ m \notin expired => ext[m].version = Len(edits[m])
        /\ \A e \in EditId : asked[m][e] # None =>
              asked[m][e].version \in DOMAIN edits[m] /\ edits[m][asked[m][e].version] = asked[m][e].text
    BY DEF ExtensionAgrees
  <1>3. CASE asked[m][j.edit] # None
    <2>1. w.version = ext[m].version
      BY <1>3 DEF EditRight
    <2>2. edits' = edits /\ asked' = asked
      BY <1>1, <1>3, <2>1 DEF CommitEdit
    <2> QED
      BY <1>1, <1>2, <2>1, <2>2 DEF TableTypes
  <1>4. CASE asked[m][j.edit] = None
    <2>1. ext[m].version = Len(edits[m])
      BY <1>4 DEF EditRight
    <2>2. asked' = [asked EXCEPT ![m][j.edit] = [version |-> w.version, text |-> j.text]]
      BY <1>4 DEF CommitEdit
    <2>3. /\ DOMAIN asked' = Msg /\ DOMAIN asked'[m] = EditId
          /\ \A x \in Msg : x # m => asked'[x] = asked[x]
          /\ \A e \in EditId : e # j.edit => asked'[m][e] = asked[m][e]
          /\ asked'[m][j.edit].version = w.version /\ asked'[m][j.edit].text = j.text
      BY <1>1, <2>2
    <2>4. CASE w.version = ext[m].version
      <3>1. edits' = edits
        BY <1>1, <2>4 DEF CommitEdit
      <3>2. ext[m].version > 0 /\ edits[m][ext[m].version] = j.text
        BY <1>4, <2>4 DEF EditRight, SameText
      <3>3. w.version \in DOMAIN edits[m] /\ edits[m][w.version] = j.text
        BY <1>1, <2>1, <2>4, <3>2
      <3>4. \A e \in EditId : asked'[m][e] # None =>
               asked'[m][e].version \in DOMAIN edits'[m] /\ edits'[m][asked'[m][e].version] = asked'[m][e].text
        BY <1>2, <2>3, <3>1, <3>3
      <3> QED
        BY <1>1, <2>1, <2>3, <2>4, <3>1, <3>4
    <2>5. CASE w.version # ext[m].version
      <3>1. w.version = ext[m].version + 1
        BY <2>5 DEF EditRight
      <3>2. edits' = [edits EXCEPT ![m] = Append(edits[m], j.text)]
        BY <1>1, <3>1 DEF CommitEdit
      <3>3. DOMAIN edits' = Msg /\ edits'[m] = Append(edits[m], j.text) /\ \A x \in Msg : x # m => edits'[x] = edits[x]
        BY <1>1, <3>2
      <3>4. /\ edits'[m] \in Seq(Text) /\ Len(edits'[m]) = Len(edits[m]) + 1
            /\ edits'[m][Len(edits[m]) + 1] = j.text
            /\ \A k \in DOMAIN edits[m] : k \in DOMAIN edits'[m] /\ edits'[m][k] = edits[m][k]
            /\ Len(edits[m]) + 1 \in DOMAIN edits'[m]
        BY <1>1, <3>3
      <3>5. \A e \in EditId : asked'[m][e] # None =>
               asked'[m][e].version \in DOMAIN edits'[m] /\ edits'[m][asked'[m][e].version] = asked'[m][e].text
        BY <1>2, <2>1, <2>3, <3>1, <3>4
      <3> QED
        BY <2>1, <2>3, <3>1, <3>3, <3>4, <3>5
    <2> QED
      BY <2>4, <2>5
  <1> QED
    BY <1>3, <1>4

\* What a commit leaves of the extensions and their edits.
LEMMA CommitLeaves ==
  ASSUME ExtrasInv, NEW c \in Client, Commit(c)
  PROVE  /\ Busy(c) /\ Taken(c) \subseteq index /\ index \subseteq Msg
         /\ UNCHANGED <<role, boundary, read, delivered, index, expired, kind, allowed, last>>
         /\ DOMAIN job' = Client /\ job'[c] = Idle /\ \A d \in Client : d # c => job'[d] = job[d]
         /\ CommitTables(UserOf[c], job[c], Taken(c))
         /\ DOMAIN ext' = Msg /\ \A m \in Msg : ext'[m] = IF m \in Taken(c) THEN Prepared(c, m) ELSE ext[m]
         /\ DOMAIN edits' = Msg /\ DOMAIN asked' = Msg
         /\ \A m \in Msg : m \notin Taken(c) => edits'[m] = edits[m] /\ asked'[m] = asked[m]
         /\ job[c].op # "edit" => edits' = edits /\ asked' = asked
         /\ \A m \in Taken(c) : edits'[m] \in Seq(Text) /\ DOMAIN asked'[m] = EditId
         /\ \A m \in Taken(c) :
               /\ m \notin expired => Prepared(c, m).version = Len(edits'[m])
               /\ \A e \in EditId : asked'[m][e] # None =>
                     asked'[m][e].version \in DOMAIN edits'[m] /\ edits'[m][asked'[m][e].version] = asked'[m][e].text
  <1> DEFINE j == job[c]
  <1>1. /\ Busy(c) /\ j.todo = {}
        /\ ext' = [m \in Msg |-> IF m \in Taken(c) THEN j.new[m].ext ELSE ext[m]]
        /\ IF j.op = "edit" THEN CommitEdit(j, Min(Taken(c))) ELSE KeepEdits
        /\ CommitTables(UserOf[c], j, Taken(c))
        /\ job' = [job EXCEPT ![c] = Idle]
        /\ UNCHANGED <<role, boundary, read, delivered, index, expired, kind, allowed, last>>
    BY DEF Commit, Busy, Taken, base, marks
  <1>2. DOMAIN job = Client /\ Taken(c) \subseteq index /\ index \subseteq Msg /\ j.op \in Ops
    BY <1>1 DEF ExtrasInv, JobTypes, TableTypes
  <1>3. TableTypes /\ ExtensionAgrees
    BY DEF ExtrasInv
  <1>4. CASE j.op # "edit"
    <2>1. edits' = edits /\ asked' = asked
      BY <1>1, <1>4 DEF KeepEdits
    <2>2. ASSUME NEW m \in Taken(c)
          PROVE  /\ m \notin expired => Prepared(c, m).version = Len(edits[m])
                 /\ \A e \in EditId : asked[m][e] # None =>
                       asked[m][e].version \in DOMAIN edits[m] /\ edits[m][asked[m][e].version] = asked[m][e].text
      <3>1. StillRight(c, m)
        BY <1>1 DEF ExtrasInv, JobsRight
      <3>2. Prepared(c, m).version = ext[m].version
        BY <1>4, <3>1 DEF StillRight, PreparedRight
      <3> QED
        BY <1>2, <1>3, <3>2 DEF ExtensionAgrees
    <2>3. \A m \in Taken(c) : edits[m] \in Seq(Text) /\ DOMAIN asked[m] = EditId
      BY <1>2, <1>3 DEF TableTypes
    <2>4. DOMAIN edits = Msg /\ DOMAIN asked = Msg
      BY <1>3 DEF TableTypes
    <2> QED
      BY <1>1, <1>2, <1>4, <2>1, <2>2, <2>3, <2>4 DEF Prepared
  <1>5. CASE j.op = "edit"
    <2>1. PICK m \in Taken(c) : Taken(c) = {m}
      BY <1>1, <1>5 DEF ExtrasInv, JobTypes
    <2>2. Min(Taken(c)) = m
      BY <1>2, <2>1, MessagesAreNumbers, MinIsLeast
    <2>3. StillRight(c, m)
      BY <1>1 DEF ExtrasInv, JobsRight
    <2>4. /\ j.edit \in EditId /\ j.text \in Text
      BY <1>1, <1>5 DEF ExtrasInv, JobTypes
    <2>5. CommitEdit(j, m)
      BY <1>1, <1>5, <2>2
    <2>6. ASSUME NEW w, w = j.new[m].ext PROVE w.version \in Nat /\ EditRight(j, m, w)
      BY <1>5, <2>3, <2>6 DEF StillRight, PreparedRight, Prepared
    <2>7. /\ DOMAIN edits' = Msg /\ edits'[m] \in Seq(Text)
          /\ DOMAIN asked' = Msg /\ DOMAIN asked'[m] = EditId
          /\ \A x \in Msg : x # m => edits'[x] = edits[x] /\ asked'[x] = asked[x]
          /\ m \notin expired => j.new[m].ext.version = Len(edits'[m])
          /\ \A e \in EditId : asked'[m][e] # None =>
               asked'[m][e].version \in DOMAIN edits'[m] /\ edits'[m][asked'[m][e].version] = asked'[m][e].text
      BY <1>2, <1>3, <2>4, <2>5, <2>6, EditRecorded
    <2> QED
      BY <1>1, <1>2, <1>5, <2>1, <2>7 DEF Prepared
  <1> QED
    BY <1>4, <1>5

LEMMA ExtensionCommitKeeps ==
  ASSUME ExtrasInv, NEW c \in Client, Commit(c)
  PROVE  ExtrasInv'
  <1> DEFINE j == job[c]
             ms == Taken(c)
  <1>1. /\ Busy(c) /\ ms \subseteq index /\ index \subseteq Msg
        /\ UNCHANGED <<role, boundary, read, delivered, index, expired, kind, allowed, last>>
        /\ DOMAIN job' = Client /\ job'[c] = Idle /\ \A d \in Client : d # c => job'[d] = job[d]
        /\ CommitTables(UserOf[c], j, ms)
        /\ DOMAIN ext' = Msg /\ \A m \in Msg : ext'[m] = IF m \in ms THEN Prepared(c, m) ELSE ext[m]
    BY CommitLeaves
  <1>2. /\ DOMAIN edits' = Msg /\ DOMAIN asked' = Msg
        /\ \A m \in Msg : m \notin ms => edits'[m] = edits[m] /\ asked'[m] = asked[m]
        /\ \A m \in ms : edits'[m] \in Seq(Text) /\ DOMAIN asked'[m] = EditId
        /\ \A m \in ms :
               /\ m \notin expired => Prepared(c, m).version = Len(edits'[m])
               /\ \A e \in EditId : asked'[m][e] # None =>
                     asked'[m][e].version \in DOMAIN edits'[m] /\ edits'[m][asked'[m][e].version] = asked'[m][e].text
    BY CommitLeaves
  <1>3. TableTypes /\ j.op \in Ops
    BY <1>1 DEF ExtrasInv, JobTypes
  <1>4. /\ j.op = "pin" => pins' = pins \union ms
        /\ j.op \in {"unpin", "delete"} => pins' = pins \ ms
        /\ j.op \notin {"pin", "unpin", "delete"} => pins' = pins
        /\ DOMAIN reminder' = Person /\ \A q \in Person : DOMAIN reminder'[q] = Msg
        /\ \A q \in Person, m \in Msg : reminder'[q][m] = "open" =>
               reminder[q][m] = "open" /\ (j.op = "delete" => m \notin ms)
    BY <1>1, <1>3, TablesOfCommit
  <1>5. ASSUME NEW m \in ms
        PROVE  /\ DOMAIN Prepared(c, m) = ExtField /\ Prepared(c, m).version \in Nat
               /\ j.op = "delete" => Prepared(c, m).deleted
               /\ j.op # "delete" => ~ext[m].deleted /\ ~Prepared(c, m).deleted
               /\ j.op \notin {"pin", "unpin"} => Prepared(c, m).pinned = ext[m].pinned
               /\ j.op = "pin" /\ m \notin expired => Prepared(c, m).pinned
               /\ j.op = "unpin" /\ m \notin expired => ~Prepared(c, m).pinned
    <2>1. StillRight(c, m)
      BY <1>1 DEF ExtrasInv, JobsRight
    <2> QED
      BY <2>1 DEF StillRight, PreparedRight
  <1>6. MemberPart'
    <2>1. last' \in Nat
      BY <1>1 DEF ExtrasInv, MemberTypes
    <2> QED
      BY <1>1, <2>1, ThreeParts, MembersStay
  <1>7. TableTypes'
    <2>1. ASSUME NEW m \in Msg
          PROVE  /\ DOMAIN ext'[m] = ExtField /\ ext'[m].version \in Nat
                 /\ edits'[m] \in Seq(Text) /\ DOMAIN asked'[m] = EditId
      <3>1. CASE m \in ms
        BY <1>1, <1>2, <1>5, <3>1
      <3>2. CASE m \notin ms
        BY <1>1, <1>2, <1>3, <3>2 DEF TableTypes
      <3> QED
        BY <3>1, <3>2
    <2> QED
      BY <1>1, <1>2, <1>4, <2>1 DEF TableTypes
  <1>8. ExtensionAgrees'
    <2>1. ASSUME NEW m \in Msg
          PROVE  /\ m \notin expired => ext'[m].version = Len(edits'[m])
                 /\ m \notin expired /\ ~ext'[m].deleted => (ext'[m].pinned <=> m \in pins')
                 /\ \A e \in EditId : asked'[m][e] # None =>
                     asked'[m][e].version \in DOMAIN edits'[m] /\ edits'[m][asked'[m][e].version] = asked'[m][e].text
      <3>0. /\ m \notin expired => ext[m].version = Len(edits[m])
            /\ m \notin expired /\ ~ext[m].deleted => (ext[m].pinned <=> m \in pins)
            /\ \A e \in EditId : asked[m][e] # None =>
                 asked[m][e].version \in DOMAIN edits[m] /\ edits[m][asked[m][e].version] = asked[m][e].text
        BY DEF ExtrasInv, ExtensionAgrees
      <3>1. CASE m \in ms
        <4>1. ext'[m] = Prepared(c, m)
          BY <1>1, <3>1
        <4>2. m \notin expired /\ ~Prepared(c, m).deleted => (Prepared(c, m).pinned <=> m \in pins')
          <5>1. CASE j.op = "pin"
            BY <1>4, <1>5, <3>1, <5>1
          <5>2. CASE j.op = "unpin"
            BY <1>4, <1>5, <3>1, <5>2
          <5>3. CASE j.op = "delete"
            BY <1>5, <3>1, <5>3
          <5>4. CASE j.op \notin {"pin", "unpin", "delete"}
            BY <1>4, <1>5, <3>0, <3>1, <5>4
          <5> QED
            BY <5>1, <5>2, <5>3, <5>4
        <4> QED
          BY <1>2, <3>1, <4>1, <4>2
      <3>2. CASE m \notin ms
        <4>1. ext'[m] = ext[m] /\ edits'[m] = edits[m] /\ asked'[m] = asked[m]
          BY <1>1, <1>2, <3>2
        <4>2. m \in pins' <=> m \in pins
          BY <1>4, <3>2
        <4> QED
          BY <3>0, <4>1, <4>2
      <3> QED
        BY <3>1, <3>2
    <2>2. expired' = expired
      BY <1>1
    <2> QED
      BY <2>1, <2>2 DEF ExtensionAgrees
  <1>9. DeletedLeavesNothing' /\ DeletedIndexed'
    <2>1. ASSUME NEW m \in Msg, ext'[m].deleted
          PROVE  m \notin pins' /\ (\A p \in Person : reminder'[p][m] # "open") /\ m \in index
      <3>1. CASE m \in ms
        <4>1. j.op = "delete"
          BY <1>1, <1>5, <2>1, <3>1
        <4> QED
          BY <1>1, <1>4, <3>1, <4>1
      <3>2. CASE m \notin ms
        <4>1. ext[m].deleted
          BY <1>1, <2>1, <3>2
        <4>2. m \notin pins /\ (\A p \in Person : reminder[p][m] # "open") /\ m \in index
          BY <4>1 DEF ExtrasInv, DeletedLeavesNothing, DeletedIndexed
        <4>3. m \notin pins'
          BY <1>4, <3>2, <4>2
        <4> QED
          BY <1>4, <4>2, <4>3
      <3> QED
        BY <3>1, <3>2
    <2> QED
      BY <1>1, <2>1 DEF DeletedLeavesNothing, DeletedIndexed
  <1>10. ASSUME NEW d \in Client, NEW m \in Msg, Busy(d), m \in Taken(d), job'[d] = job[d]
         PROVE  ext'[m] = ext[m] /\ edits'[m] = edits[m] /\ asked'[m] = asked[m]
    <2>1. d # c
      BY <1>1, <1>10 DEF Busy
    <2>2. m \notin ms
      BY <1>1, <1>10, <2>1 DEF ExtrasInv, Exclusive
    <2> QED
      BY <1>1, <1>2, <2>2
  <1>11. JobPart'
    <2>1. JobPart /\ \A d \in Client : job'[d] = job[d] \/ job'[d] = Idle
      BY <1>1, ThreeParts
    <2> QED
      BY <1>1, <1>10, <2>1, JobsGoOn
  <1> QED
    BY <1>6, <1>7, <1>8, <1>9, <1>11 DEF ExtrasInv, MemberPart, TablePart, JobPart

LEMMA ExtrasInitHolds == ExtrasInit => ExtrasInv
  <1> SUFFICES ASSUME ExtrasInit PROVE ExtrasInv
    OBVIOUS
  <1>1. scenario.size \in Msg
    BY ExtrasAssumption DEF ExtrasInit
  <1>2. last \in Nat /\ index \subseteq Msg
    BY <1>1, MessagesAreNumbers, ExtrasAssumption, FS_CardinalityType DEF ExtrasInit
  <1>3. TableTypes
    BY <1>2 DEF ExtrasInit, TableTypes, Blank, ExtField
  <1>4. MemberTypes
    BY <1>2 DEF ExtrasInit, MemberTypes
  <1>5. JobTypes /\ Exclusive /\ JobsRight /\ DeletersRight
    BY DEF ExtrasInit, JobTypes, Exclusive, JobsRight, DeletersRight, Busy, Has, Idle
  <1>6. DeletedIndexed /\ DeletedLeavesNothing
    BY DEF ExtrasInit, DeletedIndexed, DeletedLeavesNothing, Blank
  <1>7. ExtensionAgrees
    BY DEF ExtrasInit, ExtensionAgrees, Blank
  <1>8. NothingUnreadBeforeJoining
    BY DEF ExtrasInit, NothingUnreadBeforeJoining
  <1> QED
    BY <1>3, <1>4, <1>5, <1>6, <1>7, <1>8 DEF ExtrasInv

LEMMA ExtrasStep == scenario \in Scenario /\ ExtrasInv /\ [ExtrasNext]_extrasVars => ExtrasInv'
  <1> SUFFICES ASSUME scenario \in Scenario, ExtrasInv, [ExtrasNext]_extrasVars PROVE ExtrasInv'
    OBVIOUS
  <1>0. \A c \in scenario.clients : UserOf[c] \in Person
    BY ExtrasAssumption
  <1>1. CASE Store \/ SetGroupHistoryVisibility \/ UNCHANGED extrasVars
    BY <1>1, StoreKeeps, VisibilityKeeps, ClientKeeps
  <1>2. CASE \E m \in Msg : ExpireMessages(m) \/ \E answered \in BOOLEAN : PutWukongWebhookEvent(m, answered)
    BY <1>2, ExpireKeeps, ReportKeeps
  <1>3. CASE \E p \in Person :
         \/ AddGroupMembersWithHistory(p) \/ SetUserInternal(p)
         \/ \E r \in Roles : SetRole(p, r)
    BY <1>3, AddKeeps, InternalKeeps, SetRoleKeeps
  <1>4. ASSUME NEW c \in Client,
         \/ SaveWukongMessageExtension(c) \/ Rollback(c) \/ Commit(c)
         \/ \E ms \in SUBSET Msg : DeleteMessagesForEveryone(c, ms)
         \/ \E m \in Msg :
              \/ RecallAuthorized(c, m) \/ AdminRecallWukongMessage(c, m)
              \/ \E e \in EditId, t \in Text : EditWukongMessage(c, m, e, t)
              \/ \E on \in BOOLEAN : ReactWukongMessage(c, m, on)
              \/ \E pin \in BOOLEAN : SetWukongGroupMessagePin(c, m, pin)
        PROVE ExtrasInv'
    <2>1. CASE SaveWukongMessageExtension(c) \/ Rollback(c) \/ Commit(c)
      BY <2>1, SaveKeeps, RollbackKeeps, ExtensionCommitKeeps
    <2>2. CASE ~(SaveWukongMessageExtension(c) \/ Rollback(c) \/ Commit(c))
      BY <1>4, <2>2, BeginningsKeep
    <2> QED
      BY <2>1, <2>2
  <1>5. ASSUME NEW p \in Person,
         \/ \E ms \in SUBSET Msg : DoneWukongReminders(p, ms)
         \/ \E m \in Msg, on \in BOOLEAN : SetWukongFavorite(p, m, on)
         \/ \E s \in Msg : MarkRead(p, s) \/ MarkDelivered(p, s)
        PROVE ExtrasInv'
    BY <1>5, RemindersDone, ClientKeeps, MarksKeep
  <1>6. CASE (\E size \in 1 .. Cardinality(Msg) : SyncWukongMessageExtras(size))
             \/ (\E ms \in SUBSET Msg : LoadWukongMessageExtensions(ms))
    BY <1>6, ClientKeeps
  <1>7. CASE \E p \in {UserOf[c] : c \in scenario.clients} :
         \/ \E ms \in SUBSET Msg : DoneWukongReminders(p, ms)
         \/ \E m \in Msg, on \in BOOLEAN : SetWukongFavorite(p, m, on)
         \/ \E s \in Msg : MarkRead(p, s) \/ MarkDelivered(p, s)
    BY <1>0, <1>5, <1>7
  <1> QED
    BY <1>1, <1>2, <1>3, <1>4, <1>6, <1>7 DEF ExtrasNext

LEMMA ScenarioStays == [ExtrasNext]_extrasVars => scenario' = scenario
  <1> SUFFICES ASSUME ExtrasNext PROVE scenario' = scenario
    BY DEF extrasVars, base
  <1>1. CASE Store \/ SetGroupHistoryVisibility
             \/ (\E m \in Msg : ExpireMessages(m) \/ \E answered \in BOOLEAN : PutWukongWebhookEvent(m, answered))
    BY <1>1 DEF Store, SetGroupHistoryVisibility, ExpireMessages, PutWukongWebhookEvent
  <1>2. CASE \E p \in Person :
         \/ AddGroupMembersWithHistory(p) \/ SetUserInternal(p)
         \/ \E r \in Roles : SetRole(p, r)
    BY <1>2 DEF AddGroupMembersWithHistory, SetUserInternal, SetRole
  <1>3. CASE \E c \in Client :
         \/ SaveWukongMessageExtension(c) \/ Rollback(c) \/ Commit(c)
         \/ \E ms \in SUBSET Msg : DeleteMessagesForEveryone(c, ms)
         \/ \E m \in Msg :
              \/ RecallAuthorized(c, m) \/ AdminRecallWukongMessage(c, m)
              \/ \E e \in EditId, t \in Text : EditWukongMessage(c, m, e, t)
              \/ \E on \in BOOLEAN : ReactWukongMessage(c, m, on)
              \/ \E pin \in BOOLEAN : SetWukongGroupMessagePin(c, m, pin)
    <2>1. \A c \in Client : SaveWukongMessageExtension(c) \/ Rollback(c) \/ Commit(c) => scenario' = scenario
      BY DEF SaveWukongMessageExtension, Rollback, Commit, base
    <2>2. \A c \in Client : \A j : Begin(c, j) => scenario' = scenario
      BY DEF Begin, base
    <2> QED
      BY <1>3, <2>1, <2>2 DEF DeleteMessagesForEveryone, RecallAuthorized, AdminRecallWukongMessage,
                EditWukongMessage, ReactWukongMessage, SetWukongGroupMessagePin
  <1>4. CASE \E p \in {UserOf[c] : c \in scenario.clients} :
         \/ \E ms \in SUBSET Msg : DoneWukongReminders(p, ms)
         \/ \E m \in Msg, on \in BOOLEAN : SetWukongFavorite(p, m, on)
         \/ \E s \in Msg : MarkRead(p, s) \/ MarkDelivered(p, s)
    BY <1>4 DEF DoneWukongReminders, SetWukongFavorite, MarkRead, MarkDelivered, base
  <1>5. CASE (\E size \in 1 .. Cardinality(Msg) : SyncWukongMessageExtras(size))
             \/ (\E ms \in SUBSET Msg : LoadWukongMessageExtensions(ms))
    BY <1>5 DEF SyncWukongMessageExtras, LoadWukongMessageExtensions, base
  <1> QED
    BY <1>1, <1>2, <1>3, <1>4, <1>5 DEF ExtrasNext

LEMMA ExtrasInvariant == ExtrasSpec => [](scenario \in Scenario /\ ExtrasInv)
  <1>1. ExtrasInit => scenario \in Scenario /\ ExtrasInv
    BY ExtrasInitHolds DEF ExtrasInit
  <1>2. (scenario \in Scenario /\ ExtrasInv) /\ [ExtrasNext]_extrasVars => (scenario \in Scenario /\ ExtrasInv)'
    BY ExtrasStep, ScenarioStays
  <1> QED
    BY <1>1, <1>2, PTL DEF ExtrasSpec

\* Transactions lock the index rows of their messages in one order, so no two
\* wait for each other.
THEOREM NoTwoWait == ExtrasSpec => []NoWaitCycle
  <1>1. scenario \in Scenario /\ ExtrasInv => NoWaitCycle
    BY OrderPreventsCycle, IndexedMessages DEF ExtrasInv
  <1> QED
    BY <1>1, ExtrasInvariant, PTL

\* Only a commit and an expiry change what the extensions say of a message.
LEMMA OnlyCommitsChange ==
  ASSUME [ExtrasNext]_extrasVars
  PROVE  \/ \E c \in Client : Commit(c)
         \/ \E m \in Msg : ExpireMessages(m)
         \/ UNCHANGED <<ext, edits, reacted, pins>>
  <1>1. CASE Store \/ SetGroupHistoryVisibility \/ UNCHANGED extrasVars
             \/ (\E m \in Msg, answered \in BOOLEAN : PutWukongWebhookEvent(m, answered))
    BY <1>1 DEF Store, SetGroupHistoryVisibility, PutWukongWebhookEvent, extrasVars, data
  <1>2. CASE \E p \in Person :
         \/ AddGroupMembersWithHistory(p) \/ SetUserInternal(p)
         \/ \E r \in Roles : SetRole(p, r)
    BY <1>2 DEF AddGroupMembersWithHistory, SetUserInternal, SetRole, data
  <1>3. CASE \E c \in Client :
         \/ SaveWukongMessageExtension(c) \/ Rollback(c) \/ Commit(c)
         \/ \E ms \in SUBSET Msg : DeleteMessagesForEveryone(c, ms)
         \/ \E m \in Msg :
              \/ RecallAuthorized(c, m) \/ AdminRecallWukongMessage(c, m)
              \/ \E e \in EditId, t \in Text : EditWukongMessage(c, m, e, t)
              \/ \E on \in BOOLEAN : ReactWukongMessage(c, m, on)
              \/ \E pin \in BOOLEAN : SetWukongGroupMessagePin(c, m, pin)
    <2>1. \A c \in Client : SaveWukongMessageExtension(c) \/ Rollback(c) => UNCHANGED <<ext, edits, reacted, pins>>
      BY DEF SaveWukongMessageExtension, Rollback, data
    <2>2. \A c \in Client : \A j : Begin(c, j) => UNCHANGED <<ext, edits, reacted, pins>>
      BY DEF Begin, data
    <2> QED
      BY <1>3, <2>1, <2>2 DEF DeleteMessagesForEveryone, RecallAuthorized, AdminRecallWukongMessage,
                EditWukongMessage, ReactWukongMessage, SetWukongGroupMessagePin
  <1>4. CASE \E p \in {UserOf[c] : c \in scenario.clients} :
         \/ \E ms \in SUBSET Msg : DoneWukongReminders(p, ms)
         \/ \E m \in Msg, on \in BOOLEAN : SetWukongFavorite(p, m, on)
         \/ \E s \in Msg : MarkRead(p, s) \/ MarkDelivered(p, s)
    BY <1>4 DEF DoneWukongReminders, SetWukongFavorite, MarkRead, MarkDelivered, data
  <1>5. CASE (\E size \in 1 .. Cardinality(Msg) : SyncWukongMessageExtras(size))
             \/ (\E ms \in SUBSET Msg : LoadWukongMessageExtensions(ms))
    BY <1>5 DEF SyncWukongMessageExtras, LoadWukongMessageExtensions, data
  <1>6. CASE \E m \in Msg : ExpireMessages(m)
    BY <1>6
  <1> QED
    BY <1>1, <1>2, <1>3, <1>4, <1>5, <1>6 DEF ExtrasNext

LEMMA RetractedStays ==
  ExtrasInv /\ [ExtrasNext]_extrasVars =>
    [\A m \in Msg : Retracted(m) /\ m \notin expired' =>
       /\ ext[m].recalled => ext'[m].recalled
       /\ ext[m].deleted => ext'[m].deleted
       /\ edits'[m] = edits[m]
       /\ {r \in reacted' : r[2] = m} \subseteq reacted
       /\ m \in pins' => m \in pins]_extrasVars
  <1> SUFFICES ASSUME ExtrasInv, [ExtrasNext]_extrasVars, NEW m \in Msg, Retracted(m), m \notin expired'
               PROVE  /\ ext[m].recalled => ext'[m].recalled
                      /\ ext[m].deleted => ext'[m].deleted
                      /\ edits'[m] = edits[m]
                      /\ {r \in reacted' : r[2] = m} \subseteq reacted
                      /\ m \in pins' => m \in pins
    OBVIOUS
  <1>1. CASE UNCHANGED <<ext, edits, reacted, pins>>
    BY <1>1
  <1>2. ASSUME NEW n \in Msg, ExpireMessages(n)
        PROVE  ext'[m] = ext[m] /\ edits' = edits /\ reacted' \subseteq reacted /\ pins' \subseteq pins
    <2>1. n # m
      BY <1>2 DEF ExpireMessages
    <2> QED
      BY <1>2, <2>1 DEF ExpireMessages, ExtrasInv, TableTypes
  <1>3. ASSUME NEW c \in Client, Commit(c)
        PROVE  /\ ext[m].recalled => ext'[m].recalled
               /\ ext[m].deleted => ext'[m].deleted
               /\ edits'[m] = edits[m]
               /\ \A r \in reacted' : r[2] = m => r \in reacted
               /\ m \in pins' => m \in pins
    <2>1. /\ Busy(c) /\ CommitTables(UserOf[c], job[c], Taken(c))
          /\ ext'[m] = IF m \in Taken(c) THEN Prepared(c, m) ELSE ext[m]
          /\ m \notin Taken(c) => edits'[m] = edits[m]
          /\ job[c].op # "edit" => edits' = edits
      BY <1>3, CommitLeaves
    <2>2. TableTypes
      BY DEF ExtrasInv
    <2>3. /\ job[c].op = "pin" => pins' = pins \union Taken(c)
          /\ job[c].op \in {"unpin", "delete"} => pins' = pins \ Taken(c)
          /\ job[c].op \notin {"pin", "unpin", "delete"} => pins' = pins
          /\ job[c].op \notin {"react"} => reacted' \subseteq reacted
          /\ job[c].op = "react" => reacted' = reacted \union ({UserOf[c]} \X Taken(c))
      BY <2>1, <2>2, TablesOfCommit
    <2>4. CASE m \notin Taken(c)
      <3>1. \A r \in {UserOf[c]} \X Taken(c) : r[2] # m
        BY <2>4
      <3>2. \A r \in reacted' : r[2] = m => r \in reacted
        BY <2>3, <3>1
      <3>3. m \in pins' => m \in pins
        BY <2>3, <2>4
      <3> QED
        BY <2>1, <2>4, <3>2, <3>3
    <2>5. CASE m \in Taken(c)
      <3>1. StillRight(c, m)
        BY <2>1, <2>5 DEF ExtrasInv, JobsRight
      <3>2. /\ job[c].op \in {"recall", "adminRecall", "delete"}
            /\ job[c].op = "delete" => Prepared(c, m).deleted /\ Prepared(c, m).recalled = ext[m].recalled
            /\ job[c].op # "delete" => ~ext[m].deleted /\ Prepared(c, m).recalled
        BY <3>1 DEF StillRight, PreparedRight, Retracted
      <3> QED
        BY <2>1, <2>3, <2>5, <3>2
    <2> QED
      BY <2>4, <2>5
  <1> QED
    BY <1>1, <1>2, <1>3, OnlyCommitsChange

LEMMA CommitsRightly ==
  ExtrasInv /\ [ExtrasNext]_extrasVars =>
    [\A c \in Client :
      (job[c] # Idle /\ job'[c] = Idle /\ ext' # ext) =>
      /\ Has(c, "delete") =>
           UserOf[c] \in allowed /\ In(UserOf[c]) /\ (kind = "group" => Manages(UserOf[c]))
      /\ Has(c, "recall") => \A m \in DOMAIN job[c].new :
           In(UserOf[c]) /\ (UserOf[c] = Author[m] \/ Manages(UserOf[c]))]_extrasVars
  <1> SUFFICES ASSUME ExtrasInv, [ExtrasNext]_extrasVars, NEW c \in Client, Busy(c), job'[c] = Idle, ext' # ext
               PROVE  /\ Has(c, "delete") =>
                           UserOf[c] \in allowed /\ In(UserOf[c]) /\ (kind = "group" => Manages(UserOf[c]))
                      /\ Has(c, "recall") => \A m \in Taken(c) :
                           In(UserOf[c]) /\ (UserOf[c] = Author[m] \/ Manages(UserOf[c]))
    BY DEF Busy, Taken
  <1>1. Has(c, "delete") =>
           UserOf[c] \in allowed /\ In(UserOf[c]) /\ (kind = "group" => Manages(UserOf[c]))
    BY DEF ExtrasInv, DeletersRight
  <1>2. ASSUME Has(c, "recall"), NEW m \in Taken(c)
        PROVE  In(UserOf[c]) /\ (UserOf[c] = Author[m] \/ Manages(UserOf[c]))
    <2>1. StillRight(c, m)
      BY DEF ExtrasInv, JobsRight
    <2> QED
      BY <1>2, <2>1 DEF StillRight, PreparedRight, Has
  <1> QED
    BY <1>1, <1>2

LEMMA ReadersStay ==
  ExtrasInv /\ [ExtrasNext]_extrasVars =>
    [\A m \in Msg : \A p \in ReadBy(m) : In(p)' => p \in ReadBy(m)']_extrasVars
  <1> SUFFICES ASSUME ExtrasInv, [ExtrasNext]_extrasVars, NEW m \in Msg, NEW p \in ReadBy(m), In(p)'
               PROVE  p \in ReadBy(m)'
    OBVIOUS
  <1>1. /\ p \in Person /\ In(p) /\ p # Author[m] /\ boundary[p] < m /\ read[p] >= m
        /\ read[p] \in Nat /\ m \in Nat
    BY MessagesAreNumbers DEF ReadBy, GroupMessageReceipts, ExtrasInv, MemberTypes
  <1>2. boundary'[p] = boundary[p] /\ (read'[p] = read[p] \/ (read'[p] \in Nat /\ read'[p] >= read[p]))
    <2>1. CASE SetGroupHistoryVisibility
      <3>1. ExtrasInv' /\ read'[p] >= read[p] /\ boundary' = boundary
        BY <1>1, <2>1, VisibilityKeeps DEF SetGroupHistoryVisibility
      <3> QED
        BY <1>1, <3>1 DEF ExtrasInv, MemberTypes
    <2>2. CASE Store \/ UNCHANGED extrasVars
             \/ (\E n \in Msg : ExpireMessages(n) \/ \E answered \in BOOLEAN : PutWukongWebhookEvent(n, answered))
      BY <2>2 DEF Store, ExpireMessages, PutWukongWebhookEvent, extrasVars, base, marks
    <2>3. CASE \E q \in Person :
         \/ AddGroupMembersWithHistory(q) \/ SetUserInternal(q)
         \/ \E r \in Roles : SetRole(q, r)
      <3>1. PICK q \in Person : \/ AddGroupMembersWithHistory(q) \/ SetUserInternal(q)
                                \/ \E r \in Roles : SetRole(q, r)
        BY <2>3
      <3>2. CASE AddGroupMembersWithHistory(q)
        <4>1. q # p /\ boundary' = [boundary EXCEPT ![q] = last] /\ read' = [read EXCEPT ![q] = last]
          BY <1>1, <3>2 DEF AddGroupMembersWithHistory
        <4> QED
          BY <1>1, <4>1 DEF ExtrasInv, MemberTypes
      <3>3. CASE SetUserInternal(q) \/ \E r \in Roles : SetRole(q, r)
        BY <3>3 DEF SetUserInternal, SetRole, marks
      <3> QED
        BY <3>1, <3>2, <3>3
    <2>4. CASE \E c \in Client :
         \/ SaveWukongMessageExtension(c) \/ Rollback(c) \/ Commit(c)
         \/ \E ms \in SUBSET Msg : DeleteMessagesForEveryone(c, ms)
         \/ \E n \in Msg :
              \/ RecallAuthorized(c, n) \/ AdminRecallWukongMessage(c, n)
              \/ \E e \in EditId, t \in Text : EditWukongMessage(c, n, e, t)
              \/ \E on \in BOOLEAN : ReactWukongMessage(c, n, on)
              \/ \E pin \in BOOLEAN : SetWukongGroupMessagePin(c, n, pin)
      <3>1. \A c \in Client : SaveWukongMessageExtension(c) \/ Rollback(c) \/ Commit(c) => UNCHANGED <<boundary, read>>
        BY DEF SaveWukongMessageExtension, Rollback, Commit, base, marks
      <3>2. \A c \in Client : \A j : Begin(c, j) => UNCHANGED <<boundary, read>>
        BY DEF Begin, base, marks
      <3>3. UNCHANGED <<boundary, read>>
        BY <2>4, <3>1, <3>2 DEF DeleteMessagesForEveryone, RecallAuthorized, AdminRecallWukongMessage,
                EditWukongMessage, ReactWukongMessage, SetWukongGroupMessagePin
      <3> QED
        BY <3>3
    <2>5. CASE \E q \in {UserOf[c] : c \in scenario.clients} :
         \/ \E ms \in SUBSET Msg : DoneWukongReminders(q, ms)
         \/ \E n \in Msg, on \in BOOLEAN : SetWukongFavorite(q, n, on)
         \/ \E s \in Msg : MarkDelivered(q, s)
      BY <2>5 DEF DoneWukongReminders, SetWukongFavorite, MarkDelivered, base, marks
    <2>6. ASSUME NEW q, NEW s \in Msg, MarkRead(q, s)
          PROVE  boundary' = boundary /\ (read'[p] = read[p] \/ (read'[p] \in Nat /\ read'[p] >= read[p]))
      <3>1. boundary' = boundary /\ read' = [read EXCEPT ![q] = Max({read[q], Min({s, Newest})})]
        BY <2>6 DEF MarkRead, base
      <3>2. CASE q = p
        <4>1. ExtrasInv' /\ read'[p] >= read[p]
          BY <1>1, <2>6, <3>2, MarksKeep
        <4> QED
          BY <1>1, <3>1, <4>1 DEF ExtrasInv, MemberTypes
      <3>3. CASE q # p
        BY <1>1, <3>1, <3>3 DEF ExtrasInv, MemberTypes
      <3> QED
        BY <3>1, <3>2, <3>3
    <2>7. CASE (\E size \in 1 .. Cardinality(Msg) : SyncWukongMessageExtras(size))
             \/ (\E ms \in SUBSET Msg : LoadWukongMessageExtensions(ms))
      BY <2>7 DEF SyncWukongMessageExtras, LoadWukongMessageExtensions, base, marks
    <2> QED
      BY <2>1, <2>2, <2>3, <2>4, <2>5, <2>6, <2>7 DEF ExtrasNext
  <1> QED
    BY <1>1, <1>2 DEF ReadBy, GroupMessageReceipts

\* Edits, pins, reactions, recalls and deletions that race leave extensions that
\* agree with their tables; what was retracted stays so until it expires, a recall
\* or deletion commits under a right that is still there, receipts only grow and
\* nobody finds anything unread from before he joined.
THEOREM ExtrasKeepPromise == ExtrasSpec => ExtrasKept
  <1>1. scenario \in Scenario /\ ExtrasInv => ExtensionAgrees /\ DeletedLeavesNothing /\ NothingUnreadBeforeJoining
    BY DEF ExtrasInv
  <1>2. ExtrasSpec => [](ExtensionAgrees /\ DeletedLeavesNothing /\ NothingUnreadBeforeJoining)
    BY <1>1, ExtrasInvariant, PTL
  <1>3. ExtrasSpec => RetractedForGood
    BY ExtrasInvariant, RetractedStays, PTL DEF ExtrasSpec, RetractedForGood
  <1>4. ExtrasSpec => CommittedRightfully
    BY ExtrasInvariant, CommitsRightly, PTL DEF ExtrasSpec, CommittedRightfully
  <1>5. ExtrasSpec => ReceiptsOnlyGrow
    BY ExtrasInvariant, ReadersStay, PTL DEF ExtrasSpec, ReceiptsOnlyGrow
  <1> QED
    BY <1>2, <1>3, <1>4, <1>5 DEF ExtrasKept

(***************************************************************************)
(* The directory of numbers, enterprises and the import (TenantDirectory). *)
(***************************************************************************)
CompanyField == {"exists", "enabled", "default", "version"}

\* A code belongs to one number, and one that was accepted is gone.
CodesInv ==
    /\ sent \in Nat /\ sent <= MaxCode
    /\ DOMAIN otp = Phone
    /\ \A p \in Phone : /\ DOMAIN otp[p] = {"code", "attempts"}
                        /\ otp[p].code \in Nat /\ otp[p].code <= sent
    /\ \A p, q \in Phone : p # q /\ otp[p].code # 0 => otp[p].code # otp[q].code
    /\ DOMAIN verifying = Verifier
    /\ \A v \in Verifier : "step" \in DOMAIN verifying[v]
                        /\ (verifying[v].step = "delete" =>
                              verifying[v].phone \in Phone /\ verifying[v].code \in 1 .. MaxCode)
    /\ DOMAIN accepted = 1 .. MaxCode
    /\ \A c \in 1 .. MaxCode : /\ accepted[c] \in {0, 1}
                               /\ accepted[c] = 1 => c <= sent /\ \A p \in Phone : otp[p].code # c

NumbersInv == DOMAIN owner = Phone /\ DOMAIN reservation = Phone /\ ReservedIsFree

\* Who is about to write an enterprise holds the lock alone, and does not
\* disable the default.
CompaniesInv ==
    /\ DOMAIN company = Company
    /\ \A c \in Company : /\ DOMAIN company[c] = CompanyField
                          /\ company[c].default => company[c].exists
    /\ DOMAIN saving = Admin
    /\ \A a \in Admin : saving[a].step = "write" =>
          saving[a].company \in Company /\ (company[saving[a].company].default => saving[a].enabled)

\* Whom the import is done with has his mapping.
ImportInv ==
    /\ imported \subseteq Live /\ mapped \subseteq Source
    /\ importer.step \in {"user", "map"} => Live \ importer.left \subseteq mapped
    /\ importer.step = "map" => importer.user \in Live
    /\ importer.step \in {"user", "map"} => importer.left \subseteq Live
    /\ ImportComplete

DirectoryInv == CodesInv /\ NumbersInv /\ CompaniesInv /\ ImportInv

LEMMA DirectoryInitHolds == DirectoryInit => DirectoryInv
  <1> SUFFICES ASSUME DirectoryInit PROVE DirectoryInv
    OBVIOUS
  <1>1. CodesInv
    BY DirectoryAssumption DEF DirectoryInit, CodesInv
  <1>2. NumbersInv
    BY DEF DirectoryInit, NumbersInv, ReservedIsFree
  <1>3. CompaniesInv
    BY DEF DirectoryInit, CompaniesInv, NotSaved, CompanyField
  <1>4. ImportInv
    BY DEF DirectoryInit, ImportInv, ImportComplete
  <1> QED
    BY <1>1, <1>2, <1>3, <1>4 DEF DirectoryInv

LEMMA CodesStay ==
  ASSUME CodesInv, UNCHANGED <<sent, otp, verifying, accepted>>
  PROVE  CodesInv'
  BY DEF CodesInv

LEMMA NumbersStay ==
  ASSUME NumbersInv, UNCHANGED <<owner, reservation>>
  PROVE  NumbersInv'
  BY DEF NumbersInv, ReservedIsFree

LEMMA CompaniesStay ==
  ASSUME CompaniesInv, UNCHANGED companyVars
  PROVE  CompaniesInv'
  BY DEF CompaniesInv, companyVars

LEMMA ImportStays ==
  ASSUME ImportInv, UNCHANGED importVars
  PROVE  ImportInv'
  BY DEF ImportInv, ImportComplete, importVars

\* A request that gives its code up, or has used it, holds none.
LEMMA CodesFree ==
  ASSUME CodesInv, UNCHANGED <<sent, otp, accepted>>, NEW v \in Verifier, NEW s \in {"idle", "good"}, Verify(v, s)
  PROVE  CodesInv'
  <1>1. verifying' = [verifying EXCEPT ![v].step = s]
    BY DEF Verify
  <1>2. DOMAIN verifying' = Verifier /\ \A w \in Verifier : w # v => verifying'[w] = verifying[w]
    BY <1>1 DEF CodesInv
  <1>3. "step" \in DOMAIN verifying'[v] /\ verifying'[v].step = s
    BY <1>1 DEF CodesInv
  <1> QED
    BY <1>2, <1>3 DEF CodesInv

LEMMA CodeKeeps ==
  ASSUME DirectoryInv, NEW p \in Phone, Code(p)
  PROVE  DirectoryInv'
  <1>1. /\ sent < MaxCode /\ sent' = sent + 1 /\ otp' = [otp EXCEPT ![p] = [code |-> sent', attempts |-> 0]]
        /\ UNCHANGED <<owner, reservation, verifying, accepted, companyVars, importVars>>
    BY DEF Code
  <1>2. /\ DOMAIN otp' = Phone /\ DOMAIN otp'[p] = {"code", "attempts"} /\ otp'[p].code = sent + 1
        /\ \A q \in Phone : q # p => otp'[q] = otp[q]
    BY <1>1 DEF DirectoryInv, CodesInv
  <1>3. CodesInv'
    BY <1>1, <1>2, DirectoryAssumption DEF DirectoryInv, CodesInv
  <1> QED
    BY <1>1, <1>3, NumbersStay, CompaniesStay, ImportStays DEF DirectoryInv

LEMMA VerifyBeginKeeps ==
  ASSUME DirectoryInv, NEW v \in Verifier, NEW person \in PhoneUser, NEW p \in Phone, NEW c \in 1 .. MaxCode,
         VerifyBegin(v, person, p, c)
  PROVE  DirectoryInv'
  <1>1. /\ otp' = [otp EXCEPT ![p].attempts = @ + 1]
        /\ verifying' = IF c = otp[p].code
             THEN [verifying EXCEPT ![v] = [step |-> "delete", person |-> person, phone |-> p, code |-> c]]
             ELSE verifying
        /\ UNCHANGED <<owner, reservation, sent, accepted, companyVars, importVars>>
    BY DEF VerifyBegin
  <1>2. DOMAIN otp' = Phone /\ \A q \in Phone : DOMAIN otp'[q] = {"code", "attempts"} /\ otp'[q].code = otp[q].code
    BY <1>1 DEF DirectoryInv, CodesInv
  <1>3. DOMAIN verifying' = Verifier /\ \A w \in Verifier : w # v => verifying'[w] = verifying[w]
    BY <1>1 DEF DirectoryInv, CodesInv
  <1>4. /\ "step" \in DOMAIN verifying'[v]
        /\ verifying'[v].step = "delete" => verifying'[v].phone \in Phone /\ verifying'[v].code \in 1 .. MaxCode
    BY <1>1 DEF DirectoryInv, CodesInv
  <1>5. CodesInv'
    BY <1>1, <1>2, <1>3, <1>4 DEF DirectoryInv, CodesInv
  <1> QED
    BY <1>1, <1>5, NumbersStay, CompaniesStay, ImportStays DEF DirectoryInv

LEMMA VerifyEndKeeps ==
  ASSUME DirectoryInv, NEW v \in Verifier, VerifyEnd(v)
  PROVE  DirectoryInv'
  <1> DEFINE p == verifying[v].phone
             tried == verifying[v].code
  <1>1. /\ verifying[v].step = "delete"
        /\ otp' = IF otp[p].code = tried THEN [otp EXCEPT ![p] = [code |-> 0, attempts |-> 0]] ELSE otp
        /\ IF otp[p].code = tried
              THEN accepted' = [accepted EXCEPT ![tried] = @ + 1] /\ Verify(v, "good")
              ELSE Verify(v, "idle") /\ UNCHANGED accepted
        /\ UNCHANGED <<owner, reservation, sent, companyVars, importVars>>
    BY DEF VerifyEnd, RowDeleted
  <1>2. p \in Phone /\ tried \in 1 .. MaxCode
    BY <1>1 DEF DirectoryInv, CodesInv
  <1>3. CASE otp[p].code # tried
    <2>1. CodesInv'
      BY <1>1, <1>3, CodesFree DEF DirectoryInv
    <2> QED
      BY <1>1, <2>1, NumbersStay, CompaniesStay, ImportStays DEF DirectoryInv
  <1>4. CASE otp[p].code = tried
    <2>1. /\ DOMAIN otp' = Phone /\ DOMAIN otp'[p] = {"code", "attempts"} /\ otp'[p].code = 0
          /\ \A q \in Phone : q # p => otp'[q] = otp[q]
      BY <1>1, <1>2, <1>4 DEF DirectoryInv, CodesInv
    <2>2. accepted[tried] = 0
      BY <1>2, <1>4 DEF DirectoryInv, CodesInv
    <2>3. /\ DOMAIN accepted' = 1 .. MaxCode /\ accepted'[tried] = 1
          /\ \A c \in 1 .. MaxCode : c # tried => accepted'[c] = accepted[c]
      <3>1. accepted' = [accepted EXCEPT ![tried] = @ + 1]
        BY <1>1, <1>4
      <3>2. DOMAIN accepted = 1 .. MaxCode
        BY DEF DirectoryInv, CodesInv
      <3> QED
        BY <1>2, <2>2, <3>1, <3>2
    <2>4. /\ DOMAIN verifying' = Verifier /\ \A w \in Verifier : w # v => verifying'[w] = verifying[w]
          /\ "step" \in DOMAIN verifying'[v] /\ verifying'[v].step = "good"
      BY <1>1, <1>4 DEF DirectoryInv, CodesInv, Verify
    <2>5. \A q \in Phone : otp'[q].code \in Nat /\ otp'[q].code <= sent /\ otp'[q].code # tried
      BY <1>2, <1>4, <2>1 DEF DirectoryInv, CodesInv
    <2>6. \A q \in Phone : otp'[q].code # 0 => otp'[q] = otp[q]
      BY <2>1
    <2>7. tried <= sent
      BY <1>2, <1>4 DEF DirectoryInv, CodesInv
    <2>8. CodesInv'
      BY <1>1, <2>1, <2>3, <2>4, <2>5, <2>6, <2>7 DEF DirectoryInv, CodesInv
    <2> QED
      BY <1>1, <2>8, NumbersStay, CompaniesStay, ImportStays DEF DirectoryInv
  <1> QED
    BY <1>3, <1>4

LEMMA NumberKeeps ==
  ASSUME DirectoryInv, \/ \E p \in Phone : CommitPhone(p)
                       \/ \E v \in Verifier : AddUser(v) \/ ChangePhone(v)
  PROVE  DirectoryInv'
  <1>1. ASSUME NEW p \in Phone, CommitPhone(p) PROVE DirectoryInv'
    <2>1. /\ owner' = [q \in Phone |-> IF q = p THEN reservation[p]
                                       ELSE IF owner[q] = reservation[p] THEN Unowned ELSE owner[q]]
          /\ reservation' = [reservation EXCEPT ![p] = Unowned]
          /\ UNCHANGED <<otp, sent, verifying, accepted, companyVars, importVars>>
      BY <1>1 DEF CommitPhone
    <2>2. NumbersInv'
      BY <2>1 DEF DirectoryInv, NumbersInv, ReservedIsFree
    <2> QED
      BY <2>1, <2>2, CodesStay, CompaniesStay, ImportStays DEF DirectoryInv
  <1>2. ASSUME NEW v \in Verifier, AddUser(v) PROVE DirectoryInv'
    <2>1. /\ owner' = IF NumberFree(verifying[v].phone)
                      THEN [owner EXCEPT ![verifying[v].phone] = verifying[v].person] ELSE owner
          /\ Verify(v, "idle")
          /\ UNCHANGED <<reservation, otp, sent, accepted, companyVars, importVars>>
      BY <1>2 DEF AddUser
    <2>2. NumbersInv'
      BY <2>1 DEF DirectoryInv, NumbersInv, ReservedIsFree, NumberFree
    <2>3. CodesInv'
      BY <2>1, CodesFree DEF DirectoryInv
    <2> QED
      BY <2>1, <2>2, <2>3, CompaniesStay, ImportStays DEF DirectoryInv
  <1>3. ASSUME NEW v \in Verifier, ChangePhone(v) PROVE DirectoryInv'
    <2>1. /\ reservation' = IF NumberFree(verifying[v].phone) /\ ~Changing(verifying[v].person)
                      THEN [reservation EXCEPT ![verifying[v].phone] = verifying[v].person]
                      ELSE reservation
          /\ Verify(v, "idle")
          /\ UNCHANGED <<owner, otp, sent, accepted, companyVars, importVars>>
      BY <1>3 DEF ChangePhone
    <2>2. NumbersInv'
      BY <2>1 DEF DirectoryInv, NumbersInv, ReservedIsFree, NumberFree
    <2>3. CodesInv'
      BY <2>1, CodesFree DEF DirectoryInv
    <2> QED
      BY <2>1, <2>2, <2>3, CompaniesStay, ImportStays DEF DirectoryInv
  <1> QED
    BY <1>1, <1>2, <1>3

\* What administrators do to the enterprises.
Administers ==
    \/ \E c \in Company : DefaultTenant(c) \/ \E enabled \in BOOLEAN : CreateTenant(c, enabled)
    \/ \E a \in Admin :
         \/ \E c \in Company, enabled \in BOOLEAN, n \in 1 .. MaxSave : SaveTenantBegin(a, c, enabled, n)
         \/ SaveTenantEnd(a)

DefaultFollows ==
    (\E c \in Company : company[c].default /\ company[c].enabled) =>
        \E c \in Company : company'[c].default /\ company'[c].enabled

LEMMA AdministersKeeps ==
  ASSUME CompaniesInv, Administers
  PROVE  CompaniesInv' /\ DefaultFollows
  <1>1. ASSUME NEW c \in Company, DefaultTenant(c) PROVE CompaniesInv' /\ DefaultFollows
    <2>1. /\ NoneSaving /\ company[c].exists /\ company[c].enabled /\ saving' = saving
          /\ company' = [d \in Company |->
               IF d = c THEN [company[d] EXCEPT !.default = TRUE, !.version = @ + 1]
               ELSE IF company[d].default THEN [company[d] EXCEPT !.default = FALSE, !.version = @ + 1]
               ELSE company[d]]
      BY <1>1 DEF DefaultTenant, MayBeDefault
    <2>2. /\ DOMAIN company' = Company
          /\ \A d \in Company : DOMAIN company'[d] = CompanyField /\ company'[d].exists = company[d].exists
                                /\ company'[d].enabled = company[d].enabled
                                /\ (company'[d].default => d = c \/ company[d].default)
          /\ company'[c].default
      BY <2>1 DEF CompaniesInv, CompanyField
    <2>3. \A a \in Admin : saving'[a].step # "write"
      BY <2>1 DEF NoneSaving
    <2>4. \A d \in Company : company'[d].default => company'[d].exists
      BY <2>1, <2>2 DEF CompaniesInv
    <2>5. DOMAIN saving' = Admin
      BY <2>1 DEF CompaniesInv
    <2>6. CompaniesInv'
      BY <2>2, <2>3, <2>4, <2>5 DEF CompaniesInv
    <2>7. DefaultFollows
      BY <2>1, <2>2 DEF DefaultFollows
    <2> QED
      BY <2>6, <2>7
  <1>2. ASSUME NEW c \in Company, NEW enabled \in BOOLEAN, CreateTenant(c, enabled) PROVE CompaniesInv' /\ DefaultFollows
    <2>1. /\ NoneSaving /\ ~company[c].exists /\ saving' = saving
          /\ company' = [company EXCEPT ![c] =
               [exists |-> TRUE, enabled |-> enabled, default |-> Existing = {}, version |-> 1]]
      BY <1>2 DEF CreateTenant
    <2>2. /\ DOMAIN company' = Company /\ DOMAIN company'[c] = CompanyField /\ company'[c].exists
          /\ \A d \in Company : d # c => company'[d] = company[d]
      BY <2>1 DEF CompaniesInv, CompanyField
    <2>3. CompaniesInv'
      BY <2>1, <2>2 DEF CompaniesInv, NoneSaving
    <2>4. DefaultFollows
      BY <2>1, <2>2 DEF CompaniesInv, DefaultFollows
    <2> QED
      BY <2>3, <2>4
  <1>3. ASSUME NEW a \in Admin, NEW c \in Company, NEW enabled \in BOOLEAN, NEW n, SaveTenantBegin(a, c, enabled, n)
        PROVE  CompaniesInv' /\ DefaultFollows
    <2>1. /\ NoneSaving /\ company' = company
          /\ saving' = [saving EXCEPT ![a] =
               [step |-> IF company[c].default /\ ~enabled THEN "idle" ELSE "write",
                company |-> c, enabled |-> enabled, version |-> n]]
      BY <1>3 DEF SaveTenantBegin
    <2>2. /\ DOMAIN saving' = Admin /\ saving'[a].company = c /\ saving'[a].enabled = enabled
          /\ saving'[a].step = "write" => (company[c].default => enabled)
          /\ \A b \in Admin : b # a => saving'[b] = saving[b]
      BY <2>1 DEF CompaniesInv
    <2>3. CompaniesInv'
      BY <2>1, <2>2 DEF CompaniesInv
    <2> QED
      BY <2>1, <2>3 DEF DefaultFollows
  <1>4. ASSUME NEW a \in Admin, SaveTenantEnd(a) PROVE CompaniesInv' /\ DefaultFollows
    <2> DEFINE x == saving[a].company
    <2>1. /\ saving[a].step = "write"
          /\ company' = IF company[x].version = saving[a].version
               THEN [company EXCEPT ![x].enabled = saving[a].enabled, ![x].version = @ + 1]
               ELSE company
          /\ saving' = [saving EXCEPT ![a] = [step |-> "idle"]]
      BY <1>4 DEF SaveTenantEnd
    <2>2. x \in Company /\ (company[x].default => saving[a].enabled)
      BY <2>1 DEF CompaniesInv
    <2>3. /\ DOMAIN company' = Company
          /\ \A d \in Company : DOMAIN company'[d] = CompanyField /\ company'[d].exists = company[d].exists
                                /\ company'[d].default = company[d].default
          /\ \A d \in Company : d # x => company'[d] = company[d]
          /\ company'[x].enabled = company[x].enabled \/ company'[x].enabled = saving[a].enabled
      BY <2>1, <2>2 DEF CompaniesInv, CompanyField
    <2>4. /\ DOMAIN saving' = Admin /\ saving'[a].step = "idle" /\ \A b \in Admin : b # a => saving'[b] = saving[b]
      BY <2>1 DEF CompaniesInv
    <2>5. CompaniesInv'
      BY <2>3, <2>4 DEF CompaniesInv
    <2>6. DefaultFollows
      BY <2>2, <2>3 DEF DefaultFollows
    <2> QED
      BY <2>5, <2>6
  <1> QED
    BY <1>1, <1>2, <1>3, <1>4 DEF Administers

LEMMA AdministersAlone == Administers => UNCHANGED <<numberVars, importVars>>
  BY DEF Administers, DefaultTenant, CreateTenant, SaveTenantBegin, SaveTenantEnd

LEMMA ImportKeeps ==
  ASSUME ImportInv, ImportNext \/ ImportStops
  PROVE  ImportInv'
  <1>1. CASE ImportBegin
    BY <1>1 DEF ImportBegin, Importer, ImportInv, ImportComplete
  <1>2. CASE \E u \in Source : ImportUser(u)
    BY <1>2 DEF ImportUser, ImportInv, ImportComplete
  <1>3. CASE ImportMap
    <2>1. /\ importer.step = "map" /\ mapped' = mapped \union {importer.user} /\ imported' = imported
          /\ importer' = [step |-> "user", left |-> importer.left \ {importer.user}]
      BY <1>3 DEF ImportMap, KeepMapping, Importer
    <2> QED
      BY <2>1 DEF ImportInv, ImportComplete, Live
  <1>4. CASE ImportFinish
    <2>1. /\ importer.step = "user" /\ importer.left = {} /\ mapped' = mapped \union Deleted /\ imported' = imported
          /\ importer'.step = IF Cardinality(imported) = Cardinality(Live) THEN "done" ELSE "failed"
      BY <1>4 DEF ImportFinish, MappingsOfDeleted, Importer
    <2>2. mapped' = Source
      BY <2>1, DirectoryAssumption DEF ImportInv, Live
    <2>3. Cardinality(imported) = Cardinality(Live) => imported = Live
      <3>1. IsFiniteSet(Live)
        BY DirectoryAssumption, FS_Subset DEF Live
      <3>2. imported \in SUBSET Live
        BY DEF ImportInv
      <3> QED
        BY <3>1, <3>2, FS_Subset
    <2>4. importer'.step \notin {"user", "map"} /\ (importer'.step = "done" => imported = Live)
      BY <2>1, <2>3
    <2> QED
      BY <2>1, <2>2, <2>4 DEF ImportInv, ImportComplete
  <1>5. CASE ImportStops
    BY <1>5 DEF ImportStops, ImportInv, ImportComplete
  <1> QED
    BY <1>1, <1>2, <1>3, <1>4, <1>5 DEF ImportNext

LEMMA ImportAlone == ImportNext \/ ImportStops => UNCHANGED <<numberVars, companyVars>>
  BY DEF ImportNext, ImportBegin, ImportUser, ImportMap, ImportFinish, ImportStops

LEMMA DirectoryStep == DirectoryInv /\ [DirectoryNext]_directoryVars => DirectoryInv' /\ (DefaultFollows \/ UNCHANGED directoryVars)
  <1> SUFFICES ASSUME DirectoryInv, [DirectoryNext]_directoryVars
               PROVE  DirectoryInv' /\ (DefaultFollows \/ UNCHANGED directoryVars)
    OBVIOUS
  <1>1. CASE UNCHANGED directoryVars
    BY <1>1, CodesStay, NumbersStay, CompaniesStay, ImportStays DEF directoryVars, numberVars, DirectoryInv
  <1>2. CASE Administers
    BY <1>2, AdministersKeeps, AdministersAlone, CodesStay, NumbersStay, ImportStays DEF DirectoryInv, numberVars
  <1>3. CASE ImportNext \/ ImportStops
    <2>1. UNCHANGED <<numberVars, companyVars>>
      BY <1>3, ImportAlone
    <2>2. DirectoryInv'
      BY <1>3, <2>1, ImportKeeps, CodesStay, NumbersStay, CompaniesStay DEF DirectoryInv, numberVars
    <2> QED
      BY <2>1, <2>2 DEF DefaultFollows, companyVars
  <1>4. CASE \/ \E p \in Phone : Code(p) \/ CommitPhone(p)
             \/ \E v \in Verifier :
                  \/ \E person \in PhoneUser, p \in Phone, c \in 1 .. MaxCode : VerifyBegin(v, person, p, c)
                  \/ VerifyEnd(v) \/ AddUser(v) \/ ChangePhone(v)
    <2>1. DirectoryInv'
      BY <1>4, CodeKeeps, VerifyBeginKeeps, VerifyEndKeeps, NumberKeeps
    <2>2. UNCHANGED companyVars
      BY <1>4 DEF Code, CommitPhone, VerifyBegin, VerifyEnd, AddUser, ChangePhone
    <2> QED
      BY <2>1, <2>2 DEF DefaultFollows, companyVars
  <1> QED
    BY <1>1, <1>2, <1>3, <1>4 DEF DirectoryNext, Administers

LEMMA DirectoryInvariant == DirectorySpec => []DirectoryInv
  <1>1. DirectoryInv /\ [DirectoryNext]_directoryVars => DirectoryInv'
    BY DirectoryStep
  <1> QED
    BY <1>1, DirectoryInitHolds, PTL DEF DirectorySpec

\* However many requests carry a code it is accepted once; a number held for a
\* change is nobody's; an import that reports success is complete; and an enabled
\* default enterprise is followed by an enabled default.
THEOREM DirectoryKeepsPromise == DirectorySpec => DirectoryKept
  <1>1. DirectoryInv => CodeAcceptedOnce /\ ReservedIsFree /\ ImportComplete
    <2>1. DirectoryInv => CodeAcceptedOnce
      BY DEF DirectoryInv, CodesInv, CodeAcceptedOnce
    <2> QED
      BY <2>1 DEF DirectoryInv, NumbersInv, ImportInv
  <1>2. DirectoryInv /\ [DirectoryNext]_directoryVars => [DefaultFollows]_directoryVars
    BY DirectoryStep
  <1>3. DirectorySpec => [][DefaultFollows]_directoryVars
    BY <1>2, DirectoryInvariant, PTL DEF DirectorySpec
  <1>4. DirectorySpec => DefaultStaysEnabled
    BY <1>3 DEF DefaultFollows, DefaultStaysEnabled
  <1>5. DirectorySpec => [](CodeAcceptedOnce /\ ReservedIsFree /\ ImportComplete)
    BY <1>1, DirectoryInvariant, PTL
  <1> QED
    BY <1>4, <1>5 DEF DirectoryKept
=============================================================================
