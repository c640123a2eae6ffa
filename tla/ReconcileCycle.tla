-------------------------- MODULE ReconcileCycle --------------------------
(***************************************************************************)
(* The cursors of the periodic reconciler.  A cycle walks all users, then  *)
(* all channels, in pages: every runPage lists the next users behind       *)
(* userCursor and then the next channels behind channelCursor, in cursor   *)
(* order, and brings them up to date one by one.  An error about a user    *)
(* ends the page.  An error about a channel ends the page too, unless it   *)
(* is permanent (a 4xx) or the third in a row for that channel: then the   *)
(* channel is put off until the next cycle and the page goes on.           *)
(*                                                                         *)
(* Users and channels are numbered in cursor order; 0 is the empty cursor. *)
(* Channels come and go meanwhile; users are fixed.  What bringing one up  *)
(* to date does is the subject of ChannelSync.                             *)
(***************************************************************************)
EXTENDS Naturals, FiniteSets

CONSTANTS
    CycleUser,        \* numbers of the users
    Channel,     \* numbers of the channels that may ever exist
    PageSize,    \* r.batch, 100 in the code
    MaxAttempts, \* r.maxItemAttempts, 3 in the code
    BadUser      \* users whose lists WuKongIM refuses for good

ASSUME CycleAssumption ==
    /\ CycleUser \subseteq Nat \ {0} /\ IsFiniteSet(CycleUser)
    /\ Channel \subseteq Nat \ {0} /\ IsFiniteSet(Channel)
    /\ PageSize \in Nat \ {0}
    /\ MaxAttempts \in Nat \ {0}
    /\ BadUser \subseteq CycleUser

VARIABLES
    channels,      \* the channels that exist
    loop,          \* what runPage is at
    page,          \* items of the current page still to do
    full,          \* the current page has PageSize items
    userCursor, channelCursor,
    usersDone, channelsDone,
    failCursor, failAttempts,  \* consecutive failures of one channel
    cycleFailure,  \* an error is kept for the end of the cycle
    delay,         \* what Run waits for before the next page
    steady,        \* channels that exist since the cycle began (history)
    synced,        \* channels brought up to date in this cycle (history)
    deferred       \* channels put off in this cycle (history)

listVars == <<page, full>>
cursorVars == <<userCursor, channelCursor, usersDone, channelsDone>>
failVars == <<failCursor, failAttempts, cycleFailure>>
cycleHistory == <<steady, synced, deferred>>
cycleVars == <<channels, loop, listVars, cursorVars, failVars, delay, cycleHistory>>

CycleInit ==
    /\ channels \in SUBSET Channel
    /\ loop = "waiting" /\ delay = "start"
    /\ page = {} /\ full = FALSE
    /\ userCursor = 0 /\ channelCursor = 0
    /\ usersDone = FALSE /\ channelsDone = FALSE
    /\ failCursor = 0 /\ failAttempts = 0 /\ cycleFailure = FALSE
    /\ steady = channels /\ synced = {} /\ deferred = {}
---------------------------------------------------------------------------
\* WHERE cursor > after ORDER BY cursor LIMIT PageSize: a first part of the
\* rest, which ends early only when there is no more.
Lists(S, after, P) ==
    LET rest == {i \in S : i > after}
    IN  /\ P \subseteq rest
        /\ \A i \in P, j \in rest : j < i => j \in P
        /\ Cardinality(P) <= PageSize
        /\ Cardinality(P) < PageSize => P = rest

TakePage(S, after) ==
    \E P \in SUBSET S :
        /\ Lists(S, after, P)
        /\ page' = P
        /\ full' = (Cardinality(P) = PageSize)

ReturnPage(why) ==
    /\ loop' = "waiting"
    /\ delay' = why
    /\ page' = {} /\ full' = FALSE

\* The timer fires: list users, or channels when the users are done.
StartPage ==
    /\ loop = "waiting"
    /\ IF usersDone
       THEN loop' = "channels" /\ TakePage(channels, channelCursor)
       ELSE loop' = "users" /\ TakePage(CycleUser, userCursor)
    /\ UNCHANGED <<channels, cursorVars, failVars, delay, cycleHistory>>

\* The item the loop over the page is at.
Current(i) == i \in page /\ \A j \in page : i <= j

UserUpToDate ==
    /\ loop = "users"
    /\ \E u \in CycleUser \ BadUser :
        /\ Current(u)
        /\ userCursor' = u
        /\ page' = page \ {u}
    /\ UNCHANGED <<channels, loop, full, channelCursor, usersDone, channelsDone,
                   failVars, delay, cycleHistory>>

\* Whatever the error is, the page ends before its channels.
UserFails ==
    /\ loop = "users"
    /\ page # {}
    /\ ReturnPage("retry")
    /\ UNCHANGED <<channels, cursorVars, failVars, cycleHistory>>

\* A new cycle starts from empty cursors.
FinishCycle ==
    /\ ReturnPage("cycle")
    /\ userCursor' = 0 /\ channelCursor' = 0
    /\ usersDone' = FALSE /\ channelsDone' = FALSE
    /\ failCursor' = 0 /\ failAttempts' = 0 /\ cycleFailure' = FALSE
    /\ steady' = channels /\ synced' = {} /\ deferred' = {}
    /\ UNCHANGED channels

\* The end of runPage, with the users done or not and the channels done or not.
EndPage(users, chans) ==
    IF users /\ chans
    THEN FinishCycle
    ELSE /\ ReturnPage("page")
         /\ usersDone' = users /\ channelsDone' = chans
         /\ UNCHANGED <<channels, userCursor, channelCursor, failVars, cycleHistory>>

\* The users of the page are done: runPage goes on with channels, if any are
\* left.
UsersPageDone ==
    /\ loop = "users"
    /\ page = {}
    /\ IF channelsDone
       THEN EndPage(~full, TRUE)
       ELSE /\ usersDone' = ~full
            /\ loop' = "channels"
            /\ TakePage(channels, channelCursor)
            /\ UNCHANGED <<channels, userCursor, channelCursor, channelsDone,
                           failVars, delay, cycleHistory>>

\* The query for a page fails; that the users are done is not forgotten.
ListingFails ==
    /\ \/ loop = "waiting" /\ UNCHANGED usersDone
       \/ loop = "users" /\ page = {} /\ ~channelsDone /\ usersDone' = ~full
    /\ ReturnPage("retry")
    /\ UNCHANGED <<channels, userCursor, channelCursor, channelsDone, failVars, cycleHistory>>

\* A plausible slip: a page that is exactly full counts as the last one.
ChannelsPageDoneEarly ==
    /\ loop = "channels"
    /\ page = {}
    /\ EndPage(usersDone, TRUE)

ChannelsPageDone ==
    /\ loop = "channels"
    /\ page = {}
    /\ EndPage(usersDone, ~full)

\* A deleted channel has no snapshot to load.
ChannelUpToDate ==
    /\ loop = "channels"
    /\ \E c \in channels :
        /\ Current(c)
        /\ page' = page \ {c}
        /\ channelCursor' = c
        /\ synced' = synced \union {c}
        /\ IF failCursor = c
           THEN failCursor' = 0 /\ failAttempts' = 0
           ELSE UNCHANGED <<failCursor, failAttempts>>
    /\ UNCHANGED <<channels, loop, full, userCursor, usersDone, channelsDone,
                   cycleFailure, delay, steady, deferred>>

PutOff(c, failure) ==
    /\ page' = page \ {c}
    /\ channelCursor' = c
    /\ cycleFailure' = failure
    /\ failCursor' = 0 /\ failAttempts' = 0
    /\ deferred' = deferred \union {c}
    /\ UNCHANGED <<channels, loop, full, userCursor, usersDone, channelsDone,
                   delay, steady, synced>>

\* A 4xx other than 408 and 429.
ChannelRefused ==
    /\ loop = "channels"
    /\ \E c \in Channel : Current(c) /\ PutOff(c, TRUE)

\* How often c has failed in a row, counting the failure at hand.
Attempts(c) == IF failCursor = c THEN failAttempts + 1 ELSE 1

ChannelFailsUpTo(limit) ==
    /\ loop = "channels"
    /\ \E c \in Channel :
        /\ Current(c)
        /\ IF Attempts(c) < limit
           THEN /\ failCursor' = c /\ failAttempts' = Attempts(c)
                /\ ReturnPage("retry")
                /\ UNCHANGED <<channels, cursorVars, cycleFailure, cycleHistory>>
           ELSE PutOff(c, TRUE)

ChannelFails == ChannelFailsUpTo(MaxAttempts)
---------------------------------------------------------------------------
\* The rest of the system creates and deletes channels at any time.
CreateChannel(c) ==
    /\ channels' = channels \union {c}
    /\ channels' # channels
    /\ UNCHANGED <<loop, listVars, cursorVars, failVars, delay, cycleHistory>>

DeleteChannel(c) ==
    /\ c \in channels
    /\ channels' = channels \ {c}
    /\ steady' = steady \ {c}
    /\ UNCHANGED <<loop, listVars, cursorVars, failVars, delay, synced, deferred>>

\* The server restarts: nothing of the cycle is persisted.
Restart ==
    /\ loop' = "waiting" /\ delay' = "start"
    /\ page' = {} /\ full' = FALSE
    /\ userCursor' = 0 /\ channelCursor' = 0
    /\ usersDone' = FALSE /\ channelsDone' = FALSE
    /\ failCursor' = 0 /\ failAttempts' = 0 /\ cycleFailure' = FALSE
    /\ steady' = channels /\ synced' = {} /\ deferred' = {}
    /\ UNCHANGED channels

RunPage ==
    \/ StartPage \/ UserUpToDate \/ UserFails \/ UsersPageDone
    \/ ChannelUpToDate \/ ChannelRefused \/ ChannelFails \/ ChannelsPageDone

CycleNext ==
    \/ RunPage
    \/ ListingFails
    \/ \E c \in Channel : CreateChannel(c) \/ DeleteChannel(c)
    \/ Restart

CycleSpec == CycleInit /\ [][CycleNext]_cycleVars

\* Run ticks for as long as the server is up; a call returns or times out.
\* Servers do not restart for ever, channels do not change for ever, and a
\* user that is not refused for good fails only so often.
FairCycleSpec ==
    /\ CycleSpec
    /\ WF_cycleVars(RunPage)
    /\ SF_cycleVars(UserUpToDate)
    /\ <>[][~Restart /\ channels' = channels]_cycleVars
---------------------------------------------------------------------------
CycleTypeOK ==
    /\ channels \subseteq Channel
    /\ loop \in {"waiting", "users", "channels"}
    /\ delay \in {"start", "page", "retry", "cycle"}
    /\ page \subseteq CycleUser \union Channel
    /\ full \in BOOLEAN
    /\ userCursor \in CycleUser \union {0} /\ channelCursor \in Channel \union {0}
    /\ usersDone \in BOOLEAN /\ channelsDone \in BOOLEAN
    /\ failCursor \in Channel \union {0} /\ failAttempts \in 0..(MaxAttempts - 1)
    /\ cycleFailure \in BOOLEAN
    /\ steady \subseteq Channel /\ synced \subseteq Channel /\ deferred \subseteq Channel

\* This step ends a cycle.
Completes == loop # "waiting" /\ loop' = "waiting" /\ delay' = "cycle"

\* No cycle skips a channel: one that existed throughout was brought up to
\* date or put off, however pages broke off and channels came and went.
CycleCoversAll == [][Completes => steady \subseteq synced \union deferred]_cycleVars

\* A cycle that ends without an error brought every such channel up to date
\* (WUKONGIM_FEATURE_MATRIX.md: a deferral is never recorded as success).
SuccessIsHonest == [][Completes /\ ~cycleFailure => steady \subseteq synced]_cycleVars

\* Whatever its calls answer, a channel comes up again and again.
EveryChannelReached ==
    []<>(\A c \in channels : c \in synced \union deferred)

\* What a cycle answers for when it ends: nothing skipped, no failure hidden.
CycleKept == []CycleTypeOK /\ CycleCoversAll /\ SuccessIsHonest
===========================================================================
