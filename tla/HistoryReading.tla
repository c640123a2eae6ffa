---------------------------- MODULE HistoryReading ----------------------------
(***************************************************************************)
(* What one member reads of a group's messages while messages arrive and   *)
(* are deleted, the history is opened and closed to new members, and the   *)
(* member leaves and joins.  A page is fetched from WuKongIM between two   *)
(* readings of the member's access, deleted messages are taken out, and    *)
(* the loop goes on until the page is full; the loaders of the history and *)
(* of the search build on it.  Access by the time of joining, which rows   *)
(* older than the cut-off column have, is not distinguished from a cut-off.*)
(***************************************************************************)
EXTENDS Naturals, FiniteSets

CONSTANTS
    MaxTop,       \* messages of the group
    PageSize,     \* messages a caller asks for
    Matching,     \* messages whose text matches the search
    SearchPages,  \* pages one search may fetch (20)
    MaxShift      \* bound on the changes of policy and membership

ASSUME HistoryAssumption == MaxTop \in Nat /\ PageSize \in Nat \ {0} /\ SearchPages \in Nat /\ MaxShift \in Nat

VARIABLES
    top,      \* WuKongIM: messages 1..top
    indexed,  \* im_wukong_message_index, behind WuKongIM
    tombs,  \* messages deleted for everyone
    seat,     \* the policy, and the member's row: in, cut (history_after_seq)
    shifts,
    read,     \* the request under way
    pageWalk      \* the pages a client has put together; owed: what was readable all the time

historyVars == <<top, indexed, tombs, seat, shifts, read, pageWalk>>

Allows(a, s) == a.open \/ s > a.cut
Readable == {s \in 1..top : seat.in /\ Allows(seat, s) /\ s \notin tombs}
Lowest(S) == CHOOSE x \in S : \A y \in S : x <= y
Highest(S) == CHOOSE x \in S : \A y \in S : y <= x
LastOf(S, n) == {x \in S : Cardinality({y \in S : y > x}) < n}
FirstOf(S, n) == {x \in S : Cardinality({y \in S : y < x}) < n}
LargerOf(a, b) == IF a > b THEN a ELSE b
SmallerOf(a, b) == IF a < b THEN a ELSE b

NoRead == [kind |-> "none", phase |-> "idle", mode |-> 0, start |-> 0, end |-> 0, access |-> [open |-> FALSE, cut |-> 0],
           raw |-> {}, more |-> FALSE, got |-> {}, items |-> {}, before |-> 0, pages |-> 0, owed |-> {}, last |-> 0, unread |-> 0, full |-> FALSE]
NoPageWalk == [phase |-> "off", mode |-> 0, from |-> 0, kept |-> {}, owed |-> {}]

HistoryInit ==
    /\ top = 0 /\ indexed = {} /\ tombs = {} /\ shifts = 0
    /\ seat = [open |-> FALSE, in |-> TRUE, cut |-> 0] /\ read = NoRead /\ pageWalk = NoPageWalk

\* ---- what happens meanwhile ---------------------------------------------
StillOwed ==
    /\ read' = [read EXCEPT !.owed = @ \cap Readable']
    /\ pageWalk' = [pageWalk EXCEPT !.owed = @ \cap Readable']
Arrive == top < MaxTop /\ top' = top + 1 /\ UNCHANGED <<indexed, tombs, seat, shifts>> /\ StillOwed
Indexed(s) == s \in 1..top /\ s \notin indexed /\ indexed' = indexed \cup {s} /\ UNCHANGED <<top, tombs, seat, shifts, read, pageWalk>>
DeleteForEveryone(s) == s \in indexed \ tombs /\ tombs' = tombs \cup {s} /\ UNCHANGED <<top, indexed, seat, shifts>> /\ StillOwed
Shift(r) == shifts < MaxShift /\ shifts' = shifts + 1 /\ seat' = r /\ UNCHANGED <<top, indexed, tombs>> /\ StillOwed
SetVisibility == Shift([seat EXCEPT !.open = ~@])
Leave == seat.in /\ Shift([seat EXCEPT !.in = FALSE])
\* addGroupMembersWithHistory: the cut-off is WuKongIM's highest sequence.
JoinAgain == ~seat.in /\ Shift([seat EXCEPT !.in = TRUE, !.cut = top])

\* ---- one page -------------------------------------------------------------
Step(r) == read' = r /\ UNCHANGED <<top, indexed, tombs, seat, shifts, pageWalk>>
\* Without a row of im_members every reading of the access is refused.
Refused == Step(NoRead)
GroupHistoryAccess == [open |-> seat.open, cut |-> seat.cut]
Wanted(r) == PageSize - Cardinality(r.got)

\* syncGroupHistoryPage, before the call: the cut-off narrows the request.
AskPage ==
    /\ read.phase = "page"
    /\ IF ~seat.in THEN Refused
       ELSE LET now == GroupHistoryAccess
                bounded == ~now.open /\ (read.start # 0 \/ read.end # 0)
                below == bounded /\ read.mode = 0 /\ 0 < read.start /\ read.start <= now.cut
            IN Step(IF below THEN [read EXCEPT !.phase = "checked", !.access = now, !.raw = {}, !.more = FALSE]
                    ELSE [read EXCEPT !.phase = "call", !.access = now,
                             !.end = IF bounded /\ read.mode = 0 THEN LargerOf(@, now.cut) ELSE @,
                             !.start = IF bounded /\ read.mode = 1 THEN LargerOf(@, now.cut + 1) ELSE @])
\* WuKongIM's channel/messagesync: the newest page without bounds, downwards
\* from start to above end, or upwards from start.
PageOf(r) == {s \in 1..top : \/ r.start = 0 /\ r.end = 0
                             \/ r.mode = 0 /\ (r.start = 0 \/ s <= r.start) /\ s > r.end
                             \/ r.mode = 1 /\ s >= r.start /\ (r.end = 0 \/ s < r.end)}
SyncMessages ==
    /\ read.phase = "call"
    /\ LET page == IF read.mode = 1 /\ read.start + read.end > 0 THEN FirstOf(PageOf(read), Wanted(read)) ELSE LastOf(PageOf(read), Wanted(read))
       IN Step([read EXCEPT !.phase = "answered", !.raw = page, !.more = page # PageOf(read)])
\* The access is read again after the call and filters the page.
EndsHere(a, page, visible) ==
    \/ visible # page /\ (read.mode = 0 \/ read.start = 0)
    \/ read.mode = 0 /\ ~a.open /\ \E s \in visible : s <= a.cut + 1
Recheck ==
    /\ read.phase = "answered"
    /\ IF ~seat.in THEN Refused
       ELSE LET now == GroupHistoryAccess
                visible == {s \in read.raw : Allows(now, s)}
            IN Step([read EXCEPT !.phase = "checked", !.access = now, !.raw = visible, !.more = @ /\ ~EndsHere(now, read.raw, visible)])
Undeleted(S) == S \ tombs
filterDeletedWireMessages(S) == Undeleted(S)
\* The next page starts beyond everything fetched, deleted or not.
\* A plausible slip: the last message is fetched again.
FromLast(page) == IF read.mode = 0 THEN Lowest(page) ELSE Highest(page)
NextStart(page) == IF read.mode = 0 THEN Lowest(page) - 1 ELSE Highest(page) + 1
\* syncVisibleGroupMessages: until the page is full, ends, or lost nothing.
syncVisibleGroupMessages ==
    /\ read.phase = "checked"
    /\ LET visible == filterDeletedWireMessages(read.raw)
           got == read.got \cup visible
           enough == Cardinality(got) >= PageSize \/ ~read.more \/ read.raw = {} \/ visible = read.raw
           ends == (read.mode = 0 /\ Lowest(read.raw) <= 1) \/ read.start = NextStart(read.raw)
       IN Step(IF enough THEN [read EXCEPT !.phase = "synced", !.got = got]
               ELSE IF ends THEN [read EXCEPT !.phase = "synced", !.got = got, !.more = FALSE]
               ELSE [read EXCEPT !.phase = "page", !.got = got, !.start = NextStart(read.raw)])

\* ---- a client that walks through the pages --------------------------------
BeginWalk(mode) ==
    /\ read.kind = "none" /\ pageWalk.phase # "on" /\ seat.in
    /\ pageWalk' = [phase |-> "on", mode |-> mode, from |-> mode, kept |-> {}, owed |-> Readable]
    /\ read' = [NoRead EXCEPT !.kind = "sync", !.phase = "page", !.mode = mode, !.start = mode]
    /\ UNCHANGED <<top, indexed, tombs, seat, shifts>>
\* A page upwards that the history was closed for comes back empty although more
\* is said to follow: it is asked for again.
ContinueWalk ==
    /\ read.kind = "sync" /\ read.phase = "synced"
    /\ LET from == IF read.got = {} THEN pageWalk.from
                   ELSE IF pageWalk.mode = 0 THEN Lowest(read.got) - 1 ELSE Highest(read.got) + 1
       IN IF read.more
          THEN /\ pageWalk' = [pageWalk EXCEPT !.kept = @ \cup read.got, !.from = from]
               /\ read' = [NoRead EXCEPT !.kind = "sync", !.phase = "page", !.mode = pageWalk.mode, !.start = from]
          ELSE pageWalk' = [pageWalk EXCEPT !.kept = @ \cup read.got, !.phase = "over"] /\ read' = NoRead
    /\ UNCHANGED <<top, indexed, tombs, seat, shifts>>
GiveUpWalk == pageWalk.phase = "on" /\ read.kind # "sync" /\ pageWalk' = NoPageWalk /\ UNCHANGED <<top, indexed, tombs, seat, shifts, read>>

\* ---- the loaders of the history and of the search -----------------------------
NoReading == read.kind = "none" /\ pageWalk.phase # "on"
LoadHistory(before) ==
    /\ NoReading /\ before # 1
    /\ Step([NoRead EXCEPT !.kind = "history", !.phase = "page", !.start = IF before > 1 THEN before - 1 ELSE 0])
Search(before) ==
    /\ NoReading /\ before # 1
    /\ Step([NoRead EXCEPT !.kind = "search", !.phase = "page", !.before = before, !.pages = 1, !.owed = Readable])
\* A message's time in milliseconds is beyond every sequence number.
CreatedMilli(s) == 1000 + s
Older(s, before) == before = 0 \/ CreatedMilli(s) < before
SearchGoesOn(more, got, items) == more /\ got # {} /\ Lowest(got) > 1 /\ read.pages < SearchPages /\ Cardinality(items) < PageSize
SearchPage ==
    /\ read.kind = "search" /\ read.phase = "synced"
    /\ LET found == {s \in Undeleted(read.got) \cap Matching : Older(s, read.before)}
           items == read.items \cup LastOf(found, PageSize - Cardinality(read.items))
       IN Step(IF SearchGoesOn(read.more, read.got, items)
               THEN [read EXCEPT !.phase = "page", !.items = items, !.pages = @ + 1, !.start = Lowest(read.got) - 1, !.end = 0, !.got = {}, !.raw = {}]
               ELSE [read EXCEPT !.phase = "loaded", !.items = items, !.full = Cardinality(items) = PageSize])
HistoryLoaded == read.kind = "history" /\ read.phase = "synced" /\ Step([read EXCEPT !.phase = "loaded", !.items = read.got])
\* The access is read once more, for all pages together.
StillVisible(a, S) == {s \in Undeleted(S) : Allows(a, s)}
LastCheck(a, S) == StillVisible(a, S)
filterCurrentGroupHistory ==
    /\ read.phase = "loaded" /\ read.kind \in {"history", "search"}
    /\ IF ~seat.in THEN Refused
       ELSE Step([read EXCEPT !.phase = "done", !.access = GroupHistoryAccess, !.items = LastCheck(GroupHistoryAccess, @)])
EndReading == read.phase = "done" /\ Step(NoRead)

\* ---- the source of a forward or an edit ---------------------------------------
\* The row may follow the acknowledgement: it is asked for until the deadline.
FindSource(s) ==
    NoReading /\ s \in 1..top /\ s \in indexed /\ seat.in /\ Allows(seat, s)
    /\ Step([NoRead EXCEPT !.kind = "source", !.phase = "found", !.got = {s}])
LoadSource == read.kind = "source" /\ read.phase = "found" /\ Step([read EXCEPT !.phase = "loaded", !.items = read.got])
\* ListWukongForwardMessageRefs once more, after the message was loaded.
StillAllowed(S) == seat.in /\ \A s \in S : Allows(seat, s)
SourceAllowed(S) == StillAllowed(S)
ConfirmSource ==
    /\ read.kind = "source" /\ read.phase = "loaded"
    /\ IF SourceAllowed(read.items) THEN Step([read EXCEPT !.phase = "done", !.access = GroupHistoryAccess]) ELSE Refused

\* ---- unread counts of the conversation list ------------------------------------
\* WuKongIM's count may reach back before the member joined.
SyncConversation(n) == NoReading /\ n \in 0..top /\ Step([NoRead EXCEPT !.kind = "list", !.phase = "listed", !.last = top, !.unread = n])
BoundUnread(n, last, cut) == SmallerOf(n, IF last > cut THEN last - cut ELSE 0)
OwnUnread(n, last, cut) == BoundUnread(n, last, cut)
UnreadAfterJoin ==
    /\ read.kind = "list" /\ read.phase = "listed"
    /\ IF ~seat.in THEN Step([read EXCEPT !.phase = "done", !.unread = 0])
       ELSE Step([read EXCEPT !.phase = "bounded", !.access = GroupHistoryAccess, !.unread = OwnUnread(@, read.last, seat.cut)])
DeletedUnreadCount ==
    /\ read.kind = "list" /\ read.phase = "bounded"
    /\ LET gone == {s \in tombs : s > read.last - read.unread /\ s <= read.last}
       IN Step([read EXCEPT !.phase = "done", !.unread = IF @ > Cardinality(gone) THEN @ - Cardinality(gone) ELSE 0])

HistoryNext ==
    \/ Arrive \/ SetVisibility \/ Leave \/ JoinAgain
    \/ \E s \in 1..MaxTop : Indexed(s) \/ DeleteForEveryone(s) \/ FindSource(s)
    \/ AskPage \/ SyncMessages \/ Recheck \/ syncVisibleGroupMessages
    \/ \E mode \in {0, 1} : BeginWalk(mode)
    \/ ContinueWalk \/ GiveUpWalk
    \/ \E before \in 0..MaxTop : LoadHistory(before) \/ Search(before)
    \/ SearchPage \/ HistoryLoaded \/ filterCurrentGroupHistory \/ EndReading
    \/ LoadSource \/ ConfirmSource
    \/ \E n \in 0..MaxTop : SyncConversation(n)
    \/ UnreadAfterJoin \/ DeletedUnreadCount

HistorySpec == HistoryInit /\ [][HistoryNext]_historyVars

\* A client that follows the pages to the end holds every message that it was
\* allowed to see all the while, and no page downwards is empty unless it is the
\* last, although deleted messages and the cut-off empty pages on the way
\* (group_history.go:62).
WalkComplete ==
    /\ pageWalk.phase = "over" => pageWalk.owed \subseteq pageWalk.kept
    /\ read.kind = "sync" /\ read.phase = "synced" /\ read.mode = 0 /\ read.more => read.got # {}

\* What the history, the search and a forward answer was visible when the access
\* was last read, after every call to WuKongIM (group_history.go:30).
AnswersAreCurrent == read.phase = "done" /\ read.kind # "list" => \A s \in read.items : Allows(read.access, s)

\* A search that came to the end before it was full has found every match that
\* was visible all the while.
SearchComplete ==
    read.phase = "done" /\ read.kind = "search" /\ read.before = 0 /\ ~read.full /\ (read.pages < SearchPages \/ ~read.more)
        => read.owed \cap Matching \subseteq read.items

\* The unread count shown never reaches back before the member joined, nor
\* counts a message that was already deleted when the request began (group_history.go:110).
NoForeignUnread ==
    read.phase = "done" /\ read.kind = "list" /\ read.unread > 0 =>
        read.unread <= Cardinality({s \in 1..read.last : s > read.access.cut})

\* "before is an exclusive WuKong message sequence" (wukong_message_transport.go:115):
\* a search before a message that came to the end has found the older matches.
SearchReachesOlder ==
    read.phase = "done" /\ read.kind = "search" /\ ~read.full /\ ~read.more
        => {s \in read.owed \cap Matching : s < read.before} \subseteq read.items

\* "Re-read after network IO so a concurrent close cannot return an older ON
\* policy" (group_history.go:132), for an answer made of several pages: it does
\* not hold for the earlier ones.
SyncIsCurrent == read.kind = "sync" /\ read.phase = "synced" => \A s \in read.got : Allows(read.access, s)

\* What a history page, a walk, a search and a list may say, whatever moves
\* between the reads they are made of.
HistorySafety == WalkComplete /\ AnswersAreCurrent /\ SearchComplete /\ NoForeignUnread
=============================================================================
