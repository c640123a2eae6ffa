------------------------------- MODULE ListPaging ------------------------------
(***************************************************************************)
(* The lists a caller walks page by page.  A list is its ORDER BY and the  *)
(* kind of its cursor: the key of the last row shown ("key"), the id of    *)
(* that row, looked up again ("row"), an offset next to a total counted by *)
(* a statement before the page's ("total"), or an offset with one row more *)
(* read than shown ("more").  Filters are a row's `match'; rows come, go   *)
(* and change between the statements of a walk.                            *)
(***************************************************************************)
EXTENDS Naturals, FiniteSets

CONSTANTS
    Id,         \* primary keys, 1..n
    PageLimit,      \* the page size
    MaxChange   \* bound on changes of rows during a walk

ASSUME PagingAssumption == Id \subseteq 1..9 /\ PageLimit \in Nat \ {0} /\ MaxChange \in Nat

VARIABLES
    row,        \* [Id -> here, match, at (created), touched (updated), rank (role, pinned)]
    walk,       \* the walk: list, cursor, total, what was shown
    changed,    \* number of changes
    steady      \* ghost: rows that matched at the start and have not changed place since

pageVars == <<row, walk, changed, steady>>

ByKey(order) == [order |-> order, cursor |-> "key"]
ByTotal(order) == [order |-> order, cursor |-> "total"]
ByMore(order) == [order |-> order, cursor |-> "more"]

listBusinessChannelsPage == ByKey("id")
ListBusinessChannelMembers == ByKey("id")
ListAdminBusinessChannels == ByKey("id")
ListAdminBusinessChannelAccess == ByKey("rank, id")
listBusinessChannelsForReconcile == ByKey("rank, id")
ListAdminSupportSessions == ByKey("id")
ListAdminAccounts == ByKey("id")
ListUserAccessLogs == ByKey("newest, id desc")
ListMoments == [order |-> "newest, id desc", cursor |-> "row"]
listAdminUsers == ByTotal("newest, id")
ListAdminReports == ByTotal("newest, id")
ListAdminAudits == ByTotal("newest, id")
ListAdminMessages == ByTotal("newest, id")
ListAdminMedia == ByTotal("newest, id")
ListAdminCalls == ByTotal("newest, id")
ListAdminAnnouncements == ByTotal("rank, newest, id")
ListAdminMoments == ByTotal("newest, id desc")
ListAdminStickerPacks == ByTotal("touched, id")
ListAdminInviteCodes == ByTotal("rank, newest, id")
ListAdminInviteRelations == ByTotal("newest, id desc")
ListAdminGroupsScoped == ByTotal("newest, id")
ListAdminGroups == ByTotal("newest, id")
ListAdminFriendships == ByTotal("touched, id")
ListAdminFeedback == ByTotal("newest, id")
ListAdminGroupMembers == ByTotal("rank, oldest, id")
ListClientVersionHistory == ByTotal("newest, id desc")
GroupMessageReceipts == ByMore("rank, id")
ListConversationMembersPage == ByMore("oldest, id")
users == ByMore("newest, id")
versionHistory == ByMore("newest, id desc")

List == {listBusinessChannelsPage, ListBusinessChannelMembers, ListAdminBusinessChannels, ListAdminBusinessChannelAccess,
         listBusinessChannelsForReconcile, ListAdminSupportSessions, ListAdminAccounts, ListUserAccessLogs, ListMoments,
         listAdminUsers, ListAdminReports, ListAdminAudits, ListAdminMessages, ListAdminMedia, ListAdminCalls,
         ListAdminAnnouncements, ListAdminMoments, ListAdminStickerPacks, ListAdminInviteCodes, ListAdminInviteRelations,
         ListAdminGroupsScoped, ListAdminGroups, ListAdminFriendships, ListAdminFeedback, ListAdminGroupMembers,
         ListClientVersionHistory, GroupMessageReceipts, ListConversationMembersPage, users, versionHistory}

\* The place of a row in an order: the columns are digits, later is smaller where the column is DESC.
Later(t) == 9 - t
Place(order, r, x) ==
    CASE order = "id" -> x
      [] order = "rank, id" -> 10 * r.rank + x
      [] order = "newest, id" -> 10 * Later(r.at) + x
      [] order = "newest, id desc" -> 10 * Later(r.at) + Later(x)
      [] order = "touched, id" -> 10 * Later(r.touched) + x
      [] order = "oldest, id" -> 10 * r.at + x
      [] order = "rank, oldest, id" -> 100 * r.rank + 10 * r.at + x
      [] order = "rank, newest, id" -> 100 * r.rank + 10 * Later(r.at) + x
Key(order, r, x) == Place(order, r, x)

Shown(x) == row[x].here /\ row[x].match
Total == Cardinality({x \in Id : Shown(x)})

\* LIMIT n of a set of rows: some n rows with no other one before one of them.
Firsts(order, xs, n) ==
    {ys \in SUBSET xs :
        /\ Cardinality(ys) = IF Cardinality(xs) < n THEN Cardinality(xs) ELSE n
        /\ \A y \in ys, x \in xs \ ys : Key(order, row[y], y) <= Key(order, row[x], x)}

NoWalk == [list |-> listBusinessChannelsPage, step |-> "none", cursor |-> 0, last |-> 0, total |-> 0, got |-> [x \in Id |-> 0]]

PagingInit ==
    /\ \E here \in SUBSET Id :
        row = [x \in Id |-> [here |-> x \in here, match |-> TRUE, at |-> 1, touched |-> 1, rank |-> x % 2]]
    /\ walk = NoWalk /\ changed = 0 /\ steady = {}

FirstPage(list) ==
    /\ walk.step = "none"
    /\ walk' = [walk EXCEPT !.list = list, !.step = IF list.cursor = "total" THEN "count" ELSE "page"]
    /\ changed' = 0 /\ steady' = {x \in Id : Shown(x)} /\ UNCHANGED row

\* SELECT count(*), a statement before the page's
CountTotal ==
    /\ walk.step = "count"
    /\ walk' = [walk EXCEPT !.step = "page", !.total = Total]
    /\ UNCHANGED <<row, changed, steady>>

Got(page) == [x \in Id |-> walk.got[x] + IF x \in page THEN 1 ELSE 0]
More(page, next, go) == walk' = [walk EXCEPT !.got = Got(page), !.cursor = IF go THEN next ELSE @,
                                             !.step = IF ~go THEN "done" ELSE IF walk.list.cursor = "total" THEN "count" ELSE "page"]

\* A plausible slip: the cursor is the row that was read beyond the page.
PeekedRow(page, rest) == CHOOSE y \in rest \ page : \A z \in rest \ page : Key(walk.list.order, row[y], y) <= Key(walk.list.order, row[z], z)
LastRow(page, rest) == CHOOSE y \in page : \A z \in page : Key(walk.list.order, row[z], z) <= Key(walk.list.order, row[y], y)

AfterCursor(x) == walk.cursor = 0 \/ Key(walk.list.order, row[x], x) > walk.cursor
KeysetPage ==
    /\ walk.step = "page" /\ walk.list.cursor = "key"
    /\ LET rest == {x \in Id : Shown(x) /\ AfterCursor(x)}
       IN \E page \in Firsts(walk.list.order, rest, PageLimit) :
            IF Cardinality(rest) > PageLimit
            THEN LET y == LastRow(page, rest) IN More(page, Key(walk.list.order, row[y], y), TRUE)
            ELSE More(page, 0, FALSE)
    /\ UNCHANGED <<row, changed, steady>>

\* The cursor row's place is read again: without the row no row follows it.
FollowsRow(x) ==
    walk.cursor # 0 => row[walk.cursor].here /\ Key(walk.list.order, row[x], x) > Key(walk.list.order, row[walk.cursor], walk.cursor)
CursorRowPage ==
    /\ walk.step = "page" /\ walk.list.cursor = "row"
    /\ LET rest == {x \in Id : Shown(x) /\ FollowsRow(x)}
       IN \E page \in Firsts(walk.list.order, rest, PageLimit) :
            IF Cardinality(rest) > PageLimit THEN More(page, LastRow(page, rest), TRUE) ELSE More(page, 0, FALSE)
    /\ UNCHANGED <<row, changed, steady>>

\* LIMIT and OFFSET: the rows before the offset, and the page
OffsetPage(n) == {op \in (SUBSET Id) \X (SUBSET Id) :
    LET all == {x \in Id : Shown(x)}
    IN op[1] \in Firsts(walk.list.order, all, walk.cursor) /\ op[2] \in Firsts(walk.list.order, all \ op[1], n)}

nextPageCursor(offset, count, total) == [go |-> offset + count < total, next |-> offset + count]
PageAfterTotal ==
    /\ walk.step = "page" /\ walk.list.cursor = "total"
    /\ \E op \in OffsetPage(PageLimit) :
        LET next == nextPageCursor(walk.cursor, Cardinality(op[2]), walk.total) IN More(op[2], next.next, next.go)
    /\ UNCHANGED <<row, changed, steady>>
PageOfOneMore ==
    /\ walk.step = "page" /\ walk.list.cursor = "more"
    /\ \E op \in OffsetPage(PageLimit) : More(op[2], walk.cursor + PageLimit, Total > walk.cursor + PageLimit)
    /\ UNCHANGED <<row, changed, steady>>

\* The callers' changes: a new row, a removed one, one the filter takes or drops,
\* one that is updated, one whose role or pin changes;
\* moments are never removed, only marked.
Changes(x) ==
    IF ~row[x].here THEN {[here |-> TRUE, match |-> TRUE, at |-> 2, touched |-> 2, rank |-> x % 2]}
    ELSE {[row[x] EXCEPT !.match = ~@], [row[x] EXCEPT !.touched = 3], [row[x] EXCEPT !.rank = 1 - @]} \union
         (IF walk.list.cursor = "row" THEN {} ELSE {[row[x] EXCEPT !.here = FALSE]})
ChangeRow(x, r) ==
    /\ walk.step \in {"count", "page"} /\ changed < MaxChange /\ changed' = changed + 1
    /\ r # row[x]
    /\ row' = [row EXCEPT ![x] = r]
    /\ steady' = IF r.here /\ r.match /\ Key(walk.list.order, r, x) = Key(walk.list.order, row[x], x) THEN steady ELSE steady \ {x}
    /\ UNCHANGED walk

PagingNext ==
    \/ \E l \in List : FirstPage(l)
    \/ CountTotal \/ KeysetPage \/ CursorRowPage \/ PageAfterTotal \/ PageOfOneMore
    \/ \E x \in Id : \E r \in Changes(x) : ChangeRow(x, r)

PagingSpec == PagingInit /\ [][PagingNext]_pageVars

--------------------------------------------------------------------------------
\* A walk by keys shows every row that was there all the time in one place
\* exactly once, whatever other rows do meanwhile (the offset lists do not
\* promise that: an insertion or a removal shifts them).
KeysetComplete ==
    walk.step = "done" /\ walk.list.cursor \in {"key", "row"} => \A x \in steady : walk.got[x] = 1

\* When nothing changes, every list shows every row once and nothing else: the
\* orders are total, the cursors fit them and no page is skipped or repeated.
QuietWalkExact ==
    walk.step = "done" /\ changed = 0 => \A x \in Id : walk.got[x] = IF Shown(x) THEN 1 ELSE 0

\* What a walk of a list has shown when it comes to its end.
WalksExact == KeysetComplete /\ QuietWalkExact
================================================================================
