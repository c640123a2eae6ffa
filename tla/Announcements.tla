----------------------------- MODULE Announcements -----------------------------
(***************************************************************************)
(* Announcements as they are kept twice: in PostgreSQL, with the push rows *)
(* and the audience events a publication writes, and in the memory of the  *)
(* process, which the tests and a local start without a database use.      *)
(***************************************************************************)
EXTENDS Naturals, FiniteSets

CONSTANTS
    Announcement, Reader, Audience,
    Suspended,   \* readers that are banned: no push
    MaxNow       \* bound on the clock

ASSUME BoardAssumption == Suspended \subseteq Reader /\ Audience \subseteq SUBSET Reader /\ MaxNow \in Nat

VARIABLES
    noticeRow,       \* im_announcements
    mark,      \* im_announcement_reads: "none", "read" or "dismissed"
    pushed,    \* how many rows im_push_outbox got for a reader
    event,     \* the last audience event of each announcement
    dismissal, \* each reader's DismissAnnouncements between its two statements
    memory,    \* a.announcements
    memRead, memGone, \* announcementReads and announcementDismissals
    now

storeVars == <<noticeRow, mark, pushed, event, dismissal>>
memoryVars == <<memory, memRead, memGone>>
announcementVars == <<noticeRow, mark, pushed, event, dismissal, memory, memRead, memGone, now>>

Nothing == [status |-> "absent", to |-> {}, due |-> 0, push |-> FALSE]
Editable == {"draft", "scheduled"}

AnnouncementsInit ==
    /\ noticeRow = [a \in Announcement |-> Nothing] /\ mark = [a \in Announcement |-> [r \in Reader |-> "none"]]
    /\ pushed = [a \in Announcement |-> [r \in Reader |-> 0]] /\ event = [a \in Announcement |-> "none"]
    /\ dismissal = [r \in Reader |-> {}]
    /\ memory = [a \in Announcement |-> Nothing] /\ memRead = {} /\ memGone = {} /\ now = 0

\* An identifier that was used is not given out again.
Fresh(a) == noticeRow[a].status = "absent" /\ event[a] = "none"

\* validateAnnouncementInput: a schedule lies in the future.
Input(to, due, push) == [status |-> IF due = 0 THEN "draft" ELSE "scheduled", to |-> to, due |-> due, push |-> push]
validateAnnouncementInput(due) == due = 0 \/ due > now

-----------------------------------------------------------------------------
\* PostgreSQL

Recipients(a) == noticeRow[a].to \ Suspended
\* enqueueAnnouncementPush for the announcements A.
Enqueued(A) == [a \in Announcement |-> [r \in Reader |->
                   IF a \in A /\ r \in Recipients(a) THEN pushed[a][r] + 1 ELSE pushed[a][r]]]
appendAnnouncementAudienceEvent(A, what) == [a \in Announcement |-> IF a \in A THEN what ELSE event[a]]

DueRows == {a \in Announcement : noticeRow[a].status = "scheduled" /\ noticeRow[a].due <= now}

\* A plausible slip: due only once the time is past.
Overdue == {a \in DueRows : noticeRow[a].due < now}
Ripe == DueRows

promoteScheduledAnnouncements ==
    /\ Ripe # {}
    /\ noticeRow' = [a \in Announcement |-> IF a \in Ripe THEN [noticeRow[a] EXCEPT !.status = "published"] ELSE noticeRow[a]]
    /\ pushed' = Enqueued({a \in Ripe : noticeRow[a].push})
    /\ event' = appendAnnouncementAudienceEvent(Ripe, "published")
    /\ UNCHANGED <<mark, dismissal, memory, memRead, memGone, now>>

CreateAnnouncement(a, to, due, push) ==
    /\ Fresh(a) /\ validateAnnouncementInput(due)
    /\ noticeRow' = [noticeRow EXCEPT ![a] = Input(to, due, push)]
    /\ UNCHANGED <<mark, pushed, event, dismissal, memory, memRead, memGone, now>>

Unpublished(a) == noticeRow[a].status \in Editable

UpdateAnnouncement(a, to, due, push) ==
    /\ Unpublished(a) /\ validateAnnouncementInput(due)
    /\ noticeRow' = [noticeRow EXCEPT ![a] = Input(to, due, push)]
    /\ UNCHANGED <<mark, pushed, event, dismissal, memory, memRead, memGone, now>>

\* Publishing what is published answers with the announcement and does nothing.
\* A plausible slip: that answer goes on to the push.
PublishesAgain(a) == noticeRow[a].status \in Editable \union {"published"}
Publishes(a) == noticeRow[a].status \in Editable

PublishAnnouncement(a, push) ==
    /\ Publishes(a)
    /\ noticeRow' = [noticeRow EXCEPT ![a].status = "published", ![a].due = 0, ![a].push = push]
    /\ pushed' = IF push THEN Enqueued({a}) ELSE pushed
    /\ event' = [event EXCEPT ![a] = "published"]
    /\ UNCHANGED <<mark, dismissal, memory, memRead, memGone, now>>

WithdrawAnnouncement(a) ==
    /\ noticeRow[a].status \in {"published", "scheduled"}
    /\ noticeRow' = [noticeRow EXCEPT ![a].status = "withdrawn"] /\ event' = [event EXCEPT ![a] = "withdrawn"]
    /\ UNCHANGED <<mark, pushed, dismissal, memory, memRead, memGone, now>>

DeleteAnnouncement(a) ==
    /\ noticeRow[a].status \in {"draft", "withdrawn"}
    /\ noticeRow' = [noticeRow EXCEPT ![a] = Nothing] /\ mark' = [mark EXCEPT ![a] = [r \in Reader |-> "none"]]
    /\ event' = [event EXCEPT ![a] = IF @ = "none" THEN "deleted" ELSE @]
    /\ UNCHANGED <<pushed, dismissal, memory, memRead, memGone, now>>

PublishedTo(a, r) == noticeRow[a].status = "published" /\ r \in noticeRow[a].to

MarkAnnouncementRead(a, r) ==
    /\ PublishedTo(a, r)
    /\ mark' = [mark EXCEPT ![a][r] = IF @ = "none" THEN "read" ELSE @]
    /\ UNCHANGED <<noticeRow, pushed, event, dismissal, memory, memRead, memGone, now>>

\* DismissAnnouncements counts what is eligible, then marks what still exists.
CountEligible(r, A) ==
    /\ dismissal[r] = {} /\ A # {} /\ \A a \in A : PublishedTo(a, r)
    /\ dismissal' = [dismissal EXCEPT ![r] = A]
    /\ UNCHANGED <<noticeRow, mark, pushed, event, memory, memRead, memGone, now>>

DismissAnnouncements(r) ==
    /\ dismissal[r] # {}
    /\ mark' = [a \in Announcement |-> IF a \in dismissal[r] /\ noticeRow[a].status # "absent"
                                       THEN [mark[a] EXCEPT ![r] = "dismissed"] ELSE mark[a]]
    /\ dismissal' = [dismissal EXCEPT ![r] = {}]
    /\ UNCHANGED <<noticeRow, pushed, event, memory, memRead, memGone, now>>

-----------------------------------------------------------------------------
\* The memory of the process, every operation under the mutex.

MemoryDue == {a \in Announcement : memory[a].status = "scheduled" /\ memory[a].due <= now}
Promoted == [a \in Announcement |-> IF a \in MemoryDue THEN [memory[a] EXCEPT !.status = "published"] ELSE memory[a]]
Applies(a, r) == Promoted[a].status = "published" /\ r \in memory[a].to

\* Announcements and the scheduler publish what is due.
MemoryPromotes == MemoryDue # {} /\ memory' = Promoted /\ UNCHANGED <<memRead, memGone, now>> /\ UNCHANGED storeVars

MemoryCreate(a, to, due, push) ==
    /\ memory[a] = Nothing /\ validateAnnouncementInput(due)
    /\ memory' = [memory EXCEPT ![a] = Input(to, due, push)]
    /\ UNCHANGED <<memRead, memGone, now>> /\ UNCHANGED storeVars

MemoryUpdate(a, to, due, push) ==
    /\ memory[a].status \in Editable /\ validateAnnouncementInput(due)
    /\ memory' = [memory EXCEPT ![a] = Input(to, due, push)]
    /\ UNCHANGED <<memRead, memGone, now>> /\ UNCHANGED storeVars

MemoryPublish(a, push) ==
    /\ memory[a].status \in Editable
    /\ memory' = [memory EXCEPT ![a].status = "published", ![a].due = 0, ![a].push = push]
    /\ UNCHANGED <<memRead, memGone, now>> /\ UNCHANGED storeVars

Withdrawable(a) == memory[a].status \in {"published", "scheduled"}

MemoryWithdraw(a) ==
    /\ Withdrawable(a) /\ memory' = [memory EXCEPT ![a].status = "withdrawn"]
    /\ UNCHANGED <<memRead, memGone, now>> /\ UNCHANGED storeVars

MemoryDelete(a) ==
    /\ memory[a].status \in {"draft", "withdrawn"} /\ memory' = [memory EXCEPT ![a] = Nothing]
    /\ memRead' = {p \in memRead : p[1] # a} /\ memGone' = {p \in memGone : p[1] # a}
    /\ UNCHANGED now /\ UNCHANGED storeVars

\* MarkAnnouncementRead lists the reader's announcements, which publishes what is
\* due and leaves out what was dismissed.
MemoryRead(a, r) ==
    /\ memory' = Promoted
    /\ memRead' = IF Applies(a, r) /\ <<a, r>> \notin memGone THEN memRead \union {<<a, r>>} ELSE memRead
    /\ UNCHANGED <<memGone, now>> /\ UNCHANGED storeVars

MemoryDismiss(A, r) ==
    /\ A # {} /\ \A a \in A : memory[a].status = "published" /\ r \in memory[a].to
    /\ memGone' = memGone \union {<<a, r>> : a \in A} /\ memRead' = memRead \union {<<a, r>> : a \in A}
    /\ UNCHANGED <<memory, now>> /\ UNCHANGED storeVars

-----------------------------------------------------------------------------
BoardTime == now < MaxNow /\ now' = now + 1 /\ UNCHANGED storeVars /\ UNCHANGED memoryVars

StoreNext ==
    \/ promoteScheduledAnnouncements
    \/ \E a \in Announcement :
          \/ \E to \in Audience, due \in 0..MaxNow, push \in BOOLEAN :
                CreateAnnouncement(a, to, due, push) \/ UpdateAnnouncement(a, to, due, push)
          \/ \E push \in BOOLEAN : PublishAnnouncement(a, push)
          \/ WithdrawAnnouncement(a) \/ DeleteAnnouncement(a)
          \/ \E r \in Reader : MarkAnnouncementRead(a, r)
    \/ \E r \in Reader : DismissAnnouncements(r) \/ \E A \in SUBSET Announcement : CountEligible(r, A)
    \/ BoardTime

MemoryNext ==
    \/ MemoryPromotes
    \/ \E a \in Announcement :
          \/ \E to \in Audience, due \in 0..MaxNow, push \in BOOLEAN :
                MemoryCreate(a, to, due, push) \/ MemoryUpdate(a, to, due, push)
          \/ \E push \in BOOLEAN : MemoryPublish(a, push)
          \/ MemoryWithdraw(a) \/ MemoryDelete(a)
          \/ \E r \in Reader : MemoryRead(a, r)
    \/ \E r \in Reader, A \in SUBSET Announcement : MemoryDismiss(A, r)
    \/ BoardTime

\* RunAnnouncementScheduler, every fifteen seconds in every process.
SchedulerFairness == WF_announcementVars(promoteScheduledAnnouncements)

AnnouncementsSpec ==
    AnnouncementsInit /\ [][StoreNext \/ MemoryNext]_announcementVars /\ SchedulerFairness

-----------------------------------------------------------------------------
PairsOf(S) == {p \in Announcement \X Reader : mark[p[1]][p[2]] \in S}
Shape(f) == [a \in Announcement |-> [status |-> f[a].status, to |-> f[a].to, due |-> f[a].due]]

Stored == INSTANCE AnnouncementBoard
    WITH Schedule <- 0 .. MaxNow, item <- Shape(noticeRow), seen <- PairsOf({"read", "dismissed"}), gone <- PairsOf({"dismissed"})
Remembered == INSTANCE AnnouncementBoard
    WITH Schedule <- 0 .. MaxNow, item <- Shape(memory), seen <- memRead, gone <- memGone

\* The database keeps what the board promises, though readers' dismissals are two
\* statements and several servers promote what is due.
StoreKeepsPromise == Stored!Spec

\* The implementation in memory, which most tests run against, promises the same.
MemoryKeepsPromise == Remembered!Spec

\* A reader gets at most one push for an announcement and none without its being
\* published, however the schedule, a publication by hand and an edit meet
\* (app.go:5024-5025 "without creating duplicate push outbox rows").
PushedOnce == \A a \in Announcement, r \in Reader : pushed[a][r] <= 1

\* The last event the audience heard of an announcement says whether it is shown.
AudienceKnows ==
    \A a \in Announcement : noticeRow[a].status # "absent" =>
       /\ noticeRow[a].status = "published" <=> event[a] = "published"
       /\ noticeRow[a].status = "withdrawn" <=> event[a] = "withdrawn"

\* What is due is published, or somebody took it off the schedule.
EventuallyPublished == \A a \in Announcement : a \in DueRows ~> a \notin DueRows

\* Both stores implement the board, and readers and the audience hear of each
\* publication once.
BoardKept ==
    /\ StoreKeepsPromise /\ MemoryKeepsPromise
    /\ [](PushedOnce /\ AudienceKnows)
=============================================================================
