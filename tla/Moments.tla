-------------------------------- MODULE Moments --------------------------------
(***************************************************************************)
(* One moment of one author: it is published for an audience, liked and    *)
(* commented by those who may see it, hidden or deleted.  Likes, comments  *)
(* and the moderator lock the moment's row first; a deletion takes the     *)
(* lock with its update and reads the participants under it.  A statement  *)
(* that waited for the row looks at the row's new version, but the         *)
(* visibility function it calls still reads with the statement's snapshot. *)
(* A comment's deletion takes no lock of the moment.                       *)
(***************************************************************************)
EXTENDS Naturals, FiniteSets

CONSTANTS
    Author, Viewer,     \* the author and the other users
    CommentId,          \* comment ids, Nat
    Post,               \* concurrent requests about the moment
    NoPost,             \* the row is not locked
    Audience,           \* the kinds of visibility that are tried
    MaxUnfriend         \* bound on changes of friendships

ASSUME MomentAssumption == Author \notin Viewer /\ NoPost \notin Post /\ CommentId \subseteq Nat \ {0} /\ MaxUnfriend \in Nat

VARIABLES
    moment,     \* im_moments: status, visibility, visible_user_ids
    friend,     \* viewers with a friendship row to the author
    likes,      \* im_moment_likes
    comments,   \* im_moment_comments
    reminders,  \* im_moment_reminders
    rowLock,    \* the request that holds the moment's row
    post,       \* requests under way
    told,       \* users sent moment.deleted
    ended,      \* ghost: the author has deleted it
    unfriended

momentVars == <<moment, friend, likes, comments, reminders, rowLock, post, told, ended, unfriended>>

MomentUser == Viewer \union {Author}
NoComment == [status |-> "none", by |-> Author, parent |-> 0]
NoRequest == [kind |-> "none"]

MomentsInit ==
    /\ moment = [status |-> "none", visibility |-> "private", ids |-> {}]
    /\ friend \in SUBSET Viewer
    /\ likes = {} /\ comments = [c \in CommentId |-> NoComment] /\ reminders = {}
    /\ rowLock = NoPost /\ post = [p \in Post |-> NoRequest] /\ told = {} /\ ended = FALSE /\ unfriended = 0

\* im_can_access_moment
im_can_access_moment(u) ==
    /\ moment.status \in {"published", "hidden"}
    /\ \/ u = Author
       \/ /\ moment.status = "published" /\ u \in friend
          /\ \/ moment.visibility \in {"public", "friends"}
             \/ moment.visibility = "excluded" /\ u \notin moment.ids
             \/ moment.visibility = "selected" /\ u \in moment.ids

CreateMoment(visibility, ids) ==
    /\ moment.status = "none"
    /\ (visibility \in {"selected", "excluded"}) <=> ids # {}
    /\ ids \subseteq friend
    /\ moment' = [status |-> "published", visibility |-> visibility, ids |-> ids]
    /\ UNCHANGED <<friend, likes, comments, reminders, rowLock, post, told, ended, unfriended>>

SetFriendship(u) ==
    /\ unfriended < MaxUnfriend /\ unfriended' = unfriended + 1
    /\ friend' = IF u \in friend THEN friend \ {u} ELSE friend \union {u}
    /\ UNCHANGED <<moment, likes, comments, reminders, rowLock, post, told, ended>>

\* A plausible slip: the row is read without FOR UPDATE.
NotWaited(p) == TRUE
RowFree(p) == rowLock = NoPost

Submit(p, r) == post[p] = NoRequest /\ moment.status # "none" /\ post' = [post EXCEPT ![p] = r]
Respond(p) == post' = [post EXCEPT ![p] = NoRequest] /\ rowLock' = NoPost

\* The statement's snapshot: SELECT ... FOR UPDATE of a like or a comment.
AskLike(p, u, active) ==
    /\ im_can_access_moment(u)
    /\ Submit(p, [kind |-> "like", step |-> "asked", by |-> u, active |-> active])
    /\ UNCHANGED <<moment, friend, likes, comments, reminders, rowLock, told, ended, unfriended>>
AskComment(p, u, c, parent) ==
    /\ im_can_access_moment(u) /\ comments[c].status = "none" /\ \A q \in Post : post[q].kind = "comment" => post[q].id # c
    /\ Submit(p, [kind |-> "comment", step |-> "asked", by |-> u, id |-> c, parent |-> parent])
    /\ UNCHANGED <<moment, friend, likes, comments, reminders, rowLock, told, ended, unfriended>>

StillThere(p) == moment.status # "deleted"

\* The row is locked and its new version checked: ErrNotFound ends the request.
LockMoment(p) ==
    /\ post[p].kind \in {"like", "comment"} /\ post[p].step = "asked" /\ RowFree(p)
    /\ IF StillThere(p)
       THEN rowLock' = p /\ post' = [post EXCEPT ![p].step = "locked"]
       ELSE Respond(p)
    /\ UNCHANGED <<moment, friend, likes, comments, reminders, told, ended, unfriended>>

Reminder(to, by, type, c) == [user |-> to, actor |-> by, type |-> type, comment |-> c]
Reminded(to, by, type, c) == reminders' = IF to = by THEN reminders ELSE reminders \union {Reminder(to, by, type, c)}

SetMomentLike(p) ==
    /\ post[p].kind = "like" /\ post[p].step = "locked"
    /\ IF post[p].active
       THEN /\ likes' = likes \union {post[p].by}
            /\ IF post[p].by \in likes THEN UNCHANGED reminders ELSE Reminded(Author, post[p].by, "like", 0)
       ELSE likes' = likes \ {post[p].by} /\ UNCHANGED reminders
    /\ Respond(p) /\ UNCHANGED <<moment, friend, comments, told, ended, unfriended>>

\* The parent is read without a lock, then the comment and its reminder are written.
ReadParent(p) ==
    /\ post[p].kind = "comment" /\ post[p].step = "locked"
    /\ IF post[p].parent = 0 \/ comments[post[p].parent].status = "active"
       THEN post' = [post EXCEPT ![p].step = "parent"] /\ UNCHANGED rowLock
       ELSE Respond(p)
    /\ UNCHANGED <<moment, friend, likes, comments, reminders, told, ended, unfriended>>

Recipient(p) == IF post[p].parent = 0 THEN Author ELSE comments[post[p].parent].by
CreateMomentComment(p) ==
    /\ post[p].kind = "comment" /\ post[p].step = "parent"
    /\ comments' = [comments EXCEPT ![post[p].id] = [status |-> "active", by |-> post[p].by, parent |-> post[p].parent]]
    /\ Reminded(Recipient(p), post[p].by, IF post[p].parent = 0 THEN "comment" ELSE "reply", post[p].id)
    /\ Respond(p) /\ UNCHANGED <<moment, friend, likes, told, ended, unfriended>>

DeleteMomentComment(u, c) ==
    /\ comments[c].status = "active" /\ u \in {comments[c].by, Author}
    /\ comments' = [comments EXCEPT ![c].status = "deleted"]
    /\ UNCHANGED <<moment, friend, likes, reminders, rowLock, post, told, ended, unfriended>>

\* The author's deletion: the update, then the participants, then the commit.
UpdateDeleted(p) ==
    /\ moment.status \in {"published", "hidden"} /\ RowFree(p)
    /\ Submit(p, [kind |-> "delete"]) /\ rowLock' = p
    /\ UNCHANGED <<moment, friend, likes, comments, reminders, told, ended, unfriended>>
DeleteMoment(p) ==
    /\ post[p].kind = "delete"
    /\ moment' = [moment EXCEPT !.status = "deleted"]
    /\ told' = told \union ((likes \union {comments[c].by : c \in {d \in CommentId : comments[d].status # "none"}}) \ {Author})
    /\ ended' = TRUE /\ Respond(p) /\ UNCHANGED <<friend, likes, comments, reminders, unfriended>>

\* The moderator: a deleted moment and an unchanged status are conflicts.
LockForModeration(p, status) ==
    /\ moment.status \notin {"deleted", status} /\ RowFree(p)
    /\ Submit(p, [kind |-> "moderate", status |-> status]) /\ rowLock' = p
    /\ UNCHANGED <<moment, friend, likes, comments, reminders, told, ended, unfriended>>
ModerateMoment(p) ==
    /\ post[p].kind = "moderate"
    /\ moment' = [moment EXCEPT !.status = post[p].status]
    /\ Respond(p) /\ UNCHANGED <<friend, likes, comments, reminders, told, ended, unfriended>>

MomentsNext ==
    \/ \E v \in Audience, ids \in SUBSET Viewer : CreateMoment(v, ids)
    \/ \E u \in Viewer : SetFriendship(u)
    \/ \E p \in Post, u \in MomentUser, b \in BOOLEAN : AskLike(p, u, b)
    \/ \E p \in Post, u \in MomentUser, c \in CommentId, parent \in CommentId \union {0} : AskComment(p, u, c, parent)
    \/ \E p \in Post : LockMoment(p) \/ SetMomentLike(p) \/ ReadParent(p) \/ CreateMomentComment(p)
    \/ \E u \in MomentUser, c \in CommentId : DeleteMomentComment(u, c)
    \/ \E p \in Post : UpdateDeleted(p) \/ DeleteMoment(p) \/ ModerateMoment(p)
    \/ \E p \in Post, s \in {"published", "hidden", "deleted"} : LockForModeration(p, s)

MomentsSpec == MomentsInit /\ [][MomentsNext]_momentVars

--------------------------------------------------------------------------------
\* Once the author has deleted the moment, everybody who
\* had liked it or commented on it, whatever became of the comment, was told:
\* no like and no comment slips in between the reading of the participants and
\* the end of the moment (postgres_moments.go DeleteMoment).
NobodyMissesTheEnd ==
    ended => (likes \union {comments[c].by : c \in {d \in CommentId : comments[d].status # "none"}}) \ {Author} \subseteq told

\* Nothing is added to a deleted moment, although a like or a comment that
\* waited for the row was allowed by a snapshot from before the deletion.
QuietOnceDeleted ==
    [][moment.status = "deleted" =>
        /\ likes' \subseteq likes /\ reminders' = reminders
        /\ \A c \in CommentId : comments[c].status = "none" => comments'[c].status = "none"]_<<moment, likes, reminders, comments>>

\* A moderator who read the status before the author's deletion does not bring
\* the moment back.
DeletedForGood == [][moment.status = "deleted" => moment'.status = "deleted"]_moment

\* The end of a moment is one for everybody: nobody is left out, nothing is
\* added afterwards, and nothing brings it back.
EndIsTheEnd == []NobodyMissesTheEnd /\ QuietOnceDeleted /\ DeletedForGood
================================================================================
