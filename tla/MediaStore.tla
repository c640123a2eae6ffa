------------------------------ MODULE MediaStore ------------------------------
(***************************************************************************)
(* Uploaded media: the row of an upload and its object in the storage,     *)
(* the video cover a completion names, the binding that lets a channel     *)
(* read a medium, the messages and avatars that refer to it, and the       *)
(* cleanup that leases abandoned media, removes the object and then the    *)
(* row.                                                                    *)
(***************************************************************************)
EXTENDS FiniteSets, Naturals

CONSTANTS
    Video, Image,   \* the media of one user, images serve as covers and avatars
    Mail,           \* messages of one channel
    Cleaner,        \* servers that clean up
    NoMedia,
    MaxMediaFault   \* bound on the failures of storage and servers

ASSUME MediaAssumption ==
    Video \cap Image = {} /\ NoMedia \notin Video \cup Image /\ MaxMediaFault \in Nat

Media == Video \cup Image

VARIABLES
    row,         \* im_media
    objects,     \* objects in the storage
    completing,  \* completions that have read and verified the object
    bound,       \* im_wukong_media_channels of the channel
    avatar,      \* avatar_media_id of the user
    mail,        \* messages on their way and in im_wukong_message_index
    cleaner,     \* each server's leased items and the one it removed from storage
    faults

mediaVars == <<row, objects, completing, bound, avatar, mail, cleaner, faults>>

NoCleaning == [todo |-> {}, removed |-> NoMedia, ok |-> TRUE]

MediaInit ==
    /\ row = [x \in Media |-> [status |-> "absent", cover |-> NoMedia, aged |-> FALSE, clean |-> "no"]]
    /\ objects = {} /\ completing = {} /\ bound = {} /\ avatar = NoMedia
    /\ mail = [e \in Mail |-> [step |-> "none", media |-> NoMedia]]
    /\ cleaner = [w \in Cleaner |-> NoCleaning] /\ faults = 0

MediaStatus(x) == row[x].status
MediaFault == faults < MaxMediaFault /\ faults' = faults + 1

(***************************************************************************)
(* Uploads.                                                                *)
(***************************************************************************)
PrepareMedia(x) ==
    /\ MediaStatus(x) = "absent"
    /\ row' = [row EXCEPT ![x].status = "pending"]
    /\ UNCHANGED <<objects, completing, bound, avatar, mail, cleaner, faults>>

\* The signed address of an upload is good for fifteen minutes.
PutObject(x) ==
    /\ MediaStatus(x) = "pending" /\ ~row[x].aged
    /\ objects' = objects \cup {x}
    /\ UNCHANGED <<row, completing, bound, avatar, mail, cleaner, faults>>

CoverReady(x, c) == c = NoMedia \/ (x \in Video /\ c \in Image /\ MediaStatus(c) = "ready")

CompleteWithCover(x, c) ==
    /\ MediaStatus(x) = "pending" /\ CoverReady(x, c) /\ x \in objects
    /\ completing' = completing \cup {<<x, c>>}
    /\ UNCHANGED <<row, objects, bound, avatar, mail, cleaner, faults>>

StillPending(x) == MediaStatus(x) = "pending"

\* The medium's own cleanup is not looked at, that of its cover is.
CompleteMediaWithCover(x, c) ==
    /\ <<x, c>> \in completing
    /\ completing' = completing \ {<<x, c>>}
    /\ row' = IF StillPending(x) /\ CoverReady(x, c) /\ (c # NoMedia => row[c].clean = "no")
              THEN [row EXCEPT ![x].status = "ready", ![x].cover = c, ![x].aged = FALSE]
              ELSE row
    /\ UNCHANGED <<objects, bound, avatar, mail, cleaner, faults>>

\* An hour passes over an upload, or a day over a completed medium.
MediaAges(x) ==
    /\ MediaStatus(x) \in {"pending", "ready"} /\ ~row[x].aged
    /\ row' = [row EXCEPT ![x].aged = TRUE]
    /\ UNCHANGED <<objects, completing, bound, avatar, mail, cleaner, faults>>

(***************************************************************************)
(* References: messages and the avatar.                                    *)
(***************************************************************************)
MailTo(e, step) == mail' = [mail EXCEPT ![e].step = step]

\* The transport validates before it consumes the send rate.
ValidateMediaChannelBinding(e, x) ==
    /\ mail[e].step = "none" /\ MediaStatus(x) = "ready"
    /\ mail' = [mail EXCEPT ![e] = [step |-> "valid", media |-> x]]
    /\ UNCHANGED <<row, objects, completing, bound, avatar, cleaner, faults>>

\* The insertion asks for a ready row and not for its cleanup.
BindMediaChannel(e) ==
    /\ mail[e].step = "valid"
    /\ IF MediaStatus(mail[e].media) = "ready"
       THEN bound' = bound \cup {mail[e].media} /\ MailTo(e, "bound")
       ELSE MailTo(e, "refused") /\ UNCHANGED bound
    /\ UNCHANGED <<row, objects, completing, avatar, cleaner, faults>>

SendMedia(e) ==
    /\ mail[e].step = "bound"
    /\ MailTo(e, "sent")
    /\ UNCHANGED <<row, objects, completing, bound, avatar, cleaner, faults>>

\* msg.notify of the sent message.
IndexMail(e) ==
    /\ mail[e].step = "sent"
    /\ MailTo(e, "indexed")
    /\ UNCHANGED <<row, objects, completing, bound, avatar, cleaner, faults>>

Visible(e) == mail[e].step \in {"sent", "indexed"}

\* The binding goes with the last indexed message that is not expired.
ExpireMessages(e) ==
    /\ mail[e].step = "indexed"
    /\ MailTo(e, "expired")
    /\ bound' = IF \E f \in Mail \ {e} : mail[f].step = "indexed" /\ mail[f].media = mail[e].media
                THEN bound ELSE bound \ {mail[e].media}
    /\ UNCHANGED <<row, objects, completing, avatar, cleaner, faults>>

SetAvatar(x) ==
    /\ x \in Image /\ MediaStatus(x) = "ready" /\ avatar # x
    /\ avatar' = x
    /\ UNCHANGED <<row, objects, completing, bound, mail, cleaner, faults>>

(***************************************************************************)
(* The cleanup.                                                            *)
(***************************************************************************)
Referenced(x) == x \in bound \/ avatar = x \/ \E v \in Media : row[v].cover = x
Abandoned(x) == row[x].aged /\ (MediaStatus(x) = "pending" \/ (MediaStatus(x) = "ready" /\ ~Referenced(x)))

MayLease(x) == row[x].clean \in {"no", "lapsed"}

LeaseMediaCleanup(w) ==
    /\ cleaner[w] = NoCleaning
    /\ LET items == {x \in Media : Abandoned(x) /\ MayLease(x)} IN
       /\ items # {}
       /\ row' = [x \in Media |-> IF x \in items THEN [row[x] EXCEPT !.clean = "processing"] ELSE row[x]]
       /\ cleaner' = [cleaner EXCEPT ![w].todo = items]
    /\ UNCHANGED <<objects, completing, bound, avatar, mail, faults>>

RemoveObject(w, x) ==
    /\ x \in cleaner[w].todo /\ cleaner[w].removed = NoMedia
    /\ \/ /\ objects' = objects \ {x} /\ UNCHANGED faults
          /\ cleaner' = [cleaner EXCEPT ![w].removed = x, ![w].ok = TRUE]
       \/ /\ MediaFault /\ UNCHANGED objects
          /\ cleaner' = [cleaner EXCEPT ![w].removed = x, ![w].ok = FALSE]
    /\ UNCHANGED <<row, completing, bound, avatar, mail>>

\* A plausible slip: the row goes whether or not the object was removed.
RowGoes(w) == TRUE
ObjectGone(w) == cleaner[w].ok

\* The row takes its bindings with it, and is no longer anybody's cover.
RowWithout(x) ==
    [v \in Media |-> IF v = x THEN [row[x] EXCEPT !.status = "gone", !.clean = "no", !.cover = NoMedia]
                     ELSE [row[v] EXCEPT !.cover = IF @ = x THEN NoMedia ELSE @]]

\* When the row is no longer being processed the rest of the batch is dropped.
CompleteMediaCleanup(w) ==
    LET x == cleaner[w].removed
        processing == row[x].clean \in {"processing", "lapsed"}
    IN /\ x # NoMedia
       /\ IF ~processing THEN UNCHANGED <<row, bound>>
          ELSE IF ObjectGone(w)
          THEN row' = RowWithout(x) /\ bound' = bound \ {x}
          ELSE row' = [row EXCEPT ![x].clean = "no"] /\ UNCHANGED bound
       /\ cleaner' = [cleaner EXCEPT ![w] =
                          [NoCleaning EXCEPT !.todo = IF processing THEN cleaner[w].todo \ {x} ELSE {}]]
       /\ UNCHANGED <<objects, completing, avatar, mail, faults>>

CleanupLapses(x) ==
    /\ row[x].clean = "processing"
    /\ row' = [row EXCEPT ![x].clean = "lapsed"]
    /\ UNCHANGED <<objects, completing, bound, avatar, mail, cleaner, faults>>

\* A server stops between two calls.
CleanerStops(w) ==
    /\ cleaner[w] # NoCleaning /\ MediaFault
    /\ cleaner' = [cleaner EXCEPT ![w] = NoCleaning]
    /\ UNCHANGED <<row, objects, completing, bound, avatar, mail>>

CleanerStep(w) == CompleteMediaCleanup(w) \/ \E x \in Media : RemoveObject(w, x)

MediaNext ==
    \/ \E x \in Media :
         \/ PrepareMedia(x) \/ PutObject(x) \/ MediaAges(x) \/ CleanupLapses(x) \/ SetAvatar(x)
         \/ \E c \in Media \cup {NoMedia} : CompleteWithCover(x, c) \/ CompleteMediaWithCover(x, c)
         \/ \E e \in Mail : ValidateMediaChannelBinding(e, x)
    \/ \E e \in Mail : BindMediaChannel(e) \/ SendMedia(e) \/ IndexMail(e) \/ ExpireMessages(e)
    \/ \E w \in Cleaner : LeaseMediaCleanup(w) \/ CleanerStep(w) \/ CleanerStops(w)

\* The ticker of RunMediaCleanup fires every ten minutes on every server, each
\* call returns, and leases lapse.
MediaFairness ==
    /\ \A w \in Cleaner : WF_mediaVars(LeaseMediaCleanup(w)) /\ WF_mediaVars(CleanerStep(w))
    /\ \A x \in Media : WF_mediaVars(CleanupLapses(x))

MediaSpec == MediaInit /\ [][MediaNext]_mediaVars /\ MediaFairness

(***************************************************************************)
(* Properties.                                                             *)
(***************************************************************************)
\* Rows, objects and bindings have their types.
MediaTypeOK ==
    /\ row \in [Media -> [status : {"absent", "pending", "ready", "gone"}, cover : Image \cup {NoMedia},
                          aged : BOOLEAN, clean : {"no", "processing", "lapsed"}]]
    /\ objects \subseteq Media /\ bound \subseteq Media /\ avatar \in Image \cup {NoMedia}
    /\ completing \subseteq Video \X (Image \cup {NoMedia}) \cup Image \X {NoMedia}

\* The cover of a ready video never changes, whichever of two completions comes
\* second; it only disappears with the cover's own row.
CoverImmutable ==
    [][\A x \in Media : MediaStatus(x) = "ready" /\ row[x].cover # row'[x].cover
                        => row'[x].cover = NoMedia
                           /\ "gone" \in {row'[x].status, row'[row[x].cover].status}]_mediaVars

\* An upload nobody completes and a medium nobody refers to do not stay.
AbandonedIsRemoved == []<>(\A x \in Media : ~Abandoned(x))

\* docs/MESSAGE_LIFECYCLE_API_ZH.md:33 promises that only media no valid message
\* refers to are removed.  The binding of a send that comes between the lease
\* and the removal does not stop the removal: it does not hold.
VisibleKeepsObject == \A e \in Mail : Visible(e) => mail[e].media \in objects

\* The storage holds no object whose row is gone: the row follows its object,
\* whatever fails or stops in between and however often an item is leased.
\* A cover stays with its video while both are there.
MediaKept ==
    /\ [](\A x \in objects : MediaStatus(x) \in {"pending", "ready"})
    /\ CoverImmutable
=============================================================================
