--------------------------- MODULE AnnouncementBoard ---------------------------
(***************************************************************************)
(* What the announcements of the operator promise, however they are kept:  *)
(* an announcement is written, scheduled, published, withdrawn and removed *)
(* in that order, each operation takes effect at once, and what has fallen *)
(* due may be published on the way of any of them.                         *)
(***************************************************************************)
EXTENDS Naturals

CONSTANTS
    Announcement, Reader,
    Audience,   \* the sets of readers one can be addressed to
    Schedule    \* the times one can be due, 0 for none

VARIABLES
    item,       \* status, audience and due time of each announcement
    seen,       \* pairs of announcement and reader marked read
    gone,       \* those dismissed as well
    now

Absent == [status |-> "absent", to |-> {}, due |-> 0]
Open == {"draft", "scheduled"}

Init == item = [a \in Announcement |-> Absent] /\ seen = {} /\ gone = {} /\ now = 0

Due == {a \in Announcement : item[a].status = "scheduled" /\ item[a].due <= now}
Published(D) == [a \in Announcement |-> IF a \in D THEN [item[a] EXCEPT !.status = "published"] ELSE item[a]]

Promote == \E D \in SUBSET Due : item' = Published(D) /\ UNCHANGED <<seen, gone, now>>

Write(a, to, due) ==
    /\ item[a].status \in Open \union {"absent"} /\ (due = 0 \/ due > now)
    /\ item' = [item EXCEPT ![a] = [status |-> IF due = 0 THEN "draft" ELSE "scheduled", to |-> to, due |-> due]]
    /\ UNCHANGED <<seen, gone, now>>

Publish(a) == item[a].status \in Open /\ item' = [item EXCEPT ![a].status = "published", ![a].due = 0]
              /\ UNCHANGED <<seen, gone, now>>
Withdraw(a) == item[a].status \in {"published", "scheduled"} /\ item' = [item EXCEPT ![a].status = "withdrawn"]
               /\ UNCHANGED <<seen, gone, now>>

Remove(a) ==
    /\ item[a].status \in {"draft", "withdrawn"} /\ item' = [item EXCEPT ![a] = Absent]
    /\ seen' = {p \in seen : p[1] # a} /\ gone' = {p \in gone : p[1] # a} /\ UNCHANGED now

\* Only what is addressed to the reader and has been published is marked; who was
\* shown it may mark it although it is withdrawn meanwhile.
Marks(r, A) ==
    \E D \in SUBSET Due :
       /\ item' = Published(D)
       /\ A # {} /\ \A a \in A : item'[a].status \in {"published", "withdrawn"} /\ r \in item[a].to
       /\ seen' = seen \union {<<a, r>> : a \in A}
       /\ gone' \in {gone, gone \union {<<a, r>> : a \in A}}
       /\ UNCHANGED now

Time == now' = now + 1 /\ UNCHANGED <<item, seen, gone>>

Next ==
    \/ Promote \/ Time
    \/ \E a \in Announcement : Publish(a) \/ Withdraw(a) \/ Remove(a)
    \/ \E a \in Announcement, to \in Audience, due \in Schedule : Write(a, to, due)
    \/ \E r \in Reader, A \in SUBSET Announcement : Marks(r, A)

Spec == Init /\ [][Next]_<<item, seen, gone, now>>
=============================================================================
