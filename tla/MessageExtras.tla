--------------------------- MODULE MessageExtras ---------------------------
(***************************************************************************)
(* What PostgreSQL keeps about the messages of one conversation while the  *)
(* messages themselves live in WuKongIM: the index written by the webhook, *)
(* the versioned extension of a message (edit, recall, deletion, pin,      *)
(* reactions), mention reminders, read and delivered positions, and the    *)
(* cursor with which a client follows the extensions.                      *)
(*                                                                         *)
(* A mutation is a transaction in steps: it begins, locks the index rows   *)
(* of its messages one after the other, reads each extension under its     *)
(* lock, draws a synchronisation number for the new one, and commits or    *)
(* rolls back.  Message m has sequence number m.                           *)
(***************************************************************************)
EXTENDS Naturals, FiniteSets, Sequences, FiniteSetsExt

CONSTANTS
    Person,     \* users that may belong to the conversation
    Owner,      \* the one that owns it when it is a group
    Late,       \* those that are not members at first
    Msg,        \* messages: their sequence numbers, 1..n
    Author,     \* Author[m], the sender of m
    EditId,     \* edit request identifiers
    Text,       \* bodies an edit may give a message
    Deleters,   \* users that may be given the deletion permission
    Reader,     \* the user whose client follows the extensions
    Client,     \* clients that ask for operations
    UserOf,         \* Of[c], the user of client c
    Scenario,   \* what a behaviour exercises: see ExtrasAssumption
    MaxSync     \* bound on the synchronisation numbers drawn

Roles == {"none", "member", "admin", "owner"}
Ops == {"edit", "recall", "adminRecall", "react", "unreact", "pin", "unpin", "delete"}
Others == {"store", "resend", "roles", "joins", "history", "expiry", "favorites",
           "reminders", "marks", "sync"}

ASSUME ExtrasAssumption ==
    /\ Owner \in Person /\ Reader \in Person /\ Late \subseteq Person \ {Owner}
    /\ Deleters \subseteq Person
    /\ IsFiniteSet(Msg) /\ Msg = 1 .. Cardinality(Msg)
    /\ UserOf \in [Client -> Person]
    /\ Scenario \subseteq [ops : SUBSET (Ops \cup Others), clients : SUBSET Client,
                           size : Msg]
    /\ Author \in [Msg -> Person \ Late]
    /\ MaxSync \in Nat

VARIABLES
    scenario,   \* operations asked for, by which clients, on how many messages
    kind,       \* "group" or "direct"
    role,       \* im_members.role, "none" outside the conversation
    boundary,   \* im_members.history_after_seq
    open,       \* im_groups.history_visible_to_new_members
    allowed,    \* im_users.is_internal_user: may delete for everyone
    last,       \* messages WuKongIM has stored: 1 .. last
    due,        \* messages whose msg.notify WuKongIM still has to deliver
    index,      \* im_wukong_message_index
    expired,    \* indexed messages with expired_at set
    ext,        \* im_wukong_message_extensions.payload
    number,     \* im_wukong_message_extensions.sync_version, 0 without a row
    edits,      \* im_message_edits: the bodies of versions 1, 2, ...
    asked,      \* im_message_edit_requests: version, text of each edit id
    pins,       \* im_group_message_pins
    reacted,    \* im_message_reactions of one emoji
    favorite,   \* im_favorites
    reminder,   \* im_wukong_reminders of type 1
    read, delivered,  \* last_read_seq, last_delivered_seq
    drawn,      \* the sequence behind sync_version
    job,        \* the transaction each client has under way
    cursor, copy      \* what Reader's client has of the extensions

base == <<scenario, kind, role, boundary, open, allowed, last, due, index, expired>>
data == <<ext, number, edits, asked, pins, reacted, favorite, reminder>>
marks == <<read, delivered>>
client == <<cursor, copy>>
extrasVars == <<base, data, marks, drawn, job, client>>

Blank == [recalled |-> FALSE, deleted |-> FALSE, version |-> 0, pinned |-> FALSE]
Idle == [op |-> "idle"]
None == [version |-> 0, text |-> CHOOSE t \in Text : TRUE]
In(p) == role[p] # "none"
Manages(p) == role[p] \in {"owner", "admin"}

ExtrasInit ==
    /\ scenario \in Scenario
    /\ kind \in {"group", "direct"}
    /\ role = [p \in Person |->
                 CASE p \in Late -> "none"
                   [] p = Owner /\ kind = "group" -> "owner"
                   [] OTHER -> "member"]
    /\ boundary = [p \in Person |-> 0] /\ open = FALSE
    /\ allowed = Deleters
    /\ last = IF "store" \in scenario.ops THEN 0 ELSE scenario.size
    /\ due = {} /\ index = 1 .. last /\ expired = {}
    /\ ext = [m \in Msg |-> Blank] /\ number = [m \in Msg |-> 0]
    /\ edits = [m \in Msg |-> <<>>]
    /\ asked = [m \in Msg |-> [e \in EditId |-> None]]
    /\ pins = {} /\ reacted = {} /\ favorite = {}
    /\ reminder = [p \in Person |-> [m \in Msg |-> "none"]]
    /\ read = [p \in Person |-> 0] /\ delivered = [p \in Person |-> 0]
    /\ drawn = 0
    /\ job = [c \in Client |-> Idle]
    /\ cursor = 0 /\ copy = [m \in Msg |-> Blank]

(***************************************************************************)
(* The conversation around the messages.  A transaction that checked its   *)
(* right FOR SHARE keeps the rows it read as they are until it ends.       *)
(***************************************************************************)
Has(c, op) == job[c].op = op
HoldsUser(p) == \E c \in Client : UserOf[c] = p /\ Has(c, "delete")

HoldsMember(p) == \E c \in Client : UserOf[c] = p /\
    (Has(c, "delete") \/ (Has(c, "recall") /\ job[c].new # <<>>))
HoldsGroup == \E c \in Client : Has(c, "delete")

SetRole(p, r) ==
    /\ "roles" \in scenario.ops
    /\ kind = "group" /\ p # Owner /\ In(p) /\ role[p] # r
    /\ r \in {"none", "member", "admin"}
    /\ ~HoldsMember(p)
    /\ role' = [role EXCEPT ![p] = r]
    /\ UNCHANGED <<scenario, kind, boundary, open, allowed, last, due, index, expired,
                   data, marks, drawn, job, client>>

AddGroupMembersWithHistory(p) ==
    /\ "joins" \in scenario.ops
    /\ kind = "group" /\ ~In(p) /\ ~HoldsGroup
    /\ role' = [role EXCEPT ![p] = "member"]
    /\ boundary' = [boundary EXCEPT ![p] = last]
    /\ read' = [read EXCEPT ![p] = last]
    /\ delivered' = [delivered EXCEPT ![p] = last]
    /\ UNCHANGED <<scenario, kind, open, allowed, last, due, index, expired, data, drawn,
                   job, client>>

SetGroupHistoryVisibility ==
    /\ "history" \in scenario.ops
    /\ kind = "group" /\ ~HoldsGroup
    /\ open' = ~open
    /\ read' = [p \in Person |->
                  IF In(p) THEN Max({read[p], boundary[p]}) ELSE read[p]]
    /\ UNCHANGED <<scenario, kind, role, boundary, allowed, last, due, index, expired,
                   data, delivered, drawn, job, client>>

SetUserInternal(p) ==
    /\ "roles" \in scenario.ops
    /\ p \in Deleters /\ ~HoldsUser(p)
    /\ allowed' = (allowed \ {p}) \cup ({p} \ allowed)
    /\ UNCHANGED <<scenario, kind, role, boundary, open, last, due, index, expired, data,
                   marks, drawn, job, client>>

CanRead(p, m) ==
    In(p) /\ (kind = "direct" \/ open \/ m > boundary[p])

(***************************************************************************)
(* WuKongIM stores a message and reports it until the report is accepted.  *)
(***************************************************************************)
Store ==
    /\ last < scenario.size /\ In(Author[last + 1])
    /\ last' = last + 1
    /\ due' = due \cup {last + 1}
    /\ UNCHANGED <<scenario, kind, role, boundary, open, allowed, index, expired, data,
                   marks, drawn, job, client>>

IndexWukongMentionReminders(m) ==
    reminder' = [p \in Person |->
        IF kind = "group" /\ In(p) /\ p # Author[m] /\ reminder[p][m] = "none"
        THEN [reminder[p] EXCEPT ![m] = "open"] ELSE reminder[p]]

IndexWukongMessage(m) ==
    /\ index' = index \cup {m}
    /\ IndexWukongMentionReminders(m)

\* A delivery whose answer is lost is repeated; its identifier is known then.
PutWukongWebhookEvent(m, answered) ==
    /\ m \in due /\ (answered \/ "resend" \in scenario.ops)
    /\ IF m \in index THEN UNCHANGED <<index, reminder>> ELSE IndexWukongMessage(m)
    /\ due' = IF answered THEN due \ {m} ELSE due
    /\ UNCHANGED <<scenario, kind, role, boundary, open, allowed, last, expired, ext,
                   number, edits, asked, pins, reacted, favorite, marks, drawn,
                   job, client>>

\* A plausible slip: the index row is read without FOR UPDATE.
LockedNever(m) == FALSE

Locked(m) == \E c \in Client : job[c] # Idle /\ m \in DOMAIN job[c].new

ExpireMessages(m) ==
    /\ "expiry" \in scenario.ops
    /\ m \in index \ expired /\ ~Locked(m)
    /\ expired' = expired \cup {m}
    /\ ext' = [ext EXCEPT ![m] = Blank]
    /\ number' = [number EXCEPT ![m] = 0]
    /\ pins' = pins \ {m}
    /\ reacted' = {r \in reacted : r[2] # m}
    /\ favorite' = {f \in favorite : f[2] # m}
    /\ reminder' = [p \in Person |-> [reminder[p] EXCEPT ![m] = "none"]]
    /\ UNCHANGED <<scenario, kind, role, boundary, open, allowed, last, due, index, edits,
                   asked, marks, drawn, job, client>>

(***************************************************************************)
(* Transactions that change extensions.                                    *)
(***************************************************************************)
LoadWukongMutationMeta(p, m) ==
    m \in index /\ In(p) /\ CanRead(p, m)

MayRecall(p, m) ==
    /\ LoadWukongMutationMeta(p, m) /\ ~ext[m].deleted
    /\ p = Author[m] \/ (kind = "group" /\ Manages(p))
    /\ ext[m].recalled \/ m \notin expired

MayAdminRecall(p, m) ==
    /\ LoadWukongMutationMeta(p, m) /\ ~ext[m].deleted /\ kind = "direct"
    /\ ext[m].recalled \/ m \notin expired

MayReact(p, m) ==
    LoadWukongMutationMeta(p, m) /\ ~ext[m].deleted /\ ~ext[m].recalled

\* A repeated edit id must carry its text again; version 1 of an expired
\* message that was edited before is refused by the key of im_message_edits.
MayEdit(p, m, e, t) ==
    /\ LoadWukongMutationMeta(p, m) /\ ~ext[m].deleted /\ ~ext[m].recalled
    /\ p = Author[m]
    /\ asked[m][e] \in {None, [asked[m][e] EXCEPT !.text = t]}
    /\ asked[m][e] = None => ext[m].version = Len(edits[m])

MayPin(p, m) ==
    LoadWukongMutationMeta(p, m) /\ ~ext[m].deleted /\ ~ext[m].recalled

MayDelete(p, m) ==
    /\ LoadWukongMutationMeta(p, m)
    /\ ext[m].deleted \/ m \notin expired

May(p, j, m) ==
    CASE j.op = "edit" -> MayEdit(p, m, j.edit, j.text)
      [] j.op = "recall" -> MayRecall(p, m)
      [] j.op = "adminRecall" -> MayAdminRecall(p, m)
      [] j.op \in {"react", "unreact"} -> MayReact(p, m)
      [] j.op \in {"pin", "unpin"} -> MayPin(p, m)
      [] j.op = "delete" -> MayDelete(p, m)

SameText(m, t) == ext[m].version > 0 /\ edits[m][ext[m].version] = t

\* The extension the transaction would write for m; ext[m] when nothing changes.
Mutated(p, j, m) ==
    CASE j.op = "edit" /\ asked[m][j.edit] = None /\ ~SameText(m, j.text) ->
            [ext[m] EXCEPT !.version = @ + 1]
      [] j.op \in {"recall", "adminRecall"} -> [ext[m] EXCEPT !.recalled = TRUE]
      [] j.op = "delete" -> [ext[m] EXCEPT !.deleted = TRUE]
      [] j.op = "pin" -> [ext[m] EXCEPT !.pinned = TRUE]
      [] j.op = "unpin" -> [ext[m] EXCEPT !.pinned = FALSE]
      [] OTHER -> ext[m]

Changes(p, j, m) ==
    CASE j.op = "react" -> <<p, m>> \notin reacted
      [] j.op = "unreact" -> <<p, m>> \in reacted
      [] j.op = "pin" -> m \notin pins
      [] j.op = "unpin" -> m \in pins
      [] OTHER -> Mutated(p, j, m) # ext[m]

Begin(c, j) ==
    /\ job[c] = Idle /\ c \in scenario.clients /\ j.op \in scenario.ops /\ j.todo \subseteq index
    /\ job' = [job EXCEPT ![c] = j]
    /\ UNCHANGED <<base, data, marks, drawn, client>>

Job(op, ms, e, t) ==
    [op |-> op, todo |-> ms, new |-> <<>>, edit |-> e, text |-> t]
Plain(op, m) == Job(op, {m}, CHOOSE e \in EditId : TRUE, None.text)

RecallAuthorized(c, m) == Begin(c, Plain("recall", m))
AdminRecallWukongMessage(c, m) == kind = "direct" /\ Begin(c, Plain("adminRecall", m))
ReactWukongMessage(c, m, add) == Begin(c, Plain(IF add THEN "react" ELSE "unreact", m))
EditWukongMessage(c, m, e, t) == UserOf[c] = Author[m] /\ Begin(c, Job("edit", {m}, e, t))

SetWukongGroupMessagePin(c, m, pin) ==
    /\ kind = "group" /\ Manages(UserOf[c])
    /\ Begin(c, Plain(IF pin THEN "pin" ELSE "unpin", m))

DeleteMessagesForEveryone(c, ms) ==
    /\ UserOf[c] \in allowed /\ In(UserOf[c]) /\ ms # {}
    /\ kind = "group" => Manages(UserOf[c])
    /\ Begin(c, Job("delete", ms, CHOOSE e \in EditId : TRUE, None.text))

\* A plausible slip: messages are locked in the order a client lists them.
LockAsListed(c, j) == IF UserOf[c] = Owner THEN Max(j.todo) ELSE Min(j.todo)

NextToLock(c, j) == Min(j.todo)

\* Locks the next message, reads its extension and prepares the new one.
SaveWukongMessageExtension(c) ==
    /\ job[c] # Idle /\ job[c].todo # {}
    /\ LET m == NextToLock(c, job[c]) IN
         /\ ~Locked(m) /\ May(UserOf[c], job[c], m)
         /\ LET draws == Changes(UserOf[c], job[c], m)
                n == IF draws THEN drawn + 1 ELSE number[m]
            IN  /\ draws => drawn < MaxSync
                /\ drawn' = IF draws THEN drawn + 1 ELSE drawn
                /\ job' = [job EXCEPT
                     ![c].todo = @ \ {m},
                     ![c].new = [x \in DOMAIN @ \cup {m} |->
                        IF x = m THEN [ext |-> IF draws THEN Mutated(UserOf[c], job[c], m)
                                                        ELSE ext[m],
                                       number |-> n]
                        ELSE @[x]]]
    /\ UNCHANGED <<base, data, marks, client>>

\* A refused check, a cancelled request or a lost connection.
Rollback(c) ==
    /\ job[c] # Idle
    /\ job' = [job EXCEPT ![c] = Idle]
    /\ UNCHANGED <<base, data, marks, drawn, client>>

KeepEdits == UNCHANGED <<edits, asked>>

CommitEdit(j, m) ==
    /\ edits' = IF j.new[m].ext.version > ext[m].version
                THEN [edits EXCEPT ![m] = Append(@, j.text)] ELSE edits
    /\ asked' = IF asked[m][j.edit] = None
                THEN [asked EXCEPT ![m][j.edit] =
                        [version |-> j.new[m].ext.version, text |-> j.text]]
                ELSE asked

CommitTables(p, j, ms) ==
    /\ pins' = CASE j.op = "pin" -> pins \cup ms
                 [] j.op \in {"unpin", "delete"} -> pins \ ms
                 [] OTHER -> pins
    /\ reacted' = CASE j.op = "react" -> reacted \cup ({p} \X ms)
                    [] j.op = "unreact" -> reacted \ ({p} \X ms)
                    [] OTHER -> reacted
    /\ reminder' = IF j.op # "delete" THEN reminder
                   ELSE [q \in Person |-> [m \in Msg |->
                           IF m \in ms /\ reminder[q][m] = "open" THEN "done"
                           ELSE reminder[q][m]]]

Commit(c) ==
    /\ job[c] # Idle /\ job[c].todo = {}
    /\ LET j == job[c] ms == DOMAIN j.new IN
         /\ ext' = [m \in Msg |-> IF m \in ms THEN j.new[m].ext ELSE ext[m]]
         /\ number' = [m \in Msg |-> IF m \in ms THEN j.new[m].number ELSE number[m]]
         /\ IF j.op = "edit" THEN CommitEdit(j, Min(ms)) ELSE KeepEdits
         /\ CommitTables(UserOf[c], j, ms)
    /\ job' = [job EXCEPT ![c] = Idle]
    /\ UNCHANGED <<base, favorite, marks, drawn, client>>

(***************************************************************************)
(* Statements of their own.                                                *)
(***************************************************************************)

SetWukongFavorite(p, m, on) ==
    /\ "favorites" \in scenario.ops
    /\ on => m \in index /\ ~ext[m].deleted /\ CanRead(p, m)
    /\ favorite' = IF on THEN favorite \cup {<<p, m>>} ELSE favorite \ {<<p, m>>}
    /\ UNCHANGED <<base, ext, number, edits, asked, pins, reacted, reminder,
                   marks, drawn, job, client>>

DoneWukongReminders(p, ms) ==
    /\ "reminders" \in scenario.ops
    /\ ms # {} /\ \A m \in ms : reminder[p][m] # "none"
    /\ reminder' = [reminder EXCEPT ![p] =
                      [m \in Msg |-> IF m \in ms THEN "done" ELSE @[m]]]
    /\ UNCHANGED <<base, ext, number, edits, asked, pins, reacted, favorite,
                   marks, drawn, job, client>>

Newest == Max(index \cup {0})

MarkRead(p, s) ==
    /\ "marks" \in scenario.ops
    /\ In(p)
    /\ read' = [read EXCEPT ![p] = Max({@, Min({s, Newest})})]
    /\ UNCHANGED <<base, data, delivered, drawn, job, client>>

MarkDelivered(p, s) ==
    /\ "marks" \in scenario.ops
    /\ In(p)
    /\ delivered' = [delivered EXCEPT ![p] = Max({@, Min({s, Newest})})]
    /\ UNCHANGED <<base, data, read, drawn, job, client>>

\* The client asks for the extensions numbered after its cursor and keeps what
\* it receives; a page is complete or stops early.
SyncWukongMessageExtras(size) ==
    LET after == {m \in index : number[m] > cursor /\ CanRead(Reader, m)}
        page == {m \in after : Cardinality({x \in after : number[x] < number[m]}) < size}
    IN  /\ "sync" \in scenario.ops /\ In(Reader) /\ page # {}
        /\ cursor' = Max({number[m] : m \in page})
        /\ copy' = [m \in Msg |-> IF m \in page THEN ext[m] ELSE copy[m]]
        /\ UNCHANGED <<base, data, marks, drawn, job>>

\* A page of history, or the messages of the page above, read with the
\* extensions they have at that moment.
LoadWukongMessageExtensions(ms) ==
    /\ "sync" \in scenario.ops /\ ms # {} /\ ms \subseteq index
    /\ \A m \in ms : CanRead(Reader, m)
    /\ copy' = [m \in Msg |-> IF m \in ms THEN ext[m] ELSE copy[m]]
    /\ UNCHANGED <<base, data, marks, drawn, job, cursor>>

GroupMessageReceipts(m) ==
    {p \in Person : In(p) /\ p # Author[m] /\ boundary[p] < m}
ReadBy(m) == {p \in GroupMessageReceipts(m) : read[p] >= m}

ExtrasNext ==
    \/ Store \/ SetGroupHistoryVisibility
    \/ \E m \in Msg : ExpireMessages(m)
    \/ \E m \in Msg, answered \in BOOLEAN : PutWukongWebhookEvent(m, answered)
    \/ \E p \in Person :
         \/ AddGroupMembersWithHistory(p) \/ SetUserInternal(p)
         \/ \E r \in Roles : SetRole(p, r)
    \/ \E c \in Client :
         \/ SaveWukongMessageExtension(c) \/ Rollback(c) \/ Commit(c)
         \/ \E ms \in SUBSET Msg : DeleteMessagesForEveryone(c, ms)
         \/ \E m \in Msg :
              \/ RecallAuthorized(c, m) \/ AdminRecallWukongMessage(c, m)
              \/ \E e \in EditId, t \in Text : EditWukongMessage(c, m, e, t)
              \/ \E on \in BOOLEAN : ReactWukongMessage(c, m, on)
              \/ \E pin \in BOOLEAN : SetWukongGroupMessagePin(c, m, pin)
    \/ \E p \in {UserOf[c] : c \in scenario.clients} :
         \/ \E ms \in SUBSET Msg : DoneWukongReminders(p, ms)
         \/ \E m \in Msg, on \in BOOLEAN : SetWukongFavorite(p, m, on)
         \/ \E s \in Msg : MarkRead(p, s) \/ MarkDelivered(p, s)
    \/ \E size \in 1 .. Cardinality(Msg) : SyncWukongMessageExtras(size)
    \/ \E ms \in SUBSET Msg : LoadWukongMessageExtensions(ms)

\* WuKongIM delivers a report again until it is accepted.
ExtrasFairness ==
    \A m \in Msg : WF_extrasVars(PutWukongWebhookEvent(m, TRUE))

ExtrasSpec == ExtrasInit /\ [][ExtrasNext]_extrasVars /\ ExtrasFairness

(***************************************************************************)
(* Properties.                                                             *)
(***************************************************************************)
Extension == [recalled : BOOLEAN, deleted : BOOLEAN, version : Nat, pinned : BOOLEAN]

\* The tables, the transactions and the client's copies hold values of their types.
ExtrasTypeOK ==
    /\ kind \in {"group", "direct"} /\ role \in [Person -> Roles]
    /\ boundary \in [Person -> Nat] /\ open \in BOOLEAN /\ allowed \subseteq Person
    /\ last \in Msg \cup {0} /\ due \subseteq Msg /\ index \subseteq 1 .. last
    /\ expired \subseteq index
    /\ ext \in [Msg -> Extension] /\ number \in [Msg -> 0 .. MaxSync]
    /\ edits \in [Msg -> Seq(Text)]
    /\ asked \in [Msg -> [EditId -> [version : Nat, text : Text]]]
    /\ pins \subseteq index /\ reacted \subseteq Person \X index
    /\ favorite \subseteq Person \X index
    /\ reminder \in [Person -> [Msg -> {"none", "open", "done"}]]
    /\ read \in [Person -> Nat] /\ delivered \in [Person -> Nat]
    /\ drawn \in 0 .. MaxSync /\ cursor \in 0 .. MaxSync
    /\ copy \in [Msg -> Extension]

\* Edits and pins that raced, were repeated or lost against a recall leave one
\* history: the extension shows the latest recorded body and whether the message
\* is pinned, and every answered edit id names a recorded version with the text
\* that was asked for.
ExtensionAgrees == \A m \in Msg :
    /\ m \notin expired => ext[m].version = Len(edits[m])
    /\ m \notin expired /\ ~ext[m].deleted => (ext[m].pinned <=> m \in pins)
    /\ \A e \in EditId : asked[m][e] # None =>
         /\ asked[m][e].version \in DOMAIN edits[m]
         /\ edits[m][asked[m][e].version] = asked[m][e].text

\* A deletion for everyone leaves no pin and no unanswered reminder, whatever
\* pinned the message or was reported of it meanwhile.
DeletedLeavesNothing == \A m \in Msg : ext[m].deleted =>
    m \notin pins /\ \A p \in Person : reminder[p][m] # "open"

\* Until it expires, a message stays recalled or deleted; neither an edit nor
\* a reaction that raced with the recall reaches it, and only a deletion does.
Retracted(m) == ext[m].recalled \/ ext[m].deleted
RetractedForGood == [][\A m \in Msg : Retracted(m) /\ m \notin expired' =>
    /\ ext[m].recalled => ext'[m].recalled
    /\ ext[m].deleted => ext'[m].deleted
    /\ edits'[m] = edits[m]
    /\ {r \in reacted' : r[2] = m} \subseteq reacted
    /\ m \in pins' => m \in pins]_extrasVars

\* When a recall or deletion commits, its author still has the right to it: a
\* demotion, removal or revocation waits for the transaction or is seen by it.
CommittedRightfully == [][\A c \in Client :
    (job[c] # Idle /\ job'[c] = Idle /\ ext' # ext) =>
      /\ Has(c, "delete") =>
           UserOf[c] \in allowed /\ In(UserOf[c]) /\ (kind = "group" => Manages(UserOf[c]))
      /\ Has(c, "recall") => \A m \in DOMAIN job[c].new :
           In(UserOf[c]) /\ (UserOf[c] = Author[m] \/ Manages(UserOf[c]))]_extrasVars

\* No two transactions wait for each other's messages.
NoWaitCycle == ~ \E c, d \in Client :
    /\ job[c] # Idle /\ job[d] # Idle /\ job[c].todo # {} /\ job[d].todo # {}
    /\ NextToLock(c, job[c]) \in DOMAIN job[d].new
    /\ NextToLock(d, job[d]) \in DOMAIN job[c].new

\* A receipt that showed a member as a reader does so for as long as the
\* member stays, through joins, policy changes and late position reports.
ReceiptsOnlyGrow == [][\A m \in Msg : \A p \in ReadBy(m) :
    In(p)' => p \in ReadBy(m)']_extrasVars

\* Whoever joined without the history finds nothing unread in it.
NothingUnreadBeforeJoining == \A p \in Person :
    In(p) => read[p] >= boundary[p] /\ delivered[p] >= boundary[p]

\* Every message WuKongIM reports ends up in the index, answers lost or not.
EventuallyIndexed == <>[](1 .. last \subseteq index)

\* docs/WUKONGIM_PROTOCOL_BASELINE.md:40: after a CMD the client synchronises
\* incrementally by extension version.  Then what lies behind its cursor is
\* what it has.
CursorMissesNothing == \A m \in index :
    0 < number[m] /\ number[m] <= cursor => copy[m] = ext[m]

\* What edits, recalls, deletions, pins, reactions and read positions that race
\* keep to.
ExtrasKept ==
    /\ [](ExtensionAgrees /\ DeletedLeavesNothing /\ NothingUnreadBeforeJoining)
    /\ RetractedForGood /\ CommittedRightfully /\ ReceiptsOnlyGrow
=============================================================================
