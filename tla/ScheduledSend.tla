---------------------------- MODULE ScheduledSend ----------------------------
(***************************************************************************)
(* Scheduled messages of one user, and the transport that sends a message  *)
(* on a user's behalf.  The single worker of a server leases due rows,     *)
(* sends them one after the other and settles each row; the transport      *)
(* looks in WuKongIM for the client number of a message before it sends,   *)
(* so that a retry of what was already delivered sends nothing.  A request *)
(* whose answer is lost reached WuKongIM within its time-out or never.     *)
(***************************************************************************)
EXTENDS Naturals, Sequences, SequencesExt

CONSTANTS
    Msg,       \* scheduled messages, each with its client number
    Body,      \* contents a user may ask for
    BadBody,   \* of those, the ones sendMessage refuses
    MaxTries,  \* 10 in the code
    MaxEdit, MaxOutage, MaxCrash   \* bounds

ASSUME ScheduledAssumption ==
    /\ IsFiniteSet(Msg) /\ BadBody \subseteq Body
    /\ MaxTries \in Nat \ {0} /\ {MaxEdit, MaxOutage, MaxCrash} \subseteq Nat

VARIABLES
    sched,     \* im_scheduled_messages
    batch,     \* rows the worker leased and has not settled, the first in hand
    stage,     \* what the worker does with the first
    kept,      \* bodies WuKongIM stores under each client number
    edited, outage, crashed

schedVars == <<sched, batch, stage, kept, edited, outage, crashed>>

NoMsg == [status |-> "absent", body |-> CHOOSE b \in Body : TRUE, tries |-> 0, due |-> FALSE, lapsed |-> FALSE]
SchedStatus(m) == sched[m].status
SettledMsg(m) == SchedStatus(m) \in {"absent", "sent", "failed", "cancelled"}

SchedInit ==
    /\ sched = [m \in Msg |-> NoMsg] /\ kept = [m \in Msg |-> <<>>]
    /\ batch = <<>> /\ stage = "idle"
    /\ edited = 0 /\ outage = 0 /\ crashed = 0

Held1 == Head(batch).msg
Sent1 == Head(batch).body
Trouble == outage < MaxOutage /\ outage' = outage + 1

(***************************************************************************)
(* The user.                                                               *)
(***************************************************************************)
\* Creation is refused at once what sendMessage would refuse later.
validateScheduledMessage(b) == b \notin BadBody

\* A repetition returns the row; one with another content is a conflict.
CreateScheduledMessage(m, b) ==
    /\ SchedStatus(m) = "absent"
    /\ sched' = [sched EXCEPT ![m] = [NoMsg EXCEPT !.status = "pending", !.body = b]]
    /\ UNCHANGED <<batch, stage, kept, edited, outage, crashed>>

Schedule(m, b) == validateScheduledMessage(b) /\ CreateScheduledMessage(m, b)

Pending(m) == SchedStatus(m) = "pending"

\* The text of an edit is not checked before it is sent.
UpdateScheduledMessage(m, b) ==
    /\ edited < MaxEdit /\ edited' = edited + 1
    /\ Pending(m)
    /\ \E later \in BOOLEAN :
          sched' = [sched EXCEPT ![m].body = b, ![m].due = IF later THEN FALSE ELSE @]
    /\ UNCHANGED <<batch, stage, kept, outage, crashed>>

CancelScheduledMessage(m) ==
    /\ Pending(m)
    /\ sched' = [sched EXCEPT ![m].status = "cancelled"]
    /\ UNCHANGED <<batch, stage, kept, edited, outage, crashed>>

(***************************************************************************)
(* Time.                                                                   *)
(***************************************************************************)
ComeDue(m) ==
    /\ SchedStatus(m) = "pending" /\ ~sched[m].due
    /\ sched' = [sched EXCEPT ![m].due = TRUE]
    /\ UNCHANGED <<batch, stage, kept, edited, outage, crashed>>

LeaseLapses(m) ==
    /\ SchedStatus(m) = "processing" /\ ~sched[m].lapsed
    /\ sched' = [sched EXCEPT ![m].lapsed = TRUE]
    /\ UNCHANGED <<batch, stage, kept, edited, outage, crashed>>

(***************************************************************************)
(* The worker: lease, and for each row prepare, authorize, search, send    *)
(* and complete.                                                           *)
(***************************************************************************)
Leasable(m) ==
    \/ SchedStatus(m) = "pending" /\ sched[m].due
    \/ SchedStatus(m) = "processing" /\ sched[m].lapsed

LeaseScheduledMessages ==
    /\ batch = <<>>
    /\ LET rows == {m \in Msg : Leasable(m)} IN
       /\ rows # {}
       /\ sched' = [m \in Msg |-> IF m \in rows
                                  THEN [sched[m] EXCEPT !.status = "processing", !.tries = @ + 1,
                                                        !.lapsed = FALSE]
                                  ELSE sched[m]]
       /\ LET order == SetToSeq(rows) IN
             batch' = [i \in DOMAIN order |-> [msg |-> order[i], body |-> sched[order[i]].body]]
    /\ stage' = "prepare"
    /\ UNCHANGED <<kept, edited, outage, crashed>>

InHand(s) == batch # <<>> /\ stage = s

PrepareMessage ==
    /\ InHand("prepare")
    /\ stage' = IF Sent1 \in BadBody THEN "refused" ELSE "authorize"
    /\ UNCHANGED <<sched, batch, kept, edited, outage, crashed>>

\* The right to send is asked before the search: a retry of a delivered message
\* by a user who was muted or left since is refused.
AuthorizeMessage ==
    /\ InHand("authorize")
    /\ \E may \in BOOLEAN : stage' = IF may THEN "search" ELSE "refused"
    /\ UNCHANGED <<sched, batch, kept, edited, outage, crashed>>

SamePayload(found) == found[1] = Sent1

\* A plausible slip: every attempt sends.
SendAnyway(found) == "send"
AfterSearch(found) ==
    IF found = <<>> THEN "send" ELSE IF SamePayload(found) THEN "done" ELSE "refused"

SearchMessages ==
    /\ InHand("search")
    /\ \/ stage' = AfterSearch(kept[Held1]) /\ UNCHANGED outage
       \/ stage' = "refused" /\ Trouble
    /\ UNCHANGED <<sched, batch, kept, edited, crashed>>

\* The send rate and the media binding may refuse before anything is sent.
SendRefused ==
    /\ InHand("send")
    /\ stage' = "refused"
    /\ UNCHANGED <<sched, batch, kept, edited, outage, crashed>>

SendStoredMessage ==
    /\ InHand("send")
    /\ kept' = [kept EXCEPT ![Held1] = Append(@, Sent1)]
    /\ \/ stage' = "done" /\ UNCHANGED outage
       \/ stage' = "refused" /\ Trouble    \* stored, the answer is lost
    /\ UNCHANGED <<sched, batch, edited, crashed>>

Completed1(row) ==
    [row EXCEPT !.lapsed = FALSE,
                !.status = IF stage = "done" THEN "sent"
                           ELSE IF row.tries >= MaxTries THEN "failed" ELSE "pending"]

\* The row must still be in processing; an error of the database is ignored and
\* leaves the row to its lease.
CompleteScheduledMessage ==
    /\ InHand("done") \/ InHand("refused")
    /\ \/ /\ sched' = IF SchedStatus(Held1) = "processing"
                      THEN [sched EXCEPT ![Held1] = Completed1(@)] ELSE sched
          /\ UNCHANGED outage
       \/ Trouble /\ UNCHANGED sched
    /\ batch' = Tail(batch)
    /\ stage' = IF Len(batch) = 1 THEN "idle" ELSE "prepare"
    /\ UNCHANGED <<kept, edited, crashed>>

\* The server stops; a request that was under way may have been served.
ServerCrash ==
    /\ crashed < MaxCrash /\ crashed' = crashed + 1
    /\ batch # <<>>
    /\ \/ UNCHANGED kept
       \/ InHand("send") /\ kept' = [kept EXCEPT ![Held1] = Append(@, Sent1)]
    /\ batch' = <<>> /\ stage' = "idle"
    /\ UNCHANGED <<sched, edited, outage>>

WorkerStep == PrepareMessage \/ AuthorizeMessage \/ SearchMessages \/ SendStoredMessage \/ CompleteScheduledMessage

SchedNext ==
    \/ \E m \in Msg :
         \/ CancelScheduledMessage(m) \/ ComeDue(m) \/ LeaseLapses(m)
         \/ \E b \in Body : Schedule(m, b) \/ UpdateScheduledMessage(m, b)
    \/ LeaseScheduledMessages
    \/ WorkerStep \/ SendRefused \/ ServerCrash

\* The ticker of RunScheduledMessages fires every second while the server runs,
\* each call has a time-out, and time passes.
SchedFairness ==
    /\ WF_schedVars(LeaseScheduledMessages) /\ WF_schedVars(WorkerStep)
    /\ \A m \in Msg : WF_schedVars(ComeDue(m)) /\ WF_schedVars(LeaseLapses(m))

SchedSpec == SchedInit /\ [][SchedNext]_schedVars /\ SchedFairness

(***************************************************************************)
(* Properties.                                                             *)
(***************************************************************************)
\* Rows and the batch have their types, and only a batch is being worked on.
SchedTypeOK ==
    /\ sched \in [Msg -> [status : {"absent", "pending", "processing", "sent", "failed", "cancelled"},
                          body : Body, tries : 0 .. MaxTries + MaxOutage + MaxCrash,
                          due : BOOLEAN, lapsed : BOOLEAN]]
    /\ batch \in Seq([msg : Msg, body : Body]) /\ (batch = <<>> <=> stage = "idle")

\* However often a send is repeated after a lost answer, a lapsed lease or a
\* restart, WuKongIM keeps one message under a client number.
KeptOnce == \A m \in Msg : Len(kept[m]) <= 1

\* A row that says "sent" stands for the message WuKongIM keeps, with the content
\* the row shows: an edit between a lost answer and the retry cannot pass for it.
SentIsKept == \A m \in Msg : SchedStatus(m) = "sent" => kept[m] = <<sched[m].body>>

\* Nothing is sent for a row that its user cancelled, or that is settled otherwise.
OnlyProcessingIsSent ==
    [][\A m \in Msg : kept'[m] # kept[m] => SchedStatus(m) = "processing" /\ sched[m].body = Sent1]_schedVars

\* Every scheduled message is sent, cancelled or given up after its attempts,
\* across restarts and lost calls.
EventuallySettledMsg == <>[](\A m \in Msg : SchedStatus(m) = "absent" \/ SettledMsg(m))

\* A scheduled message is kept once, as its row shows, and only by a worker that holds
\* its row.
ScheduleKept == [](KeptOnce /\ SentIsKept) /\ OnlyProcessingIsSent
=============================================================================
