----------------------------- MODULE WebhookInbox -----------------------------
(***************************************************************************)
(* Events WuKongIM reports: each is recorded and takes effect in one       *)
(* transaction, and only the first report of it.  Rows an earlier version  *)
(* of the server left unprocessed are recovered when a server starts, in   *)
(* batches whose events have a savepoint each.  Every event here stands    *)
(* for a change of the same user's connection, so that effects also have   *)
(* an order.                                                               *)
(***************************************************************************)
EXTENDS Naturals, FiniteSets, Sequences

CONSTANTS
    Event,      \* 1..n; the id is a digest, so its order means nothing
    Poison,     \* events whose payload the processing refuses
    Legacy,     \* events left pending or processing by an earlier version
    Hook,       \* calls of SendWebhook
    Starter,    \* servers that start
    BatchSize,  \* of one recovery transaction: 200 in the code
    MaxTick,    \* bound on reports
    MaxAbort    \* bound on recovery transactions that fail

ASSUME WebhookAssumption ==
    /\ Event \subseteq Nat \ {0} /\ IsFiniteSet(Event)
    /\ Poison \subseteq Event /\ Legacy \subseteq Event
    /\ BatchSize \in Nat \ {0} /\ MaxTick \in Nat /\ MaxAbort \in Nat

VARIABLES
    receipt,   \* im_wukong_webhook_events: status and received_at of each event
    applied,   \* how often each event took effect
    presenceShown,     \* im_wukong_presence: the event it shows and its time
    hook,      \* what each call has yet to persist
    starter,   \* the events each recovery transaction holds, those still to come, those
               \* that failed, and what the others of it show
    tick, aborts

webhookVars == <<receipt, applied, presenceShown, hook, starter, tick, aborts>>

NoReceipt == [status |-> "none", at |-> 0]
NothingShown == [event |-> 0, at |-> 0]
Unprocessed == {"pending", "processing"}

\* Rows an earlier version left, if there are any, were received before anything
\* the server receives now.
WebhookInit ==
    /\ \E left \in {{}, Legacy} : \E was \in [left -> [status : Unprocessed, at : 1 .. 2]] :
         receipt = [e \in Event |-> IF e \in left THEN was[e] ELSE NoReceipt]
    /\ applied = [e \in Event |-> 0] /\ presenceShown = NothingShown
    /\ hook = [h \in Hook |-> <<>>]
    /\ starter = [s \in Starter |-> [step |-> "start"]]
    /\ tick = 2 /\ aborts = 0

\* The upsert of im_wukong_presence: an older event does not move it back.
ProjectWukongOnlineStatus(now, e, at) ==
    IF at >= now.at THEN [event |-> e, at |-> at] ELSE now

\* One report of a batch of events; all of them get the time of its arrival.
SendWebhook(h, batch) ==
    /\ hook[h] = <<>> /\ tick < MaxTick /\ tick' = tick + 1
    /\ hook' = [hook EXCEPT ![h] = [i \in DOMAIN batch |-> [event |-> batch[i], at |-> tick']]]
    /\ UNCHANGED <<receipt, applied, presenceShown, starter, aborts>>

NewEvent(e) == receipt[e].status = "none"

\* ProcessWukongWebhookEvent inside the transaction of PutWukongWebhookEvent.  An
\* event that was received already is not processed; the call goes on.
PutWukongWebhookEvent(h) ==
    /\ hook[h] # <<>>
    /\ LET e == Head(hook[h]).event  at == Head(hook[h]).at IN
         /\ hook' = [hook EXCEPT ![h] = Tail(hook[h])]
         /\ IF NewEvent(e)
            THEN /\ e \notin Poison
                 /\ receipt' = [receipt EXCEPT ![e] = [status |-> "completed", at |-> at]]
                 /\ applied' = [applied EXCEPT ![e] = @ + 1]
                 /\ presenceShown' = ProjectWukongOnlineStatus(presenceShown, e, at)
            ELSE UNCHANGED <<receipt, applied, presenceShown>>
    /\ UNCHANGED <<starter, tick, aborts>>

\* The processing refuses the event or the database fails: the transaction is
\* rolled back and the call answers an error without the events that follow.
PutFails(h) ==
    /\ hook[h] # <<>> /\ hook' = [hook EXCEPT ![h] = <<>>]
    /\ UNCHANGED <<receipt, applied, presenceShown, starter, tick, aborts>>

(***************************************************************************)
(* Recovery at start-up.                                                   *)
(***************************************************************************)
InBatch(s) == starter[s].step = "batch"

Locked == UNION {starter[s].batch : s \in {x \in Starter : InBatch(x)}}

Recoverable == {e \in Event \ Locked : receipt[e].status \in Unprocessed}

Before(e, f) == receipt[e].at < receipt[f].at \/ (receipt[e].at = receipt[f].at /\ e < f)

\* ORDER BY received_at,id LIMIT: the first rows nobody holds.
NextBatch == {e \in Recoverable : Cardinality({f \in Recoverable : Before(f, e)}) < BatchSize}

RecoverWukongWebhookEvents(s) ==
    /\ starter[s].step = "start"
    /\ starter' = [starter EXCEPT ![s] = [step |-> "batch", batch |-> NextBatch, todo |-> NextBatch,
                                          bad |-> {}, shows |-> NothingShown]]
    /\ UNCHANGED <<receipt, applied, presenceShown, hook, tick, aborts>>

\* Back to the savepoint of the event, which is marked failed.
RefusedIsMarked(s, e) == [starter[s] EXCEPT !.todo = @ \ {e}, !.bad = @ \cup {e}]

Processed(s, e) ==
    [starter[s] EXCEPT !.todo = @ \ {e}, !.shows = ProjectWukongOnlineStatus(@, e, receipt[e].at)]

RecoverEvent(s) ==
    /\ InBatch(s)
    /\ \E e \in starter[s].todo :
         /\ \A f \in starter[s].todo \ {e} : Before(e, f)
         /\ starter' = [starter EXCEPT ![s] = IF e \in Poison THEN RefusedIsMarked(s, e) ELSE Processed(s, e)]
    /\ UNCHANGED <<receipt, applied, presenceShown, hook, tick, aborts>>

\* A plausible slip: a failed event keeps what was done before its error.
EffectsWithoutSavepoint(s) == starter[s].batch

EffectsOf(s) == starter[s].batch \ starter[s].bad

Completed(s, e) ==
    [receipt[e] EXCEPT !.status = IF e \in starter[s].bad THEN "failed" ELSE "completed"]

CommitRecovery(s) ==
    /\ InBatch(s) /\ starter[s].todo = {}
    /\ receipt' = [e \in Event |-> IF e \in starter[s].batch THEN Completed(s, e) ELSE receipt[e]]
    /\ applied' = [e \in Event |-> applied[e] + IF e \in EffectsOf(s) THEN 1 ELSE 0]
    /\ presenceShown' = ProjectWukongOnlineStatus(presenceShown, starter[s].shows.event, starter[s].shows.at)
    /\ starter' = [starter EXCEPT ![s] =
           IF Cardinality(starter[s].batch) < BatchSize THEN [step |-> "serving"] ELSE [step |-> "start"]]
    /\ UNCHANGED <<hook, tick, aborts>>

\* The database fails or the server stops: the transaction leaves no trace, and
\* the server is started again.
AbortRecovery(s) ==
    /\ InBatch(s) /\ aborts < MaxAbort /\ aborts' = aborts + 1
    /\ starter' = [starter EXCEPT ![s] = [step |-> "start"]]
    /\ UNCHANGED <<receipt, applied, presenceShown, hook, tick>>

StarterStep(s) == RecoverWukongWebhookEvents(s) \/ RecoverEvent(s) \/ CommitRecovery(s)

Batches == {<<e>> : e \in Event} \cup {<<e, f>> : e \in Event, f \in Event}

WebhookNext ==
    \/ \E h \in Hook :
         \/ \E batch \in Batches : SendWebhook(h, batch)
         \/ PutWukongWebhookEvent(h) \/ PutFails(h)
    \/ \E s \in Starter : StarterStep(s) \/ AbortRecovery(s)

\* Servers that are started go on starting.
WebhookFairness == \A s \in Starter : WF_webhookVars(StarterStep(s))

WebhookSpec == WebhookInit /\ [][WebhookNext]_webhookVars /\ WebhookFairness

(***************************************************************************)
(* Properties.                                                             *)
(***************************************************************************)
\* However often and wherever an event is reported or recovered, it takes effect
\* once, exactly when its receipt says completed; a failed one leaves nothing.
EffectOnce == \A e \in Event :
    applied[e] = IF receipt[e].status = "completed" THEN 1 ELSE 0

\* Presence shows the newest of the events that took effect, whatever the order
\* in which reports and recovery wrote them.
PresenceNewest == \A e \in Event :
    applied[e] > 0 => presenceShown.event \in Event /\ presenceShown.at = receipt[presenceShown.event].at
                      /\ receipt[e].at <= presenceShown.at

\* No row stays unprocessed, although the events next to it are refused, servers
\* start side by side and their transactions fail.
EventuallyRecovered == <>[](\A e \in Event : receipt[e].status \notin Unprocessed)

\* Every event takes effect once, in the right order for presence, or is refused.
WebhookKept == EffectOnce /\ PresenceNewest
=============================================================================
