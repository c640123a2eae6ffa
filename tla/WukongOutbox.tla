--------------------------- MODULE WukongOutbox ---------------------------
(***************************************************************************)
(* The im_wukong_outbox table and the OutboxWorkers that drain it.         *)
(*                                                                         *)
(* A business transaction inserts a row in the transaction that makes the  *)
(* change (enqueueWukongOutbox); a worker claims a batch of rows under a   *)
(* one-minute lease, executes them one after another in id order, and      *)
(* records each outcome by row id alone.  The table has no lease token:    *)
(* a worker whose lease has expired still completes or fails the row.      *)
(*                                                                         *)
(* Rows are numbered in the order they were committed.  Time appears only  *)
(* as LeaseExpires and BackoffElapses.  What an execution does is left     *)
(* open: a module that EXTENDS this one replaces Execute by the steps of   *)
(* the operation, and uses the other actions as they are.                  *)
(***************************************************************************)
EXTENDS Naturals, FiniteSets

CONSTANTS
    Op,         \* what a row asks for (operation and payload)
    NoOp,       \* the op of a row that does not exist yet
    Worker,     \* the OutboxWorkers, one per server process
    MaxRow,     \* bound: rows ever inserted
    BatchSize,  \* rows of one claim (w.batch, 100 in the code)
    MaxFault    \* bound: failed calls, failed writes and crashes, together

ASSUME OutboxAssumption ==
    /\ NoOp \notin Op
    /\ MaxRow \in Nat \ {0}
    /\ BatchSize \in Nat \ {0}
    /\ MaxFault \in Nat

Row == 1..MaxRow

VARIABLES
    op,         \* op[i]: the operation of row i, NoOp before its insert
    status,     \* status[i], with "absent" before the insert
    leased,     \* leased[i]: locked_at is less than a minute old
    backoff,    \* backoff[i]: available_at lies in the future
    batch,      \* batch[w]: rows the running runOnce of w still has to do
    outcome,    \* outcome[w]: result of w's current row, not yet recorded
    performed,  \* rows whose operation has taken effect (history)
    faults      \* faults so far

outboxVars == <<op, status, leased, backoff, batch, outcome, performed, faults>>

Status  == {"absent", "pending", "processing", "completed", "failed"}
Outcome == {"none", "ok", "retry", "rejected"}

Settled(i) == status[i] \in {"completed", "failed"}

\* The row a worker is at: the loop walks its batch in id order.
IsCurrent(w, i) == i \in batch[w] /\ \A j \in batch[w] : i <= j

OutboxInit ==
    /\ op = [i \in Row |-> NoOp]
    /\ status = [i \in Row |-> "absent"]
    /\ leased = [i \in Row |-> FALSE]
    /\ backoff = [i \in Row |-> FALSE]
    /\ batch = [w \in Worker |-> {}]
    /\ outcome = [w \in Worker |-> "none"]
    /\ performed = {}
    /\ faults = 0
---------------------------------------------------------------------------
\* INSERT of a row whose idempotency key is new; it gets the next id.
Enqueue(o) ==
    \E i \in Row :
        /\ status[i] = "absent"
        /\ \A j \in Row : j < i => status[j] # "absent"
        /\ op' = [op EXCEPT ![i] = o]
        /\ status' = [status EXCEPT ![i] = "pending"]
        /\ UNCHANGED <<leased, backoff, batch, outcome, performed, faults>>

\* The WHERE clause of the claim.
Claimable(i) ==
    \/ status[i] = "pending" /\ ~backoff[i]
    \/ status[i] = "processing" /\ ~leased[i]

\* ORDER BY id LIMIT BatchSize.
Picked == {i \in Row : /\ Claimable(i)
                       /\ Cardinality({j \in Row : Claimable(j) /\ j < i})
                            < BatchSize}

ClaimAs(w, s) ==
    /\ batch[w] = {}
    /\ Picked # {}
    /\ batch' = [batch EXCEPT ![w] = Picked]
    /\ status' = [i \in Row |-> IF i \in Picked THEN s ELSE status[i]]
    /\ leased' = [i \in Row |-> i \in Picked \/ leased[i]]
    /\ UNCHANGED <<op, backoff, outcome, performed, faults>>

\* An idle worker claims a batch: one UPDATE over rows locked SKIP LOCKED.
ClaimWukongOutbox(w) == ClaimAs(w, "processing")

\* The call for the current row has returned: done, refused for good (a 4xx
\* other than 429), or to be retried (429, 5xx, network; it may have landed).
Execute(w) ==
    \E i \in Row :
        /\ IsCurrent(w, i)
        /\ outcome[w] = "none"
        /\ \/ /\ outcome' = [outcome EXCEPT ![w] = "ok"]
              /\ performed' = performed \union {i}
              /\ UNCHANGED faults
           \/ /\ faults < MaxFault
              /\ faults' = faults + 1
              /\ outcome' = [outcome EXCEPT ![w] = "retry"]
              /\ performed' \in {performed, performed \union {i}}
           \/ /\ faults < MaxFault
              /\ faults' = faults + 1
              /\ outcome' = [outcome EXCEPT ![w] = "rejected"]
              /\ UNCHANGED performed
        /\ UNCHANGED <<op, status, leased, backoff, batch>>

\* One UPDATE by id, whatever the row's status and whoever holds its lease;
\* the worker goes on to its next row.
RecordAs(w, verdict) ==
    \E i \in Row :
        /\ IsCurrent(w, i)
        /\ outcome[w] # "none"
        /\ status' = [status EXCEPT ![i] = verdict[outcome[w]]]
        /\ leased' = [leased EXCEPT ![i] = FALSE]
        /\ backoff' = [backoff EXCEPT ![i] = outcome[w] = "retry" \/ backoff[i]]
        /\ batch' = [batch EXCEPT ![w] = @ \ {i}]
        /\ outcome' = [outcome EXCEPT ![w] = "none"]
        /\ UNCHANGED <<op, performed, faults>>

\* CompleteWukongOutbox, or FailWukongOutbox with or without retry.
Record(w) ==
    RecordAs(w, [ok |-> "completed", retry |-> "pending", rejected |-> "failed"])

\* runOnce gives its batch up half-way: the write of an outcome failed, or the
\* process stopped.  The rows stay "processing" until their lease runs out.
Abandon(w) ==
    /\ batch[w] # {}
    /\ faults < MaxFault
    /\ faults' = faults + 1
    /\ batch' = [batch EXCEPT ![w] = {}]
    /\ outcome' = [outcome EXCEPT ![w] = "none"]
    /\ UNCHANGED <<op, status, leased, backoff, performed>>

LeaseExpires(i) ==
    /\ leased[i]
    /\ leased' = [leased EXCEPT ![i] = FALSE]
    /\ UNCHANGED <<op, status, backoff, batch, outcome, performed, faults>>

BackoffElapses(i) ==
    /\ backoff[i]
    /\ backoff' = [backoff EXCEPT ![i] = FALSE]
    /\ UNCHANGED <<op, status, leased, batch, outcome, performed, faults>>
---------------------------------------------------------------------------
OutboxNext ==
    \/ \E o \in Op : Enqueue(o)
    \/ \E w \in Worker : \/ ClaimWukongOutbox(w)
                         \/ Execute(w)
                         \/ Record(w)
                         \/ Abandon(w)
    \/ \E i \in Row : LeaseExpires(i) \/ BackoffElapses(i)

OutboxSpec == OutboxInit /\ [][OutboxNext]_outboxVars

\* Run ticks every 100 ms whatever the last cycle returned, calls have a
\* timeout, and the database clock advances; nobody has to enqueue.
OutboxFairness ==
    /\ \A w \in Worker : /\ WF_outboxVars(ClaimWukongOutbox(w))
                         /\ WF_outboxVars(Execute(w))
                         /\ WF_outboxVars(Record(w))
    /\ \A i \in Row : /\ WF_outboxVars(LeaseExpires(i))
                      /\ WF_outboxVars(BackoffElapses(i))

FairOutboxSpec == OutboxSpec /\ OutboxFairness
---------------------------------------------------------------------------
OutboxTypeOK ==
    /\ op \in [Row -> Op \union {NoOp}]
    /\ status \in [Row -> Status]
    /\ leased \in [Row -> BOOLEAN]
    /\ backoff \in [Row -> BOOLEAN]
    /\ batch \in [Worker -> SUBSET Row]
    /\ outcome \in [Worker -> Outcome]
    /\ performed \subseteq Row
    /\ faults \in Nat

\* A row is only ever marked completed once its operation has taken effect,
\* however leases expire, rows change hands and stale workers report late.
CompletedWasPerformed ==
    \A i \in Row : status[i] = "completed" => i \in performed

\* With one worker a completed or failed row is never touched again: nothing
\* reclaims it and no late report reopens it.
SettledForever ==
    [][\A i \in Row : Settled(i) => status'[i] = status[i]]_outboxVars

\* CLUSTERING.md: the same outbox row is executed once under several workers.
\* No execution succeeds for a row that already is completed.
ExecutedOnce ==
    [][\A w \in Worker, i \in Row :
          IsCurrent(w, i) /\ outcome[w] = "none" /\ outcome'[w] = "ok"
            => status[i] # "completed"]_outboxVars

\* Once faults cease, every row that was inserted is completed or failed: no
\* crash, lost lease or backoff strands it.
EveryRowSettles == \A i \in Row : status[i] = "pending" ~> Settled(i)
---------------------------------------------------------------------------
\* One worker keeps the promise AtLeastOnce makes to the writing transactions.
Promise == INSTANCE AtLeastOnce WITH
    Job          <- Row,
    submitted    <- {i \in Row : status[i] # "absent"},
    done         <- performed,
    acknowledged <- {i \in Row : status[i] = "completed"},
    refused      <- {i \in Row : status[i] = "failed"}

\* Every step of the outbox is a step of AtLeastOnce or leaves it unchanged.
DeliversAtLeastOnce == Promise!JobSpec
===========================================================================
