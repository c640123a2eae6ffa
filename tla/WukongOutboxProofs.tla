------------------------ MODULE WukongOutboxProofs ------------------------
(***************************************************************************)
(* Proofs about the outbox, for every number of rows and faults.  The      *)
(* first two theorems hold for any set of workers; the last two for one    *)
(* worker, which is how the server is deployed: with several, a stale      *)
(* worker reopens a completed row (run outbox_executed_once).              *)
(***************************************************************************)
EXTENDS WukongOutbox, TLAPS

\* A result that waits to be recorded belongs to a row of the batch, and a
\* good one to a row that has been performed.
OutcomeOfCurrent ==
    \A w \in Worker :
        /\ batch[w] = {} => outcome[w] = "none"
        /\ outcome[w] = "ok" => \A i \in Row : IsCurrent(w, i) => i \in performed

OutboxInv == OutboxTypeOK /\ OutcomeOfCurrent /\ CompletedWasPerformed

\* With one worker nobody else can settle the rows of its batch.
BatchIsProcessing ==
    \A w \in Worker : \A i \in batch[w] : status[i] = "processing"

OneWorkerInv == OutboxInv /\ BatchIsProcessing

\* The deployed topology.
OneWorker == \A v, w \in Worker : v = w
---------------------------------------------------------------------------
LEMMA OutboxTypeInductive ==
    ASSUME OutboxTypeOK, [OutboxNext]_outboxVars
    PROVE  OutboxTypeOK'
<1> USE DEF OutboxTypeOK, Status, Outcome
<1>1. ASSUME NEW o \in Op, Enqueue(o) PROVE OutboxTypeOK'
  BY <1>1 DEF Enqueue
<1>2. ASSUME NEW w \in Worker, ClaimWukongOutbox(w) PROVE OutboxTypeOK'
  BY <1>2 DEF ClaimWukongOutbox, ClaimAs, Picked
<1>3. ASSUME NEW w \in Worker, Execute(w) PROVE OutboxTypeOK'
  BY <1>3 DEF Execute
<1>4. ASSUME NEW w \in Worker, Record(w) PROVE OutboxTypeOK'
  <2>1. PICK i \in Row :
          /\ outcome[w] # "none"
          /\ status' = [status EXCEPT ![i] = [ok |-> "completed", retry |-> "pending",
                                              rejected |-> "failed"][outcome[w]]]
          /\ leased' = [leased EXCEPT ![i] = FALSE]
          /\ backoff' = [backoff EXCEPT ![i] = outcome[w] = "retry" \/ backoff[i]]
          /\ batch' = [batch EXCEPT ![w] = @ \ {i}]
          /\ outcome' = [outcome EXCEPT ![w] = "none"]
          /\ UNCHANGED <<op, performed, faults>>
    BY <1>4 DEF Record, RecordAs
  <2>2. outcome[w] \in {"ok", "retry", "rejected"}
    BY <2>1
  <2>3. status' \in [Row -> Status]
    BY <2>1, <2>2
  <2> QED BY <2>1, <2>3
<1>5. ASSUME NEW w \in Worker, Abandon(w) PROVE OutboxTypeOK'
  BY <1>5 DEF Abandon
<1>6. ASSUME NEW i \in Row, LeaseExpires(i) \/ BackoffElapses(i)
      PROVE  OutboxTypeOK'
  BY <1>6 DEF LeaseExpires, BackoffElapses
<1>7. CASE UNCHANGED outboxVars
  BY <1>7 DEF outboxVars
<1> QED BY <1>1, <1>2, <1>3, <1>4, <1>5, <1>6, <1>7 DEF OutboxNext

\* Every variable keeps its type, whatever the workers do.
THEOREM OutboxTypeCorrect == OutboxSpec => []OutboxTypeOK
<1>1. OutboxInit => OutboxTypeOK
  BY OutboxAssumption DEF OutboxInit, OutboxTypeOK, Status, Outcome
<1>2. OutboxTypeOK /\ [OutboxNext]_outboxVars => OutboxTypeOK'
  BY OutboxTypeInductive
<1> QED BY <1>1, <1>2, PTL DEF OutboxSpec
---------------------------------------------------------------------------
LEMMA OutboxInvInductive ==
    ASSUME OutboxInv, OutboxTypeOK', [OutboxNext]_outboxVars
    PROVE  OutboxInv'
<1> USE DEF OutboxInv, OutboxTypeOK, OutcomeOfCurrent, CompletedWasPerformed
<1>1. ASSUME NEW o \in Op, Enqueue(o) PROVE OutboxInv'
  BY <1>1 DEF Enqueue, IsCurrent
<1>2. ASSUME NEW w \in Worker, ClaimWukongOutbox(w) PROVE OutboxInv'
  <2>1. OutcomeOfCurrent'
    BY <1>2 DEF ClaimWukongOutbox, ClaimAs, IsCurrent
  <2>2. CompletedWasPerformed'
    BY <1>2 DEF ClaimWukongOutbox, ClaimAs
  <2> QED BY <2>1, <2>2
<1>3. ASSUME NEW w \in Worker, Execute(w) PROVE OutboxInv'
  <2>1. PICK i \in Row :
          /\ IsCurrent(w, i)
          /\ outcome' \in {[outcome EXCEPT ![w] = o] : o \in {"ok", "retry", "rejected"}}
          /\ outcome' = [outcome EXCEPT ![w] = "ok"] => i \in performed'
          /\ performed \subseteq performed'
          /\ UNCHANGED <<op, status, leased, backoff, batch>>
    BY <1>3 DEF Execute
  <2>2. \A j \in Row : IsCurrent(w, j) => j = i
    BY <2>1 DEF IsCurrent, Row
  <2>3. OutcomeOfCurrent'
    BY <2>1, <2>2 DEF IsCurrent
  <2> QED BY <2>1, <2>3
<1>4. ASSUME NEW w \in Worker, Record(w) PROVE OutboxInv'
  <2>1. PICK i \in Row :
          /\ IsCurrent(w, i)
          /\ outcome[w] # "none"
          /\ status' = [status EXCEPT ![i] = [ok |-> "completed", retry |-> "pending",
                                              rejected |-> "failed"][outcome[w]]]
          /\ batch' = [batch EXCEPT ![w] = @ \ {i}]
          /\ outcome' = [outcome EXCEPT ![w] = "none"]
          /\ UNCHANGED <<op, performed, faults>>
    BY <1>4 DEF Record, RecordAs
  <2>2. status'[i] = "completed" => outcome[w] = "ok"
    BY <2>1 DEF Outcome
  <2>3. CompletedWasPerformed'
    BY <2>1, <2>2
  <2>4. OutcomeOfCurrent'
    BY <2>1 DEF IsCurrent
  <2> QED BY <2>3, <2>4
<1>5. ASSUME NEW w \in Worker, Abandon(w) PROVE OutboxInv'
  BY <1>5 DEF Abandon, IsCurrent
<1>6. ASSUME NEW i \in Row, LeaseExpires(i) \/ BackoffElapses(i) PROVE OutboxInv'
  BY <1>6 DEF LeaseExpires, BackoffElapses, IsCurrent
<1>7. CASE UNCHANGED outboxVars
  BY <1>7 DEF outboxVars, IsCurrent
<1> QED BY <1>1, <1>2, <1>3, <1>4, <1>5, <1>6, <1>7 DEF OutboxNext

\* A completed row has taken effect: CompleteWukongOutbox never gets ahead of
\* the call it reports, for any number of workers and any loss of leases.
THEOREM OutboxCompletesPerformed == OutboxSpec => []CompletedWasPerformed
<1>1. OutboxInit => OutcomeOfCurrent /\ CompletedWasPerformed
  BY DEF OutboxInit, OutcomeOfCurrent, CompletedWasPerformed
<1>2. OutboxTypeOK' /\ OutboxInv /\ [OutboxNext]_outboxVars => OutboxInv'
  BY OutboxInvInductive
<1> QED BY <1>1, <1>2, OutboxTypeCorrect, PTL DEF OutboxSpec, OutboxInv
---------------------------------------------------------------------------
LEMMA BatchInductive ==
    ASSUME OneWorker, OutboxTypeOK, BatchIsProcessing, [OutboxNext]_outboxVars
    PROVE  BatchIsProcessing'
<1> USE DEF OneWorker, BatchIsProcessing, OutboxTypeOK
<1>1. ASSUME NEW o \in Op, Enqueue(o) PROVE BatchIsProcessing'
  BY <1>1 DEF Enqueue
<1>2. ASSUME NEW w \in Worker, ClaimWukongOutbox(w) PROVE BatchIsProcessing'
  BY <1>2 DEF ClaimWukongOutbox, ClaimAs, Picked
<1>3. ASSUME NEW w \in Worker, Execute(w) PROVE BatchIsProcessing'
  BY <1>3 DEF Execute
<1>4. ASSUME NEW w \in Worker, Record(w) PROVE BatchIsProcessing'
  BY <1>4 DEF Record, RecordAs
<1>5. ASSUME NEW w \in Worker, Abandon(w) PROVE BatchIsProcessing'
  BY <1>5 DEF Abandon
<1>6. ASSUME NEW i \in Row, LeaseExpires(i) \/ BackoffElapses(i)
      PROVE  BatchIsProcessing'
  BY <1>6 DEF LeaseExpires, BackoffElapses
<1>7. CASE UNCHANGED outboxVars
  BY <1>7 DEF outboxVars
<1> QED BY <1>1, <1>2, <1>3, <1>4, <1>5, <1>6, <1>7 DEF OutboxNext

THEOREM OneWorkerInvariant ==
    ASSUME OneWorker
    PROVE  OutboxSpec => []OneWorkerInv
<1>1. OutboxInit => OutcomeOfCurrent /\ CompletedWasPerformed /\ BatchIsProcessing
  BY DEF OutboxInit, OutcomeOfCurrent, CompletedWasPerformed, BatchIsProcessing
<1>2. OutboxTypeOK' /\ OutboxInv /\ [OutboxNext]_outboxVars => OutboxInv'
  BY OutboxInvInductive
<1>3. OneWorkerInv /\ OutboxInv' /\ [OutboxNext]_outboxVars => OneWorkerInv'
  BY BatchInductive DEF OneWorkerInv, OutboxInv
<1> QED
  BY <1>1, <1>2, <1>3, OutboxTypeCorrect, PTL DEF OutboxSpec, OutboxInv, OneWorkerInv

\* With one worker a completed or failed row is final.
THEOREM OutboxSettlesForever ==
    ASSUME OneWorker
    PROVE  OutboxSpec => SettledForever
<1> DEFINE Kept == \A i \in Row : Settled(i) => status'[i] = status[i]
<1>1. OneWorkerInv /\ [OutboxNext]_outboxVars => [Kept]_outboxVars
  <2> SUFFICES ASSUME OneWorkerInv, OutboxNext, NEW i \in Row, Settled(i)
               PROVE  status'[i] = status[i]
    OBVIOUS
  <2> USE DEF OneWorkerInv, OutboxInv, OutboxTypeOK, BatchIsProcessing, Settled
  <2>1. ASSUME NEW o \in Op, Enqueue(o) PROVE status'[i] = status[i]
    BY <2>1 DEF Enqueue
  <2>2. ASSUME NEW w \in Worker, ClaimWukongOutbox(w) PROVE status'[i] = status[i]
    BY <2>2 DEF ClaimWukongOutbox, ClaimAs, Picked, Claimable
  <2>3. ASSUME NEW w \in Worker, Record(w) PROVE status'[i] = status[i]
    BY <2>3 DEF Record, RecordAs, IsCurrent
  <2>4. ASSUME NEW w \in Worker, Execute(w) \/ Abandon(w)
        PROVE  status'[i] = status[i]
    BY <2>4 DEF Execute, Abandon
  <2>5. ASSUME NEW j \in Row, LeaseExpires(j) \/ BackoffElapses(j)
        PROVE  status'[i] = status[i]
    BY <2>5 DEF LeaseExpires, BackoffElapses
  <2> QED BY <2>1, <2>2, <2>3, <2>4, <2>5 DEF OutboxNext
<1> QED BY <1>1, OneWorkerInvariant, PTL DEF OutboxSpec, SettledForever
---------------------------------------------------------------------------
LEMMA OutboxStepRefines ==
    ASSUME OneWorkerInv, OneWorkerInv', [OutboxNext]_outboxVars
    PROVE  [Promise!JobNext]_(Promise!jobVars)
<1> USE DEF OneWorkerInv, OutboxInv, OutboxTypeOK, BatchIsProcessing
<1> DEFINE Has(s) == {j \in Row : status[j] = s}
           Sub   == {j \in Row : status[j] # "absent"}
<1>1. ASSUME NEW o \in Op, Enqueue(o) PROVE Promise!JobNext
  <2>1. PICK i \in Row : /\ status[i] = "absent"
                         /\ status' = [status EXCEPT ![i] = "pending"]
                         /\ performed' = performed
    BY <1>1 DEF Enqueue
  <2>2. /\ Sub' = Sub \union {i} /\ i \notin Sub
        /\ Has("completed")' = Has("completed") /\ Has("failed")' = Has("failed")
    BY <2>1
  <2>3. Promise!Submit(i)
    BY <2>1, <2>2 DEF Promise!Submit
  <2> QED BY <2>3 DEF Promise!JobNext
<1>2. ASSUME NEW w \in Worker, ClaimWukongOutbox(w) PROVE UNCHANGED Promise!jobVars
  <2>1. /\ \A j \in Row : \/ status'[j] = status[j]
                          \/ /\ status[j] \in {"pending", "processing"}
                             /\ status'[j] = "processing"
        /\ performed' = performed
    BY <1>2 DEF ClaimWukongOutbox, ClaimAs, Picked, Claimable
  <2>2. /\ Sub' = Sub /\ Has("completed")' = Has("completed")
        /\ Has("failed")' = Has("failed")
    BY <2>1
  <2> QED BY <2>1, <2>2 DEF Promise!jobVars
<1>3. ASSUME NEW w \in Worker, Execute(w)
      PROVE  Promise!JobNext \/ UNCHANGED Promise!jobVars
  <2>1. PICK i \in Row : /\ IsCurrent(w, i)
                         /\ status' = status
                         /\ performed' \in {performed, performed \union {i}}
    BY <1>3 DEF Execute
  <2>2. Sub' = Sub /\ Has("completed")' = Has("completed") /\ Has("failed")' = Has("failed")
    BY <2>1
  <2>3. CASE performed' = performed
    BY <2>2, <2>3 DEF Promise!jobVars
  <2>4. CASE performed' = performed \union {i}
    <3>1. status[i] = "processing"
      BY <2>1 DEF IsCurrent
    <3>2. Promise!Do(i)
      BY <2>2, <2>4, <3>1 DEF Promise!Do, Promise!Open
    <3> QED BY <3>2 DEF Promise!JobNext
  <2> QED BY <2>1, <2>3, <2>4
<1>4. ASSUME NEW w \in Worker, Record(w)
      PROVE  Promise!JobNext \/ UNCHANGED Promise!jobVars
  <2>1. PICK i \in Row :
          /\ IsCurrent(w, i)
          /\ outcome[w] # "none"
          /\ status' = [status EXCEPT ![i] = [ok |-> "completed", retry |-> "pending",
                                              rejected |-> "failed"][outcome[w]]]
          /\ performed' = performed
    BY <1>4 DEF Record, RecordAs
  <2>2. status[i] = "processing"
    BY <2>1 DEF IsCurrent
  <2>3. CASE outcome[w] = "ok"
    <3>1. status' = [status EXCEPT ![i] = "completed"] /\ i \in performed
      BY <2>1, <2>3 DEF OutcomeOfCurrent
    <3>2. /\ Sub' = Sub /\ Has("completed")' = Has("completed") \union {i}
          /\ Has("failed")' = Has("failed")
      BY <2>2, <3>1
    <3>3. Promise!Acknowledge(i)
      BY <2>1, <2>2, <3>1, <3>2 DEF Promise!Acknowledge, Promise!Open
    <3> QED BY <3>3 DEF Promise!JobNext
  <2>4. CASE outcome[w] = "rejected"
    <3>1. status' = [status EXCEPT ![i] = "failed"]
      BY <2>1, <2>4
    <3>2. /\ Sub' = Sub /\ Has("completed")' = Has("completed")
          /\ Has("failed")' = Has("failed") \union {i}
      BY <2>2, <3>1
    <3>3. Promise!Refuse(i)
      BY <2>1, <2>2, <3>2 DEF Promise!Refuse, Promise!Open
    <3> QED BY <3>3 DEF Promise!JobNext
  <2>5. CASE outcome[w] = "retry"
    <3>1. status' = [status EXCEPT ![i] = "pending"]
      BY <2>1, <2>5
    <3>2. /\ Sub' = Sub /\ Has("completed")' = Has("completed")
          /\ Has("failed")' = Has("failed")
      BY <2>2, <3>1
    <3> QED BY <2>1, <3>2 DEF Promise!jobVars
  <2> QED BY <2>1, <2>3, <2>4, <2>5 DEF Outcome
<1>5. ASSUME \/ \E w \in Worker : Abandon(w)
             \/ \E i \in Row : LeaseExpires(i) \/ BackoffElapses(i)
             \/ UNCHANGED outboxVars
      PROVE  UNCHANGED Promise!jobVars
  BY <1>5 DEF Abandon, LeaseExpires, BackoffElapses, outboxVars, Promise!jobVars
<1> QED BY <1>1, <1>2, <1>3, <1>4, <1>5 DEF OutboxNext

\* With one worker the table implements AtLeastOnce: every insert, execution
\* and verdict is a step of the promise, and nothing else is visible in it.
THEOREM OutboxKeepsPromise ==
    ASSUME OneWorker
    PROVE  OutboxSpec => DeliversAtLeastOnce
<1>1. OutboxInit => Promise!JobInit
  BY DEF OutboxInit, Promise!JobInit
<1>2. OneWorkerInv /\ OneWorkerInv' /\ [OutboxNext]_outboxVars
        => [Promise!JobNext]_(Promise!jobVars)
  BY OutboxStepRefines
<1> QED
  BY <1>1, <1>2, OneWorkerInvariant, PTL
  DEF OutboxSpec, DeliversAtLeastOnce, Promise!JobSpec
===========================================================================
