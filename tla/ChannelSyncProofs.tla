------------------------- MODULE ChannelSyncProofs -------------------------
(***************************************************************************)
(* Proofs that one server keeps WuKongIM in step with the database, for    *)
(* every number of channels, changes and faults.  The assumptions are the  *)
(* ones the property needs: one server (its lock excludes its own two      *)
(* processes only), no call that arrives after its client gave it up, and, *)
(* for QuietInSync, no change without an outbox row.                       *)
(***************************************************************************)
EXTENDS ChannelSync, WukongOutboxProofs

\* Process p has read part x, has written part x.
HasRead(p, x) ==
    \/ stage[p] = "readMembers" /\ x = "channel"
    \/ stage[p] = "readLists" /\ x \in {"channel", "members"}
    \/ stage[p] \in {"upsert", "setAllow", "setDeny"}
HasWritten(p, x) ==
    \/ stage[p] = "setAllow" /\ x \in {"channel", "members"}
    \/ stage[p] = "setDeny" /\ x \in {"channel", "members", "allow"}

\* A row exists exactly when it has an operation, and only such rows are
\* claimed; a process in a sync has a channel, and a worker in a sync a row that asks
\* for it and no result yet.
SyncPlace ==
    /\ \A i \in Row : status[i] = "absent" <=> op[i] = NoOp
    /\ \A w \in Worker : \A i \in batch[w] : status[i] # "absent"
    /\ \A p \in Process : stage[p] # "idle" => chan[p] \in Channel
    /\ \A w \in Worker :
          /\ batch[w] = {} => outcome[w] = "none"
          /\ stage[<<w, "outbox">>] # "idle" =>
                /\ outcome[w] = "none"
                /\ \E i \in Row : IsCurrent(w, i) /\ op[i] = chan[<<w, "outbox">>]

\* The lock: the two processes of a server are never at the same channel.
LockExcludes ==
    \A w \in Worker :
        stage[<<w, "outbox">>] # "idle" /\ stage[<<w, "reconciler">>] # "idle"
          => chan[<<w, "outbox">>] # chan[<<w, "reconciler">>]

\* What a process read is at least as new as what WuKongIM has, and nothing
\* is newer than the database.
ReadsAreFresh ==
    /\ \A c \in Channel, x \in Part : wk[c][x] <= db[c][x]
    /\ \A p \in Process, x \in Part :
          HasRead(p, x) => /\ wk[chan[p]][x] <= got[p][x]
                           /\ got[p][x] <= db[chan[p]][x]

\* Only the holder of the lock writes: what it wrote is still there.
WritesStay ==
    \A p \in Process, x \in Part :
        HasWritten(p, x) => wk[chan[p]][x] = got[p][x]

\* Row i will still bring part x of channel c up to date: it is not completed
\* and the worker, if it is at it, has not read the part too early.
Repairs(i, c, x) ==
    /\ op[i] = c
    /\ status[i] \in {"pending", "processing", "failed"}
    /\ \A w \in Worker : IsCurrent(w, i) =>
          /\ outcome[w] # "ok"
          /\ HasRead(<<w, "outbox">>, x) =>
                /\ got[<<w, "outbox">>][x] = db[c][x]
                /\ ~HasWritten(<<w, "outbox">>, x)

\* Whatever is out of date, in WuKongIM or in the hands of a process, has a
\* row that will repair it.
StaleIsOwed ==
    /\ \A c \in Channel, x \in Part :
          wk[c][x] # db[c][x] => \E i \in Row : Repairs(i, c, x)
    /\ \A p \in Process, c \in Channel, x \in Part :
          HasRead(p, x) /\ chan[p] = c /\ got[p][x] # db[c][x]
            => \E i \in Row : Repairs(i, c, x)

ServerInv ==
    /\ ChannelTypeOK
    /\ BatchIsProcessing
    /\ SyncPlace
    /\ LockExcludes
    /\ ReadsAreFresh
    /\ WritesStay
    /\ late = {}

NoLate == AllowLate = FALSE
NoSilent == MaxSilent = 0
---------------------------------------------------------------------------
LEMMA OutboxStepTypes ==
    ASSUME ChannelTypeOK, OutboxNext \/ UNCHANGED outboxVars
    PROVE  OutboxTypeOK'
BY OutboxTypeInductive DEF ChannelTypeOK

LEMMA TypeInductive ==
    ASSUME ChannelTypeOK, SyncPlace, [ChannelNext]_channelVars
    PROVE  ChannelTypeOK'
<1> USE ChannelAssumption DEF ChannelTypeOK, Versions, Stage, Channel, syncVars
<1>1. ASSUME NEW c \in Channel, Change(c) PROVE ChannelTypeOK'
  <2>1. OutboxTypeOK'
    BY <1>1, OutboxStepTypes DEF Change, OutboxNext
  <2>2. PICK S \in ChangeSets : Bump(c, S)
    BY <1>1 DEF Change
  <2>3. db' \in [Channel -> Versions]
    BY <2>2 DEF Bump
  <2> QED BY <1>1, <2>1, <2>3 DEF Change
<1>2. ASSUME NEW c \in Channel, SilentChange(c) PROVE ChannelTypeOK'
  <2>1. OutboxTypeOK'
    BY <1>2, OutboxStepTypes DEF SilentChange
  <2>2. db' \in [Channel -> Versions]
    BY <1>2 DEF SilentChange, Bump
  <2> QED BY <1>2, <2>1, <2>2 DEF SilentChange
<1>3. ASSUME NEW w \in Worker, Claim(w) \/ Report(w) \/ ReportLost(w) PROVE ChannelTypeOK'
  <2>1. OutboxTypeOK'
    BY <1>3, OutboxStepTypes DEF Claim, Report, ReportLost, OutboxNext
  <2> QED BY <1>3, <2>1 DEF Claim, Report, ReportLost, OutboxOnly
<1>4. ASSUME NEW i \in Row, Expire(i) \/ Elapse(i) PROVE ChannelTypeOK'
  <2>1. OutboxTypeOK'
    BY <1>4, OutboxStepTypes DEF Expire, Elapse, OutboxNext
  <2> QED BY <1>4, <2>1 DEF Expire, Elapse, OutboxOnly
<1>5. ASSUME NEW w \in Worker, BeginRow(w) PROVE ChannelTypeOK'
  <2>1. OutboxTypeOK'
    BY <1>5, OutboxStepTypes DEF BeginRow
  <2>2. PICK i \in Row : Begin(<<w, "outbox">>, op[i])
    BY <1>5 DEF BeginRow
  <2>3. op[i] \in Channel \union {NoOp}
    BY DEF OutboxTypeOK
  <2> QED BY <1>5, <2>1, <2>2, <2>3 DEF BeginRow, Begin, Start
<1>6. ASSUME NEW w \in Worker, NEW c \in Channel, BeginReconcile(w, c) PROVE ChannelTypeOK'
  <2>1. OutboxTypeOK'
    BY <1>6, OutboxStepTypes DEF BeginReconcile
  <2> QED BY <1>6, <2>1 DEF BeginReconcile, Begin, Start
<1>7. ASSUME NEW p \in Process, Load(p) PROVE ChannelTypeOK'
  <2>1. OutboxTypeOK'
    BY <1>7, OutboxStepTypes DEF Load
  <2>2. chan[p] \in Channel
    BY <1>7 DEF Load, Reads, SyncPlace
  <2>3. got' \in [Process -> Versions]
    BY <1>7, <2>2 DEF Load
  <2>4. After(stage[p]) \in Stage
    BY DEF After
  <2> QED BY <1>7, <2>1, <2>3, <2>4 DEF Load
<1>8. ASSUME NEW p \in Process, stage[p] # "idle", Land(p)
      PROVE  wk' \in [Channel -> Versions]
  <2>1. chan[p] \in Channel
    BY <1>8 DEF SyncPlace
  <2> QED BY <1>8, <2>1 DEF Land, Applied
<1>9. ASSUME NEW p \in Process, NEW r \in Outcome, Return(p, r)
      PROVE  /\ stage' \in [Process -> Stage]
             /\ chan' \in [Process -> Channel \union {NoOp}]
             /\ got' \in [Process -> Versions]
             /\ outcome' \in [Worker -> Outcome]
  BY <1>9 DEF Return, Unchanged, OutboxTypeOK, Process
<1>10. ASSUME NEW p \in Process, Apply(p) PROVE ChannelTypeOK'
  <2>1. OutboxTypeOK'
    BY <1>10, OutboxStepTypes DEF Apply
  <2>2. stage' \in [Process -> Stage]
    BY <1>10 DEF Apply, After
  <2> QED BY <1>8, <1>10, <2>1, <2>2 DEF Apply
<1>11. ASSUME NEW p \in Process, ApplyLast(p) PROVE ChannelTypeOK'
  <2>1. Return(p, "ok") /\ Land(p) /\ stage[p] # "idle"
    BY <1>11 DEF ApplyLast
  <2>2. performed' \subseteq Row
    BY <1>11 DEF ApplyLast, OutboxTypeOK
  <2> QED BY <1>8, <1>9, <1>11, <2>1, <2>2 DEF ApplyLast, OutboxTypeOK, Outcome
<1>12. ASSUME NEW p \in Process, SyncFails(p) PROVE ChannelTypeOK'
  <2>1. PICK r \in {"retry", "rejected"} :
          /\ stage[p] # "idle"
          /\ faults' = faults + 1
          /\ Return(p, r)
          /\ \/ UNCHANGED <<wk, late>>
             \/ Land(p) /\ UNCHANGED late
             \/ /\ late' = late \union {<<chan[p], Writes(stage[p]), got[p]>>}
                /\ UNCHANGED wk
          /\ UNCHANGED <<op, status, leased, backoff, batch, performed, db, silent>>
    BY <1>12 DEF SyncFails, SyncFailsAs
  <2>2. chan[p] \in Channel /\ Writes(stage[p]) \in SUBSET Part
    BY <2>1 DEF SyncPlace, Writes, Part
  <2>3. late' \subseteq Channel \X (SUBSET Part) \X Versions
    BY <2>1, <2>2
  <2>4. wk' \in [Channel -> Versions]
    BY <1>8, <2>1
  <2> QED BY <1>9, <2>1, <2>3, <2>4 DEF OutboxTypeOK, Outcome
<1>13. ASSUME NEW w \in Worker, Crash(w) PROVE ChannelTypeOK'
  <2>1. wk' \in [Channel -> Versions]
    BY <1>8, <1>13 DEF Crash, Process
  <2>2. OutboxTypeOK'
    BY <1>13 DEF Crash, OutboxTypeOK, Outcome
  <2> QED BY <1>13, <2>1, <2>2 DEF Crash, Unchanged
<1>14. CASE LateArrival
  <2>1. OutboxTypeOK'
    BY <1>14, OutboxStepTypes DEF LateArrival
  <2>2. PICK l \in late : wk' = Applied(l[1], l[2], l[3]) /\ late' = late \ {l}
    BY <1>14 DEF LateArrival
  <2>3. wk' \in [Channel -> Versions]
    BY <2>2 DEF Applied
  <2> QED BY <1>14, <2>1, <2>2, <2>3 DEF LateArrival
<1>15. CASE UNCHANGED channelVars
  BY <1>15, OutboxStepTypes DEF channelVars
<1> QED
  BY <1>1, <1>2, <1>3, <1>4, <1>5, <1>6, <1>7, <1>10, <1>11, <1>12, <1>13, <1>14, <1>15
  DEF ChannelNext
---------------------------------------------------------------------------
LEMMA PlaceInductive ==
    ASSUME ChannelTypeOK, SyncPlace, [ChannelNext]_channelVars
    PROVE  SyncPlace'
<1> USE DEF ChannelTypeOK, OutboxTypeOK, SyncPlace, Channel, Process, Role, syncVars
<1>1. ASSUME NEW c \in Channel, Change(c) PROVE SyncPlace'
  <2>1. PICK j \in Row : /\ status[j] = "absent"
                         /\ status' = [status EXCEPT ![j] = "pending"]
                         /\ op' = [op EXCEPT ![j] = c]
                         /\ UNCHANGED <<batch, outcome, stage, chan>>
    BY <1>1 DEF Change, Enqueue
  <2>2. \A w \in Worker, i \in Row : IsCurrent(w, i) => i # j
    BY <2>1 DEF IsCurrent
  <2> QED BY <2>1, <2>2, ChannelAssumption, OutboxAssumption DEF IsCurrent
<1>2. ASSUME NEW c \in Channel, SilentChange(c) PROVE SyncPlace'
  BY <1>2 DEF SilentChange, outboxVars, IsCurrent
<1>3. ASSUME NEW w \in Worker, Claim(w) PROVE SyncPlace'
  BY <1>3 DEF Claim, ClaimWukongOutbox, ClaimAs, Picked, Claimable, OutboxOnly, IsCurrent
<1>4. ASSUME NEW w \in Worker, Report(w) PROVE SyncPlace'
  <2>1. PICK j \in Row :
          /\ j \in batch[w]
          /\ outcome[w] # "none"
          /\ status' = [status EXCEPT ![j] = [ok |-> "completed", retry |-> "pending",
                                              rejected |-> "failed"][outcome[w]]]
          /\ batch' = [batch EXCEPT ![w] = @ \ {j}]
          /\ outcome' = [outcome EXCEPT ![w] = "none"]
          /\ UNCHANGED <<op, stage, chan>>
    BY <1>4 DEF Report, Record, RecordAs, OutboxOnly, IsCurrent
  <2>2. status'[j] # "absent" /\ \A i \in Row : i # j => status'[i] = status[i]
    BY <2>1 DEF Outcome
  <2> QED BY <2>1, <2>2 DEF IsCurrent
<1>5. ASSUME NEW w \in Worker, ReportLost(w) PROVE SyncPlace'
  BY <1>5 DEF ReportLost, Abandon, OutboxOnly, IsCurrent
<1>6. ASSUME NEW i \in Row, Expire(i) \/ Elapse(i) PROVE SyncPlace'
  BY <1>6 DEF Expire, Elapse, LeaseExpires, BackoffElapses, OutboxOnly, IsCurrent
<1>7. ASSUME NEW w \in Worker, BeginRow(w) PROVE SyncPlace'
  <2>1. PICK i \in Row : /\ IsCurrent(w, i)
                         /\ outcome[w] = "none"
                         /\ stage' = [stage EXCEPT ![<<w, "outbox">>] = "readChannel"]
                         /\ chan' = [chan EXCEPT ![<<w, "outbox">>] = op[i]]
                         /\ UNCHANGED outboxVars
    BY <1>7 DEF BeginRow, Begin, Start
  <2>2. op[i] \in Channel
    BY <2>1 DEF IsCurrent
  <2> QED BY <2>1, <2>2 DEF outboxVars, IsCurrent
<1>8. ASSUME NEW w \in Worker, NEW c \in Channel, BeginReconcile(w, c) PROVE SyncPlace'
  <2>1. /\ stage' = [stage EXCEPT ![<<w, "reconciler">>] = "readChannel"]
        /\ chan' = [chan EXCEPT ![<<w, "reconciler">>] = c]
        /\ UNCHANGED outboxVars
    BY <1>8 DEF BeginReconcile, Begin, Start
  <2> QED BY <2>1 DEF outboxVars, IsCurrent
<1>9. ASSUME NEW p \in Process, Load(p) \/ Apply(p) PROVE SyncPlace'
  <2>1. /\ stage[p] # "idle"
        /\ stage' = [stage EXCEPT ![p] = After(@)]
        /\ UNCHANGED <<outboxVars, chan>>
    BY <1>9 DEF Load, Apply, Reads
  <2> QED BY <2>1 DEF outboxVars, IsCurrent
<1>10. ASSUME NEW p \in Process, NEW r \in Outcome, stage[p] # "idle", Return(p, r),
              UNCHANGED <<op, status, batch>>
       PROVE  SyncPlace'
  <2>1. PICK w \in Worker, k \in Role : p = <<w, k>>
    OBVIOUS
  <2>2. /\ stage' = [stage EXCEPT ![p] = "idle"]
        /\ chan' = [chan EXCEPT ![p] = NoOp]
    BY <1>10 DEF Return
  <2>3. CASE k = "outbox"
    <3>1. outcome' = [outcome EXCEPT ![w] = r] /\ batch[w] # {}
      BY <1>10, <2>1, <2>3 DEF Return, IsCurrent
    <3> QED BY <1>10, <2>1, <2>2, <2>3, <3>1 DEF IsCurrent
  <2>4. CASE k = "reconciler"
    BY <1>10, <2>1, <2>2, <2>4 DEF Return, IsCurrent
  <2> QED BY <2>1, <2>3, <2>4
<1>11. ASSUME NEW p \in Process, ApplyLast(p) PROVE SyncPlace'
  BY <1>10, <1>11 DEF ApplyLast, Outcome
<1>12. ASSUME NEW p \in Process, SyncFails(p) PROVE SyncPlace'
  BY <1>10, <1>12 DEF SyncFails, SyncFailsAs, Outcome
<1>13. ASSUME NEW w \in Worker, Crash(w) PROVE SyncPlace'
  BY <1>13 DEF Crash, IsCurrent
<1>14. CASE LateArrival
  BY <1>14 DEF LateArrival, outboxVars, IsCurrent
<1>15. CASE UNCHANGED channelVars
  BY <1>15 DEF channelVars, outboxVars, IsCurrent
<1> QED
  BY <1>1, <1>2, <1>3, <1>4, <1>5, <1>6, <1>7, <1>8, <1>9, <1>11, <1>12, <1>13, <1>14, <1>15
  DEF ChannelNext

\* Every variable of the synchronisation keeps its type, for any number of
\* servers, with late calls and silent changes.
THEOREM ChannelTypeCorrect == ChannelSpec => []ChannelTypeOK
<1>1. ChannelInit => ChannelTypeOK /\ SyncPlace
  BY OutboxAssumption, ChannelAssumption
  DEF ChannelInit, OutboxInit, ChannelTypeOK, OutboxTypeOK, SyncPlace, Status, Outcome, Versions,
      Unchanged, Stage, Channel, Part, Process, Role
<1>2. ChannelTypeOK /\ SyncPlace /\ [ChannelNext]_channelVars => ChannelTypeOK' /\ SyncPlace'
  BY TypeInductive, PlaceInductive
<1> QED BY <1>1, <1>2, PTL DEF ChannelSpec
---------------------------------------------------------------------------
\* What a step of p does to its own place in the sync.
LEMMA LoadReads ==
    ASSUME ChannelTypeOK, NEW p \in Process, Load(p)
    PROVE  /\ stage[p] \in {"readChannel", "readMembers", "readLists"}
           /\ \A x \in Part : HasRead(p, x)' =>
                 IF HasRead(p, x) THEN got'[p][x] = got[p][x]
                                  ELSE got'[p][x] = db[chan[p]][x]
           /\ \A x \in Part : ~HasWritten(p, x)'
           /\ \A q \in Process : q # p => stage'[q] = stage[q] /\ got'[q] = got[q]
<1>1. stage[p] \in {"readChannel", "readMembers", "readLists"}
  BY DEF Load, Reads, ChannelTypeOK
<1>2. /\ stage' = [stage EXCEPT ![p] = After(stage[p])]
      /\ got'[p] = [x \in Part |->
             IF x \in Reads(stage[p]) THEN db[chan[p]][x] ELSE got[p][x]]
      /\ \A q \in Process : q # p => stage'[q] = stage[q] /\ got'[q] = got[q]
  BY DEF Load, ChannelTypeOK
<1>3. \A x \in Part : HasRead(p, x)' => HasRead(p, x) \/ x \in Reads(stage[p])
  BY <1>1, <1>2 DEF HasRead, Reads, After, ChannelTypeOK, Part
<1>4. \A x \in Part : HasRead(p, x) => x \notin Reads(stage[p])
  BY <1>1 DEF HasRead, Reads
<1>5. \A x \in Part : ~HasWritten(p, x)'
  BY <1>1, <1>2 DEF HasWritten, After, ChannelTypeOK
<1> QED BY <1>1, <1>2, <1>3, <1>4, <1>5

LEMMA ApplyWrites ==
    ASSUME ChannelTypeOK, NEW p \in Process, stage[p] \in {"upsert", "setAllow", "setDeny"}
    PROVE  /\ \A x \in Part : HasRead(p, x)
           /\ \A x \in Part : HasWritten(p, x) => x \notin Writes(stage[p])
           /\ stage[p] = "setDeny" => \A x \in Part : HasWritten(p, x) \/ x \in Writes(stage[p])
           /\ stage[p] # "setDeny" => After(stage[p]) \in {"setAllow", "setDeny"}
           /\ stage' = [stage EXCEPT ![p] = After(@)] /\ stage[p] # "setDeny" =>
                 \A x \in Part : HasWritten(p, x)' <=> HasWritten(p, x) \/ x \in Writes(stage[p])
BY DEF HasRead, HasWritten, Writes, After, ChannelTypeOK, Part

\* Landing the current call of p changes p's channel only, to what p has read.
LEMMA LandEffect ==
    ASSUME ChannelTypeOK, SyncPlace, NEW p \in Process, stage[p] # "idle", Land(p)
    PROVE  /\ chan[p] \in Channel
           /\ \A c \in Channel, x \in Part :
                 wk'[c][x] = IF c = chan[p] /\ x \in Writes(stage[p])
                             THEN got[p][x] ELSE wk[c][x]
           /\ \A x \in Part : x \in Writes(stage[p]) => HasRead(p, x)
<1>1. chan[p] \in Channel
  BY DEF SyncPlace
<1>2. \A x \in Part : x \in Writes(stage[p]) => HasRead(p, x)
  BY DEF Writes, HasRead, ChannelTypeOK
<1> QED BY <1>1, <1>2 DEF Land, Applied, ChannelTypeOK, Versions

\* With one server, two different processes at work are at different channels.
LEMMA ProcessesApart ==
    ASSUME OneWorker, LockExcludes, NEW p \in Process, NEW q \in Process, p # q,
           stage[p] # "idle", stage[q] # "idle"
    PROVE  chan[p] # chan[q]
<1>1. PICK v \in Worker, r \in Role : p = <<v, r>>
  BY DEF Process
<1>2. PICK w \in Worker, k \in Role : q = <<w, k>>
  BY DEF Process
<1>3. v = w
  BY DEF OneWorker
<1>4. r # k
  BY <1>1, <1>2, <1>3
<1>5. CASE r = "outbox" /\ k = "reconciler"
  BY <1>1, <1>2, <1>3, <1>5 DEF LockExcludes
<1>6. CASE r = "reconciler" /\ k = "outbox"
  BY <1>1, <1>2, <1>3, <1>6 DEF LockExcludes
<1> QED BY <1>4, <1>5, <1>6 DEF Role

LEMMA LockInductive ==
    ASSUME ChannelTypeOK, LockExcludes, [ChannelNext]_channelVars
    PROVE  LockExcludes'
<1> USE DEF ChannelTypeOK, LockExcludes, Process, Role, syncVars
<1>1. ASSUME NEW w \in Worker, NEW r \in Role, NEW c, Begin(<<w, r>>, c)
      PROVE  LockExcludes'
  <2>1. /\ stage' = [stage EXCEPT ![<<w, r>>] = "readChannel"]
        /\ chan' = [chan EXCEPT ![<<w, r>>] = c]
        /\ \A k \in Role : stage[<<w, k>>] # "idle" => chan[<<w, k>>] # c
    BY <1>1 DEF Begin, Start, Locked, Syncing
  <2> QED BY <2>1
<1>2. ASSUME NEW p \in Process, Load(p) \/ Apply(p) PROVE LockExcludes'
  BY <1>2 DEF Load, Apply, Reads
<1>3. ASSUME NEW p \in Process, ApplyLast(p) \/ SyncFails(p) PROVE LockExcludes'
  BY <1>3 DEF ApplyLast, SyncFails, SyncFailsAs, Return
<1>4. ASSUME NEW w \in Worker, Crash(w) PROVE LockExcludes'
  BY <1>4 DEF Crash
<1>5. ASSUME UNCHANGED <<stage, chan>> PROVE LockExcludes'
  BY <1>5
<1>6. ASSUME NEW w \in Worker, BeginRow(w) PROVE LockExcludes'
  BY <1>1, <1>6 DEF BeginRow
<1>7. ASSUME NEW w \in Worker, NEW c \in Channel, BeginReconcile(w, c) PROVE LockExcludes'
  BY <1>1, <1>7 DEF BeginReconcile
<1>8. ASSUME \/ \E c \in Channel : Change(c) \/ SilentChange(c)
             \/ \E w \in Worker : Claim(w) \/ Report(w) \/ ReportLost(w)
             \/ \E i \in Row : Expire(i) \/ Elapse(i)
             \/ LateArrival \/ UNCHANGED channelVars
      PROVE  UNCHANGED <<stage, chan>>
  BY <1>8 DEF Change, SilentChange, Claim, Report, ReportLost, Expire, Elapse,
              OutboxOnly, LateArrival, channelVars
<1> QED BY <1>2, <1>3, <1>4, <1>5, <1>6, <1>7, <1>8 DEF ChannelNext
---------------------------------------------------------------------------
LEMMA BatchKept ==
    ASSUME OneWorker, ChannelTypeOK, BatchIsProcessing, [ChannelNext]_channelVars
    PROVE  BatchIsProcessing'
<1>1. ASSUME OutboxNext \/ UNCHANGED outboxVars PROVE BatchIsProcessing'
  BY <1>1, BatchInductive DEF ChannelTypeOK
<1>2. ASSUME NEW c \in Channel, Change(c) \/ SilentChange(c) PROVE BatchIsProcessing'
  BY <1>1, <1>2 DEF Change, SilentChange, OutboxNext, Channel
<1>3. ASSUME NEW w \in Worker, Claim(w) \/ Report(w) \/ ReportLost(w)
      PROVE  BatchIsProcessing'
  BY <1>1, <1>3 DEF Claim, Report, ReportLost, OutboxNext
<1>4. ASSUME NEW i \in Row, Expire(i) \/ Elapse(i) PROVE BatchIsProcessing'
  BY <1>1, <1>4 DEF Expire, Elapse, OutboxNext
<1>5. ASSUME NEW w \in Worker, BeginRow(w) PROVE BatchIsProcessing'
  BY <1>1, <1>5 DEF BeginRow
<1>6. ASSUME NEW w \in Worker, NEW c \in Channel, BeginReconcile(w, c)
      PROVE  BatchIsProcessing'
  BY <1>1, <1>6 DEF BeginReconcile
<1>7. ASSUME NEW p \in Process, Load(p) \/ Apply(p) PROVE BatchIsProcessing'
  BY <1>1, <1>7 DEF Load, Apply
<1>8. ASSUME NEW p \in Process, ApplyLast(p) \/ SyncFails(p) PROVE BatchIsProcessing'
  BY <1>8 DEF ApplyLast, SyncFails, SyncFailsAs, BatchIsProcessing
<1>9. ASSUME NEW w \in Worker, Crash(w) PROVE BatchIsProcessing'
  BY <1>9 DEF Crash, BatchIsProcessing, ChannelTypeOK, OutboxTypeOK
<1>10. ASSUME LateArrival \/ UNCHANGED channelVars PROVE BatchIsProcessing'
  BY <1>1, <1>10 DEF LateArrival, channelVars
<1> QED
  BY <1>2, <1>3, <1>4, <1>5, <1>6, <1>7, <1>8, <1>9, <1>10 DEF ChannelNext

\* Landing a call moves WuKongIM forward, never past the database, and out of
\* the other process's sight.
LEMMA LandSafe ==
    ASSUME OneWorker, ChannelTypeOK, SyncPlace, LockExcludes, ReadsAreFresh,
           NEW p \in Process, stage[p] # "idle", Land(p)
    PROVE  /\ \A c \in Channel, x \in Part :
                 wk[c][x] <= wk'[c][x] /\ wk'[c][x] <= db[c][x]
           /\ \A q \in Process : q # p /\ stage[q] # "idle" =>
                 \A x \in Part : wk'[chan[q]][x] = wk[chan[q]][x]
<1>1. /\ chan[p] \in Channel
      /\ \A c \in Channel, x \in Part :
            wk'[c][x] = IF c = chan[p] /\ x \in Writes(stage[p])
                        THEN got[p][x] ELSE wk[c][x]
      /\ \A x \in Part : x \in Writes(stage[p]) => HasRead(p, x)
  BY LandEffect
<1>2. \A c \in Channel, x \in Part : wk[c][x] <= wk'[c][x] /\ wk'[c][x] <= db[c][x]
  <2> SUFFICES ASSUME NEW c \in Channel, NEW x \in Part
               PROVE  wk[c][x] <= wk'[c][x] /\ wk'[c][x] <= db[c][x]
    OBVIOUS
  <2>1. wk[c][x] \in Nat /\ db[c][x] \in Nat
    BY DEF ChannelTypeOK, Versions
  <2> QED BY <1>1, <2>1 DEF ReadsAreFresh
<1>3. \A q \in Process : q # p /\ stage[q] # "idle" =>
         \A x \in Part : wk'[chan[q]][x] = wk[chan[q]][x]
  <2> SUFFICES ASSUME NEW q \in Process, q # p, stage[q] # "idle", NEW x \in Part
               PROVE  wk'[chan[q]][x] = wk[chan[q]][x]
    OBVIOUS
  <2>1. chan[q] # chan[p] /\ chan[q] \in Channel
    BY ProcessesApart DEF SyncPlace
  <2> QED BY <1>1, <2>1
<1> QED BY <1>2, <1>3

\* What the freshness of reads and writes asks of a step, process by process:
\* it ends or starts a sync, or leaves it alone, or preserves the two facts.
LEMMA FreshStep ==
    ASSUME ChannelTypeOK, ChannelTypeOK', SyncPlace, ReadsAreFresh, WritesStay,
           \A c \in Channel, x \in Part : db[c][x] <= db'[c][x] /\ wk'[c][x] <= db'[c][x],
           \A q \in Process :
              \/ stage'[q] \in {"idle", "readChannel"}
              \/ /\ stage'[q] = stage[q] /\ chan'[q] = chan[q] /\ got'[q] = got[q]
                 /\ \A x \in Part : wk'[chan[q]][x] = wk[chan[q]][x]
              \/ \A x \in Part :
                    /\ HasRead(q, x)' => /\ wk'[chan'[q]][x] <= got'[q][x]
                                         /\ got'[q][x] <= db'[chan'[q]][x]
                    /\ HasWritten(q, x)' => wk'[chan'[q]][x] = got'[q][x]
    PROVE  ReadsAreFresh' /\ WritesStay'
<1> SUFFICES ASSUME NEW q \in Process, NEW x \in Part
             PROVE  /\ HasRead(q, x)' => /\ wk'[chan'[q]][x] <= got'[q][x]
                                         /\ got'[q][x] <= db'[chan'[q]][x]
                    /\ HasWritten(q, x)' => wk'[chan'[q]][x] = got'[q][x]
  BY DEF ReadsAreFresh, WritesStay
<1>1. CASE stage'[q] \in {"idle", "readChannel"}
  BY <1>1 DEF HasRead, HasWritten
<1>2. CASE /\ stage[q] # "idle"
           /\ stage'[q] = stage[q] /\ chan'[q] = chan[q] /\ got'[q] = got[q]
           /\ \A y \in Part : wk'[chan[q]][y] = wk[chan[q]][y]
  <2>1. chan[q] \in Channel
    BY <1>2 DEF SyncPlace
  <2>2. db[chan[q]][x] \in Nat /\ db'[chan[q]][x] \in Nat /\ got[q][x] \in Nat
        /\ wk[chan[q]][x] \in Nat
    BY <2>1 DEF ChannelTypeOK, Versions
  <2>3. (HasRead(q, x)' <=> HasRead(q, x)) /\ (HasWritten(q, x)' <=> HasWritten(q, x))
    BY <1>2 DEF HasRead, HasWritten
  <2>4. db[chan[q]][x] <= db'[chan[q]][x]
    BY <2>1
  <2>5. HasRead(q, x) => wk[chan[q]][x] <= got[q][x] /\ got[q][x] <= db[chan[q]][x]
    BY DEF ReadsAreFresh
  <2>6. HasWritten(q, x) => wk[chan[q]][x] = got[q][x]
    BY DEF WritesStay
  <2> QED BY <1>2, <2>2, <2>3, <2>4, <2>5, <2>6
<1> QED BY <1>1, <1>2
---------------------------------------------------------------------------
\* WuKongIM as seen by a step: it moves forward only.
Forward == \A c \in Channel, x \in Part : wk[c][x] <= wk'[c][x]

\* A call of p lands, or nothing does, while p ends its sync or crashes with
\* its server; the other processes at most end theirs.
LEMMA EndsFresh ==
    ASSUME OneWorker, ChannelTypeOK, ChannelTypeOK', SyncPlace, LockExcludes, ReadsAreFresh, WritesStay,
           UNCHANGED db,
           NEW p \in Process, UNCHANGED wk \/ (stage[p] # "idle" /\ Land(p)),
           stage'[p] = "idle",
           \A q \in Process : q # p =>
              \/ stage'[q] = "idle"
              \/ stage'[q] = stage[q] /\ chan'[q] = chan[q] /\ got'[q] = got[q]
    PROVE  ReadsAreFresh' /\ WritesStay' /\ Forward
<1>1. \A c \in Channel, x \in Part :
         /\ wk[c][x] \in Nat /\ db[c][x] \in Nat
         /\ wk[c][x] <= db[c][x]
  BY DEF ChannelTypeOK, Versions, ReadsAreFresh
<1>2. CASE UNCHANGED wk
  <2>1. Forward
    BY <1>1, <1>2 DEF Forward
  <2>2. \A c \in Channel, x \in Part : db[c][x] <= db'[c][x] /\ wk'[c][x] <= db'[c][x]
    BY <1>1, <1>2
  <2> QED BY <1>2, <2>1, <2>2, FreshStep
<1>3. CASE stage[p] # "idle" /\ Land(p)
  <2>1. /\ \A c \in Channel, x \in Part : wk[c][x] <= wk'[c][x] /\ wk'[c][x] <= db[c][x]
        /\ \A q \in Process : q # p /\ stage[q] # "idle" =>
              \A x \in Part : wk'[chan[q]][x] = wk[chan[q]][x]
    BY <1>3, LandSafe
  <2>2. Forward
    BY <2>1 DEF Forward
  <2>3. \A c \in Channel, x \in Part : db[c][x] <= db'[c][x] /\ wk'[c][x] <= db'[c][x]
    BY <1>1, <2>1
  <2> QED BY <2>1, <2>2, <2>3, FreshStep
<1> QED BY <1>2, <1>3

LEMMA FreshInductive ==
    ASSUME OneWorker, NoLate, ChannelTypeOK, ChannelTypeOK', SyncPlace, LockExcludes,
           ReadsAreFresh, WritesStay, late = {}, [ChannelNext]_channelVars
    PROVE  ReadsAreFresh' /\ WritesStay' /\ late' = {} /\ Forward
<1>0. \A c \in Channel, x \in Part :
         /\ wk[c][x] \in Nat /\ db[c][x] \in Nat
         /\ wk[c][x] <= db[c][x]
  BY DEF ChannelTypeOK, Versions, ReadsAreFresh
<1>1. ASSUME NEW c \in Channel, Change(c) \/ SilentChange(c)
      PROVE  ReadsAreFresh' /\ WritesStay' /\ late' = {} /\ Forward
  <2>1. PICK S : Bump(c, S)
    BY <1>1 DEF Change, SilentChange
  <2>2. UNCHANGED <<wk, stage, chan, got, late>>
    BY <1>1 DEF Change, SilentChange, syncVars
  <2>3. \A d \in Channel, x \in Part : db[d][x] <= db'[d][x]
    BY <1>0, <2>1 DEF Bump, ChannelTypeOK
  <2>4. \A d \in Channel, x \in Part : db'[d][x] \in Nat
    BY DEF ChannelTypeOK, Versions
  <2>5. \A d \in Channel, x \in Part : wk'[d][x] <= db'[d][x]
    BY <1>0, <2>2, <2>3, <2>4
  <2>6. Forward
    BY <1>0, <2>2 DEF Forward
  <2> QED BY <2>2, <2>3, <2>5, <2>6, FreshStep
<1>2. ASSUME UNCHANGED <<db, wk, late>>,
             \A q \in Process :
                \/ stage'[q] \in {"idle", "readChannel"}
                \/ stage'[q] = stage[q] /\ chan'[q] = chan[q] /\ got'[q] = got[q]
      PROVE  ReadsAreFresh' /\ WritesStay' /\ late' = {} /\ Forward
  <2>1. \A d \in Channel, x \in Part : db[d][x] <= db'[d][x] /\ wk'[d][x] <= db'[d][x]
    BY <1>0, <1>2
  <2>2. Forward
    BY <1>0, <1>2 DEF Forward
  <2>3. ReadsAreFresh' /\ WritesStay'
    BY <1>2, <2>1, FreshStep
  <2> QED BY <1>2, <2>2, <2>3
<1>3. ASSUME \/ \E w \in Worker : Claim(w) \/ Report(w) \/ ReportLost(w)
             \/ \E i \in Row : Expire(i) \/ Elapse(i)
             \/ UNCHANGED channelVars
      PROVE  ReadsAreFresh' /\ WritesStay' /\ late' = {} /\ Forward
  <2>1. UNCHANGED <<db, wk, stage, chan, got, late>>
    BY <1>3 DEF Claim, Report, ReportLost, Expire, Elapse, OutboxOnly, syncVars, channelVars
  <2> QED BY <1>2, <2>1
<1>4. ASSUME NEW w \in Worker, BeginRow(w) \/ \E c \in Channel : BeginReconcile(w, c)
      PROVE  ReadsAreFresh' /\ WritesStay' /\ late' = {} /\ Forward
  <2>1. PICK p \in Process : \E c : Start(p, c, "readChannel")
    BY <1>4 DEF BeginRow, BeginReconcile, Begin, Process, Role
  <2>2. UNCHANGED <<db, wk, got, late>>
    BY <1>4 DEF BeginRow, BeginReconcile, Begin
  <2> QED BY <1>2, <2>1, <2>2 DEF Start, ChannelTypeOK
<1>5. ASSUME NEW p \in Process, Load(p)
      PROVE  ReadsAreFresh' /\ WritesStay' /\ late' = {} /\ Forward
  <2>1. UNCHANGED <<db, wk, chan, late>> /\ stage[p] # "idle"
    BY <1>5 DEF Load, Reads
  <2>2. chan[p] \in Channel
    BY <2>1 DEF SyncPlace
  <2>3. /\ \A x \in Part : HasRead(p, x)' =>
              IF HasRead(p, x) THEN got'[p][x] = got[p][x]
                               ELSE got'[p][x] = db[chan[p]][x]
        /\ \A x \in Part : ~HasWritten(p, x)'
        /\ \A q \in Process : q # p => stage'[q] = stage[q] /\ got'[q] = got[q]
    BY <1>5, LoadReads
  <2>4. \A x \in Part :
           /\ HasRead(p, x)' => /\ wk'[chan'[p]][x] <= got'[p][x]
                                /\ got'[p][x] <= db'[chan'[p]][x]
           /\ HasWritten(p, x)' => wk'[chan'[p]][x] = got'[p][x]
    BY <1>0, <2>1, <2>2, <2>3 DEF ReadsAreFresh
  <2>5. \A d \in Channel, x \in Part : db[d][x] <= db'[d][x] /\ wk'[d][x] <= db'[d][x]
    BY <1>0, <2>1
  <2>6. \A q \in Process :
          \/ stage'[q] \in {"idle", "readChannel"}
          \/ /\ stage'[q] = stage[q] /\ chan'[q] = chan[q] /\ got'[q] = got[q]
             /\ \A x \in Part : wk'[chan[q]][x] = wk[chan[q]][x]
          \/ \A x \in Part :
                /\ HasRead(q, x)' => /\ wk'[chan'[q]][x] <= got'[q][x]
                                     /\ got'[q][x] <= db'[chan'[q]][x]
                /\ HasWritten(q, x)' => wk'[chan'[q]][x] = got'[q][x]
    BY <2>1, <2>3, <2>4
  <2>7. ReadsAreFresh' /\ WritesStay'
    BY <2>5, <2>6, FreshStep
  <2> QED BY <1>0, <2>1, <2>7 DEF Forward
<1>6. ASSUME NEW p \in Process, Apply(p)
      PROVE  ReadsAreFresh' /\ WritesStay' /\ late' = {} /\ Forward
  <2>1. /\ stage[p] \in {"upsert", "setAllow"} /\ Land(p)
        /\ stage' = [stage EXCEPT ![p] = After(@)]
        /\ UNCHANGED <<db, chan, got, late>>
    BY <1>6 DEF Apply
  <2>2. /\ \A c \in Channel, x \in Part : wk[c][x] <= wk'[c][x] /\ wk'[c][x] <= db[c][x]
        /\ \A q \in Process : q # p /\ stage[q] # "idle" =>
              \A x \in Part : wk'[chan[q]][x] = wk[chan[q]][x]
    BY <2>1, LandSafe
  <2>3. /\ \A x \in Part : HasRead(p, x)
        /\ \A x \in Part : HasWritten(p, x)' <=> HasWritten(p, x) \/ x \in Writes(stage[p])
    BY <2>1, ApplyWrites
  <2>4. /\ chan[p] \in Channel
        /\ \A x \in Part : wk'[chan[p]][x] = IF x \in Writes(stage[p])
                                             THEN got[p][x] ELSE wk[chan[p]][x]
    BY <2>1, LandEffect
  <2>5. \A x \in Part : /\ wk[chan[p]][x] <= got[p][x] /\ got[p][x] <= db[chan[p]][x]
                        /\ got[p][x] \in Nat
    BY <2>3 DEF ReadsAreFresh, ChannelTypeOK, Versions
  <2>6. \A x \in Part :
           /\ wk'[chan'[p]][x] <= got'[p][x] /\ got'[p][x] <= db'[chan'[p]][x]
           /\ HasWritten(p, x)' => wk'[chan'[p]][x] = got'[p][x]
    BY <2>1, <2>3, <2>4, <2>5 DEF WritesStay
  <2>7. \A d \in Channel, x \in Part : db[d][x] <= db'[d][x] /\ wk'[d][x] <= db'[d][x]
    BY <1>0, <2>1, <2>2
  <2>8. \A q \in Process : q # p =>
           \/ stage'[q] = "idle"
           \/ /\ stage'[q] = stage[q] /\ chan'[q] = chan[q] /\ got'[q] = got[q]
              /\ \A x \in Part : wk'[chan[q]][x] = wk[chan[q]][x]
    BY <2>1, <2>2
  <2>9. ReadsAreFresh' /\ WritesStay'
    BY <2>6, <2>7, <2>8, FreshStep
  <2> QED BY <2>1, <2>2, <2>9 DEF Forward
<1>7. ASSUME NEW p \in Process, ApplyLast(p) \/ SyncFails(p)
      PROVE  ReadsAreFresh' /\ WritesStay' /\ late' = {} /\ Forward
  <2>1. /\ stage[p] # "idle"
        /\ \E r : Return(p, r)
        /\ UNCHANGED wk \/ Land(p)
        /\ UNCHANGED <<db, late>>
    BY <1>7 DEF ApplyLast, SyncFails, SyncFailsAs, NoLate
  <2>2. /\ stage'[p] = "idle"
        /\ \A q \in Process : q # p =>
              stage'[q] = stage[q] /\ chan'[q] = chan[q] /\ got'[q] = got[q]
    BY <2>1 DEF Return, ChannelTypeOK
  <2> QED BY <2>1, <2>2, EndsFresh
<1>8. ASSUME NEW w \in Worker, Crash(w)
      PROVE  ReadsAreFresh' /\ WritesStay' /\ late' = {} /\ Forward
  <2>1. /\ \A q \in Process : \/ stage'[q] = "idle"
                              \/ stage'[q] = stage[q] /\ chan'[q] = chan[q] /\ got'[q] = got[q]
        /\ \A r \in Role : stage'[<<w, r>>] = "idle"
        /\ UNCHANGED <<db, late>>
        /\ UNCHANGED wk \/ \E r \in Role : stage[<<w, r>>] # "idle" /\ Land(<<w, r>>)
    BY <1>8 DEF Crash, Process
  <2>2. PICK p \in Process : /\ stage'[p] = "idle"
                             /\ UNCHANGED wk \/ (stage[p] # "idle" /\ Land(p))
    BY <2>1 DEF Process, Role
  <2> QED BY <2>1, <2>2, EndsFresh
<1>9. ~LateArrival
  BY DEF LateArrival
<1> QED
  BY <1>1, <1>3, <1>4, <1>5, <1>6, <1>7, <1>8, <1>9 DEF ChannelNext

FreshInv == ChannelTypeOK /\ SyncPlace /\ LockExcludes /\ ReadsAreFresh /\ WritesStay /\ late = {}

LEMMA FreshInvariant ==
    ASSUME OneWorker, NoLate
    PROVE  ChannelSpec => []FreshInv
<1>1. ChannelInit => FreshInv
  BY OutboxAssumption, ChannelAssumption
  DEF ChannelInit, OutboxInit, FreshInv, ChannelTypeOK, OutboxTypeOK, SyncPlace, LockExcludes,
      ReadsAreFresh, WritesStay, HasRead, HasWritten, Status, Outcome, Versions,
      Unchanged, Stage, Channel, Part, Process, Role
<1>2. FreshInv /\ [ChannelNext]_channelVars => FreshInv'
  BY TypeInductive, PlaceInductive, LockInductive, FreshInductive DEF FreshInv
<1> QED BY <1>1, <1>2, PTL DEF ChannelSpec

\* A sync never overwrites a part of a channel in WuKongIM with an older
\* version of it: one server, any channels, changes, failures and crashes.
THEOREM ChannelNeverOlder ==
    ASSUME OneWorker, NoLate
    PROVE  ChannelSpec => NeverOlder
<1> DEFINE Newer == \A c \in Channel, x \in Part : wk'[c][x] >= wk[c][x]
<1>1. FreshInv /\ [ChannelNext]_channelVars => [Newer]_channelVars
  <2> SUFFICES ASSUME FreshInv, [ChannelNext]_channelVars PROVE Newer
    OBVIOUS
  <2>1. ChannelTypeOK'
    BY TypeInductive DEF FreshInv
  <2>2. Forward
    BY <2>1, FreshInductive DEF FreshInv
  <2>3. \A c \in Channel, x \in Part : wk[c][x] \in Nat /\ wk'[c][x] \in Nat
    BY <2>1 DEF FreshInv, ChannelTypeOK, Versions
  <2> QED BY <2>2, <2>3 DEF Forward
<1> QED BY <1>1, FreshInvariant, PTL DEF ChannelSpec, NeverOlder
---------------------------------------------------------------------------
LEMMA CurrentIsUnique ==
    ASSUME NEW w \in Worker, NEW i \in Row, NEW j \in Row, IsCurrent(w, i), IsCurrent(w, j)
    PROVE  i = j
BY DEF IsCurrent, Row

\* The row a worker is syncing asks for the channel it is at.
LEMMA RowOfSync ==
    ASSUME SyncPlace, NEW w \in Worker, stage[<<w, "outbox">>] # "idle",
           NEW i \in Row, IsCurrent(w, i)
    PROVE  op[i] = chan[<<w, "outbox">>]
BY CurrentIsUnique DEF SyncPlace

\* A step that starts or ends syncs and keeps every repairing row, and after
\* which WuKongIM has what some process had read, keeps what is owed.
LEMMA OwedStep ==
    ASSUME StaleIsOwed, UNCHANGED db,
           \A i \in Row, c \in Channel, x \in Part : Repairs(i, c, x) => Repairs(i, c, x)',
           \A q \in Process :
              \/ stage'[q] \in {"idle", "readChannel"}
              \/ stage[q] # "idle" /\ stage'[q] = stage[q] /\ chan'[q] = chan[q] /\ got'[q] = got[q],
           \A c \in Channel, x \in Part :
              \/ wk'[c][x] = wk[c][x]
              \/ \E q \in Process : HasRead(q, x) /\ chan[q] = c /\ wk'[c][x] = got[q][x]
    PROVE  StaleIsOwed'
<1>1. ASSUME NEW c \in Channel, NEW x \in Part, wk'[c][x] # db'[c][x]
      PROVE  \E i \in Row : Repairs(i, c, x)'
  <2>1. \E i \in Row : Repairs(i, c, x)
    BY <1>1 DEF StaleIsOwed
  <2> QED BY <2>1
<1>2. ASSUME NEW q \in Process, NEW c \in Channel, NEW x \in Part, HasRead(q, x)',
             chan'[q] = c, got'[q][x] # db'[c][x]
      PROVE  \E i \in Row : Repairs(i, c, x)'
  <2>1. stage[q] # "idle" /\ stage'[q] = stage[q] /\ chan'[q] = chan[q] /\ got'[q] = got[q]
    BY <1>2 DEF HasRead
  <2>2. HasRead(q, x)
    BY <1>2, <2>1 DEF HasRead
  <2>3. \E i \in Row : Repairs(i, c, x)
    BY <1>2, <2>1, <2>2 DEF StaleIsOwed
  <2> QED BY <2>3
<1> QED BY <1>1, <1>2 DEF StaleIsOwed

\* The successful call of a sync: whatever it leaves out of date has a row
\* other than the current one.
LEMMA OwedLanding ==
    ASSUME OneWorker, ChannelTypeOK, SyncPlace, LockExcludes, WritesStay, StaleIsOwed,
           NEW p \in Process, Apply(p) \/ ApplyLast(p)
    PROVE  StaleIsOwed'
<1> DEFINE Mine(i) == p[2] = "outbox" /\ IsCurrent(p[1], i)
<1>1. /\ stage[p] \in {"upsert", "setAllow", "setDeny"} /\ Land(p)
      /\ UNCHANGED <<db, op, status, batch>>
      /\ p \in Worker \X Role /\ p = <<p[1], p[2]>> /\ p[1] \in Worker
  BY DEF Apply, ApplyLast, Process, outboxVars
<1>2. \A q \in Process : q # p =>
         stage'[q] = stage[q] /\ chan'[q] = chan[q] /\ got'[q] = got[q]
  BY DEF Apply, ApplyLast, Return, ChannelTypeOK
<1>3. \A w \in Worker : ~(p[2] = "outbox" /\ w = p[1]) =>
         /\ outcome'[w] = outcome[w]
         /\ <<w, "outbox">> # p
  BY <1>1 DEF Apply, ApplyLast, Return, ChannelTypeOK, OutboxTypeOK, outboxVars
<1>4. \A x \in Part : HasRead(p, x)
  BY <1>1, ApplyWrites
<1>5. /\ chan[p] \in Channel
      /\ \A c \in Channel, x \in Part :
            wk'[c][x] = IF c = chan[p] /\ x \in Writes(stage[p])
                        THEN got[p][x] ELSE wk[c][x]
  BY <1>1, LandEffect
<1>6. ASSUME NEW i \in Row, NEW c \in Channel, NEW x \in Part, Repairs(i, c, x), ~Mine(i)
      PROVE  Repairs(i, c, x)'
  <2> SUFFICES ASSUME NEW w \in Worker, IsCurrent(w, i)'
               PROVE  /\ outcome'[w] # "ok"
                      /\ HasRead(<<w, "outbox">>, x)' =>
                            /\ got'[<<w, "outbox">>][x] = db'[c][x]
                            /\ ~HasWritten(<<w, "outbox">>, x)'
    BY <1>1, <1>6 DEF Repairs
  <2>1. IsCurrent(w, i)
    BY <1>1 DEF IsCurrent
  <2>2. ~(p[2] = "outbox" /\ w = p[1])
    BY <1>6, <2>1
  <2>3. <<w, "outbox">> \in Process
    BY DEF Process, Role
  <2>4. stage'[<<w, "outbox">>] = stage[<<w, "outbox">>]
        /\ got'[<<w, "outbox">>] = got[<<w, "outbox">>]
    BY <1>2, <1>3, <2>2, <2>3
  <2> QED BY <1>1, <1>3, <1>6, <2>1, <2>2, <2>4 DEF Repairs, HasRead, HasWritten
<1>7. ASSUME NEW i \in Row, Mine(i) PROVE op[i] = chan[p]
  BY <1>1, <1>7, RowOfSync
<1>8. ASSUME NEW q \in Process, NEW c \in Channel, NEW x \in Part,
             HasRead(q, x), chan[q] = c, got[q][x] # db[c][x]
      PROVE  \E i \in Row : Repairs(i, c, x)'
  <2>1. PICK i \in Row : Repairs(i, c, x)
    BY <1>8 DEF StaleIsOwed
  <2>2. stage[q] # "idle" /\ chan[q] \in Channel
    BY <1>8 DEF HasRead, SyncPlace
  <2>3. ASSUME Mine(i) PROVE FALSE
    <3>1. chan[p] = chan[q]
      BY <1>7, <1>8, <2>1, <2>3 DEF Repairs
    <3>2. p = q
      BY <1>1, <2>2, <3>1, ProcessesApart
    <3> QED BY <1>1, <1>8, <2>1, <2>3, <3>2 DEF Repairs
  <2> QED BY <1>6, <2>1, <2>2, <2>3
<1>9. ASSUME NEW c \in Channel, NEW x \in Part, wk'[c][x] # db'[c][x]
      PROVE  \E i \in Row : Repairs(i, c, x)'
  <2>1. CASE c = chan[p] /\ got[p][x] # db[c][x]
    BY <1>4, <1>8, <2>1
  <2>2. CASE c = chan[p] /\ got[p][x] = db[c][x]
    <3>1. x \notin Writes(stage[p]) /\ wk[c][x] # db[c][x]
      BY <1>1, <1>5, <1>9, <2>2
    <3>2. stage[p] # "setDeny"
      BY <2>2, <3>1, ApplyWrites, <1>1 DEF WritesStay
    <3>3. Apply(p)
      BY <3>2 DEF ApplyLast
    <3>4. PICK i \in Row : Repairs(i, c, x)
      BY <3>1 DEF StaleIsOwed
    <3>5. CASE Mine(i)
      <4>1. HasWritten(p, x)' <=> HasWritten(p, x)
        BY <1>1, <3>1, <3>3, ApplyWrites DEF Apply
      <4>2. UNCHANGED <<got, outcome>>
        BY <3>3 DEF Apply, outboxVars
      <4>3. \A w \in Worker : IsCurrent(w, i)' => IsCurrent(w, i)
        BY <1>1 DEF IsCurrent
      <4>4. <<p[1], "outbox">> = p
        BY <1>1, <3>5
      <4>5. ~HasWritten(p, x)
        BY <1>1, <1>4, <3>4, <3>5, <4>4 DEF Repairs
      <4>6. ASSUME NEW w \in Worker, IsCurrent(w, i)'
            PROVE  /\ outcome'[w] # "ok"
                   /\ got'[<<w, "outbox">>][x] = db'[c][x]
                   /\ ~HasWritten(<<w, "outbox">>, x)'
        <5>1. w = p[1]
          BY <1>1 DEF OneWorker
        <5>2. outcome[w] # "ok"
          BY <3>4, <4>3, <4>6 DEF Repairs
        <5> QED BY <1>1, <2>2, <4>1, <4>2, <4>4, <4>5, <5>1, <5>2
      <4> QED BY <1>1, <3>4, <4>6 DEF Repairs
    <3> QED BY <1>6, <3>4, <3>5
  <2>3. CASE c # chan[p]
    <3>1. PICK i \in Row : Repairs(i, c, x)
      BY <1>1, <1>5, <1>9, <2>3 DEF StaleIsOwed
    <3>2. ~Mine(i)
      BY <1>7, <2>3, <3>1 DEF Repairs
    <3> QED BY <1>6, <3>1, <3>2
  <2> QED BY <2>1, <2>2, <2>3
<1>10. ASSUME NEW q \in Process, NEW c \in Channel, NEW x \in Part, HasRead(q, x)',
              chan'[q] = c, got'[q][x] # db'[c][x]
       PROVE  \E i \in Row : Repairs(i, c, x)'
  <2>1. CASE q # p
    <3>1. HasRead(q, x) /\ got[q][x] # db[c][x] /\ chan[q] = c
      BY <1>1, <1>2, <1>10, <2>1 DEF HasRead
    <3> QED BY <1>8, <3>1
  <2>2. CASE q = p
    <3>1. stage'[p] # "idle"
      BY <1>10, <2>2 DEF HasRead
    <3>2. Apply(p)
      BY <3>1 DEF ApplyLast, Return, ChannelTypeOK
    <3>3. got'[p] = got[p] /\ chan'[p] = chan[p]
      BY <3>2 DEF Apply
    <3> QED BY <1>1, <1>4, <1>8, <1>10, <2>2, <3>3
  <2> QED BY <2>1, <2>2
<1> QED BY <1>9, <1>10 DEF StaleIsOwed

\* Reading keeps every repairing row: what its worker reads now is current.
LEMMA OwedLoad ==
    ASSUME ChannelTypeOK, SyncPlace, StaleIsOwed, NEW p \in Process, Load(p)
    PROVE  StaleIsOwed'
<1>1. /\ UNCHANGED <<db, wk, chan, op, status, batch, outcome>> /\ stage[p] # "idle"
      /\ p \in Worker \X Role
  BY DEF Load, Reads, outboxVars, Process
<1>2. /\ \A x \in Part : HasRead(p, x)' =>
            IF HasRead(p, x) THEN got'[p][x] = got[p][x]
                             ELSE got'[p][x] = db[chan[p]][x]
      /\ \A x \in Part : ~HasWritten(p, x)'
      /\ \A q \in Process : q # p => stage'[q] = stage[q] /\ got'[q] = got[q]
  BY LoadReads
<1>3. ASSUME NEW i \in Row, NEW c \in Channel, NEW x \in Part, Repairs(i, c, x)
      PROVE  Repairs(i, c, x)'
  <2> SUFFICES ASSUME NEW w \in Worker, IsCurrent(w, i)',
                      HasRead(<<w, "outbox">>, x)'
               PROVE  /\ got'[<<w, "outbox">>][x] = db'[c][x]
                      /\ ~HasWritten(<<w, "outbox">>, x)'
    BY <1>1, <1>3 DEF Repairs, IsCurrent
  <2>1. IsCurrent(w, i) /\ <<w, "outbox">> \in Process
    BY <1>1 DEF IsCurrent, Process, Role
  <2>2. CASE <<w, "outbox">> = p
    <3>1. chan[p] = c
      BY <1>1, <1>3, <2>1, <2>2, RowOfSync DEF Repairs
    <3> QED BY <1>1, <1>2, <1>3, <2>1, <2>2, <3>1 DEF Repairs
  <2>3. CASE <<w, "outbox">> # p
    BY <1>1, <1>2, <1>3, <2>1, <2>3 DEF Repairs, HasRead, HasWritten
  <2> QED BY <2>2, <2>3
<1>4. ASSUME NEW q \in Process, NEW c \in Channel, NEW x \in Part, HasRead(q, x)',
             chan'[q] = c, got'[q][x] # db'[c][x]
      PROVE  \E i \in Row : Repairs(i, c, x)'
  <2>1. HasRead(q, x) /\ got[q][x] # db[c][x] /\ chan[q] = c
    BY <1>1, <1>2, <1>4 DEF HasRead
  <2> QED BY <1>3, <2>1 DEF StaleIsOwed
<1> QED BY <1>1, <1>3, <1>4 DEF StaleIsOwed

\* A change owes itself a row, and leaves the rows of other channels alone.
LEMMA OwedChange ==
    ASSUME ChannelTypeOK, SyncPlace, StaleIsOwed, NEW d \in Channel, Change(d)
    PROVE  StaleIsOwed'
<1>1. PICK j \in Row : /\ status[j] = "absent"
                       /\ status' = [status EXCEPT ![j] = "pending"]
                       /\ op' = [op EXCEPT ![j] = d]
                       /\ UNCHANGED <<batch, outcome, wk, stage, chan, got>>
  BY DEF Change, Enqueue, syncVars
<1>2. \A c \in Channel : c # d => db'[c] = db[c]
  BY DEF Change, Bump, ChannelTypeOK
<1>3. \A x \in Part : Repairs(j, d, x)'
  BY <1>1 DEF Repairs, IsCurrent, SyncPlace, ChannelTypeOK, OutboxTypeOK
<1>4. ASSUME NEW i \in Row, NEW c \in Channel, NEW x \in Part, c # d, Repairs(i, c, x)
      PROVE  Repairs(i, c, x)'
  <2>1. i # j /\ op'[i] = c /\ status'[i] \in {"pending", "processing", "failed"}
    BY <1>1, <1>4 DEF Repairs, ChannelTypeOK, OutboxTypeOK
  <2> QED BY <1>1, <1>2, <1>4, <2>1 DEF Repairs, IsCurrent, HasRead, HasWritten
<1>5. ASSUME NEW c \in Channel, NEW x \in Part, wk'[c][x] # db'[c][x]
      PROVE  \E i \in Row : Repairs(i, c, x)'
  BY <1>1, <1>2, <1>3, <1>4, <1>5 DEF StaleIsOwed
<1>6. ASSUME NEW q \in Process, NEW c \in Channel, NEW x \in Part, HasRead(q, x)',
             chan'[q] = c, got'[q][x] # db'[c][x]
      PROVE  \E i \in Row : Repairs(i, c, x)'
  <2>1. HasRead(q, x)
    BY <1>1, <1>6 DEF HasRead
  <2> QED BY <1>1, <1>2, <1>3, <1>4, <1>6, <2>1 DEF StaleIsOwed
<1> QED BY <1>5, <1>6 DEF StaleIsOwed

LEMMA OwedInductive ==
    ASSUME OneWorker, NoSilent, ChannelTypeOK, SyncPlace, BatchIsProcessing, LockExcludes,
           WritesStay, late = {}, StaleIsOwed, [ChannelNext]_channelVars
    PROVE  StaleIsOwed'
<1> DEFINE Kept == \A i \in Row, c \in Channel, x \in Part :
                      Repairs(i, c, x) => Repairs(i, c, x)'
           Undisturbed(q) == \/ stage'[q] \in {"idle", "readChannel"}
                             \/ /\ stage[q] # "idle" /\ stage'[q] = stage[q]
                                /\ chan'[q] = chan[q] /\ got'[q] = got[q]
<1>1. ASSUME NEW w \in Worker, Claim(w) PROVE StaleIsOwed'
  <2>1. /\ UNCHANGED <<db, wk, stage, chan, got, op, outcome>>
        /\ batch[w] = {}
        /\ \A i \in Row : status'[i] \in {status[i], "processing"}
        /\ \A v \in Worker : v = w
    BY <1>1 DEF Claim, ClaimWukongOutbox, ClaimAs, OutboxOnly, syncVars, OneWorker
  <2>2. outcome[w] = "none" /\ stage[<<w, "outbox">>] = "idle"
    BY <2>1 DEF SyncPlace, IsCurrent
  <2>3. Kept
    BY <2>1, <2>2 DEF Repairs, HasRead
  <2>4. \A q \in Process : Undisturbed(q)
    BY <2>1
  <2> HIDE DEF Kept, Undisturbed
  <2> QED BY <2>1, <2>3, <2>4, OwedStep DEF Kept, Undisturbed
<1>2. ASSUME NEW w \in Worker, Report(w) PROVE StaleIsOwed'
  <2>1. PICK j \in Row :
          /\ IsCurrent(w, j)
          /\ outcome[w] # "none"
          /\ status' = [status EXCEPT ![j] = [ok |-> "completed", retry |-> "pending",
                                              rejected |-> "failed"][outcome[w]]]
          /\ batch' = [batch EXCEPT ![w] = @ \ {j}]
          /\ outcome' = [outcome EXCEPT ![w] = "none"]
          /\ UNCHANGED <<op, db, wk, stage, chan, got>>
    BY <1>2 DEF Report, Record, RecordAs, OutboxOnly, syncVars
  <2>2. stage[<<w, "outbox">>] = "idle" /\ \A v \in Worker : v = w
    BY <2>1 DEF SyncPlace, OneWorker
  <2>3. outcome[w] # "ok" => status'[j] \in {"pending", "failed"}
    BY <2>1 DEF ChannelTypeOK, OutboxTypeOK, Outcome
  <2>4. \A i \in Row : i # j => status'[i] = status[i]
    BY <2>1 DEF ChannelTypeOK, OutboxTypeOK
  <2>5. outcome'[w] = "none"
    BY <2>1 DEF ChannelTypeOK, OutboxTypeOK
  <2>6. Kept
    BY <2>1, <2>2, <2>3, <2>4, <2>5 DEF Repairs, HasRead
  <2>7. \A q \in Process : Undisturbed(q)
    BY <2>1
  <2> HIDE DEF Kept, Undisturbed
  <2> QED BY <2>1, <2>6, <2>7, OwedStep DEF Kept, Undisturbed
<1>3. ASSUME NEW w \in Worker, ReportLost(w) PROVE StaleIsOwed'
  <2>1. /\ batch' = [batch EXCEPT ![w] = {}]
        /\ UNCHANGED <<op, status, db, wk, stage, chan, got>>
        /\ \A v \in Worker : v = w
    BY <1>3 DEF ReportLost, Abandon, OutboxOnly, syncVars, OneWorker
  <2>2. Kept
    BY <2>1 DEF Repairs, IsCurrent, ChannelTypeOK, OutboxTypeOK
  <2>3. \A q \in Process : Undisturbed(q)
    BY <2>1
  <2> HIDE DEF Kept, Undisturbed
  <2> QED BY <2>1, <2>2, <2>3, OwedStep DEF Kept, Undisturbed
<1>4. ASSUME \/ \E i \in Row : Expire(i) \/ Elapse(i)
             \/ UNCHANGED channelVars
      PROVE  StaleIsOwed'
  <2>1. UNCHANGED <<op, status, batch, outcome, db, wk, stage, chan, got>>
    BY <1>4 DEF Expire, Elapse, LeaseExpires, BackoffElapses, OutboxOnly, syncVars,
                channelVars, outboxVars
  <2>2. Kept
    BY <2>1 DEF Repairs, IsCurrent, HasRead, HasWritten
  <2>3. \A q \in Process : Undisturbed(q)
    BY <2>1
  <2> HIDE DEF Kept, Undisturbed
  <2> QED BY <2>1, <2>2, <2>3, OwedStep DEF Kept, Undisturbed
<1>5. ASSUME NEW w \in Worker, BeginRow(w) \/ \E c \in Channel : BeginReconcile(w, c)
      PROVE  StaleIsOwed'
  <2>1. PICK p \in Process : \E c : Start(p, c, "readChannel")
    BY <1>5 DEF BeginRow, BeginReconcile, Begin, Process, Role
  <2>2. UNCHANGED <<outboxVars, db, wk, got>>
    BY <1>5 DEF BeginRow, BeginReconcile, Begin
  <2>3. \A q \in Process : stage'[q] = "readChannel" \/ (stage'[q] = stage[q] /\ chan'[q] = chan[q])
    BY <2>1 DEF Start, ChannelTypeOK
  <2>4. Kept
    BY <2>2, <2>3 DEF Repairs, IsCurrent, HasRead, HasWritten, Process, Role, outboxVars
  <2>5. \A q \in Process : Undisturbed(q)
    BY <2>2, <2>3
  <2> HIDE DEF Kept, Undisturbed
  <2> QED BY <2>2, <2>4, <2>5, OwedStep DEF Kept, Undisturbed
<1>6. ASSUME NEW p \in Process, SyncFails(p) PROVE StaleIsOwed'
  <2>1. PICK r \in {"retry", "rejected"} :
          /\ stage[p] # "idle"
          /\ Return(p, r)
          /\ UNCHANGED wk \/ Land(p)
          /\ UNCHANGED <<op, status, batch, db>>
    BY <1>6 DEF SyncFails, SyncFailsAs
  <2>2. /\ stage'[p] = "idle"
        /\ \A q \in Process : q # p =>
              stage'[q] = stage[q] /\ chan'[q] = chan[q] /\ got'[q] = got[q]
        /\ \A w \in Worker : outcome'[w] \in {outcome[w], r}
    BY <2>1 DEF Return, ChannelTypeOK, OutboxTypeOK
  <2>3. Kept
    BY <2>1, <2>2 DEF Repairs, IsCurrent, HasRead, HasWritten, Process, Role
  <2>4. \A q \in Process : Undisturbed(q)
    BY <2>2
  <2>5. ASSUME NEW c \in Channel, NEW x \in Part
        PROVE  \/ wk'[c][x] = wk[c][x]
               \/ \E q \in Process : HasRead(q, x) /\ chan[q] = c /\ wk'[c][x] = got[q][x]
    BY <2>1, LandEffect
  <2> HIDE DEF Kept, Undisturbed
  <2> QED BY <2>1, <2>3, <2>4, <2>5, OwedStep DEF Kept, Undisturbed
<1>7. ASSUME NEW w \in Worker, Crash(w) PROVE StaleIsOwed'
  <2>1. /\ \A v \in Worker : v = w
        /\ \A q \in Process : stage'[q] = "idle"
        /\ batch'[w] = {}
        /\ UNCHANGED <<op, status, db>>
        /\ UNCHANGED wk \/ \E r \in Role : stage[<<w, r>>] # "idle" /\ Land(<<w, r>>)
    BY <1>7 DEF Crash, OneWorker, Process, ChannelTypeOK, OutboxTypeOK
  <2>2. Kept
    BY <2>1 DEF Repairs, IsCurrent
  <2>3. \A q \in Process : Undisturbed(q)
    BY <2>1
  <2>4. \A r \in Role : <<w, r>> \in Process
    BY DEF Process
  <2>5. ASSUME NEW c \in Channel, NEW x \in Part
        PROVE  \/ wk'[c][x] = wk[c][x]
               \/ \E q \in Process : HasRead(q, x) /\ chan[q] = c /\ wk'[c][x] = got[q][x]
    <3>1. ASSUME NEW p \in Process, stage[p] # "idle", Land(p)
          PROVE  \/ wk'[c][x] = wk[c][x]
                 \/ HasRead(p, x) /\ chan[p] = c /\ wk'[c][x] = got[p][x]
      BY <3>1, LandEffect
    <3>2. CASE UNCHANGED wk
      BY <3>2
    <3>3. CASE \E p \in Process : stage[p] # "idle" /\ Land(p)
      <4>1. PICK p \in Process : stage[p] # "idle" /\ Land(p)
        BY <3>3
      <4> QED BY <3>1, <4>1
    <3> QED BY <2>1, <2>4, <3>2, <3>3
  <2> HIDE DEF Kept, Undisturbed
  <2> QED BY <2>1, <2>2, <2>3, <2>5, OwedStep DEF Kept, Undisturbed
<1>8. ~LateArrival /\ \A c \in Channel : ~SilentChange(c)
  BY DEF LateArrival, SilentChange, NoSilent, ChannelTypeOK
<1> QED
  BY <1>1, <1>2, <1>3, <1>4, <1>5, <1>6, <1>7, <1>8, OwedLoad, OwedChange, OwedLanding
  DEF ChannelNext

LEMMA ServerInvariant ==
    ASSUME OneWorker, NoLate, NoSilent
    PROVE  ChannelSpec => [](ServerInv /\ StaleIsOwed)
<1>1. ChannelInit => BatchIsProcessing /\ StaleIsOwed
  BY DEF ChannelInit, OutboxInit, BatchIsProcessing, StaleIsOwed, HasRead
<1>2. FreshInv /\ BatchIsProcessing /\ StaleIsOwed /\ [ChannelNext]_channelVars
        => BatchIsProcessing' /\ StaleIsOwed'
  BY BatchKept, OwedInductive DEF FreshInv
<1>3. FreshInv /\ BatchIsProcessing => ServerInv
  BY DEF FreshInv, ServerInv
<1> QED BY <1>1, <1>2, <1>3, FreshInvariant, PTL DEF ChannelSpec

\* When no row for a channel is outstanding and nobody is syncing it, WuKongIM
\* has exactly what the database has.
THEOREM ChannelQuietInSync ==
    ASSUME OneWorker, NoLate, NoSilent
    PROVE  ChannelSpec => []QuietInSync
<1>1. ServerInv /\ StaleIsOwed => QuietInSync
  <2> SUFFICES ASSUME ServerInv, StaleIsOwed, NEW c \in Channel, Quiet(c)
               PROVE  wk[c] = db[c]
    BY DEF QuietInSync
  <2>1. ASSUME NEW x \in Part PROVE wk[c][x] = db[c][x]
    BY DEF StaleIsOwed, Repairs, Quiet
  <2>2. wk[c] \in Versions /\ db[c] \in Versions
    BY DEF ServerInv, ChannelTypeOK
  <2> QED BY <2>1, <2>2 DEF Versions
<1> QED BY <1>1, ServerInvariant, PTL

\* What a run with one server checks in every state, for any number of
\* channels, rows, changes, failures and crashes.
THEOREM ChannelStaysSafe ==
    ASSUME OneWorker, NoLate, NoSilent
    PROVE  ChannelSpec => []ChannelSafety
  BY ChannelTypeCorrect, ChannelQuietInSync, PTL DEF ChannelSafety
===========================================================================
