-------------------------- MODULE BackgroundProofs --------------------------
(***************************************************************************)
(* Proofs about the components of the run "background", for any number of  *)
(* logins, contacts, notifications, devices, messages, objects, topics,    *)
(* members, announcements and readers, of the servers and workers that     *)
(* look after them, and for any bound on faults and time.  The run shows   *)
(* besides that the work is done in the end.                               *)
(***************************************************************************)
EXTENDS AccessRecorder, PresenceCache, WebhookInbox, PushDelivery, ScheduledSend, MediaStore,
        BusinessChannels, Announcements, FiniteSetTheorems, SequenceTheorems, TLAPS

(***************************************************************************)
(* The access log recorder (AccessRecorder): a queued record is at one     *)
(* place and is counted there.                                             *)
(***************************************************************************)
RecordStates == {"new", "counted", "queued", "dropped", "written"}
WorkStates == {"idle", "try", "failed", "written", "dropped", "gone"}
Holds(w) == worker[w].step \in {"try", "failed", "written", "dropped"}
Counted == {e \in Login : producer[e] \in {"counted", "queued"}}

RecorderTypes ==
    /\ DOMAIN producer = Login /\ \A e \in Login : producer[e] \in RecordStates
    /\ queue \in Seq(Login) /\ log \subseteq Login /\ lastLogin \in Nat /\ pendingCount \in Nat
    /\ DOMAIN worker = Worker
    /\ \A w \in Worker : /\ DOMAIN worker[w] = {"step", "login", "attempt"} /\ worker[w].step \in WorkStates
                         /\ Holds(w) => worker[w].login \in Login

\* A record that was queued is at one place, in the queue or at one worker, and
\* counted until that worker is done with it.
HeldOnce ==
    /\ \A i \in 1 .. Len(queue) : producer[queue[i]] = "queued"
    /\ \A i, j \in 1 .. Len(queue) : i # j => queue[i] # queue[j]
    /\ \A w \in Worker : Holds(w) =>
          /\ producer[worker[w].login] = "queued"
          /\ \A i \in 1 .. Len(queue) : queue[i] # worker[w].login
          /\ \A v \in Worker : v # w /\ Holds(v) => worker[v].login # worker[w].login

RecorderInv == RecorderTypes /\ HeldOnce /\ PendingCounts /\ LastLoginIsNewest

LEMMA CountedFinite == IsFiniteSet(Counted) /\ Cardinality(Counted) \in Nat
  <1>1. Counted \in SUBSET Login
    BY DEF Counted
  <1> QED
    BY <1>1, FS_Subset, FS_CardinalityType, RecorderAssumption DEF RecorderAssumption

LEMMA RecorderInitHolds == RecorderInit => RecorderInv
  <1> SUFFICES ASSUME RecorderInit PROVE RecorderInv
    OBVIOUS
  <1>1. RecorderTypes /\ HeldOnce /\ LastLoginIsNewest
    BY DEF RecorderInit, RecorderTypes, HeldOnce, LastLoginIsNewest, NoWork, Holds, RecordStates, WorkStates
  <1>2. {e \in Login : producer[e] \in {"counted", "queued"}} = {}
    BY DEF RecorderInit
  <1>3. PendingCounts
    BY <1>2, FS_EmptySet DEF PendingCounts, RecorderInit
  <1> QED
    BY <1>1, <1>3 DEF RecorderInv

\* One record changes its state and nothing else is counted.
LEMMA OneMoreCounted ==
  ASSUME RecorderInv, NEW e \in Login, e \notin Counted, Counted' = Counted \union {e}, pendingCount' = pendingCount + 1
  PROVE  PendingCounts' /\ pendingCount' \in Nat
  <1>1. pendingCount = Cardinality(Counted)
    BY DEF RecorderInv, PendingCounts, Counted
  <1>2. Cardinality(Counted') = Cardinality(Counted) + 1
    BY CountedFinite, FS_AddElement
  <1> QED
    BY <1>1, <1>2, CountedFinite DEF PendingCounts, Counted

LEMMA OneLessCounted ==
  ASSUME RecorderInv, NEW e \in Counted, Counted' = Counted \ {e}, pendingCount' = pendingCount - 1
  PROVE  PendingCounts' /\ pendingCount' \in Nat
  <1>1. pendingCount = Cardinality(Counted)
    BY DEF RecorderInv, PendingCounts, Counted
  <1>2. Cardinality(Counted') = Cardinality(Counted) - 1 /\ IsFiniteSet(Counted')
    BY CountedFinite, FS_RemoveElement
  <1>3. Cardinality(Counted') \in Nat
    BY <1>2, FS_CardinalityType
  <1> QED
    BY <1>1, <1>2, <1>3 DEF PendingCounts, Counted

LEMMA CountKeeps ==
  ASSUME RecorderInv, NEW e \in Login, EnqueueCount(e)
  PROVE  RecorderInv'
  <1>1. /\ producer[e] = "new" /\ producer' = [producer EXCEPT ![e] = "counted"] /\ pendingCount' = pendingCount + 1
        /\ UNCHANGED <<queue, worker, log, lastLogin>>
    BY DEF EnqueueCount
  <1>2. DOMAIN producer' = Login /\ producer'[e] = "counted" /\ \A d \in Login : d # e => producer'[d] = producer[d]
    BY <1>1 DEF RecorderInv, RecorderTypes
  <1>3. Counted' = Counted \union {e} /\ e \notin Counted
    BY <1>1, <1>2 DEF Counted
  <1>4. PendingCounts' /\ pendingCount' \in Nat
    BY <1>1, <1>3, OneMoreCounted
  <1>5. RecorderTypes'
    BY <1>1, <1>2, <1>4 DEF RecorderInv, RecorderTypes, RecordStates, Holds
  <1>6. HeldOnce'
    <2>1. \A i \in 1 .. Len(queue) : queue[i] \in Login
      BY DEF RecorderInv, RecorderTypes
    <2> QED
      BY <1>1, <1>2, <2>1 DEF RecorderInv, RecorderTypes, HeldOnce, Holds
  <1>7. LastLoginIsNewest'
    BY <1>1 DEF RecorderInv, LastLoginIsNewest
  <1> QED
    BY <1>4, <1>5, <1>6, <1>7 DEF RecorderInv

LEMMA PutKeeps ==
  ASSUME RecorderInv, NEW e \in Login, EnqueuePut(e)
  PROVE  RecorderInv'
  <1>1. producer[e] = "counted" /\ UNCHANGED <<worker, log, lastLogin>>
    BY DEF EnqueuePut
  <1>2. LastLoginIsNewest'
    BY <1>1 DEF RecorderInv, LastLoginIsNewest
  <1>3. queue \in Seq(Login) /\ Len(queue) \in Nat /\ \A i \in 1 .. Len(queue) : queue[i] \in Login
    BY DEF RecorderInv, RecorderTypes
  <1>4. CASE Len(queue) < Capacity
    <2>1. queue' = Append(queue, e) /\ pendingCount' = pendingCount /\ producer' = [producer EXCEPT ![e] = "queued"]
      BY <1>4 DEF EnqueuePut
    <2>2. DOMAIN producer' = Login /\ producer'[e] = "queued" /\ \A d \in Login : d # e => producer'[d] = producer[d]
      BY <2>1 DEF RecorderInv, RecorderTypes
    <2>3. /\ queue' \in Seq(Login) /\ Len(queue') = Len(queue) + 1 /\ queue'[Len(queue) + 1] = e
          /\ \A i \in 1 .. Len(queue) : queue'[i] = queue[i]
      BY <1>3, <2>1
    <2>4. Counted' = Counted
      BY <1>1, <2>2 DEF Counted
    <2>5. PendingCounts'
      BY <2>1, <2>4 DEF RecorderInv, PendingCounts, Counted
    <2>6. RecorderTypes'
      BY <1>1, <2>1, <2>2, <2>3 DEF RecorderInv, RecorderTypes, RecordStates, Holds
    <2>7. \A i \in 1 .. Len(queue') : i \in 1 .. Len(queue) \/ i = Len(queue) + 1
      BY <1>3, <2>3
    <2>8. \A i \in 1 .. Len(queue) : queue[i] # e
      BY <1>1 DEF RecorderInv, HeldOnce
    <2>9. \A w \in Worker : Holds(w) => worker[w].login # e
      BY <1>1 DEF RecorderInv, HeldOnce
    <2>10. HeldOnce'
      <3>1. \A i \in 1 .. Len(queue') : producer'[queue'[i]] = "queued"
        BY <1>3, <2>2, <2>3, <2>7 DEF RecorderInv, HeldOnce
      <3>2. \A i, j \in 1 .. Len(queue') : i # j => queue'[i] # queue'[j]
        <4> SUFFICES ASSUME NEW i \in 1 .. Len(queue'), NEW j \in 1 .. Len(queue'), i # j PROVE queue'[i] # queue'[j]
          OBVIOUS
        <4>1. CASE i = Len(queue) + 1
          BY <2>3, <2>7, <2>8, <4>1
        <4>2. CASE j = Len(queue) + 1
          BY <2>3, <2>7, <2>8, <4>2
        <4>3. CASE i \in 1 .. Len(queue) /\ j \in 1 .. Len(queue)
          BY <2>3, <4>3 DEF RecorderInv, HeldOnce
        <4> QED
          BY <2>7, <4>1, <4>2, <4>3
      <3>3. ASSUME NEW w \in Worker, Holds(w)'
            PROVE  /\ producer'[worker'[w].login] = "queued"
                   /\ \A i \in 1 .. Len(queue') : queue'[i] # worker'[w].login
                   /\ \A v \in Worker : v # w /\ Holds(v)' => worker'[v].login # worker'[w].login
        <4>1. Holds(w) /\ worker' = worker /\ worker[w].login \in Login
          BY <1>1, <3>3 DEF Holds, RecorderInv, RecorderTypes
        <4> QED
          BY <2>2, <2>3, <2>7, <2>9, <4>1 DEF RecorderInv, HeldOnce, Holds
      <3> QED
        BY <3>1, <3>2, <3>3 DEF HeldOnce
    <2> QED
      BY <1>2, <2>5, <2>6, <2>10 DEF RecorderInv
  <1>5. CASE ~(Len(queue) < Capacity)
    <2>1. queue' = queue /\ pendingCount' = pendingCount - 1 /\ producer' = [producer EXCEPT ![e] = "dropped"]
      BY <1>5 DEF EnqueuePut, CountWithout
    <2>2. DOMAIN producer' = Login /\ producer'[e] = "dropped" /\ \A d \in Login : d # e => producer'[d] = producer[d]
      BY <2>1 DEF RecorderInv, RecorderTypes
    <2>3. Counted' = Counted \ {e} /\ e \in Counted
      BY <1>1, <2>2 DEF Counted
    <2>4. PendingCounts' /\ pendingCount' \in Nat
      BY <2>1, <2>3, OneLessCounted
    <2>5. RecorderTypes'
      BY <1>1, <2>1, <2>2, <2>4 DEF RecorderInv, RecorderTypes, RecordStates, Holds
    <2>6. HeldOnce'
      BY <1>1, <1>3, <2>1, <2>2 DEF RecorderInv, RecorderTypes, HeldOnce, Holds
    <2> QED
      BY <1>2, <2>4, <2>5, <2>6 DEF RecorderInv
  <1> QED
    BY <1>4, <1>5

LEMMA TakeKeeps ==
  ASSUME RecorderInv, NEW w \in Worker, Take(w)
  PROVE  RecorderInv'
  <1>1. /\ worker[w].step = "idle" /\ queue # <<>> /\ queue' = Tail(queue)
        /\ worker' = [worker EXCEPT ![w] = [step |-> "try", login |-> Head(queue), attempt |-> 1]]
        /\ UNCHANGED <<producer, pendingCount, log, lastLogin>>
    BY DEF Take
  <1>2. queue \in Seq(Login) /\ Len(queue) \in Nat /\ Len(queue) > 0
    BY <1>1 DEF RecorderInv, RecorderTypes
  <1>3. /\ queue' \in Seq(Login) /\ Len(queue') = Len(queue) - 1 /\ Head(queue) = queue[1] /\ queue[1] \in Login
        /\ \A i \in 1 .. Len(queue') : queue'[i] = queue[i + 1] /\ i + 1 \in 1 .. Len(queue)
    BY <1>1, <1>2
  <1>4. /\ DOMAIN worker' = Worker /\ DOMAIN worker'[w] = {"step", "login", "attempt"}
        /\ worker'[w].step = "try" /\ worker'[w].login = queue[1]
        /\ \A v \in Worker : v # w => worker'[v] = worker[v]
    BY <1>1, <1>3 DEF RecorderInv, RecorderTypes
  <1>5. RecorderTypes'
    BY <1>1, <1>3, <1>4 DEF RecorderInv, RecorderTypes, WorkStates, Holds
  <1>6. 1 \in 1 .. Len(queue)
    BY <1>2
  <1>7. HeldOnce'
    <2>1. \A i \in 1 .. Len(queue') : producer[queue'[i]] = "queued" /\ queue'[i] # queue[1]
      BY <1>2, <1>3, <1>6 DEF RecorderInv, HeldOnce
    <2>2. \A i, j \in 1 .. Len(queue') : i # j => queue'[i] # queue'[j]
      BY <1>2, <1>3 DEF RecorderInv, HeldOnce
    <2>3. \A v \in Worker : Holds(v) => worker[v].login # queue[1] /\ producer[worker[v].login] = "queued"
      BY <1>6 DEF RecorderInv, HeldOnce
    <2>4. producer[queue[1]] = "queued"
      BY <1>6 DEF RecorderInv, HeldOnce
    <2>5. \A v \in Worker : Holds(v)' <=> v = w \/ Holds(v)
      BY <1>4 DEF Holds
    <2>6. \A v \in Worker : v # w /\ Holds(v) => \A i \in 1 .. Len(queue') : queue'[i] # worker[v].login
      BY <1>3 DEF RecorderInv, HeldOnce
    <2>7. \A v, u \in Worker : v # u /\ Holds(v) /\ Holds(u) => worker[v].login # worker[u].login
      BY DEF RecorderInv, HeldOnce
    <2>8. ~Holds(w)
      BY <1>1 DEF Holds
    <2>9. ASSUME NEW v \in Worker, Holds(v)'
          PROVE  /\ producer'[worker'[v].login] = "queued"
                 /\ \A i \in 1 .. Len(queue') : queue'[i] # worker'[v].login
                 /\ \A u \in Worker : u # v /\ Holds(u)' => worker'[u].login # worker'[v].login
      <3>1. CASE v = w
        BY <1>1, <1>4, <2>1, <2>3, <2>4, <2>5, <3>1
      <3>2. CASE v # w
        BY <1>1, <1>4, <2>3, <2>5, <2>6, <2>7, <2>9, <3>2
      <3> QED
        BY <3>1, <3>2
    <2> QED
      BY <1>1, <2>1, <2>2, <2>9 DEF HeldOnce
  <1>8. PendingCounts' /\ LastLoginIsNewest'
    BY <1>1 DEF RecorderInv, PendingCounts, LastLoginIsNewest
  <1> QED
    BY <1>5, <1>7, <1>8 DEF RecorderInv

\* A worker goes on with the record it holds, or leaves without one.
LEMMA WorkGoesOn ==
  ASSUME RecorderInv, NEW w \in Worker, UNCHANGED <<producer, queue, pendingCount>>,
         DOMAIN worker' = Worker, DOMAIN worker'[w] = {"step", "login", "attempt"},
         worker'[w].step \in WorkStates, worker'[w].login = worker[w].login,
         Holds(w)' => Holds(w), \A v \in Worker : v # w => worker'[v] = worker[v],
         log' \subseteq Login, lastLogin' \in Nat, LastLoginIsNewest'
  PROVE  RecorderInv'
  <1>1. \A v \in Worker : (Holds(v)' => Holds(v)) /\ worker'[v].login = worker[v].login
    BY DEF Holds
  <1>2. RecorderTypes'
    BY <1>1 DEF RecorderInv, RecorderTypes
  <1>3. HeldOnce'
    BY <1>1 DEF RecorderInv, HeldOnce
  <1>4. PendingCounts'
    BY DEF RecorderInv, PendingCounts
  <1> QED
    BY <1>2, <1>3, <1>4 DEF RecorderInv

LEMMA RecordKeeps ==
  ASSUME RecorderInv, NEW w \in Worker, NEW heard \in BOOLEAN, RecordUserAccess(w, heard)
  PROVE  RecorderInv'
  <1> DEFINE e == worker[w].login
  <1>1. /\ worker[w].step = "try"
        /\ log' = log \cup {e} /\ lastLogin' = IF e \in log THEN lastLogin ELSE ProfileAfter(e)
        /\ worker' = [worker EXCEPT ![w].step = IF heard THEN "written" ELSE "failed"]
        /\ UNCHANGED <<producer, queue, pendingCount>>
    BY DEF RecordUserAccess
  <1>2. Holds(w) /\ e \in Login /\ e \in Nat /\ e > 0
    BY <1>1, RecorderAssumption DEF Holds, RecorderInv, RecorderTypes, RecorderAssumption
  <1>3. /\ DOMAIN worker' = Worker /\ DOMAIN worker'[w] = {"step", "login", "attempt"}
        /\ worker'[w].step \in WorkStates /\ worker'[w].login = worker[w].login
        /\ \A v \in Worker : v # w => worker'[v] = worker[v]
    BY <1>1 DEF RecorderInv, RecorderTypes, WorkStates
  <1>4. log' \subseteq Login /\ lastLogin' \in Nat /\ LastLoginIsNewest'
    <2>1. log \subseteq Login /\ lastLogin \in Nat /\ \A d \in log : d \in Nat
      BY RecorderAssumption DEF RecorderInv, RecorderTypes, RecorderAssumption
    <2>2. CASE e \in log
      BY <1>1, <2>1, <2>2 DEF RecorderInv, LastLoginIsNewest
    <2>3. CASE e \notin log
      <3>1. lastLogin' = IF lastLogin < e THEN e ELSE lastLogin
        BY <1>1, <2>3 DEF ProfileAfter
      <3>2. log # {} => lastLogin \in log /\ \A d \in log : d <= lastLogin
        BY DEF RecorderInv, LastLoginIsNewest
      <3>3. log = {} => lastLogin = 0
        BY DEF RecorderInv, LastLoginIsNewest
      <3>4. lastLogin' \in log' /\ \A d \in log' : d <= lastLogin'
        BY <1>1, <1>2, <2>1, <3>1, <3>2, <3>3
      <3> QED
        BY <1>1, <1>2, <2>1, <3>1, <3>4 DEF LastLoginIsNewest
    <2> QED
      BY <2>2, <2>3
  <1> QED
    BY <1>1, <1>2, <1>3, <1>4, WorkGoesOn

LEMMA WorkerKeeps ==
  ASSUME RecorderInv, NEW w \in Worker, RecordFails(w) \/ Retry(w) \/ GiveUp(w) \/ Run(w)
  PROVE  RecorderInv'
  <1>1. UNCHANGED <<producer, queue, pendingCount, log, lastLogin>>
    BY DEF RecordFails, Retry, GiveUp, Run
  <1>2. log' \subseteq Login /\ lastLogin' \in Nat /\ LastLoginIsNewest'
    BY <1>1 DEF RecorderInv, RecorderTypes, LastLoginIsNewest
  <1>3. DOMAIN worker = Worker /\ DOMAIN worker[w] = {"step", "login", "attempt"}
    BY DEF RecorderInv, RecorderTypes
  <1>4. /\ DOMAIN worker' = Worker /\ DOMAIN worker'[w] = {"step", "login", "attempt"}
        /\ worker'[w].step \in WorkStates /\ worker'[w].login = worker[w].login /\ (Holds(w)' => Holds(w))
        /\ \A v \in Worker : v # w => worker'[v] = worker[v]
    <2>1. CASE RecordFails(w)
      BY <1>3, <2>1 DEF RecordFails, WorkStates, Holds
    <2>2. CASE Retry(w)
      <3>1. CASE worker[w].attempt < 3
        BY <1>3, <2>2, <3>1 DEF Retry, WorkStates, Holds
      <3>2. CASE ~(worker[w].attempt < 3)
        BY <1>3, <2>2, <3>2 DEF Retry, WorkStates, Holds
      <3> QED
        BY <3>1, <3>2
    <2>3. CASE GiveUp(w)
      BY <1>3, <2>3 DEF GiveUp, WorkStates, Holds
    <2>4. CASE Run(w)
      BY <1>3, <2>4 DEF Run, WorkStates, Holds
    <2> QED
      BY <2>1, <2>2, <2>3, <2>4
  <1> QED
    BY <1>1, <1>2, <1>4, WorkGoesOn

LEMMA FinishKeeps ==
  ASSUME RecorderInv, NEW w \in Worker, Finish(w)
  PROVE  RecorderInv'
  <1> DEFINE e == worker[w].login
  <1>1. /\ worker[w].step \in {"written", "dropped"}
        /\ producer' = [producer EXCEPT ![e] = worker[w].step]
        /\ worker' = [worker EXCEPT ![w] = NoWork] /\ pendingCount' = pendingCount - 1
        /\ UNCHANGED <<queue, log, lastLogin>>
    BY DEF Finish
  <1>2. Holds(w) /\ e \in Login
    BY <1>1 DEF Holds, RecorderInv, RecorderTypes
  <1>3. producer[e] = "queued" /\ \A i \in 1 .. Len(queue) : queue[i] # e
    BY <1>2 DEF RecorderInv, HeldOnce
  <1>4. /\ DOMAIN producer' = Login /\ producer'[e] \in {"written", "dropped"}
        /\ \A d \in Login : d # e => producer'[d] = producer[d]
    BY <1>1, <1>2 DEF RecorderInv, RecorderTypes
  <1>5. /\ DOMAIN worker' = Worker /\ DOMAIN worker'[w] = {"step", "login", "attempt"} /\ worker'[w].step = "idle"
        /\ \A v \in Worker : v # w => worker'[v] = worker[v]
    BY <1>1 DEF RecorderInv, RecorderTypes, NoWork
  <1>6. \A v \in Worker : Holds(v)' => v # w /\ Holds(v)
    BY <1>5 DEF Holds
  <1>7. Counted' = Counted \ {e} /\ e \in Counted
    BY <1>2, <1>3, <1>4 DEF Counted
  <1>8. PendingCounts' /\ pendingCount' \in Nat
    BY <1>1, <1>7, OneLessCounted
  <1>9. RecorderTypes'
    BY <1>1, <1>4, <1>5, <1>6, <1>8 DEF RecorderInv, RecorderTypes, RecordStates, WorkStates
  <1>10. HeldOnce'
    <2>1. \A i \in 1 .. Len(queue) : queue[i] \in Login
      BY DEF RecorderInv, RecorderTypes
    <2>2. \A v \in Worker : v # w /\ Holds(v) => worker[v].login # e /\ worker[v].login \in Login
      BY <1>2 DEF RecorderInv, RecorderTypes, HeldOnce
    <2>3. \A i \in 1 .. Len(queue') : producer'[queue'[i]] = "queued"
      BY <1>1, <1>3, <1>4, <2>1 DEF RecorderInv, HeldOnce
    <2>4. ASSUME NEW v \in Worker, Holds(v)'
          PROVE  /\ producer'[worker'[v].login] = "queued"
                 /\ \A i \in 1 .. Len(queue') : queue'[i] # worker'[v].login
                 /\ \A u \in Worker : u # v /\ Holds(u)' => worker'[u].login # worker'[v].login
      BY <1>1, <1>4, <1>5, <1>6, <2>2, <2>4 DEF RecorderInv, HeldOnce
    <2> QED
      BY <1>1, <2>3, <2>4 DEF RecorderInv, HeldOnce
  <1>11. LastLoginIsNewest'
    BY <1>1 DEF RecorderInv, LastLoginIsNewest
  <1> QED
    BY <1>8, <1>9, <1>10, <1>11 DEF RecorderInv

LEMMA RecorderStepKeeps == RecorderInv /\ [RecorderNext]_recorderVars => RecorderInv'
  <1> SUFFICES ASSUME RecorderInv, [RecorderNext]_recorderVars PROVE RecorderInv'
    OBVIOUS
  <1>1. ASSUME NEW e \in Login, EnqueueCount(e) \/ EnqueuePut(e) PROVE RecorderInv'
    BY <1>1, CountKeeps, PutKeeps
  <1>2. ASSUME NEW w \in Worker, RecorderStep(w) PROVE RecorderInv'
    BY <1>2, TakeKeeps, RecordKeeps, WorkerKeeps, FinishKeeps DEF RecorderStep
  <1>3. CASE StopRecorder \/ UNCHANGED recorderVars
    <2>1. UNCHANGED <<producer, queue, worker, pendingCount, log, lastLogin>>
      BY <1>3 DEF StopRecorder, recorderVars
    <2> QED
      BY <2>1 DEF RecorderInv, RecorderTypes, HeldOnce, PendingCounts, LastLoginIsNewest, Holds
  <1> QED
    BY <1>1, <1>2, <1>3 DEF RecorderNext

\* The recorder accounts for every record until it is settled, also what a stop
\* abandons, and the profile shows the newest record written, for any number of
\* records and workers and any capacity (RecorderKept).
THEOREM RecorderKeepsPromise == RecorderSpec => []RecorderKept
  <1>1. RecorderSpec => []RecorderInv
    BY RecorderInitHolds, RecorderStepKeeps, PTL DEF RecorderSpec
  <1>2. RecorderInv => PendingCounts /\ LastLoginIsNewest
    BY DEF RecorderInv
  <1> QED
    BY <1>1, <1>2, PTL DEF RecorderKept

(***************************************************************************)
(* The presence cache (PresenceCache): a running fetch is the one that     *)
(* will end the flights of its users.                                      *)
(***************************************************************************)
FetchTypes ==
    /\ DOMAIN entry = Contact /\ DOMAIN flight = Contact /\ DOMAIN fetch = Fetch
    /\ \A f \in Fetch : fetch[f].step \in {"none", "slot", "load", "done"}
    /\ \A f \in Running : DOMAIN fetch[f] = {"step", "ids"} /\ fetch[f].ids \subseteq Contact

\* A fetch under way is the one that will end the flights of all its users.
FlightOfFetch == \A f \in Running : \A c \in fetch[f].ids : flight[c] = f

PresenceInv == FetchTypes /\ FlightWillEnd /\ FlightOfFetch /\ EntriesBounded

LEMMA PresenceInitHolds == PresenceInit => PresenceInv
  <1> SUFFICES ASSUME PresenceInit PROVE PresenceInv
    OBVIOUS
  <1>1. FetchTypes /\ FlightWillEnd /\ FlightOfFetch
    BY DEF PresenceInit, FetchTypes, FlightWillEnd, FlightOfFetch, Running
  <1>2. {c \in Contact : entry[c] # Unseen} = {}
    BY DEF PresenceInit
  <1>3. EntriesBounded
    BY <1>2, FS_EmptySet, PresenceAssumption DEF EntriesBounded, PresenceAssumption
  <1> QED
    BY <1>1, <1>3 DEF PresenceInv

LEMMA QueryKeeps ==
  ASSUME PresenceInv, NEW q \in Query, NEW ids \in SUBSET Contact, NEW f \in Fetch, NEW fresh \in SUBSET Contact,
         QueryPresence(q, ids, f, fresh)
  PROVE  PresenceInv'
  <1>1. /\ \A c \in fresh : flight[c] = 0
        /\ fetch[f].step = "none" /\ entry' = entry
        /\ flight' = [c \in Contact |-> IF c \in fresh THEN f ELSE flight[c]]
        /\ fetch' = IF fresh = {} THEN fetch ELSE [fetch EXCEPT ![f] = [step |-> "slot", ids |-> fresh]]
    BY DEF QueryPresence, Missing
  <1>2. f # 0
    BY PresenceAssumption DEF PresenceAssumption
  <1>3. CASE fresh = {}
    <2>1. fetch' = fetch /\ DOMAIN flight' = Contact /\ \A c \in Contact : flight'[c] = flight[c]
      BY <1>1, <1>3
    <2> QED
      BY <1>1, <2>1 DEF PresenceInv, FetchTypes, FlightWillEnd, FlightOfFetch, EntriesBounded, Running
  <1>4. CASE fresh # {}
    <2>1. /\ DOMAIN fetch' = Fetch /\ DOMAIN fetch'[f] = {"step", "ids"}
          /\ fetch'[f].step = "slot" /\ fetch'[f].ids = fresh
          /\ \A g \in Fetch : g # f => fetch'[g] = fetch[g]
      BY <1>1, <1>4 DEF PresenceInv, FetchTypes
    <2>2. Running' = Running \union {f} /\ f \notin Running
      BY <1>1, <2>1 DEF Running
    <2>3. FetchTypes'
      BY <1>1, <2>1, <2>2 DEF PresenceInv, FetchTypes
    <2>4. FlightWillEnd'
      BY <1>1, <1>2, <2>1, <2>2 DEF PresenceInv, FlightWillEnd
    <2>5. FlightOfFetch'
      <3> SUFFICES ASSUME NEW g \in Running', NEW c \in fetch'[g].ids PROVE flight'[c] = g
        BY DEF FlightOfFetch
      <3>1. CASE g = f
        BY <1>1, <2>1, <3>1
      <3>2. CASE g # f
        <4>1. g \in Running /\ c \in fetch[g].ids /\ g \in Fetch
          BY <2>1, <2>2, <3>2 DEF Running
        <4>2. c \in Contact /\ flight[c] = g /\ g # 0
          BY <4>1, PresenceAssumption DEF PresenceInv, FlightOfFetch, FetchTypes, PresenceAssumption
        <4> QED
          BY <1>1, <4>2
      <3> QED
        BY <3>1, <3>2
    <2>6. EntriesBounded'
      BY <1>1 DEF PresenceInv, EntriesBounded
    <2> QED
      BY <2>3, <2>4, <2>5, <2>6 DEF PresenceInv
  <1> QED
    BY <1>3, <1>4

LEMMA SlotKeeps ==
  ASSUME PresenceInv, NEW f \in Fetch, TakeSlot(f)
  PROVE  PresenceInv'
  <1>1. fetch[f].step = "slot" /\ fetch' = [fetch EXCEPT ![f].step = "load"] /\ UNCHANGED <<entry, flight>>
    BY DEF TakeSlot
  <1>2. f \in Running
    BY <1>1 DEF Running
  <1>3. /\ DOMAIN fetch' = Fetch /\ DOMAIN fetch'[f] = {"step", "ids"}
        /\ fetch'[f].step = "load" /\ fetch'[f].ids = fetch[f].ids
        /\ \A g \in Fetch : g # f => fetch'[g] = fetch[g]
    BY <1>1, <1>2 DEF PresenceInv, FetchTypes
  <1>4. Running' = Running /\ \A g \in Fetch : fetch'[g].ids = fetch[g].ids
    BY <1>1, <1>3 DEF Running
  <1>5. FetchTypes'
    BY <1>1, <1>2, <1>3, <1>4 DEF PresenceInv, FetchTypes
  <1>6. FlightWillEnd' /\ FlightOfFetch'
    <2>1. \A g \in Running : g \in Fetch
      BY DEF Running
    <2> QED
      BY <1>1, <1>4, <2>1 DEF PresenceInv, FlightWillEnd, FlightOfFetch
  <1>7. EntriesBounded'
    BY <1>1 DEF PresenceInv, EntriesBounded
  <1> QED
    BY <1>5, <1>6, <1>7 DEF PresenceInv

\* However a fetch ends, it ends the flights of its users and nobody else's, and
\* the cache has room for what it keeps.
LEMMA EndKeeps ==
  ASSUME PresenceInv, NEW f \in Running, NEW answer, EndFetch(f, answer)
  PROVE  PresenceInv'
  <1>1. PICK staying \in MakeRoom(Candidates(f, answer), KnownOf(f, answer)) :
           entry' = [c \in Contact |-> IF c \notin staying THEN Unseen ELSE IF c \in fetch[f].ids THEN answer[c] ELSE entry[c]]
    BY DEF EndFetch
  <1>2. /\ flight' = [c \in Contact |-> IF c \in fetch[f].ids THEN 0 ELSE flight[c]]
        /\ fetch' = [fetch EXCEPT ![f] = [step |-> "done", ids |-> fetch[f].ids, answer |-> answer]]
    BY DEF EndFetch, EndFlights
  <1>3. f \in Fetch /\ fetch[f].ids \subseteq Contact
    BY DEF PresenceInv, FetchTypes, Running
  <1>4. /\ DOMAIN fetch' = Fetch /\ fetch'[f].step = "done" /\ \A g \in Fetch : g # f => fetch'[g] = fetch[g]
    BY <1>2, <1>3 DEF PresenceInv, FetchTypes
  <1>5. Running' = Running \ {f}
    BY <1>4 DEF Running
  <1>6. FetchTypes'
    BY <1>1, <1>2, <1>4, <1>5 DEF PresenceInv, FetchTypes
  <1>7. FlightOfFetch'
    <2> SUFFICES ASSUME NEW g \in Running', NEW c \in fetch'[g].ids PROVE flight'[c] = g
      BY DEF FlightOfFetch
    <2>1. g \in Running /\ g # f /\ g \in Fetch /\ c \in fetch[g].ids
      BY <1>4, <1>5 DEF Running
    <2>2. flight[c] = g /\ c \in Contact
      BY <2>1 DEF PresenceInv, FlightOfFetch, FetchTypes
    <2>3. c \notin fetch[f].ids
      BY <2>1, <2>2 DEF PresenceInv, FlightOfFetch
    <2> QED
      BY <1>2, <2>2, <2>3
  <1>8. FlightWillEnd'
    <2> SUFFICES ASSUME NEW c \in Contact, flight'[c] # 0 PROVE flight'[c] \in Running' /\ c \in fetch'[flight'[c]].ids
      BY DEF FlightWillEnd
    <2>1. c \notin fetch[f].ids /\ flight'[c] = flight[c]
      BY <1>2
    <2>2. flight[c] \in Running /\ c \in fetch[flight[c]].ids
      BY <2>1 DEF PresenceInv, FlightWillEnd
    <2>3. flight[c] # f /\ flight[c] \in Fetch
      BY <2>1, <2>2 DEF Running
    <2> QED
      BY <1>4, <1>5, <2>1, <2>2, <2>3
  <1>9. EntriesBounded'
    <2>1. Candidates(f, answer) \subseteq Contact
      BY <1>3 DEF Candidates, KnownOf
    <2>2. staying \subseteq Contact /\ IsFiniteSet(staying) /\ Cardinality(staying) <= MaxEntry
      <3>1. CASE Cardinality(Candidates(f, answer)) <= MaxEntry
        <4>1. staying = Candidates(f, answer)
          BY <1>1, <3>1 DEF MakeRoom
        <4> QED
          BY <2>1, <3>1, <4>1, FS_Subset, PresenceAssumption DEF PresenceAssumption
      <3>2. CASE ~(Cardinality(Candidates(f, answer)) <= MaxEntry)
        <4>1. staying \in SUBSET Candidates(f, answer) /\ Cardinality(staying) = MaxEntry
          BY <1>1, <3>2 DEF MakeRoom
        <4>2. staying \in SUBSET Contact
          BY <2>1, <4>1
        <4> QED
          BY <4>1, <4>2, FS_Subset, PresenceAssumption DEF PresenceAssumption
      <3> QED
        BY <3>1, <3>2
    <2>3. {c \in Contact : entry'[c] # Unseen} \in SUBSET staying
      BY <1>1
    <2>4. /\ Cardinality({c \in Contact : entry'[c] # Unseen}) <= Cardinality(staying)
          /\ Cardinality({c \in Contact : entry'[c] # Unseen}) \in Nat /\ Cardinality(staying) \in Nat
      BY <2>2, <2>3, FS_Subset, FS_CardinalityType
    <2> QED
      BY <2>2, <2>4, PresenceAssumption DEF EntriesBounded, PresenceAssumption
  <1> QED
    BY <1>6, <1>7, <1>8, <1>9 DEF PresenceInv

LEMMA ExpireKeeps ==
  ASSUME PresenceInv, NEW c \in Contact, Expire(c)
  PROVE  PresenceInv'
  <1>1. entry' = [entry EXCEPT ![c] = Unseen] /\ UNCHANGED <<flight, fetch>>
    BY DEF Expire
  <1>2. EntriesBounded'
    <2> DEFINE S == {d \in Contact : entry[d] # Unseen}
    <2>1. S \in SUBSET Contact /\ IsFiniteSet(S)
      BY FS_Subset, PresenceAssumption DEF PresenceAssumption
    <2>2. {d \in Contact : entry'[d] # Unseen} \in SUBSET S
      BY <1>1 DEF PresenceInv, FetchTypes
    <2>3. Cardinality({d \in Contact : entry'[d] # Unseen}) <= Cardinality(S)
          /\ Cardinality({d \in Contact : entry'[d] # Unseen}) \in Nat /\ Cardinality(S) \in Nat
      BY <2>1, <2>2, FS_Subset, FS_CardinalityType
    <2>4. Cardinality(S) <= MaxEntry
      BY DEF PresenceInv, EntriesBounded
    <2> QED
      BY <2>3, <2>4, PresenceAssumption DEF EntriesBounded, PresenceAssumption
  <1>3. FetchTypes' /\ FlightWillEnd' /\ FlightOfFetch'
    BY <1>1 DEF PresenceInv, FetchTypes, FlightWillEnd, FlightOfFetch, Running
  <1> QED
    BY <1>2, <1>3 DEF PresenceInv

LEMMA PresenceStays ==
  ASSUME PresenceInv, UNCHANGED <<entry, flight, fetch>>
  PROVE  PresenceInv'
  BY DEF PresenceInv, FetchTypes, FlightWillEnd, FlightOfFetch, EntriesBounded, Running

LEMMA PresenceStep == PresenceInv /\ [PresenceNext]_presenceVars => PresenceInv'
  <1> SUFFICES ASSUME PresenceInv, [PresenceNext]_presenceVars PROVE PresenceInv'
    OBVIOUS
  <1>1. ASSUME NEW q \in Query, NEW ids \in SUBSET Contact \ {{}}, NEW f \in Fetch, NEW fresh \in SUBSET Contact,
               QueryPresence(q, ids, f, fresh)
        PROVE  PresenceInv'
    BY <1>1, QueryKeeps
  <1>2. ASSUME NEW q \in Query, QueryStep(q) PROVE PresenceInv'
    BY <1>2, PresenceStays DEF QueryStep, Receive, UserPresence
  <1>3. ASSUME NEW q \in Query, CancelQuery(q) PROVE PresenceInv'
    BY <1>3, PresenceStays DEF CancelQuery, FetchGoesOn
  <1>4. ASSUME NEW f \in Fetch, FetchStep(f) PROVE PresenceInv'
    <2>1. CASE TakeSlot(f)
      BY <2>1, SlotKeeps
    <2>2. CASE LoadEnds(f)
      <3>1. f \in Running /\ \E answer \in [fetch[f].ids -> Status] \cup {AllUnknown(f)} : EndFetch(f, answer)
        BY <2>2 DEF LoadEnds, Running
      <3> QED
        BY <3>1, EndKeeps
    <2>3. CASE SlotTimeout(f)
      <3>1. f \in Running /\ EndFetch(f, AllUnknown(f))
        BY <2>3 DEF SlotTimeout, Running
      <3> QED
        BY <3>1, EndKeeps
    <2> QED
      BY <1>4, <2>1, <2>2, <2>3 DEF FetchStep
  <1>5. ASSUME NEW c \in Contact, Expire(c) PROVE PresenceInv'
    BY <1>5, ExpireKeeps
  <1>6. CASE UNCHANGED presenceVars
    BY <1>6, PresenceStays DEF presenceVars
  <1> QED
    BY <1>1, <1>2, <1>3, <1>4, <1>5, <1>6 DEF PresenceNext

\* The queries of presence share their flights: no two fetches run for one user,
\* a flight in the table is ended by a fetch under way, and the cache is bounded,
\* for any number of contacts, queries and slots (PresenceKept).
THEOREM PresenceKeepsPromise == PresenceSpec => []PresenceKept
  <1>1. PresenceSpec => []PresenceInv
    BY PresenceInitHolds, PresenceStep, PTL DEF PresenceSpec
  <1>2. PresenceInv => OneFetchPerUser /\ FlightWillEnd /\ EntriesBounded
    <2>1. PresenceInv => OneFetchPerUser
      BY DEF PresenceInv, OneFetchPerUser, FlightOfFetch
    <2> QED
      BY <2>1 DEF PresenceInv
  <1> QED
    BY <1>1, <1>2, PTL DEF PresenceKept

(***************************************************************************)
(* Webhook events (WebhookInbox): what a recovery holds nobody else        *)
(* changes, and what is shown is the newest of what took effect.           *)
(***************************************************************************)
WebhookTypeOK ==
    /\ receipt \in [Event -> [status : {"none", "pending", "processing", "completed", "failed"}, at : Nat]]
    /\ applied \in [Event -> Nat]
    /\ presenceShown \in [event : Nat, at : Nat]
    /\ tick \in Nat
    /\ DOMAIN hook = Hook
    /\ \A e \in Event : receipt[e].status # "none" => receipt[e].at > 0
    /\ \A h \in Hook : hook[h] \in Seq([event : Event, at : Nat \ {0}])
    /\ DOMAIN starter = Starter
    /\ \A s \in Starter :
         InBatch(s) => starter[s] \in [step : {"batch"}, batch : SUBSET Event, todo : SUBSET Event,
                                       bad : SUBSET Event, shows : [event : Nat, at : Nat]]

\* What a shown event is, given the events that may be shown.
ShowsOneOf(view, events) ==
    /\ view = NothingShown \/ (view.event \in events /\ view.at = receipt[view.event].at /\ view.at > 0)
    /\ \A e \in events : view.event \in events /\ receipt[e].at <= view.at

Taken(s) == starter[s].batch \ (starter[s].todo \cup starter[s].bad)

BatchesHeld ==
    /\ \A s \in Starter : InBatch(s) =>
         /\ starter[s].todo \subseteq starter[s].batch
         /\ starter[s].bad \subseteq starter[s].batch \ starter[s].todo
         /\ \A e \in starter[s].batch : receipt[e].status \in Unprocessed
         /\ ShowsOneOf(starter[s].shows, Taken(s))
    /\ \A s, t \in Starter : InBatch(s) /\ InBatch(t) /\ s # t =>
         starter[s].batch \cap starter[t].batch = {}

ShownTookEffect == ShowsOneOf(presenceShown, {e \in Event : applied[e] > 0})

WebhookInv == WebhookTypeOK /\ EffectOnce /\ BatchesHeld /\ ShownTookEffect

LEMMA ShowsTheNewer ==
    ASSUME NEW view \in [event : Nat, at : Nat], NEW e \in Event, NEW events, events \subseteq Event,
           receipt[e].at \in Nat \ {0}, \A f \in Event : receipt[f].at \in Nat, ShowsOneOf(view, events)
    PROVE  ShowsOneOf(ProjectWukongOnlineStatus(view, e, receipt[e].at), events \cup {e})
  <1> PICK next : next = ProjectWukongOnlineStatus(view, e, receipt[e].at)
    OBVIOUS
  <1>1. CASE receipt[e].at >= view.at
    <2>1. next.event = e /\ next.at = receipt[e].at
      BY <1>1 DEF ProjectWukongOnlineStatus
    <2>2. ASSUME NEW f \in events \cup {e} PROVE next.event \in events \cup {e} /\ receipt[f].at <= next.at
      BY <1>1, <2>1, <2>2 DEF ShowsOneOf
    <2> QED
      BY <2>1, <2>2 DEF ShowsOneOf
  <1>2. CASE ~(receipt[e].at >= view.at)
    <2>1. next = view /\ view # NothingShown /\ receipt[e].at <= view.at
      BY <1>2 DEF ProjectWukongOnlineStatus, NothingShown
    <2> QED
      BY <2>1 DEF ShowsOneOf
  <1> QED
    BY <1>1, <1>2

\* Two events shown one after the other, of two sets: the later of them is shown.
LEMMA ShowsBoth ==
    ASSUME NEW view \in [event : Nat, at : Nat], NEW other \in [event : Nat, at : Nat], NEW A, NEW B,
           A \subseteq Event, B \subseteq Event, \A f \in Event : receipt[f].at \in Nat,
           ShowsOneOf(view, A), ShowsOneOf(other, B)
    PROVE  ShowsOneOf(ProjectWukongOnlineStatus(view, other.event, other.at), A \cup B)
  <1> PICK next : next = ProjectWukongOnlineStatus(view, other.event, other.at)
    OBVIOUS
  <1>1. CASE other.at >= view.at
    <2>1. next = other
      BY <1>1 DEF ProjectWukongOnlineStatus
    <2>2. ASSUME NEW f \in A PROVE other.event \in A \cup B /\ receipt[f].at <= other.at
      <3>1. receipt[f].at <= view.at /\ view.event \in A
        BY <2>2 DEF ShowsOneOf
      <3>2. receipt[f].at <= other.at
        BY <1>1, <3>1, <2>2
      <3>3. CASE other = NothingShown
        <4> QED
          BY <3>1, <3>3, <1>1 DEF NothingShown, ShowsOneOf
      <3> QED
        BY <3>2, <3>3 DEF ShowsOneOf
    <2> QED
      BY <2>1, <2>2 DEF ShowsOneOf
  <1>2. CASE ~(other.at >= view.at)
    <2>1. next = view
      BY <1>2 DEF ProjectWukongOnlineStatus
    <2>2. view # NothingShown /\ view.event \in A /\ view.at = receipt[view.event].at
      BY <1>2 DEF NothingShown, ShowsOneOf
    <2>3. ASSUME NEW f \in B PROVE receipt[f].at <= view.at
      BY <1>2, <2>3 DEF ShowsOneOf
    <2> QED
      BY <2>1, <2>2, <2>3 DEF ShowsOneOf
  <1> QED
    BY <1>1, <1>2

\* What is shown stays so when receipts of other events change.
LEMMA ShowsStill ==
    ASSUME NEW view, NEW events, ShowsOneOf(view, events),
           \A e \in events : receipt'[e].at = receipt[e].at
    PROVE  ShowsOneOf(view, events)'
  BY DEF ShowsOneOf

LEMMA WebhookStarts == WebhookInit => WebhookInv
  <1> SUFFICES ASSUME WebhookInit PROVE WebhookInv
    OBVIOUS
  <1>1. PICK left \in {{}, Legacy} : \E was \in [left -> [status : Unprocessed, at : 1 .. 2]] :
             receipt = [e \in Event |-> IF e \in left THEN was[e] ELSE NoReceipt]
    BY DEF WebhookInit
  <1>2. PICK was \in [left -> [status : Unprocessed, at : 1 .. 2]] :
             receipt = [e \in Event |-> IF e \in left THEN was[e] ELSE NoReceipt]
    BY <1>1
  <1>3. ASSUME NEW e \in Event
        PROVE  /\ receipt[e] \in [status : {"none", "pending", "processing"}, at : Nat]
               /\ receipt[e].status # "none" => receipt[e].at > 0
    <2>1. CASE e \in left
      BY <1>2, <2>1 DEF Unprocessed
    <2>2. CASE e \notin left
      BY <1>2, <2>2 DEF NoReceipt
    <2> QED
      BY <2>1, <2>2
  <1>4. WebhookTypeOK
    <2>1. receipt \in [Event -> [status : {"none", "pending", "processing", "completed", "failed"}, at : Nat]]
      <3>1. DOMAIN receipt = Event /\ receipt = [e \in Event |-> receipt[e]]
        BY <1>2
      <3> QED
        BY <1>3, <3>1
    <2> QED
      BY <1>3, <2>1 DEF WebhookInit, WebhookTypeOK, NothingShown, InBatch
  <1>5. EffectOnce
    BY <1>3 DEF EffectOnce, WebhookInit
  <1> QED
    BY <1>4, <1>5 DEF WebhookInv, BatchesHeld, ShownTookEffect, ShowsOneOf, InBatch, WebhookInit

\* A call that only changes what it has yet to persist leaves the rest as it is.
LEMMA OnlyTheCall ==
    ASSUME WebhookInv, UNCHANGED <<receipt, applied, presenceShown, starter>>, tick' \in Nat,
           DOMAIN hook' = Hook, \A g \in Hook : hook'[g] \in Seq([event : Event, at : Nat \ {0}])
    PROVE  WebhookInv'
  <1>1. WebhookTypeOK'
    BY DEF WebhookInv, WebhookTypeOK, InBatch
  <1>2. EffectOnce' /\ ShownTookEffect'
    BY DEF WebhookInv, EffectOnce, ShownTookEffect, ShowsOneOf
  <1>3. BatchesHeld'
    BY DEF WebhookInv, BatchesHeld, ShowsOneOf, Taken, InBatch
  <1> QED
    BY <1>1, <1>2, <1>3 DEF WebhookInv

LEMMA WebhookCallSteps ==
    ASSUME WebhookInv, NEW h \in Hook,
           (\E posts \in Batches : SendWebhook(h, posts)) \/ PutWukongWebhookEvent(h) \/ PutFails(h)
    PROVE  WebhookInv'
  <1> USE DEF WebhookInv
  <1>1. CASE \E posts \in Batches : SendWebhook(h, posts)
    <2> PICK posts \in Batches : SendWebhook(h, posts)
      BY <1>1
    <2>1. UNCHANGED <<receipt, applied, presenceShown, starter>> /\ tick' = tick + 1
      BY DEF SendWebhook
    <2>2. [i \in DOMAIN posts |-> [event |-> posts[i], at |-> tick']] \in Seq([event : Event, at : Nat \ {0}])
      <3>0. tick' \in Nat \ {0}
        BY <2>1 DEF WebhookTypeOK
      <3>1. CASE \E e \in Event : posts = <<e>>
        BY <3>0, <3>1
      <3>2. CASE \E e, f \in Event : posts = <<e, f>>
        BY <3>0, <3>2
      <3> QED
        BY <3>1, <3>2 DEF Batches
    <2>3. DOMAIN hook' = Hook /\ \A g \in Hook : hook'[g] \in Seq([event : Event, at : Nat \ {0}])
      BY <2>2 DEF SendWebhook, WebhookTypeOK
    <2>4. tick' \in Nat
      BY <2>1 DEF WebhookTypeOK
    <2> QED
      BY <2>1, <2>3, <2>4, OnlyTheCall
  <1>2. CASE PutFails(h)
    <2>1. DOMAIN hook' = Hook /\ \A g \in Hook : hook'[g] \in Seq([event : Event, at : Nat \ {0}])
      <3>1. <<>> \in Seq([event : Event, at : Nat \ {0}])
        OBVIOUS
      <3>2. hook' = [hook EXCEPT ![h] = <<>>]
        BY <1>2 DEF PutFails
      <3> QED
        BY <3>1, <3>2 DEF WebhookTypeOK
    <2>2. UNCHANGED <<receipt, applied, presenceShown, starter, tick>>
      BY <1>2 DEF PutFails
    <2>3. tick' \in Nat
      BY <2>2 DEF WebhookTypeOK
    <2> QED
      BY <2>1, <2>2, <2>3, OnlyTheCall
  <1>3. CASE PutWukongWebhookEvent(h)
    <2> PICK e, at : e = Head(hook[h]).event /\ at = Head(hook[h]).at
      OBVIOUS
    <2>1. e \in Event /\ at \in Nat \ {0} /\ Tail(hook[h]) \in Seq([event : Event, at : Nat \ {0}])
      <3>1. hook[h] # <<>> /\ hook[h] \in Seq([event : Event, at : Nat \ {0}])
        BY <1>3 DEF PutWukongWebhookEvent, WebhookTypeOK
      <3>2. Head(hook[h]) \in [event : Event, at : Nat \ {0}]
            /\ Tail(hook[h]) \in Seq([event : Event, at : Nat \ {0}])
        BY <3>1, HeadTailProperties
      <3> QED
        BY <3>2
    <2>2. DOMAIN hook' = Hook /\ \A g \in Hook : hook'[g] \in Seq([event : Event, at : Nat \ {0}])
      <3>1. hook' = [hook EXCEPT ![h] = Tail(hook[h])]
        BY <1>3 DEF PutWukongWebhookEvent
      <3> QED
        BY <2>1, <3>1 DEF WebhookTypeOK
    <2>3. UNCHANGED <<starter, tick>>
      BY <1>3 DEF PutWukongWebhookEvent
    <2>4. CASE ~NewEvent(e)
      <3>1. UNCHANGED <<receipt, applied, presenceShown>>
        BY <1>3, <2>4 DEF PutWukongWebhookEvent
      <3>2. tick' \in Nat
        BY <2>3 DEF WebhookTypeOK
      <3> QED
        BY <2>2, <2>3, <3>1, <3>2, OnlyTheCall
    <2>5. CASE NewEvent(e)
      <3>1. /\ receipt' = [receipt EXCEPT ![e] = [status |-> "completed", at |-> at]]
            /\ applied' = [applied EXCEPT ![e] = @ + 1]
            /\ presenceShown' = ProjectWukongOnlineStatus(presenceShown, e, at)
        BY <1>3, <2>5 DEF PutWukongWebhookEvent
      <3>2. applied[e] = 0 /\ applied'[e] = 1 /\ \A f \in Event \ {e} : applied'[f] = applied[f]
        BY <2>1, <2>5, <3>1 DEF EffectOnce, NewEvent, WebhookTypeOK
      <3>3. receipt'[e].at = at /\ receipt'[e].status = "completed" /\ \A f \in Event \ {e} : receipt'[f] = receipt[f]
        BY <2>1, <3>1 DEF WebhookTypeOK
      <3>4. presenceShown' \in [event : Nat, at : Nat]
        BY <2>1, <3>1, WebhookAssumption DEF WebhookTypeOK, ProjectWukongOnlineStatus, WebhookAssumption
      <3>5. WebhookTypeOK'
        <4>1. receipt' \in [Event -> [status : {"none", "pending", "processing", "completed", "failed"}, at : Nat]]
          BY <2>1, <3>1 DEF WebhookTypeOK
        <4>2. applied' \in [Event -> Nat]
          BY <2>1, <3>1, <3>2 DEF WebhookTypeOK
        <4>3. \A f \in Event : receipt'[f].status # "none" => receipt'[f].at > 0
          <5>1. \A f \in Event \ {e} : receipt[f].status # "none" => receipt[f].at > 0
            BY DEF WebhookTypeOK
          <5> QED
            BY <2>1, <3>3, <5>1
        <4>4. tick' \in Nat /\ DOMAIN starter' = Starter
          BY <2>3 DEF WebhookTypeOK
        <4>5. ASSUME NEW s \in Starter, InBatch(s)'
              PROVE  starter'[s] \in [step : {"batch"}, batch : SUBSET Event, todo : SUBSET Event,
                                      bad : SUBSET Event, shows : [event : Nat, at : Nat]]
          BY <2>3, <4>5 DEF WebhookTypeOK, InBatch
        <4> QED
          BY <2>2, <3>4, <4>1, <4>2, <4>3, <4>4, <4>5 DEF WebhookTypeOK
      <3>6. EffectOnce'
        BY <3>2, <3>3 DEF EffectOnce
      <3>7. \A s \in Starter : InBatch(s) => e \notin starter[s].batch
        BY <2>5 DEF BatchesHeld, NewEvent, Unprocessed
      <3>8. BatchesHeld'
        <4>1. ASSUME NEW s \in Starter, InBatch(s) PROVE ShowsOneOf(starter[s].shows, Taken(s))'
          <5>1. Taken(s) \subseteq Event /\ e \notin Taken(s)
            BY <3>7, <4>1 DEF Taken, WebhookTypeOK
          <5> QED
            BY <2>3, <3>3, <4>1, <5>1 DEF BatchesHeld, ShowsOneOf, Taken
        <4>2. ASSUME NEW s \in Starter, InBatch(s), NEW f \in starter[s].batch PROVE receipt'[f].status \in Unprocessed
          <5>1. f \in Event /\ f # e
            BY <3>7, <4>2 DEF WebhookTypeOK
          <5> QED
            BY <3>3, <4>2, <5>1 DEF BatchesHeld
        <4> QED
          BY <2>3, <4>1, <4>2 DEF BatchesHeld, InBatch
      <3>9. ShownTookEffect'
        <4> PICK before : before = {f \in Event : applied[f] > 0}
          OBVIOUS
        <4>1. e \notin before /\ before \subseteq Event
          BY <3>2
        <4>3. {f \in Event : applied'[f] > 0} = before \cup {e}
          BY <2>1, <3>2
        <4>4. CASE at >= presenceShown.at
          <5>1. presenceShown' = [event |-> e, at |-> at]
            BY <3>1, <4>4 DEF ProjectWukongOnlineStatus
          <5>2. ASSUME NEW f \in before PROVE receipt'[f].at <= at
            <6>1. receipt[f].at <= presenceShown.at /\ f # e /\ f \in Event
              BY <4>1, <5>2 DEF ShownTookEffect, ShowsOneOf
            <6>2. receipt[f].at \in Nat /\ presenceShown.at \in Nat
              BY <6>1 DEF WebhookTypeOK
            <6> QED
              BY <2>1, <3>3, <4>4, <6>1, <6>2
          <5> QED
            BY <2>1, <3>3, <4>3, <5>1, <5>2 DEF ShownTookEffect, ShowsOneOf
        <4>5. CASE ~(at >= presenceShown.at)
          <5>1. presenceShown' = presenceShown /\ at <= presenceShown.at /\ presenceShown # NothingShown
            BY <2>1, <3>1, <4>5 DEF ProjectWukongOnlineStatus, WebhookTypeOK, NothingShown
          <5>2. presenceShown.event \in before /\ presenceShown.at = receipt[presenceShown.event].at
                /\ presenceShown.at > 0
            BY <5>1 DEF ShownTookEffect, ShowsOneOf
          <5>3. ASSUME NEW f \in before \cup {e} PROVE receipt'[f].at <= presenceShown.at
            BY <3>3, <4>1, <5>1, <5>3 DEF ShownTookEffect, ShowsOneOf
          <5> QED
            BY <3>3, <4>1, <4>3, <5>1, <5>2, <5>3 DEF ShownTookEffect, ShowsOneOf
        <4> QED
          BY <4>4, <4>5
      <3> QED
        BY <3>5, <3>6, <3>8, <3>9
    <2> QED
      BY <2>4, <2>5
  <1> QED
    BY <1>1, <1>2, <1>3

\* A starter's transaction changes its own entry only.
LEMMA OnlyTheStarter ==
    ASSUME WebhookInv, NEW s \in Starter, UNCHANGED <<receipt, applied, presenceShown, hook, tick>>,
           DOMAIN starter' = Starter, \A t \in Starter \ {s} : starter'[t] = starter[t],
           InBatch(s)' =>
             /\ starter'[s] \in [step : {"batch"}, batch : SUBSET Event, todo : SUBSET Event,
                                 bad : SUBSET Event, shows : [event : Nat, at : Nat]]
             /\ starter'[s].todo \subseteq starter'[s].batch
             /\ starter'[s].bad \subseteq starter'[s].batch \ starter'[s].todo
             /\ \A e \in starter'[s].batch : receipt[e].status \in Unprocessed
             /\ ShowsOneOf(starter'[s].shows, starter'[s].batch \ (starter'[s].todo \cup starter'[s].bad))
             /\ \A t \in Starter \ {s} : InBatch(t) => starter'[s].batch \cap starter[t].batch = {}
    PROVE  WebhookInv'
  <1>1. WebhookTypeOK'
    <2>1. ASSUME NEW t \in Starter, InBatch(t)'
          PROVE  starter'[t] \in [step : {"batch"}, batch : SUBSET Event, todo : SUBSET Event,
                                  bad : SUBSET Event, shows : [event : Nat, at : Nat]]
      BY <2>1 DEF WebhookInv, WebhookTypeOK, InBatch
    <2> QED
      BY <2>1 DEF WebhookInv, WebhookTypeOK
  <1>2. EffectOnce' /\ ShownTookEffect'
    BY DEF WebhookInv, EffectOnce, ShownTookEffect, ShowsOneOf
  <1>3. BatchesHeld'
    <2>1. ASSUME NEW t \in Starter, InBatch(t)'
          PROVE  /\ starter'[t].todo \subseteq starter'[t].batch
                 /\ starter'[t].bad \subseteq starter'[t].batch \ starter'[t].todo
                 /\ \A e \in starter'[t].batch : receipt'[e].status \in Unprocessed
                 /\ ShowsOneOf(starter[t].shows, Taken(t))'
      <3>1. CASE t = s
        BY <2>1, <3>1 DEF Taken, ShowsOneOf
      <3>2. CASE t # s
        BY <2>1, <3>2 DEF Taken, ShowsOneOf, WebhookInv, BatchesHeld, InBatch
      <3> QED
        BY <3>1, <3>2
    <2>2. ASSUME NEW t \in Starter, NEW u \in Starter, InBatch(t)', InBatch(u)', t # u
          PROVE  starter'[t].batch \cap starter'[u].batch = {}
      BY <2>2 DEF WebhookInv, BatchesHeld, InBatch
    <2> QED
      BY <2>1, <2>2 DEF BatchesHeld
  <1> QED
    BY <1>1, <1>2, <1>3 DEF WebhookInv

LEMMA RecoverySteps ==
    ASSUME WebhookInv, NEW s \in Starter,
           RecoverWukongWebhookEvents(s) \/ RecoverEvent(s) \/ AbortRecovery(s)
    PROVE  WebhookInv'
  <1>0. DOMAIN starter = Starter
    BY DEF WebhookInv, WebhookTypeOK
  <1>1. CASE RecoverWukongWebhookEvents(s)
    <2>1. /\ UNCHANGED <<receipt, applied, presenceShown, hook, tick>>
          /\ starter' = [starter EXCEPT ![s] = [step |-> "batch", batch |-> NextBatch, todo |-> NextBatch,
                                                bad |-> {}, shows |-> NothingShown]]
      BY <1>1 DEF RecoverWukongWebhookEvents
    <2>2. NextBatch \subseteq Event /\ \A e \in NextBatch : e \notin Locked /\ receipt[e].status \in Unprocessed
      BY DEF NextBatch, Recoverable
    <2>3. \A t \in Starter \ {s} : InBatch(t) => NextBatch \cap starter[t].batch = {}
      BY <2>2 DEF Locked
    <2>4. starter'[s] = [step |-> "batch", batch |-> NextBatch, todo |-> NextBatch, bad |-> {}, shows |-> NothingShown]
      BY <1>0, <2>1
    <2>5. ShowsOneOf(NothingShown, NextBatch \ (NextBatch \cup {}))
      BY DEF ShowsOneOf
    <2>6. NothingShown \in [event : Nat, at : Nat]
      BY DEF NothingShown
    <2>7. starter'[s] \in [step : {"batch"}, batch : SUBSET Event, todo : SUBSET Event,
                           bad : SUBSET Event, shows : [event : Nat, at : Nat]]
      BY <2>2, <2>4, <2>6
    <2>8. /\ starter'[s].batch = NextBatch /\ starter'[s].todo = NextBatch /\ starter'[s].bad = {}
          /\ starter'[s].shows = NothingShown
      BY <2>4
    <2>9. DOMAIN starter' = Starter /\ \A t \in Starter \ {s} : starter'[t] = starter[t]
      BY <1>0, <2>1
    <2> QED
      BY <2>1, <2>2, <2>3, <2>5, <2>7, <2>8, <2>9, OnlyTheStarter
  <1>2. CASE RecoverEvent(s)
    <2>1. PICK e \in starter[s].todo :
              starter' = [starter EXCEPT ![s] = IF e \in Poison THEN RefusedIsMarked(s, e) ELSE Processed(s, e)]
      BY <1>2 DEF RecoverEvent
    <2>2. InBatch(s) /\ UNCHANGED <<receipt, applied, presenceShown, hook, tick>>
      BY <1>2 DEF RecoverEvent
    <2>3. /\ starter[s] \in [step : {"batch"}, batch : SUBSET Event, todo : SUBSET Event,
                             bad : SUBSET Event, shows : [event : Nat, at : Nat]]
          /\ starter[s].todo \subseteq starter[s].batch
          /\ starter[s].bad \subseteq starter[s].batch \ starter[s].todo
          /\ \A f \in starter[s].batch : receipt[f].status \in Unprocessed
          /\ ShowsOneOf(starter[s].shows, Taken(s))
          /\ \A t \in Starter \ {s} : InBatch(t) => starter[s].batch \cap starter[t].batch = {}
      BY <2>2 DEF WebhookInv, WebhookTypeOK, BatchesHeld
    <2>4. e \in Event /\ receipt[e].at \in Nat \ {0} /\ \A f \in Event : receipt[f].at \in Nat
      BY <2>3 DEF WebhookInv, WebhookTypeOK, Unprocessed
    <2>5. DOMAIN starter' = Starter /\ \A t \in Starter \ {s} : starter'[t] = starter[t]
      BY <1>0, <2>1
    <2>6. CASE e \in Poison
      <3>1. starter'[s] = RefusedIsMarked(s, e)
        BY <1>0, <2>1, <2>6
      <3>2. /\ starter'[s].step = "batch" /\ starter'[s].batch = starter[s].batch
            /\ starter'[s].todo = starter[s].todo \ {e} /\ starter'[s].bad = starter[s].bad \cup {e}
            /\ starter'[s].shows = starter[s].shows
            /\ starter'[s] \in [step : {"batch"}, batch : SUBSET Event, todo : SUBSET Event,
                                bad : SUBSET Event, shows : [event : Nat, at : Nat]]
        <4>1. starter[s].bad \cup {e} \in SUBSET Event /\ starter[s].todo \ {e} \in SUBSET Event
          BY <2>3, <2>4
        <4>2. starter'[s] = [starter[s] EXCEPT !.todo = starter[s].todo \ {e}, !.bad = starter[s].bad \cup {e}]
          BY <3>1 DEF RefusedIsMarked
        <4> QED
          BY <2>3, <4>1, <4>2
      <3>3. starter'[s].batch \ (starter'[s].todo \cup starter'[s].bad) = Taken(s)
        BY <2>3, <3>2 DEF Taken
      <3> QED
        BY <2>2, <2>3, <2>5, <3>2, <3>3, OnlyTheStarter
    <2>7. CASE e \notin Poison
      <3>1. starter'[s] = Processed(s, e)
        BY <1>0, <2>1, <2>7
      <3>2. ProjectWukongOnlineStatus(starter[s].shows, e, receipt[e].at) \in [event : Nat, at : Nat]
        BY <2>3, <2>4, WebhookAssumption DEF WebhookAssumption, ProjectWukongOnlineStatus
      <3>3. /\ starter'[s].step = "batch" /\ starter'[s].batch = starter[s].batch
            /\ starter'[s].todo = starter[s].todo \ {e} /\ starter'[s].bad = starter[s].bad
            /\ starter'[s].shows = ProjectWukongOnlineStatus(starter[s].shows, e, receipt[e].at)
            /\ starter'[s] \in [step : {"batch"}, batch : SUBSET Event, todo : SUBSET Event,
                                bad : SUBSET Event, shows : [event : Nat, at : Nat]]
        BY <2>3, <2>4, <3>1, <3>2 DEF Processed
      <3>4. starter'[s].batch \ (starter'[s].todo \cup starter'[s].bad) = Taken(s) \cup {e}
        BY <2>3, <3>3 DEF Taken
      <3>5. ShowsOneOf(ProjectWukongOnlineStatus(starter[s].shows, e, receipt[e].at), Taken(s) \cup {e})
        <4>1. Taken(s) \subseteq Event /\ starter[s].shows \in [event : Nat, at : Nat]
          BY <2>3 DEF Taken
        <4> QED
          BY <2>3, <2>4, <4>1, ShowsTheNewer
      <3> QED
        BY <2>2, <2>3, <2>5, <3>3, <3>4, <3>5, OnlyTheStarter
    <2> QED
      BY <2>6, <2>7
  <1>3. CASE AbortRecovery(s)
    <2>1. starter' = [starter EXCEPT ![s] = [step |-> "start"]] /\ UNCHANGED <<receipt, applied, presenceShown, hook, tick>>
      BY <1>3 DEF AbortRecovery
    <2>2. ~InBatch(s)' /\ DOMAIN starter' = Starter /\ \A t \in Starter \ {s} : starter'[t] = starter[t]
      BY <1>0, <2>1 DEF InBatch
    <2> QED
      BY <2>1, <2>2, OnlyTheStarter
  <1> QED
    BY <1>1, <1>2, <1>3

LEMMA CommitSteps == ASSUME WebhookInv, NEW s \in Starter, CommitRecovery(s) PROVE WebhookInv'
  <1>0. DOMAIN starter = Starter
    BY DEF WebhookInv, WebhookTypeOK
  <1> PICK posts, good : posts = starter[s].batch /\ good = EffectsOf(s)
    OBVIOUS
  <1>1. /\ starter[s] \in [step : {"batch"}, batch : SUBSET Event, todo : SUBSET Event,
                           bad : SUBSET Event, shows : [event : Nat, at : Nat]]
        /\ starter[s].todo = {} /\ starter[s].bad \subseteq posts /\ InBatch(s)
        /\ \A f \in posts : receipt[f].status \in Unprocessed
        /\ ShowsOneOf(starter[s].shows, good)
        /\ \A t \in Starter \ {s} : InBatch(t) => posts \cap starter[t].batch = {}
    <2>1. InBatch(s) /\ starter[s].todo = {}
      BY DEF CommitRecovery
    <2>2. starter[s] \in [step : {"batch"}, batch : SUBSET Event, todo : SUBSET Event,
                          bad : SUBSET Event, shows : [event : Nat, at : Nat]]
      BY <2>1 DEF WebhookInv, WebhookTypeOK
    <2>3. /\ starter[s].bad \subseteq posts /\ \A f \in posts : receipt[f].status \in Unprocessed
          /\ ShowsOneOf(starter[s].shows, Taken(s))
      BY <2>1 DEF WebhookInv, BatchesHeld
    <2>4. Taken(s) = good
      BY <2>1 DEF Taken, EffectsOf
    <2>5. \A t \in Starter \ {s} : InBatch(t) => posts \cap starter[t].batch = {}
      BY <2>1 DEF WebhookInv, BatchesHeld
    <2> QED
      BY <2>1, <2>2, <2>3, <2>4, <2>5
  <1>2. posts \subseteq Event /\ good \subseteq posts /\ \A e \in posts : e \in good <=> e \notin starter[s].bad
    BY <1>1 DEF EffectsOf
  <1>3. /\ receipt' = [e \in Event |-> IF e \in posts THEN Completed(s, e) ELSE receipt[e]]
        /\ applied' = [e \in Event |-> applied[e] + IF e \in good THEN 1 ELSE 0]
        /\ presenceShown' = ProjectWukongOnlineStatus(presenceShown, starter[s].shows.event, starter[s].shows.at)
        /\ UNCHANGED <<hook, tick>>
    BY DEF CommitRecovery
  <1>4. /\ DOMAIN starter' = Starter /\ ~InBatch(s)' /\ \A t \in Starter \ {s} : starter'[t] = starter[t]
    BY <1>0 DEF CommitRecovery, InBatch
  <1>5. \A e \in Event : receipt[e] \in [status : {"none", "pending", "processing", "completed", "failed"}, at : Nat]
                         /\ (receipt[e].status # "none" => receipt[e].at > 0) /\ applied[e] \in Nat
                         /\ applied[e] = IF receipt[e].status = "completed" THEN 1 ELSE 0
    BY DEF WebhookInv, WebhookTypeOK, EffectOnce
  <1>6. ASSUME NEW e \in Event
        PROVE  /\ receipt'[e].at = receipt[e].at
               /\ receipt'[e] \in [status : {"none", "pending", "processing", "completed", "failed"}, at : Nat]
               /\ receipt'[e].status # "none" => receipt'[e].at > 0
               /\ e \in posts => receipt'[e].status = IF e \in good THEN "completed" ELSE "failed"
               /\ e \notin posts => receipt'[e] = receipt[e]
    <2>1. CASE e \in posts
      <3>1. receipt'[e] = [receipt[e] EXCEPT !.status = IF e \in starter[s].bad THEN "failed" ELSE "completed"]
        BY <1>3, <2>1 DEF Completed
      <3>2. receipt[e].at > 0
        BY <1>1, <1>5, <2>1 DEF Unprocessed
      <3> QED
        BY <1>2, <1>5, <2>1, <3>1, <3>2
    <2>2. CASE e \notin posts
      BY <1>3, <1>5, <2>2
    <2> QED
      BY <2>1, <2>2
  <1>7. EffectOnce'
    <2> SUFFICES ASSUME NEW e \in Event PROVE applied'[e] = IF receipt'[e].status = "completed" THEN 1 ELSE 0
      BY DEF EffectOnce
    <2>1. applied'[e] = applied[e] + IF e \in good THEN 1 ELSE 0
      BY <1>3
    <2>2. CASE e \in posts
      <3>1. applied[e] = 0
        BY <1>1, <1>5, <2>2 DEF Unprocessed
      <3>2. CASE e \in good
        BY <1>6, <2>1, <2>2, <3>1, <3>2
      <3>3. CASE e \notin good
        BY <1>6, <2>1, <2>2, <3>1, <3>3
      <3> QED
        BY <3>2, <3>3
    <2>3. CASE e \notin posts
      <3>1. applied'[e] = applied[e] /\ receipt'[e] = receipt[e]
        BY <1>2, <1>5, <1>6, <2>1, <2>3
      <3> QED
        BY <1>5, <3>1
    <2> QED
      BY <2>2, <2>3
  <1>8. WebhookTypeOK'
    <2>1. receipt' \in [Event -> [status : {"none", "pending", "processing", "completed", "failed"}, at : Nat]]
      BY <1>3, <1>6
    <2>2. applied' \in [Event -> Nat]
      BY <1>3, <1>5
    <2>3. presenceShown' \in [event : Nat, at : Nat]
      BY <1>1, <1>3 DEF WebhookInv, WebhookTypeOK, ProjectWukongOnlineStatus
    <2>4. ASSUME NEW t \in Starter, InBatch(t)'
          PROVE  starter'[t] \in [step : {"batch"}, batch : SUBSET Event, todo : SUBSET Event,
                                  bad : SUBSET Event, shows : [event : Nat, at : Nat]]
      BY <1>4, <2>4 DEF WebhookInv, WebhookTypeOK, InBatch
    <2>5. tick' \in Nat /\ DOMAIN hook' = Hook /\ \A h \in Hook : hook'[h] \in Seq([event : Event, at : Nat \ {0}])
      BY <1>3 DEF WebhookInv, WebhookTypeOK
    <2> QED
      BY <1>4, <1>6, <2>1, <2>2, <2>3, <2>4, <2>5 DEF WebhookTypeOK
  <1>9. BatchesHeld'
    <2>1. ASSUME NEW t \in Starter, InBatch(t)'
          PROVE  /\ t # s /\ InBatch(t) /\ starter'[t] = starter[t] /\ starter[t].batch \subseteq Event \ posts
                 /\ \A e \in starter[t].batch : receipt'[e] = receipt[e]
      <3>1. t # s /\ starter'[t] = starter[t] /\ InBatch(t)
        BY <1>4, <2>1 DEF InBatch
      <3>2. starter[t].batch \subseteq Event \ posts
        BY <1>1, <3>1 DEF WebhookInv, WebhookTypeOK
      <3> QED
        BY <1>6, <3>1, <3>2
    <2>2. ASSUME NEW t \in Starter, InBatch(t)'
          PROVE  /\ starter'[t].todo \subseteq starter'[t].batch
                 /\ starter'[t].bad \subseteq starter'[t].batch \ starter'[t].todo
                 /\ \A e \in starter'[t].batch : receipt'[e].status \in Unprocessed
                 /\ ShowsOneOf(starter[t].shows, Taken(t))'
      <3>1. /\ starter[t].todo \subseteq starter[t].batch
            /\ starter[t].bad \subseteq starter[t].batch \ starter[t].todo
            /\ \A e \in starter[t].batch : receipt[e].status \in Unprocessed
            /\ ShowsOneOf(starter[t].shows, Taken(t))
        BY <2>1, <2>2 DEF WebhookInv, BatchesHeld
      <3>2. Taken(t) \subseteq starter[t].batch
        BY DEF Taken
      <3>3. ShowsOneOf(starter[t].shows, Taken(t))'
        BY <2>1, <2>2, <3>1, <3>2 DEF ShowsOneOf, Taken
      <3> QED
        BY <2>1, <2>2, <3>1, <3>3
    <2>3. ASSUME NEW t \in Starter, NEW u \in Starter, InBatch(t)', InBatch(u)', t # u
          PROVE  starter'[t].batch \cap starter'[u].batch = {}
      BY <2>1, <2>3 DEF WebhookInv, BatchesHeld
    <2> QED
      BY <2>2, <2>3 DEF BatchesHeld
  <1>10. ShownTookEffect'
    <2> PICK before : before = {e \in Event : applied[e] > 0}
      OBVIOUS
    <2>1. {e \in Event : applied'[e] > 0} = before \cup good
      BY <1>2, <1>3, <1>5
    <2>2. ShowsOneOf(presenceShown', before \cup good)
      <3>1. before \subseteq Event /\ good \subseteq Event
        BY <1>2
      <3>2. presenceShown \in [event : Nat, at : Nat] /\ starter[s].shows \in [event : Nat, at : Nat]
        BY <1>1 DEF WebhookInv, WebhookTypeOK
      <3>3. ShowsOneOf(presenceShown, before)
        BY DEF WebhookInv, ShownTookEffect
      <3>4. \A f \in Event : receipt[f].at \in Nat
        BY <1>5
      <3> QED
        BY <1>1, <1>3, <3>1, <3>2, <3>3, <3>4, ShowsBoth
    <2>3. ShowsOneOf(presenceShown, before \cup good)'
      BY <1>2, <1>6, <2>2 DEF ShowsOneOf
    <2> QED
      BY <2>1, <2>3 DEF ShownTookEffect
  <1> QED
    BY <1>7, <1>8, <1>9, <1>10 DEF WebhookInv

\* Every event takes effect once, in the right order for presence, or is refused
\* (WebhookKept), whoever reports it, recovers it or gives up in between.
THEOREM WebhookKeepsPromise == WebhookSpec => []WebhookKept
  <1>1. ASSUME WebhookInv, [WebhookNext]_webhookVars PROVE WebhookInv'
    <2>1. CASE UNCHANGED webhookVars
      BY <1>1, <2>1 DEF webhookVars, WebhookInv, WebhookTypeOK, EffectOnce, BatchesHeld, ShownTookEffect,
                        ShowsOneOf, Taken, InBatch
    <2>2. CASE WebhookNext
      BY <1>1, <2>2, WebhookCallSteps, RecoverySteps, CommitSteps DEF WebhookNext, StarterStep
    <2> QED
      BY <1>1, <2>1, <2>2
  <1>2. WebhookInv => EffectOnce /\ PresenceNewest
    <2> SUFFICES ASSUME WebhookInv, NEW e \in Event, applied[e] > 0
                 PROVE  presenceShown.event \in Event /\ presenceShown.at = receipt[presenceShown.event].at
                        /\ receipt[e].at <= presenceShown.at
      BY DEF WebhookInv, PresenceNewest
    <2>1. presenceShown.event \in Event /\ receipt[e].at <= presenceShown.at
      BY DEF WebhookInv, ShownTookEffect, ShowsOneOf
    <2>2. presenceShown # NothingShown
      BY <2>1, WebhookAssumption DEF NothingShown, WebhookAssumption
    <2> QED
      BY <2>1, <2>2 DEF WebhookInv, ShownTookEffect, ShowsOneOf
  <1> QED
    BY <1>1, <1>2, WebhookStarts, PTL DEF WebhookSpec, WebhookKept

(***************************************************************************)
(* Push notifications (PushDelivery): what every delivery knows.           *)
(***************************************************************************)
OutboxField == {"status", "attempts", "epoch"}

WorldTypes ==
    /\ DOMAIN outbox = Push /\ epoch \in Nat /\ DOMAIN shown = Push /\ DOMAIN asked = Push
    /\ \A p \in Push : /\ DOMAIN outbox[p] = OutboxField
                       /\ outbox[p].status \in {"none", "pending", "processing", "sent", "failed"}
                       /\ outbox[p].epoch \in Nat
                       /\ outbox[p].status # "none" => outbox[p].epoch <= epoch
    /\ DOMAIN device = Device /\ DOMAIN current = Device
    /\ \A d \in Device : device[d] \in Nat /\ current[d] \in Nat /\ device[d] <= current[d]

Given(p, d, t) == <<d, t>> \in shown[p] \/ (d \in Voip /\ p \notin Call)

\* What a delivery j of p knows: its row was there and is of the session in which j
\* began or of an earlier one, of that session itself when j sends; its tokens are
\* not newer than the platform's; and once it is to be settled as sent each device
\* was given the notification or lost a token that was refused.
JobOK(j, p) == j.step # "none" =>
    /\ {"step", "since", "to"} \subseteq DOMAIN j
    /\ j.step \in {"check", "scope", "send", "invalidate", "sent", "retry", "failed"}
    /\ outbox[p].status # "none" /\ j.since \in Nat /\ outbox[p].epoch <= j.since /\ j.since <= epoch
    /\ DOMAIN j.to \subseteq Device
    /\ \A d \in DOMAIN j.to : j.to[d] \in Nat /\ j.to[d] > 0 /\ j.to[d] <= current[d]
    /\ j.step = "send" => outbox[p].epoch = j.since
    /\ j.step = "invalidate" =>
          /\ j.then \in {"sent", "retry", "failed"}
          /\ j.then = "sent" => \A d \in DOMAIN j.to : Given(p, d, j.to[d]) \/ (d \in j.invalid /\ j.to[d] # current[d])
    /\ j.step = "sent" => p \in retracted \/ \A d \in DOMAIN j.to :
          Given(p, d, j.to[d]) \/ (j.to[d] # current[d] /\ device[d] # j.to[d])

JobsOK ==
    /\ DOMAIN job = Dispatcher
    /\ \A w \in Dispatcher : DOMAIN job[w] = Push /\ \A p \in Push : JobOK(job[w][p], p)

AskedOK == \A p \in Push : \A a \in asked[p] : a \in Device \X Nat /\ a[2] <= current[a[1]]

PushInv == WorldTypes /\ JobsOK /\ AskedOK /\ SentIsHonest

LEMMA PushInitHolds == PushInit => PushInv
  <1> SUFFICES ASSUME PushInit PROVE PushInv
    OBVIOUS
  <1>1. WorldTypes
    BY DEF PushInit, WorldTypes, OutboxField
  <1>2. JobsOK
    BY DEF PushInit, JobsOK, JobOK, NoJob
  <1>3. AskedOK /\ SentIsHonest
    BY DEF PushInit, AskedOK, SentIsHonest
  <1> QED
    BY <1>1, <1>2, <1>3 DEF PushInv

\* How everything but the deliveries moves: rows stay and keep their epoch, tokens of
\* the platform grow, devices lose their token or get the newest one.
WorldMoves ==
    /\ \A p \in Push : outbox[p].status # "none" => outbox'[p].status # "none" /\ outbox'[p].epoch = outbox[p].epoch
    /\ \A d \in Device : /\ current[d] <= current'[d]
                         /\ device'[d] = device[d] \/ device'[d] = 0 \/ device'[d] = current'[d]
    /\ retracted \subseteq retracted' /\ epoch <= epoch' /\ \A p \in Push : shown[p] \subseteq shown'[p]

LEMMA JobStays ==
  ASSUME WorldTypes, WorldTypes', WorldMoves, NEW p \in Push, NEW j, JobOK(j, p)
  PROVE  JobOK(j, p)'
  <1> SUFFICES ASSUME j.step # "none" PROVE JobOK(j, p)'
    BY DEF JobOK
  <1>1. /\ {"step", "since", "to"} \subseteq DOMAIN j
        /\ j.step \in {"check", "scope", "send", "invalidate", "sent", "retry", "failed"}
        /\ outbox[p].status # "none" /\ j.since \in Nat /\ outbox[p].epoch <= j.since /\ j.since <= epoch
        /\ DOMAIN j.to \subseteq Device
        /\ j.step = "send" => outbox[p].epoch = j.since
        /\ j.step = "invalidate" => j.then \in {"sent", "retry", "failed"}
    BY DEF JobOK
  <1>2. outbox'[p].status # "none" /\ outbox'[p].epoch = outbox[p].epoch /\ j.since <= epoch'
    BY <1>1 DEF WorldMoves, WorldTypes
  <1>3. ASSUME NEW d \in DOMAIN j.to
        PROVE  /\ j.to[d] \in Nat /\ j.to[d] > 0 /\ j.to[d] <= current'[d]
               /\ j.to[d] # current[d] => j.to[d] # current'[d]
               /\ j.to[d] # current[d] /\ device[d] # j.to[d] => device'[d] # j.to[d]
               /\ Given(p, d, j.to[d]) => Given(p, d, j.to[d])'
    <2>1. j.to[d] \in Nat /\ j.to[d] > 0 /\ j.to[d] <= current[d] /\ d \in Device
      BY <1>1 DEF JobOK
    <2>2. current[d] \in Nat /\ current'[d] \in Nat /\ current[d] <= current'[d]
          /\ (device'[d] = device[d] \/ device'[d] = 0 \/ device'[d] = current'[d])
      BY <2>1 DEF WorldMoves, WorldTypes
    <2>3. Given(p, d, j.to[d]) => Given(p, d, j.to[d])'
      BY DEF Given, WorldMoves
    <2> QED
      BY <2>1, <2>2, <2>3
  <1>4. j.step = "invalidate" /\ j.then = "sent" =>
           \A d \in DOMAIN j.to : Given(p, d, j.to[d]) \/ (d \in j.invalid /\ j.to[d] # current[d])
    BY DEF JobOK
  <1>5. j.step = "sent" => p \in retracted \/ \A d \in DOMAIN j.to :
           Given(p, d, j.to[d]) \/ (j.to[d] # current[d] /\ device[d] # j.to[d])
    BY DEF JobOK
  <1>6. j.step = "invalidate" /\ j.then = "sent" =>
           \A d \in DOMAIN j.to : Given(p, d, j.to[d])' \/ (d \in j.invalid /\ j.to[d] # current'[d])
    BY <1>3, <1>4
  <1>7. j.step = "sent" => p \in retracted' \/ \A d \in DOMAIN j.to :
           Given(p, d, j.to[d])' \/ (j.to[d] # current'[d] /\ device'[d] # j.to[d])
    BY <1>3, <1>5 DEF WorldMoves
  <1> QED
    BY <1>1, <1>2, <1>3, <1>6, <1>7 DEF JobOK

\* A step changes some deliveries for good reasons and settles nothing.
LEMMA DeliveriesMove ==
  ASSUME PushInv, WorldTypes', WorldMoves,
         DOMAIN job' = Dispatcher, \A w \in Dispatcher : DOMAIN job'[w] = Push,
         \A w \in Dispatcher, p \in Push : job'[w][p] = job[w][p] \/ JobOK(job[w][p], p)',
         asked' = asked, \A p \in Push : outbox'[p].status = "sent" => outbox[p].status = "sent"
  PROVE  PushInv'
  <1>1. JobsOK'
    <2> SUFFICES ASSUME NEW w \in Dispatcher, NEW p \in Push PROVE JobOK(job[w][p], p)'
      BY DEF JobsOK
    <2>1. CASE job'[w][p] = job[w][p]
      <3>1. \A j : j = job[w][p] => JobOK(j, p)'
        <4> SUFFICES ASSUME NEW j, j = job[w][p] PROVE JobOK(j, p)'
          OBVIOUS
        <4>1. JobOK(j, p)
          BY DEF PushInv, JobsOK
        <4> QED
          BY <4>1, JobStays DEF PushInv
      <3> QED
        BY <2>1, <3>1 DEF JobOK, Given
    <2> QED
      BY <2>1
  <1>2. ASSUME NEW p \in Push, NEW a \in asked[p]
        PROVE  /\ a \in Device \X Nat /\ a[2] <= current'[a[1]]
               /\ a[2] # current[a[1]] => a[2] # current'[a[1]]
    <2>1. a \in Device \X Nat /\ a[2] <= current[a[1]]
      BY DEF PushInv, AskedOK
    <2>2. a[1] \in Device /\ a[2] \in Nat
      BY <2>1
    <2>3. current[a[1]] \in Nat /\ current'[a[1]] \in Nat /\ current[a[1]] <= current'[a[1]]
      BY <2>2 DEF PushInv, WorldTypes, WorldMoves
    <2> QED
      BY <2>1, <2>2, <2>3
  <1>3. AskedOK'
    BY <1>2 DEF AskedOK
  <1>4. SentIsHonest'
    BY <1>2 DEF PushInv, SentIsHonest, WorldMoves
  <1> QED
    BY <1>1, <1>3, <1>4 DEF PushInv

\* The user, the platform, and what is not a delivery.
LEMMA UserAndPlatform ==
  ASSUME PushInv,
         \/ \E p \in Push : EnqueuePush(p) \/ RetractMessage(p)
         \/ \E d \in Device : RotateToken(d) \/ RegisterDevice(d) \/ UnregisterDevice(d)
         \/ GoOffline \/ GoOnline
         \/ UNCHANGED pushVars
  PROVE  PushInv'
  <1>0. WorldTypes
    BY DEF PushInv
  <1>1. job' = job /\ asked' = asked /\ shown' = shown
    BY DEF EnqueuePush, RetractMessage, RotateToken, RegisterDevice, UnregisterDevice, GoOffline, GoOnline, pushVars
  <1>2. WorldTypes' /\ WorldMoves /\ \A p \in Push : outbox'[p].status = "sent" => outbox[p].status = "sent"
    <2>1. ASSUME NEW p \in Push, EnqueuePush(p)
          PROVE  WorldTypes' /\ WorldMoves /\ \A q \in Push : outbox'[q].status = "sent" => outbox[q].status = "sent"
      <3>1. /\ outbox[p].status = "none" /\ UNCHANGED <<device, current, retracted, epoch, shown, asked>>
            /\ outbox' = [outbox EXCEPT ![p] =
                   [status |-> IF active THEN "pending" ELSE "failed", attempts |-> 0, epoch |-> epoch]]
        BY <2>1 DEF EnqueuePush
      <3>2. /\ DOMAIN outbox' = Push /\ DOMAIN outbox'[p] = OutboxField /\ outbox'[p].status \in {"pending", "failed"}
            /\ outbox'[p].epoch = epoch /\ \A q \in Push : q # p => outbox'[q] = outbox[q]
        BY <1>0, <3>1 DEF WorldTypes, OutboxField
      <3> QED
        BY <1>0, <3>1, <3>2 DEF WorldTypes, WorldMoves
    <2>2. ASSUME NEW p \in Push, RetractMessage(p)
          PROVE  WorldTypes' /\ WorldMoves /\ \A q \in Push : outbox'[q].status = "sent" => outbox[q].status = "sent"
      BY <1>0, <2>2 DEF RetractMessage, WorldTypes, WorldMoves
    <2>3. ASSUME NEW d \in Device, RotateToken(d) \/ RegisterDevice(d) \/ UnregisterDevice(d)
          PROVE  WorldTypes' /\ WorldMoves /\ \A q \in Push : outbox'[q].status = "sent" => outbox[q].status = "sent"
      <3>1. UNCHANGED <<outbox, retracted, epoch, shown, asked>>
        BY <2>3 DEF RotateToken, RegisterDevice, UnregisterDevice
      <3>2. /\ DOMAIN device' = Device /\ DOMAIN current' = Device
            /\ \A e \in Device : /\ current'[e] = current[e] \/ current'[e] = current[e] + 1
                                 /\ device'[e] = device[e] \/ device'[e] = 0 \/ (device'[e] = current'[e] /\ current'[e] = current[e])
        <4>1. CASE RotateToken(d)
          BY <1>0, <4>1 DEF RotateToken, WorldTypes
        <4>2. CASE RegisterDevice(d)
          BY <1>0, <4>2 DEF RegisterDevice, WorldTypes
        <4>3. CASE UnregisterDevice(d)
          BY <1>0, <4>3 DEF UnregisterDevice, WorldTypes
        <4> QED
          BY <2>3, <4>1, <4>2, <4>3
      <3>3. \A e \in Device : /\ current'[e] \in Nat /\ current[e] <= current'[e]
                              /\ device'[e] \in Nat /\ device'[e] <= current'[e]
        BY <1>0, <3>2 DEF WorldTypes
      <3>4. WorldTypes'
        BY <1>0, <3>1, <3>2, <3>3 DEF WorldTypes
      <3>5. WorldMoves
        BY <1>0, <3>1, <3>2, <3>3 DEF WorldMoves, WorldTypes
      <3> QED
        BY <3>1, <3>4, <3>5
    <2>4. CASE GoOffline
      <3>1. /\ epoch' = epoch + 1 /\ device' = [d \in Device |-> 0] /\ UNCHANGED <<current, retracted, shown, asked>>
            /\ outbox' = [p \in Push |-> IF outbox[p].status \in {"pending", "sending"}
                                         THEN [outbox[p] EXCEPT !.status = "failed"] ELSE outbox[p]]
        BY <2>4 DEF GoOffline
      <3>2. /\ DOMAIN outbox' = Push
            /\ \A p \in Push : /\ DOMAIN outbox'[p] = OutboxField /\ outbox'[p].epoch = outbox[p].epoch
                               /\ outbox'[p].status = outbox[p].status \/ (outbox'[p].status = "failed" /\ outbox[p].status # "none")
        BY <1>0, <3>1 DEF WorldTypes, OutboxField
      <3>3. epoch \in Nat
        BY <1>0 DEF WorldTypes
      <3>4. WorldTypes'
        BY <1>0, <3>1, <3>2, <3>3 DEF WorldTypes
      <3> QED
        BY <1>0, <3>1, <3>2, <3>3, <3>4 DEF WorldTypes, WorldMoves
    <2>5. CASE GoOnline \/ UNCHANGED pushVars
      <3>1. UNCHANGED <<outbox, device, current, retracted, shown, asked, epoch>>
        BY <2>5 DEF GoOnline, pushVars
      <3> QED
        BY <1>0, <3>1 DEF WorldTypes, WorldMoves
    <2> QED
      BY <2>1, <2>2, <2>3, <2>4, <2>5
  <1>3. DOMAIN job' = Dispatcher /\ \A w \in Dispatcher : DOMAIN job'[w] = Push
    BY <1>1 DEF PushInv, JobsOK
  <1> QED
    BY <1>1, <1>2, <1>3, DeliveriesMove

\* Taking the rows that are due.
LEMMA ClaimKeeps ==
  ASSUME PushInv, NEW w \in Dispatcher, ClaimPush(w)
  PROVE  PushInv'
  <1>0. WorldTypes
    BY DEF PushInv
  <1> DEFINE enabled == {d \in Device : device[d] # 0}
             started == [step |-> "check", since |-> epoch, to |-> [d \in enabled |-> device[d]]]
  <1>1. /\ outbox' = [p \in Push |-> IF p \in Due
               THEN [outbox[p] EXCEPT !.status = "processing", !.attempts = AtMost(@ + 1, MaxAttempt)] ELSE outbox[p]]
        /\ job' = [job EXCEPT ![w] = [p \in Push |-> IF p \in Due THEN started ELSE NoJob]]
        /\ UNCHANGED <<device, current, retracted, shown, asked, epoch>>
    BY DEF ClaimPush
  <1>2. /\ DOMAIN outbox' = Push
        /\ \A p \in Push : /\ DOMAIN outbox'[p] = OutboxField /\ outbox'[p].epoch = outbox[p].epoch
                           /\ outbox'[p].status = IF p \in Due THEN "processing" ELSE outbox[p].status
    BY <1>0, <1>1 DEF WorldTypes, OutboxField
  <1>3. \A p \in Due : outbox[p].status \in {"pending", "processing"}
    BY DEF Due
  <1>4. WorldTypes'
    BY <1>0, <1>1, <1>2, <1>3 DEF WorldTypes
  <1>5. WorldMoves /\ \A p \in Push : outbox'[p].status = "sent" => outbox[p].status = "sent"
    <2>0. UNCHANGED <<device, current, retracted, shown, asked, epoch>>
      BY <1>1
    <2>1. \A d \in Device : current[d] <= current'[d]
      BY <1>0, <2>0 DEF WorldTypes
    <2>2. epoch <= epoch'
      BY <1>0, <2>0 DEF WorldTypes
    <2>3. \A p \in Push : /\ outbox[p].status # "none" => outbox'[p].status # "none" /\ outbox'[p].epoch = outbox[p].epoch
                          /\ outbox'[p].status = "sent" => outbox[p].status = "sent"
      BY <1>2, <1>3
    <2> QED
      BY <2>0, <2>1, <2>2, <2>3 DEF WorldMoves
  <1>6. /\ {"step", "since", "to"} \subseteq DOMAIN started /\ started.step = "check" /\ started.since = epoch
        /\ DOMAIN started.to = enabled /\ \A d \in enabled : started.to[d] = device[d]
    OBVIOUS
  <1>7. enabled \subseteq Device /\ \A d \in enabled : device[d] \in Nat /\ device[d] > 0 /\ device[d] <= current[d]
    BY <1>0 DEF WorldTypes
  <1> HIDE DEF enabled, started
  <1>8. ASSUME NEW p \in Due PROVE JobOK(job[w][p], p)'
    <2>1. p \in Push /\ job'[w][p] = started
      BY <1>1, <1>3 DEF PushInv, JobsOK, Due
    <2>2. outbox'[p].status = "processing" /\ outbox'[p].epoch <= epoch /\ epoch \in Nat /\ epoch' = epoch /\ current' = current
      BY <1>0, <1>1, <1>2, <1>3, <2>1 DEF WorldTypes
    <2> QED
      BY <1>6, <1>7, <2>1, <2>2 DEF JobOK
  <1>9. /\ DOMAIN job' = Dispatcher /\ DOMAIN job'[w] = Push /\ \A v \in Dispatcher : v # w => job'[v] = job[v]
        /\ \A p \in Push : p \notin Due => job'[w][p] = NoJob
    BY <1>1 DEF PushInv, JobsOK
  <1>10. ASSUME NEW p \in Push, p \notin Due PROVE JobOK(job[w][p], p)'
    BY <1>9, <1>10 DEF JobOK, NoJob
  <1>11. \A v \in Dispatcher : DOMAIN job'[v] = Push
    BY <1>9 DEF PushInv, JobsOK
  <1>12. \A v \in Dispatcher, p \in Push : job'[v][p] = job[v][p] \/ JobOK(job[v][p], p)'
    BY <1>8, <1>9, <1>10
  <1> QED
    BY <1>1, <1>4, <1>5, <1>9, <1>11, <1>12, DeliveriesMove

\* One delivery goes on to j.
LEMMA OneDeliveryMoves ==
  ASSUME PushInv, WorldTypes', WorldMoves, NEW w \in Dispatcher, NEW p \in Push, NEW j,
         JobTo(w, p, j), JobOK(j, p)', asked' = asked, \A q \in Push : outbox'[q].status = "sent" => outbox[q].status = "sent"
  PROVE  PushInv'
  <1>1. /\ DOMAIN job' = Dispatcher /\ \A v \in Dispatcher : DOMAIN job'[v] = Push
        /\ job'[w][p] = j
        /\ \A v \in Dispatcher, q \in Push : v # w \/ q # p => job'[v][q] = job[v][q]
    BY DEF JobTo, PushInv, JobsOK
  <1>2. JobOK(job[w][p], p)'
    BY <1>1 DEF JobOK, Given
  <1> QED
    BY <1>1, <1>2, DeliveriesMove

\* A delivery goes on without a provider.
LEMMA CheckKeeps ==
  ASSUME PushInv, NEW w \in Dispatcher, NEW p \in Push,
         CanPresentPush(w, p) \/ DeliveryFails(w, p) \/ EnterpriseSend(w, p)
  PROVE  PushInv'
  <1>1. UNCHANGED <<outbox, device, current, retracted, shown, asked, epoch>>
    BY DEF CanPresentPush, DeliveryFails, EnterpriseSend
  <1>2. WorldTypes /\ JobOK(job[w][p], p)
    BY DEF PushInv, JobsOK
  <1>3. WorldTypes' /\ WorldMoves
    BY <1>1, <1>2 DEF WorldTypes, WorldMoves
  <1>4. PICK s \in {"sent", "scope", "retry", "send", "failed"} :
           /\ JobTo(w, p, [job[w][p] EXCEPT !.step = s]) /\ job[w][p].step # "none"
           /\ s = "sent" => p \in retracted \/ DOMAIN job[w][p].to = {}
           /\ s = "send" => outbox[p].epoch = epoch
    <2>1. CASE CanPresentPush(w, p)
      BY <2>1 DEF CanPresentPush, JobAt
    <2>2. CASE DeliveryFails(w, p)
      BY <2>2 DEF DeliveryFails
    <2>3. CASE EnterpriseSend(w, p)
      BY <2>3 DEF EnterpriseSend, JobAt, EpochMatches
    <2> QED
      BY <2>1, <2>2, <2>3
  <1>5. \A j : j = [job[w][p] EXCEPT !.step = s] => JobOK(j, p)'
    <2> SUFFICES ASSUME NEW j, j = [job[w][p] EXCEPT !.step = s] PROVE JobOK(j, p)'
      OBVIOUS
    <2>1. {"step", "since", "to"} \subseteq DOMAIN job[w][p]
      BY <1>2, <1>4 DEF JobOK
    <2>2. DOMAIN j = DOMAIN job[w][p] /\ j.step = s /\ j.since = job[w][p].since /\ j.to = job[w][p].to
      BY <2>1
    <2>3. /\ outbox[p].status # "none" /\ j.since \in Nat /\ outbox[p].epoch <= j.since /\ j.since <= epoch
          /\ DOMAIN j.to \subseteq Device
          /\ \A d \in DOMAIN j.to : j.to[d] \in Nat /\ j.to[d] > 0 /\ j.to[d] <= current[d]
      BY <1>2, <1>4, <2>2 DEF JobOK
    <2>4. s = "send" => outbox[p].epoch = j.since
      BY <1>2, <1>4, <2>3 DEF WorldTypes
    <2>5. s = "sent" => p \in retracted \/ DOMAIN j.to = {}
      BY <1>4, <2>2
    <2> QED
      BY <1>1, <2>1, <2>2, <2>3, <2>4, <2>5 DEF JobOK
  <1> QED
    BY <1>1, <1>3, <1>4, <1>5, OneDeliveryMoves

\* What the providers say together: sent only if each device took the notification,
\* is not asked, or is among those to be switched off.
LEMMA SentByAll ==
  ASSUME NEW ds, ds \subseteq Device, NEW said,
         \A d \in ds : said[d] \in {"ok", "skip", "invalid", "retry", "permanent"},
         NEW answer, answer = MultiSend(ds, said)
  PROVE  /\ answer.then \in {"sent", "retry", "failed"}
         /\ answer.then = "sent" => \A d \in ds : said[d] \in {"ok", "skip"} \/ (said[d] = "invalid" /\ d \in answer.invalid)
         /\ \A d \in answer.invalid : said[d] = "invalid"
  <1> DEFINE G == ProviderSend(ds \cap Getui, said)
             W == ProviderSend(ds \cap WebPush, said)
             V == ProviderSend(ds \cap Voip, said)
             failing == {r \in {G, W, V} : r.failed}
  <1>1. /\ answer.invalid = UNION {r.invalid : r \in failing}
        /\ answer.then = IF failing = {} \/ AllInvalidOnly(failing) THEN "sent"
                         ELSE IF \E r \in failing : r.retryable THEN "retry" ELSE "failed"
    BY DEF MultiSend
  <1>2. \A D : LET r == ProviderSend(D, said)
               IN  /\ r.failed <=> \E d \in D : said[d] \notin {"ok", "skip"}
                   /\ r.invalid = {d \in D : said[d] = "invalid"}
                   /\ r.invalidOnly <=> \A d \in D : said[d] \in {"ok", "skip", "invalid"}
    BY DEF ProviderSend
  <1>3. ASSUME answer.then = "sent", NEW d \in ds
        PROVE  said[d] \in {"ok", "skip"} \/ (said[d] = "invalid" /\ d \in answer.invalid)
    <2>1. PICK D : d \in D /\ ProviderSend(D, said) \in {G, W, V}
      BY DEF Device
    <2> DEFINE r == ProviderSend(D, said)
    <2>2. CASE said[d] \notin {"ok", "skip"}
      <3>1. r.failed
        BY <1>2, <2>1, <2>2
      <3>2. r \in failing
        BY <2>1, <3>1
      <3>3. AllInvalidOnly(failing)
        BY <1>1, <1>3, <3>2
      <3>4. r.invalidOnly
        BY <3>2, <3>3 DEF AllInvalidOnly
      <3>5. said[d] \in {"ok", "skip", "invalid"}
        BY <1>2, <2>1, <3>4
      <3>6. d \in r.invalid
        BY <1>2, <2>1, <2>2, <3>5
      <3>7. d \in answer.invalid
        BY <1>1, <3>2, <3>6
      <3> QED
        BY <2>2, <3>5, <3>7
    <2> QED
      BY <2>2
  <1>4. ASSUME NEW d \in answer.invalid PROVE said[d] = "invalid"
    <2>1. PICK r \in failing : d \in r.invalid
      BY <1>1
    <2> QED
      BY <1>2, <2>1
  <1>5. answer.then \in {"sent", "retry", "failed"}
    <2> HIDE DEF failing
    <2> QED
      BY <1>1
  <1> QED
    BY <1>3, <1>4, <1>5

LEMMA SendKeepsPush ==
  ASSUME PushInv, NEW w \in Dispatcher, NEW p \in Push, SendPush(w, p)
  PROVE  PushInv'
  <1>0. PICK to : to = job[w][p].to
    OBVIOUS
  <1>1. /\ job[w][p].step = "send" /\ UNCHANGED <<outbox, device, current, retracted, asked, epoch>>
        /\ WorldTypes /\ JobOK(job[w][p], p)
    BY DEF SendPush, JobAt, PushInv, JobsOK
  <1>2. PICK said \in [DOMAIN to -> {"ok", "skip", "invalid", "retry", "permanent"}] :
           /\ \A d \in DOMAIN to : said[d] \in Outcome(p, d, to[d])
           /\ shown' = [shown EXCEPT ![p] = @ \cup {<<d, to[d]>> : d \in {x \in DOMAIN to : said[x] = "ok"}}]
           /\ JobTo(w, p, IF MultiSend(DOMAIN to, said).invalid = {}
                          THEN [job[w][p] EXCEPT !.step = MultiSend(DOMAIN to, said).then]
                          ELSE [step |-> "invalidate", since |-> job[w][p].since, to |-> to,
                                invalid |-> MultiSend(DOMAIN to, said).invalid, then |-> MultiSend(DOMAIN to, said).then])
    BY <1>0 DEF SendPush
  <1>3. PICK answer : answer = MultiSend(DOMAIN to, said)
    OBVIOUS
  <1>4. /\ {"step", "since", "to"} \subseteq DOMAIN job[w][p]
        /\ outbox[p].status # "none" /\ job[w][p].since \in Nat /\ outbox[p].epoch <= job[w][p].since /\ job[w][p].since <= epoch
        /\ DOMAIN to \subseteq Device
        /\ \A d \in DOMAIN to : to[d] \in Nat /\ to[d] > 0 /\ to[d] <= current[d]
    BY <1>0, <1>1 DEF JobOK
  <1>5. /\ answer.then \in {"sent", "retry", "failed"}
        /\ answer.then = "sent" => \A d \in DOMAIN to : said[d] \in {"ok", "skip"} \/ (said[d] = "invalid" /\ d \in answer.invalid)
    <2>1. \A d \in DOMAIN to : said[d] \in {"ok", "skip", "invalid", "retry", "permanent"}
      BY <1>2
    <2> QED
      BY <1>3, <1>4, <2>1, SentByAll
  <1>6. /\ DOMAIN shown' = Push /\ \A q \in Push : shown[q] \subseteq shown'[q]
        /\ \A d \in DOMAIN to : said[d] = "ok" => <<d, to[d]>> \in shown'[p]
    BY <1>1, <1>2 DEF WorldTypes
  <1>7. ASSUME NEW d \in DOMAIN to
        PROVE  /\ said[d] = "invalid" => to[d] # current[d]
               /\ said[d] = "skip" => d \in Voip /\ p \notin Call
    <2>1. said[d] \in Outcome(p, d, to[d]) /\ d \in Device
      BY <1>2, <1>4
    <2> QED
      BY <2>1 DEF Outcome, GetuiOutcome, WebPushOutcome, VoipOutcome, Device
  <1>8. answer.then = "sent" => \A d \in DOMAIN to : Given(p, d, to[d])' \/ (d \in answer.invalid /\ to[d] # current[d])
    <2> SUFFICES ASSUME answer.then = "sent", NEW d \in DOMAIN to
                 PROVE  Given(p, d, to[d])' \/ (d \in answer.invalid /\ to[d] # current[d])
      OBVIOUS
    <2>1. said[d] = "ok" => <<d, to[d]>> \in shown'[p]
      BY <1>6
    <2>2. said[d] \in {"ok", "skip"} \/ (said[d] = "invalid" /\ d \in answer.invalid)
      BY <1>5
    <2> QED
      BY <1>7, <2>1, <2>2 DEF Given
  <1>9. WorldTypes' /\ WorldMoves
    BY <1>1, <1>6 DEF WorldTypes, WorldMoves
  <1>10. CASE answer.invalid = {}
    <2>1. JobTo(w, p, [job[w][p] EXCEPT !.step = answer.then])
      BY <1>2, <1>3, <1>10
    <2>2. \A j : j = [job[w][p] EXCEPT !.step = answer.then] => JobOK(j, p)'
      <3> SUFFICES ASSUME NEW j, j = [job[w][p] EXCEPT !.step = answer.then] PROVE JobOK(j, p)'
        OBVIOUS
      <3>1. DOMAIN j = DOMAIN job[w][p] /\ j.step = answer.then /\ j.since = job[w][p].since /\ j.to = to
        BY <1>0, <1>4
      <3>2. j.step = "sent" => \A d \in DOMAIN j.to : Given(p, d, j.to[d])'
        BY <1>8, <1>10, <3>1
      <3> QED
        BY <1>1, <1>4, <1>5, <3>1, <3>2 DEF JobOK
    <2> QED
      BY <1>1, <1>9, <2>1, <2>2, OneDeliveryMoves
  <1>11. CASE answer.invalid # {}
    <2> DEFINE new == [step |-> "invalidate", since |-> job[w][p].since, to |-> to, invalid |-> answer.invalid, then |-> answer.then]
    <2>1. JobTo(w, p, new)
      BY <1>0, <1>2, <1>3, <1>11
    <2>2. \A j : j = new => JobOK(j, p)'
      <3> SUFFICES ASSUME NEW j, j = new PROVE JobOK(j, p)'
        OBVIOUS
      <3>1. /\ {"step", "since", "to"} \subseteq DOMAIN j /\ j.step = "invalidate" /\ j.since = job[w][p].since
            /\ j.to = to /\ j.invalid = answer.invalid /\ j.then = answer.then
        OBVIOUS
      <3> HIDE DEF new
      <3> QED
        BY <1>1, <1>4, <1>5, <1>8, <3>1 DEF JobOK
    <2> QED
      BY <1>1, <1>9, <2>1, <2>2, OneDeliveryMoves
  <1> QED
    BY <1>10, <1>11

\* The refused devices lose their tokens, or the delivery is tried again.
LEMMA InvalidateKeeps ==
  ASSUME PushInv, NEW w \in Dispatcher, NEW p \in Push, InvalidatePushDevices(w, p)
  PROVE  PushInv'
  <1>0. PICK old : old = job[w][p]
    OBVIOUS
  <1>1. /\ old.step = "invalidate" /\ UNCHANGED <<outbox, current, retracted, shown, asked, epoch>>
        /\ WorldTypes /\ JobOK(old, p)
    BY <1>0 DEF InvalidatePushDevices, JobAt, PushInv, JobsOK
  <1>2. PICK s : /\ JobTo(w, p, [step |-> s, since |-> old.since, to |-> old.to])
                 /\ \/ s = old.then /\ device' = SwitchOff(old.invalid)
                    \/ s = "retry" /\ device' = device
    BY <1>0 DEF InvalidatePushDevices
  <1>3. /\ DOMAIN device' = Device /\ \A d \in Device : device'[d] = device[d] \/ device'[d] = 0
        /\ s = old.then \/ s = "retry"
        /\ s = old.then /\ s # "retry" => \A d \in Device : d \in old.invalid => device'[d] = 0
    BY <1>1, <1>2 DEF SwitchOff, WorldTypes
  <1>4. WorldTypes' /\ WorldMoves
    BY <1>1, <1>3 DEF WorldTypes, WorldMoves
  <1>5. /\ old.then \in {"sent", "retry", "failed"}
        /\ outbox[p].status # "none" /\ old.since \in Nat /\ outbox[p].epoch <= old.since /\ old.since <= epoch
        /\ DOMAIN old.to \subseteq Device
        /\ \A d \in DOMAIN old.to : old.to[d] \in Nat /\ old.to[d] > 0 /\ old.to[d] <= current[d]
        /\ old.then = "sent" => \A d \in DOMAIN old.to : Given(p, d, old.to[d]) \/ (d \in old.invalid /\ old.to[d] # current[d])
    BY <1>1 DEF JobOK
  <1>6. \A j : j = [step |-> s, since |-> old.since, to |-> old.to] => JobOK(j, p)'
    <2> SUFFICES ASSUME NEW j, j = [step |-> s, since |-> old.since, to |-> old.to] PROVE JobOK(j, p)'
      OBVIOUS
    <2>1. {"step", "since", "to"} \subseteq DOMAIN j /\ j.step = s /\ j.since = old.since /\ j.to = old.to
      OBVIOUS
    <2>2. \A d \in DOMAIN old.to : Given(p, d, old.to[d]) => Given(p, d, old.to[d])'
      BY <1>1 DEF Given
    <2>3. s = "sent" => \A d \in DOMAIN old.to :
             Given(p, d, old.to[d])' \/ (old.to[d] # current[d] /\ device'[d] # old.to[d])
      <3> SUFFICES ASSUME s = "sent", NEW d \in DOMAIN old.to
                   PROVE  Given(p, d, old.to[d])' \/ (old.to[d] # current[d] /\ device'[d] # old.to[d])
        OBVIOUS
      <3>1. Given(p, d, old.to[d]) \/ (d \in old.invalid /\ old.to[d] # current[d])
        BY <1>3, <1>5
      <3>2. d \in old.invalid => device'[d] = 0
        BY <1>3, <1>5
      <3> QED
        BY <1>5, <2>2, <3>1, <3>2
    <2> QED
      BY <1>1, <1>3, <1>5, <2>1, <2>3 DEF JobOK
  <1> QED
    BY <1>0, <1>1, <1>2, <1>4, <1>6, OneDeliveryMoves

\* The row is settled with what the delivery found.
LEMMA CompleteKeepsPush ==
  ASSUME PushInv, NEW w \in Dispatcher, NEW p \in Push, CompletePush(w, p)
  PROVE  PushInv'
  <1> DEFINE old == job[w][p]
  <1>1. /\ old.step \in {"sent", "retry", "failed"} /\ JobTo(w, p, NoJob) /\ UNCHANGED <<device, current, retracted, shown, epoch>>
        /\ WorldTypes /\ JobOK(old, p)
    BY DEF CompletePush, PushInv, JobsOK
  <1>2. JobOK(NoJob, p)'
    BY DEF JobOK, NoJob
  <1>3. CASE ~StillProcessing(p)
    <2>1. UNCHANGED <<outbox, asked>>
      BY <1>3 DEF CompletePush
    <2>2. WorldTypes' /\ WorldMoves
      BY <1>1, <2>1 DEF WorldTypes, WorldMoves
    <2> QED
      BY <1>1, <1>2, <2>1, <2>2, OneDeliveryMoves
  <1>4. CASE StillProcessing(p)
    <2>1. PICK end : /\ end = IF old.step = "retry" THEN IF outbox[p].attempts >= MaxAttempt THEN "failed" ELSE "pending" ELSE old.step
                     /\ outbox' = [outbox EXCEPT ![p].status = end]
                     /\ asked' = [asked EXCEPT ![p] = {<<d, old.to[d]>> : d \in DOMAIN old.to}]
      BY <1>4 DEF CompletePush
    <2>2. end \in {"sent", "failed", "pending"} /\ (end = "sent" => old.step = "sent")
      BY <1>1, <2>1
    <2>3. outbox[p].status = "processing"
      BY <1>4 DEF StillProcessing
    <2>4. /\ DOMAIN outbox' = Push /\ DOMAIN outbox'[p] = OutboxField /\ outbox'[p].status = end /\ outbox'[p].epoch = outbox[p].epoch
          /\ \A q \in Push : q # p => outbox'[q] = outbox[q]
      BY <1>1, <2>1 DEF WorldTypes, OutboxField
    <2>5. /\ DOMAIN asked' = Push /\ asked'[p] = {<<d, old.to[d]>> : d \in DOMAIN old.to}
          /\ \A q \in Push : q # p => asked'[q] = asked[q]
      BY <1>1, <2>1 DEF WorldTypes
    <2>6. WorldTypes'
      BY <1>1, <2>2, <2>3, <2>4, <2>5 DEF WorldTypes
    <2>7. WorldMoves
      BY <1>1, <2>2, <2>3, <2>4 DEF WorldMoves, WorldTypes
    <2>8. JobsOK'
      <3>1. /\ DOMAIN job' = Dispatcher /\ \A v \in Dispatcher : DOMAIN job'[v] = Push
            /\ job'[w][p] = NoJob
            /\ \A v \in Dispatcher, q \in Push : v # w \/ q # p => job'[v][q] = job[v][q]
        BY <1>1 DEF JobTo, PushInv, JobsOK
      <3> SUFFICES ASSUME NEW v \in Dispatcher, NEW q \in Push PROVE JobOK(job[v][q], q)'
        BY <3>1 DEF JobsOK
      <3>2. CASE v = w /\ q = p
        BY <3>1, <3>2 DEF JobOK, NoJob
      <3>3. CASE v # w \/ q # p
        <4>1. job'[v][q] = job[v][q]
          BY <3>1, <3>3
        <4>2. \A j : j = job[v][q] => JobOK(j, q)'
          <5> SUFFICES ASSUME NEW j, j = job[v][q] PROVE JobOK(j, q)'
            OBVIOUS
          <5>1. JobOK(j, q)
            BY DEF PushInv, JobsOK
          <5> QED
            BY <1>1, <2>6, <2>7, <5>1, JobStays
        <4> QED
          BY <4>1, <4>2 DEF JobOK, Given
      <3> QED
        BY <3>2, <3>3
    <2>9. /\ DOMAIN old.to \subseteq Device /\ \A d \in DOMAIN old.to : old.to[d] \in Nat /\ old.to[d] <= current[d]
          /\ old.step = "sent" => p \in retracted \/ \A d \in DOMAIN old.to :
                Given(p, d, old.to[d]) \/ (old.to[d] # current[d] /\ device[d] # old.to[d])
      BY <1>1 DEF JobOK
    <2> HIDE DEF old
    <2>10. AskedOK'
      <3> SUFFICES ASSUME NEW q \in Push, NEW a \in asked'[q] PROVE a \in Device \X Nat /\ a[2] <= current[a[1]]
        BY <1>1 DEF AskedOK
      <3>1. CASE q = p
        <4>1. PICK d \in DOMAIN old.to : a = <<d, old.to[d]>>
          BY <2>5, <3>1
        <4> QED
          BY <2>9, <4>1
      <3>2. CASE q # p
        BY <2>5, <3>2 DEF PushInv, AskedOK
      <3> QED
        BY <3>1, <3>2
    <2>11. SentIsHonest'
      <3> SUFFICES ASSUME NEW q \in Push, outbox'[q].status = "sent", q \notin retracted, NEW a \in asked'[q]
                   PROVE  a \in shown[q] \/ a[2] # current[a[1]] \/ (a[1] \in Voip /\ q \notin Call)
        BY <1>1 DEF SentIsHonest
      <3>1. CASE q = p
        <4>1. PICK d \in DOMAIN old.to : a = <<d, old.to[d]>>
          BY <2>5, <3>1
        <4>2. Given(p, d, old.to[d]) \/ old.to[d] # current[d]
          BY <2>2, <2>4, <2>9, <3>1
        <4> QED
          BY <3>1, <4>1, <4>2 DEF Given
      <3>2. CASE q # p
        BY <2>4, <2>5, <3>2 DEF PushInv, SentIsHonest
      <3> QED
        BY <3>1, <3>2
    <2> QED
      BY <2>6, <2>8, <2>10, <2>11 DEF PushInv
  <1> QED
    BY <1>3, <1>4

LEMMA StopsKeep ==
  ASSUME PushInv, NEW w \in Dispatcher, DispatcherStops(w)
  PROVE  PushInv'
  <1>1. /\ UNCHANGED <<outbox, device, current, retracted, shown, asked, epoch>>
        /\ job' = [job EXCEPT ![w] = [p \in Push |-> NoJob]] /\ WorldTypes
    BY DEF DispatcherStops, PushInv
  <1>2. WorldTypes' /\ WorldMoves
    BY <1>1 DEF WorldTypes, WorldMoves
  <1>3. /\ DOMAIN job' = Dispatcher /\ \A v \in Dispatcher : DOMAIN job'[v] = Push
        /\ \A v \in Dispatcher : v # w => job'[v] = job[v]
        /\ \A p \in Push : job'[w][p] = NoJob
    BY <1>1 DEF PushInv, JobsOK
  <1>4. \A p \in Push : JobOK(job[w][p], p)'
    BY <1>3 DEF JobOK, NoJob
  <1>5. \A v \in Dispatcher, p \in Push : job'[v][p] = job[v][p] \/ JobOK(job[v][p], p)'
    BY <1>3, <1>4
  <1> QED
    BY <1>1, <1>2, <1>3, <1>5, DeliveriesMove

LEMMA PushStep == PushInv /\ [PushNext]_pushVars => PushInv'
  <1> SUFFICES ASSUME PushInv, [PushNext]_pushVars PROVE PushInv'
    OBVIOUS
  <1>1. ASSUME NEW w \in Dispatcher, ClaimPush(w) \/ DispatcherStops(w) PROVE PushInv'
    BY <1>1, ClaimKeeps, StopsKeep
  <1>2. ASSUME NEW w \in Dispatcher, NEW p \in Push, Deliver(w, p) PROVE PushInv'
    BY <1>2, CheckKeeps, SendKeepsPush, InvalidateKeeps, CompleteKeepsPush DEF Deliver
  <1>3. CASE \/ \E p \in Push : EnqueuePush(p) \/ RetractMessage(p)
             \/ \E d \in Device : RotateToken(d) \/ RegisterDevice(d) \/ UnregisterDevice(d)
             \/ GoOffline \/ GoOnline
             \/ UNCHANGED pushVars
    BY <1>3, UserAndPlatform
  <1> QED
    BY <1>1, <1>2, <1>3 DEF PushNext

StaysSettled == \A p \in Push : outbox[p].status \in Settled2 => outbox'[p].status = outbox[p].status
SwitchedOff == \A p \in Push :
    outbox[p].status = "processing" /\ outbox'[p].status = "sent" =>
        \A a \in asked'[p] : device[a[1]] = a[2] /\ a \notin shown[p] =>
            p \in retracted \/ (a[1] \in Voip /\ p \notin Call)
OfItsSession == \A w \in Dispatcher, p \in Push :
    JobAt(w, p, "send") /\ shown'[p] # shown[p] => outbox[p].epoch = job[w][p].since

\* Whatever is about to be handed over is of the session its delivery began in.
LEMMA HandsOverItsOwn == PushInv => OfItsSession
  <1> SUFFICES ASSUME PushInv, NEW w \in Dispatcher, NEW p \in Push, JobAt(w, p, "send")
               PROVE  outbox[p].epoch = job[w][p].since
    BY DEF OfItsSession
  <1>1. JobOK(job[w][p], p)
    BY DEF PushInv, JobsOK
  <1> QED
    BY <1>1 DEF JobOK, JobAt

\* A row that is being sent or is settled is moved by its own CompletePush alone.
LEMMA OnlyCompletionSettles ==
  ASSUME PushInv, PushNext, NEW p \in Push, outbox[p].status \in {"processing", "sent", "failed"}
  PROVE  outbox'[p].status = outbox[p].status \/ \E w \in Dispatcher : CompletePush(w, p)
  <1>0. WorldTypes /\ DOMAIN outbox = Push
    BY DEF PushInv, WorldTypes
  <1>1. ASSUME NEW q \in Push, EnqueuePush(q) PROVE outbox'[p].status = outbox[p].status
    <2>1. q # p
      BY <1>1 DEF EnqueuePush
    <2> QED
      BY <1>0, <1>1, <2>1 DEF EnqueuePush
  <1>2. ASSUME GoOffline PROVE outbox'[p].status = outbox[p].status
    BY <1>2 DEF GoOffline
  <1>3. ASSUME NEW w \in Dispatcher, ClaimPush(w) PROVE outbox'[p].status = outbox[p].status
    <2>1. CASE p \in Due
      <3>1. outbox[p].status = "processing"
        BY <2>1 DEF Due
      <3>2. outbox'[p] = [outbox[p] EXCEPT !.status = "processing", !.attempts = AtMost(@ + 1, MaxAttempt)]
        BY <1>3, <2>1 DEF ClaimPush
      <3>3. "status" \in DOMAIN outbox[p]
        BY <1>0 DEF WorldTypes, OutboxField
      <3> QED
        BY <3>1, <3>2, <3>3
    <2>2. CASE p \notin Due
      BY <1>3, <2>2 DEF ClaimPush
    <2> QED
      BY <2>1, <2>2
  <1>4. ASSUME NEW w \in Dispatcher, NEW q \in Push, CompletePush(w, q), q # p
        PROVE  outbox'[p].status = outbox[p].status
    BY <1>0, <1>4 DEF CompletePush
  <1>5. ASSUME \/ \E q \in Push : RetractMessage(q)
               \/ \E d \in Device : RotateToken(d) \/ RegisterDevice(d) \/ UnregisterDevice(d)
               \/ GoOnline
               \/ \E w \in Dispatcher : DispatcherStops(w)
        PROVE  outbox'[p].status = outbox[p].status
    BY <1>5 DEF RetractMessage, RotateToken, RegisterDevice, UnregisterDevice, GoOnline, DispatcherStops
  <1>6. ASSUME NEW w \in Dispatcher, NEW q \in Push,
               \/ CanPresentPush(w, q) \/ DeliveryFails(w, q) \/ EnterpriseSend(w, q) \/ SendPush(w, q)
               \/ InvalidatePushDevices(w, q)
        PROVE  outbox'[p].status = outbox[p].status
    BY <1>6 DEF CanPresentPush, DeliveryFails, EnterpriseSend, SendPush, InvalidatePushDevices
  <1> QED
    BY <1>1, <1>2, <1>3, <1>4, <1>5, <1>6 DEF PushNext, Deliver

LEMMA SettledStays ==
  ASSUME PushInv, PushNext
  PROVE  StaysSettled
  <1> SUFFICES ASSUME NEW p \in Push, outbox[p].status \in Settled2
               PROVE  outbox'[p].status = outbox[p].status
    BY DEF StaysSettled
  <1>1. outbox[p].status \in {"sent", "failed"}
    BY DEF Settled2
  <1>2. \A w \in Dispatcher : CompletePush(w, p) => outbox' = outbox
    BY <1>1 DEF CompletePush, StillProcessing
  <1> QED
    BY <1>1, <1>2, OnlyCompletionSettles

\* Who settles a row as sent was refused only tokens that are switched off by now.
LEMMA RefusedAreOff ==
  ASSUME PushInv, PushNext
  PROVE  SwitchedOff
  <1> SUFFICES ASSUME NEW p \in Push, outbox[p].status = "processing", outbox'[p].status = "sent",
                      NEW a \in asked'[p], device[a[1]] = a[2], a \notin shown[p], p \notin retracted
               PROVE  a[1] \in Voip /\ p \notin Call
    BY DEF SwitchedOff
  <1>1. PICK w \in Dispatcher : CompletePush(w, p)
    BY OnlyCompletionSettles
  <1>2. PICK old : old = job[w][p]
    OBVIOUS
  <1>3. DOMAIN outbox = Push /\ "status" \in DOMAIN outbox[p] /\ DOMAIN asked = Push
    BY DEF PushInv, WorldTypes, OutboxField
  <1>4. /\ outbox'[p].status = IF old.step = "retry" THEN IF outbox[p].attempts >= MaxAttempt THEN "failed" ELSE "pending"
                               ELSE old.step
        /\ asked'[p] = {<<d, old.to[d]>> : d \in DOMAIN old.to}
    BY <1>1, <1>2, <1>3 DEF CompletePush, StillProcessing
  <1>5. old.step = "sent"
    BY <1>4
  <1>6. PICK d \in DOMAIN old.to : a = <<d, old.to[d]>>
    BY <1>4
  <1>7. JobOK(old, p)
    BY <1>2 DEF PushInv, JobsOK
  <1>8. Given(p, d, old.to[d]) \/ device[d] # old.to[d]
    BY <1>5, <1>7 DEF JobOK
  <1>9. a[1] = d /\ a[2] = old.to[d]
    BY <1>6
  <1> QED
    BY <1>6, <1>8, <1>9 DEF Given

\* Notifications are settled once and honestly, refused tokens are not kept, and
\* nothing of a session that ended is presented by a delivery of another one.
THEOREM PushKeepsPromise == PushSpec => PushKept
  <1>1. PushSpec => []PushInv
    BY PushInitHolds, PushStep, PTL DEF PushSpec
  <1>2. PushInv => SentIsHonest
    BY DEF PushInv
  <1>3. PushInv /\ [PushNext]_pushVars => [StaysSettled /\ SwitchedOff /\ OfItsSession]_pushVars
    BY HandsOverItsOwn, SettledStays, RefusedAreOff
  <1>4. PushSpec => []SentIsHonest
    BY <1>1, <1>2, PTL
  <1>5. PushSpec => [][StaysSettled /\ SwitchedOff /\ OfItsSession]_pushVars
    BY <1>1, <1>3, PTL DEF PushSpec
  <1>6. PushSpec => [][StaysSettled]_pushVars /\ [][SwitchedOff]_pushVars /\ [][OfItsSession]_pushVars
    BY <1>5, PTL
  <1> QED
    BY <1>4, <1>6 DEF PushKept, PushSettlesOnce, RefusedIsSwitchedOff, OldSessionStaysQuiet,
                      StaysSettled, SwitchedOff, OfItsSession

(***************************************************************************)
(* Scheduled messages (ScheduledSend): a batch holds rows in processing,   *)
(* as they are, and what is about to be sent is not kept.                  *)
(***************************************************************************)
SchedField == {"status", "body", "tries", "due", "lapsed"}
LeasedRow == [msg : Msg, body : Body]

SchedTypes ==
    /\ DOMAIN sched = Msg /\ \A m \in Msg : DOMAIN sched[m] = SchedField
    /\ \A m \in Msg : sched[m].status # "absent" => sched[m].body \in Body
    /\ DOMAIN kept = Msg /\ \A m \in Msg : kept[m] \in {<<>>, <<kept[m][1]>>}
    /\ batch \in Seq(LeasedRow)

\* What the worker holds is in processing and shows what the worker sends.
BatchIsHeld ==
    /\ \A i \in 1 .. Len(batch) : sched[batch[i].msg].status = "processing" /\ sched[batch[i].msg].body = batch[i].body
    /\ \A i, j \in 1 .. Len(batch) : i # j => batch[i].msg # batch[j].msg

\* The message in hand is not kept before it is sent, and is when it is done.
SendIsNew ==
    /\ InHand("send") => kept[Held1] = <<>>
    /\ InHand("done") => kept[Held1] = <<Sent1>>

SchedInv == SchedTypes /\ BatchIsHeld /\ SendIsNew /\ SentIsKept

LEMMA SchedInitHolds == SchedInit => SchedInv
  <1> SUFFICES ASSUME SchedInit PROVE SchedInv
    OBVIOUS
  <1>1. /\ DOMAIN sched = Msg /\ \A m \in Msg : DOMAIN sched[m] = SchedField /\ sched[m].status = "absent"
        /\ DOMAIN kept = Msg /\ (\A m \in Msg : kept[m] = <<>>) /\ batch = <<>>
    BY DEF SchedInit, NoMsg, SchedField
  <1> QED
    BY <1>1 DEF SchedInv, SchedTypes, BatchIsHeld, SendIsNew, SentIsKept, InHand, SchedStatus

LEMMA HeadOfBatch ==
  ASSUME SchedInv, batch # <<>>
  PROVE  /\ Len(batch) \in Nat /\ Len(batch) > 0 /\ Head(batch) = batch[1] /\ 1 \in 1 .. Len(batch)
         /\ Held1 \in Msg /\ Sent1 \in Body /\ Held1 = batch[1].msg /\ Sent1 = batch[1].body
         /\ sched[Held1].status = "processing" /\ sched[Held1].body = Sent1
  <1>1. batch \in Seq(LeasedRow)
    BY DEF SchedInv, SchedTypes
  <1>2. Len(batch) \in Nat /\ Len(batch) > 0 /\ Head(batch) = batch[1] /\ 1 \in 1 .. Len(batch) /\ batch[1] \in LeasedRow
    BY <1>1
  <1>3. Held1 \in Msg /\ Sent1 \in Body /\ Held1 = batch[1].msg /\ Sent1 = batch[1].body
    BY <1>2 DEF Held1, Sent1, LeasedRow
  <1> QED
    BY <1>2, <1>3 DEF SchedInv, BatchIsHeld

LEMMA RowsOfBatch ==
  ASSUME SchedInv
  PROVE  \A i \in 1 .. Len(batch) : batch[i].msg \in Msg /\ sched[batch[i].msg].status # "absent"
  <1>1. batch \in Seq(LeasedRow)
    BY DEF SchedInv, SchedTypes
  <1>2. \A i \in 1 .. Len(batch) : batch[i] \in LeasedRow
    BY <1>1
  <1>3. \A x \in LeasedRow : x.msg \in Msg
    BY DEF LeasedRow
  <1>4. \A i \in 1 .. Len(batch) : sched[batch[i].msg].status = "processing"
    BY DEF SchedInv, BatchIsHeld
  <1> QED
    BY <1>2, <1>3, <1>4

\* A row the worker does not hold is written, and nothing is sent.
LEMMA FreeRowWritten ==
  ASSUME SchedInv, NEW m \in Msg, UNCHANGED <<batch, stage, kept>>,
         DOMAIN sched' = Msg, DOMAIN sched'[m] = SchedField,
         sched'[m].status # "absent" => sched'[m].body \in Body,
         sched[m].status # "processing" \/ (sched'[m].status = "processing" /\ sched'[m].body = sched[m].body),
         sched'[m].status # "sent",
         \A n \in Msg : n # m => sched'[n] = sched[n]
  PROVE  SchedInv'
  <1>1. SchedTypes'
    BY DEF SchedInv, SchedTypes
  <1>2. \A i \in 1 .. Len(batch) : batch[i].msg \in Msg
    BY RowsOfBatch
  <1>3. BatchIsHeld'
    BY <1>2 DEF SchedInv, BatchIsHeld
  <1>4. SendIsNew' /\ SentIsKept'
    BY DEF SchedInv, SendIsNew, SentIsKept, InHand, Held1, Sent1, SchedStatus
  <1> QED
    BY <1>1, <1>3, <1>4 DEF SchedInv

LEMMA UserKeeps ==
  ASSUME SchedInv, NEW m \in Msg, NEW b \in Body,
         Schedule(m, b) \/ UpdateScheduledMessage(m, b) \/ CancelScheduledMessage(m) \/ ComeDue(m) \/ LeaseLapses(m)
  PROVE  SchedInv'
  <1> USE DEF SchedStatus
  <1>0. DOMAIN sched = Msg /\ DOMAIN sched[m] = SchedField /\ (sched[m].status # "absent" => sched[m].body \in Body)
    BY DEF SchedInv, SchedTypes
  <1>1. CASE Schedule(m, b)
    <2>1. /\ sched[m].status = "absent" /\ UNCHANGED <<batch, stage, kept>>
          /\ sched' = [sched EXCEPT ![m] = [NoMsg EXCEPT !.status = "pending", !.body = b]]
      BY <1>1 DEF Schedule, CreateScheduledMessage
    <2>2. /\ DOMAIN sched' = Msg /\ DOMAIN sched'[m] = SchedField /\ sched'[m].status = "pending" /\ sched'[m].body = b
          /\ \A n \in Msg : n # m => sched'[n] = sched[n]
      BY <1>0, <2>1 DEF NoMsg, SchedField
    <2> QED
      BY <2>1, <2>2, FreeRowWritten
  <1>2. CASE UpdateScheduledMessage(m, b)
    <2>1. sched[m].status = "pending" /\ UNCHANGED <<batch, stage, kept>>
      BY <1>2 DEF UpdateScheduledMessage, Pending
    <2>2. PICK later \in BOOLEAN : sched' = [sched EXCEPT ![m].body = b, ![m].due = IF later THEN FALSE ELSE @]
      BY <1>2 DEF UpdateScheduledMessage
    <2>3. /\ DOMAIN sched' = Msg /\ DOMAIN sched'[m] = SchedField /\ sched'[m].status = "pending" /\ sched'[m].body = b
          /\ \A n \in Msg : n # m => sched'[n] = sched[n]
      BY <1>0, <2>1, <2>2 DEF SchedField
    <2> QED
      BY <2>1, <2>3, FreeRowWritten
  <1>3. CASE CancelScheduledMessage(m)
    <2>1. /\ sched[m].status = "pending" /\ UNCHANGED <<batch, stage, kept>>
          /\ sched' = [sched EXCEPT ![m].status = "cancelled"]
      BY <1>3 DEF CancelScheduledMessage, Pending
    <2>2. /\ DOMAIN sched' = Msg /\ DOMAIN sched'[m] = SchedField /\ sched'[m].status = "cancelled" /\ sched'[m].body = sched[m].body
          /\ \A n \in Msg : n # m => sched'[n] = sched[n]
      BY <1>0, <2>1 DEF SchedField
    <2> QED
      BY <1>0, <2>1, <2>2, FreeRowWritten
  <1>4. CASE ComeDue(m) \/ LeaseLapses(m)
    <2>1. /\ UNCHANGED <<batch, stage, kept>> /\ sched[m].status \in {"pending", "processing"}
          /\ sched' = [sched EXCEPT ![m].due = TRUE] \/ sched' = [sched EXCEPT ![m].lapsed = TRUE]
      BY <1>4 DEF ComeDue, LeaseLapses
    <2>2. /\ DOMAIN sched' = Msg /\ DOMAIN sched'[m] = SchedField /\ sched'[m].status = sched[m].status
          /\ sched'[m].body = sched[m].body
          /\ \A n \in Msg : n # m => sched'[n] = sched[n]
      BY <1>0, <2>1 DEF SchedField
    <2> QED
      BY <1>0, <2>1, <2>2, FreeRowWritten
  <1> QED
    BY <1>1, <1>2, <1>3, <1>4

LEMMA OrderOfRows ==
  ASSUME NEW rows, rows \subseteq Msg
  PROVE  \E n \in Nat : /\ SetToSeq(rows) \in [1 .. n -> rows]
                        /\ \A i, j \in 1 .. n : i # j => SetToSeq(rows)[i] # SetToSeq(rows)[j]
  <1>1. IsFiniteSet(rows)
    BY FS_Subset, ScheduledAssumption DEF ScheduledAssumption
  <1>2. PICK n \in Nat : ExistsBijection(1 .. n, rows)
    BY <1>1, FS_NatBijection
  <1>3. Cardinality(rows) = n
    BY <1>2, FS_CountingElements
  <1>4. \E f \in [1 .. n -> rows] : IsInjective(f)
    BY <1>2 DEF ExistsBijection, Bijection, Injection
  <1>5. SetToSeq(rows) \in [1 .. n -> rows] /\ IsInjective(SetToSeq(rows))
    BY <1>3, <1>4 DEF SetToSeq
  <1> QED
    BY <1>5 DEF IsInjective

LEMMA LeaseKeepsSched ==
  ASSUME SchedInv, LeaseScheduledMessages
  PROVE  SchedInv'
  <1> DEFINE rows == {m \in Msg : Leasable(m)}
             order == SetToSeq(rows)
  <1>1. /\ sched' = [m \in Msg |-> IF m \in rows
                                  THEN [sched[m] EXCEPT !.status = "processing", !.tries = @ + 1, !.lapsed = FALSE]
                                  ELSE sched[m]]
        /\ batch' = [i \in DOMAIN order |-> [msg |-> order[i], body |-> sched[order[i]].body]]
        /\ stage' = "prepare" /\ kept' = kept
    BY DEF LeaseScheduledMessages
  <1>2. rows \subseteq Msg /\ \A m \in rows : sched[m].status \in {"pending", "processing"} /\ sched[m].body \in Body
    BY DEF Leasable, SchedStatus, SchedInv, SchedTypes
  <1>3. PICK n \in Nat : order \in [1 .. n -> rows] /\ \A i, j \in 1 .. n : i # j => order[i] # order[j]
    BY <1>2, OrderOfRows
  <1> HIDE DEF rows, order
  <1>4. /\ DOMAIN sched' = Msg /\ \A m \in Msg : DOMAIN sched'[m] = SchedField /\ sched'[m].body = sched[m].body
        /\ \A m \in Msg : sched'[m].status = IF m \in rows THEN "processing" ELSE sched[m].status
    BY <1>1 DEF SchedInv, SchedTypes, SchedField
  <1>5. \A i \in 1 .. n : order[i] \in rows /\ [msg |-> order[i], body |-> sched[order[i]].body] \in LeasedRow
    BY <1>2, <1>3 DEF LeasedRow
  <1>6. batch' \in [1 .. n -> LeasedRow]
    BY <1>1, <1>3, <1>5
  <1>7. batch' \in Seq(LeasedRow) /\ Len(batch') = n
    BY <1>6, SeqDef
  <1>8. \A i \in 1 .. n : batch'[i].msg = order[i] /\ batch'[i].body = sched[order[i]].body
    BY <1>1, <1>3
  <1>9. SchedTypes'
    BY <1>1, <1>2, <1>4, <1>7 DEF SchedInv, SchedTypes
  <1>10. BatchIsHeld'
    <2>1. \A i \in 1 .. Len(batch') : /\ sched'[batch'[i].msg].status = "processing"
                                      /\ sched'[batch'[i].msg].body = batch'[i].body
      <3> SUFFICES ASSUME NEW i \in 1 .. n
                   PROVE  sched'[batch'[i].msg].status = "processing" /\ sched'[batch'[i].msg].body = batch'[i].body
        BY <1>7
      <3>1. order[i] \in rows /\ order[i] \in Msg
        BY <1>2, <1>5
      <3>2. sched'[order[i]].status = "processing" /\ sched'[order[i]].body = sched[order[i]].body
        BY <1>4, <3>1
      <3> QED
        BY <1>8, <3>2
    <2>2. \A i, j \in 1 .. Len(batch') : i # j => batch'[i].msg # batch'[j].msg
      BY <1>3, <1>7, <1>8
    <2> QED
      BY <2>1, <2>2 DEF BatchIsHeld
  <1>11. SendIsNew'
    BY <1>1 DEF SendIsNew, InHand
  <1>12. SentIsKept'
    <2>1. \A m \in Msg : sched'[m].status = "sent" => sched[m].status = "sent" /\ sched'[m].body = sched[m].body
      BY <1>4
    <2>2. \A m \in Msg : sched[m].status = "sent" => kept[m] = <<sched[m].body>>
      BY DEF SchedInv, SentIsKept, SchedStatus
    <2>3. \A m \in Msg : sched'[m].status = "sent" => kept'[m] = <<sched'[m].body>>
      BY <1>1, <2>1, <2>2
    <2> QED
      BY <2>3 DEF SentIsKept, SchedStatus
  <1> QED
    BY <1>9, <1>10, <1>11, <1>12 DEF SchedInv

\* The worker goes on with the message in hand without sending it.
LEMMA StageKeeps ==
  ASSUME SchedInv, PrepareMessage \/ AuthorizeMessage \/ SearchMessages \/ SendRefused
  PROVE  SchedInv'
  <1>1. UNCHANGED <<sched, batch, kept>> /\ batch # <<>>
    BY DEF PrepareMessage, AuthorizeMessage, SearchMessages, SendRefused, InHand
  <1>2. Held1' = Held1 /\ Sent1' = Sent1
    BY <1>1 DEF Held1, Sent1
  <1>3. /\ stage' = "send" => kept[Held1] = <<>>
        /\ stage' = "done" => kept[Held1] = <<Sent1>>
    <2>1. CASE PrepareMessage
      BY <2>1 DEF PrepareMessage
    <2>2. CASE AuthorizeMessage
      BY <2>2 DEF AuthorizeMessage
    <2>3. CASE SearchMessages
      <3>1. Held1 \in Msg /\ kept[Held1] \in {<<>>, <<kept[Held1][1]>>}
        BY <1>1, HeadOfBatch DEF SchedInv, SchedTypes
      <3>2. stage' = "refused" \/ stage' = AfterSearch(kept[Held1])
        BY <2>3 DEF SearchMessages
      <3>3. CASE kept[Held1] = <<>>
        BY <3>2, <3>3 DEF AfterSearch
      <3>4. CASE kept[Held1] # <<>>
        <4>1. stage' = "refused" \/ (stage' = "done" /\ kept[Held1][1] = Sent1)
          BY <3>2, <3>4 DEF AfterSearch, SamePayload
        <4> QED
          BY <3>1, <3>4, <4>1
      <3> QED
        BY <3>3, <3>4
    <2>4. CASE SendRefused
      BY <2>4 DEF SendRefused
    <2> QED
      BY <2>1, <2>2, <2>3, <2>4
  <1>4. SendIsNew'
    BY <1>1, <1>2, <1>3 DEF SendIsNew, InHand
  <1> QED
    BY <1>1, <1>4 DEF SchedInv, SchedTypes, BatchIsHeld, SentIsKept, SchedStatus

LEMMA SendKeeps ==
  ASSUME SchedInv, SendStoredMessage
  PROVE  SchedInv'
  <1>1. /\ batch # <<>> /\ stage = "send" /\ kept' = [kept EXCEPT ![Held1] = Append(@, Sent1)]
        /\ stage' \in {"done", "refused"} /\ UNCHANGED <<sched, batch>>
    BY DEF SendStoredMessage, InHand
  <1>2. Held1 \in Msg /\ kept[Held1] = <<>> /\ sched[Held1].status = "processing"
    BY <1>1, HeadOfBatch DEF SchedInv, SendIsNew, InHand
  <1>3. DOMAIN kept' = Msg /\ kept'[Held1] = <<Sent1>> /\ \A m \in Msg : m # Held1 => kept'[m] = kept[m]
    BY <1>1, <1>2 DEF SchedInv, SchedTypes
  <1>4. Held1' = Held1 /\ Sent1' = Sent1
    BY <1>1 DEF Held1, Sent1
  <1>5. SchedTypes'
    BY <1>1, <1>3 DEF SchedInv, SchedTypes
  <1>6. SendIsNew'
    BY <1>1, <1>3, <1>4 DEF SendIsNew, InHand
  <1>7. BatchIsHeld' /\ SentIsKept'
    BY <1>1, <1>2, <1>3 DEF SchedInv, BatchIsHeld, SentIsKept, SchedStatus
  <1> QED
    BY <1>5, <1>6, <1>7 DEF SchedInv

LEMMA CompleteKeepsSched ==
  ASSUME SchedInv, CompleteScheduledMessage
  PROVE  SchedInv'
  <1>1. /\ batch # <<>> /\ stage \in {"done", "refused"} /\ kept' = kept /\ batch' = Tail(batch)
        /\ stage' \in {"idle", "prepare"}
        /\ sched' = sched \/ sched' = [sched EXCEPT ![Held1] = Completed1(@)]
    BY DEF CompleteScheduledMessage, InHand
  <1>2. /\ Len(batch) \in Nat /\ Len(batch) > 0 /\ 1 \in 1 .. Len(batch)
        /\ Held1 \in Msg /\ Held1 = batch[1].msg /\ sched[Held1].status = "processing" /\ sched[Held1].body = Sent1
        /\ batch \in Seq(LeasedRow)
    BY <1>1, HeadOfBatch DEF SchedInv, SchedTypes
  <1>3. /\ batch' \in Seq(LeasedRow) /\ Len(batch') = Len(batch) - 1
        /\ \A i \in 1 .. Len(batch') : batch'[i] = batch[i + 1] /\ i + 1 \in 1 .. Len(batch) /\ i + 1 # 1
    BY <1>1, <1>2
  <1>4. /\ DOMAIN sched' = Msg /\ \A m \in Msg : DOMAIN sched'[m] = SchedField /\ sched'[m].body = sched[m].body
        /\ \A m \in Msg : m # Held1 => sched'[m].status = sched[m].status
        /\ sched'[Held1].status = "sent" => stage = "done"
        /\ sched'[Held1].status # "absent"
    <2>1. CASE sched' = sched
      BY <1>2, <2>1 DEF SchedInv, SchedTypes
    <2>2. CASE sched' = [sched EXCEPT ![Held1] = Completed1(@)]
      <3>1. DOMAIN sched[Held1] = SchedField /\ DOMAIN sched = Msg /\ \A m \in Msg : DOMAIN sched[m] = SchedField
        BY <1>2 DEF SchedInv, SchedTypes
      <3>2. /\ DOMAIN Completed1(sched[Held1]) = SchedField /\ Completed1(sched[Held1]).body = sched[Held1].body
            /\ Completed1(sched[Held1]).status \in {"sent", "failed", "pending"}
            /\ Completed1(sched[Held1]).status = "sent" => stage = "done"
        BY <3>1 DEF Completed1, SchedField
      <3>3. sched'[Held1] = Completed1(sched[Held1]) /\ DOMAIN sched' = Msg /\ \A m \in Msg : m # Held1 => sched'[m] = sched[m]
        BY <1>2, <2>2, <3>1
      <3> QED
        BY <3>1, <3>2, <3>3
    <2> QED
      BY <1>1, <2>1, <2>2
  <1>5. \A i \in 1 .. Len(batch) : batch[i].msg \in Msg /\ sched[batch[i].msg].status # "absent"
    BY RowsOfBatch
  <1>6. SchedTypes'
    BY <1>1, <1>2, <1>3, <1>4 DEF SchedInv, SchedTypes
  <1>7. BatchIsHeld'
    <2>1. \A i \in 1 .. Len(batch') : batch'[i].msg # Held1 /\ batch'[i].msg \in Msg
      BY <1>2, <1>3, <1>5 DEF SchedInv, BatchIsHeld
    <2>2. \A i \in 1 .. Len(batch') : /\ sched[batch'[i].msg].status = "processing"
                                      /\ sched[batch'[i].msg].body = batch'[i].body
      BY <1>3 DEF SchedInv, BatchIsHeld
    <2>3. \A i, j \in 1 .. Len(batch') : i # j => batch'[i].msg # batch'[j].msg
      BY <1>3 DEF SchedInv, BatchIsHeld
    <2> QED
      BY <1>4, <2>1, <2>2, <2>3 DEF BatchIsHeld
  <1>8. SendIsNew'
    BY <1>1 DEF SendIsNew, InHand
  <1>9. SentIsKept'
    <2>1. stage = "done" => kept[Held1] = <<sched[Held1].body>>
      BY <1>1, <1>2 DEF SchedInv, SendIsNew, InHand
    <2> QED
      BY <1>1, <1>4, <2>1 DEF SchedInv, SentIsKept, SchedStatus
  <1> QED
    BY <1>6, <1>7, <1>8, <1>9 DEF SchedInv

LEMMA CrashKeeps ==
  ASSUME SchedInv, ServerCrash
  PROVE  SchedInv'
  <1>1. /\ batch # <<>> /\ batch' = <<>> /\ sched' = sched
        /\ kept' = kept \/ (stage = "send" /\ kept' = [kept EXCEPT ![Held1] = Append(@, Sent1)])
    BY DEF ServerCrash, InHand
  <1>2. Held1 \in Msg /\ sched[Held1].status = "processing" /\ (stage = "send" => kept[Held1] = <<>>)
    BY <1>1, HeadOfBatch DEF SchedInv, SendIsNew, InHand
  <1>3. /\ DOMAIN kept' = Msg /\ \A m \in Msg : kept'[m] \in {<<>>, <<kept'[m][1]>>}
        /\ \A m \in Msg : m # Held1 => kept'[m] = kept[m]
    <2>1. CASE kept' = kept
      BY <2>1 DEF SchedInv, SchedTypes
    <2>2. CASE stage = "send" /\ kept' = [kept EXCEPT ![Held1] = Append(@, Sent1)]
      <3>1. DOMAIN kept' = Msg /\ kept'[Held1] = <<Sent1>> /\ \A m \in Msg : m # Held1 => kept'[m] = kept[m]
        BY <1>2, <2>2 DEF SchedInv, SchedTypes
      <3>2. kept'[Held1] = <<kept'[Held1][1]>>
        BY <3>1
      <3>3. \A m \in Msg : kept[m] \in {<<>>, <<kept[m][1]>>}
        BY DEF SchedInv, SchedTypes
      <3>4. \A m \in Msg : kept'[m] \in {<<>>, <<kept'[m][1]>>}
        BY <3>1, <3>2, <3>3
      <3> QED
        BY <3>1, <3>4
    <2> QED
      BY <1>1, <2>1, <2>2
  <1>4. SchedTypes'
    BY <1>1, <1>3 DEF SchedInv, SchedTypes
  <1>5. BatchIsHeld' /\ SendIsNew'
    BY <1>1 DEF BatchIsHeld, SendIsNew, InHand
  <1>6. SentIsKept'
    BY <1>1, <1>2, <1>3 DEF SchedInv, SentIsKept, SchedStatus
  <1> QED
    BY <1>4, <1>5, <1>6 DEF SchedInv

LEMMA SchedStep == SchedInv /\ [SchedNext]_schedVars => SchedInv'
  <1> SUFFICES ASSUME SchedInv, [SchedNext]_schedVars PROVE SchedInv'
    OBVIOUS
  <1>1. ASSUME NEW m \in Msg, CancelScheduledMessage(m) \/ ComeDue(m) \/ LeaseLapses(m) PROVE SchedInv'
    <2>1. CASE Body # {}
      <3>1. PICK b \in Body : TRUE
        BY <2>1
      <3> QED
        BY <1>1, UserKeeps
    <2>2. CASE Body = {}
      <3>1. sched[m].status = "absent"
        BY <2>2 DEF SchedInv, SchedTypes
      <3> QED
        BY <1>1, <3>1 DEF CancelScheduledMessage, ComeDue, LeaseLapses, Pending, SchedStatus
    <2> QED
      BY <2>1, <2>2
  <1>2. ASSUME NEW m \in Msg, NEW b \in Body, Schedule(m, b) \/ UpdateScheduledMessage(m, b) PROVE SchedInv'
    BY <1>2, UserKeeps
  <1>3. CASE LeaseScheduledMessages \/ ServerCrash
    BY <1>3, LeaseKeepsSched, CrashKeeps
  <1>4. CASE WorkerStep \/ SendRefused
    BY <1>4, StageKeeps, SendKeeps, CompleteKeepsSched DEF WorkerStep
  <1>5. CASE UNCHANGED schedVars
    BY <1>5 DEF schedVars, SchedInv, SchedTypes, BatchIsHeld, SendIsNew, SentIsKept, SchedStatus, InHand, Held1, Sent1
  <1> QED
    BY <1>1, <1>2, <1>3, <1>4, <1>5 DEF SchedNext

\* Only what is in hand is sent, for a row in processing that shows it.
SendsInHand == \A m \in Msg : kept'[m] # kept[m] => SchedStatus(m) = "processing" /\ sched[m].body = Sent1

LEMMA SendsOnlyInHand == SchedInv /\ [SchedNext]_schedVars => SendsInHand
  <1> SUFFICES ASSUME SchedInv, [SchedNext]_schedVars, NEW m \in Msg, kept'[m] # kept[m]
               PROVE  sched[m].status = "processing" /\ sched[m].body = Sent1
    BY DEF SendsInHand, SchedStatus
  <1>1. SendStoredMessage \/ ServerCrash
    BY DEF SchedNext, WorkerStep, CancelScheduledMessage, ComeDue, LeaseLapses, Schedule, CreateScheduledMessage,
       UpdateScheduledMessage, LeaseScheduledMessages, PrepareMessage, AuthorizeMessage, SearchMessages,
       CompleteScheduledMessage, SendRefused, schedVars
  <1>2. batch # <<>> /\ (kept' = kept \/ kept' = [kept EXCEPT ![Held1] = Append(@, Sent1)])
    BY <1>1 DEF SendStoredMessage, ServerCrash, InHand
  <1>3. m = Held1
    BY <1>2 DEF SchedInv, SchedTypes
  <1> QED
    BY <1>2, <1>3, HeadOfBatch

\* However often a scheduled message is tried, WuKongIM keeps it once, as its row
\* shows, and nothing is sent but for a row the worker holds (ScheduleKept), for any
\* number of messages, edits, outages and restarts.
THEOREM ScheduleKeepsPromise == SchedSpec => ScheduleKept
  <1>1. SchedSpec => []SchedInv
    BY SchedInitHolds, SchedStep, PTL DEF SchedSpec
  <1>2. SchedInv => KeptOnce /\ SentIsKept
    <2>1. SchedInv => KeptOnce
      <3> SUFFICES ASSUME SchedInv, NEW m \in Msg PROVE Len(kept[m]) <= 1
        BY DEF KeptOnce
      <3>1. kept[m] = <<>> \/ kept[m] = <<kept[m][1]>>
        BY DEF SchedInv, SchedTypes
      <3>2. CASE kept[m] = <<>>
        BY <3>2
      <3>3. CASE kept[m] = <<kept[m][1]>>
        <4>1. Len(<<kept[m][1]>>) = 1
          OBVIOUS
        <4>2. Len(kept[m]) = 1
          BY <3>3, <4>1
        <4> QED
          BY <4>2
      <3> QED
        BY <3>1, <3>2, <3>3
    <2> QED
      BY <2>1 DEF SchedInv
  <1>3. SchedInv /\ [SchedNext]_schedVars => [SendsInHand]_schedVars
    BY SendsOnlyInHand
  <1>4. SchedSpec => [][SendsInHand]_schedVars
    BY <1>1, <1>3, PTL DEF SchedSpec
  <1>5. SchedSpec => OnlyProcessingIsSent
    BY <1>4 DEF SendsInHand, OnlyProcessingIsSent
  <1>6. SchedSpec => [](KeptOnce /\ SentIsKept)
    BY <1>1, <1>2, PTL
  <1> QED
    BY <1>5, <1>6 DEF ScheduleKept

(***************************************************************************)
(* Stored media (MediaStore): what is being cleaned is closed, and what    *)
(* was removed stays away.                                                 *)
(***************************************************************************)
MediaField == {"status", "cover", "aged", "clean"}
CleanField == {"todo", "removed", "ok"}

MediaTypes ==
    /\ DOMAIN row = Media /\ DOMAIN cleaner = Cleaner /\ objects \subseteq Media
    /\ \A x \in Media : /\ DOMAIN row[x] = MediaField /\ row[x].status \in {"absent", "pending", "ready", "gone"}
                        /\ row[x].aged \in BOOLEAN
    /\ \A w \in Cleaner : /\ DOMAIN cleaner[w] = CleanField /\ cleaner[w].todo \subseteq Media
                          /\ cleaner[w].removed \in Media \union {NoMedia}

\* Nobody puts an object for x again: its address has run out, or the upload is over.
Closed(x) == row[x].status \in {"ready", "gone"} \/ (row[x].status = "pending" /\ row[x].aged)

\* What a server cleans up is closed, and what it removed stays away.
CleaningIsFinal == \A w \in Cleaner :
    /\ \A x \in cleaner[w].todo : Closed(x)
    /\ cleaner[w].removed # NoMedia => Closed(cleaner[w].removed)
    /\ cleaner[w].removed # NoMedia /\ cleaner[w].ok = TRUE => cleaner[w].removed \notin objects

ObjectsHaveRows == \A x \in objects : MediaStatus(x) \in {"pending", "ready"}

MediaInv == MediaTypes /\ CleaningIsFinal /\ ObjectsHaveRows

LEMMA MediaInitHolds == MediaInit => MediaInv
  <1> SUFFICES ASSUME MediaInit PROVE MediaInv
    OBVIOUS
  <1>1. DOMAIN row = Media /\ \A x \in Media : DOMAIN row[x] = MediaField /\ row[x].status = "absent" /\ row[x].aged = FALSE
    BY DEF MediaInit, MediaField
  <1>2. /\ DOMAIN cleaner = Cleaner /\ objects = {}
        /\ \A w \in Cleaner : DOMAIN cleaner[w] = CleanField /\ cleaner[w].todo = {} /\ cleaner[w].removed = NoMedia
    BY DEF MediaInit, NoCleaning, CleanField
  <1>3. MediaTypes
    BY <1>1, <1>2 DEF MediaTypes
  <1> QED
    BY <1>2, <1>3 DEF MediaInv, CleaningIsFinal, ObjectsHaveRows

\* One row is written and what was closed stays so.
LEMMA OneRowWritten ==
  ASSUME MediaInv, NEW x \in Media, UNCHANGED <<objects, cleaner>>,
         DOMAIN row' = Media, DOMAIN row'[x] = MediaField, row'[x].aged \in BOOLEAN,
         row'[x].status \in {"absent", "pending", "ready", "gone"},
         Closed(x) => Closed(x)', x \in objects => row'[x].status \in {"pending", "ready"},
         \A y \in Media : y # x => row'[y] = row[y]
  PROVE  MediaInv'
  <1>1. \A y \in Media : Closed(y) => Closed(y)'
    BY DEF Closed
  <1>2. CleaningIsFinal'
    BY <1>1 DEF MediaInv, MediaTypes, CleaningIsFinal
  <1>3. ObjectsHaveRows'
    BY DEF MediaInv, MediaTypes, ObjectsHaveRows, MediaStatus
  <1>4. MediaTypes'
    BY DEF MediaInv, MediaTypes
  <1> QED
    BY <1>2, <1>3, <1>4 DEF MediaInv

LEMMA RowStepKeeps ==
  ASSUME MediaInv, NEW x \in Media, PrepareMedia(x) \/ MediaAges(x) \/ CleanupLapses(x)
  PROVE  MediaInv'
  <1>1. DOMAIN row = Media /\ DOMAIN row[x] = MediaField /\ row[x].aged \in BOOLEAN
        /\ row[x].status \in {"absent", "pending", "ready", "gone"}
    BY DEF MediaInv, MediaTypes
  <1>2. CASE PrepareMedia(x)
    <2>1. row[x].status = "absent" /\ row' = [row EXCEPT ![x].status = "pending"] /\ UNCHANGED <<objects, cleaner>>
      BY <1>2 DEF PrepareMedia, MediaStatus
    <2>2. /\ DOMAIN row' = Media /\ DOMAIN row'[x] = MediaField /\ row'[x].status = "pending" /\ row'[x].aged = row[x].aged
          /\ \A y \in Media : y # x => row'[y] = row[y]
      BY <1>1, <2>1 DEF MediaField
    <2>3. ~Closed(x)
      BY <2>1 DEF Closed
    <2> QED
      BY <1>1, <2>1, <2>2, <2>3, OneRowWritten
  <1>3. CASE MediaAges(x)
    <2>1. row' = [row EXCEPT ![x].aged = TRUE] /\ UNCHANGED <<objects, cleaner>> /\ row[x].status \in {"pending", "ready"}
      BY <1>3 DEF MediaAges, MediaStatus
    <2>2. /\ DOMAIN row' = Media /\ DOMAIN row'[x] = MediaField /\ row'[x].status = row[x].status /\ row'[x].aged = TRUE
          /\ \A y \in Media : y # x => row'[y] = row[y]
      BY <1>1, <2>1 DEF MediaField
    <2>3. Closed(x)'
      BY <2>1, <2>2 DEF Closed
    <2> QED
      BY <1>1, <2>1, <2>2, <2>3, OneRowWritten
  <1>4. CASE CleanupLapses(x)
    <2>1. row' = [row EXCEPT ![x].clean = "lapsed"] /\ UNCHANGED <<objects, cleaner>>
      BY <1>4 DEF CleanupLapses
    <2>2. /\ DOMAIN row' = Media /\ DOMAIN row'[x] = MediaField /\ row'[x].status = row[x].status /\ row'[x].aged = row[x].aged
          /\ \A y \in Media : y # x => row'[y] = row[y]
      BY <1>1, <2>1 DEF MediaField
    <2>3. Closed(x) => Closed(x)'
      BY <2>2 DEF Closed
    <2>4. x \in objects => row[x].status \in {"pending", "ready"}
      BY DEF MediaInv, ObjectsHaveRows, MediaStatus
    <2> QED
      BY <1>1, <2>1, <2>2, <2>3, <2>4, OneRowWritten
  <1> QED
    BY <1>2, <1>3, <1>4

LEMMA CompleteKeeps ==
  ASSUME MediaInv, NEW x \in Media, NEW c \in Media \union {NoMedia}, CompleteMediaWithCover(x, c)
  PROVE  MediaInv'
  <1>1. DOMAIN row = Media /\ DOMAIN row[x] = MediaField
    BY DEF MediaInv, MediaTypes
  <1>2. UNCHANGED <<objects, cleaner>>
    BY DEF CompleteMediaWithCover
  <1>3. CASE row' = row
    BY <1>2, <1>3 DEF MediaInv, MediaTypes, CleaningIsFinal, ObjectsHaveRows, Closed, MediaStatus
  <1>4. CASE row' # row
    <2>1. row' = [row EXCEPT ![x].status = "ready", ![x].cover = c, ![x].aged = FALSE]
      BY <1>4 DEF CompleteMediaWithCover
    <2>2. /\ DOMAIN row' = Media /\ DOMAIN row'[x] = MediaField /\ row'[x].status = "ready" /\ row'[x].aged = FALSE
          /\ \A y \in Media : y # x => row'[y] = row[y]
      BY <1>1, <2>1 DEF MediaField
    <2>3. Closed(x)'
      BY <2>2 DEF Closed
    <2> QED
      BY <1>2, <2>2, <2>3, OneRowWritten
  <1> QED
    BY <1>3, <1>4

\* An address that is good is that of an upload nobody cleans up.
LEMMA PutKeepsMedia ==
  ASSUME MediaInv, NEW x \in Media, PutObject(x)
  PROVE  MediaInv'
  <1>1. row[x].status = "pending" /\ row[x].aged = FALSE /\ objects' = objects \union {x} /\ UNCHANGED <<row, cleaner>>
    BY DEF PutObject, MediaStatus, MediaInv, MediaTypes
  <1>2. ~Closed(x)
    BY <1>1 DEF Closed
  <1>3. \A w \in Cleaner : cleaner[w].removed # x
    BY <1>2, MediaAssumption DEF MediaInv, CleaningIsFinal, MediaAssumption, Media
  <1> QED
    BY <1>1, <1>3 DEF MediaInv, MediaTypes, CleaningIsFinal, ObjectsHaveRows, Closed, MediaStatus

LEMMA LeaseKeeps ==
  ASSUME MediaInv, NEW w \in Cleaner, LeaseMediaCleanup(w)
  PROVE  MediaInv'
  <1> DEFINE items == {x \in Media : Abandoned(x) /\ MayLease(x)}
  <1>1. /\ cleaner[w] = NoCleaning
        /\ row' = [x \in Media |-> IF x \in items THEN [row[x] EXCEPT !.clean = "processing"] ELSE row[x]]
        /\ cleaner' = [cleaner EXCEPT ![w].todo = items] /\ objects' = objects
    BY DEF LeaseMediaCleanup
  <1>2. items \subseteq Media /\ \A x \in items : Closed(x)
    BY DEF Abandoned, Closed, MediaStatus
  <1> HIDE DEF items
  <1>3. DOMAIN row' = Media /\ \A x \in Media : DOMAIN row'[x] = MediaField /\ row'[x].status = row[x].status /\ row'[x].aged = row[x].aged
    BY <1>1 DEF MediaInv, MediaTypes, MediaField
  <1>4. /\ DOMAIN cleaner' = Cleaner /\ DOMAIN cleaner'[w] = CleanField /\ cleaner'[w].todo = items
        /\ cleaner'[w].removed = NoMedia
        /\ \A v \in Cleaner : v # w => cleaner'[v] = cleaner[v]
    BY <1>1 DEF MediaInv, MediaTypes, CleanField, NoCleaning
  <1>5. \A x \in Media : Closed(x)' <=> Closed(x)
    BY <1>3 DEF Closed
  <1>6. MediaTypes'
    BY <1>1, <1>2, <1>3, <1>4 DEF MediaInv, MediaTypes
  <1>7. CleaningIsFinal'
    BY <1>1, <1>2, <1>4, <1>5 DEF MediaInv, MediaTypes, CleaningIsFinal
  <1>8. ObjectsHaveRows'
    BY <1>1, <1>3 DEF MediaInv, MediaTypes, ObjectsHaveRows, MediaStatus
  <1> QED
    BY <1>6, <1>7, <1>8 DEF MediaInv

LEMMA RemoveKeeps ==
  ASSUME MediaInv, NEW w \in Cleaner, NEW x \in Media, RemoveObject(w, x)
  PROVE  MediaInv'
  <1>1. x \in cleaner[w].todo /\ row' = row /\ objects' \subseteq objects
    BY DEF RemoveObject
  <1>2. /\ DOMAIN cleaner' = Cleaner /\ DOMAIN cleaner'[w] = CleanField /\ cleaner'[w].todo = cleaner[w].todo
        /\ cleaner'[w].removed = x /\ (cleaner'[w].ok = TRUE => x \notin objects')
        /\ \A v \in Cleaner : v # w => cleaner'[v] = cleaner[v]
    <2>1. CASE objects' = objects \ {x} /\ cleaner' = [cleaner EXCEPT ![w].removed = x, ![w].ok = TRUE]
      BY <2>1 DEF MediaInv, MediaTypes, CleanField
    <2>2. CASE objects' = objects /\ cleaner' = [cleaner EXCEPT ![w].removed = x, ![w].ok = FALSE]
      BY <2>2 DEF MediaInv, MediaTypes, CleanField
    <2> QED
      BY <2>1, <2>2 DEF RemoveObject
  <1>3. MediaTypes'
    BY <1>1, <1>2 DEF MediaInv, MediaTypes
  <1>4. CleaningIsFinal'
    BY <1>1, <1>2 DEF MediaInv, MediaTypes, CleaningIsFinal, Closed
  <1>5. ObjectsHaveRows'
    BY <1>1 DEF MediaInv, ObjectsHaveRows, MediaStatus
  <1> QED
    BY <1>3, <1>4, <1>5 DEF MediaInv

LEMMA CleanupKeeps ==
  ASSUME MediaInv, NEW w \in Cleaner, CompleteMediaCleanup(w)
  PROVE  MediaInv'
  <1> DEFINE x == cleaner[w].removed
             processing == row[x].clean \in {"processing", "lapsed"}
  <1>1. /\ x # NoMedia /\ objects' = objects
        /\ cleaner' = [cleaner EXCEPT ![w] =
                          [NoCleaning EXCEPT !.todo = IF processing THEN cleaner[w].todo \ {x} ELSE {}]]
        /\ IF ~processing THEN UNCHANGED <<row, bound>>
          ELSE IF ObjectGone(w)
          THEN row' = RowWithout(x) /\ bound' = bound \ {x}
          ELSE row' = [row EXCEPT ![x].clean = "no"] /\ UNCHANGED bound
    BY DEF CompleteMediaCleanup
  <1>2. x \in Media /\ Closed(x) /\ (cleaner[w].ok = TRUE => x \notin objects)
    BY <1>1 DEF MediaInv, MediaTypes, CleaningIsFinal
  <1>3. /\ DOMAIN cleaner' = Cleaner /\ DOMAIN cleaner'[w] = CleanField /\ cleaner'[w].todo \subseteq cleaner[w].todo
        /\ cleaner'[w].removed = NoMedia
        /\ \A v \in Cleaner : v # w => cleaner'[v] = cleaner[v]
    BY <1>1 DEF MediaInv, MediaTypes, CleanField, NoCleaning
  <1>4. /\ DOMAIN row' = Media
        /\ \A y \in Media : DOMAIN row'[y] = MediaField /\ row'[y].aged = row[y].aged
        /\ \A y \in Media : row'[y].status = row[y].status \/ (y = x /\ row'[y].status = "gone" /\ y \notin objects)
    <2>1. \A y \in Media : DOMAIN row[y] = MediaField
      BY DEF MediaInv, MediaTypes
    <2>2. CASE ~processing
      BY <1>1, <2>1, <2>2 DEF MediaInv, MediaTypes
    <2>3. CASE processing /\ ObjectGone(w)
      <3>1. row' = RowWithout(x)
        BY <1>1, <2>3
      <3>2. x \notin objects
        BY <1>2, <2>3 DEF ObjectGone
      <3> HIDE DEF x
      <3> QED
        BY <2>1, <3>1, <3>2 DEF RowWithout, MediaField
    <2>4. CASE processing /\ ~ObjectGone(w)
      <3>1. row' = [row EXCEPT ![x].clean = "no"]
        BY <1>1, <2>4
      <3>2. DOMAIN row = Media
        BY DEF MediaInv, MediaTypes
      <3> HIDE DEF x
      <3> QED
        BY <1>2, <2>1, <3>1, <3>2 DEF MediaField
    <2> QED
      BY <2>2, <2>3, <2>4
  <1>5. \A y \in Media : Closed(y) => Closed(y)'
    BY <1>4 DEF Closed
  <1>6. MediaTypes'
    BY <1>1, <1>3, <1>4 DEF MediaInv, MediaTypes
  <1>7. CleaningIsFinal'
    BY <1>1, <1>3, <1>5 DEF MediaInv, MediaTypes, CleaningIsFinal
  <1>8. ObjectsHaveRows'
    BY <1>1, <1>4 DEF MediaInv, MediaTypes, ObjectsHaveRows, MediaStatus
  <1> QED
    BY <1>6, <1>7, <1>8 DEF MediaInv

LEMMA StopKeeps ==
  ASSUME MediaInv, NEW w \in Cleaner, CleanerStops(w)
  PROVE  MediaInv'
  <1>1. cleaner' = [cleaner EXCEPT ![w] = NoCleaning] /\ UNCHANGED <<row, objects>>
    BY DEF CleanerStops
  <1>2. /\ DOMAIN cleaner' = Cleaner /\ DOMAIN cleaner'[w] = CleanField /\ cleaner'[w].todo = {}
        /\ cleaner'[w].removed = NoMedia
        /\ \A v \in Cleaner : v # w => cleaner'[v] = cleaner[v]
    BY <1>1 DEF MediaInv, MediaTypes, CleanField, NoCleaning
  <1> QED
    BY <1>1, <1>2 DEF MediaInv, MediaTypes, CleaningIsFinal, ObjectsHaveRows, Closed, MediaStatus

LEMMA MediaStays ==
  ASSUME MediaInv, UNCHANGED <<row, objects, cleaner>>
  PROVE  MediaInv'
  BY DEF MediaInv, MediaTypes, CleaningIsFinal, ObjectsHaveRows, Closed, MediaStatus

LEMMA MediaStep == MediaInv /\ [MediaNext]_mediaVars => MediaInv'
  <1> SUFFICES ASSUME MediaInv, [MediaNext]_mediaVars PROVE MediaInv'
    OBVIOUS
  <1>1. ASSUME NEW x \in Media, PrepareMedia(x) \/ PutObject(x) \/ MediaAges(x) \/ CleanupLapses(x) \/ SetAvatar(x)
        PROVE  MediaInv'
    BY <1>1, RowStepKeeps, PutKeepsMedia, MediaStays DEF SetAvatar
  <1>2. ASSUME NEW x \in Media, NEW c \in Media \cup {NoMedia}, CompleteWithCover(x, c) \/ CompleteMediaWithCover(x, c)
        PROVE  MediaInv'
    BY <1>2, CompleteKeeps, MediaStays DEF CompleteWithCover
  <1>3. ASSUME NEW x \in Media, NEW e \in Mail, ValidateMediaChannelBinding(e, x) PROVE MediaInv'
    BY <1>3, MediaStays DEF ValidateMediaChannelBinding
  <1>4. ASSUME NEW e \in Mail, BindMediaChannel(e) \/ SendMedia(e) \/ IndexMail(e) \/ ExpireMessages(e) PROVE MediaInv'
    BY <1>4, MediaStays DEF BindMediaChannel, SendMedia, IndexMail, ExpireMessages
  <1>5. ASSUME NEW w \in Cleaner, LeaseMediaCleanup(w) \/ CleanerStep(w) \/ CleanerStops(w) PROVE MediaInv'
    BY <1>5, LeaseKeeps, RemoveKeeps, CleanupKeeps, StopKeeps DEF CleanerStep
  <1>6. CASE UNCHANGED mediaVars
    BY <1>6, MediaStays DEF mediaVars
  <1> QED
    BY <1>1, <1>2, <1>3, <1>4, <1>5, <1>6 DEF MediaNext

\* The cover of a ready medium changes with a row that goes, and in no other way.
CoverStays == \A x \in Media : MediaStatus(x) = "ready" /\ row[x].cover # row'[x].cover
                        => row'[x].cover = NoMedia
                           /\ "gone" \in {row'[x].status, row'[row[x].cover].status}

LEMMA CoverKept == MediaInv /\ [MediaNext]_mediaVars => CoverStays
  <1> SUFFICES ASSUME MediaInv, [MediaNext]_mediaVars, NEW x \in Media,
                      row[x].status = "ready", row[x].cover # row'[x].cover
               PROVE  row'[x].cover = NoMedia /\ "gone" \in {row'[x].status, row'[row[x].cover].status}
    BY DEF CoverStays, MediaStatus
  <1> USE DEF MediaStatus
  <1>0. DOMAIN row = Media /\ \A y \in Media : DOMAIN row[y] = MediaField
    BY DEF MediaInv, MediaTypes
  <1>1. ASSUME NEW y \in Media, PrepareMedia(y) \/ MediaAges(y) \/ CleanupLapses(y) PROVE FALSE
    BY <1>0, <1>1 DEF PrepareMedia, MediaAges, CleanupLapses, MediaField
  <1>2. ASSUME NEW y \in Media, NEW c \in Media \cup {NoMedia}, CompleteMediaWithCover(y, c) PROVE FALSE
    <2>1. row' # row
      OBVIOUS
    <2>2. y # x
      BY <1>2, <2>1 DEF CompleteMediaWithCover, StillPending
    <2>3. row' = [row EXCEPT ![y].status = "ready", ![y].cover = c, ![y].aged = FALSE]
      BY <1>2, <2>1 DEF CompleteMediaWithCover
    <2> QED
      BY <1>0, <2>2, <2>3
  <1>3. ASSUME NEW w \in Cleaner, LeaseMediaCleanup(w) PROVE FALSE
    <2>1. row'[x].cover = row[x].cover
      BY <1>0, <1>3 DEF LeaseMediaCleanup, MediaField
    <2> QED
      BY <2>1
  <1>4. ASSUME NEW w \in Cleaner, CompleteMediaCleanup(w)
        PROVE  row'[x].cover = NoMedia /\ "gone" \in {row'[x].status, row'[row[x].cover].status}
    <2> DEFINE z == cleaner[w].removed
    <2>1. z # NoMedia /\ (row' = row \/ row' = RowWithout(z) \/ row' = [row EXCEPT ![z].clean = "no"])
      BY <1>4 DEF CompleteMediaCleanup
    <2>2. z \in Media
      BY <2>1 DEF MediaInv, MediaTypes
    <2> HIDE DEF z
    <2>3. row' # [row EXCEPT ![z].clean = "no"]
      BY <1>0, <2>2 DEF MediaField
    <2>4. row' = RowWithout(z)
      BY <2>1, <2>3
    <2>5. row'[z].status = "gone" /\ row'[z].cover = NoMedia
      BY <1>0, <2>2, <2>4 DEF RowWithout, MediaField
    <2>6. CASE x = z
      BY <2>5, <2>6
    <2>7. CASE x # z
      <3>1. row'[x] = [row[x] EXCEPT !.cover = IF @ = z THEN NoMedia ELSE @]
        BY <2>4, <2>7 DEF RowWithout
      <3>2. row'[x].cover = IF row[x].cover = z THEN NoMedia ELSE row[x].cover
        BY <1>0, <3>1 DEF MediaField
      <3> QED
        BY <2>5, <3>2
    <2> QED
      BY <2>6, <2>7
  <1>5. row' # row
    OBVIOUS
  <1>6. ~UNCHANGED mediaVars
    BY <1>5 DEF mediaVars
  <1>7. \A y \in Media : ~PutObject(y) /\ ~SetAvatar(y) /\ (\A c \in Media \cup {NoMedia} : ~CompleteWithCover(y, c))
                         /\ \A e \in Mail : ~ValidateMediaChannelBinding(e, y)
    BY <1>5 DEF PutObject, SetAvatar, CompleteWithCover, ValidateMediaChannelBinding
  <1>8. \A e \in Mail : ~BindMediaChannel(e) /\ ~SendMedia(e) /\ ~IndexMail(e) /\ ~ExpireMessages(e)
    BY <1>5 DEF BindMediaChannel, SendMedia, IndexMail, ExpireMessages
  <1>9. \A w \in Cleaner : ~CleanerStops(w) /\ \A y \in Media : ~RemoveObject(w, y)
    BY <1>5 DEF CleanerStops, RemoveObject
  <1> QED
    BY <1>1, <1>2, <1>3, <1>4, <1>6, <1>7, <1>8, <1>9 DEF MediaNext, CleanerStep

\* The storage holds no object whose row is gone, and a cover stays with its
\* medium while both are there, for any number of media, messages and servers
\* that clean up (MediaKept).
THEOREM MediaKeepsPromise == MediaSpec => MediaKept
  <1>1. MediaSpec => []MediaInv
    BY MediaInitHolds, MediaStep, PTL DEF MediaSpec
  <1>2. MediaInv => \A x \in objects : MediaStatus(x) \in {"pending", "ready"}
    BY DEF MediaInv, ObjectsHaveRows
  <1>3. MediaInv /\ [MediaNext]_mediaVars => [CoverStays]_mediaVars
    BY CoverKept
  <1>4. MediaSpec => [][CoverStays]_mediaVars
    BY <1>1, <1>3, PTL DEF MediaSpec
  <1>5. MediaSpec => CoverImmutable
    BY <1>4 DEF CoverStays, CoverImmutable
  <1>6. MediaSpec => [](\A x \in objects : MediaStatus(x) \in {"pending", "ready"})
    BY <1>1, <1>2, PTL
  <1> QED
    BY <1>5, <1>6 DEF MediaKept

(***************************************************************************)
(* Communities and topics, and slow mode (BusinessChannels).               *)
(***************************************************************************)
Roles == {"none", "member", "admin", "owner"}
Kinds == {"subscribe", "add", "unsubscribe", "remove", "promote", "expiry"}
RowOK(held) == DOMAIN held = {"role", "until"} /\ held.role \in Roles /\ held.until \in {Never} \cup Nat

\* A topic being created: its rows, once they are seeded, hold whoever still is a
\* member of the community, and nobody who was removed from it.
FormingOK(f, t) == f = Unformed \/
    /\ stands[t] = "absent"
    /\ \/ /\ f.step \in {"checked", "inserted"} /\ DOMAIN f = {"step", "by", "at"}
          /\ f.at \in Nat /\ f.at <= bizClock
       \/ /\ f.step = "seeded" /\ DOMAIN f.rows = Member
          /\ \A u \in Member : /\ RowOK(f.rows[u])
                               /\ Lasts(roll[Community][u], bizClock) => f.rows[u].role # "none"
                               /\ should[t][u] = "out" => f.rows[u].role = "none"

\* A member action that waits is about a channel that was there, and whoever is to
\* be promoted was no owner: ownership is given with a topic, never later.
PendingOK(p) == p = Idle \/
    /\ DOMAIN p = {"kind", "chan", "actor", "target", "until", "actorRole", "targetRole"}
    /\ p.kind \in Kinds /\ p.chan \in Channel /\ p.target \in Member /\ p.until \in {Never} \cup Nat
    /\ stands[p.chan] # "absent"
    /\ p.kind = "promote" => roll[p.chan][p.target].role # "owner"

\* Of a topic nobody has seen yet nothing is known but who was removed from its
\* community.
AbsentOK(t) == stands[t] = "absent" => \A u \in Member :
    /\ roll[t][u].role = "none" /\ should[t][u] \in {"free", "out"}
    /\ should[t][u] = "out" => roll[Community][u].role = "none"

RollTypes ==
    /\ bizClock \in Nat
    /\ DOMAIN roll = Channel /\ DOMAIN stands = Channel /\ DOMAIN should = Topic
    /\ \A c \in Channel : DOMAIN roll[c] = Member /\ \A u \in Member : RowOK(roll[c][u])
    /\ \A c \in Channel : stands[c] \in {"absent", "live", "disbanded"}
    /\ \A t \in Topic : DOMAIN should[t] = Member
    /\ DOMAIN forming = Topic /\ DOMAIN pending = Caller

RollInv ==
    /\ RollTypes
    /\ \A t \in Topic : FormingOK(forming[t], t) /\ AbsentOK(t)
    /\ \A k \in Caller : PendingOK(pending[k])
    /\ TopicsFollow

\* The times of accepted sends go with the last one that is remembered.
SlowInv ==
    /\ bizClock \in Nat /\ bizClock > 0 /\ slow \in {0, SlowMode}
    /\ DOMAIN sends = Sender /\ DOMAIN lastSent = Member /\ DOMAIN accepted = Member
    /\ \A s \in Sender : sends[s] = Idle \/ (sends[s].by \in Member /\ sends[s].at \in Nat /\ sends[s].at > 0)
    /\ \A u \in Member : /\ lastSent[u] \in Nat /\ (lastSent[u] = 0 => accepted[u] = {})
                         /\ \A x \in accepted[u] : x \in Nat /\ x <= lastSent[u]
    /\ SlowModeKept

LEMMA SlowInitHolds == BizInit => SlowInv
  <1> SUFFICES ASSUME BizInit PROVE SlowInv
    OBVIOUS
  <1>1. /\ bizClock = 1 /\ slow \in {0, SlowMode} /\ sends = [s \in Sender |-> Idle]
        /\ lastSent = [u \in Member |-> 0] /\ accepted = [u \in Member |-> {}]
    BY DEF BizInit
  <1> QED
    BY <1>1 DEF SlowInv, SlowModeKept

\* A send is accepted: its time is the last one and far enough from the others.
LEMMA AuthorizeKeeps ==
  ASSUME SlowInv, NEW s \in Sender, AuthorizeBusinessChannelSend(s)
  PROVE  SlowInv'
  <1>1. PICK u, at : u = sends[s].by /\ at = sends[s].at
    OBVIOUS
  <1>2. /\ u \in Member /\ at \in Nat /\ at > 0 /\ UNCHANGED <<bizClock, slow>>
        /\ sends' = [sends EXCEPT ![s] = Idle]
    BY <1>1 DEF SlowInv, AuthorizeBusinessChannelSend
  <1>3. DOMAIN sends' = Sender /\ \A r \in Sender : sends'[r] = Idle \/ sends'[r] = sends[r]
    BY <1>2 DEF SlowInv
  <1>4. SlowMode \in Nat /\ SlowMode > 0
    BY BusinessAssumption DEF BusinessAssumption
  <1>5. CASE UNCHANGED <<lastSent, accepted>>
    BY <1>2, <1>3, <1>5 DEF SlowInv, SlowModeKept
  <1>6. CASE ~UNCHANGED <<lastSent, accepted>>
    <2>1. /\ slow > 0 /\ FarEnough(lastSent[u], at)
          /\ lastSent' = [lastSent EXCEPT ![u] = at] /\ accepted' = [accepted EXCEPT ![u] = @ \union {at}]
      BY <1>1, <1>6 DEF AuthorizeBusinessChannelSend
    <2>2. slow = SlowMode
      BY <1>4, <2>1 DEF SlowInv
    <2>3. /\ DOMAIN lastSent' = Member /\ DOMAIN accepted' = Member
          /\ lastSent'[u] = at /\ accepted'[u] = accepted[u] \union {at}
          /\ \A v \in Member : v # u => lastSent'[v] = lastSent[v] /\ accepted'[v] = accepted[v]
      BY <1>2, <2>1 DEF SlowInv
    <2>4. \A x \in accepted[u] : x \in Nat /\ at - x >= SlowMode
      <3> SUFFICES ASSUME NEW x \in accepted[u] PROVE x \in Nat /\ at - x >= SlowMode
        OBVIOUS
      <3>1. x \in Nat /\ lastSent[u] \in Nat /\ x <= lastSent[u] /\ lastSent[u] # 0
        BY <1>2 DEF SlowInv
      <3> QED
        BY <1>2, <1>4, <2>1, <2>2, <3>1 DEF FarEnough
    <2>5. \A v \in Member : /\ lastSent'[v] \in Nat /\ (lastSent'[v] = 0 => accepted'[v] = {})
                            /\ \A x \in accepted'[v] : x \in Nat /\ x <= lastSent'[v]
      <3> SUFFICES ASSUME NEW v \in Member
                   PROVE  /\ lastSent'[v] \in Nat /\ (lastSent'[v] = 0 => accepted'[v] = {})
                          /\ \A x \in accepted'[v] : x \in Nat /\ x <= lastSent'[v]
        OBVIOUS
      <3>1. CASE v = u
        BY <1>2, <1>4, <2>3, <2>4, <3>1
      <3>2. CASE v # u
        BY <2>3, <3>2 DEF SlowInv
      <3> QED
        BY <3>1, <3>2
    <2>6. SlowModeKept'
      <3> SUFFICES ASSUME NEW v \in Member, NEW x \in accepted'[v], NEW y \in accepted'[v], x < y
                   PROVE  y - x >= SlowMode
        BY DEF SlowModeKept
      <3>1. CASE v # u
        BY <2>3, <3>1 DEF SlowInv, SlowModeKept
      <3>2. CASE v = u
        <4>1. CASE x \in accepted[u] /\ y \in accepted[u]
          BY <1>2, <4>1 DEF SlowInv, SlowModeKept
        <4>2. CASE x \notin accepted[u]
          BY <1>2, <1>4, <2>3, <2>4, <3>2, <4>2
        <4>3. CASE y \notin accepted[u]
          BY <1>2, <1>4, <2>3, <2>4, <3>2, <4>3
        <4> QED
          BY <4>1, <4>2, <4>3
      <3> QED
        BY <3>1, <3>2
    <2> QED
      BY <1>2, <1>3, <2>3, <2>5, <2>6 DEF SlowInv
  <1> QED
    BY <1>5, <1>6

LEMMA SlowStep == SlowInv /\ [BizNext]_bizVars => SlowInv'
  <1> SUFFICES ASSUME SlowInv, [BizNext]_bizVars PROVE SlowInv'
    OBVIOUS
  <1>1. ASSUME NEW s \in Sender, AuthorizeBusinessChannelSend(s) PROVE SlowInv'
    BY <1>1, AuthorizeKeeps
  <1>2. ASSUME NEW s \in Sender, NEW u \in Member, AskToSend(s, u) PROVE SlowInv'
    <2>1. /\ UNCHANGED <<bizClock, slow, lastSent, accepted>>
          /\ sends' = [sends EXCEPT ![s] = [kind |-> "send", by |-> u, at |-> bizClock]]
      BY <1>2 DEF AskToSend
    <2>2. /\ DOMAIN sends' = Sender /\ sends'[s].by = u /\ sends'[s].at = bizClock
          /\ \A r \in Sender : r # s => sends'[r] = sends[r]
      BY <2>1 DEF SlowInv
    <2> QED
      BY <2>1, <2>2 DEF SlowInv, SlowModeKept
  <1>3. CASE ChangeSlowMode
    <2>1. UNCHANGED <<bizClock, sends, lastSent, accepted>> /\ slow' = SlowMode - slow
      BY <1>3 DEF ChangeSlowMode
    <2>2. slow' \in {0, SlowMode}
      BY <2>1, BusinessAssumption DEF BusinessAssumption, SlowInv
    <2> QED
      BY <2>1, <2>2 DEF SlowInv, SlowModeKept
  <1>4. CASE BizTick
    <2>1. UNCHANGED slowVars /\ bizClock' = bizClock + 1
      BY <1>4 DEF BizTick
    <2> QED
      BY <2>1 DEF slowVars, SlowInv, SlowModeKept
  <1>5. ASSUME NEW u \in Member, ApplyBusinessChannelAccess(u) PROVE SlowInv'
    <2>1. UNCHANGED <<bizClock, slow, sends, lastSent, accepted>>
      BY <1>5 DEF ApplyBusinessChannelAccess
    <2> QED
      BY <2>1 DEF SlowInv, SlowModeKept
  <1>6. CASE RollNext \/ UNCHANGED bizVars
    <2>1. UNCHANGED <<bizClock, slowVars>>
      BY <1>6 DEF RollNext, bizVars, CreateBusinessChannel, InsertTopic, SeedTopic, CommitTopic,
                  ApplyBusinessChannelMember, ApplyBusinessChannelMemberAction, UpdateBusinessChannel,
                  ExpireBusinessChannelMemberships, ReconcileBusinessChannel
    <2> QED
      BY <2>1 DEF slowVars, SlowInv, SlowModeKept
  <1> QED
    BY <1>1, <1>2, <1>3, <1>4, <1>5, <1>6 DEF BizNext, SlowNext

\* What a member action makes of a row in its own channel: nobody becomes an owner.
LEMMA RowAfterIs ==
  ASSUME NEW p, p.kind \in Kinds, p.until \in {Never} \cup Nat, NEW held, RowOK(held)
  PROVE  /\ RowOK(RowAfter(p, held))
         /\ RowAfter(p, held).role = "owner" => held.role = "owner"
         /\ p.kind \in {"unsubscribe", "remove"} => RowAfter(p, held).role = "none"
         /\ p.kind \in {"promote", "expiry"} => (RowAfter(p, held).role = "none" <=> held.role = "none")
         /\ p.kind = "expiry" => RowAfter(p, held).role = held.role
  <1>1. CASE p.kind \in {"subscribe", "add"} /\ p.targetRole = "none" /\ p.target \notin Banned
    <2>1. RowAfter(p, held) = [role |-> "member", until |-> p.until]
      BY <1>1 DEF RowAfter
    <2> QED
      BY <1>1, <2>1 DEF RowOK, Roles
  <1>2. CASE p.kind \in {"subscribe", "add"} /\ ~(p.targetRole = "none" /\ p.target \notin Banned)
    <2>1. RowAfter(p, held) = held
      BY <1>2 DEF RowAfter
    <2> QED
      BY <1>2, <2>1
  <1>3. CASE p.kind \in {"unsubscribe", "remove"}
    <2>1. RowAfter(p, held) = NoRow
      BY <1>3 DEF RowAfter
    <2> QED
      BY <1>3, <2>1 DEF RowOK, Roles, NoRow
  <1>4. CASE p.kind = "promote" /\ held.role # "none"
    <2>1. RowAfter(p, held) = [held EXCEPT !.role = "admin"]
      BY <1>4 DEF RowAfter
    <2> QED
      BY <1>4, <2>1 DEF RowOK, Roles
  <1>5. CASE p.kind = "expiry" /\ held.role # "none"
    <2>1. RowAfter(p, held) = [held EXCEPT !.until = p.until]
      BY <1>5 DEF RowAfter
    <2> QED
      BY <1>5, <2>1 DEF RowOK, Roles
  <1>6. CASE p.kind \in {"promote", "expiry"} /\ held.role = "none"
    <2>1. RowAfter(p, held) = held
      BY <1>6 DEF RowAfter
    <2> QED
      BY <1>6, <2>1
  <1> QED
    BY <1>1, <1>2, <1>3, <1>4, <1>5, <1>6 DEF Kinds

\* What it makes of a row in a topic of the community it is about.
LEMMA InheritedIs ==
  ASSUME NEW p, p.kind \in Kinds, p.until \in {Never} \cup Nat, NEW held, RowOK(held), NEW t
  PROVE  /\ RowOK(InheritedRow(p, t, held))
         /\ InheritedRow(p, t, held).role = "owner" => held.role = "owner"
         /\ p.kind \in {"subscribe", "add"} /\ stands[t] = "live" => InheritedRow(p, t, held).role # "none"
         /\ p.kind \in {"subscribe", "add"} /\ stands[t] # "live" => InheritedRow(p, t, held) = held
         /\ p.kind \in {"unsubscribe", "remove"} =>
              InheritedRow(p, t, held).role \in {"none", "owner"} /\ (held.role = "none" => InheritedRow(p, t, held).role = "none")
         /\ p.kind \in {"promote", "expiry"} => InheritedRow(p, t, held).role = held.role
  <1>1. CASE p.kind \in {"subscribe", "add"} /\ stands[t] = "live"
    <2>1. InheritedRow(p, t, held) = IF held.role = "none" THEN [role |-> "member", until |-> p.until]
                                    ELSE [held EXCEPT !.until = p.until]
      BY <1>1 DEF InheritedRow
    <2> QED
      BY <1>1, <2>1 DEF RowOK, Roles
  <1>2. CASE p.kind \in {"unsubscribe", "remove"} /\ held.role # "owner"
    <2>1. InheritedRow(p, t, held) = NoRow
      BY <1>2 DEF InheritedRow
    <2> QED
      BY <1>2, <2>1 DEF RowOK, Roles, NoRow
  <1>3. CASE p.kind = "expiry" /\ held.role \notin {"none", "owner"}
    <2>1. InheritedRow(p, t, held) = [held EXCEPT !.until = p.until]
      BY <1>3 DEF InheritedRow
    <2> QED
      BY <1>3, <2>1 DEF RowOK, Roles
  <1>4. CASE \/ p.kind \in {"subscribe", "add"} /\ stands[t] # "live"
             \/ p.kind \in {"unsubscribe", "remove"} /\ held.role = "owner"
             \/ p.kind = "expiry" /\ held.role \in {"none", "owner"}
             \/ p.kind = "promote"
    <2>1. InheritedRow(p, t, held) = held
      BY <1>4 DEF InheritedRow
    <2> QED
      BY <1>4, <2>1
  <1> QED
    BY <1>1, <1>2, <1>3, <1>4 DEF Kinds

LEMMA RollInitHolds == BizInit => RollInv
  <1> SUFFICES ASSUME BizInit PROVE RollInv
    OBVIOUS
  <1>1. PICK role \in [Member -> Roles] :
           roll = [c \in Channel |-> [u \in Member |->
                     IF c = Community THEN [role |-> role[u], until |-> Never] ELSE NoRow]]
    BY DEF BizInit, Roles
  <1>2. /\ bizClock = 1 /\ stands = [c \in Channel |-> IF c = Community THEN "live" ELSE "absent"]
        /\ forming = [t \in Topic |-> Unformed] /\ pending = [k \in Caller |-> Idle]
        /\ should = [t \in Topic |-> [u \in Member |-> "free"]]
    BY DEF BizInit
  <1>3. \A c \in Channel, u \in Member : RowOK(roll[c][u]) /\ (c # Community => roll[c][u] = NoRow)
    BY <1>1 DEF RowOK, NoRow, Roles
  <1>4. Topic \subseteq Channel /\ Community \notin Topic
    BY BusinessAssumption DEF BusinessAssumption, Channel
  <1>5. RollTypes
    BY <1>1, <1>2, <1>3 DEF RollTypes
  <1>6. \A t \in Topic : FormingOK(forming[t], t) /\ AbsentOK(t) /\ stands[t] = "absent"
    <2> SUFFICES ASSUME NEW t \in Topic PROVE FormingOK(forming[t], t) /\ AbsentOK(t) /\ stands[t] = "absent"
      OBVIOUS
    <2>1. t \in Channel /\ t # Community /\ forming[t] = Unformed /\ stands[t] = "absent"
      BY <1>2, <1>4
    <2>2. \A u \in Member : roll[t][u].role = "none" /\ should[t][u] = "free"
      BY <1>2, <1>3, <2>1 DEF NoRow
    <2> QED
      BY <2>1, <2>2 DEF FormingOK, AbsentOK
  <1>7. \A k \in Caller : PendingOK(pending[k])
    BY <1>2 DEF PendingOK
  <1>8. TopicsFollow
    BY <1>6 DEF TopicsFollow
  <1> QED
    BY <1>5, <1>6, <1>7, <1>8 DEF RollInv

\* Memberships last shorter as time goes by.
LEMMA LastsLess ==
  ASSUME NEW held, RowOK(held), NEW at \in Nat, NEW later \in Nat, at <= later, Lasts(held, later)
  PROVE  Lasts(held, at)
  <1>1. held.until = Never \/ (held.until \in Nat /\ held.until > later)
    BY DEF Lasts, RowOK
  <1> QED
    BY <1>1 DEF Lasts

\* Time goes by, and what is about subscribers, slow mode and the like.
LEMMA RollStays ==
  ASSUME RollInv, UNCHANGED <<roll, stands, should, forming, pending>>, bizClock' \in Nat, bizClock <= bizClock'
  PROVE  RollInv'
  <1>1. RollTypes'
    BY DEF RollInv, RollTypes
  <1>2. ASSUME NEW t \in Topic PROVE FormingOK(forming[t], t)'
    <2>1. PICK f : f = forming[t]
      OBVIOUS
    <2>2. FormingOK(f, t) /\ forming'[t] = f
      BY <2>1 DEF RollInv
    <2>3. CASE f = Unformed
      BY <2>2, <2>3 DEF FormingOK
    <2>4. CASE f # Unformed /\ f.step = "seeded"
      <3>1. \A u \in Member : Lasts(roll[Community][u], bizClock') => Lasts(roll[Community][u], bizClock)
        <4>1. \A u \in Member : RowOK(roll[Community][u])
          BY DEF RollInv, RollTypes, Channel
        <4> QED
          BY <4>1, LastsLess DEF RollInv, RollTypes
      <3> QED
        BY <2>2, <2>4, <3>1 DEF FormingOK
    <2>5. CASE f # Unformed /\ f.step # "seeded"
      <3>1. /\ stands[t] = "absent" /\ f.step \in {"checked", "inserted"} /\ DOMAIN f = {"step", "by", "at"}
            /\ f.at \in Nat /\ f.at <= bizClock
        BY <2>2, <2>5 DEF FormingOK
      <3>2. f.at <= bizClock'
        BY <3>1 DEF RollInv, RollTypes
      <3> QED
        BY <2>2, <3>1, <3>2 DEF FormingOK
    <2> QED
      BY <2>3, <2>4, <2>5
  <1>3. ASSUME NEW t \in Topic PROVE AbsentOK(t)'
    BY DEF RollInv, AbsentOK
  <1>4. ASSUME NEW k \in Caller PROVE PendingOK(pending[k])'
    BY DEF RollInv, PendingOK
  <1>5. TopicsFollow'
    BY DEF RollInv, TopicsFollow
  <1> QED
    BY <1>1, <1>2, <1>3, <1>4, <1>5 DEF RollInv

\* One topic's creation goes on and nothing else happens.
LEMMA FormingMoves ==
  ASSUME RollInv, UNCHANGED <<bizClock, roll, stands, should, pending>>, NEW t \in Topic, NEW f,
         forming' = [forming EXCEPT ![t] = f], FormingOK(f, t)
  PROVE  RollInv'
  <1>1. /\ DOMAIN forming' = Topic /\ forming'[t] = f
        /\ \A s \in Topic : s # t => forming'[s] = forming[s]
    BY DEF RollInv, RollTypes
  <1>2. RollTypes'
    BY <1>1 DEF RollInv, RollTypes
  <1>3. ASSUME NEW s \in Topic PROVE FormingOK(forming[s], s)'
    <2>1. PICK g : g = forming'[s]
      OBVIOUS
    <2>2. FormingOK(g, s)
      BY <1>1, <2>1 DEF RollInv
    <2> QED
      BY <2>1, <2>2 DEF FormingOK
  <1>4. ASSUME NEW s \in Topic PROVE AbsentOK(s)'
    BY DEF RollInv, AbsentOK
  <1>5. ASSUME NEW k \in Caller PROVE PendingOK(pending[k])'
    BY DEF RollInv, PendingOK
  <1>6. TopicsFollow'
    BY DEF RollInv, TopicsFollow
  <1> QED
    BY <1>2, <1>3, <1>4, <1>5, <1>6 DEF RollInv

LEMMA CreationKeeps ==
  ASSUME RollInv, NEW t \in Topic, InsertTopic(t) \/ SeedTopic(t) \/ \E a \in Member : CreateBusinessChannel(t, a)
  PROVE  RollInv'
  <1>0. PICK f : f = forming[t]
    OBVIOUS
  <1>1. FormingOK(f, t) /\ bizClock \in Nat /\ bizClock <= bizClock
    BY <1>0 DEF RollInv, RollTypes
  <1>2. ASSUME NEW a \in Member, CreateBusinessChannel(t, a) PROVE RollInv'
    <2>1. /\ stands[t] = "absent" /\ UNCHANGED <<bizClock, roll, stands, should, pending>>
          /\ forming' = [forming EXCEPT ![t] = [step |-> "checked", by |-> a, at |-> bizClock]]
      BY <1>2 DEF CreateBusinessChannel
    <2>2. \A g : g = [step |-> "checked", by |-> a, at |-> bizClock] => FormingOK(g, t)
      BY <1>1, <2>1 DEF FormingOK
    <2> QED
      BY <2>1, <2>2, FormingMoves
  <1>3. CASE InsertTopic(t)
    <2>1. /\ f.step = "checked" /\ UNCHANGED <<bizClock, roll, stands, should, pending>>
          /\ forming' = [forming EXCEPT ![t] = [f EXCEPT !.step = "inserted"]]
      BY <1>0, <1>3 DEF InsertTopic
    <2>2. f # Unformed
      BY <2>1 DEF Unformed
    <2>3. stands[t] = "absent" /\ DOMAIN f = {"step", "by", "at"} /\ f.at \in Nat /\ f.at <= bizClock
      BY <1>1, <2>1, <2>2 DEF FormingOK
    <2>4. \A g : g = [f EXCEPT !.step = "inserted"] => FormingOK(g, t)
      BY <2>3 DEF FormingOK
    <2> QED
      BY <2>1, <2>4, FormingMoves
  <1>4. CASE SeedTopic(t)
    <2>1. /\ f.step = "inserted" /\ UNCHANGED <<bizClock, roll, stands, should, pending>>
          /\ forming' = [forming EXCEPT ![t] =
               [step |-> "seeded", rows |-> [u \in Member |-> Seeded(u, f.by, f.at)]]]
      BY <1>0, <1>4 DEF SeedTopic
    <2>2. f # Unformed
      BY <2>1 DEF Unformed
    <2>3. stands[t] = "absent" /\ f.at \in Nat /\ f.at <= bizClock
      BY <1>1, <2>1, <2>2 DEF FormingOK
    <2>4. ASSUME NEW u \in Member
          PROVE  /\ RowOK(Seeded(u, f.by, f.at))
                 /\ Lasts(roll[Community][u], bizClock) => Seeded(u, f.by, f.at).role # "none"
                 /\ should[t][u] = "out" => Seeded(u, f.by, f.at).role = "none"
      <3>1. PICK held : held = roll[Community][u]
        OBVIOUS
      <3>2. RowOK(held)
        BY <3>1 DEF RollInv, RollTypes, Channel
      <3>3. CASE ~Lasts(held, f.at)
        <4>1. Seeded(u, f.by, f.at) = NoRow /\ ~Lasts(held, bizClock)
          BY <1>1, <2>3, <3>1, <3>2, <3>3, LastsLess DEF Seeded
        <4> QED
          BY <3>1, <4>1 DEF NoRow, RowOK, Roles
      <3>4. CASE Lasts(held, f.at)
        <4>1. Seeded(u, f.by, f.at) =
                [held EXCEPT !.role = IF u = f.by THEN "owner" ELSE IF held.role = "owner" THEN "admin" ELSE held.role]
          BY <3>1, <3>4 DEF Seeded
        <4>2. held.role # "none"
          BY <3>4 DEF Lasts
        <4>3. should[t][u] # "out"
          BY <2>3, <3>1, <4>2 DEF RollInv, AbsentOK
        <4> QED
          BY <3>2, <4>1, <4>2, <4>3 DEF RowOK, Roles
      <3> QED
        BY <3>3, <3>4
    <2>5. ASSUME NEW g, g = [step |-> "seeded", rows |-> [u \in Member |-> Seeded(u, f.by, f.at)]]
          PROVE  FormingOK(g, t)
      <3>1. g.step = "seeded" /\ DOMAIN g.rows = Member /\ \A u \in Member : g.rows[u] = Seeded(u, f.by, f.at)
        BY <2>5
      <3> QED
        BY <2>3, <2>4, <3>1 DEF FormingOK
    <2> QED
      BY <2>1, <2>5, FormingMoves
  <1> QED
    BY <1>2, <1>3, <1>4

\* The topic appears with the rows it was given.
LEMMA CommitKeeps ==
  ASSUME RollInv, NEW t \in Topic, CommitTopic(t)
  PROVE  RollInv'
  <1>0. PICK f : f = forming[t]
    OBVIOUS
  <1>1. /\ f.step = "seeded" /\ UNCHANGED <<bizClock, pending>>
        /\ roll' = [roll EXCEPT ![t] = f.rows] /\ stands' = [stands EXCEPT ![t] = "live"]
        /\ forming' = [forming EXCEPT ![t] = Unformed]
        /\ should' = [should EXCEPT ![t] = [u \in Member |->
             IF Lasts(roll[Community][u], bizClock) THEN "in" ELSE IF should[t][u] = "in" THEN "free" ELSE should[t][u]]]
    BY <1>0 DEF CommitTopic
  <1>2. f # Unformed /\ RollTypes
    BY <1>1 DEF Unformed, RollInv
  <1>3. /\ stands[t] = "absent" /\ DOMAIN f.rows = Member
        /\ \A u \in Member : /\ RowOK(f.rows[u])
                             /\ Lasts(roll[Community][u], bizClock) => f.rows[u].role # "none"
                             /\ should[t][u] = "out" => f.rows[u].role = "none"
    BY <1>0, <1>1, <1>2 DEF FormingOK, RollInv
  <1>4. Topic \subseteq Channel /\ Community \in Channel /\ Community # t
    BY BusinessAssumption DEF BusinessAssumption, Channel
  <1>5. /\ DOMAIN roll' = Channel /\ DOMAIN stands' = Channel /\ DOMAIN should' = Topic /\ DOMAIN forming' = Topic
        /\ roll'[t] = f.rows /\ stands'[t] = "live" /\ forming'[t] = Unformed /\ DOMAIN should'[t] = Member
        /\ \A u \in Member : should'[t][u] =
             IF Lasts(roll[Community][u], bizClock) THEN "in" ELSE IF should[t][u] = "in" THEN "free" ELSE should[t][u]
        /\ \A c \in Channel : c # t => roll'[c] = roll[c] /\ stands'[c] = stands[c]
        /\ \A s \in Topic : s # t => should'[s] = should[s] /\ forming'[s] = forming[s]
    BY <1>1, <1>2, <1>4 DEF RollTypes
  <1>6. RollTypes'
    BY <1>1, <1>2, <1>3, <1>5 DEF RollTypes
  <1>7. ASSUME NEW s \in Topic PROVE FormingOK(forming[s], s)' /\ AbsentOK(s)'
    <2>1. CASE s = t
      BY <1>5, <2>1 DEF FormingOK, AbsentOK
    <2>2. CASE s # t
      <3>1. PICK g : g = forming[s]
        OBVIOUS
      <3>2. FormingOK(g, s) /\ AbsentOK(s)
        BY <3>1 DEF RollInv
      <3>3. /\ forming'[s] = g /\ should'[s] = should[s] /\ stands'[s] = stands[s] /\ roll'[s] = roll[s]
            /\ roll'[Community] = roll[Community]
        BY <1>4, <1>5, <2>2, <3>1
      <3> QED
        BY <1>1, <3>2, <3>3 DEF FormingOK, AbsentOK
    <2> QED
      BY <2>1, <2>2
  <1>8. ASSUME NEW k \in Caller PROVE PendingOK(pending[k])'
    <2>1. PICK p : p = pending[k]
      OBVIOUS
    <2>2. PendingOK(p) /\ pending'[k] = p
      BY <1>1, <2>1 DEF RollInv
    <2>3. CASE p = Idle
      BY <2>2, <2>3 DEF PendingOK
    <2>4. CASE p # Idle
      <3>1. /\ DOMAIN p = {"kind", "chan", "actor", "target", "until", "actorRole", "targetRole"}
            /\ p.kind \in Kinds /\ p.chan \in Channel /\ p.target \in Member /\ p.until \in {Never} \cup Nat
            /\ stands[p.chan] # "absent"
            /\ p.kind = "promote" => roll[p.chan][p.target].role # "owner"
        BY <2>2, <2>4 DEF PendingOK
      <3>2. p.chan # t
        BY <1>3, <3>1
      <3>3. roll'[p.chan] = roll[p.chan] /\ stands'[p.chan] = stands[p.chan]
        BY <1>5, <3>1, <3>2
      <3> QED
        BY <2>2, <3>1, <3>3 DEF PendingOK
    <2> QED
      BY <2>3, <2>4
  <1>9. TopicsFollow'
    <2> SUFFICES ASSUME NEW s \in Topic, stands'[s] # "absent", NEW u \in Member
                 PROVE  /\ should'[s][u] = "in" => roll'[s][u].role # "none"
                        /\ should'[s][u] = "out" => roll'[s][u].role \in {"none", "owner"}
      BY DEF TopicsFollow
    <2>1. CASE s = t
      BY <1>3, <1>5, <2>1 DEF RollInv, AbsentOK
    <2>2. CASE s # t
      BY <1>4, <1>5, <2>2 DEF RollInv, TopicsFollow
    <2> QED
      BY <2>1, <2>2
  <1> QED
    BY <1>6, <1>7, <1>8, <1>9 DEF RollInv

\* A request is read: whoever is to be promoted is an ordinary member by then.
LEMMA RequestKeeps ==
  ASSUME RollInv, NEW k \in Caller, NEW kind \in Kinds, NEW c \in Channel, NEW a \in Member, NEW u \in Member,
         NEW until \in {Never, bizClock + 1}, ApplyBusinessChannelMember(k, kind, c, a, u, until)
  PROVE  RollInv'
  <1>0. PICK p : p = Request(kind, c, a, u, until)
    OBVIOUS
  <1>1. /\ stands[c] = "live" /\ Permitted(p, Channel) /\ pending' = [pending EXCEPT ![k] = p]
        /\ UNCHANGED <<bizClock, roll, stands, forming, should>>
    BY <1>0 DEF ApplyBusinessChannelMember
  <1>2. /\ DOMAIN p = {"kind", "chan", "actor", "target", "until", "actorRole", "targetRole"}
        /\ p.kind = kind /\ p.chan = c /\ p.target = u /\ p.until = until /\ p.targetRole = RoleAt(c, u, bizClock)
    BY <1>0 DEF Request
  <1>3. p.until \in {Never} \cup Nat
    BY <1>2 DEF RollInv, RollTypes
  <1>4. ASSUME kind = "promote" PROVE roll[c][u].role # "owner"
    <2>1. p.targetRole \in {"admin", "member"}
      BY <1>1, <1>2, <1>4 DEF Permitted
    <2> QED
      BY <1>2, <2>1 DEF RoleAt
  <1>5. PendingOK(p)'
    BY <1>1, <1>2, <1>3, <1>4 DEF PendingOK
  <1>6. RollTypes'
    BY <1>1 DEF RollInv, RollTypes
  <1>7. ASSUME NEW j \in Caller PROVE PendingOK(pending[j])'
    <2>1. CASE j = k
      <3>1. pending'[j] = p
        BY <1>1, <2>1 DEF RollInv, RollTypes
      <3> QED
        BY <1>5, <3>1 DEF PendingOK
    <2>2. CASE j # k
      <3>1. pending'[j] = pending[j] /\ PendingOK(pending[j])
        BY <1>1, <2>2 DEF RollInv, RollTypes
      <3> QED
        BY <1>1, <3>1 DEF PendingOK
    <2> QED
      BY <2>1, <2>2
  <1>8. ASSUME NEW t \in Topic PROVE FormingOK(forming[t], t)' /\ AbsentOK(t)'
    BY <1>1 DEF RollInv, FormingOK, AbsentOK
  <1>9. TopicsFollow'
    BY <1>1 DEF RollInv, TopicsFollow
  <1> QED
    BY <1>6, <1>7, <1>8, <1>9 DEF RollInv

\* Settings change, channels are disbanded and opened again.
LEMMA UpdateKeeps ==
  ASSUME RollInv, NEW c \in Channel, NEW a \in Member, UpdateBusinessChannel(c, a)
  PROVE  RollInv'
  <1>1. /\ stands[c] # "absent" /\ UNCHANGED <<bizClock, roll, forming, pending, should>>
        /\ \/ stands' = stands
           \/ stands' = [stands EXCEPT ![c] = "disbanded"]
           \/ stands' = [stands EXCEPT ![c] = "live"]
    BY DEF UpdateBusinessChannel
  <1>2. /\ DOMAIN stands' = Channel
        /\ \A b \in Channel : stands'[b] \in {"absent", "live", "disbanded"} /\ (stands'[b] = "absent" <=> stands[b] = "absent")
    BY <1>1 DEF RollInv, RollTypes
  <1>3. Topic \subseteq Channel
    BY DEF Channel
  <1>4. RollTypes'
    BY <1>1, <1>2 DEF RollInv, RollTypes
  <1>5. ASSUME NEW t \in Topic PROVE FormingOK(forming[t], t)' /\ AbsentOK(t)'
    BY <1>1, <1>2, <1>3 DEF RollInv, FormingOK, AbsentOK
  <1>6. ASSUME NEW k \in Caller PROVE PendingOK(pending[k])'
    BY <1>1, <1>2 DEF RollInv, PendingOK
  <1>7. TopicsFollow'
    BY <1>1, <1>2, <1>3 DEF RollInv, TopicsFollow
  <1> QED
    BY <1>4, <1>5, <1>6, <1>7 DEF RollInv

\* Memberships that ran out are deleted.
LEMMA ExpiryKeeps ==
  ASSUME RollInv, ExpireBusinessChannelMemberships
  PROVE  RollInv'
  <1> DEFINE due(c) == {u \in Member : roll[c][u].role # "none" /\ ~Lasts(roll[c][u], bizClock)}
  <1>1. /\ UNCHANGED <<bizClock, stands, forming, pending>>
        /\ roll' = [c \in Channel |-> [u \in Member |-> IF u \in due(c) THEN NoRow ELSE roll[c][u]]]
        /\ should' = [t \in Topic |-> [u \in Member |->
             IF should[t][u] # "in" THEN should[t][u]
             ELSE IF u \in due(t) THEN "out" ELSE IF u \in due(Community) THEN "gone" ELSE "in"]]
    BY DEF ExpireBusinessChannelMemberships
  <1>2. \A c \in Channel, u \in Member : roll'[c][u] = NoRow \/ roll'[c][u] = roll[c][u]
    BY <1>1
  <1>3. \A t \in Topic, u \in Member :
          /\ u \in due(t) /\ should[t][u] = "in" => should'[t][u] = "out" /\ roll'[t][u] = NoRow
          /\ u \notin due(t) /\ should[t][u] = "in" => should'[t][u] \in {"in", "gone"} /\ roll'[t][u] = roll[t][u]
          /\ should[t][u] # "in" => should'[t][u] = should[t][u]
    <2> SUFFICES ASSUME NEW t \in Topic, NEW u \in Member
                 PROVE  /\ u \in due(t) /\ should[t][u] = "in" => should'[t][u] = "out" /\ roll'[t][u] = NoRow
                        /\ u \notin due(t) /\ should[t][u] = "in" => should'[t][u] \in {"in", "gone"} /\ roll'[t][u] = roll[t][u]
                        /\ should[t][u] # "in" => should'[t][u] = should[t][u]
      OBVIOUS
    <2>1. t \in Channel
      BY DEF Channel
    <2>2. roll'[t][u] = IF u \in due(t) THEN NoRow ELSE roll[t][u]
      BY <1>1, <2>1
    <2> HIDE DEF due
    <2>3. CASE u \in due(t)
      BY <1>1, <2>2, <2>3
    <2>4. CASE u \notin due(t) /\ u \in due(Community) /\ should[t][u] = "in"
      BY <1>1, <2>2, <2>4
    <2>5. CASE u \notin due(t) /\ ~(u \in due(Community) /\ should[t][u] = "in")
      BY <1>1, <2>2, <2>5
    <2> QED
      BY <2>3, <2>4, <2>5
  <1>4. DOMAIN roll' = Channel /\ DOMAIN should' = Topic
        /\ (\A c \in Channel : DOMAIN roll'[c] = Member) /\ \A t \in Topic : DOMAIN should'[t] = Member
    BY <1>1
  <1> HIDE DEF due
  <1>5. NoRow.role = "none" /\ RowOK(NoRow) /\ Topic \subseteq Channel /\ Community \in Channel
    BY DEF NoRow, RowOK, Roles, Channel
  <1>6. RollTypes'
    <2>1. \A c \in Channel, u \in Member : RowOK(roll'[c][u])
      BY <1>2, <1>5 DEF RollInv, RollTypes
    <2> QED
      BY <1>1, <1>4, <2>1 DEF RollInv, RollTypes
  <1>7. ASSUME NEW t \in Topic PROVE AbsentOK(t)'
    <2> SUFFICES ASSUME stands[t] = "absent", NEW u \in Member
                 PROVE  /\ roll'[t][u].role = "none" /\ should'[t][u] \in {"free", "out"}
                        /\ should'[t][u] = "out" => roll'[Community][u].role = "none"
      BY <1>1 DEF AbsentOK
    <2>1. /\ roll[t][u].role = "none" /\ should[t][u] \in {"free", "out"}
          /\ should[t][u] = "out" => roll[Community][u].role = "none"
      BY DEF RollInv, AbsentOK
    <2> QED
      BY <1>2, <1>3, <1>5, <2>1
  <1>8. ASSUME NEW t \in Topic PROVE FormingOK(forming[t], t)'
    <2>1. PICK f : f = forming[t]
      OBVIOUS
    <2>2. FormingOK(f, t) /\ forming'[t] = f /\ AbsentOK(t)
      BY <1>1, <2>1 DEF RollInv
    <2>3. \A u \in Member : Lasts(roll'[Community][u], bizClock) => Lasts(roll[Community][u], bizClock)
      BY <1>2, <1>5 DEF Lasts
    <2>4. stands[t] = "absent" => \A u \in Member : should'[t][u] = should[t][u]
      BY <1>3, <2>2 DEF AbsentOK
    <2> QED
      BY <1>1, <2>2, <2>3, <2>4 DEF FormingOK
  <1>9. ASSUME NEW k \in Caller PROVE PendingOK(pending[k])'
    <2>1. PICK p : p = pending[k]
      OBVIOUS
    <2>2. PendingOK(p) /\ pending'[k] = p
      BY <1>1, <2>1 DEF RollInv
    <2> QED
      BY <1>1, <1>2, <1>5, <2>2 DEF PendingOK
  <1>10. TopicsFollow'
    <2> SUFFICES ASSUME NEW t \in Topic, stands[t] # "absent", NEW u \in Member
                 PROVE  /\ should'[t][u] = "in" => roll'[t][u].role # "none"
                        /\ should'[t][u] = "out" => roll'[t][u].role \in {"none", "owner"}
      BY <1>1 DEF TopicsFollow
    <2>1. /\ should[t][u] = "in" => roll[t][u].role # "none"
          /\ should[t][u] = "out" => roll[t][u].role \in {"none", "owner"}
      BY DEF RollInv, TopicsFollow
    <2>2. CASE should[t][u] = "in"
      BY <1>3, <1>5, <2>1, <2>2
    <2>3. CASE should[t][u] # "in"
      BY <1>2, <1>3, <1>5, <2>1, <2>3
    <2> QED
      BY <2>2, <2>3
  <1> QED
    BY <1>6, <1>7, <1>8, <1>9, <1>10 DEF RollInv

\* What a member action means for the memberships of topic t.
LEMMA ExpectedIs ==
  ASSUME NEW p, p.kind \in Kinds, NEW t, t # Community, NEW had
  PROVE  /\ p.chan = Community /\ p.kind \in {"subscribe", "add"} =>
              Expected(p, t, had) = IF stands[t] = "live" THEN "in" ELSE "free"
         /\ p.chan = Community /\ p.kind \in {"unsubscribe", "remove"} => Expected(p, t, had) = "out"
         /\ p.chan = t /\ p.kind \in {"subscribe", "add", "unsubscribe", "remove"} => Expected(p, t, had) = "free"
         /\ p.kind \in {"promote", "expiry"} \/ p.chan \notin {Community, t} => Expected(p, t, had) = had
  BY DEF Expected

\* The action is applied: the target's row in its channel and, when that is the
\* community, in the topics, together with what is said of it.
LEMMA MemberActionIs ==
  ASSUME RollInv, NEW p, p.chan \in Channel, p.target \in Member, p.kind \in Kinds,
         roll' = [c \in Channel |-> [roll[c] EXCEPT ![p.target] =
                     CASE c = p.chan -> RowAfter(p, @)
                       [] p.chan = Community /\ c # Community -> InheritedRow(p, c, @)
                       [] OTHER -> @]],
         should' = [t \in Topic |-> [should[t] EXCEPT ![p.target] = Expected(p, t, @)]]
  PROVE  /\ DOMAIN roll' = Channel /\ DOMAIN should' = Topic
         /\ \A c \in Channel : DOMAIN roll'[c] = Member /\ \A u \in Member : u # p.target => roll'[c][u] = roll[c][u]
         /\ roll'[p.chan][p.target] = RowAfter(p, roll[p.chan][p.target])
         /\ \A t \in Topic : /\ p.chan = Community => roll'[t][p.target] = InheritedRow(p, t, roll[t][p.target])
                             /\ DOMAIN should'[t] = Member
                             /\ should'[t][p.target] = Expected(p, t, should[t][p.target])
                             /\ \A u \in Member : u # p.target => should'[t][u] = should[t][u]
         /\ \A c \in Channel, u \in Member : p.chan # Community /\ c # p.chan => roll'[c][u] = roll[c][u]
  <1>0. Topic \subseteq Channel /\ Community \notin Topic
    BY BusinessAssumption DEF BusinessAssumption, Channel
  <1>1. ASSUME NEW c \in Channel
        PROVE  /\ DOMAIN roll'[c] = Member /\ \A u \in Member : u # p.target => roll'[c][u] = roll[c][u]
               /\ c = p.chan => roll'[c][p.target] = RowAfter(p, roll[c][p.target])
               /\ p.chan = Community /\ c # Community => roll'[c][p.target] = InheritedRow(p, c, roll[c][p.target])
               /\ p.chan # Community /\ c # p.chan => roll'[c][p.target] = roll[c][p.target]
    <2>1. DOMAIN roll[c] = Member
      BY DEF RollInv, RollTypes
    <2>2. PICK new : new = CASE c = p.chan -> RowAfter(p, roll[c][p.target])
                             [] p.chan = Community /\ c # Community -> InheritedRow(p, c, roll[c][p.target])
                             [] OTHER -> roll[c][p.target]
      OBVIOUS
    <2>3. roll'[c] = [roll[c] EXCEPT ![p.target] = new]
      BY <2>2
    <2>4. /\ c = p.chan => new = RowAfter(p, roll[c][p.target])
          /\ p.chan = Community /\ c # Community => new = InheritedRow(p, c, roll[c][p.target])
          /\ p.chan # Community /\ c # p.chan => new = roll[c][p.target]
      BY <2>2
    <2> QED
      BY <2>1, <2>3, <2>4
  <1>2. ASSUME NEW t \in Topic
        PROVE  /\ DOMAIN should'[t] = Member /\ should'[t][p.target] = Expected(p, t, should[t][p.target])
               /\ \A u \in Member : u # p.target => should'[t][u] = should[t][u]
    <2>1. DOMAIN should[t] = Member
      BY DEF RollInv, RollTypes
    <2>2. should'[t] = [should[t] EXCEPT ![p.target] = Expected(p, t, should[t][p.target])]
      OBVIOUS
    <2> QED
      BY <2>1, <2>2
  <1>3. DOMAIN roll' = Channel /\ DOMAIN should' = Topic
    OBVIOUS
  <1>4. \A t \in Topic : p.chan = Community => roll'[t][p.target] = InheritedRow(p, t, roll[t][p.target])
    BY <1>0, <1>1
  <1>5. \A c \in Channel, u \in Member : p.chan # Community /\ c # p.chan => roll'[c][u] = roll[c][u]
    <2> SUFFICES ASSUME NEW c \in Channel, NEW u \in Member, p.chan # Community, c # p.chan PROVE roll'[c][u] = roll[c][u]
      OBVIOUS
    <2>1. CASE u = p.target
      BY <1>1, <2>1
    <2>2. CASE u # p.target
      BY <1>1, <2>2
    <2> QED
      BY <2>1, <2>2
  <1> QED
    BY <1>1, <1>2, <1>3, <1>4, <1>5

\* A member action takes the lock of its channel and is applied.
LEMMA MemberActionKeeps ==
  ASSUME RollInv, NEW k \in Caller, ApplyBusinessChannelMemberAction(k)
  PROVE  RollInv'
  <1>0. PICK p : p = pending[k]
    OBVIOUS
  <1>1. /\ p # Idle /\ (p.chan = Community => \A t \in Topic : ~HoldsParent(t))
        /\ pending' = [pending EXCEPT ![k] = Idle] /\ UNCHANGED <<bizClock, stands, forming>>
        /\ \/ UNCHANGED <<roll, should>>
           \/ /\ stands[p.chan] = "live"
              /\ roll' = [c \in Channel |-> [roll[c] EXCEPT ![p.target] =
                     CASE c = p.chan -> RowAfter(p, @)
                       [] p.chan = Community /\ c # Community -> InheritedRow(p, c, @)
                       [] OTHER -> @]]
              /\ should' = [t \in Topic |-> [should[t] EXCEPT ![p.target] = Expected(p, t, @)]]
    BY <1>0 DEF ApplyBusinessChannelMemberAction
  <1>2. /\ p.kind \in Kinds /\ p.chan \in Channel /\ p.target \in Member /\ p.until \in {Never} \cup Nat
        /\ p.kind = "promote" => roll[p.chan][p.target].role # "owner"
    BY <1>0, <1>1 DEF RollInv, PendingOK
  <1>3. /\ DOMAIN pending' = Caller
        /\ \A j \in Caller : pending'[j] = Idle \/ pending'[j] = pending[j]
    BY <1>1 DEF RollInv, RollTypes
  <1>4. CASE UNCHANGED <<roll, should>>
    <2>1. RollTypes'
      BY <1>1, <1>3, <1>4 DEF RollInv, RollTypes
    <2>2. ASSUME NEW t \in Topic PROVE FormingOK(forming[t], t)' /\ AbsentOK(t)'
      BY <1>1, <1>4 DEF RollInv, FormingOK, AbsentOK
    <2>3. ASSUME NEW j \in Caller PROVE PendingOK(pending[j])'
      BY <1>1, <1>3, <1>4 DEF RollInv, PendingOK
    <2>4. TopicsFollow'
      BY <1>1, <1>4 DEF RollInv, TopicsFollow
    <2> QED
      BY <2>1, <2>2, <2>3, <2>4 DEF RollInv
  <1>5. CASE ~UNCHANGED <<roll, should>>
    <2>0. Topic \subseteq Channel /\ Community \in Channel /\ Community \notin Topic /\ stands[p.chan] = "live"
      BY <1>1, <1>5, BusinessAssumption DEF BusinessAssumption, Channel
    <2>1. /\ DOMAIN roll' = Channel /\ DOMAIN should' = Topic
          /\ \A c \in Channel : DOMAIN roll'[c] = Member /\ \A u \in Member : u # p.target => roll'[c][u] = roll[c][u]
          /\ roll'[p.chan][p.target] = RowAfter(p, roll[p.chan][p.target])
          /\ \A t \in Topic : /\ p.chan = Community => roll'[t][p.target] = InheritedRow(p, t, roll[t][p.target])
                              /\ DOMAIN should'[t] = Member
                              /\ should'[t][p.target] = Expected(p, t, should[t][p.target])
                              /\ \A u \in Member : u # p.target => should'[t][u] = should[t][u]
          /\ \A c \in Channel, u \in Member : p.chan # Community /\ c # p.chan => roll'[c][u] = roll[c][u]
      BY <1>1, <1>2, <1>5, MemberActionIs
    <2>2. PICK held : held = roll[p.chan][p.target]
      OBVIOUS
    <2>3. PICK own : own = RowAfter(p, held)
      OBVIOUS
    <2>4. /\ RowOK(own) /\ roll'[p.chan][p.target] = own
          /\ own.role = "owner" => held.role = "owner"
          /\ p.kind \in {"unsubscribe", "remove"} => own.role = "none"
          /\ p.kind \in {"promote", "expiry"} => (own.role = "none" <=> held.role = "none")
          /\ p.kind = "expiry" => own.role = held.role
      <3>1. RowOK(held)
        BY <1>2, <2>2 DEF RollInv, RollTypes
      <3> QED
        BY <1>2, <2>1, <2>2, <2>3, <3>1, RowAfterIs
    <2>5. ASSUME p.chan = Community, NEW t \in Topic
          PROVE  /\ RowOK(roll'[t][p.target])
                 /\ roll'[t][p.target].role = "owner" => roll[t][p.target].role = "owner"
                 /\ p.kind \in {"subscribe", "add"} /\ stands[t] = "live" => roll'[t][p.target].role # "none"
                 /\ p.kind \in {"subscribe", "add"} /\ stands[t] # "live" => roll'[t][p.target] = roll[t][p.target]
                 /\ p.kind \in {"unsubscribe", "remove"} => roll'[t][p.target].role \in {"none", "owner"}
                      /\ (roll[t][p.target].role = "none" => roll'[t][p.target].role = "none")
                 /\ p.kind \in {"promote", "expiry"} => roll'[t][p.target].role = roll[t][p.target].role
      <3>1. PICK old : old = roll[t][p.target]
        OBVIOUS
      <3>2. RowOK(old) /\ roll'[t][p.target] = InheritedRow(p, t, old)
        BY <1>2, <2>0, <2>1, <2>5, <3>1 DEF RollInv, RollTypes
      <3> QED
        BY <1>2, <3>1, <3>2, InheritedIs
    <2>6. \A c \in Channel, u \in Member : RowOK(roll'[c][u]) /\ (roll'[c][u].role = "owner" => roll[c][u].role = "owner")
      <3> SUFFICES ASSUME NEW c \in Channel, NEW u \in Member
                   PROVE  RowOK(roll'[c][u]) /\ (roll'[c][u].role = "owner" => roll[c][u].role = "owner")
        OBVIOUS
      <3>1. RowOK(roll[c][u])
        BY DEF RollInv, RollTypes
      <3>2. CASE roll'[c][u] = roll[c][u]
        BY <3>1, <3>2
      <3>3. CASE u = p.target /\ c = p.chan
        BY <2>2, <2>4, <3>3
      <3>4. CASE u = p.target /\ c \in Topic /\ p.chan = Community
        BY <2>5, <3>4
      <3> QED
        BY <2>1, <3>2, <3>3, <3>4 DEF Channel
    <2>7. RollTypes'
      BY <1>1, <1>3, <2>1, <2>6 DEF RollInv, RollTypes
    <2>8. ASSUME NEW t \in Topic
          PROVE  /\ p.chan = Community /\ p.kind \in {"subscribe", "add"} =>
                      should'[t][p.target] = IF stands[t] = "live" THEN "in" ELSE "free"
                 /\ p.chan = Community /\ p.kind \in {"unsubscribe", "remove"} => should'[t][p.target] = "out"
                 /\ p.chan = t /\ p.kind \in {"subscribe", "add", "unsubscribe", "remove"} => should'[t][p.target] = "free"
                 /\ p.kind \in {"promote", "expiry"} \/ p.chan \notin {Community, t} =>
                      should'[t][p.target] = should[t][p.target]
      <3>1. t # Community /\ should'[t][p.target] = Expected(p, t, should[t][p.target])
        BY <2>0, <2>1
      <3> QED
        BY <1>2, <3>1, ExpectedIs
    <2>9. ASSUME NEW t \in Topic, stands[t] = "absent", NEW u \in Member
          PROVE  /\ roll'[t][u].role = "none" /\ should'[t][u] \in {"free", "out"}
                 /\ should'[t][u] = "out" => roll'[Community][u].role = "none"
      <3>1. /\ roll[t][u].role = "none" /\ should[t][u] \in {"free", "out"}
            /\ should[t][u] = "out" => roll[Community][u].role = "none"
        BY <2>9 DEF RollInv, AbsentOK
      <3>2. p.chan # t /\ t # Community
        BY <2>0, <2>9
      <3>3. CASE u # p.target
        BY <2>0, <2>1, <3>1, <3>3
      <3>4. CASE u = p.target /\ p.chan # Community
        BY <2>0, <2>1, <2>8, <3>1, <3>2, <3>4
      <3>5. CASE u = p.target /\ p.chan = Community /\ p.kind \in {"subscribe", "add"}
        BY <2>5, <2>8, <2>9, <3>1, <3>5
      <3>6. CASE u = p.target /\ p.chan = Community /\ p.kind \in {"unsubscribe", "remove"}
        BY <2>4, <2>5, <2>8, <3>1, <3>6
      <3>7. CASE u = p.target /\ p.chan = Community /\ p.kind \in {"promote", "expiry"}
        BY <2>2, <2>4, <2>5, <2>8, <3>1, <3>7
      <3> QED
        BY <1>2, <3>3, <3>4, <3>5, <3>6, <3>7 DEF Kinds
    <2>10. ASSUME NEW t \in Topic PROVE AbsentOK(t)'
      BY <1>1, <2>9 DEF AbsentOK
    <2>11. ASSUME NEW t \in Topic PROVE FormingOK(forming[t], t)'
      <3>1. PICK f : f = forming[t]
        OBVIOUS
      <3>2. FormingOK(f, t) /\ forming'[t] = f
        BY <1>1, <3>1 DEF RollInv
      <3>3. CASE f = Unformed \/ f.step \in {"checked", "inserted"}
        BY <1>1, <3>2, <3>3 DEF FormingOK
      <3>4. CASE f # Unformed /\ f.step = "seeded"
        <4>1. stands[t] = "absent" /\ p.chan # Community
          BY <1>1, <3>1, <3>2, <3>4 DEF FormingOK, HoldsParent
        <4>2. \A u \in Member : roll'[Community][u] = roll[Community][u]
          BY <2>0, <2>1, <4>1
        <4>3. \A u \in Member : should'[t][u] = should[t][u]
          <5> SUFFICES ASSUME NEW u \in Member PROVE should'[t][u] = should[t][u]
            OBVIOUS
          <5>1. p.chan \notin {Community, t}
            BY <2>0, <4>1
          <5>2. CASE u = p.target
            BY <2>8, <5>1, <5>2
          <5>3. CASE u # p.target
            BY <2>1, <5>3
          <5> QED
            BY <5>2, <5>3
        <4> QED
          BY <1>1, <3>2, <3>4, <4>2, <4>3 DEF FormingOK
      <3> QED
        BY <3>2, <3>3, <3>4 DEF FormingOK
    <2>12. ASSUME NEW j \in Caller PROVE PendingOK(pending[j])'
      <3>1. PICK q : q = pending'[j]
        OBVIOUS
      <3>2. PendingOK(q)
        BY <1>3, <3>1 DEF RollInv, PendingOK
      <3> QED
        BY <1>1, <2>6, <3>1, <3>2 DEF PendingOK
    <2>13. TopicsFollow'
      <3> SUFFICES ASSUME NEW t \in Topic, stands[t] # "absent", NEW u \in Member
                   PROVE  /\ should'[t][u] = "in" => roll'[t][u].role # "none"
                          /\ should'[t][u] = "out" => roll'[t][u].role \in {"none", "owner"}
        BY <1>1 DEF TopicsFollow
      <3>1. /\ should[t][u] = "in" => roll[t][u].role # "none"
            /\ should[t][u] = "out" => roll[t][u].role \in {"none", "owner"}
        BY DEF RollInv, TopicsFollow
      <3>2. CASE u # p.target
        BY <2>0, <2>1, <3>1, <3>2
      <3>3. CASE u = p.target /\ p.chan = t /\ p.kind \in {"subscribe", "add", "unsubscribe", "remove"}
        BY <2>8, <3>3
      <3>4. CASE u = p.target /\ p.chan = t /\ p.kind \in {"promote", "expiry"}
        <4>1. should'[t][u] = should[t][u] /\ held = roll[t][u] /\ roll'[t][u] = own
          BY <2>2, <2>4, <2>8, <3>4
        <4>2. p.kind = "promote" => held.role # "owner"
          BY <1>2, <2>2
        <4> QED
          BY <2>4, <3>1, <3>4, <4>1, <4>2
      <3>5. CASE u = p.target /\ p.chan = Community /\ p.kind \in {"subscribe", "add", "unsubscribe", "remove"}
        BY <2>5, <2>8, <3>5
      <3>6. CASE u = p.target /\ p.chan = Community /\ p.kind \in {"promote", "expiry"}
        BY <2>5, <2>8, <3>1, <3>6
      <3>7. CASE u = p.target /\ p.chan \notin {Community, t}
        BY <2>0, <2>1, <2>8, <3>1, <3>7
      <3> QED
        BY <1>2, <3>2, <3>3, <3>4, <3>5, <3>6, <3>7 DEF Kinds
    <2> QED
      BY <2>7, <2>10, <2>11, <2>12, <2>13 DEF RollInv
  <1> QED
    BY <1>4, <1>5

LEMMA RollStep == RollInv /\ [BizNext]_bizVars => RollInv'
  <1> SUFFICES ASSUME RollInv, [BizNext]_bizVars PROVE RollInv'
    OBVIOUS
  <1>1. ASSUME NEW t \in Topic, (\E a \in Member : CreateBusinessChannel(t, a)) \/ InsertTopic(t) \/ SeedTopic(t) \/ CommitTopic(t)
        PROVE  RollInv'
    BY <1>1, CreationKeeps, CommitKeeps
  <1>2. ASSUME NEW k \in Caller, NEW kind \in Kinds, NEW c \in Channel, NEW a \in Member, NEW u \in Member,
               NEW until \in {Never, bizClock + 1}, ApplyBusinessChannelMember(k, kind, c, a, u, until)
        PROVE  RollInv'
    BY <1>2, RequestKeeps
  <1>3. ASSUME NEW k \in Caller, ApplyBusinessChannelMemberAction(k) PROVE RollInv'
    BY <1>3, MemberActionKeeps
  <1>4. ASSUME NEW c \in Channel, NEW a \in Member, UpdateBusinessChannel(c, a) PROVE RollInv'
    BY <1>4, UpdateKeeps
  <1>5. CASE ExpireBusinessChannelMemberships
    BY <1>5, ExpiryKeeps
  <1>6. CASE BizTick \/ SlowNext \/ (\E c \in Channel : ReconcileBusinessChannel(c)) \/ UNCHANGED bizVars
    <2>0. bizClock \in Nat
      BY DEF RollInv, RollTypes
    <2>1. CASE BizTick
      <3>1. UNCHANGED <<roll, stands, should, forming, pending>> /\ bizClock' = bizClock + 1
        BY <2>1 DEF BizTick, rollVars
      <3> QED
        BY <2>0, <3>1, RollStays
    <2>2. CASE SlowNext
      <3>1. UNCHANGED <<bizClock, roll, stands, should, forming, pending>>
        BY <2>2 DEF SlowNext, AskToSend, AuthorizeBusinessChannelSend, ChangeSlowMode, ApplyBusinessChannelAccess, rollVars
      <3> QED
        BY <2>0, <3>1, RollStays
    <2>3. CASE (\E c \in Channel : ReconcileBusinessChannel(c)) \/ UNCHANGED bizVars
      <3>1. UNCHANGED <<bizClock, roll, stands, should, forming, pending>>
        BY <2>3 DEF ReconcileBusinessChannel, bizVars, rollVars
      <3> QED
        BY <2>0, <3>1, RollStays
    <2> QED
      BY <1>6, <2>1, <2>2, <2>3
  <1> QED
    BY <1>1, <1>2, <1>3, <1>4, <1>5, <1>6 DEF BizNext, RollNext, Kinds

\* Topics hold the members their community gives them and lose those it loses,
\* whatever requests, expiries and creations overlap; and no plain member sends
\* faster than slow mode allows.
THEOREM ChannelsKeepPromise == BizSpec => []ChannelsKept
  <1>1. BizSpec => []RollInv
    BY RollInitHolds, RollStep, PTL DEF BizSpec
  <1>2. BizSpec => []SlowInv
    BY SlowInitHolds, SlowStep, PTL DEF BizSpec
  <1>3. RollInv /\ SlowInv => TopicsFollow /\ SlowModeKept
    BY DEF RollInv, SlowInv
  <1> QED
    BY <1>1, <1>2, <1>3, PTL DEF ChannelsKept

(***************************************************************************)
(* Announcements (AnnouncementBoard, Announcements): both stores implement *)
(* the board.                                                              *)
(***************************************************************************)
NoticeField == {"status", "to", "due", "push"}
Statuses == {"absent", "draft", "scheduled", "published", "withdrawn"}
Shaped(f) == DOMAIN f = Announcement /\ \A a \in Announcement : DOMAIN f[a] = NoticeField /\ f[a].status \in Statuses

BoardTypes ==
    /\ Shaped(noticeRow) /\ Shaped(memory)
    /\ DOMAIN mark = Announcement /\ DOMAIN pushed = Announcement /\ DOMAIN event = Announcement
    /\ \A a \in Announcement : /\ DOMAIN mark[a] = Reader
                               /\ \A r \in Reader : mark[a][r] \in {"none", "read", "dismissed"}
    /\ \A a \in Announcement : DOMAIN pushed[a] = Reader
    /\ DOMAIN dismissal = Reader /\ \A r \in Reader : dismissal[r] \subseteq Announcement
    /\ now \in Nat

\* What may still be published was never heard of, and nobody got a push for what
\* was not heard of.
NotHeardYet == \A a \in Announcement :
    /\ noticeRow[a].status \in Editable => event[a] = "none"
    /\ event[a] = "none" => \A r \in Reader : pushed[a][r] = 0
    /\ \A r \in Reader : pushed[a][r] \in {0, 1}

\* What a reader is about to dismiss was published and is addressed to him still.
DismissedWasShown == \A r \in Reader : \A a \in dismissal[r] :
    event[a] # "none" /\ (noticeRow[a].status # "absent" => r \in noticeRow[a].to)

BoardInv == BoardTypes /\ NotHeardYet /\ DismissedWasShown /\ AudienceKnows

LEMMA BoardInitHolds == AnnouncementsInit => BoardInv
  <1> SUFFICES ASSUME AnnouncementsInit PROVE BoardInv
    OBVIOUS
  <1>1. BoardTypes
    BY DEF AnnouncementsInit, BoardTypes, Shaped, Nothing, NoticeField, Statuses
  <1>2. NotHeardYet /\ DismissedWasShown /\ AudienceKnows
    BY DEF AnnouncementsInit, NotHeardYet, DismissedWasShown, AudienceKnows, Nothing, Editable
  <1> QED
    BY <1>1, <1>2 DEF BoardInv

\* A step that leaves the database alone.
LEMMA StoreStays ==
  ASSUME BoardInv, UNCHANGED storeVars, Shaped(memory)', now' \in Nat
  PROVE  BoardInv'
  BY DEF BoardInv, BoardTypes, NotHeardYet, DismissedWasShown, AudienceKnows, storeVars, Shaped

LEMMA PromoteKeeps ==
  ASSUME BoardInv, promoteScheduledAnnouncements
  PROVE  BoardInv'
  <1>1. /\ noticeRow' = [a \in Announcement |-> IF a \in Ripe THEN [noticeRow[a] EXCEPT !.status = "published"] ELSE noticeRow[a]]
        /\ pushed' = Enqueued({a \in Ripe : noticeRow[a].push})
        /\ event' = appendAnnouncementAudienceEvent(Ripe, "published")
        /\ UNCHANGED <<mark, dismissal, memory, memRead, memGone, now>>
    BY DEF promoteScheduledAnnouncements
  <1>2. \A a \in Ripe : a \in Announcement /\ noticeRow[a].status = "scheduled"
    BY DEF Ripe, DueRows
  <1>3. /\ DOMAIN noticeRow' = Announcement
        /\ \A a \in Announcement : /\ DOMAIN noticeRow'[a] = NoticeField /\ noticeRow'[a].to = noticeRow[a].to
                                   /\ noticeRow'[a].status = IF a \in Ripe THEN "published" ELSE noticeRow[a].status
    BY <1>1 DEF BoardInv, BoardTypes, Shaped, NoticeField
  <1>4. DOMAIN event' = Announcement /\ \A a \in Announcement : event'[a] = IF a \in Ripe THEN "published" ELSE event[a]
    BY <1>1 DEF appendAnnouncementAudienceEvent
  <1>5. /\ DOMAIN pushed' = Announcement /\ \A a \in Announcement : DOMAIN pushed'[a] = Reader
        /\ \A a \in Announcement : a \notin Ripe => \A r \in Reader : pushed'[a][r] = pushed[a][r]
        /\ \A a \in Ripe : \A r \in Reader : pushed'[a][r] = pushed[a][r] \/ pushed'[a][r] = pushed[a][r] + 1
    BY <1>1, <1>2 DEF Enqueued
  <1>6. BoardTypes'
    BY <1>1, <1>3, <1>4, <1>5 DEF BoardInv, BoardTypes, Shaped, Statuses
  <1>7. NotHeardYet'
    <2>1. \A a \in Ripe : \A r \in Reader : pushed[a][r] = 0
      BY <1>2 DEF BoardInv, NotHeardYet, Editable
    <2>2. \A a \in Announcement, r \in Reader : pushed'[a][r] \in {0, 1}
      BY <1>2, <1>5, <2>1 DEF BoardInv, NotHeardYet
    <2> QED
      BY <1>2, <1>3, <1>4, <1>5, <2>2 DEF BoardInv, NotHeardYet, Editable
  <1>8. DismissedWasShown' /\ AudienceKnows'
    BY <1>1, <1>2, <1>3, <1>4 DEF BoardInv, BoardTypes, DismissedWasShown, AudienceKnows
  <1> QED
    BY <1>6, <1>7, <1>8 DEF BoardInv

\* One row is written anew by its author.
LEMMA WriteKeeps ==
  ASSUME BoardInv, NEW a \in Announcement, NEW to, NEW due, NEW push,
         CreateAnnouncement(a, to, due, push) \/ UpdateAnnouncement(a, to, due, push)
  PROVE  BoardInv'
  <1>1. /\ noticeRow' = [noticeRow EXCEPT ![a] = Input(to, due, push)]
        /\ UNCHANGED <<mark, pushed, event, dismissal, memory, memRead, memGone, now>>
        /\ (noticeRow[a].status = "absent" /\ event[a] = "none") \/ noticeRow[a].status \in Editable
    BY DEF CreateAnnouncement, UpdateAnnouncement, Fresh, Unpublished
  <1>2. event[a] = "none"
    BY <1>1 DEF BoardInv, NotHeardYet
  <1>3. /\ DOMAIN noticeRow' = Announcement /\ DOMAIN noticeRow'[a] = NoticeField /\ noticeRow'[a].status \in Editable
        /\ \A b \in Announcement : b # a => noticeRow'[b] = noticeRow[b]
    BY <1>1 DEF BoardInv, BoardTypes, Shaped, Input, NoticeField, Editable
  <1>4. BoardTypes'
    BY <1>1, <1>3 DEF BoardInv, BoardTypes, Shaped, Statuses, Editable
  <1>5. NotHeardYet'
    BY <1>1, <1>2, <1>3 DEF BoardInv, NotHeardYet
  <1>6. DismissedWasShown' /\ AudienceKnows'
    BY <1>1, <1>2, <1>3 DEF BoardInv, BoardTypes, DismissedWasShown, AudienceKnows, Editable
  <1> QED
    BY <1>4, <1>5, <1>6 DEF BoardInv

LEMMA PublishKeeps ==
  ASSUME BoardInv, NEW a \in Announcement, NEW push, PublishAnnouncement(a, push)
  PROVE  BoardInv'
  <1>1. /\ noticeRow[a].status \in Editable
        /\ noticeRow' = [noticeRow EXCEPT ![a].status = "published", ![a].due = 0, ![a].push = push]
        /\ pushed' = IF push THEN Enqueued({a}) ELSE pushed
        /\ event' = [event EXCEPT ![a] = "published"]
        /\ UNCHANGED <<mark, dismissal, memory, memRead, memGone, now>>
    BY DEF PublishAnnouncement, Publishes
  <1>2. /\ DOMAIN noticeRow' = Announcement /\ DOMAIN noticeRow'[a] = NoticeField /\ noticeRow'[a].status = "published"
        /\ noticeRow'[a].to = noticeRow[a].to
        /\ \A b \in Announcement : b # a => noticeRow'[b] = noticeRow[b]
    BY <1>1 DEF BoardInv, BoardTypes, Shaped, NoticeField
  <1>3. DOMAIN event' = Announcement /\ event'[a] = "published" /\ \A b \in Announcement : b # a => event'[b] = event[b]
    BY <1>1 DEF BoardInv, BoardTypes
  <1>4. event[a] = "none" /\ \A r \in Reader : pushed[a][r] = 0
    BY <1>1 DEF BoardInv, NotHeardYet
  <1>5. /\ DOMAIN pushed' = Announcement /\ \A b \in Announcement : DOMAIN pushed'[b] = Reader
        /\ \A b \in Announcement : b # a => \A r \in Reader : pushed'[b][r] = pushed[b][r]
        /\ \A r \in Reader : pushed'[a][r] \in {0, 1}
    <2>1. CASE push
      <3>1. pushed' = [b \in Announcement |-> [r \in Reader |->
                   IF b \in {a} /\ r \in Recipients(b) THEN pushed[b][r] + 1 ELSE pushed[b][r]]]
        BY <1>1, <2>1 DEF Enqueued
      <3> QED
        BY <1>4, <3>1
    <2>2. CASE ~push
      BY <1>1, <1>4, <2>2 DEF BoardInv, BoardTypes
    <2> QED
      BY <2>1, <2>2
  <1>6. BoardTypes'
    BY <1>1, <1>2, <1>3, <1>5 DEF BoardInv, BoardTypes, Shaped, Statuses
  <1>7. NotHeardYet'
    BY <1>2, <1>3, <1>5 DEF BoardInv, NotHeardYet, Editable
  <1>8. DismissedWasShown' /\ AudienceKnows'
    BY <1>1, <1>2, <1>3, <1>4 DEF BoardInv, BoardTypes, DismissedWasShown, AudienceKnows
  <1> QED
    BY <1>6, <1>7, <1>8 DEF BoardInv

LEMMA WithdrawKeeps ==
  ASSUME BoardInv, NEW a \in Announcement, WithdrawAnnouncement(a) \/ DeleteAnnouncement(a)
  PROVE  BoardInv'
  <1>1. CASE WithdrawAnnouncement(a)
    <2>1. /\ noticeRow[a].status \in {"published", "scheduled"}
          /\ noticeRow' = [noticeRow EXCEPT ![a].status = "withdrawn"] /\ event' = [event EXCEPT ![a] = "withdrawn"]
          /\ UNCHANGED <<mark, pushed, dismissal, memory, memRead, memGone, now>>
      BY <1>1 DEF WithdrawAnnouncement
    <2>2. /\ DOMAIN noticeRow' = Announcement /\ DOMAIN noticeRow'[a] = NoticeField /\ noticeRow'[a].status = "withdrawn"
          /\ noticeRow'[a].to = noticeRow[a].to
          /\ \A b \in Announcement : b # a => noticeRow'[b] = noticeRow[b]
      BY <2>1 DEF BoardInv, BoardTypes, Shaped, NoticeField
    <2>3. DOMAIN event' = Announcement /\ event'[a] = "withdrawn" /\ \A b \in Announcement : b # a => event'[b] = event[b]
      BY <2>1 DEF BoardInv, BoardTypes
    <2>4. BoardTypes'
      BY <2>1, <2>2, <2>3 DEF BoardInv, BoardTypes, Shaped, Statuses
    <2>5. NotHeardYet'
      BY <2>1, <2>2, <2>3 DEF BoardInv, NotHeardYet, Editable
    <2>6. DismissedWasShown' /\ AudienceKnows'
      BY <2>1, <2>2, <2>3 DEF BoardInv, BoardTypes, DismissedWasShown, AudienceKnows
    <2> QED
      BY <2>4, <2>5, <2>6 DEF BoardInv
  <1>2. CASE DeleteAnnouncement(a)
    <2>1. /\ noticeRow[a].status \in {"draft", "withdrawn"}
          /\ noticeRow' = [noticeRow EXCEPT ![a] = Nothing] /\ mark' = [mark EXCEPT ![a] = [r \in Reader |-> "none"]]
          /\ event' = [event EXCEPT ![a] = IF @ = "none" THEN "deleted" ELSE @]
          /\ UNCHANGED <<pushed, dismissal, memory, memRead, memGone, now>>
      BY <1>2 DEF DeleteAnnouncement
    <2>2. /\ DOMAIN noticeRow' = Announcement /\ DOMAIN noticeRow'[a] = NoticeField /\ noticeRow'[a].status = "absent"
          /\ \A b \in Announcement : b # a => noticeRow'[b] = noticeRow[b]
      BY <2>1 DEF BoardInv, BoardTypes, Shaped, NoticeField, Nothing
    <2>3. /\ DOMAIN event' = Announcement /\ event'[a] # "none" /\ \A b \in Announcement : b # a => event'[b] = event[b]
      BY <2>1 DEF BoardInv, BoardTypes
    <2>4. /\ DOMAIN mark' = Announcement /\ DOMAIN mark'[a] = Reader /\ \A r \in Reader : mark'[a][r] = "none"
          /\ \A b \in Announcement : b # a => mark'[b] = mark[b]
      BY <2>1 DEF BoardInv, BoardTypes
    <2>5. BoardTypes'
      BY <2>1, <2>2, <2>3, <2>4 DEF BoardInv, BoardTypes, Shaped, Statuses
    <2>6. NotHeardYet'
      BY <2>1, <2>2, <2>3 DEF BoardInv, NotHeardYet, Editable
    <2>7. DismissedWasShown' /\ AudienceKnows'
      BY <2>1, <2>2, <2>3 DEF BoardInv, BoardTypes, DismissedWasShown, AudienceKnows
    <2> QED
      BY <2>5, <2>6, <2>7 DEF BoardInv
  <1> QED
    BY <1>1, <1>2

LEMMA MarkKeeps ==
  ASSUME BoardInv, NEW r \in Reader,
         \/ \E a \in Announcement : MarkAnnouncementRead(a, r)
         \/ \E A \in SUBSET Announcement : CountEligible(r, A)
         \/ DismissAnnouncements(r)
  PROVE  BoardInv'
  <1>1. CASE \E a \in Announcement : MarkAnnouncementRead(a, r)
    <2>1. PICK a \in Announcement : MarkAnnouncementRead(a, r)
      BY <1>1
    <2>2. /\ mark' = [mark EXCEPT ![a][r] = IF @ = "none" THEN "read" ELSE @]
          /\ UNCHANGED <<noticeRow, pushed, event, dismissal, memory, now>>
      BY <2>1 DEF MarkAnnouncementRead
    <2>3. /\ DOMAIN mark' = Announcement
          /\ \A b \in Announcement : DOMAIN mark'[b] = Reader
                                     /\ \A q \in Reader : mark'[b][q] \in {"none", "read", "dismissed"}
      BY <2>2 DEF BoardInv, BoardTypes
    <2> QED
      BY <2>2, <2>3 DEF BoardInv, BoardTypes, NotHeardYet, DismissedWasShown, AudienceKnows, Shaped
  <1>2. CASE \E A \in SUBSET Announcement : CountEligible(r, A)
    <2>1. PICK A \in SUBSET Announcement : CountEligible(r, A)
      BY <1>2
    <2>2. /\ \A a \in A : noticeRow[a].status = "published" /\ r \in noticeRow[a].to
          /\ dismissal' = [dismissal EXCEPT ![r] = A]
          /\ UNCHANGED <<noticeRow, mark, pushed, event, memory, now>>
      BY <2>1 DEF CountEligible, PublishedTo
    <2>3. DOMAIN dismissal' = Reader /\ dismissal'[r] = A /\ \A q \in Reader : q # r => dismissal'[q] = dismissal[q]
      BY <2>2 DEF BoardInv, BoardTypes
    <2>4. \A a \in A : event[a] = "published"
      BY <2>2 DEF BoardInv, AudienceKnows
    <2>5. DismissedWasShown'
      BY <2>2, <2>3, <2>4 DEF BoardInv, DismissedWasShown
    <2> QED
      BY <2>2, <2>3, <2>5 DEF BoardInv, BoardTypes, NotHeardYet, AudienceKnows, Shaped
  <1>3. CASE DismissAnnouncements(r)
    <2>1. /\ mark' = [a \in Announcement |-> IF a \in dismissal[r] /\ noticeRow[a].status # "absent"
                                       THEN [mark[a] EXCEPT ![r] = "dismissed"] ELSE mark[a]]
          /\ dismissal' = [dismissal EXCEPT ![r] = {}]
          /\ UNCHANGED <<noticeRow, pushed, event, memory, now>>
      BY <1>3 DEF DismissAnnouncements
    <2>2. /\ DOMAIN mark' = Announcement
          /\ \A b \in Announcement : DOMAIN mark'[b] = Reader
                                     /\ \A q \in Reader : mark'[b][q] \in {"none", "read", "dismissed"}
      BY <2>1 DEF BoardInv, BoardTypes
    <2>3. DOMAIN dismissal' = Reader /\ dismissal'[r] = {} /\ \A q \in Reader : q # r => dismissal'[q] = dismissal[q]
      BY <2>1 DEF BoardInv, BoardTypes
    <2>4. DismissedWasShown'
      BY <2>1, <2>3 DEF BoardInv, DismissedWasShown
    <2> QED
      BY <2>1, <2>2, <2>3, <2>4 DEF BoardInv, BoardTypes, NotHeardYet, AudienceKnows, Shaped
  <1> QED
    BY <1>1, <1>2, <1>3

\* The memory of the process and the clock leave the database alone.
LEMMA MemoryOrTimeKeeps ==
  ASSUME BoardInv, MemoryNext
  PROVE  BoardInv'
  <1> USE DEF Shaped, NoticeField
  <1>0. Shaped(memory) /\ now \in Nat
    BY DEF BoardInv, BoardTypes
  <1>1. DOMAIN Promoted = Announcement /\ \A a \in Announcement :
           /\ DOMAIN Promoted[a] = NoticeField
           /\ Promoted[a].status = IF a \in MemoryDue THEN "published" ELSE memory[a].status
    BY <1>0 DEF Promoted
  <1>2. \A a \in Announcement : Promoted[a].status \in Statuses
    BY <1>0, <1>1 DEF Statuses
  <1>3. Shaped(Promoted)
    BY <1>1, <1>2
  <1>4. UNCHANGED storeVars /\ Shaped(memory)' /\ now' \in Nat
    <2>1. CASE MemoryPromotes
      BY <1>0, <1>3, <2>1 DEF MemoryPromotes
    <2>2. ASSUME NEW a \in Announcement, NEW to \in Audience, NEW due \in 0..MaxNow, NEW push \in BOOLEAN,
                 MemoryCreate(a, to, due, push) \/ MemoryUpdate(a, to, due, push)
          PROVE  UNCHANGED storeVars /\ Shaped(memory)' /\ now' \in Nat
      <3>1. memory' = [memory EXCEPT ![a] = Input(to, due, push)] /\ now' = now /\ UNCHANGED storeVars
        BY <2>2 DEF MemoryCreate, MemoryUpdate
      <3>2. DOMAIN Input(to, due, push) = NoticeField /\ Input(to, due, push).status \in Statuses
        BY DEF Input, Statuses
      <3> QED
        BY <1>0, <3>1, <3>2
    <2>3. ASSUME NEW a \in Announcement, NEW push \in BOOLEAN, MemoryPublish(a, push)
          PROVE  UNCHANGED storeVars /\ Shaped(memory)' /\ now' \in Nat
      BY <1>0, <2>3 DEF MemoryPublish, Statuses
    <2>4. ASSUME NEW a \in Announcement, MemoryWithdraw(a) \/ MemoryDelete(a)
          PROVE  UNCHANGED storeVars /\ Shaped(memory)' /\ now' \in Nat
      BY <1>0, <2>4 DEF MemoryWithdraw, MemoryDelete, Nothing, Statuses
    <2>5. ASSUME NEW a \in Announcement, NEW r \in Reader, MemoryRead(a, r)
          PROVE  UNCHANGED storeVars /\ Shaped(memory)' /\ now' \in Nat
      BY <1>0, <1>3, <2>5 DEF MemoryRead
    <2>6. ASSUME NEW r \in Reader, NEW A \in SUBSET Announcement, MemoryDismiss(A, r)
          PROVE  UNCHANGED storeVars /\ Shaped(memory)' /\ now' \in Nat
      BY <1>0, <2>6 DEF MemoryDismiss
    <2>7. CASE BoardTime
      BY <1>0, <2>7 DEF BoardTime, memoryVars
    <2> QED
      BY <2>1, <2>2, <2>3, <2>4, <2>5, <2>6, <2>7 DEF MemoryNext
  <1> QED
    BY <1>4, StoreStays

LEMMA BoardStep == BoardInv /\ [StoreNext \/ MemoryNext]_announcementVars => BoardInv'
  <1> SUFFICES ASSUME BoardInv, [StoreNext \/ MemoryNext]_announcementVars PROVE BoardInv'
    OBVIOUS
  <1>1. CASE promoteScheduledAnnouncements
    BY <1>1, PromoteKeeps
  <1>2. ASSUME NEW a \in Announcement, NEW to \in Audience, NEW due \in 0..MaxNow, NEW push \in BOOLEAN,
               CreateAnnouncement(a, to, due, push) \/ UpdateAnnouncement(a, to, due, push)
        PROVE  BoardInv'
    BY <1>2, WriteKeeps
  <1>3. ASSUME NEW a \in Announcement, NEW push \in BOOLEAN, PublishAnnouncement(a, push) PROVE BoardInv'
    BY <1>3, PublishKeeps
  <1>4. ASSUME NEW a \in Announcement, WithdrawAnnouncement(a) \/ DeleteAnnouncement(a) PROVE BoardInv'
    BY <1>4, WithdrawKeeps
  <1>5. ASSUME NEW r \in Reader, \/ \E a \in Announcement : MarkAnnouncementRead(a, r)
                                 \/ \E A \in SUBSET Announcement : CountEligible(r, A)
                                 \/ DismissAnnouncements(r)
        PROVE  BoardInv'
    BY <1>5, MarkKeeps
  <1>6. CASE MemoryNext
    BY <1>6, MemoryOrTimeKeeps
  <1>7. CASE BoardTime
    BY <1>7, MemoryOrTimeKeeps DEF MemoryNext
  <1>8. CASE UNCHANGED announcementVars
    BY <1>8, StoreStays DEF announcementVars, storeVars, BoardInv, BoardTypes, Shaped
  <1> QED
    BY <1>1, <1>2, <1>3, <1>4, <1>5, <1>6, <1>7, <1>8 DEF StoreNext

\* The tables of the announcements keep their shape, what is still to be published
\* was never heard of, and what a reader dismisses was shown to him.
THEOREM BoardHolds == AnnouncementsSpec => []BoardInv
  <1> QED
    BY BoardInitHolds, BoardStep, PTL DEF AnnouncementsSpec


Item(f, a) == [status |-> f[a].status, to |-> f[a].to, due |-> f[a].due]
SeenPairs == PairsOf({"read", "dismissed"})
GonePairs == PairsOf({"dismissed"})
StoreView == <<Shape(noticeRow), SeenPairs, GonePairs, now>>
MemoryView == <<Shape(memory), memRead, memGone, now>>

LEMMA PairsAre ==
  /\ \A a \in Announcement, r \in Reader : /\ <<a, r>> \in SeenPairs <=> mark[a][r] \in {"read", "dismissed"}
                                           /\ <<a, r>> \in GonePairs <=> mark[a][r] = "dismissed"
  /\ SeenPairs \subseteq Announcement \X Reader /\ GonePairs \subseteq Announcement \X Reader
  BY DEF SeenPairs, GonePairs, PairsOf

LEMMA StorePromotes ==
  ASSUME BoardInv, promoteScheduledAnnouncements
  PROVE  Stored!Promote
  <1>1. /\ noticeRow' = [a \in Announcement |-> IF a \in Ripe THEN [noticeRow[a] EXCEPT !.status = "published"] ELSE noticeRow[a]]
        /\ UNCHANGED <<mark, now>>
    BY DEF promoteScheduledAnnouncements
  <1>2. Ripe = Stored!Due
    BY DEF Ripe, DueRows, Stored!Due, Shape
  <1>3. \A a \in Announcement : DOMAIN noticeRow[a] = NoticeField
    BY DEF BoardInv, BoardTypes, Shaped
  <1>4. ASSUME NEW a \in Announcement
        PROVE  Item(noticeRow', a) = IF a \in Ripe THEN [Shape(noticeRow)[a] EXCEPT !.status = "published"] ELSE Shape(noticeRow)[a]
    BY <1>1, <1>3 DEF Item, Shape, NoticeField
  <1>5. Shape(noticeRow)' = Stored!Published(Ripe)
    BY <1>4 DEF Shape, Item, Stored!Published
  <1>6. UNCHANGED <<SeenPairs, GonePairs>>
    BY <1>1 DEF SeenPairs, GonePairs, PairsOf
  <1> QED
    BY <1>1, <1>2, <1>5, <1>6 DEF Stored!Promote, SeenPairs, GonePairs

\* One row is written, published or withdrawn.
LEMMA StoreWrites ==
  ASSUME BoardInv, NEW a \in Announcement, NEW to \in Audience, NEW due \in 0..MaxNow, NEW push \in BOOLEAN,
         CreateAnnouncement(a, to, due, push) \/ UpdateAnnouncement(a, to, due, push)
  PROVE  Stored!Write(a, to, due)
  <1>1. /\ noticeRow' = [noticeRow EXCEPT ![a] = Input(to, due, push)] /\ UNCHANGED <<mark, now>>
        /\ noticeRow[a].status \in Editable \union {"absent"} /\ (due = 0 \/ due > now)
    BY DEF CreateAnnouncement, UpdateAnnouncement, Fresh, Unpublished, validateAnnouncementInput
  <1>2. DOMAIN noticeRow = Announcement
    BY DEF BoardInv, BoardTypes, Shaped
  <1>3. \A b \in Announcement :
           Item(noticeRow', b) = IF b = a THEN [status |-> IF due = 0 THEN "draft" ELSE "scheduled", to |-> to, due |-> due]
                                 ELSE Shape(noticeRow)[b]
    BY <1>1, <1>2 DEF Item, Shape, Input
  <1>4. Shape(noticeRow)' = [Shape(noticeRow) EXCEPT ![a] = [status |-> IF due = 0 THEN "draft" ELSE "scheduled", to |-> to, due |-> due]]
    BY <1>3 DEF Shape, Item
  <1>5. UNCHANGED <<SeenPairs, GonePairs>>
    BY <1>1 DEF SeenPairs, GonePairs, PairsOf
  <1>6. Shape(noticeRow)[a].status = noticeRow[a].status
    BY DEF Shape
  <1> QED
    BY <1>1, <1>4, <1>5, <1>6 DEF Stored!Write, Stored!Open, Editable, SeenPairs, GonePairs

LEMMA StorePublishes ==
  ASSUME BoardInv, NEW a \in Announcement, NEW push \in BOOLEAN, PublishAnnouncement(a, push)
  PROVE  Stored!Publish(a)
  <1>1. /\ noticeRow' = [noticeRow EXCEPT ![a].status = "published", ![a].due = 0, ![a].push = push] /\ UNCHANGED <<mark, now>>
        /\ noticeRow[a].status \in Editable
    BY DEF PublishAnnouncement, Publishes
  <1>2. DOMAIN noticeRow = Announcement /\ DOMAIN noticeRow[a] = NoticeField
    BY DEF BoardInv, BoardTypes, Shaped
  <1>3. \A b \in Announcement :
           Item(noticeRow', b) = IF b = a THEN [Shape(noticeRow)[b] EXCEPT !.status = "published", !.due = 0]
                                 ELSE Shape(noticeRow)[b]
    BY <1>1, <1>2 DEF Item, Shape, NoticeField
  <1>4. Shape(noticeRow)' = [Shape(noticeRow) EXCEPT ![a].status = "published", ![a].due = 0]
    BY <1>3 DEF Shape, Item
  <1>5. UNCHANGED <<SeenPairs, GonePairs>>
    BY <1>1 DEF SeenPairs, GonePairs, PairsOf
  <1>6. Shape(noticeRow)[a].status = noticeRow[a].status
    BY DEF Shape
  <1> QED
    BY <1>1, <1>4, <1>5, <1>6 DEF Stored!Publish, Stored!Open, Editable, SeenPairs, GonePairs

LEMMA StoreWithdraws ==
  ASSUME BoardInv, NEW a \in Announcement, WithdrawAnnouncement(a)
  PROVE  Stored!Withdraw(a)
  <1>1. /\ noticeRow' = [noticeRow EXCEPT ![a].status = "withdrawn"] /\ UNCHANGED <<mark, now>>
        /\ noticeRow[a].status \in {"published", "scheduled"}
    BY DEF WithdrawAnnouncement
  <1>2. DOMAIN noticeRow = Announcement /\ DOMAIN noticeRow[a] = NoticeField
    BY DEF BoardInv, BoardTypes, Shaped
  <1>3. \A b \in Announcement :
           Item(noticeRow', b) = IF b = a THEN [Shape(noticeRow)[b] EXCEPT !.status = "withdrawn"] ELSE Shape(noticeRow)[b]
    BY <1>1, <1>2 DEF Item, Shape, NoticeField
  <1>4. Shape(noticeRow)' = [Shape(noticeRow) EXCEPT ![a].status = "withdrawn"]
    BY <1>3 DEF Shape, Item
  <1>5. UNCHANGED <<SeenPairs, GonePairs>>
    BY <1>1 DEF SeenPairs, GonePairs, PairsOf
  <1>6. Shape(noticeRow)[a].status = noticeRow[a].status
    BY DEF Shape
  <1> QED
    BY <1>1, <1>4, <1>5, <1>6 DEF Stored!Withdraw, SeenPairs, GonePairs

\* What is deleted takes its marks along.
LEMMA StoreRemoves ==
  ASSUME BoardInv, NEW a \in Announcement, DeleteAnnouncement(a)
  PROVE  Stored!Remove(a)
  <1>1. /\ noticeRow' = [noticeRow EXCEPT ![a] = Nothing] /\ mark' = [mark EXCEPT ![a] = [r \in Reader |-> "none"]] /\ now' = now
        /\ noticeRow[a].status \in {"draft", "withdrawn"}
    BY DEF DeleteAnnouncement
  <1>2. DOMAIN noticeRow = Announcement /\ DOMAIN mark = Announcement
    BY DEF BoardInv, BoardTypes, Shaped
  <1>3. \A b \in Announcement :
           Item(noticeRow', b) = IF b = a THEN [status |-> "absent", to |-> {}, due |-> 0] ELSE Shape(noticeRow)[b]
    BY <1>1, <1>2 DEF Item, Shape, Nothing
  <1>4. Shape(noticeRow)' = [Shape(noticeRow) EXCEPT ![a] = [status |-> "absent", to |-> {}, due |-> 0]]
    BY <1>3 DEF Shape, Item
  <1>5. \A b \in Announcement, r \in Reader : mark'[b][r] = IF b = a THEN "none" ELSE mark[b][r]
    BY <1>1, <1>2
  <1>6. SeenPairs' = {p \in SeenPairs : p[1] # a} /\ GonePairs' = {p \in GonePairs : p[1] # a}
    BY <1>5 DEF SeenPairs, GonePairs, PairsOf
  <1>7. Shape(noticeRow)[a].status = noticeRow[a].status
    BY DEF Shape
  <1> QED
    BY <1>1, <1>4, <1>6, <1>7 DEF Stored!Remove, Stored!Absent, SeenPairs, GonePairs

\* Nothing falls due on the way of a mark in the database.
LEMMA NothingPublished == Stored!Published({}) = Shape(noticeRow) /\ Remembered!Published({}) = Shape(memory)
  BY DEF Stored!Published, Remembered!Published, Shape

LEMMA StoreMarks ==
  ASSUME BoardInv, NEW a \in Announcement, NEW r \in Reader, MarkAnnouncementRead(a, r)
  PROVE  Stored!Marks(r, {a})
  <1>1. /\ mark' = [mark EXCEPT ![a][r] = IF @ = "none" THEN "read" ELSE @] /\ noticeRow' = noticeRow /\ now' = now
        /\ noticeRow[a].status = "published" /\ r \in noticeRow[a].to
    BY DEF MarkAnnouncementRead, PublishedTo
  <1>2. Shape(noticeRow)' = Stored!Published({})
    BY <1>1, NothingPublished DEF Shape
  <1>3. Shape(noticeRow)'[a].status = "published" /\ r \in Shape(noticeRow)[a].to
    BY <1>1 DEF Shape
  <1>4. DOMAIN mark = Announcement /\ DOMAIN mark[a] = Reader /\ mark[a][r] \in {"none", "read", "dismissed"}
    BY DEF BoardInv, BoardTypes
  <1>5. ASSUME NEW b \in Announcement, NEW q \in Reader
        PROVE  mark'[b][q] = IF b = a /\ q = r /\ mark[a][r] = "none" THEN "read" ELSE mark[b][q]
    BY <1>1, <1>4
  <1>6. SeenPairs' = SeenPairs \union {<<b, r>> : b \in {a}} /\ GonePairs' = GonePairs
    <2>1. \A b \in Announcement, q \in Reader :
             /\ mark'[b][q] = "dismissed" <=> mark[b][q] = "dismissed"
             /\ mark'[b][q] \in {"read", "dismissed"} <=> mark[b][q] \in {"read", "dismissed"} \/ (b = a /\ q = r)
      BY <1>4, <1>5
    <2> QED
      BY <2>1 DEF SeenPairs, GonePairs, PairsOf
  <1>7. {} \in SUBSET Stored!Due
    OBVIOUS
  <1>8. /\ {a} # {}
        /\ \A b \in {a} : Shape(noticeRow)'[b].status \in {"published", "withdrawn"} /\ r \in Shape(noticeRow)[b].to
    BY <1>3
  <1> QED
    BY <1>1, <1>2, <1>6, <1>7, <1>8 DEF Stored!Marks, SeenPairs, GonePairs

\* A dismissal marks what of the eligible still exists.
LEMMA StoreDismisses ==
  ASSUME BoardInv, NEW r \in Reader, DismissAnnouncements(r)
  PROVE  \/ \E A \in SUBSET Announcement : Stored!Marks(r, A)
         \/ UNCHANGED StoreView
  <1> DEFINE A == {a \in dismissal[r] : noticeRow[a].status # "absent"}
  <1>1. /\ mark' = [a \in Announcement |-> IF a \in A THEN [mark[a] EXCEPT ![r] = "dismissed"] ELSE mark[a]]
        /\ noticeRow' = noticeRow /\ now' = now
    BY DEF DismissAnnouncements
  <1>2. A \subseteq Announcement
    BY DEF BoardInv, BoardTypes
  <1>3. Shape(noticeRow)' = Stored!Published({})
    BY <1>1, NothingPublished DEF Shape
  <1>4. \A b \in A : Shape(noticeRow)'[b].status \in {"published", "withdrawn"} /\ r \in Shape(noticeRow)[b].to
    <2> SUFFICES ASSUME NEW b \in A PROVE Shape(noticeRow)'[b].status \in {"published", "withdrawn"} /\ r \in Shape(noticeRow)[b].to
      OBVIOUS
    <2>1. b \in Announcement /\ event[b] # "none" /\ r \in noticeRow[b].to
      BY <1>2 DEF BoardInv, DismissedWasShown
    <2>2. noticeRow[b].status \notin Editable /\ noticeRow[b].status \in Statuses /\ noticeRow[b].status # "absent"
      BY <2>1 DEF BoardInv, NotHeardYet, BoardTypes, Shaped
    <2>3. noticeRow[b].status \in {"published", "withdrawn"}
      BY <2>2 DEF Editable, Statuses
    <2> QED
      BY <1>1, <2>1, <2>3 DEF Shape
  <1>5. ASSUME NEW b \in Announcement, NEW q \in Reader
        PROVE  mark'[b][q] = IF b \in A /\ q = r THEN "dismissed" ELSE mark[b][q]
    <2>1. DOMAIN mark[b] = Reader
      BY DEF BoardInv, BoardTypes
    <2> QED
      BY <1>1, <2>1
  <1> HIDE DEF A
  <1>6. /\ SeenPairs' = SeenPairs \union {<<b, r>> : b \in A}
        /\ GonePairs' = GonePairs \union {<<b, r>> : b \in A}
    BY <1>2, <1>5 DEF SeenPairs, GonePairs, PairsOf
  <1>7. {} \in SUBSET Stored!Due
    OBVIOUS
  <1>8. CASE A # {}
    <2>1. Stored!Marks(r, A)
      BY <1>1, <1>3, <1>4, <1>6, <1>7, <1>8 DEF Stored!Marks, SeenPairs, GonePairs
    <2> QED
      BY <1>2, <2>1
  <1>9. CASE A = {}
    <2>1. SeenPairs' = SeenPairs /\ GonePairs' = GonePairs
      BY <1>6, <1>9
    <2> QED
      BY <1>1, <2>1 DEF StoreView, Shape
  <1> QED
    BY <1>8, <1>9

LEMMA StoreRests ==
  ASSUME UNCHANGED <<noticeRow, mark, now>>
  PROVE  UNCHANGED StoreView
  BY DEF StoreView, Shape, SeenPairs, GonePairs, PairsOf

LEMMA MemoryRests ==
  ASSUME UNCHANGED <<memory, memRead, memGone, now>>
  PROVE  UNCHANGED MemoryView
  BY DEF MemoryView, Shape

LEMMA TimeOfBoth ==
  ASSUME BoardTime
  PROVE  Stored!Time /\ Remembered!Time
  BY DEF BoardTime, storeVars, memoryVars, Stored!Time, Remembered!Time, Shape, PairsOf

\* Every step is one of the board's for what the database holds, or none.
LEMMA StoreSteps == BoardInv /\ [StoreNext \/ MemoryNext]_announcementVars => [Stored!Next]_StoreView
  <1> SUFFICES ASSUME BoardInv, [StoreNext \/ MemoryNext]_announcementVars PROVE [Stored!Next]_StoreView
    OBVIOUS
  <1>1. CASE promoteScheduledAnnouncements
    BY <1>1, StorePromotes DEF Stored!Next
  <1>2. ASSUME NEW a \in Announcement, NEW to \in Audience, NEW due \in 0..MaxNow, NEW push \in BOOLEAN,
               CreateAnnouncement(a, to, due, push) \/ UpdateAnnouncement(a, to, due, push)
        PROVE  [Stored!Next]_StoreView
    BY <1>2, StoreWrites DEF Stored!Next
  <1>3. ASSUME NEW a \in Announcement, NEW push \in BOOLEAN, PublishAnnouncement(a, push) PROVE [Stored!Next]_StoreView
    BY <1>3, StorePublishes DEF Stored!Next
  <1>4. ASSUME NEW a \in Announcement, WithdrawAnnouncement(a) \/ DeleteAnnouncement(a) PROVE [Stored!Next]_StoreView
    BY <1>4, StoreWithdraws, StoreRemoves DEF Stored!Next
  <1>5. ASSUME NEW a \in Announcement, NEW r \in Reader, MarkAnnouncementRead(a, r) PROVE [Stored!Next]_StoreView
    BY <1>5, StoreMarks DEF Stored!Next
  <1>6. ASSUME NEW r \in Reader, NEW A \in SUBSET Announcement, CountEligible(r, A) PROVE [Stored!Next]_StoreView
    BY <1>6, StoreRests DEF CountEligible
  <1>7. ASSUME NEW r \in Reader, DismissAnnouncements(r) PROVE [Stored!Next]_StoreView
    BY <1>7, StoreDismisses DEF Stored!Next
  <1>8. CASE BoardTime
    BY <1>8, TimeOfBoth DEF Stored!Next
  <1>9. CASE MemoryNext
    <2>1. CASE BoardTime
      BY <1>8, <2>1
    <2>2. CASE UNCHANGED storeVars /\ now' = now
      BY <2>2, StoreRests DEF storeVars
    <2> QED
      BY <1>9, <2>1, <2>2 DEF MemoryNext, MemoryPromotes, MemoryCreate, MemoryUpdate, MemoryPublish, MemoryWithdraw,
         MemoryDelete, MemoryRead, MemoryDismiss
  <1>10. CASE UNCHANGED announcementVars
    BY <1>10, StoreRests DEF announcementVars
  <1> QED
    BY <1>1, <1>2, <1>3, <1>4, <1>5, <1>6, <1>7, <1>8, <1>9, <1>10 DEF StoreNext

\* What is due in memory is published on the way of a read.
LEMMA PromotedIs ==
  ASSUME BoardInv
  PROVE  /\ [a \in Announcement |-> Item(Promoted, a)] = Remembered!Published(MemoryDue)
         /\ MemoryDue \in SUBSET Remembered!Due
         /\ \A a \in Announcement : Promoted[a].to = memory[a].to
  <1>1. \A a \in Announcement : DOMAIN memory[a] = NoticeField
    BY DEF BoardInv, BoardTypes, Shaped
  <1>2. ASSUME NEW a \in Announcement
        PROVE  /\ Item(Promoted, a) = IF a \in MemoryDue THEN [Shape(memory)[a] EXCEPT !.status = "published"] ELSE Shape(memory)[a]
               /\ Promoted[a].to = memory[a].to
    BY <1>1 DEF Promoted, Item, Shape, NoticeField
  <1>3. MemoryDue = Remembered!Due
    BY DEF MemoryDue, Remembered!Due, Shape
  <1> QED
    BY <1>2, <1>3 DEF Remembered!Published

LEMMA MemoryWrites ==
  ASSUME BoardInv, NEW a \in Announcement, NEW to \in Audience, NEW due \in 0..MaxNow, NEW push \in BOOLEAN,
         MemoryCreate(a, to, due, push) \/ MemoryUpdate(a, to, due, push)
  PROVE  Remembered!Write(a, to, due)
  <1>1. /\ memory' = [memory EXCEPT ![a] = Input(to, due, push)] /\ UNCHANGED <<memRead, memGone, now>>
        /\ memory[a].status \in Editable \union {"absent"} /\ (due = 0 \/ due > now)
    BY DEF MemoryCreate, MemoryUpdate, Nothing, validateAnnouncementInput
  <1>2. DOMAIN memory = Announcement
    BY DEF BoardInv, BoardTypes, Shaped
  <1>3. \A b \in Announcement :
           Item(memory', b) = IF b = a THEN [status |-> IF due = 0 THEN "draft" ELSE "scheduled", to |-> to, due |-> due]
                              ELSE Shape(memory)[b]
    BY <1>1, <1>2 DEF Item, Shape, Input
  <1>4. Shape(memory)' = [Shape(memory) EXCEPT ![a] = [status |-> IF due = 0 THEN "draft" ELSE "scheduled", to |-> to, due |-> due]]
    BY <1>3 DEF Shape, Item
  <1>5. Shape(memory)[a].status = memory[a].status
    BY DEF Shape
  <1> QED
    BY <1>1, <1>4, <1>5 DEF Remembered!Write, Remembered!Open, Editable

LEMMA MemoryPublishes ==
  ASSUME BoardInv, NEW a \in Announcement, NEW push \in BOOLEAN, MemoryPublish(a, push)
  PROVE  Remembered!Publish(a)
  <1>1. /\ memory' = [memory EXCEPT ![a].status = "published", ![a].due = 0, ![a].push = push]
        /\ UNCHANGED <<memRead, memGone, now>> /\ memory[a].status \in Editable
    BY DEF MemoryPublish
  <1>2. DOMAIN memory = Announcement /\ DOMAIN memory[a] = NoticeField
    BY DEF BoardInv, BoardTypes, Shaped
  <1>3. \A b \in Announcement :
           Item(memory', b) = IF b = a THEN [Shape(memory)[b] EXCEPT !.status = "published", !.due = 0] ELSE Shape(memory)[b]
    BY <1>1, <1>2 DEF Item, Shape, NoticeField
  <1>4. Shape(memory)' = [Shape(memory) EXCEPT ![a].status = "published", ![a].due = 0]
    BY <1>3 DEF Shape, Item
  <1>5. Shape(memory)[a].status = memory[a].status
    BY DEF Shape
  <1> QED
    BY <1>1, <1>4, <1>5 DEF Remembered!Publish, Remembered!Open, Editable

LEMMA MemoryEnds ==
  ASSUME BoardInv, NEW a \in Announcement
  PROVE  /\ MemoryWithdraw(a) => Remembered!Withdraw(a)
         /\ MemoryDelete(a) => Remembered!Remove(a)
  <1>1. DOMAIN memory = Announcement /\ DOMAIN memory[a] = NoticeField
    BY DEF BoardInv, BoardTypes, Shaped
  <1>2. Shape(memory)[a].status = memory[a].status
    BY DEF Shape
  <1>3. ASSUME MemoryWithdraw(a) PROVE Remembered!Withdraw(a)
    <2>1. /\ memory' = [memory EXCEPT ![a].status = "withdrawn"] /\ UNCHANGED <<memRead, memGone, now>>
          /\ memory[a].status \in {"published", "scheduled"}
      BY <1>3 DEF MemoryWithdraw, Withdrawable
    <2>2. \A b \in Announcement :
             Item(memory', b) = IF b = a THEN [Shape(memory)[b] EXCEPT !.status = "withdrawn"] ELSE Shape(memory)[b]
      BY <1>1, <2>1 DEF Item, Shape, NoticeField
    <2>3. Shape(memory)' = [Shape(memory) EXCEPT ![a].status = "withdrawn"]
      BY <2>2 DEF Shape, Item
    <2> QED
      BY <1>2, <2>1, <2>3 DEF Remembered!Withdraw
  <1>4. ASSUME MemoryDelete(a) PROVE Remembered!Remove(a)
    <2>1. /\ memory' = [memory EXCEPT ![a] = Nothing] /\ now' = now /\ memory[a].status \in {"draft", "withdrawn"}
          /\ memRead' = {p \in memRead : p[1] # a} /\ memGone' = {p \in memGone : p[1] # a}
      BY <1>4 DEF MemoryDelete
    <2>2. \A b \in Announcement :
             Item(memory', b) = IF b = a THEN [status |-> "absent", to |-> {}, due |-> 0] ELSE Shape(memory)[b]
      BY <1>1, <2>1 DEF Item, Shape, Nothing
    <2>3. Shape(memory)' = [Shape(memory) EXCEPT ![a] = [status |-> "absent", to |-> {}, due |-> 0]]
      BY <2>2 DEF Shape, Item
    <2> QED
      BY <1>2, <2>1, <2>3 DEF Remembered!Remove, Remembered!Absent
  <1> QED
    BY <1>3, <1>4

\* Reading publishes what is due, and marks what applies.
LEMMA MemoryReads ==
  ASSUME BoardInv, NEW a \in Announcement, NEW r \in Reader, MemoryRead(a, r)
  PROVE  Remembered!Promote \/ Remembered!Marks(r, {a})
  <1>1. /\ memory' = Promoted /\ UNCHANGED <<memGone, now>>
        /\ memRead' = IF Applies(a, r) /\ <<a, r>> \notin memGone THEN memRead \union {<<a, r>>} ELSE memRead
    BY DEF MemoryRead
  <1>2. Shape(memory)' = Remembered!Published(MemoryDue) /\ MemoryDue \in SUBSET Remembered!Due
    BY <1>1, PromotedIs DEF Shape, Item
  <1>3. CASE Applies(a, r) /\ <<a, r>> \notin memGone
    <2>1. memRead' = memRead \union {<<b, r>> : b \in {a}}
      BY <1>1, <1>3
    <2>2. Shape(memory)'[a].status = "published" /\ r \in Shape(memory)[a].to
      BY <1>1, <1>3 DEF Shape, Applies
    <2>3. /\ {a} # {}
          /\ \A b \in {a} : Shape(memory)'[b].status \in {"published", "withdrawn"} /\ r \in Shape(memory)[b].to
      BY <2>2
    <2> QED
      BY <1>1, <1>2, <2>1, <2>3 DEF Remembered!Marks
  <1>4. CASE ~(Applies(a, r) /\ <<a, r>> \notin memGone)
    BY <1>1, <1>2, <1>4 DEF Remembered!Promote
  <1> QED
    BY <1>3, <1>4

LEMMA MemoryDismisses ==
  ASSUME NEW r \in Reader, NEW A \in SUBSET Announcement, MemoryDismiss(A, r)
  PROVE  Remembered!Marks(r, A)
  <1>1. /\ A # {} /\ \A a \in A : memory[a].status = "published" /\ r \in memory[a].to
        /\ memGone' = memGone \union {<<a, r>> : a \in A} /\ memRead' = memRead \union {<<a, r>> : a \in A}
        /\ memory' = memory /\ now' = now
    BY DEF MemoryDismiss
  <1>2. Shape(memory)' = Remembered!Published({}) /\ {} \in SUBSET Remembered!Due
    BY <1>1, NothingPublished DEF Shape
  <1>3. \A a \in A : Shape(memory)'[a].status \in {"published", "withdrawn"} /\ r \in Shape(memory)[a].to
    BY <1>1 DEF Shape
  <1> QED
    BY <1>1, <1>2, <1>3 DEF Remembered!Marks

LEMMA MemorySteps == BoardInv /\ [StoreNext \/ MemoryNext]_announcementVars => [Remembered!Next]_MemoryView
  <1> SUFFICES ASSUME BoardInv, [StoreNext \/ MemoryNext]_announcementVars PROVE [Remembered!Next]_MemoryView
    OBVIOUS
  <1>1. CASE BoardTime
    BY <1>1, TimeOfBoth DEF Remembered!Next
  <1>2. CASE MemoryPromotes
    <2>1. memory' = Promoted /\ UNCHANGED <<memRead, memGone, now>>
      BY <1>2 DEF MemoryPromotes
    <2>2. Shape(memory)' = Remembered!Published(MemoryDue) /\ MemoryDue \in SUBSET Remembered!Due
      BY <2>1, PromotedIs DEF Shape, Item
    <2> QED
      BY <2>1, <2>2 DEF Remembered!Promote, Remembered!Next
  <1>3. ASSUME NEW a \in Announcement, NEW to \in Audience, NEW due \in 0..MaxNow, NEW push \in BOOLEAN,
               MemoryCreate(a, to, due, push) \/ MemoryUpdate(a, to, due, push)
        PROVE  [Remembered!Next]_MemoryView
    BY <1>3, MemoryWrites DEF Remembered!Next
  <1>4. ASSUME NEW a \in Announcement, NEW push \in BOOLEAN, MemoryPublish(a, push) PROVE [Remembered!Next]_MemoryView
    BY <1>4, MemoryPublishes DEF Remembered!Next
  <1>5. ASSUME NEW a \in Announcement, MemoryWithdraw(a) \/ MemoryDelete(a) PROVE [Remembered!Next]_MemoryView
    BY <1>5, MemoryEnds DEF Remembered!Next
  <1>6. ASSUME NEW a \in Announcement, NEW r \in Reader, MemoryRead(a, r) PROVE [Remembered!Next]_MemoryView
    BY <1>6, MemoryReads DEF Remembered!Next
  <1>7. ASSUME NEW r \in Reader, NEW A \in SUBSET Announcement, MemoryDismiss(A, r) PROVE [Remembered!Next]_MemoryView
    BY <1>7, MemoryDismisses DEF Remembered!Next
  <1>8. CASE UNCHANGED memoryVars /\ now' = now
    BY <1>8, MemoryRests DEF memoryVars
  <1>9. CASE StoreNext
    BY <1>1, <1>8, <1>9 DEF StoreNext, memoryVars, promoteScheduledAnnouncements, CreateAnnouncement, UpdateAnnouncement,
       PublishAnnouncement, WithdrawAnnouncement, DeleteAnnouncement, MarkAnnouncementRead, CountEligible, DismissAnnouncements
  <1>10. CASE UNCHANGED announcementVars
    BY <1>8, <1>10 DEF announcementVars, memoryVars
  <1> QED
    BY <1>1, <1>2, <1>3, <1>4, <1>5, <1>6, <1>7, <1>8, <1>9, <1>10 DEF MemoryNext

LEMMA BoardStarts == AnnouncementsInit => Stored!Init /\ Remembered!Init
  BY DEF AnnouncementsInit, Stored!Init, Remembered!Init, Stored!Absent, Remembered!Absent, Shape, PairsOf, Nothing

\* Both stores implement the board, though a dismissal is two statements and
\* several servers publish what is due; a reader gets a push once, and the
\* audience heard last of what is shown (BoardKept).
THEOREM BoardKeepsPromise == AnnouncementsSpec => BoardKept
  <1>1. BoardInv => PushedOnce /\ AudienceKnows
    <2>1. BoardInv => PushedOnce
      <3> SUFFICES ASSUME BoardInv, NEW a \in Announcement, NEW r \in Reader PROVE pushed[a][r] <= 1
        BY DEF PushedOnce
      <3>1. pushed[a][r] \in {0, 1}
        BY DEF BoardInv, NotHeardYet
      <3> QED
        BY <3>1
    <2> QED
      BY <2>1 DEF BoardInv
  <1>2. AnnouncementsSpec => StoreKeepsPromise
    <2>1. AnnouncementsSpec => [][Stored!Next]_StoreView
      BY BoardHolds, StoreSteps, PTL DEF AnnouncementsSpec
    <2>2. AnnouncementsSpec => Stored!Init
      BY BoardStarts DEF AnnouncementsSpec
    <2> QED
      BY <2>1, <2>2 DEF StoreKeepsPromise, Stored!Spec, StoreView, SeenPairs, GonePairs
  <1>3. AnnouncementsSpec => MemoryKeepsPromise
    <2>1. AnnouncementsSpec => [][Remembered!Next]_MemoryView
      BY BoardHolds, MemorySteps, PTL DEF AnnouncementsSpec
    <2>2. AnnouncementsSpec => Remembered!Init
      BY BoardStarts DEF AnnouncementsSpec
    <2> QED
      BY <2>1, <2>2 DEF MemoryKeepsPromise, Remembered!Spec, MemoryView
  <1>4. AnnouncementsSpec => [](PushedOnce /\ AudienceKnows)
    BY <1>1, BoardHolds, PTL
  <1> QED
    BY <1>2, <1>3, <1>4 DEF BoardKept
=============================================================================
