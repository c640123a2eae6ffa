---------------------------- MODULE AccessRecorder ----------------------------
(***************************************************************************)
(* Records of logins and registrations: a bounded queue, two workers that  *)
(* try each record three times, and the transaction that writes the record *)
(* and the profile of the user.  Nothing of it is durable before that.     *)
(***************************************************************************)
EXTENDS Naturals, FiniteSets, Sequences

CONSTANTS
    Login,     \* 1..n, records in the order they occurred, all of one user
    Worker,    \* two in the code
    Capacity   \* of the queue: 1000 in the code

ASSUME RecorderAssumption == Login \subseteq Nat \ {0} /\ IsFiniteSet(Login) /\ Capacity \in Nat

VARIABLES
    producer,   \* what became of each record outside of the queue
    queue,
    worker,     \* what each worker holds and its attempt
    pendingCount,    \* the counter of the metrics
    log,        \* im_user_access_logs
    lastLogin,  \* im_user_access_profiles: the record the profile shows, 0 if none
    stopping

recorderVars == <<producer, queue, worker, pendingCount, log, lastLogin, stopping>>

NoWork == [step |-> "idle", login |-> 0, attempt |-> 0]

RecorderInit ==
    /\ producer = [e \in Login |-> "new"] /\ queue = <<>>
    /\ worker = [w \in Worker |-> NoWork]
    /\ pendingCount = 0 /\ log = {} /\ lastLogin = 0 /\ stopping = FALSE

\* The request counts its record before it tries the queue.
EnqueueCount(e) ==
    /\ producer[e] = "new"
    /\ producer' = [producer EXCEPT ![e] = "counted"] /\ pendingCount' = pendingCount + 1
    /\ UNCHANGED <<queue, worker, log, lastLogin, stopping>>

\* A plausible slip: a record that found no room stays counted.
CountOfDropped == pendingCount

CountWithout == pendingCount - 1

EnqueuePut(e) ==
    /\ producer[e] = "counted"
    /\ IF Len(queue) < Capacity
       THEN /\ queue' = Append(queue, e) /\ UNCHANGED pendingCount
            /\ producer' = [producer EXCEPT ![e] = "queued"]
       ELSE /\ pendingCount' = CountWithout /\ UNCHANGED queue
            /\ producer' = [producer EXCEPT ![e] = "dropped"]
    /\ UNCHANGED <<worker, log, lastLogin, stopping>>

Take(w) ==
    /\ worker[w].step = "idle" /\ queue # <<>> /\ queue' = Tail(queue)
    /\ worker' = [worker EXCEPT ![w] = [step |-> "try", login |-> Head(queue), attempt |-> 1]]
    /\ UNCHANGED <<producer, pendingCount, log, lastLogin, stopping>>

\* A retry that comes late does not move the profile back.
ProfileAfter(e) == IF lastLogin < e THEN e ELSE lastLogin

\* The transaction; its answer may be lost, and a record that is there is kept.
\* A stop does not undo a call that is under way.
RecordUserAccess(w, heard) ==
    /\ worker[w].step = "try"
    /\ LET e == worker[w].login IN
         /\ log' = log \cup {e}
         /\ lastLogin' = IF e \in log THEN lastLogin ELSE ProfileAfter(e)
    /\ worker' = [worker EXCEPT ![w].step = IF heard THEN "written" ELSE "failed"]
    /\ UNCHANGED <<producer, queue, pendingCount, stopping>>

RecordFails(w) ==
    /\ worker[w].step = "try" /\ ~stopping
    /\ worker' = [worker EXCEPT ![w].step = "failed"]
    /\ UNCHANGED <<producer, queue, pendingCount, log, lastLogin, stopping>>

NextAttempt(w) == worker[w].attempt + 1

\* Waits longer before each attempt; the third is the last.
Retry(w) ==
    /\ worker[w].step = "failed"
    /\ worker' = IF worker[w].attempt < 3
         THEN [worker EXCEPT ![w].step = "try", ![w].attempt = NextAttempt(w)]
         ELSE [worker EXCEPT ![w].step = "dropped"]
    /\ UNCHANGED <<producer, queue, pendingCount, log, lastLogin, stopping>>

\* A stop ends the attempts.
GiveUp(w) ==
    /\ stopping /\ worker[w].step = "try"
    /\ worker' = [worker EXCEPT ![w].step = "dropped"]
    /\ UNCHANGED <<producer, queue, pendingCount, log, lastLogin, stopping>>

Finish(w) ==
    /\ worker[w].step \in {"written", "dropped"}
    /\ producer' = [producer EXCEPT ![worker[w].login] = worker[w].step]
    /\ worker' = [worker EXCEPT ![w] = NoWork] /\ pendingCount' = pendingCount - 1
    /\ UNCHANGED <<queue, log, lastLogin, stopping>>

StopRecorder ==
    /\ ~stopping /\ stopping' = TRUE
    /\ UNCHANGED <<producer, queue, worker, pendingCount, log, lastLogin>>

\* A worker that is idle may still take a record: both cases of its select are ready.
Run(w) ==
    /\ stopping /\ worker[w].step = "idle"
    /\ worker' = [worker EXCEPT ![w].step = "gone"]
    /\ UNCHANGED <<producer, queue, pendingCount, log, lastLogin, stopping>>

RecorderStep(w) ==
    \/ Take(w) \/ (\E heard \in BOOLEAN : RecordUserAccess(w, heard)) \/ RecordFails(w)
    \/ Retry(w) \/ GiveUp(w) \/ Finish(w) \/ Run(w)

RecorderNext ==
    \/ \E e \in Login : EnqueueCount(e) \/ EnqueuePut(e)
    \/ \E w \in Worker : RecorderStep(w)
    \/ StopRecorder

\* Requests and workers go on; nothing makes an attempt succeed.
RecorderFairness ==
    /\ \A e \in Login : WF_recorderVars(EnqueuePut(e))
    /\ \A w \in Worker : WF_recorderVars(RecorderStep(w))

RecorderSpec == RecorderInit /\ [][RecorderNext]_recorderVars /\ RecorderFairness

(***************************************************************************)
(* Properties.                                                             *)
(***************************************************************************)
Settled == {"new", "written", "dropped"}

\* The metric accounts for every record that is neither written nor dropped,
\* in the queue, at a worker or abandoned in either by a stop.
PendingCounts == pendingCount =
    Cardinality({e \in Login : producer[e] \in {"counted", "queued"}})

\* The profile shows the newest login that was recorded, in whatever order
\* retries wrote them.
LastLoginIsNewest ==
    IF log = {} THEN lastLogin = 0 ELSE lastLogin \in log /\ \A e \in log : e <= lastLogin

\* While the server runs, every record is written or dropped in the end.
EventuallySettled == <>[](stopping \/ \A e \in Login : producer[e] \in Settled)

\* Every record is accounted for until it is settled, and the profile shows the
\* newest one that was written.
RecorderKept == PendingCounts /\ LastLoginIsNewest
=============================================================================
