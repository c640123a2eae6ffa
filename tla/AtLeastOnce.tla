---------------------------- MODULE AtLeastOnce ----------------------------
(***************************************************************************)
(* What the outbox promises the transactions that write to it: a submitted *)
(* job is performed one or more times, is acknowledged only after it has   *)
(* been performed, and an acknowledged or refused job stays so.            *)
(***************************************************************************)
CONSTANT Job

VARIABLES submitted, done, acknowledged, refused

jobVars == <<submitted, done, acknowledged, refused>>

JobInit ==
    /\ submitted = {}
    /\ done = {}
    /\ acknowledged = {}
    /\ refused = {}

Open == submitted \ (acknowledged \union refused)

Submit(j) ==
    /\ j \notin submitted
    /\ submitted' = submitted \union {j}
    /\ UNCHANGED <<done, acknowledged, refused>>

Do(j) ==
    /\ j \in Open
    /\ done' = done \union {j}
    /\ UNCHANGED <<submitted, acknowledged, refused>>

Acknowledge(j) ==
    /\ j \in Open \intersect done
    /\ acknowledged' = acknowledged \union {j}
    /\ UNCHANGED <<submitted, done, refused>>

Refuse(j) ==
    /\ j \in Open
    /\ refused' = refused \union {j}
    /\ UNCHANGED <<submitted, done, acknowledged>>

JobNext == \E j \in Job : Submit(j) \/ Do(j) \/ Acknowledge(j) \/ Refuse(j)

JobSpec == JobInit /\ [][JobNext]_jobVars
===========================================================================
