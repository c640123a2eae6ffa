---------------------------- MODULE ChannelSync ----------------------------
(***************************************************************************)
(* How channel policy reaches WuKongIM.  PostgreSQL holds the truth; every *)
(* transaction that changes a channel inserts a channel.reconcile row into *)
(* the outbox.  The outbox worker and the periodic reconciler of a server  *)
(* both bring a channel up to date with syncLatestChannelSnapshot: take    *)
(* the channel's lock (shared by the two through their Client), read the   *)
(* channel row, then the members, then the access lists, and write the     *)
(* three parts to WuKongIM with three calls, each of which may fail.       *)
(*                                                                         *)
(* Contents are abstracted to versions: a change increments the version of *)
(* each part it touches.  The worker's rows, leases and outcomes are those *)
(* of WukongOutbox, with Execute refined into the steps of the sync.  The  *)
(* reconciler picks channels in any order here; ReconcileCycle models how  *)
(* its cursor reaches each of them.                                        *)
(***************************************************************************)
EXTENDS WukongOutbox

CONSTANTS
    ChangeSets, \* the sets of parts that one transaction changes
    MaxSilent,  \* bound: changes that insert no outbox row
    AllowLate   \* a call that timed out may still reach WuKongIM afterwards

Channel == Op

Part == {"channel", "members", "allow", "deny"}

ASSUME ChannelAssumption ==
    /\ ChangeSets \subseteq SUBSET Part
    /\ MaxSilent \in Nat
    /\ AllowLate \in BOOLEAN

Role == {"outbox", "reconciler"}
Process == Worker \X Role

VARIABLES
    db,      \* db[c][x]: version of part x of channel c in PostgreSQL
    wk,      \* wk[c][x]: version WuKongIM has
    stage,   \* stage[p]: where process p is in syncLatestChannelSnapshot
    chan,    \* chan[p]: the channel it is syncing
    got,     \* got[p][x]: version of part x it has read
    late,    \* calls given up by their client, still on their way
    silent   \* changes made without an outbox row so far

syncVars == <<stage, chan, got>>
channelVars == <<outboxVars, db, wk, syncVars, late, silent>>

Stage == {"idle", "readChannel", "readMembers", "readLists",
          "upsert", "setAllow", "setDeny"}

\* What each stage reads from the database, or writes to WuKongIM.
Reads(s) == CASE s = "readChannel" -> {"channel"}
              [] s = "readMembers" -> {"members"}
              [] s = "readLists"   -> {"allow", "deny"}
              [] OTHER             -> {}
Writes(s) == CASE s = "upsert"   -> {"channel", "members"}
               [] s = "setAllow" -> {"allow"}
               [] s = "setDeny"  -> {"deny"}
               [] OTHER          -> {}
After(s) == CASE s = "readChannel" -> "readMembers"
              [] s = "readMembers" -> "readLists"
              [] s = "readLists"   -> "upsert"
              [] s = "upsert"      -> "setAllow"
              [] s = "setAllow"    -> "setDeny"
              [] OTHER             -> "idle"

Unchanged == [x \in Part |-> 0]

ChannelInit ==
    /\ OutboxInit
    /\ db = [c \in Channel |-> Unchanged]
    /\ wk = [c \in Channel |-> Unchanged]
    /\ stage = [p \in Process |-> "idle"]
    /\ chan = [p \in Process |-> NoOp]
    /\ got = [p \in Process |-> Unchanged]
    /\ late = {}
    /\ silent = 0
---------------------------------------------------------------------------
Bump(c, S) == db' = [db EXCEPT ![c] = [x \in Part |-> IF x \in S THEN @[x] + 1 ELSE @[x]]]

\* A transaction that changes a channel and inserts its channel.reconcile row;
\* the key ends in the nanosecond, so the row is always a new one.
Change(c) ==
    /\ \E S \in ChangeSets : Bump(c, S)
    /\ Enqueue(c)
    /\ UNCHANGED <<wk, syncVars, late, silent>>

\* A change nobody tells the outbox of: an account is deleted from all its
\* conversations at once, a membership with expires_at runs out.
SilentChange(c) ==
    /\ silent < MaxSilent
    /\ silent' = silent + 1
    /\ Bump(c, {"members"})
    /\ UNCHANGED <<outboxVars, wk, syncVars, late>>
---------------------------------------------------------------------------
Syncing(p, c) == stage[p] # "idle" /\ chan[p] = c

\* The lock is one mutex in the Client of a server.
Locked(w, c) == \E r \in Role : Syncing(<<w, r>>, c)

Start(p, c, s) ==
    /\ stage[p] = "idle"
    /\ stage' = [stage EXCEPT ![p] = s]
    /\ chan' = [chan EXCEPT ![p] = c]

\* A plausible slip: the sync starts without the lock.
BeginUnlocked(p, c) == Start(p, c, "readChannel") /\ UNCHANGED got

\* Take the lock of a free channel.
Begin(p, c) ==
    /\ ~Locked(p[1], c)
    /\ Start(p, c, "readChannel")
    /\ UNCHANGED got

\* The worker turns to the channel of its current row.
BeginRow(w) ==
    /\ outcome[w] = "none"
    /\ \E i \in Row : IsCurrent(w, i) /\ Begin(<<w, "outbox">>, op[i])
    /\ UNCHANGED <<outboxVars, db, wk, late, silent>>

\* The reconciler's page loop turns to a channel.
BeginReconcile(w, c) ==
    /\ Begin(<<w, "reconciler">>, c)
    /\ UNCHANGED <<outboxVars, db, wk, late, silent>>

\* One of the queries of LoadWukongChannelSnapshot; they share no transaction.
Load(p) ==
    /\ Reads(stage[p]) # {}
    /\ got' = [got EXCEPT ![p] = [x \in Part |->
                  IF x \in Reads(stage[p]) THEN db[chan[p]][x] ELSE @[x]]]
    /\ stage' = [stage EXCEPT ![p] = After(@)]
    /\ UNCHANGED <<outboxVars, db, wk, chan, late, silent>>

\* WuKongIM with the parts S of channel c set to the versions v.
Applied(c, S, v) ==
    [wk EXCEPT ![c] = [x \in Part |-> IF x \in S THEN v[x] ELSE @[x]]]

Land(p) == wk' = Applied(chan[p], Writes(stage[p]), got[p])

\* The return of syncLatestChannelSnapshot releases the lock and, for the
\* worker, leaves a result to record.
Return(p, result) ==
    /\ stage' = [stage EXCEPT ![p] = "idle"]
    /\ chan' = [chan EXCEPT ![p] = NoOp]
    /\ got' = [got EXCEPT ![p] = Unchanged]
    /\ IF p[2] = "outbox"
       THEN outcome' = [outcome EXCEPT ![p[1]] = result]
       ELSE UNCHANGED outcome

\* A call succeeds and another one follows.
Apply(p) ==
    /\ stage[p] \in {"upsert", "setAllow"}
    /\ Land(p)
    /\ stage' = [stage EXCEPT ![p] = After(@)]
    /\ UNCHANGED <<outboxVars, db, chan, got, late, silent>>

\* A plausible slip: the snapshot is applied without its denylist.
ApplyLastSkipped(p) ==
    /\ stage[p] = "setDeny"
    /\ Return(p, "ok")
    /\ performed' = performed \union {i \in Row : p[2] = "outbox" /\ IsCurrent(p[1], i)}
    /\ UNCHANGED <<op, status, leased, backoff, batch, faults, db, wk, late, silent>>

\* The last call succeeds.
ApplyLast(p) ==
    /\ stage[p] = "setDeny"
    /\ Land(p)
    /\ Return(p, "ok")
    /\ performed' = performed \union {i \in Row : p[2] = "outbox" /\ IsCurrent(p[1], i)}
    /\ UNCHANGED <<op, status, leased, backoff, batch, faults, db, late, silent>>

\* A query or a call fails.  A failed call may have landed, or land later;
\* only a 4xx is "rejected".
SyncFailsAs(p, results) ==
    /\ stage[p] # "idle"
    /\ faults < MaxFault
    /\ faults' = faults + 1
    /\ \E r \in results :
        /\ Return(p, r)
        /\ \/ UNCHANGED <<wk, late>>
           \/ r = "retry" /\ Land(p) /\ UNCHANGED late
           \/ /\ AllowLate /\ r = "retry" /\ Writes(stage[p]) # {}
              /\ late' = late \union {<<chan[p], Writes(stage[p]), got[p]>>}
              /\ UNCHANGED wk
    /\ UNCHANGED <<op, status, leased, backoff, batch, performed, db, silent>>

\* A plausible slip: the error of a call is dropped.
SyncErrorDropped(p) == SyncFailsAs(p, {"ok"})

SyncFails(p) == SyncFailsAs(p, {"retry", "rejected"})

\* A late call arrives.
LateArrival ==
    \E l \in late :
        /\ wk' = Applied(l[1], l[2], l[3])
        /\ late' = late \ {l}
        /\ UNCHANGED <<outboxVars, db, syncVars, silent>>
---------------------------------------------------------------------------
OutboxOnly == UNCHANGED <<db, wk, syncVars, late, silent>>

Claim(w) == ClaimWukongOutbox(w) /\ OutboxOnly
Report(w) == Record(w) /\ OutboxOnly
\* The UPDATE that records an outcome fails: the batch is given up.
ReportLost(w) == outcome[w] # "none" /\ Abandon(w) /\ OutboxOnly
Expire(i) == LeaseExpires(i) /\ OutboxOnly
Elapse(i) == BackoffElapses(i) /\ OutboxOnly

\* A server stops and starts again: both its processes lose their place, a
\* call they had under way may have landed.
Crash(w) ==
    /\ faults < MaxFault
    /\ faults' = faults + 1
    /\ batch' = [batch EXCEPT ![w] = {}]
    /\ outcome' = [outcome EXCEPT ![w] = "none"]
    /\ stage' = [p \in Process |-> IF p[1] = w THEN "idle" ELSE stage[p]]
    /\ chan' = [p \in Process |-> IF p[1] = w THEN NoOp ELSE chan[p]]
    /\ got' = [p \in Process |-> IF p[1] = w THEN Unchanged ELSE got[p]]
    /\ \/ UNCHANGED wk
       \/ \E r \in Role : stage[<<w, r>>] # "idle" /\ Land(<<w, r>>)
    /\ UNCHANGED <<op, status, leased, backoff, performed, db, late, silent>>

ChannelNext ==
    \/ \E c \in Channel : Change(c) \/ SilentChange(c)
    \/ \E w \in Worker : \/ Claim(w) \/ BeginRow(w) \/ Report(w) \/ ReportLost(w)
                         \/ Crash(w)
                         \/ \E c \in Channel : BeginReconcile(w, c)
    \/ \E p \in Process : Load(p) \/ Apply(p) \/ ApplyLast(p) \/ SyncFails(p)
    \/ \E i \in Row : Expire(i) \/ Elapse(i)
    \/ LateArrival

ChannelSpec == ChannelInit /\ [][ChannelNext]_channelVars

\* The two loops of a server run on timers for as long as it is up; queries
\* and calls have timeouts; Go's mutex does not starve a waiter; the cursor
\* of the reconciler comes to every channel.
Fairness ==
    /\ \A w \in Worker : /\ WF_channelVars(Claim(w)) /\ SF_channelVars(BeginRow(w))
                         /\ WF_channelVars(Report(w))
                         /\ \A c \in Channel : SF_channelVars(BeginReconcile(w, c))
    /\ \A p \in Process : WF_channelVars(Load(p) \/ Apply(p) \/ ApplyLast(p))
    /\ \A i \in Row : WF_channelVars(Expire(i)) /\ WF_channelVars(Elapse(i))
    /\ WF_channelVars(LateArrival)

FairChannelSpec == ChannelSpec /\ Fairness
---------------------------------------------------------------------------
Versions == [Part -> Nat]

ChannelTypeOK ==
    /\ OutboxTypeOK
    /\ db \in [Channel -> Versions]
    /\ wk \in [Channel -> Versions]
    /\ stage \in [Process -> Stage]
    /\ chan \in [Process -> Channel \union {NoOp}]
    /\ got \in [Process -> Versions]
    /\ late \subseteq Channel \X (SUBSET Part) \X Versions
    /\ silent \in Nat

\* Nothing about channel c is outstanding: every row for it is completed and
\* nobody is syncing it.
Quiet(c) ==
    /\ \A i \in Row : op[i] = c => status[i] = "completed"
    /\ \A p \in Process : ~Syncing(p, c)

\* One server: when nothing is outstanding for a channel, WuKongIM enforces
\* exactly what the database says, although snapshots are read in several
\* queries, writes come in three calls that may fail, change and sync
\* interleave freely, and the reconciler competes with the worker.
QuietInSync == \A c \in Channel : Quiet(c) => wk[c] = db[c]

\* One server: a sync never overwrites a part with an older version of it
\* (the comment of syncLatestChannelSnapshot).
NeverOlder ==
    [][\A c \in Channel, x \in Part : wk'[c][x] >= wk[c][x]]_channelVars

\* Whatever was lost, refused, delivered late or changed silently, once the
\* channel stops changing WuKongIM agrees with the database for good.
EventuallyInSync == <>[](wk = db)

\* The values of all variables, and agreement of what is quiet.
ChannelSafety == ChannelTypeOK /\ QuietInSync
===========================================================================
