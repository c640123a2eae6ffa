------------------------- MODULE UserAccessProofs -------------------------
(***************************************************************************)
(* Proofs about the access lists, for every number of users, rows, faults  *)
(* and pages.  Performing a row by several calls is one step of the outbox *)
(* and stutters, so what WukongOutboxProofs shows of the table holds here. *)
(* The agreement of the two systems needs one worker: then, as long as no  *)
(* call fails, rows take effect in the order of the changes, so the last   *)
(* row about an entry decides, in PostgreSQL as in WuKongIM.               *)
(***************************************************************************)
EXTENDS UserAccess, WukongOutboxProofs, FiniteSetTheorems, SequenceTheorems

\* The entries of WuKongIM's lists: who is on which list of whom.
Place == [list : {"allow", "deny"}, at : User, who : User]
           \union [list : {"system"}, at : {0}, who : User]

InDb(e) ==
    \/ e.list = "allow" /\ <<e.at, e.who>> \in friends
    \/ e.list = "deny" /\ <<e.at, e.who>> \in blocks
    \/ e.list = "system" /\ e.who \in systems

InIm(e) ==
    \/ e.list = "allow" /\ e.who \in allow[e.at]
    \/ e.list = "deny" /\ e.who \in deny[e.at]
    \/ e.list = "system" /\ e.who \in sysuids

\* The entries that a row decides, and whether it adds them.
Settles(o, e) ==
    \/ /\ e.list = "allow" /\ o.kind \in {"allow", "remove", "block"}
       /\ <<e.at, e.who>> \in Both(o.user, o.friend)
    \/ e.list = "deny" /\ o.kind \in {"block", "unblock"} /\ e.at = o.user /\ e.who = o.friend
    \/ e.list = "system" /\ o.kind \in {"system_add", "system_remove"} /\ e.who = o.user

Gives(o, e) == o.kind \in {"allow", "system_add"} \/ (o.kind = "block" /\ e.list = "deny")

EntryOf(c) == [list |-> c.list, at |-> c.at, who |-> c.who]
IsAt(c, e) == c.list = e.list /\ c.at = e.at /\ c.who = e.who
---------------------------------------------------------------------------
\* A row makes one to three calls, one for each entry that it decides.
LEMMA CallsAre ==
    ASSUME NEW o \in AccessOp
    PROVE  /\ o.kind = "allow" => CallsOf(o) = <<Call("allow", TRUE, o.user, o.friend),
                                                 Call("allow", TRUE, o.friend, o.user)>>
           /\ o.kind = "remove" => CallsOf(o) = <<Call("allow", FALSE, o.user, o.friend),
                                                  Call("allow", FALSE, o.friend, o.user)>>
           /\ o.kind = "block" => CallsOf(o) = <<Call("deny", TRUE, o.user, o.friend),
                                                 Call("allow", FALSE, o.user, o.friend),
                                                 Call("allow", FALSE, o.friend, o.user)>>
           /\ o.kind = "unblock" => CallsOf(o) = <<Call("deny", FALSE, o.user, o.friend)>>
           /\ o.kind = "system_add" => CallsOf(o) = <<Call("system", TRUE, 0, o.user)>>
           /\ o.kind = "system_remove" => CallsOf(o) = <<Call("system", FALSE, 0, o.user)>>
BY DEF CallsOf

LEMMA CallsDecide ==
    ASSUME NEW o \in AccessOp
    PROVE  /\ Len(CallsOf(o)) \in 1..3
           /\ \A k \in 1..Len(CallsOf(o)) : EntryOf(CallsOf(o)[k]) \in Place
           /\ \A e \in Place :
                Settles(o, e) <=> \E k \in 1..Len(CallsOf(o)) : IsAt(CallsOf(o)[k], e)
           /\ \A e \in Place, k \in 1..Len(CallsOf(o)) :
                IsAt(CallsOf(o)[k], e) => /\ Gives(o, e) => CallsOf(o)[k].add = TRUE
                                          /\ ~Gives(o, e) => CallsOf(o)[k].add = FALSE
<1> USE DEF IsAt, EntryOf
<1>1. CASE o.kind = "allow"
  <2>1. CallsOf(o) = <<Call("allow", TRUE, o.user, o.friend),
                     Call("allow", TRUE, o.friend, o.user)>>
    BY <1>1, CallsAre
  <2>2. Len(CallsOf(o)) = 2 /\ 1..2 = {1, 2}
    BY <2>1
  <2>3. 
        /\ CallsOf(o)[1] = Call("allow", TRUE, o.user, o.friend)
        /\ CallsOf(o)[2] = Call("allow", TRUE, o.friend, o.user)
    BY <2>1
  <2>4. \A i \in 1..2 : EntryOf(CallsOf(o)[i]) \in Place
    BY <1>1, <2>2, <2>3 DEF AccessOp, Place, Call
  <2>5. \A e \in Place : Settles(o, e) <=> \E i \in 1..2 : IsAt(CallsOf(o)[i], e)
    BY <1>1, <2>2, <2>3 DEF AccessOp, Place, Call, Both, Settles
  <2>6. \A e \in Place, i \in 1..2 :
          IsAt(CallsOf(o)[i], e) => /\ Gives(o, e) => CallsOf(o)[i].add = TRUE
                                    /\ ~Gives(o, e) => CallsOf(o)[i].add = FALSE
    BY <1>1, <2>2, <2>3 DEF Call, Gives
  <2> QED BY <2>2, <2>4, <2>5, <2>6
<1>2. CASE o.kind = "remove"
  <2>1. CallsOf(o) = <<Call("allow", FALSE, o.user, o.friend),
                     Call("allow", FALSE, o.friend, o.user)>>
    BY <1>2, CallsAre
  <2>2. Len(CallsOf(o)) = 2 /\ 1..2 = {1, 2}
    BY <2>1
  <2>3. 
        /\ CallsOf(o)[1] = Call("allow", FALSE, o.user, o.friend)
        /\ CallsOf(o)[2] = Call("allow", FALSE, o.friend, o.user)
    BY <2>1
  <2>4. \A i \in 1..2 : EntryOf(CallsOf(o)[i]) \in Place
    BY <1>2, <2>2, <2>3 DEF AccessOp, Place, Call
  <2>5. \A e \in Place : Settles(o, e) <=> \E i \in 1..2 : IsAt(CallsOf(o)[i], e)
    BY <1>2, <2>2, <2>3 DEF AccessOp, Place, Call, Both, Settles
  <2>6. \A e \in Place, i \in 1..2 :
          IsAt(CallsOf(o)[i], e) => /\ Gives(o, e) => CallsOf(o)[i].add = TRUE
                                    /\ ~Gives(o, e) => CallsOf(o)[i].add = FALSE
    BY <1>2, <2>2, <2>3 DEF Call, Gives
  <2> QED BY <2>2, <2>4, <2>5, <2>6
<1>3. CASE o.kind = "block"
  <2>1. CallsOf(o) = <<Call("deny", TRUE, o.user, o.friend),
                     Call("allow", FALSE, o.user, o.friend),
                     Call("allow", FALSE, o.friend, o.user)>>
    BY <1>3, CallsAre
  <2>2. Len(CallsOf(o)) = 3 /\ 1..3 = {1, 2, 3}
    BY <2>1
  <2>3. 
        /\ CallsOf(o)[1] = Call("deny", TRUE, o.user, o.friend)
        /\ CallsOf(o)[2] = Call("allow", FALSE, o.user, o.friend)
        /\ CallsOf(o)[3] = Call("allow", FALSE, o.friend, o.user)
    BY <2>1
  <2>4. \A i \in 1..3 : EntryOf(CallsOf(o)[i]) \in Place
    BY <1>3, <2>2, <2>3 DEF AccessOp, Place, Call
  <2>5. \A e \in Place : Settles(o, e) <=> \E i \in 1..3 : IsAt(CallsOf(o)[i], e)
    BY <1>3, <2>2, <2>3 DEF AccessOp, Place, Call, Both, Settles
  <2>6. \A e \in Place, i \in 1..3 :
          IsAt(CallsOf(o)[i], e) => /\ Gives(o, e) => CallsOf(o)[i].add = TRUE
                                    /\ ~Gives(o, e) => CallsOf(o)[i].add = FALSE
    BY <1>3, <2>2, <2>3 DEF Call, Gives
  <2> QED BY <2>2, <2>4, <2>5, <2>6
<1>4. CASE o.kind = "unblock"
  <2>1. CallsOf(o) = <<Call("deny", FALSE, o.user, o.friend)>>
    BY <1>4, CallsAre
  <2>2. Len(CallsOf(o)) = 1 /\ 1..1 = {1}
    BY <2>1
  <2>3. CallsOf(o)[1] = Call("deny", FALSE, o.user, o.friend)
    BY <2>1
  <2>4. \A i \in 1..1 : EntryOf(CallsOf(o)[i]) \in Place
    BY <1>4, <2>2, <2>3 DEF AccessOp, Place, Call
  <2>5. \A e \in Place : Settles(o, e) <=> \E i \in 1..1 : IsAt(CallsOf(o)[i], e)
    BY <1>4, <2>2, <2>3 DEF AccessOp, Place, Call, Both, Settles
  <2>6. \A e \in Place, i \in 1..1 :
          IsAt(CallsOf(o)[i], e) => /\ Gives(o, e) => CallsOf(o)[i].add = TRUE
                                    /\ ~Gives(o, e) => CallsOf(o)[i].add = FALSE
    BY <1>4, <2>2, <2>3 DEF Call, Gives
  <2> QED BY <2>2, <2>4, <2>5, <2>6
<1>5. CASE o.kind = "system_add"
  <2>1. CallsOf(o) = <<Call("system", TRUE, 0, o.user)>>
    BY <1>5, CallsAre
  <2>2. Len(CallsOf(o)) = 1 /\ 1..1 = {1}
    BY <2>1
  <2>3. CallsOf(o)[1] = Call("system", TRUE, 0, o.user)
    BY <2>1
  <2>4. \A i \in 1..1 : EntryOf(CallsOf(o)[i]) \in Place
    BY <1>5, <2>2, <2>3 DEF AccessOp, Place, Call
  <2>5. \A e \in Place : Settles(o, e) <=> \E i \in 1..1 : IsAt(CallsOf(o)[i], e)
    BY <1>5, <2>2, <2>3 DEF AccessOp, Place, Call, Both, Settles
  <2>6. \A e \in Place, i \in 1..1 :
          IsAt(CallsOf(o)[i], e) => /\ Gives(o, e) => CallsOf(o)[i].add = TRUE
                                    /\ ~Gives(o, e) => CallsOf(o)[i].add = FALSE
    BY <1>5, <2>2, <2>3 DEF Call, Gives
  <2> QED BY <2>2, <2>4, <2>5, <2>6
<1>6. CASE o.kind = "system_remove"
  <2>1. CallsOf(o) = <<Call("system", FALSE, 0, o.user)>>
    BY <1>6, CallsAre
  <2>2. Len(CallsOf(o)) = 1 /\ 1..1 = {1}
    BY <2>1
  <2>3. CallsOf(o)[1] = Call("system", FALSE, 0, o.user)
    BY <2>1
  <2>4. \A i \in 1..1 : EntryOf(CallsOf(o)[i]) \in Place
    BY <1>6, <2>2, <2>3 DEF AccessOp, Place, Call
  <2>5. \A e \in Place : Settles(o, e) <=> \E i \in 1..1 : IsAt(CallsOf(o)[i], e)
    BY <1>6, <2>2, <2>3 DEF AccessOp, Place, Call, Both, Settles
  <2>6. \A e \in Place, i \in 1..1 :
          IsAt(CallsOf(o)[i], e) => /\ Gives(o, e) => CallsOf(o)[i].add = TRUE
                                    /\ ~Gives(o, e) => CallsOf(o)[i].add = FALSE
    BY <1>6, <2>2, <2>3 DEF Call, Gives
  <2> QED BY <2>2, <2>4, <2>5, <2>6
<1>7. o.kind \in {"allow", "remove", "block", "unblock", "system_add", "system_remove"}
  BY DEF AccessOp
<1> QED BY <1>1, <1>2, <1>3, <1>4, <1>5, <1>6, <1>7

---------------------------------------------------------------------------
\* A step of the access lists is a step of the outbox, or none.
LEMMA AccessStepRefines ==
    ASSUME [AccessNext]_accessVars
    PROVE  [OutboxNext]_outboxVars
<1> USE AccessAssumption, RowsAreOfAccess
<1>1. ASSUME NEW k \in {"allow", "remove", "block", "unblock"}, NEW u \in Actor, NEW v \in User,
             Ask(k, u, v)
      PROVE  OutboxNext
  <2>1. [kind |-> k, user |-> u, friend |-> v] \in Op
    BY DEF AccessOp, User
  <2> QED BY <1>1, <2>1 DEF Ask, OutboxNext
<1>2. ASSUME NEW k \in {"system_add", "system_remove"}, NEW u \in Candidate, Ask(k, u, 0)
      PROVE  OutboxNext
  <2>1. [kind |-> k, user |-> u, friend |-> 0] \in Op
    BY DEF AccessOp, User
  <2> QED BY <1>2, <2>1 DEF Ask, OutboxNext
<1>3. ASSUME NEW u \in Actor, NEW v \in User,
             Befriend(u, v) \/ Unfriend(u, v) \/ Block(u, v) \/ UnblockUser(u, v)
      PROVE  OutboxNext
  BY <1>1, <1>3 DEF Befriend, Unfriend, Block, UnblockUser
<1>4. ASSUME NEW u \in Candidate, SetWukongSystemUser(u, TRUE) \/ SetWukongSystemUser(u, FALSE)
      PROVE  OutboxNext
  BY <1>2, <1>4 DEF SetWukongSystemUser
<1>5. ASSUME NEW u \in Candidate, DropAccount(u) PROVE [OutboxNext]_outboxVars
  BY <1>2, <1>5 DEF DropAccount
<1>6. ASSUME NEW w \in Worker, CallSucceeds(w) PROVE [OutboxNext]_outboxVars
  <2>1. PICK i \in Row :
          /\ IsCurrent(w, i) /\ outcome[w] = "none"
          /\ UNCHANGED <<op, status, leased, backoff, batch, faults>>
          /\ \/ outcome' = [outcome EXCEPT ![w] = "ok"] /\ performed' = performed \union {i}
             \/ UNCHANGED <<outcome, performed>>
    BY <1>6 DEF CallSucceeds
  <2>2. Execute(w) \/ UNCHANGED outboxVars
    BY <2>1 DEF Execute, outboxVars
  <2> QED BY <2>2 DEF OutboxNext
<1>7. ASSUME NEW w \in Worker, CallFails(w) PROVE OutboxNext
  <2>1. PICK i \in Row, result \in {"retry", "rejected"}, landed \in BOOLEAN :
          /\ IsCurrent(w, i) /\ outcome[w] = "none"
          /\ faults < MaxFault /\ faults' = faults + 1
          /\ landed => result # "rejected"
          /\ performed' = IF landed /\ IsLast(w, i) THEN performed \union {i} ELSE performed
          /\ outcome' = [outcome EXCEPT ![w] = result]
          /\ UNCHANGED <<op, status, leased, backoff, batch>>
    BY <1>7 DEF CallFails, CallFailsAs
  <2>2. Execute(w)
    BY <2>1 DEF Execute
  <2> QED BY <2>2 DEF OutboxNext
<1>8. ASSUME NEW w \in Worker, AbandonCalls(w) PROVE OutboxNext
  BY <1>8 DEF AbandonCalls, OutboxNext
<1>9. CASE OutboxStep
  BY <1>9 DEF OutboxStep, OutboxNext
<1>10. CASE ListWukongUserAccess \/ WriteList \/ DropPage
  BY <1>10 DEF ListWukongUserAccess, WriteList, DropPage, outboxVars
<1>11. CASE UNCHANGED accessVars
  BY <1>11 DEF accessVars, outboxVars
<1> QED BY <1>3, <1>4, <1>5, <1>6, <1>7, <1>8, <1>9, <1>10, <1>11 DEF AccessNext

\* Performing a row call by call (OutboxWorker.process) is still what the outbox
\* does, for any number of workers.
THEOREM AccessPerformsLikeOutbox == AccessSpec => PerformsLikeOutbox
<1>1. AccessInit => OutboxInit
  BY DEF AccessInit
<1>2. [AccessNext]_accessVars => [OutboxNext]_outboxVars
  BY AccessStepRefines
<1> QED BY <1>1, <1>2, PTL DEF AccessSpec, PerformsLikeOutbox, OutboxSpec

\* So it performs every row before it completes it, settles each once and loses
\* none, although a row takes up to three calls (one OutboxWorker).
THEOREM AccessRowsKeepPromise ==
    ASSUME OneWorker
    PROVE  AccessSpec => RowsKeepPromise
<1>1. OutboxSpec => DeliversAtLeastOnce /\ SettledForever
  BY OutboxKeepsPromise, OutboxSettlesForever
<1>2. OutboxSpec => []OutboxTypeOK /\ []CompletedWasPerformed
  BY OutboxTypeCorrect, OutboxCompletesPerformed
<1> QED BY <1>1, <1>2, AccessPerformsLikeOutbox, PTL DEF PerformsLikeOutbox, RowsKeepPromise
---------------------------------------------------------------------------
(* Types. *)

Snap == [user : User, allow : SUBSET User, deny : SUBSET User]

\* The rows of the table are operations, and batches are of such rows.
RowsHaveOps ==
    /\ \A i \in Row : status[i] # "absent" => op[i] \in AccessOp
    /\ \A w \in Worker : \A i \in batch[w] : status[i] # "absent"

\* The next call of a worker is one that its row has.
CallsInRange ==
    \A w \in Worker :
        /\ batch[w] = {} \/ outcome[w] # "none" => calls[w] = 0
        /\ \A i \in Row : IsCurrent(w, i) => calls[w] < Len(CallsOf(op[i]))

PageTyped == page \in Seq(Snap) /\ Len(page) <= PageSize

AccessTyped == OutboxTypeOK /\ AccessTypeOK /\ RowsHaveOps /\ CallsInRange /\ PageTyped
---------------------------------------------------------------------------
(* Agreement. *)

\* Rows take effect in the order of their ids: as long as no call fails, those
\* that are done come first, then the worker's batch, then those that wait.
QueueInOrder ==
    /\ \A i, j \in Row : i < j /\ status[j] # "absent" => status[i] # "absent"
    /\ faults = 0 =>
         /\ \A i \in Row : status[i] # "failed" /\ ~backoff[i]
         /\ \A i \in Row : status[i] = "processing" => \E w \in Worker : i \in batch[w]
         /\ \A w \in Worker : outcome[w] \in {"none", "ok"}
         /\ \A i, j \in Row : i < j /\ status[j] = "completed" => status[i] = "completed"
         /\ \A i, j \in Row : i < j /\ status[j] = "processing"
                                => status[i] \in {"completed", "processing"}

\* The last row about an entry says what PostgreSQL has.
IsLastAbout(i, e) ==
    /\ status[i] # "absent" /\ Settles(op[i], e)
    /\ \A j \in Row : j > i /\ status[j] # "absent" => ~Settles(op[j], e)
DbFollowsRows ==
    deleted = {} => \A e \in Place, i \in Row : IsLastAbout(i, e) => (InDb(e) <=> Gives(op[i], e))

PageIsCurrent ==
    ~overtaken => \A k \in 1..Len(page) : /\ page[k].allow = FriendsOf(page[k].user)
                                          /\ page[k].deny = BlockedBy(page[k].user)

\* Row i has still to make a call about the entry.
Owed(i, e) ==
    \E k \in 1..Len(CallsOf(op[i])) :
        /\ IsAt(CallsOf(op[i])[k], e)
        /\ \/ status[i] = "pending"
           \/ \E w \in Worker :
                 /\ i \in batch[w]
                 /\ IsCurrent(w, i) => outcome[w] = "none" /\ k > calls[w]

\* An entry that differs is one that a row has still to write.
ImFollowsDb ==
    faults = 0 /\ deleted = {} /\ ~overtaken =>
        \A e \in Place : (InIm(e) <=> InDb(e)) \/ \E i \in Row : Owed(i, e)

AccessInv ==
    /\ OneWorkerInv /\ AccessTyped
    /\ QueueInOrder /\ DbFollowsRows /\ PageIsCurrent /\ ImFollowsDb
---------------------------------------------------------------------------
(* A page of users. *)

LEMMA UsersFinite ==
    /\ User \subseteq Int /\ 0 \notin User
    /\ \A S \in SUBSET User : IsFiniteSet(S) /\ Cardinality(S) \in Nat
<1>1. IsFiniteSet(1..MaxUser)
  <2>1. 1 \in Int /\ MaxUser \in Int
    BY AccessAssumption
  <2> QED BY <2>1, FS_Interval
<1>2. User = 1..MaxUser
  BY DEF User
<1>3. User \subseteq Int /\ 0 \notin User
  BY <1>2, AccessAssumption
<1> QED BY <1>1, <1>2, <1>3, FS_Subset, FS_CardinalityType

LEMMA BelowFinite ==
    ASSUME NEW n \in Nat
    PROVE  IsFiniteSet(0..(n - 1)) /\ Cardinality(0..(n - 1)) = n
<1>1. 0 \in Int /\ n - 1 \in Int
  OBVIOUS
<1>2. Cardinality(0..(n - 1)) = IF 0 > n - 1 THEN 0 ELSE (n - 1) - 0 + 1
  BY <1>1, FS_Interval
<1> QED BY <1>1, <1>2, FS_Interval

\* The greater of two ids has more ids before it.
LEMMA RankGrows ==
    ASSUME NEW S \in SUBSET User, NEW a \in S, NEW b \in S, a < b
    PROVE  /\ Cardinality({y \in S : y < a}) \in Nat
           /\ Cardinality({y \in S : y < a}) < Cardinality({y \in S : y < b})
<1> DEFINE A == {y \in S : y < a}
           B == {y \in S : y < b}
<1>1. A \in SUBSET User /\ B \in SUBSET User
  OBVIOUS
<1>2. IsFiniteSet(B)
  BY <1>1, UsersFinite
<1>3. a \in Int /\ b \in Int /\ \A y \in S : y \in Int
  BY UsersFinite
<1>4. A \in SUBSET B /\ a \in B /\ a \notin A
  <2>1. a \in B /\ a \notin A
    BY <1>3
  <2>2. ASSUME NEW y \in S, y < a PROVE y < b
    BY <1>3, <2>2
  <2> QED BY <2>1, <2>2
<1>5. IsFiniteSet(A) /\ Cardinality(A) <= Cardinality(B) /\ (Cardinality(B) = Cardinality(A) => A = B)
  BY <1>2, <1>4, FS_Subset
<1>6. Cardinality(A) \in Nat /\ Cardinality(B) \in Nat
  BY <1>2, <1>5, FS_CardinalityType
<1> QED BY <1>4, <1>5, <1>6

LEMMA RankTells ==
    ASSUME NEW S \in SUBSET User, NEW a \in S, NEW b \in S,
           Cardinality({y \in S : y < a}) = Cardinality({y \in S : y < b})
    PROVE  a = b
<1>1. a \in Int /\ b \in Int
  BY UsersFinite
<1>2. CASE a < b
  <2>1. /\ Cardinality({y \in S : y < a}) \in Nat
        /\ Cardinality({y \in S : y < a}) < Cardinality({y \in S : y < b})
    BY <1>2, RankGrows
  <2> QED BY <2>1
<1>3. CASE b < a
  <2>1. /\ Cardinality({y \in S : y < b}) \in Nat
        /\ Cardinality({y \in S : y < b}) < Cardinality({y \in S : y < a})
    BY <1>3, RankGrows
  <2> QED BY <2>1
<1> QED BY <1>1, <1>2, <1>3

\* As many ids as there are users come back from a snapshot: for every place
\* there is a user with as many others before.
LEMMA RankTaken ==
    ASSUME NEW S \in SUBSET User, NEW k \in 1..Cardinality(S)
    PROVE  \E x \in S : Cardinality({y \in S : y < x}) = k - 1
<1> DEFINE n == Cardinality(S)
           rank == [x \in S |-> Cardinality({y \in S : y < x})]
           T == 0..(n - 1)
<1>1. IsFiniteSet(S) /\ n \in Nat
  BY UsersFinite
<1>2. ASSUME NEW x \in S PROVE rank[x] \in T
  <2> DEFINE B == {y \in S : y < x}
  <2>1. x \in Int /\ x \notin B
    BY UsersFinite
  <2>2. IsFiniteSet(B) /\ Cardinality(B) <= n /\ (n = Cardinality(B) => S = B)
    BY <1>1, FS_Subset
  <2>3. Cardinality(B) \in Nat
    BY <2>2, FS_CardinalityType
  <2> QED BY <1>1, <2>1, <2>2, <2>3
<1>3. ASSUME NEW x \in S, NEW z \in S, rank[x] = rank[z] PROVE x = z
  <2>1. Cardinality({y \in S : y < x}) = Cardinality({y \in S : y < z})
    BY <1>3
  <2> QED BY <2>1, RankTells
<1>4. rank \in Injection(S, T)
  <2> HIDE DEF rank
  <2>1. rank \in [S -> T]
    BY <1>2 DEF rank
  <2> QED BY <2>1, <1>3 DEF Injection, IsInjective
<1>5. IsFiniteSet(T) /\ Cardinality(T) = n
  BY <1>1, BelowFinite
<1>6. rank \in Surjection(S, T)
  <2> HIDE DEF rank, T
  <2> QED BY <1>4, <1>5, FS_Injection
<1>7. k - 1 \in T
  BY <1>1
<1> QED BY <1>6, <1>7 DEF Surjection

\* A page has at most PageSize users.
LEMMA ListedFits ==
    Listed \in SUBSET User /\ IsFiniteSet(Listed) /\ Cardinality(Listed) <= PageSize
<1> DEFINE C == {v \in User \ deleted : v > cursor}
           T == 0..(PageSize - 1)
           rank == [x \in Listed |-> Cardinality({y \in C : y < x})]
<1>1. C \in SUBSET User /\ Listed \in SUBSET C
  BY DEF Listed
<1>2. ASSUME NEW x \in Listed PROVE rank[x] \in T
  <2>1. {v \in User \ deleted : v > cursor /\ v < x} = {y \in C : y < x}
    OBVIOUS
  <2>2. Cardinality({y \in C : y < x}) < PageSize
    BY <2>1 DEF Listed
  <2>3. Cardinality({y \in C : y < x}) \in Nat
    <3>1. {y \in C : y < x} \in SUBSET User
      BY <1>1
    <3> QED BY <3>1, UsersFinite
  <2> QED BY <2>2, <2>3, AccessAssumption
<1>3. ASSUME NEW x \in Listed, NEW z \in Listed, rank[x] = rank[z] PROVE x = z
  <2>1. Cardinality({y \in C : y < x}) = Cardinality({y \in C : y < z})
    BY <1>3
  <2> HIDE DEF C
  <2> QED BY <1>1, <2>1, RankTells
<1>4. rank \in Injection(Listed, T)
  <2> HIDE DEF rank
  <2>1. rank \in [Listed -> T]
    BY <1>2 DEF rank
  <2> QED BY <2>1, <1>3 DEF Injection, IsInjective
<1>5. IsFiniteSet(T) /\ Cardinality(T) = PageSize
  BY AccessAssumption, BelowFinite
<1>6. IsFiniteSet(Listed) /\ Cardinality(Listed) <= PageSize
  <2> HIDE DEF rank, T
  <2> QED BY <1>4, <1>5, FS_Injection
<1> QED BY <1>1, <1>6

\* The page is typed, and says what PostgreSQL has when it is read.
LEMMA SnapshotTyped ==
    ASSUME NEW S \in SUBSET User
    PROVE  /\ Snapshot(S) \in Seq(Snap) /\ Len(Snapshot(S)) = Cardinality(S)
           /\ \A k \in 1..Len(Snapshot(S)) : /\ Snapshot(S)[k].allow = FriendsOf(Snapshot(S)[k].user)
                                             /\ Snapshot(S)[k].deny = BlockedBy(Snapshot(S)[k].user)
<1> DEFINE n == Cardinality(S)
           who(k) == CHOOSE x \in S : Cardinality({y \in S : y < x}) = k - 1
           at(k) == [user |-> who(k), allow |-> FriendsOf(who(k)), deny |-> BlockedBy(who(k))]
<1>1. n \in Nat
  BY UsersFinite
<1>2. ASSUME NEW k \in 1..n PROVE who(k) \in User
  BY RankTaken, <1>2
<1> HIDE DEF who
<1>3. ASSUME NEW k \in 1..n PROVE at(k) \in Snap
  BY <1>2 DEF Snap, FriendsOf, BlockedBy
<1>4. Snapshot(S) = [k \in 1..n |-> at(k)]
  BY DEF Snapshot, who
<1>5. Snapshot(S) \in Seq(Snap) /\ Len(Snapshot(S)) = n
  BY <1>1, <1>3, <1>4
<1> QED BY <1>1, <1>4, <1>5
---------------------------------------------------------------------------
(* Every step keeps the types. *)

\* What a call does to the lists, and to the one entry that it is about.
LEMMA CallLands ==
    ASSUME AccessTypeOK, NEW c, EntryOf(c) \in Place, LandCall(c)
    PROVE  /\ allow' \in [User -> SUBSET User] /\ deny' \in [User -> SUBSET User]
           /\ sysuids' \subseteq User
           /\ \A e \in Place : IF IsAt(c, e) THEN InIm(e)' <=> c.add ELSE InIm(e)' <=> InIm(e)
<1> USE DEF AccessTypeOK
<1>1. c.who \in User
  BY DEF EntryOf, Place
<1>2. CASE c.list = "allow"
  <2>1. c.at \in User
    BY <1>2 DEF EntryOf, Place
  <2>2. /\ deny' = deny /\ sysuids' = sysuids
        /\ allow' = [allow EXCEPT ![c.at] = IF c.add THEN @ \union {c.who} ELSE @ \ {c.who}]
    BY <1>2 DEF LandCall
  <2>3. allow' \in [User -> SUBSET User]
    BY <1>1, <2>1, <2>2
  <2>4. ASSUME NEW e \in Place
        PROVE  IF IsAt(c, e) THEN InIm(e)' <=> c.add ELSE InIm(e)' <=> InIm(e)
    <3>1. CASE e.list = "allow"
      BY <1>1, <1>2, <2>1, <2>2, <3>1 DEF IsAt, InIm, Place
    <3>2. CASE e.list # "allow"
      BY <1>2, <2>2, <3>2 DEF IsAt, InIm
    <3> QED BY <3>1, <3>2
  <2> QED BY <2>2, <2>3, <2>4
<1>3. CASE c.list = "deny"
  <2>1. c.at \in User
    BY <1>3 DEF EntryOf, Place
  <2>2. /\ allow' = allow /\ sysuids' = sysuids
        /\ deny' = [deny EXCEPT ![c.at] = IF c.add THEN @ \union {c.who} ELSE @ \ {c.who}]
    BY <1>3 DEF LandCall
  <2>3. deny' \in [User -> SUBSET User]
    BY <1>1, <2>1, <2>2
  <2>4. ASSUME NEW e \in Place
        PROVE  IF IsAt(c, e) THEN InIm(e)' <=> c.add ELSE InIm(e)' <=> InIm(e)
    <3>1. CASE e.list = "deny"
      BY <1>1, <1>3, <2>1, <2>2, <3>1 DEF IsAt, InIm, Place
    <3>2. CASE e.list # "deny"
      BY <1>3, <2>2, <3>2 DEF IsAt, InIm
    <3> QED BY <3>1, <3>2
  <2> QED BY <2>2, <2>3, <2>4
<1>4. CASE c.list = "system"
  <2>1. c.at = 0
    BY <1>4 DEF EntryOf, Place
  <2>2. /\ allow' = allow /\ deny' = deny
        /\ sysuids' = IF c.add THEN sysuids \union {c.who} ELSE sysuids \ {c.who}
    BY <1>4 DEF LandCall
  <2>3. sysuids' \subseteq User
    BY <1>1, <2>2
  <2>4. ASSUME NEW e \in Place
        PROVE  IF IsAt(c, e) THEN InIm(e)' <=> c.add ELSE InIm(e)' <=> InIm(e)
    <3>1. CASE e.list = "system"
      BY <1>1, <1>4, <2>1, <2>2, <3>1 DEF IsAt, InIm, Place
    <3>2. CASE e.list # "system"
      BY <1>4, <2>2, <3>2 DEF IsAt, InIm
    <3> QED BY <3>1, <3>2
  <2> QED BY <2>2, <2>3, <2>4
<1>5. c.list \in {"allow", "deny", "system"}
  BY DEF EntryOf, Place
<1> QED BY <1>2, <1>3, <1>4, <1>5

\* The call that a worker is at is one that its row makes, about an entry.
LEMMA CurrentCallIs ==
    ASSUME AccessTyped, NEW w \in Worker, NEW i \in Row, IsCurrent(w, i)
    PROVE  /\ op[i] \in AccessOp /\ i \in batch[w]
           /\ calls[w] \in 0..2 /\ calls[w] + 1 \in 1..Len(CallsOf(op[i]))
           /\ Len(CallsOf(op[i])) \in 1..3
           /\ EntryOf(CurrentCall(w, i)) \in Place
<1>1. i \in batch[w] /\ op[i] \in AccessOp
  BY DEF AccessTyped, RowsHaveOps, IsCurrent
<1>2. Len(CallsOf(op[i])) \in 1..3
  BY <1>1, CallsDecide
<1>3. calls[w] \in 0..2 /\ calls[w] < Len(CallsOf(op[i]))
  BY DEF AccessTyped, AccessTypeOK, CallsInRange
<1>4. calls[w] + 1 \in 1..Len(CallsOf(op[i]))
  BY <1>2, <1>3
<1>5. EntryOf(CallsOf(op[i])[calls[w] + 1]) \in Place
  BY <1>1, <1>4, CallsDecide
<1> QED BY <1>1, <1>2, <1>3, <1>4, <1>5 DEF CurrentCall

\* A row that is enqueued is one more operation, and nobody's current row.
LEMMA EnqueueTyped ==
    ASSUME AccessTyped, NEW o \in AccessOp, Enqueue(o), calls' = calls, page' = page
    PROVE  (RowsHaveOps /\ CallsInRange /\ PageTyped)'
<1> USE DEF AccessTyped
<1>1. PICK i \in Row :
        /\ status[i] = "absent" /\ op' = [op EXCEPT ![i] = o]
        /\ status' = [status EXCEPT ![i] = "pending"]
        /\ UNCHANGED <<batch, outcome>>
  BY DEF Enqueue
<1>2. RowsHaveOps'
  BY <1>1 DEF RowsHaveOps, OutboxTypeOK
<1>3. CallsInRange'
  BY <1>1 DEF CallsInRange, RowsHaveOps, IsCurrent, OutboxTypeOK
<1> QED BY <1>2, <1>3 DEF PageTyped

LEMMA AskTyped ==
    ASSUME AccessTyped, NEW kind, NEW u, NEW v, Ask(kind, u, v),
           [kind |-> kind, user |-> u, friend |-> v] \in AccessOp
    PROVE  /\ (RowsHaveOps /\ CallsInRange /\ PageTyped)'
           /\ overtaken' \in BOOLEAN /\ UNCHANGED <<imVars, calls, pageVars>>
<1>1. Enqueue([kind |-> kind, user |-> u, friend |-> v]) /\ UNCHANGED <<imVars, calls, pageVars>>
  BY DEF Ask
<1>2. (RowsHaveOps /\ CallsInRange /\ PageTyped)'
  BY <1>1, EnqueueTyped DEF pageVars
<1> QED BY <1>1, <1>2 DEF Ask, AccessTyped, AccessTypeOK

\* Changes in PostgreSQL.
LEMMA ChangeTyped ==
    ASSUME AccessTyped,
           \/ \E u \in Actor, v \in User : Befriend(u, v) \/ Unfriend(u, v)
                                           \/ Block(u, v) \/ UnblockUser(u, v)
           \/ \E u \in Candidate : \/ SetWukongSystemUser(u, TRUE)
                                   \/ SetWukongSystemUser(u, FALSE) \/ DropAccount(u)
    PROVE  (AccessTypeOK /\ RowsHaveOps /\ CallsInRange /\ PageTyped)'
<1>1. Actor \subseteq User /\ Candidate \subseteq User
  BY AccessAssumption DEF User
<1> DEFINE Rest == /\ (RowsHaveOps /\ CallsInRange /\ PageTyped)'
                   /\ overtaken' \in BOOLEAN /\ UNCHANGED <<imVars, calls, pageVars>>
           Ties == /\ friends' \subseteq User \X User /\ blocks' \subseteq User \X User
                   /\ systems' \subseteq User /\ deleted' \subseteq User
<1>2. ASSUME NEW k \in {"allow", "remove", "block", "unblock"}, NEW u \in Actor, NEW v \in User,
             Ask(k, u, v)
      PROVE  Rest
  <2>1. [kind |-> k, user |-> u, friend |-> v] \in AccessOp
    BY <1>1 DEF AccessOp
  <2> QED BY <1>2, <2>1, AskTyped
<1>3. ASSUME NEW k \in {"system_add", "system_remove"}, NEW u \in Candidate, Ask(k, u, 0)
      PROVE  Rest
  <2>1. [kind |-> k, user |-> u, friend |-> 0] \in AccessOp
    BY <1>1 DEF AccessOp
  <2> QED BY <1>3, <2>1, AskTyped
<1>4. Rest /\ Ties => (AccessTypeOK /\ RowsHaveOps /\ CallsInRange /\ PageTyped)'
  BY DEF AccessTyped, AccessTypeOK, imVars, pageVars
<1> HIDE DEF Rest
<1>5. ASSUME NEW u \in Actor, NEW v \in User,
             Befriend(u, v) \/ Unfriend(u, v) \/ Block(u, v) \/ UnblockUser(u, v)
      PROVE  Rest /\ Ties
  <2>1. Rest
    BY <1>2, <1>5 DEF Befriend, Unfriend, Block, UnblockUser
  <2>2. Ties
    BY <1>1, <1>5 DEF Befriend, Unfriend, Block, UnblockUser, Both, AccessTyped, AccessTypeOK
  <2> QED BY <2>1, <2>2
<1>6. ASSUME NEW u \in Candidate, SetWukongSystemUser(u, TRUE) \/ SetWukongSystemUser(u, FALSE)
      PROVE  Rest /\ Ties
  <2>1. Rest
    BY <1>3, <1>6 DEF SetWukongSystemUser
  <2>2. Ties
    BY <1>1, <1>6 DEF SetWukongSystemUser, AccessTyped, AccessTypeOK
  <2> QED BY <2>1, <2>2
<1>7. ASSUME NEW u \in Candidate, DropAccount(u) PROVE Rest /\ Ties
  <2>1. ASSUME u \in systems PROVE Rest
    BY <1>3, <1>7, <2>1 DEF DropAccount
  <2>2. ASSUME u \notin systems PROVE Rest
    <3>1. /\ overtaken' = (overtaken \/ page # <<>>)
          /\ UNCHANGED <<outboxVars, imVars, calls, pageVars>>
      BY <1>7, <2>2 DEF DropAccount
    <3>2. overtaken' \in BOOLEAN
      BY <3>1 DEF AccessTyped, AccessTypeOK
    <3>3. RowsHaveOps' /\ CallsInRange' /\ PageTyped'
      BY <3>1 DEF AccessTyped, RowsHaveOps, CallsInRange, IsCurrent, PageTyped,
                  outboxVars, pageVars
    <3> QED BY <3>1, <3>2, <3>3 DEF Rest
  <2>3. Ties
    BY <1>1, <1>7 DEF DropAccount, AccessTyped, AccessTypeOK
  <2> QED BY <2>1, <2>2, <2>3
<1> QED BY <1>4, <1>5, <1>6, <1>7

\* Calls that succeed, fail and are given up.
LEMMA PerformTyped ==
    ASSUME AccessTyped, NEW w \in Worker, CallSucceeds(w) \/ CallFails(w) \/ AbandonCalls(w)
    PROVE  (AccessTypeOK /\ RowsHaveOps /\ CallsInRange /\ PageTyped)'
<1> USE DEF AccessTyped
<1>1. CASE CallSucceeds(w)
  <2>1. PICK i \in Row :
          /\ IsCurrent(w, i) /\ outcome[w] = "none"
          /\ LandCall(CurrentCall(w, i))
          /\ IF IsLast(w, i)
               THEN outcome' = [outcome EXCEPT ![w] = "ok"] /\ calls' = [calls EXCEPT ![w] = 0]
               ELSE calls' = [calls EXCEPT ![w] = @ + 1] /\ outcome' = outcome
          /\ UNCHANGED <<op, status, batch, dbVars, pageVars, overtaken>>
    BY <1>1 DEF CallSucceeds
  <2>2. /\ calls[w] \in 0..2 /\ calls[w] + 1 \in 1..Len(CallsOf(op[i])) /\ i \in batch[w]
        /\ Len(CallsOf(op[i])) \in 1..3 /\ EntryOf(CurrentCall(w, i)) \in Place
    BY <2>1, CurrentCallIs
  <2>3. /\ allow' \in [User -> SUBSET User] /\ deny' \in [User -> SUBSET User]
        /\ sysuids' \subseteq User
    BY <2>1, <2>2, CallLands
  <2>4. calls' \in [Worker -> 0..2]
    <3>1. CASE IsLast(w, i)
      BY <2>1, <3>1 DEF AccessTypeOK
    <3>2. CASE ~IsLast(w, i)
      <4>1. calls[w] + 1 \in 0..2
        <5> DEFINE n == Len(CallsOf(op[i]))
        <5>1. n \in 1..3 /\ calls[w] \in 0..2 /\ calls[w] + 1 \in 1..n /\ calls[w] + 1 # n
          BY <2>2, <3>2 DEF IsLast
        <5> HIDE DEF n
        <5> QED BY <5>1
      <4> QED BY <2>1, <3>2, <4>1 DEF AccessTypeOK
    <3> QED BY <3>1, <3>2
  <2>5. CallsInRange'
    <3>1. \A j \in Row : IsCurrent(w, j) => j = i
      BY <2>1 DEF IsCurrent, Row
    <3>2. \A v \in Worker, j \in Row : IsCurrent(v, j)' <=> IsCurrent(v, j)
      BY <2>1 DEF IsCurrent
    <3>3. CASE IsLast(w, i)
      BY <2>1, <2>2, <3>1, <3>2, <3>3 DEF CallsInRange, OutboxTypeOK, AccessTypeOK
    <3>4. CASE ~IsLast(w, i)
      BY <2>1, <2>2, <3>1, <3>2, <3>4 DEF CallsInRange, OutboxTypeOK, AccessTypeOK, IsLast
    <3> QED BY <3>3, <3>4
  <2> QED BY <2>1, <2>3, <2>4, <2>5 DEF AccessTypeOK, RowsHaveOps, PageTyped, dbVars, pageVars
<1>2. CASE CallFails(w)
  <2>1. PICK i \in Row :
          /\ IsCurrent(w, i) /\ outcome[w] = "none"
          /\ LandCall(CurrentCall(w, i)) \/ UNCHANGED imVars
          /\ calls' = [calls EXCEPT ![w] = 0]
          /\ \E r : outcome' = [outcome EXCEPT ![w] = r]
          /\ UNCHANGED <<op, status, batch, dbVars, pageVars, overtaken>>
    BY <1>2 DEF CallFails, CallFailsAs
  <2>2. /\ Len(CallsOf(op[i])) \in 1..3 /\ EntryOf(CurrentCall(w, i)) \in Place
        /\ \A j \in Row : IsCurrent(w, j) => j = i
    BY <2>1, CurrentCallIs DEF IsCurrent, Row
  <2>3. /\ allow' \in [User -> SUBSET User] /\ deny' \in [User -> SUBSET User]
        /\ sysuids' \subseteq User
    BY <2>1, <2>2, CallLands DEF imVars, AccessTypeOK
  <2>4. calls' \in [Worker -> 0..2]
    BY <2>1 DEF AccessTypeOK
  <2>5. CallsInRange'
    BY <2>1, <2>2 DEF CallsInRange, OutboxTypeOK, AccessTypeOK, IsCurrent
  <2> QED BY <2>1, <2>3, <2>4, <2>5 DEF AccessTypeOK, RowsHaveOps, PageTyped, dbVars, pageVars
<1>3. CASE AbandonCalls(w)
  <2>1. /\ batch' = [batch EXCEPT ![w] = {}] /\ outcome' = [outcome EXCEPT ![w] = "none"]
        /\ calls' = [calls EXCEPT ![w] = 0]
        /\ UNCHANGED <<op, status, dbVars, imVars, pageVars, overtaken>>
    BY <1>3 DEF AbandonCalls, Abandon
  <2>2. calls' \in [Worker -> 0..2]
    BY <2>1 DEF AccessTypeOK
  <2>3. CallsInRange' /\ RowsHaveOps'
    BY <2>1 DEF CallsInRange, RowsHaveOps, OutboxTypeOK, AccessTypeOK, IsCurrent
  <2> QED BY <2>1, <2>2, <2>3 DEF AccessTypeOK, PageTyped, dbVars, imVars, pageVars
<1> QED BY <1>1, <1>2, <1>3

\* The steps of the outbox that make no call.
LEMMA OutboxStepTyped ==
    ASSUME AccessTyped, OutboxStep
    PROVE  (AccessTypeOK /\ RowsHaveOps /\ CallsInRange /\ PageTyped)'
<1> USE DEF AccessTyped
<1>1. UNCHANGED <<dbVars, imVars, calls, pageVars, overtaken>>
  BY DEF OutboxStep
<1>2. AccessTypeOK' /\ PageTyped'
  BY <1>1 DEF AccessTypeOK, PageTyped, dbVars, imVars, pageVars
<1>3. ASSUME NEW i \in Row, status[i] # "absent" PROVE 0 < Len(CallsOf(op[i]))
  <2>1. Len(CallsOf(op[i])) \in 1..3
    BY <1>3, CallsDecide DEF RowsHaveOps
  <2>2. \A n \in 1..3 : 0 < n
    OBVIOUS
  <2> QED BY <2>1, <2>2
<1>4. ASSUME NEW w \in Worker, ClaimWukongOutbox(w) PROVE RowsHaveOps' /\ CallsInRange'
  <2>1. /\ batch[w] = {} /\ batch' = [batch EXCEPT ![w] = Picked]
        /\ status' = [i \in Row |-> IF i \in Picked THEN "processing" ELSE status[i]]
        /\ UNCHANGED <<op, outcome>>
    BY <1>4 DEF ClaimWukongOutbox, ClaimAs
  <2>2. Picked \subseteq {i \in Row : status[i] # "absent"}
    BY DEF Picked, Claimable
  <2>3. RowsHaveOps'
    BY <2>1, <2>2 DEF RowsHaveOps, OutboxTypeOK
  <2>4. calls[w] = 0
    BY <2>1 DEF CallsInRange
  <2>5. ASSUME NEW v \in Worker, v # w
        PROVE  batch'[v] = batch[v] /\ \A i \in Row : IsCurrent(v, i)' <=> IsCurrent(v, i)
    BY <2>1, <2>5 DEF OutboxTypeOK, IsCurrent
  <2>6. ASSUME NEW i \in Row, IsCurrent(w, i)' PROVE 0 < Len(CallsOf(op[i]))
    BY <1>3, <2>1, <2>2, <2>6 DEF OutboxTypeOK, IsCurrent
  <2>7. CallsInRange'
    BY <1>1, <2>1, <2>4, <2>5, <2>6 DEF CallsInRange
  <2> QED BY <2>3, <2>7
<1>5. ASSUME NEW w \in Worker, Record(w) PROVE RowsHaveOps' /\ CallsInRange'
  <2>1. PICK i \in Row :
          /\ i \in batch[w] /\ outcome[w] # "none"
          /\ status' = [status EXCEPT ![i] = [ok |-> "completed", retry |-> "pending",
                                              rejected |-> "failed"][outcome[w]]]
          /\ batch' = [batch EXCEPT ![w] = @ \ {i}]
          /\ outcome' = [outcome EXCEPT ![w] = "none"]
          /\ op' = op
    BY <1>5 DEF Record, RecordAs, IsCurrent
  <2>2. \A j \in Row : status'[j] # "absent" <=> status[j] # "absent"
    BY <2>1 DEF OutboxTypeOK, Outcome, RowsHaveOps
  <2>3. \A v \in Worker : batch'[v] \subseteq batch[v]
    BY <2>1 DEF OutboxTypeOK
  <2>4. RowsHaveOps'
    BY <2>1, <2>2, <2>3 DEF RowsHaveOps, OutboxTypeOK
  <2>5. calls[w] = 0
    BY <2>1 DEF CallsInRange
  <2>6. ASSUME NEW v \in Worker, v # w
        PROVE  /\ batch'[v] = batch[v] /\ outcome'[v] = outcome[v]
               /\ \A j \in Row : IsCurrent(v, j)' <=> IsCurrent(v, j)
    BY <2>1, <2>6 DEF OutboxTypeOK, IsCurrent
  <2>7. ASSUME NEW j \in Row, IsCurrent(w, j)' PROVE 0 < Len(CallsOf(op[j]))
    BY <1>3, <2>3, <2>7 DEF RowsHaveOps, IsCurrent
  <2>8. CallsInRange'
    BY <1>1, <2>1, <2>5, <2>6, <2>7 DEF CallsInRange
  <2> QED BY <2>4, <2>8
<1>6. ASSUME NEW i \in Row, LeaseExpires(i) \/ BackoffElapses(i)
      PROVE  RowsHaveOps' /\ CallsInRange'
  BY <1>1, <1>6 DEF LeaseExpires, BackoffElapses, RowsHaveOps, CallsInRange, IsCurrent
<1> QED BY <1>2, <1>4, <1>5, <1>6 DEF OutboxStep

\* The pages of the reconciler.
LEMMA PageStepTyped ==
    ASSUME AccessTyped, ListWukongUserAccess \/ WriteList \/ DropPage
    PROVE  (AccessTypeOK /\ RowsHaveOps /\ CallsInRange /\ PageTyped)'
<1> USE DEF AccessTyped
<1>1. UNCHANGED <<outboxVars, dbVars, sysuids, calls, overtaken>>
  BY DEF ListWukongUserAccess, WriteList, DropPage, imVars
<1>2. RowsHaveOps' /\ CallsInRange'
  BY <1>1 DEF RowsHaveOps, CallsInRange, IsCurrent, outboxVars
<1>3. CASE ListWukongUserAccess
  <2>1. page' = Snapshot(Listed) /\ half' = FALSE /\ cursor' \in {0, cursor}
        /\ UNCHANGED <<imVars, drops>>
    BY <1>3 DEF ListWukongUserAccess
  <2>2. Snapshot(Listed) \in Seq(Snap) /\ Len(Snapshot(Listed)) <= PageSize
    BY ListedFits, SnapshotTyped
  <2>3. cursor' \in 0..MaxUser /\ half' \in BOOLEAN
    <3>1. 0 \in 0..MaxUser /\ cursor \in 0..MaxUser
      BY AccessAssumption DEF AccessTypeOK
    <3> QED BY <2>1, <3>1
  <2>4. PageTyped'
    BY <2>1, <2>2 DEF PageTyped
  <2> QED BY <1>1, <1>2, <2>1, <2>3, <2>4 DEF AccessTypeOK, PageTyped, dbVars, imVars
<1>4. CASE WriteList
  <2> DEFINE s == Head(page)
  <2>1. s \in Snap
    BY <1>4 DEF WriteList, PageTyped
  <2>2. s.user \in User /\ s.allow \in SUBSET User /\ s.deny \in SUBSET User
    BY <2>1 DEF Snap
  <2>3. CASE ~half
    <3>1. allow' = [allow EXCEPT ![s.user] = s.allow] /\ half' = TRUE
          /\ UNCHANGED <<deny, cursor, page, drops>>
      BY <1>4, <2>3 DEF WriteList
    <3>2. allow' \in [User -> SUBSET User]
      BY <2>2, <3>1 DEF AccessTypeOK
    <3> QED BY <1>1, <1>2, <3>1, <3>2 DEF AccessTypeOK, PageTyped, dbVars
  <2>4. CASE half
    <3>1. deny' = [deny EXCEPT ![s.user] = s.deny] /\ half' = FALSE /\ page' = Tail(page)
          /\ cursor' = s.user /\ UNCHANGED <<allow, drops>> /\ page # <<>>
      BY <1>4, <2>4 DEF WriteList, AccessTypeOK
    <3>2. deny' \in [User -> SUBSET User]
      BY <2>2, <3>1 DEF AccessTypeOK
    <3>3. Tail(page) \in Seq(Snap) /\ Len(Tail(page)) <= PageSize
      BY <3>1, AccessAssumption DEF PageTyped
    <3>4. s.user \in 0..MaxUser
      BY <2>2 DEF User
    <3> HIDE DEF s
    <3> QED BY <1>1, <1>2, <3>1, <3>2, <3>3, <3>4 DEF AccessTypeOK, PageTyped, dbVars
  <2> QED BY <2>3, <2>4 DEF AccessTypeOK
<1>5. CASE DropPage
  <2>1. /\ drops < MaxDrop /\ drops' = drops + 1 /\ page' = <<>> /\ half' = FALSE
        /\ cursor' \in {cursor, 0} /\ UNCHANGED imVars
    BY <1>5 DEF DropPage
  <2>2. <<>> \in Seq(Snap) /\ Len(<<>>) <= PageSize
    BY AccessAssumption
  <2>3. cursor' \in 0..MaxUser /\ half' \in BOOLEAN
    <3>1. 0 \in 0..MaxUser /\ cursor \in 0..MaxUser
      BY AccessAssumption DEF AccessTypeOK
    <3> QED BY <2>1, <3>1
  <2>4. drops' \in 0..MaxDrop
    <3>1. MaxDrop \in Nat /\ drops \in 0..MaxDrop
      BY AccessAssumption DEF AccessTypeOK
    <3> QED BY <2>1, <3>1
  <2>5. PageTyped'
    BY <2>1, <2>2 DEF PageTyped
  <2> QED BY <1>1, <1>2, <2>1, <2>3, <2>4, <2>5 DEF AccessTypeOK, PageTyped, dbVars, imVars
<1> QED BY <1>3, <1>4, <1>5

LEMMA AccessTypedInit ==
    ASSUME AccessInit PROVE AccessTyped
<1>1. OutboxTypeOK
  BY OutboxAssumption DEF AccessInit, OutboxInit, OutboxTypeOK, Status, Outcome
<1>2. AccessTypeOK /\ PageTyped
  <2>1. <<>> \in Seq(Snap) /\ Len(<<>>) <= PageSize
    BY AccessAssumption
  <2>2. 0 \in 0..MaxUser /\ 0 \in 0..MaxDrop /\ 0 \in 0..2
    BY AccessAssumption
  <2>3. calls \in [Worker -> 0..2]
    BY <2>2 DEF AccessInit
  <2>4. allow \in [User -> SUBSET User] /\ deny \in [User -> SUBSET User]
    BY DEF AccessInit
  <2> QED BY <2>1, <2>2, <2>3, <2>4 DEF AccessInit, AccessTypeOK, PageTyped
<1>3. RowsHaveOps /\ CallsInRange
  BY DEF AccessInit, OutboxInit, RowsHaveOps, CallsInRange, IsCurrent
<1> QED BY <1>1, <1>2, <1>3 DEF AccessTyped

LEMMA AccessTypedInductive ==
    ASSUME AccessTyped, [AccessNext]_accessVars
    PROVE  AccessTyped'
<1>1. OutboxTypeOK'
  BY AccessStepRefines, OutboxTypeInductive DEF AccessTyped
<1>2. CASE UNCHANGED accessVars
  BY <1>1, <1>2 DEF AccessTyped, AccessTypeOK, RowsHaveOps, CallsInRange, PageTyped, IsCurrent,
                    accessVars, outboxVars, dbVars, imVars, pageVars
<1>3. ASSUME NEW w \in Worker, CallSucceeds(w) \/ CallFails(w) \/ AbandonCalls(w)
      PROVE  (AccessTypeOK /\ RowsHaveOps /\ CallsInRange /\ PageTyped)'
  BY <1>3, PerformTyped
<1>4. (AccessTypeOK /\ RowsHaveOps /\ CallsInRange /\ PageTyped)'
  BY <1>2, <1>3, ChangeTyped, OutboxStepTyped, PageStepTyped DEF AccessNext, AccessTyped
<1> QED BY <1>1, <1>4 DEF AccessTyped

\* Lists, cursors and pages have their types, whoever runs (AccessSpec allows
\* any number of workers).
THEOREM AccessTypeCorrect == AccessSpec => []AccessTypeOK
<1>1. AccessInit => AccessTyped
  BY AccessTypedInit
<1>2. AccessTyped /\ [AccessNext]_accessVars => AccessTyped'
  BY AccessTypedInductive
<1>3. AccessTyped => AccessTypeOK
  BY DEF AccessTyped
<1> QED BY <1>1, <1>2, <1>3, PTL DEF AccessSpec
---------------------------------------------------------------------------
(* The order of the queue. *)

\* A claim leaves out nothing that comes before what it takes.
LEMMA PickedIsPrefix ==
    ASSUME NEW i \in Row, NEW j \in Picked, Claimable(i), i < j
    PROVE  i \in Picked
<1> DEFINE A == {k \in Row : Claimable(k) /\ k < i}
           B == {k \in Row : Claimable(k) /\ k < j}
<1>1. IsFiniteSet(Row) /\ Row \subseteq Int
  <2>1. 1 \in Int /\ MaxRow \in Int
    BY OutboxAssumption
  <2> QED BY <2>1, FS_Interval DEF Row
<1>2. j \in Row /\ Cardinality(B) < BatchSize
  BY DEF Picked
<1>3. A \subseteq B
  <2>1. ASSUME NEW k \in Row, k < i PROVE k < j
    BY <1>1, <1>2, <2>1
  <2> QED BY <2>1
<1>4. IsFiniteSet(B) /\ IsFiniteSet(A) /\ Cardinality(A) <= Cardinality(B)
  BY <1>1, <1>3, FS_Subset
<1>5. Cardinality(A) \in Nat /\ Cardinality(B) \in Nat
  BY <1>4, FS_CardinalityType
<1>6. Cardinality(A) < BatchSize
  BY <1>2, <1>4, <1>5, OutboxAssumption
<1> QED BY <1>6 DEF Picked

LEMMA QueueInductive ==
    ASSUME OneWorker, OneWorkerInv, QueueInOrder, [OutboxNext]_outboxVars
    PROVE  QueueInOrder'
<1> USE DEF OneWorkerInv, OutboxInv, OutboxTypeOK
<1> DEFINE Gone == \A i, j \in Row : i < j /\ status[j] # "absent" => status[i] # "absent"
           Clean == /\ \A i \in Row : status[i] # "failed" /\ ~backoff[i]
                    /\ \A i \in Row : status[i] = "processing" => \E w \in Worker : i \in batch[w]
                    /\ \A w \in Worker : outcome[w] \in {"none", "ok"}
           Order == /\ \A i, j \in Row : i < j /\ status[j] = "completed" => status[i] = "completed"
                    /\ \A i, j \in Row : i < j /\ status[j] = "processing"
                                           => status[i] \in {"completed", "processing"}
<1>1. Gone /\ (faults = 0 => Clean /\ Order)
  BY DEF QueueInOrder
<1>2. \A i, j \in Row : i \in Int /\ j \in Int
  BY OutboxAssumption DEF Row
<1>3. ASSUME NEW o \in Op, Enqueue(o) PROVE QueueInOrder'
  <2>1. PICK n \in Row :
          /\ status[n] = "absent" /\ \A j \in Row : j < n => status[j] # "absent"
          /\ status' = [status EXCEPT ![n] = "pending"]
          /\ UNCHANGED <<backoff, batch, outcome, faults>>
    BY <1>3 DEF Enqueue
  <2>2. \A j \in Row : n < j => status[j] = "absent"
    BY <1>1, <2>1
  <2>3. Gone'
    BY <1>1, <1>2, <2>1, <2>2
  <2>4. ASSUME faults' = 0 PROVE Clean'
    BY <1>1, <2>1, <2>4
  <2>5. ASSUME faults' = 0 PROVE Order'
    BY <1>1, <1>2, <2>1, <2>2, <2>5
  <2> QED BY <2>3, <2>4, <2>5 DEF QueueInOrder
<1>4. ASSUME NEW w \in Worker, ClaimWukongOutbox(w) PROVE QueueInOrder'
  <2>1. /\ batch[w] = {} /\ batch' = [batch EXCEPT ![w] = Picked]
        /\ status' = [i \in Row |-> IF i \in Picked THEN "processing" ELSE status[i]]
        /\ UNCHANGED <<backoff, outcome, faults>>
    BY <1>4 DEF ClaimWukongOutbox, ClaimAs
  <2>2. Picked \subseteq {i \in Row : status[i] # "absent"}
    BY DEF Picked, Claimable
  <2>3. Gone'
    BY <1>1, <2>1, <2>2
  <2>4. ASSUME faults' = 0 PROVE Clean' /\ Order'
    <3>1. Clean /\ Order
      BY <1>1, <2>1, <2>4
    <3>2. \A i \in Row : status[i] # "processing"
      BY <2>1, <3>1 DEF OneWorker
    <3>3. \A i \in Picked : status[i] = "pending"
      BY <3>2 DEF Picked, Claimable
    <3>4. \A i \in Row, j \in Picked : i < j /\ status[i] = "pending" => i \in Picked
      BY <3>1, PickedIsPrefix DEF Claimable
    <3>5. \A i, j \in Row : i < j /\ status[j] = "pending" => status[i] \in {"completed", "pending"}
      BY <1>1, <3>1, <3>2 DEF Status
    <3>6. Clean'
      BY <2>1, <3>1, <3>2
    <3>7. Order'
      BY <2>1, <3>1, <3>2, <3>3, <3>4, <3>5
    <3> QED BY <3>6, <3>7
  <2> QED BY <2>3, <2>4 DEF QueueInOrder
<1>5. ASSUME NEW w \in Worker, Execute(w) PROVE QueueInOrder'
  <2>1. UNCHANGED <<status, backoff, batch>>
    BY <1>5 DEF Execute
  <2>2. ASSUME faults' = 0
        PROVE  faults = 0 /\ outcome' = [outcome EXCEPT ![w] = "ok"]
    BY <1>5, <2>2 DEF Execute
  <2> QED BY <1>1, <2>1, <2>2 DEF QueueInOrder
<1>6. ASSUME NEW w \in Worker, Record(w) PROVE QueueInOrder'
  <2>1. PICK n \in Row :
          /\ IsCurrent(w, n) /\ outcome[w] # "none"
          /\ status' = [status EXCEPT ![n] = [ok |-> "completed", retry |-> "pending",
                                              rejected |-> "failed"][outcome[w]]]
          /\ backoff' = [backoff EXCEPT ![n] = outcome[w] = "retry" \/ backoff[n]]
          /\ batch' = [batch EXCEPT ![w] = @ \ {n}]
          /\ outcome' = [outcome EXCEPT ![w] = "none"]
          /\ faults' = faults
    BY <1>6 DEF Record, RecordAs
  <2>2. status[n] = "processing"
    BY <2>1 DEF BatchIsProcessing, IsCurrent
  <2>3. Gone'
    BY <1>1, <2>1, <2>2 DEF Outcome
  <2>4. ASSUME faults' = 0 PROVE Clean' /\ Order'
    <3>1. Clean /\ Order
      BY <1>1, <2>1, <2>4
    <3>2. outcome[w] = "ok"
      BY <2>1, <3>1
    <3>3. status' = [status EXCEPT ![n] = "completed"] /\ \A i \in Row : backoff'[i] = backoff[i]
      BY <2>1, <3>1, <3>2
    <3>4. ASSUME NEW i \in Row, i < n PROVE status[i] = "completed"
      <4>1. status[i] = "processing" => i \in batch[w]
        BY <3>1 DEF OneWorker
      <4>2. i \notin batch[w]
        BY <1>2, <2>1, <3>4 DEF IsCurrent
      <4> QED BY <2>2, <3>1, <3>4, <4>1, <4>2
    <3>5. Clean'
      BY <2>1, <3>1, <3>3 DEF OneWorker
    <3>6. Order'
      BY <2>2, <3>1, <3>3, <3>4
    <3> QED BY <3>5, <3>6
  <2> QED BY <2>3, <2>4 DEF QueueInOrder
<1>7. ASSUME NEW w \in Worker, Abandon(w) PROVE QueueInOrder'
  <2>1. faults' = faults + 1 /\ status' = status
    BY <1>7 DEF Abandon
  <2>2. faults' # 0
    BY <2>1
  <2> QED BY <1>1, <2>1, <2>2 DEF QueueInOrder
<1>8. ASSUME NEW i \in Row, LeaseExpires(i) \/ BackoffElapses(i) PROVE QueueInOrder'
  BY <1>1, <1>8 DEF QueueInOrder, LeaseExpires, BackoffElapses
<1>9. CASE UNCHANGED outboxVars
  BY <1>1, <1>9 DEF QueueInOrder, outboxVars
<1> QED BY <1>3, <1>4, <1>5, <1>6, <1>7, <1>8, <1>9 DEF OutboxNext
---------------------------------------------------------------------------
(* Every step keeps the two systems together. *)

\* A change and its row: what the row settles is what the change has made of it.
LEMMA ChangeAgrees ==
    ASSUME AccessInv, NEW o \in AccessOp, Enqueue(o), deleted' = deleted,
           overtaken' = (overtaken \/ page # <<>>), UNCHANGED <<imVars, calls, pageVars>>,
           \A e \in Place : IF Settles(o, e) THEN InDb(e)' <=> Gives(o, e)
                            ELSE InDb(e)' <=> InDb(e)
    PROVE  (DbFollowsRows /\ PageIsCurrent /\ ImFollowsDb)'
<1> USE DEF AccessInv, AccessTyped
<1>1. PICK n \in Row :
        /\ status[n] = "absent"
        /\ op' = [op EXCEPT ![n] = o] /\ status' = [status EXCEPT ![n] = "pending"]
        /\ UNCHANGED <<batch, outcome, faults>>
  BY DEF Enqueue
<1>2. op'[n] = o /\ status'[n] = "pending"
  BY <1>1 DEF OutboxTypeOK
<1>3. \A i \in Row : i # n => op'[i] = op[i] /\ status'[i] = status[i]
  BY <1>1 DEF OutboxTypeOK
<1>4. \A i \in Row : status[i] # "absent" => i < n
  BY <1>1, OutboxAssumption DEF QueueInOrder, Row
<1>5. PageIsCurrent'
  <2>1. ~overtaken' => page' = <<>>
    BY DEF pageVars
  <2> QED BY <2>1 DEF PageIsCurrent
<1>6. DbFollowsRows'
  <2> SUFFICES ASSUME deleted = {}, NEW e \in Place, NEW i \in Row, IsLastAbout(i, e)'
               PROVE  InDb(e)' <=> Gives(op[i], e)'
    BY DEF DbFollowsRows
  <2>1. CASE i = n
    BY <1>2, <2>1 DEF IsLastAbout, Settles, Gives
  <2>2. CASE i # n
    <3>1. status[i] # "absent" /\ i < n
      BY <1>3, <1>4, <2>2 DEF IsLastAbout
    <3>2. n > i /\ status'[n] # "absent"
      BY <1>2, <3>1, OutboxAssumption DEF Row
    <3>3. ~Settles(op'[n], e)
      BY <3>2 DEF IsLastAbout, Settles
    <3>4. ~Settles(o, e)
      BY <1>2, <3>3
    <3>5. IsLastAbout(i, e)
      <4>1. Settles(op[i], e)
        BY <1>3, <2>2 DEF IsLastAbout, Settles
      <4>2. ASSUME NEW j \in Row, j > i, status[j] # "absent" PROVE ~Settles(op[j], e)
        <5>1. j # n /\ status'[j] = status[j] /\ op'[j] = op[j]
          BY <1>1, <1>3, <4>2
        <5>2. ~Settles(op'[j], e)
          BY <4>2, <5>1 DEF IsLastAbout, Settles
        <5> QED BY <5>1, <5>2
      <4> QED BY <3>1, <4>1, <4>2 DEF IsLastAbout
    <3>6. InDb(e) <=> Gives(op[i], e)
      BY <3>5 DEF DbFollowsRows
    <3> QED BY <1>3, <2>2, <3>4, <3>6 DEF Gives
  <2> QED BY <2>1, <2>2
<1>7. ImFollowsDb'
  <2> SUFFICES ASSUME faults' = 0, deleted' = {}, ~overtaken', NEW e \in Place
               PROVE  (InIm(e)' <=> InDb(e)') \/ \E i \in Row : Owed(i, e)'
    BY DEF ImFollowsDb
  <2>1. (InIm(e) <=> InDb(e)) \/ \E i \in Row : Owed(i, e)
    BY <1>1 DEF ImFollowsDb
  <2>2. InIm(e)' <=> InIm(e)
    BY DEF InIm, imVars
  <2>3. CASE Settles(o, e)
    <3>1. PICK k \in 1..Len(CallsOf(o)) : IsAt(CallsOf(o)[k], e)
      BY <2>3, CallsDecide
    <3>2. Owed(n, e)'
      BY <1>2, <3>1 DEF Owed
    <3> QED BY <3>2
  <2>4. CASE ~Settles(o, e)
    <3>1. InDb(e)' <=> InDb(e)
      BY <2>4
    <3>2. ASSUME NEW i \in Row, Owed(i, e) PROVE Owed(i, e)'
      <4>1. i # n
        BY <1>1, <3>2 DEF Owed, RowsHaveOps
      <4>2. op'[i] = op[i] /\ status'[i] = status[i] /\ UNCHANGED <<batch, outcome, calls>>
        BY <1>1, <1>3, <4>1
      <4> QED BY <3>2, <4>2 DEF Owed, IsCurrent
    <3> QED BY <2>1, <2>2, <3>1, <3>2
  <2> QED BY <2>3, <2>4
<1> QED BY <1>5, <1>6, <1>7

\* A call lands: its entry agrees, or a later row has still to write it.
LEMMA CallAgrees ==
    ASSUME OneWorker, AccessInv, NEW w \in Worker, CallSucceeds(w)
    PROVE  ImFollowsDb'
<1> USE DEF AccessInv, AccessTyped
<1>1. PICK i \in Row :
        /\ IsCurrent(w, i) /\ outcome[w] = "none"
        /\ LandCall(CurrentCall(w, i))
        /\ IF IsLast(w, i)
             THEN outcome' = [outcome EXCEPT ![w] = "ok"] /\ calls' = [calls EXCEPT ![w] = 0]
             ELSE calls' = [calls EXCEPT ![w] = @ + 1] /\ outcome' = outcome
        /\ UNCHANGED <<op, status, batch, faults, dbVars, overtaken>>
  BY DEF CallSucceeds
<1> DEFINE c == CurrentCall(w, i)
           k == calls[w] + 1
<1>2. /\ op[i] \in AccessOp /\ i \in batch[w] /\ EntryOf(c) \in Place
      /\ calls[w] \in 0..2 /\ k \in 1..Len(CallsOf(op[i])) /\ c = CallsOf(op[i])[k]
      /\ Len(CallsOf(op[i])) \in 1..3
  BY <1>1, CurrentCallIs DEF CurrentCall
<1>3. status[i] = "processing"
  BY <1>2 DEF OneWorkerInv, BatchIsProcessing
<1>4. \A e \in Place : IF IsAt(c, e) THEN InIm(e)' <=> c.add ELSE InIm(e)' <=> InIm(e)
  BY <1>1, <1>2, CallLands
<1> SUFFICES ASSUME faults' = 0, deleted' = {}, ~overtaken', NEW e \in Place
             PROVE  (InIm(e)' <=> InDb(e)') \/ \E j \in Row : Owed(j, e)'
  BY DEF ImFollowsDb
<1>5. faults = 0 /\ deleted = {} /\ ~overtaken /\ (InDb(e)' <=> InDb(e))
  BY <1>1 DEF dbVars, InDb
<1> HIDE DEF c, k
<1>6. CASE IsAt(c, e)
  <2>1. Settles(op[i], e) /\ (InIm(e)' <=> Gives(op[i], e))
    BY <1>2, <1>4, <1>6, CallsDecide
  <2>2. CASE \E j \in Row : j > i /\ status[j] # "absent" /\ Settles(op[j], e)
    <3>1. PICK j \in Row : j > i /\ status[j] # "absent" /\ Settles(op[j], e)
      BY <2>2
    <3>2. i < j
      BY <3>1, OutboxAssumption DEF Row
    <3>3. op[j] \in AccessOp
      BY <3>1 DEF RowsHaveOps
    <3>4. PICK m \in 1..Len(CallsOf(op[j])) : IsAt(CallsOf(op[j])[m], e)
      BY <3>1, <3>3, CallsDecide
    <3>5. status[j] \in {"pending", "processing"}
      BY <1>3, <1>5, <3>1, <3>2 DEF QueueInOrder, OutboxTypeOK, Status
    <3>6. status[j] = "processing" => j \in batch[w]
      BY <1>5, <3>1 DEF QueueInOrder, OneWorker
    <3>7. ~IsCurrent(w, j)
      BY <1>2, <3>2, OutboxAssumption DEF IsCurrent, Row
    <3>8. Owed(j, e)'
      BY <1>1, <3>4, <3>5, <3>6, <3>7 DEF Owed, IsCurrent
    <3> QED BY <3>8
  <2>3. CASE ~\E j \in Row : j > i /\ status[j] # "absent" /\ Settles(op[j], e)
    <3>1. IsLastAbout(i, e)
      BY <1>3, <2>1, <2>3 DEF IsLastAbout
    <3>2. InDb(e) <=> Gives(op[i], e)
      BY <1>5, <3>1 DEF DbFollowsRows
    <3> QED BY <1>5, <2>1, <3>2
  <2> QED BY <2>2, <2>3
<1>7. CASE ~IsAt(c, e)
  <2>1. InIm(e)' <=> InIm(e)
    BY <1>4, <1>7
  <2>2. (InIm(e) <=> InDb(e)) \/ \E j \in Row : Owed(j, e)
    BY <1>5 DEF ImFollowsDb
  <2>3. ASSUME NEW j \in Row, Owed(j, e) PROVE Owed(j, e)'
    <3>1. PICK m \in 1..Len(CallsOf(op[j])) :
            /\ IsAt(CallsOf(op[j])[m], e)
            /\ \/ status[j] = "pending"
               \/ \E v \in Worker :
                    j \in batch[v] /\ (IsCurrent(v, j) => outcome[v] = "none" /\ m > calls[v])
      BY <2>3 DEF Owed
    <3>2. CASE status[j] = "pending"
      BY <1>1, <3>1, <3>2 DEF Owed
    <3>3. CASE j \in batch[w] /\ ~IsCurrent(w, j)
      BY <1>1, <3>1, <3>3 DEF Owed, IsCurrent
    <3>4. CASE IsCurrent(w, j) /\ m > calls[w]
      <4>1. j = i
        BY <1>1, <3>4, OutboxAssumption DEF IsCurrent, Row
      <4>2. m # k
        BY <1>2, <1>7, <3>1, <4>1
      <4>3. m \in Nat /\ m <= Len(CallsOf(op[i])) /\ m > k
        <5> DEFINE n == Len(CallsOf(op[i]))
        <5>1. m \in 1..n /\ n \in 1..3 /\ calls[w] \in 0..2 /\ m > calls[w]
          BY <1>2, <3>1, <3>4, <4>1
        <5> HIDE DEF n
        <5>2. m \in Nat /\ m <= n /\ m > calls[w] + 1
          BY <4>2, <5>1 DEF k
        <5> QED BY <5>2 DEF n, k
      <4>4. ~IsLast(w, i)
        BY <1>2, <4>3 DEF IsLast, k
      <4>5. outcome' = outcome /\ calls'[w] = k
        BY <1>1, <4>4 DEF k, AccessTypeOK
      <4> QED BY <1>1, <1>2, <3>1, <4>1, <4>3, <4>5 DEF Owed, IsCurrent
    <3> QED BY <3>1, <3>2, <3>3, <3>4 DEF OneWorker
  <2> QED BY <1>5, <2>1, <2>2, <2>3
<1> QED BY <1>6, <1>7

\* Every kind of change enqueues the row that says what it has done.
LEMMA AskAgrees ==
    ASSUME AccessInv, NEW kind, NEW u, NEW v, Ask(kind, u, v), deleted' = deleted,
           [kind |-> kind, user |-> u, friend |-> v] \in AccessOp,
           \A e \in Place : IF Settles([kind |-> kind, user |-> u, friend |-> v], e)
                            THEN InDb(e)' <=> Gives([kind |-> kind, user |-> u, friend |-> v], e)
                            ELSE InDb(e)' <=> InDb(e)
    PROVE  (DbFollowsRows /\ PageIsCurrent /\ ImFollowsDb)'
  BY ChangeAgrees DEF Ask

LEMMA ChangesAgree ==
    ASSUME AccessInv,
           \/ \E u \in Actor, v \in User : Befriend(u, v) \/ Unfriend(u, v)
                                           \/ Block(u, v) \/ UnblockUser(u, v)
           \/ \E u \in Candidate : \/ SetWukongSystemUser(u, TRUE)
                                   \/ SetWukongSystemUser(u, FALSE) \/ DropAccount(u)
    PROVE  (DbFollowsRows /\ PageIsCurrent /\ ImFollowsDb)'
<1> DEFINE Agree == (DbFollowsRows /\ PageIsCurrent /\ ImFollowsDb)'
           row(k, u, v) == [kind |-> k, user |-> u, friend |-> v]
           Says(o) == \A e \in Place : IF Settles(o, e) THEN InDb(e)' <=> Gives(o, e)
                                       ELSE InDb(e)' <=> InDb(e)
<1>1. Actor \subseteq User /\ Candidate \subseteq User
  BY AccessAssumption DEF User
<1>2. ASSUME NEW u \in Actor, NEW v \in User,
             NEW k \in {"allow", "remove", "block", "unblock"}
      PROVE  row(k, u, v) \in AccessOp
  BY <1>1 DEF AccessOp
<1>3. ASSUME NEW u \in Candidate, NEW k \in {"system_add", "system_remove"}
      PROVE  row(k, u, 0) \in AccessOp
  BY <1>1 DEF AccessOp
<1>4. ASSUME NEW u \in Actor, NEW v \in User, Befriend(u, v) PROVE Agree
  <2>1. Ask("allow", u, v) /\ deleted' = deleted
    BY <1>4 DEF Befriend
  <2>2. Says(row("allow", u, v))
    BY <1>4 DEF Befriend, InDb, Settles, Gives, Both
  <2>3. row("allow", u, v) \in AccessOp
    BY <1>2
  <2> QED BY <2>1, <2>2, <2>3, AskAgrees
<1>5. ASSUME NEW u \in Actor, NEW v \in User, Unfriend(u, v) PROVE Agree
  <2>1. Ask("remove", u, v) /\ deleted' = deleted
    BY <1>5 DEF Unfriend
  <2>2. Says(row("remove", u, v))
    BY <1>5 DEF Unfriend, InDb, Settles, Gives, Both
  <2>3. row("remove", u, v) \in AccessOp
    BY <1>2
  <2> QED BY <2>1, <2>2, <2>3, AskAgrees
<1>6. ASSUME NEW u \in Actor, NEW v \in User, Block(u, v) PROVE Agree
  <2>1. Ask("block", u, v) /\ deleted' = deleted
    BY <1>6 DEF Block
  <2>2. Says(row("block", u, v))
    BY <1>6 DEF Block, InDb, Settles, Gives, Both
  <2>3. row("block", u, v) \in AccessOp
    BY <1>2
  <2> QED BY <2>1, <2>2, <2>3, AskAgrees
<1>7. ASSUME NEW u \in Actor, NEW v \in User, UnblockUser(u, v) PROVE Agree
  <2>1. Ask("unblock", u, v) /\ deleted' = deleted
    BY <1>7 DEF UnblockUser
  <2>2. Says(row("unblock", u, v))
    BY <1>7 DEF UnblockUser, InDb, Settles, Gives, Both
  <2>3. row("unblock", u, v) \in AccessOp
    BY <1>2
  <2> QED BY <2>1, <2>2, <2>3, AskAgrees
<1>8. ASSUME NEW u \in Candidate, SetWukongSystemUser(u, TRUE) PROVE Agree
  <2>1. Ask("system_add", u, 0) /\ deleted' = deleted
    BY <1>8 DEF SetWukongSystemUser
  <2>2. Says(row("system_add", u, 0))
    BY <1>8 DEF SetWukongSystemUser, InDb, Settles, Gives
  <2>3. row("system_add", u, 0) \in AccessOp
    BY <1>3
  <2> QED BY <2>1, <2>2, <2>3, AskAgrees
<1>9. ASSUME NEW u \in Candidate, SetWukongSystemUser(u, FALSE) PROVE Agree
  <2>1. Ask("system_remove", u, 0) /\ deleted' = deleted
    BY <1>9 DEF SetWukongSystemUser
  <2>2. Says(row("system_remove", u, 0))
    BY <1>9 DEF SetWukongSystemUser, InDb, Settles, Gives
  <2>3. row("system_remove", u, 0) \in AccessOp
    BY <1>3
  <2> QED BY <2>1, <2>2, <2>3, AskAgrees
<1>10. ASSUME NEW u \in Candidate, DropAccount(u) PROVE Agree
  <2>1. deleted' # {} /\ overtaken' = (overtaken \/ page # <<>>) /\ page' = page
    BY <1>10 DEF DropAccount, Ask, pageVars
  <2>2. PageIsCurrent'
    <3>1. ~overtaken' => page' = <<>>
      BY <2>1
    <3> QED BY <3>1 DEF PageIsCurrent
  <2> QED BY <2>1, <2>2 DEF DbFollowsRows, ImFollowsDb
<1> QED BY <1>4, <1>5, <1>6, <1>7, <1>8, <1>9, <1>10

\* The other steps change no row's operation and nothing in PostgreSQL.
LEMMA StillFollows ==
    ASSUME AccessInv, UNCHANGED <<op, dbVars>>,
           \A i \in Row : status'[i] # "absent" <=> status[i] # "absent"
    PROVE  DbFollowsRows'
  BY DEF AccessInv, DbFollowsRows, IsLastAbout, Settles, Gives, InDb, dbVars

LEMMA OutboxStepAgrees ==
    ASSUME OneWorker, AccessInv, OutboxStep
    PROVE  (DbFollowsRows /\ PageIsCurrent /\ ImFollowsDb)'
<1> USE DEF AccessInv, AccessTyped
<1>1. UNCHANGED <<dbVars, imVars, calls, pageVars, overtaken>>
  BY DEF OutboxStep
<1>2. op' = op /\ faults' = faults
  BY DEF OutboxStep, ClaimWukongOutbox, ClaimAs, Record, RecordAs, LeaseExpires, BackoffElapses
<1>3. PageIsCurrent'
  BY <1>1 DEF PageIsCurrent, pageVars, dbVars, FriendsOf, BlockedBy
<1>4. ASSUME \A i \in Row : status'[i] # "absent" <=> status[i] # "absent",
             faults = 0 => \A i \in Row, e \in Place : Owed(i, e) => Owed(i, e)'
      PROVE  DbFollowsRows' /\ ImFollowsDb'
  <2>1. DbFollowsRows'
    BY <1>1, <1>2, <1>4, StillFollows
  <2>2. ImFollowsDb'
    BY <1>1, <1>2, <1>4 DEF ImFollowsDb, InDb, InIm, dbVars, imVars
  <2> QED BY <2>1, <2>2
<1>5. ASSUME NEW w \in Worker, ClaimWukongOutbox(w) PROVE DbFollowsRows' /\ ImFollowsDb'
  <2>1. /\ batch[w] = {} /\ batch' = [batch EXCEPT ![w] = Picked] /\ outcome' = outcome
        /\ status' = [i \in Row |-> IF i \in Picked THEN "processing" ELSE status[i]]
    BY <1>5 DEF ClaimWukongOutbox, ClaimAs
  <2>2. Picked \subseteq {i \in Row : status[i] # "absent"}
    BY DEF Picked, Claimable
  <2>3. outcome[w] = "none" /\ calls[w] = 0
    BY <2>1 DEF OneWorkerInv, OutboxInv, OutcomeOfCurrent, CallsInRange
  <2>4. ASSUME NEW i \in Row, NEW e \in Place, Owed(i, e) PROVE Owed(i, e)'
    <3>1. PICK k \in 1..Len(CallsOf(op[i])) : IsAt(CallsOf(op[i])[k], e) /\ status[i] = "pending"
      BY <2>1, <2>4 DEF Owed, OneWorker
    <3>2. CASE i \in Picked
      <4>1. i \in batch'[w]
        BY <2>1, <3>2 DEF OutboxTypeOK
      <4>2. outcome'[w] = "none" /\ k > calls'[w]
        BY <1>1, <2>1, <2>3
      <4> QED BY <1>2, <3>1, <4>1, <4>2 DEF Owed
    <3>3. CASE i \notin Picked
      BY <1>2, <2>1, <3>1, <3>3 DEF Owed
    <3> QED BY <3>2, <3>3
  <2> QED BY <1>4, <2>1, <2>2, <2>4
<1>6. ASSUME NEW w \in Worker, Record(w) PROVE DbFollowsRows' /\ ImFollowsDb'
  <2>1. PICK n \in Row :
          /\ IsCurrent(w, n) /\ outcome[w] # "none"
          /\ status' = [status EXCEPT ![n] = [ok |-> "completed", retry |-> "pending",
                                              rejected |-> "failed"][outcome[w]]]
          /\ batch' = [batch EXCEPT ![w] = @ \ {n}]
          /\ outcome' = [outcome EXCEPT ![w] = "none"]
    BY <1>6 DEF Record, RecordAs
  <2>2. status[n] = "processing" /\ calls[w] = 0
    BY <2>1 DEF OneWorkerInv, BatchIsProcessing, IsCurrent, CallsInRange
  <2>3. \A i \in Row : status'[i] # "absent" <=> status[i] # "absent"
    BY <2>1, <2>2 DEF OutboxTypeOK, Outcome
  <2>4. ASSUME NEW i \in Row, NEW e \in Place, Owed(i, e) PROVE Owed(i, e)'
    <3>1. i # n /\ status'[i] = status[i]
      BY <2>1, <2>2, <2>4 DEF Owed, OneWorker
    <3>2. PICK k \in 1..Len(CallsOf(op[i])) : /\ IsAt(CallsOf(op[i])[k], e)
                                              /\ status[i] = "pending" \/ i \in batch[w]
      BY <2>4 DEF Owed, OneWorker
    <3>3. CASE status[i] = "pending"
      BY <1>2, <3>1, <3>2, <3>3 DEF Owed
    <3>4. CASE i \in batch[w]
      <4>1. i \in batch'[w] /\ outcome'[w] = "none" /\ k > calls'[w]
        BY <1>1, <2>1, <2>2, <3>1, <3>4 DEF OutboxTypeOK
      <4> QED BY <1>2, <3>2, <4>1 DEF Owed
    <3> QED BY <3>2, <3>3, <3>4
  <2> QED BY <1>4, <2>3, <2>4
<1>7. ASSUME NEW i \in Row, LeaseExpires(i) \/ BackoffElapses(i)
      PROVE  DbFollowsRows' /\ ImFollowsDb'
  <2>1. UNCHANGED <<status, batch, outcome>>
    BY <1>7 DEF LeaseExpires, BackoffElapses
  <2> QED BY <1>1, <1>2, <1>4, <2>1 DEF Owed, IsCurrent
<1> QED BY <1>3, <1>5, <1>6, <1>7 DEF OutboxStep

LEMMA PageStepAgrees ==
    ASSUME AccessInv, ListWukongUserAccess \/ WriteList \/ DropPage
    PROVE  (DbFollowsRows /\ PageIsCurrent /\ ImFollowsDb)'
<1> USE DEF AccessInv, AccessTyped
<1>1. UNCHANGED <<outboxVars, dbVars, sysuids, calls, overtaken>>
  BY DEF ListWukongUserAccess, WriteList, DropPage, imVars
<1>2. DbFollowsRows'
  BY <1>1, StillFollows DEF outboxVars
<1>3. \A i \in Row, e \in Place : Owed(i, e)' <=> Owed(i, e)
  BY <1>1 DEF Owed, IsCurrent, outboxVars
<1>4. \A e \in Place : InDb(e)' <=> InDb(e)
  BY <1>1 DEF InDb, dbVars
<1>5. \A u \in User : FriendsOf(u)' = FriendsOf(u) /\ BlockedBy(u)' = BlockedBy(u)
  BY <1>1 DEF FriendsOf, BlockedBy, dbVars
<1>6. CASE ListWukongUserAccess
  <2>1. page' = Snapshot(Listed) /\ UNCHANGED imVars
    BY <1>6 DEF ListWukongUserAccess
  <2>2. ImFollowsDb'
    BY <1>1, <1>3, <1>4, <2>1 DEF ImFollowsDb, InIm, imVars, outboxVars, dbVars
  <2>3. PageIsCurrent'
    BY <1>1, <2>1, ListedFits, SnapshotTyped DEF PageIsCurrent, FriendsOf, BlockedBy, dbVars
  <2> QED BY <1>2, <2>2, <2>3
<1>7. CASE DropPage
  <2>1. page' = <<>> /\ UNCHANGED imVars
    BY <1>7 DEF DropPage
  <2>2. ImFollowsDb'
    BY <1>1, <1>3, <1>4, <2>1 DEF ImFollowsDb, InIm, imVars, outboxVars, dbVars
  <2> QED BY <1>2, <2>1, <2>2 DEF PageIsCurrent
<1>8. CASE WriteList
  <2> DEFINE s == Head(page)
  <2>1. s = page[1] /\ s \in Snap /\ 1 \in 1..Len(page)
    BY <1>8 DEF WriteList, PageTyped
  <2>2. s.user \in User
    BY <2>1 DEF Snap
  <2>3. ~overtaken => s.allow = FriendsOf(s.user) /\ s.deny = BlockedBy(s.user)
    BY <2>1 DEF PageIsCurrent
  <2>4. \/ /\ allow' = [allow EXCEPT ![s.user] = s.allow] /\ UNCHANGED <<deny, page>>
        \/ /\ deny' = [deny EXCEPT ![s.user] = s.deny] /\ page' = Tail(page) /\ allow' = allow
    BY <1>8 DEF WriteList
  <2>5. PageIsCurrent'
    <3>1. ASSUME page' = Tail(page), NEW k \in 1..Len(page')
          PROVE  k + 1 \in 1..Len(page) /\ page'[k] = page[k + 1]
      <4>1. page \in Seq(Snap) /\ page # <<>>
        BY <1>8 DEF WriteList, PageTyped
      <4>2. Len(Tail(page)) = Len(page) - 1 /\ Len(page) \in Nat
        BY <4>1
      <4>3. \A m \in 1..(Len(page) - 1) : Tail(page)[m] = page[m + 1]
        BY <4>1
      <4> QED BY <3>1, <4>2, <4>3
    <3>2. ASSUME NEW k \in 1..Len(page) PROVE page[k].user \in User
      <4>1. page \in Seq(Snap)
        BY DEF PageTyped
      <4>2. page[k] \in Snap
        BY <4>1
      <4> QED BY <4>2 DEF Snap
    <3> QED BY <1>1, <1>5, <2>4, <3>1, <3>2 DEF PageIsCurrent
  <2> HIDE DEF s
  <2>6. ASSUME ~overtaken, NEW e \in Place
        PROVE  (InIm(e)' <=> InIm(e)) \/ (InIm(e)' <=> InDb(e))
    <3>1. CASE allow' = [allow EXCEPT ![s.user] = s.allow] /\ UNCHANGED deny
      <4>1. CASE e.list = "allow" /\ e.at = s.user
        BY <1>1, <2>2, <2>3, <2>6, <3>1, <4>1 DEF AccessTypeOK, InIm, InDb, FriendsOf, Place
      <4>2. CASE e.list # "allow" \/ e.at # s.user
        BY <1>1, <3>1, <4>2 DEF AccessTypeOK, InIm, Place
      <4> QED BY <4>1, <4>2
    <3>2. CASE deny' = [deny EXCEPT ![s.user] = s.deny] /\ allow' = allow
      <4>1. CASE e.list = "deny" /\ e.at = s.user
        BY <1>1, <2>2, <2>3, <2>6, <3>2, <4>1 DEF AccessTypeOK, InIm, InDb, BlockedBy, Place
      <4>2. CASE e.list # "deny" \/ e.at # s.user
        BY <1>1, <3>2, <4>2 DEF AccessTypeOK, InIm, Place
      <4> QED BY <4>1, <4>2
    <3> QED BY <2>4, <3>1, <3>2
  <2>7. ImFollowsDb'
    BY <1>1, <1>3, <1>4, <2>6 DEF ImFollowsDb, outboxVars, dbVars
  <2> QED BY <1>2, <2>5, <2>7
<1> QED BY <1>6, <1>7, <1>8

LEMMA AccessInvInit ==
    ASSUME AccessInit PROVE AccessInv
<1>1. OutboxTypeOK
  BY AccessTypedInit DEF AccessTyped
<1>2. OneWorkerInv
  BY <1>1 DEF AccessInit, OutboxInit, OneWorkerInv, OutboxInv, OutcomeOfCurrent,
              CompletedWasPerformed, BatchIsProcessing
<1>3. QueueInOrder
  BY DEF AccessInit, OutboxInit, QueueInOrder
<1>4. DbFollowsRows
  BY DEF AccessInit, OutboxInit, DbFollowsRows, IsLastAbout
<1>5. PageIsCurrent
  BY DEF AccessInit, PageIsCurrent
<1>6. ImFollowsDb
  <2>1. \A e \in Place : InIm(e) <=> InDb(e)
    BY DEF AccessInit, InIm, InDb, Place
  <2> QED BY <2>1 DEF ImFollowsDb
<1> QED BY <1>2, <1>3, <1>4, <1>5, <1>6, AccessTypedInit DEF AccessInv

LEMMA AccessInvInductive ==
    ASSUME OneWorker, AccessInv, [AccessNext]_accessVars
    PROVE  AccessInv'
<1>1. [OutboxNext]_outboxVars
  BY AccessStepRefines
<1>2. AccessTyped'
  BY AccessTypedInductive DEF AccessInv
<1>3. OutboxInv' /\ BatchIsProcessing'
  BY <1>1, <1>2, OutboxInvInductive, BatchInductive
  DEF AccessInv, OneWorkerInv, OutboxInv, AccessTyped
<1>4. QueueInOrder'
  BY <1>1, QueueInductive DEF AccessInv
<1>5. (DbFollowsRows /\ PageIsCurrent /\ ImFollowsDb)'
  <2>1. ASSUME NEW w \in Worker, CallSucceeds(w) PROVE (DbFollowsRows /\ PageIsCurrent)'
    <3>1. UNCHANGED <<op, status, dbVars, pageVars, overtaken>>
      BY <2>1 DEF CallSucceeds
    <3>2. DbFollowsRows'
      BY <3>1, StillFollows
    <3>3. PageIsCurrent'
      BY <3>1 DEF AccessInv, PageIsCurrent, FriendsOf, BlockedBy, dbVars, pageVars
    <3> QED BY <3>2, <3>3
  <2>2. ASSUME NEW w \in Worker, CallFails(w) \/ AbandonCalls(w)
        PROVE  (DbFollowsRows /\ PageIsCurrent /\ ImFollowsDb)'
    <3>1. UNCHANGED <<op, status, dbVars, pageVars, overtaken>> /\ faults' = faults + 1
      BY <2>2 DEF CallFails, CallFailsAs, AbandonCalls, Abandon
    <3>2. DbFollowsRows'
      BY <3>1, StillFollows
    <3>3. PageIsCurrent'
      BY <3>1 DEF AccessInv, PageIsCurrent, FriendsOf, BlockedBy, dbVars, pageVars
    <3>4. faults' # 0
      BY <3>1 DEF AccessInv, AccessTyped, OutboxTypeOK
    <3> QED BY <3>2, <3>3, <3>4 DEF ImFollowsDb
  <2>3. CASE UNCHANGED accessVars
    <3>1. \A i \in Row, e \in Place : Owed(i, e)' <=> Owed(i, e)
      BY <2>3 DEF Owed, IsCurrent, accessVars, outboxVars
    <3>2. \A e \in Place : (InIm(e)' <=> InIm(e)) /\ (InDb(e)' <=> InDb(e))
      BY <2>3 DEF InIm, InDb, accessVars, dbVars, imVars
    <3>3. DbFollowsRows'
      BY <2>3, StillFollows DEF accessVars, outboxVars
    <3>4. PageIsCurrent'
      BY <2>3 DEF AccessInv, PageIsCurrent, FriendsOf, BlockedBy, accessVars, dbVars, pageVars
    <3> QED BY <2>3, <3>1, <3>2, <3>3, <3>4
        DEF AccessInv, ImFollowsDb, accessVars, outboxVars, dbVars
  <2> QED BY <2>1, <2>2, <2>3, ChangesAgree, CallAgrees, OutboxStepAgrees, PageStepAgrees
      DEF AccessNext
<1> QED BY <1>2, <1>3, <1>4, <1>5 DEF AccessInv, OneWorkerInv

\* When nothing is outstanding, no row owes an entry: the two systems agree.
LEMMA QuietMeansAgree ==
    ASSUME AccessInv PROVE QuietAccessAgrees
<1> USE DEF AccessInv, AccessTyped
<1> SUFFICES ASSUME AccessQuiet PROVE ListsAgree /\ sysuids = systems
  BY DEF QuietAccessAgrees
<1>1. \A w \in Worker : batch[w] = {}
  BY DEF AccessQuiet, OneWorkerInv, BatchIsProcessing, OutboxTypeOK
<1>2. \A i \in Row, e \in Place : ~Owed(i, e)
  BY <1>1 DEF Owed, AccessQuiet
<1>3. \A e \in Place : InIm(e) <=> InDb(e)
  BY <1>2 DEF ImFollowsDb, AccessQuiet
<1>4. \A u, v \in User : /\ v \in allow[u] <=> v \in FriendsOf(u)
                         /\ v \in deny[u] <=> v \in BlockedBy(u)
  <2> TAKE u, v \in User
  <2>1. [list |-> "allow", at |-> u, who |-> v] \in Place
    BY DEF Place
  <2>2. [list |-> "deny", at |-> u, who |-> v] \in Place
    BY DEF Place
  <2>3. v \in allow[u] <=> v \in FriendsOf(u)
    BY <1>3, <2>1 DEF InIm, InDb, FriendsOf
  <2>4. v \in deny[u] <=> v \in BlockedBy(u)
    BY <1>3, <2>2 DEF InIm, InDb, BlockedBy
  <2> QED BY <2>3, <2>4
<1>5. \A v \in User : v \in sysuids <=> v \in systems
  <2> TAKE v \in User
  <2>1. [list |-> "system", at |-> 0, who |-> v] \in Place
    BY DEF Place
  <2> QED BY <1>3, <2>1 DEF InIm, InDb
<1>6. ListsAgree
  BY <1>4 DEF ListsAgree, FriendsOf, BlockedBy, AccessTypeOK
<1>7. sysuids = systems
  BY <1>5 DEF AccessTypeOK
<1> QED BY <1>6, <1>7

\* With one OutboxWorker, the access lists and the system users of WuKongIM are
\* those of PostgreSQL whenever nothing is outstanding or was disturbed: however
\* changes of one pair, the calls of their rows and pages of the reconciler
\* interleave.
THEOREM AccessStaysSafe ==
    ASSUME OneWorker
    PROVE  AccessSpec => []AccessSafety
<1>1. AccessInit => AccessInv
  BY AccessInvInit
<1>2. AccessInv /\ [AccessNext]_accessVars => AccessInv'
  BY AccessInvInductive
<1>3. AccessInv => AccessSafety
  BY QuietMeansAgree DEF AccessInv, AccessTyped, AccessSafety
<1> QED BY <1>1, <1>2, <1>3, PTL DEF AccessSpec
===========================================================================
