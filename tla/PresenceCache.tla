---------------------------- MODULE PresenceCache ----------------------------
(***************************************************************************)
(* Who is online.  Queries that miss the cache share one flight per user;  *)
(* a fetch asks WuKongIM for the users of the flights a query opened, in   *)
(* one of two slots, and ends within its own time limit whatever becomes   *)
(* of the query that opened them.                                          *)
(***************************************************************************)
EXTENDS Naturals, FiniteSets

CONSTANTS
    Contact,     \* users whose presence is asked for
    Query,       \* requests
    Fetch,       \* 1..n, fetches in the order they are started
    Slots,       \* upstream calls at a time: 2 in the code
    MaxFlight,   \* flights at a time: 10000 in the code
    MaxEntry,    \* cached values: 10000 in the code
    Unseen       \* no value

ASSUME PresenceAssumption ==
    /\ IsFiniteSet(Contact) /\ Fetch \subseteq Nat \ {0}
    /\ Slots \in Nat \ {0} /\ MaxFlight \in Nat /\ MaxEntry \in Nat \ {0}

VARIABLES
    entry,     \* cached status of each user, or Unseen
    flight,    \* the fetch that will answer each user's flight, 0 if none
    fetch,     \* goroutines
    query      \* requests that wait

presenceVars == <<entry, flight, fetch, query>>

Status == {"online", "offline"}
NoQuery == [step |-> "idle"]

PresenceInit ==
    /\ entry = [c \in Contact |-> Unseen] /\ flight = [c \in Contact |-> 0]
    /\ fetch = [f \in Fetch |-> [step |-> "none"]]
    /\ query = [q \in Query |-> NoQuery]

Flying == {c \in Contact : flight[c] # 0}
Room == IF Cardinality(Flying) >= MaxFlight THEN 0 ELSE MaxFlight - Cardinality(Flying)

\* A plausible slip: flights of other queries are not looked at.
OpenAnyway(c) == entry[c] = Unseen

Missing(c) == entry[c] = Unseen /\ flight[c] = 0

\* Under the mutex: values in the cache, flights to wait for, and new ones.
\* Which users find no room is the order of the request.
QueryPresence(q, ids, f, fresh) ==
    /\ query[q].step = "idle"
    /\ LET missing == {c \in ids : Missing(c)}
       IN  /\ fresh \subseteq missing
           /\ Cardinality(fresh) = IF Cardinality(missing) <= Room THEN Cardinality(missing) ELSE Room
           /\ fetch[f].step = "none" /\ \A g \in Fetch : g < f => fetch[g].step # "none"
           /\ flight' = [c \in Contact |-> IF c \in fresh THEN f ELSE flight[c]]
           /\ fetch' = IF fresh = {} THEN fetch ELSE [fetch EXCEPT ![f] = [step |-> "slot", ids |-> fresh]]
           /\ query' = [query EXCEPT ![q] =
                [step |-> "wait",
                 on |-> [c \in ids |-> IF entry[c] = Unseen THEN flight'[c] ELSE 0],
                 got |-> [c \in ids |-> IF entry[c] # Unseen THEN entry[c] ELSE "unknown"]]]
    /\ UNCHANGED entry

Expire(c) ==
    /\ entry[c] # Unseen /\ entry' = [entry EXCEPT ![c] = Unseen]
    /\ UNCHANGED <<flight, fetch, query>>

TakeSlot(f) ==
    /\ fetch[f].step = "slot"
    /\ Cardinality({g \in Fetch : fetch[g].step = "load"}) < Slots
    /\ fetch' = [fetch EXCEPT ![f].step = "load"]
    /\ UNCHANGED <<entry, flight, query>>

\* What the map may hold after a fetch: each insertion into a full map drops an
\* entry, whichever the iteration meets first.
MakeRoom(candidates, known) ==
    IF Cardinality(candidates) <= MaxEntry THEN {candidates}
    ELSE {k \in SUBSET candidates : Cardinality(k) = MaxEntry}

EndFlights(f, answer) == [c \in Contact |-> IF c \in fetch[f].ids THEN 0 ELSE flight[c]]

KnownOf(f, answer) == {c \in fetch[f].ids : answer[c] # "unknown"}
Candidates(f, answer) == KnownOf(f, answer) \cup {c \in Contact \ fetch[f].ids : entry[c] # Unseen}

\* Stores what is known, ends its flights and wakes who waits for them.
EndFetch(f, answer) ==
    /\ \E kept \in MakeRoom(Candidates(f, answer), KnownOf(f, answer)) :
         entry' = [c \in Contact |-> IF c \notin kept THEN Unseen
                                    ELSE IF c \in fetch[f].ids THEN answer[c] ELSE entry[c]]
    /\ flight' = EndFlights(f, answer)
    /\ fetch' = [fetch EXCEPT ![f] = [step |-> "done", ids |-> fetch[f].ids, answer |-> answer]]
    /\ UNCHANGED query

AllUnknown(f) == [c \in fetch[f].ids |-> "unknown"]

LoadEnds(f) ==
    /\ fetch[f].step = "load"
    /\ \E answer \in [fetch[f].ids -> Status] \cup {AllUnknown(f)} : EndFetch(f, answer)

\* The five seconds ran out before a slot was free.
SlotTimeout(f) ==
    /\ fetch[f].step = "slot" /\ EndFetch(f, AllUnknown(f))

Waits(q) == {c \in DOMAIN query[q].on : query[q].on[c] # 0}

Receive(q, c) ==
    /\ query[q].step = "wait" /\ c \in Waits(q) /\ fetch[query[q].on[c]].step = "done"
    /\ query' = [query EXCEPT ![q].on[c] = 0, ![q].got[c] = fetch[query[q].on[c]].answer[c]]
    /\ UNCHANGED <<entry, flight, fetch>>

FetchGoesOn(q) == fetch

\* The request is cancelled: what it still waits for is unknown to it alone.
CancelQuery(q) ==
    /\ query[q].step = "wait" /\ Waits(q) # {}
    /\ query' = [query EXCEPT ![q].on = [c \in DOMAIN query[q].on |-> 0]]
    /\ fetch' = FetchGoesOn(q)
    /\ UNCHANGED <<entry, flight>>

\* Everything is answered; relations are looked up again before anything is shown.
UserPresence(q) ==
    /\ query[q].step = "wait" /\ Waits(q) = {}
    /\ query' = [query EXCEPT ![q] = NoQuery]
    /\ UNCHANGED <<entry, flight, fetch>>

FetchStep(f) == TakeSlot(f) \/ LoadEnds(f) \/ SlotTimeout(f)
QueryStep(q) == (\E c \in Contact : Receive(q, c)) \/ UserPresence(q)

PresenceNext ==
    \/ \E q \in Query :
         \/ \E ids \in SUBSET Contact \ {{}}, f \in Fetch, fresh \in SUBSET Contact :
              QueryPresence(q, ids, f, fresh)
         \/ QueryStep(q) \/ CancelQuery(q)
    \/ \E f \in Fetch : FetchStep(f)
    \/ \E c \in Contact : Expire(c)

\* Goroutines run and both waits of a fetch have a time limit.
PresenceFairness ==
    /\ \A f \in Fetch : WF_presenceVars(FetchStep(f))
    /\ \A q \in Query : WF_presenceVars(QueryStep(q))

PresenceSpec == PresenceInit /\ [][PresenceNext]_presenceVars /\ PresenceFairness

(***************************************************************************)
(* Properties.                                                             *)
(***************************************************************************)
Running == {f \in Fetch : fetch[f].step \in {"slot", "load"}}

\* Overlapping queries share the upstream call: no two fetches run for one user.
OneFetchPerUser == \A f, g \in Running : f # g => fetch[f].ids \cap fetch[g].ids = {}

\* A flight in the table has a fetch under way that will end it, and no other.
FlightWillEnd == \A c \in Contact : flight[c] # 0 =>
    flight[c] \in Running /\ c \in fetch[flight[c]].ids

\* The memory of the cache is bounded, also when a fetch brings many users.
EntriesBounded == Cardinality({c \in Contact : entry[c] # Unseen}) <= MaxEntry

\* Every query is answered, even if the one that opened its flight was cancelled.
EventuallyAnswered == \A q \in Query : query[q].step = "wait" ~> query[q].step = "idle"

\* The cache shares its flights, each of which somebody will end, and bounds its
\* memory.
PresenceKept == OneFetchPerUser /\ FlightWillEnd /\ EntriesBounded
=============================================================================
