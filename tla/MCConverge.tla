------------------------------ MODULE MCConverge ------------------------------
(* The two servers beside PostgreSQL, and how each comes to agree with it:   *)
(* WuKongIM with the policy of a channel that two servers synchronise, and   *)
(* LiveKit with a call of two users in a group or alone.  "part" says which  *)
(* a behaviour is about; the variables of the other keep their values.  No   *)
(* symmetry: liveness is checked.                                            *)
EXTENDS ChannelSync, CallRooms

VARIABLE part

CONSTANTS a, b, g, d   \* model values

\* What changes is the denylist, as when a user is taken off the blacklist.
Unblacklisting == {{"deny"}}

MCInit ==
    /\ part \in {"channel", "rooms"}
    /\ ChannelInit /\ CallInit /\ RoomsInit
    /\ members[g] = {a, b} /\ members[d] = {a, b}
    /\ part = "channel" => enterprise

\* Who calls does not matter, and nobody leaves.
CallOfAnn == members' = members /\ \A x \in Call : caller'[x] \in {a, Nobody}

MCNext ==
    /\ part' = part
    /\ \/ part = "channel" /\ ChannelNext /\ silent' + faults' <= 1 /\ UNCHANGED roomsVars
       \/ /\ part = "rooms" /\ RoomsNext /\ UNCHANGED channelVars
          /\ CallOfAnn

\* The fairness of the two: but for the reconciler's visits, which are owed in
\* the part that is about channels, none of their steps is possible in the
\* part that is about the other.
MCFairness ==
    /\ \A w \in Worker :
          /\ WF_channelVars(Claim(w)) /\ SF_channelVars(BeginRow(w)) /\ WF_channelVars(Report(w))
          /\ \A x \in Channel : SF_channelVars(part = "channel" /\ BeginReconcile(w, x))
    /\ \A p \in Process : WF_channelVars(Load(p) \/ Apply(p) \/ ApplyLast(p))
    /\ \A i \in Row : WF_channelVars(Expire(i)) /\ WF_channelVars(Elapse(i))
    /\ WF_channelVars(LateArrival)
    /\ RoomsFairness

MCSpec == MCInit /\ [][MCNext]_<<part, channelVars, roomsVars>> /\ MCFairness
===============================================================================
