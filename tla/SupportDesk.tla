------------------------------ MODULE SupportDesk ------------------------------
(***************************************************************************)
(* Customer support: visitors open sessions in a skill group, agents are   *)
(* assigned when a session opens, when they become available or when a     *)
(* slot of theirs frees, or claim a session; sessions are transferred and  *)
(* ended.  Decisions of one skill group are serialised by a transaction's  *)
(* advisory lock; an agent may belong to several groups.  A decision reads *)
(* the loads in one statement; the row it locks then is checked again for  *)
(* the agent's own columns, not for the loads.                             *)
(***************************************************************************)
EXTENDS Naturals, FiniteSets, Sequences

CONSTANTS
    SkillGroup, Agent, Visitor,
    Session,                \* session ids
    DeskRequest,                \* concurrent transactions that choose an agent
    NoAgent,
    MaxConcurrent,          \* of an agent, over all groups
    MaxConcurrentPerAgent,  \* of an agent in one group
    MaxDeskSteps            \* bound on changes of agents' rows

ASSUME DeskAssumption ==
    /\ MaxConcurrent \in 1 .. 100 /\ MaxConcurrentPerAgent \in 1 .. 100 /\ MaxDeskSteps \in Nat
    /\ NoAgent \notin Agent /\ IsFiniteSet(Session)

VARIABLES
    session,    \* im_support_sessions
    arrived,    \* all sessions in order of queue_entered_at
    presence,     \* im_support_agents.status
    skillsOf,   \* im_support_agent_skills
    choosing,   \* transactions that hold a group's lock and have read the loads
    inChannel,  \* agents among the members of each visitor's channel
    deskSteps,
    freed       \* ghost: groups in which an agent's slot was freed since he last became available

deskVars == <<session, arrived, presence, skillsOf, choosing, inChannel, deskSteps, freed>>

NoSession == [status |-> "none", visitor |-> NoAgent, skill |-> NoAgent, agent |-> NoAgent]
Unfinished == {"queued", "active"}
NotChoosing == [kind |-> "none"]

DeskInit ==
    /\ session = [x \in Session |-> NoSession] /\ arrived = <<>>
    /\ presence \in [Agent -> {"available", "offline"}]
    /\ skillsOf = [g \in Agent |-> SkillGroup]
    /\ choosing = [r \in DeskRequest |-> NotChoosing]
    /\ inChannel = [v \in Visitor |-> {}] /\ deskSteps = 0 /\ freed = [g \in Agent |-> {}]

LoadIn(ses, g) == Cardinality({x \in Session : ses[x].status = "active" /\ ses[x].agent = g})
SkillLoadIn(ses, g, k) == Cardinality({x \in Session : ses[x].status = "active" /\ ses[x].agent = g /\ ses[x].skill = k})
Room(ses, g, k) == LoadIn(ses, g) < MaxConcurrent /\ SkillLoadIn(ses, g, k) < MaxConcurrentPerAgent

SkillFree(k) == \A r \in DeskRequest : choosing[r] # NotChoosing => choosing[r].skill # k

Assigned(ses, xs, g) == [x \in Session |-> IF x \in xs THEN [ses[x] EXCEPT !.status = "active", !.agent = g] ELSE ses[x]]
Visitors(ses, xs) == {ses[x].visitor : x \in xs}
WithAgent(members, vs, g) == [v \in Visitor |-> IF v \in vs THEN members[v] \union {g} ELSE members[v]]

\* Who may be given a session of group k: anyone available, or the agent asked for.
\* The order among them (priority, load, last assignment) is left open.
Eligible(k, requested) ==
    {g \in Agent : /\ k \in skillsOf[g] /\ Room(session, g, k)
                   /\ IF requested = NoAgent THEN presence[g] = "available"
                      ELSE g = requested /\ presence[g] \in {"available", "busy"}}

(***************************************************************************)
(* Opening and claiming.                                                   *)
(***************************************************************************)
\* A visitor has one open session: a second request finds the first one.
CreateSupportSession(r, x, v, k) ==
    /\ choosing[r] = NotChoosing /\ SkillFree(k)
    /\ session[x] = NoSession /\ \A q \in DeskRequest : choosing[q] # NotChoosing => choosing[q].x # x /\ choosing[q].visitor # v
    /\ \A y \in Session : session[y].visitor = v => session[y].status \notin Unfinished
    /\ choosing' = [choosing EXCEPT ![r] =
         [kind |-> "create", x |-> x, visitor |-> v, skill |-> k, eligible |-> Eligible(k, NoAgent)]]
    /\ UNCHANGED <<session, arrived, presence, skillsOf, inChannel, deskSteps, freed>>

ClaimSupportSession(r, x, g) ==
    /\ choosing[r] = NotChoosing /\ session[x].status = "queued" /\ SkillFree(session[x].skill)
    /\ choosing' = [choosing EXCEPT ![r] =
         [kind |-> "claim", x |-> x, visitor |-> session[x].visitor, skill |-> session[x].skill,
          eligible |-> Eligible(session[x].skill, g)]]
    /\ UNCHANGED <<session, arrived, presence, skillsOf, inChannel, deskSteps, freed>>

\* The agent's row, locked now, still allows it.
StillEligible(c) ==
    {g \in c.eligible : presence[g] = "available" \/ (c.kind = "claim" /\ presence[g] = "busy")}

\* Members left over from an earlier session are removed from the channel.
assignSupportSessionTx(r) ==
    LET c == choosing[r]
        opened == IF c.kind = "create"
                  THEN [session EXCEPT ![c.x] = [status |-> "queued", visitor |-> c.visitor, skill |-> c.skill, agent |-> NoAgent]]
                  ELSE session
        cleared == IF c.kind = "create" THEN [inChannel EXCEPT ![c.visitor] = {}] ELSE inChannel
    IN /\ c.kind \in {"create", "claim"} /\ choosing' = [choosing EXCEPT ![r] = NotChoosing]
       /\ arrived' = IF c.kind = "create" THEN Append(arrived, c.x) ELSE arrived
       /\ IF StillEligible(c) = {}
          THEN session' = opened /\ inChannel' = cleared
          ELSE \E g \in StillEligible(c) :
                 /\ session' = Assigned(opened, {c.x}, g)
                 /\ inChannel' = WithAgent(cleared, {c.visitor}, g)
       /\ UNCHANGED <<presence, skillsOf, deskSteps, freed>>

(***************************************************************************)
(* Filling an agent's slots from the queue, oldest first.                  *)
(***************************************************************************)
Fits(ses, taken, g, x) == Room(Assigned(ses, taken, g), g, ses[x].skill)

\* The sessions the agent takes: oldest first, every queued one of these groups
\* that fits beside those taken before it.  That the loop ends after 100 does not
\* matter, for no agent has more slots.
assignQueuedSessionsToAgentTx(ses, g, groups, taken) ==
    \A i \in DOMAIN arrived :
        LET x == arrived[i] IN
        x \in taken <=> /\ ses[x].status = "queued" /\ ses[x].skill \in groups
                        /\ Fits(ses, taken \intersect {arrived[j] : j \in 1 .. i - 1}, g, x)

\* What the rows become when agent g, with groups that may be filled, takes what he can.
FilledBy(ses, members, g, groups, available) ==
    \E taken \in SUBSET {arrived[i] : i \in DOMAIN arrived} :
       /\ IF available THEN assignQueuedSessionsToAgentTx(ses, g, groups, taken) ELSE taken = {}
       /\ session' = Assigned(ses, taken, g)
       /\ inChannel' = WithAgent(members, Visitors(ses, taken), g)
       /\ UNCHANGED arrived

\* A plausible slip: the status is changed without the groups' locks.
NoLocks(g) == TRUE
AgentFree(g) == \A k \in skillsOf[g] : SkillFree(k)

SetSupportAgentStatus(g, new) ==
    /\ deskSteps < MaxDeskSteps /\ deskSteps' = deskSteps + 1 /\ AgentFree(g)
    /\ presence' = [presence EXCEPT ![g] = new]
    /\ FilledBy(session, inChannel, g, skillsOf[g], new = "available")
    /\ freed' = IF new = "available" THEN [freed EXCEPT ![g] = {}] ELSE freed
    /\ UNCHANGED <<skillsOf, choosing>>

\* An agent keeps the groups of his sessions.
SaveSupportAgent(g, groups, new) ==
    /\ deskSteps < MaxDeskSteps /\ deskSteps' = deskSteps + 1
    /\ groups # {} /\ \A k \in groups \union skillsOf[g] : SkillFree(k)
    /\ \A x \in Session : session[x].status = "active" /\ session[x].agent = g => session[x].skill \in groups
    /\ presence' = [presence EXCEPT ![g] = new] /\ skillsOf' = [skillsOf EXCEPT ![g] = groups]
    /\ FilledBy(session, inChannel, g, groups, new = "available")
    /\ freed' = IF new = "available" THEN [freed EXCEPT ![g] = {}] ELSE freed
    /\ UNCHANGED choosing

\* Only the group of the session that ended is filled.
EndSupportSession(x) ==
    LET g == session[x].agent
        k == session[x].skill
        ended == [session EXCEPT ![x].status = "ended"]
    IN /\ session[x].status \in Unfinished /\ SkillFree(k)
       /\ IF g = NoAgent
          THEN session' = ended /\ UNCHANGED <<arrived, inChannel, freed>>
          ELSE /\ FilledBy(ended, [inChannel EXCEPT ![session[x].visitor] = @ \ {g}], g,
                           {k} \intersect skillsOf[g], presence[g] = "available")
               /\ freed' = [freed EXCEPT ![g] = @ \union {k}]
       /\ UNCHANGED <<presence, skillsOf, choosing, deskSteps>>

(***************************************************************************)
(* Transfers: the target is checked in one statement and not locked.       *)
(***************************************************************************)
TargetAllowed(h, k) ==
    /\ k \in skillsOf[h] /\ presence[h] \in {"available", "busy"}
    /\ LoadIn(session, h) < MaxConcurrent /\ LoadIn(session, h) < MaxConcurrentPerAgent

CheckTransfer(r, x, h) ==
    /\ choosing[r] = NotChoosing /\ session[x].status = "active" /\ h # session[x].agent /\ SkillFree(session[x].skill)
    /\ TargetAllowed(h, session[x].skill)
    /\ choosing' = [choosing EXCEPT ![r] =
         [kind |-> "transfer", x |-> x, visitor |-> session[x].visitor, skill |-> session[x].skill, eligible |-> {h}]]
    /\ UNCHANGED <<session, arrived, presence, skillsOf, inChannel, deskSteps, freed>>

\* A plausible slip: the agent who hands over stays in the channel.
Stays(members, v, g, h) == [members EXCEPT ![v] = @ \union {h}]
HandedOver(members, v, g, h) == [members EXCEPT ![v] = (@ \ {g}) \union {h}]

TransferSupportSession(r) ==
    LET c == choosing[r]
        g == session[c.x].agent
        h == CHOOSE target \in c.eligible : TRUE
    IN /\ c.kind = "transfer" /\ choosing' = [choosing EXCEPT ![r] = NotChoosing]
       /\ FilledBy(Assigned(session, {c.x}, h), HandedOver(inChannel, c.visitor, g, h), g,
                   {c.skill} \intersect skillsOf[g], presence[g] = "available")
       /\ freed' = [freed EXCEPT ![g] = @ \union {c.skill}]
       /\ UNCHANGED <<presence, skillsOf, deskSteps>>

DeskNext ==
    \/ \E r \in DeskRequest, x \in Session :
         \/ \E v \in Visitor, k \in SkillGroup : CreateSupportSession(r, x, v, k)
         \/ \E g \in Agent : ClaimSupportSession(r, x, g) \/ CheckTransfer(r, x, g)
    \/ \E r \in DeskRequest : assignSupportSessionTx(r) \/ TransferSupportSession(r)
    \/ \E g \in Agent, new \in {"available", "busy", "offline"} : SetSupportAgentStatus(g, new)
    \/ \E g \in Agent, groups \in SUBSET SkillGroup, new \in {"available", "busy", "offline"} : SaveSupportAgent(g, groups, new)
    \/ \E x \in Session : EndSupportSession(x)
DeskSpec == DeskInit /\ [][DeskNext]_deskVars

-----------------------------------------------------------------------------
\* Sessions have their states, and every opened one is in the order once.
DeskTypeOK ==
    /\ \A x \in Session : session[x].status \in {"none", "queued", "active", "ended"}
    /\ \A x \in Session : session[x].status = "active" => session[x].agent \in Agent
    /\ \A x \in Session : session[x].status = "none" <=> \A i \in DOMAIN arrived : arrived[i] # x

\* Nobody waits for an available agent of his group who has a free slot, unless
\* that slot was freed in another group (postgres_support.go:455): neither
\* opening a session while the agent becomes available nor ending several
\* leaves one behind.
QueueDrained ==
    \A x \in Session, g \in Agent :
        session[x].status = "queued" /\ presence[g] = "available" /\ session[x].skill \in skillsOf[g]
        /\ freed[g] \subseteq {session[x].skill} => ~Room(session, g, session[x].skill)

\* An agent never has more sessions in one group than the group allows,
\* whichever ways they came to him.
SkillCapacityKept ==
    \A g \in Agent, k \in SkillGroup : SkillLoadIn(session, g, k) <= MaxConcurrentPerAgent

\* Capacity checks remain exact when several visitors enter at once
\* (postgres_support.go:397): no agent has more sessions than his own limit.  It
\* does not hold: two groups are locked apart.
AgentCapacityKept == \A g \in Agent : LoadIn(session, g) <= MaxConcurrent

\* The agent of the open session, and no agent of an earlier one, is in a
\* visitor's channel (postgres_support.go:351).
ParticipantsOnly ==
    \A v \in Visitor :
        inChannel[v] = {session[x].agent : x \in {y \in Session : session[y].status = "active" /\ session[y].visitor = v}}

\* What entering, claiming, transferring, ending and the agents' own changes keep
\* to: the queue, the agents' load in a group, and who is in the channel.
DeskSafety == QueueDrained /\ SkillCapacityKept /\ ParticipantsOnly
=============================================================================
