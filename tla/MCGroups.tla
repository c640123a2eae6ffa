------------------------------- MODULE MCGroups -------------------------------
(* Small instances of group membership and of channel synchronisation, which *)
(* carries what groups change to WuKongIM.  "part" says what a behaviour is  *)
(* about; the variables of the other component keep their initial values.    *)
EXTENDS GroupMembership, ChannelSync, TLC

VARIABLE part

CONSTANTS last   \* the user there is no room for

\* One transaction changes the channel; the members, as when one joins or
\* leaves; or the members and the denylist, as a blacklisting does.
GroupChanges == {{"channel"}, {"members"}, {"members", "deny"}}

Parts == {"joins", "roles", "limit", "sync"}
GroupParts == Parts \ {"sync"}

KindsOf == [joins |-> {"add", "approve", "accept", "qr", "remove", "disband"},
            roles |-> {"add", "remove", "grant", "transfer", "disband", "delete"},
            limit |-> {"add", "remove", "delete"}]

\* The last user takes part where the limit is the question.
Absent(u) == role[u] = "none" /\ u \notin invites \cup blacklist

MCInit ==
    /\ part \in Parts
    /\ GroupInit /\ ChannelInit
    /\ part # "joins" => invites = {}
    /\ part \in {"joins", "roles"} => Absent(last)
    /\ part = "sync" => Absent(last) /\ Members = {owner}

GroupPart ==
    /\ GroupNext
    /\ \A p \in Tx : tx'[p].kind \in KindsOf[part] \cup {"idle"}
    /\ part # "limit" => Absent(last)' /\ \A p \in Tx : tx'[p].user # last
    /\ part # "joins" => policy' = policy
    /\ part = "limit" => blacklist' = blacklist

MCNext ==
    /\ part' = part
    /\ \/ part \in GroupParts /\ GroupPart
       \/ part = "sync" /\ ChannelNext
    /\ part \notin GroupParts => UNCHANGED groupVars
    /\ part # "sync" => UNCHANGED channelVars

MCSpec == MCInit /\ [][MCNext]_<<part, groupVars, channelVars>>

\* Users but the last, requests and transactions have no names of their own.
Symmetry ==
    Permutations(User \ {last}) \union Permutations(Request) \union Permutations(Tx)
===============================================================================
