\* Who joins whom, who leads, how many fit, and how it reaches WuKongIM.
SPECIFICATION MCSpec
CONSTANTS
    User = {u1, u2, u3, u4}
    last = u4
    Request = {r1, r2}
    Tx = {p, q}
    Policy = {"invite", "member_approval", "qr"}
    MaxMembers = 3
    MaxVersion = 3
    Kinds = {"add", "approve", "accept", "qr", "remove", "grant", "transfer", "disband", "delete"}
    None = none
    \* One server, its outbox worker and its reconciler.
    Op = {g1, g2}
    NoOp = none
    Worker = {s1}
    MaxRow = 2
    BatchSize = 2
    MaxFault = 1
    ChangeSets <- GroupChanges
    MaxSilent = 0
    AllowLate = FALSE
INVARIANTS
    WithinLimit
    ChannelSafety
PROPERTIES
    GroupKept
    NeverOlder
SYMMETRY Symmetry
\* A dissolved group without open transactions has nothing left to do.
CHECK_DEADLOCK FALSE
