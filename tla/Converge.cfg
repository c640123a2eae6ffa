\* WuKongIM: two servers, whose locks do not exclude each other, calls that
\* arrive late and a change without an outbox row.  LiveKit: one call of two
\* users, one of whom leaves the enterprise and comes back, and one mishap.
SPECIFICATION MCSpec
CONSTANTS
    a = a
    b = b
    g = g
    d = d
    Op = {g1}
    NoOp = none
    Worker = {s1, s2}
    MaxRow = 1
    BatchSize = 1
    MaxFault = 1
    ChangeSets <- Unblacklisting
    MaxSilent = 1
    AllowLate = TRUE
    User = {a, b}
    Conversation = {g, d}
    Group = {g}
    Call = {c1}
    Nobody = nobody
    Mobile = {}
    Roaming = {b}
    MaxEpoch = 2
    MaxMishap = 1
INVARIANTS
    OnlyWhoAnswered
PROPERTIES
    EventuallyInSync
    MediaFollowsCall
CHECK_DEADLOCK FALSE
