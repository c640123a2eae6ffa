\* A transfer and another transaction at the same time.
SPECIFICATION GroupSpec
CONSTANTS
    User = {u1, u2}
    Request = {}
    Tx = {p, q}
    Policy = {"invite"}
    MaxMembers = 2
    MaxVersion = 3
    Kinds = {"add", "remove", "transfer", "delete"}
    None = none
INVARIANTS
    OwnerStays
\* A dissolved group without open transactions has nothing left to do.
CHECK_DEADLOCK FALSE
