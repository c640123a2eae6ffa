\* The caller may leave the group while its call rings.
SPECIFICATION FairCallSpec
CONSTANTS
    User = {a, b, c}
    Conversation = {g}
    Group = {g}
    Call = {c1}
    Nobody = nobody
    Mobile = {a, b, c}
PROPERTIES
    InvitationsTimeOut
CHECK_DEADLOCK FALSE
