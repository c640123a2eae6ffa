\* One user accepts or asks while the other blocks.
SPECIFICATION FriendSpec
CONSTANTS
    User = {a, b}
    Request = {r1}
    Tx = {p, q}
    None = none
INVARIANTS
    BlockSeparates
