\* The requests of one component at a time, on its own rows.
SPECIFICATION MCSpec
CONSTANTS
    a = a
    p1 = p1
    p2 = p2
    User = {a, b}
    Request = {1, 2}
    Tx = {p, q, s}
    None = none
    Author = author
    Viewer = {v}
    CommentId = {1}
    Post = {p1, p2}
    NoPost = none
    MaxUnfriend = 1
    Audience = {"public", "selected"}
    SkillGroup = {k1, k2}
    Agent = {g1, g2}
    Visitor = {v1, v2}
    Session = {1, 2}
    DeskRequest = {r1}
    NoAgent = nobody
    MaxConcurrent = 2
    MaxConcurrentPerAgent = 1
    MaxDeskSteps = 2
    Ask = {1, 2, 3}
    Limit = {0, 1}
    Window = 2
    MaxTime = 3
    MaxVersion = 2
    Id = {1, 2, 3}
    PageLimit = 1
    MaxChange = 2
    Invited = {u1, u2, u3}
    Registered = {u1, u2}
    Text = {c1, c2, c3, c4}
    NoText = notext
    Deal = {1, 2}
    MaxBinding = 2
    MaxDeal = 3
    Mode = {"optional"}
    Party = {p1, p2, p3}
    GroupRoom = g
    DirectRoom = d
    CallId = {c1, c2}
    Unset = unset
    MemUser = {u1, u2, u3}
    Phone = {n1, n2}
    Handle = {h1}
    MemAsk = {q1}
    MemRoom = {c1}
    Blank = blank
    Admin = {a1, a2}
    CustomRole = {r1}
    Secret = {1}
    AdminRequest = {q1, q2}
    MaxAuthVersion = 2
    MaxTop = 2
    PageSize = 1
    Matching = {1}
    SearchPages = 2
    MaxShift = 4
    Account = {"ann", "bob"}
    DeviceKind = {"web"}
    Token <- MCToken
    LoginRequest = {q1, q2}
    Ticket = {k1}
    NoToken = 0
    NoTicket = none
    NoUser = nobody
    MaxEnd = 1
    Issuer = {"i1", "i2", "i3"}
    Instance = {"i1"}
    Generation = {1, 2}
    MaxQuit = 2
    Manager = {m1}
    Page = {c1}
    Edit <- MCEdit
    Closed = closed
    MaxAt = 3
INVARIANTS
    DeskSafety
    WalksExact
    AdminSafety
    
PROPERTIES
    FriendKept
    EndIsTheEnd
    
    InvitationsKept
    MemoryCallsAgree
    MemoryKept
    SessionsKept
    NoNeedlessKick
    SettingsKept
CHECK_DEADLOCK FALSE
