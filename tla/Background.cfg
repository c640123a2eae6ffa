\* The server's background work, one component at a time.
SPECIFICATION MCSpec
CONSTANTS
    r1 = r1
    r2 = r2
    Login = {1, 2, 3}
    Worker = {"w1", "w2"}
    Capacity = 1
    Contact = {"x", "y"}
    Query = {"q1", "q2"}
    Fetch = {1, 2}
    Slots = 1
    MaxFlight = 2
    MaxEntry = 1
    Unseen = unseen
    Event = {1, 2, 3}
    Poison = {2}
    Legacy = {1, 2}
    Hook = {"h1"}
    Starter = {"s1", "s2"}
    BatchSize = 2
    MaxTick = 4
    MaxAbort = 1
    Push = {"p1"}
    Getui = {"g1"}
    WebPush = {"w1"}
    Voip = {}
    Call = {}
    Dispatcher = {"s1", "s2"}
    LastToken = 2
    MaxAttempt = 2
    MaxPushCrash = 1
    MaxOffline = 1
    Msg = {m1, m2}
    Body = {1, 2, 3}
    BadBody = {3}
    MaxTries = 2
    MaxEdit = 1
    MaxOutage = 1
    MaxCrash = 1
    Video = {v}
    Image = {c}
    Mail = {e1}
    Cleaner = {w1, w2}
    NoMedia = nomedia
    MaxMediaFault = 1
    Community = community
    Topic = {t1}
    Member = {f, u}
    Founder = f
    Banned = {}
    Caller = {k1}
    Sender = {s1, s2}
    Never = never
    SlowMode = 2
    MaxBizClock = 2
    MaxUpdates = 1
    Announcement = {a1}
    Reader = {r1, r2}
    Audience <- MCAudience
    Suspended = {r2}
    MaxNow = 2
INVARIANTS
    RecorderKept
    PresenceKept
    WebhookKept
    ChannelsKept
PROPERTIES
    
    
    MediaKept
    
    
CHECK_DEADLOCK FALSE
