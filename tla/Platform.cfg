\* Messages, calls, the reconcile cycle and enterprises, one component at a time.
SPECIFICATION MCSpec
CONSTANTS
    a = a
    b = b
    c = c
    g = g
    d = d
    Person = {"ann", "bob", "cat"}
    Owner = "ann"
    Late = {"cat"}
    Msg <- MCMsg
    Author <- MCAuthor
    EditId = {"e", "f"}
    Text = {"x", "y"}
    Deleters = {"ann", "bob"}
    Reader = "ann"
    Client = {"phone", "web", "desk"}
    UserOf <- MCUserOf
    Scenario <- MCScenario
    MaxSync = 3
    User = {a, b, c}
    Conversation = {g, d}
    Group = {g}
    Call = {c1, c2}
    Nobody = nobody
    Mobile = {a}
    CycleUser = {1, 2}
    Channel = {1, 2, 3}
    PageSize = 2
    MaxAttempts = 3
    BadUser = {}
    Tenant = {"a", "b"}
    Home = "a"
    Operation = {1, 2}
    Kind = {"switch", "ban", "phone"}
    Runner = {"r1"}
    Grant = {1, 2}
    NoOne = noone
    NoOp = noop
    MaxEdit = 1
    MaxFail = 1
    Phone = {"p1", "p2"}
    PhoneUser = {"ann", "bob"}
    Unowned = unowned
    MaxCode = 3
    Tries = 2
    Verifier = {"v1", "v2"}
    Company = {"a", "b"}
    Admin = {"x", "y"}
    MaxSave = 3
    Source = {1, 2, 3}
    Deleted = {3}
    MaxCrash = 2
INVARIANTS
    NoWaitCycle
PROPERTIES
    
    CallKept
    InvitationsEnd
    CycleKept
    SwitchKept
    DirectoryKept
    RetriesSucceed
CHECK_DEADLOCK FALSE
