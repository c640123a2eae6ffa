\* The deployed topology: one worker, one reconciler, two users on one page.
SPECIFICATION FairAccessSpec
CONSTANTS
    Op <- AccessOp
    NoOp = none
    Worker = {w1}
    MaxRow = 2
    BatchSize = 1
    MaxFault = 1
    MaxUser = 2
    PageSize = 2
    Actor = {1}
    Candidate = {2}
    MaxDrop = 1

    
PROPERTIES
    RowsKeepPromise
    EventuallyAccessAgrees
\* Changes are bounded; the reconciler reads pages for ever.
CHECK_DEADLOCK FALSE
