\* A search before a message that the caller already has.
SPECIFICATION HistorySpec
CONSTANTS
    MaxTop = 2
    PageSize = 1
    Matching = {1}
    SearchPages = 2
    MaxShift = 0
INVARIANT
    SearchReachesOlder
CHECK_DEADLOCK FALSE
