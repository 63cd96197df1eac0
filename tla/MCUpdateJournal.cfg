CONSTANTS
    p1 = p1  p2 = p2
    FileCount = 3
    Plugins = {p1, p2}
    Holds <- MCHolds
    AtFirst = {1, 2}
    Histories <- MCHistories
    MaxInstalls = 3
    Missing = Missing
    Empty = Empty
    None = None
SPECIFICATION Spec
INVARIANTS TypeOK NothingLost MarkedEverywhere RefusalNeedsEmptyJournal
CHECK_DEADLOCK FALSE
