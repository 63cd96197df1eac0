CONSTANTS
    v = v  w = w
    Ids = {1, 2, 3}
    Payloads <- MCPayloads
    MaxFile = 10
    MaxSaves = 3
    Histories <- MCHistories
    None = None
SPECIFICATION Spec
INVARIANTS TypeOK RecordsKept
CHECK_DEADLOCK FALSE
