CONSTANTS
    n1 = n1  n2 = n2  t1 = t1  t2 = t2
    Names = {n1, n2}
    Threads = {t1, t2}
    MaxOps = 5
    MaxBoots = 1
    MaxFaults = 1
    None = None
SPECIFICATION Spec
CONSTRAINT FewCallsOfTwoNames
INVARIANTS TypeOK PendingHasFile ReportMatchesBoot
PROPERTIES FailedCallKeepsFiles
SYMMETRY Interchangeable
CHECK_DEADLOCK FALSE
