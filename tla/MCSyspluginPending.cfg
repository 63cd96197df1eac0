CONSTANTS
    n1 = n1  n2 = n2  t1 = t1  t2 = t2
    Names = {n1}
    Threads = {t1}
    MaxOps = 3
    MaxBoots = 0
    MaxFaults = 0
    None = None
SPECIFICATION Spec
INVARIANTS PendingUntilReboot
CHECK_DEADLOCK FALSE
