CONSTANTS
    m1 = m1  m2 = m2  m3 = m3  m4 = m4
    s1 = s1  s2 = s2  t1 = t1
    Messages = {m1}
    Senders = {s1}
    Targets = {t1}
    TargetOf <- MCTargetOf
    NoTarget = NoTarget
    PayloadOf <- MCPayloadOf
    MaxPayload = 1
    QueueCount = 2
    RetryCount = 2
    InitRetries = 2
    MaxLaunches = 1
    MaxRegistryOps = 1
    None = None
SPECIFICATION Spec
INVARIANTS WaitsForRosalina
SYMMETRY Interchangeable
CHECK_DEADLOCK FALSE
