SPECIFICATION Spec
CONSTANTS
    Tests = {t1}
    NoTest = NoTest
    Owned = {t1}
    Replicas = {r1}
    Slots = {s1, s2}
    Concurrency = 1
    MaxRetries = 0
    MaxFaults = 1
    FaultKinds = {"crash", "disconnect", "broker", "database"}
    CallsMayFail = TRUE
INVARIANTS TypeOK NothingLost ProcsAlive NoStaleCancelFlag
CHECK_DEADLOCK FALSE
