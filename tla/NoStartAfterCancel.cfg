SPECIFICATION Spec
CONSTANTS
    Tests = {t1}
    NoTest = NoTest
    Owned = {t1}
    Replicas = {r1}
    Slots = {s1}
    Concurrency = 1
    MaxRetries = 1
    MaxFaults = 0
    FaultKinds = {}
    CallsMayFail = FALSE
PROPERTY NoStartAfterCancel
CHECK_DEADLOCK FALSE
