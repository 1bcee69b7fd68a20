SPECIFICATION FairSpec
CONSTANTS
    Tests = {t1}
    NoTest = NoTest
    Owned = {t1}
    Replicas = {r1}
    Slots = {s1, s2}
    Concurrency = 1
    MaxRetries = 0
    MaxFaults = 1
    FaultKinds = {"disconnect"}
    CallsMayFail = FALSE
PROPERTIES WorkDrains Settles
CHECK_DEADLOCK FALSE
