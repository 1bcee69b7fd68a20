SPECIFICATION Spec
CONSTANTS
    Tests = {t1}
    NoTest = NoTest
    Owned = {}
    Replicas = {r1, r2}
    Slots = {s1}
    Concurrency = 1
    MaxRetries = 1
    MaxFaults = 1
    FaultKinds = {"crash", "database"}
    CallsMayFail = TRUE
SYMMETRY Symmetric
INVARIANTS CopiesBounded CancelledOnlyOnRequest
PROPERTY Lifecycle
CHECK_DEADLOCK FALSE
