SPECIFICATION FairSpec
CONSTANTS
    Tests = {t1}
    NoTest = NoTest
    Replicas = {r1}
    Slots = {s1, s2}
    Browsers = {b1, b2}
    NoBrowser = NoBrowser
    Concurrency = 1
    MaxRetries = 1
    MaxFaults = 1
    FaultKinds = {"crash","disconnect","channel","shutdown","browser"}
INVARIANTS TypeOK BrowsersExclusive NoOrphanBrowser CancelHitsItsOwn FlagOutlivesTest NothingLost
PROPERTIES TestsEnd
CHECK_DEADLOCK FALSE
