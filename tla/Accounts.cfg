SPECIFICATION Spec
CONSTANTS
    Users = {u1, u2}
    NoUser = NoUser
    Slots = {s1, s2}
    Tokens = {k1, k2}
    NoToken = NoToken
    IdleTimeout = 2
    TouchInterval = 1
    Limits = {1, 2}
    Default = 1
    Tests = {k1, k2}
    NoTest = NoTest
    MaxUsage = 2
SYMMETRY Symmetry
INVARIANTS TypeOK TopRemains LocksReleased RefusedForGood UseIsRemembered WithinLimits LimitsAsAsked
CHECK_DEADLOCK FALSE
