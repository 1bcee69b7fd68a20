SPECIFICATION Spec
CONSTANTS
    Schedules = {s1}
    Replicas = {r1, r2}
    Clients = {c1, c2}
    MaxWindow = 1
    Limit = 1
    MaxCrashes = 1
SYMMETRY Symmetric
INVARIANTS TypeOK OneClaim NoLeakedTask
CHECK_DEADLOCK FALSE
