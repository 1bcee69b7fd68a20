SPECIFICATION Spec
CONSTANTS
    Schedules = {s1}
    Replicas = {r1, r2}
    Clients = {c1}
    MaxWindow = 2
    Limit = 1
    MaxCrashes = 0
INVARIANT FiresOnce
CHECK_DEADLOCK FALSE
