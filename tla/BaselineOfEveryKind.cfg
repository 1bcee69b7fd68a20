SPECIFICATION VerdictsSpec
CONSTANTS
    MaxTests = 2
    Setters = {u1}
    AskedKinds = {"backend", "flow", "client-side"}
    MaxTries = 0
    MaxEvents = 1
INVARIANT EveryKind
CHECK_DEADLOCK FALSE
