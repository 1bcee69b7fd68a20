SPECIFICATION Spec
CONSTANTS
    Tests = {t1}
    Editors = {u1}
    Slots = {s1, s2}
    MaxRetries = 1
    MaxRows = 1
    MaxFaults = 1
    Recordings = {r1}
    NoRecording = NoRecording
    MaxRecAsked = 2
    Replicas = {a, b}
    Nobody = Nobody
    MaxEnds = 1
    MaxRequests = 3
    MaxDropped = 1
    FlowStepsCap = 2
    MaxEntries = 1
    Configured = {"gemini"}
    NoSetting = NoSetting
    CacheTicks = 2
    FetchTicks = 1
    MaxPuts = 1
    MaxFailing = 1
    Chats = {s1, s2}
    Saved = {f1, f2}
    NoScript = NoScript
    MaxCards = 1
    MaxAsked = 1
    MaxSteps = 3
    Vus = {1, 4, 12}
    Limit = 150
    Readers = {x1, x2, close}
    Closer = close
    MaxLines = 2
    Streams = {out, err}
    MaxKept = 3
    MaxBatch = 2
    MaxPrinted = 4
    None = None
    MaxWrites = 3
    MaxViewAsked = 2
    Allowance = 1
    MaxAiAsked = 2
    MaxTests = 3
    Setters = {s1, s2}
    AskedKinds = {"backend", "client-side"}
    MaxTries = 1
    MaxEvents = 2
SYMMETRY Symmetry
VIEW OfPart
INVARIANTS TypeOK Accounted ComparedOnce ArchivesWhatItOverwrites RecordingKeptOnce StartsAndServes WiredToItsSource FreshSetting EditsOfItself LoadAsAsked OutputCounted StaleHeals SoundAnswers BaselineCounts
CHECK_DEADLOCK FALSE
