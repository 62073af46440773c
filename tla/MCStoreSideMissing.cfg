SPECIFICATION InGameSpec
CONSTANTS
    Account = {1, 2}
    WorkerCount = 2
    QueueMax = 2
    Slot = {s1}
    MaxFaults = 1
    SeqMax = 2
    PeriodFrames = 2
    MaxVersion = 2
    MaxSessions = 2
    Deeds = {"trade"}
    Stopping = TRUE
INVARIANTS NoSideMissing
