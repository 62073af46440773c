SPECIFICATION Spec
CONSTANTS
    Account = {1}
    WorkerCount = 1
    QueueMax = 1
    Slot = {s1}
    MaxFaults = 1
    SeqMax = 2
    PeriodFrames = 2
    MaxVersion = 2
    MaxSessions = 2
    Deeds = {"bag"}
    Stopping = FALSE
INVARIANTS EntryFresh
