SPECIFICATION FairInGameSpec
CONSTANTS
    Account = {1, 2}
    WorkerCount = 1
    QueueMax = 2
    Slot = {s1}
    MaxFaults = 1
    SeqMax = 2
    PeriodFrames = 1
    MaxVersion = 2
    MaxSessions = 3
    Deeds = {"trade"}
    Stopping = FALSE
PROPERTIES EventuallyDurable LoadAnswered
