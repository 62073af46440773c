SPECIFICATION HalfAnsweredSpec
CONSTANTS
    Account = {1, 3, 4}
    WorkerCount = 2
    QueueMax = 2
    Slot = {s1}
    MaxFaults = 1
    SeqMax = 2
    PeriodFrames = 1
    MaxVersion = 3
    MaxSessions = 4
    Deeds = {"trade"}
    Stopping = FALSE
INVARIANTS OneQueueAtATime
