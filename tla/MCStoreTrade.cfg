SPECIFICATION InGameSpec
CONSTANTS
    Account = {1, 2}
    WorkerCount = 2
    QueueMax = 2
    Slot = {s1}
    MaxFaults = 1
    SeqMax = 2
    PeriodFrames = 2
    MaxVersion = 2
    MaxSessions = 3
    Deeds = {"trade"}
    Stopping = TRUE
INVARIANTS HoldsHaveLinks NothingForgotten LossIsReported TradeWhole NoRecordOverwritten
PROPERTIES NeverBack
