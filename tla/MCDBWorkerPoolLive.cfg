SPECIFICATION FairPoolSpec
CONSTANTS
    Account = {1, 2}
    WorkerCount = 2
    QueueMax = 2
    Slot = {s1}
    MaxFaults = 1
    MaxJobs = 2
PROPERTIES EveryJobAnswered ShutdownReturns
