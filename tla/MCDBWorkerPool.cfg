SPECIFICATION PoolSpec
CONSTANTS
    Account = {1, 2}
    WorkerCount = 2
    QueueMax = 2
    Slot = {s1}
    MaxFaults = 1
    MaxJobs = 3
INVARIANTS PoolTypeOK PairAdjacent CountersExact EachJobOnce SavesAnsweredFirst OkMeansWritten DrainedOnExit
