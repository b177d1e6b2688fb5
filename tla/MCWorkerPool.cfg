\* Three upstream tasks; a worker count of 0 (rejected), 2 (fewer workers
\* than tasks) or 4 (more workers than tasks); each task succeeds or fails.
CONSTANTS
    NTasks = 3
    WorkerCounts <- MCWorkerCounts
    Outcomes = {"ok", "err"}
    Failed = {"err"}
    Empty = Empty
SPECIFICATION FairSpec
PROPERTY ImplementsContract
PROPERTY DoReturns
