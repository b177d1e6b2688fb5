CONSTANTS
    UpstreamURIs <- MCThreeURIs
    InjectErrors = TRUE
    Durations = {0, 1, 2, 3}
    FanOutTimes = {0, 1, 2, 3}
    Outcomes = {"ok", "err"}
    WorkerCounts = {2}
SPECIFICATION Spec
INVARIANT BudgetHonoured
