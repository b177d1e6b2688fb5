\* No variance and a period of 0 s, so ticksPerPeriod = 0.
CONSTANTS
    Requests = {r1}
    NilChan = NilChan
    Cores = 0
    Serial = TRUE
    MaxIterations = 10
    MemoryMBytes = 1
    BytesPerMiB <- MCBytesPerMiB
    MemoryVariance = 0
    MemoryVarianceFun = "linear"
    MemoryVariancePeriod = 0
    RandomDraws <- MCRandomDraws
SPECIFICATION Spec
INVARIANT NoRuntimePanic
