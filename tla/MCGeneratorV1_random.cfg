\* One request with one core and random variance of 100%: every
\* allocation is taken from the baseline, stays within the variance and is
\* never negative.
CONSTANTS
    Requests = {r1}
    NilChan = NilChan
    Cores = 1
    Serial = TRUE
    MaxIterations = 3
    MemoryMBytes = 1
    BytesPerMiB <- MCSmallBytesPerMiB
    MemoryVariance = 100
    MemoryVarianceFun = "random"
    MemoryVariancePeriod = 1
    RandomDraws <- MCRandomDrawsV1
SPECIFICATION SpecV1
INVARIANT RandomAllocationWithinVariance
INVARIANT NoRuntimePanic
