\* One request, two CPU cores, variance disabled: the stop protocol as the
\* code intends it to be used.
CONSTANTS
    Requests = {r1}
    NilChan = NilChan
    Cores = 2
    Serial = TRUE
    MaxIterations = 3
    MemoryMBytes = 1
    BytesPerMiB <- MCBytesPerMiB
    MemoryVariance = 0
    MemoryVarianceFun = "linear"
    MemoryVariancePeriod = 1
    RandomDraws <- MCRandomDraws
SPECIFICATION FairSpec
INVARIANT TypeOK
INVARIANT StopNeverBlocks
PROPERTY GeneratorQuiesces
