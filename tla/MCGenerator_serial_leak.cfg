\* Two requests one after the other, one CPU core: a CPU supervisor that
\* reads g.finished after the next Generate() waits on the new channel.
CONSTANTS
    Requests = {r1, r2}
    Cores = 1
    Serial = TRUE
    NilChan = NilChan
    MaxIterations = 2
    MemoryMBytes = 1
    BytesPerMiB <- MCBytesPerMiB
    MemoryVariance = 0
    MemoryVarianceFun = "linear"
    MemoryVariancePeriod = 1
    RandomDraws <- MCRandomDraws
SPECIFICATION FairSpec
PROPERTY GeneratorQuiesces
