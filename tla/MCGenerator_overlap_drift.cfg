\* Linear variance of 50% over a 2 s period (4 ticks), as in phase_linear,
\* but with two sequential requests: the first request's memory loop,
\* revived by the second Generate(), overlaps the second's; both update
\* currentBytes and currentTick, and the allocation goes negative.
CONSTANTS
    Requests = {r1, r2}
    NilChan = NilChan
    Cores = 0
    Serial = TRUE
    MaxIterations = 10
    MemoryMBytes = 1
    BytesPerMiB <- MCBytesPerMiB
    MemoryVariance = 50
    MemoryVarianceFun = "linear"
    MemoryVariancePeriod = 2
    RandomDraws <- MCRandomDraws
SPECIFICATION Spec
INVARIANT NoRuntimePanic
