\* One request, linear variance of 50% over a 4 s period (8 ticks): the
\* memory loop adds each ramp delta to the size it stored last, and on the
\* way down the ramp the size goes below zero, so make() panics.
CONSTANTS
    Requests = {r1}
    NilChan = NilChan
    Cores = 0
    Serial = TRUE
    MaxIterations = 4
    MemoryMBytes = 1
    BytesPerMiB <- MCBytesPerMiB
    MemoryVariance = 50
    MemoryVarianceFun = "linear"
    MemoryVariancePeriod = 4
    RandomDraws <- MCRandomDraws
SPECIFICATION Spec
INVARIANT NoRuntimePanic
