\* Linear variance of 50% over a 2 s period against the stateless
\* allocation contract of the spec.
CONSTANTS
    Requests = {r1}
    NilChan = NilChan
    Cores = 0
    Serial = TRUE
    MaxIterations = 10
    MemoryMBytes = 1
    BytesPerMiB <- MCBytesPerMiB
    MemoryVariance = 50
    MemoryVarianceFun = "linear"
    MemoryVariancePeriod = 2
    RandomDraws <- MCRandomDraws
SPECIFICATION Spec
INVARIANT StatelessAllocation
