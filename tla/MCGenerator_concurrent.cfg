\* Two concurrent requests on the shared generator, as the gRPC server
\* runs them: the first closure fills the second request's channel.
CONSTANTS
    Requests = {r1, r2}
    Cores = 0
    Serial = FALSE
    NilChan = NilChan
    MaxIterations = 2
    MemoryMBytes = 1
    BytesPerMiB <- MCBytesPerMiB
    MemoryVariance = 0
    MemoryVarianceFun = "linear"
    MemoryVariancePeriod = 1
    RandomDraws <- MCRandomDraws
SPECIFICATION Spec
INVARIANT StopNeverBlocks
