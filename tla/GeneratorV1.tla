---------------------------- MODULE GeneratorV1 ----------------------------
(***************************************************************************)
(* The earlier NodeGenerator revision, src/load/node_generator.go.  Its   *)
(* stop protocol is statement for statement that of Generator: Generate() *)
(* makes a 2-slot channel in the shared g.finished and sets g.running, the *)
(* closure sends twice and clears g.running, the memory loop and the CPU  *)
(* supervisor receive from g.finished when they stop.  So this module      *)
(* takes those actions from Generator and replaces its memory loop: here  *)
(* an iteration calls the variance function, which returns the new size  *)
(* (g.currentMemory for linear, baseline + delta for random) and, for     *)
(* sine, advances g.currentTick; then make() and g.currentMemory =        *)
(* newMemLen.  currentBytes is g.currentMemory.                            *)
(***************************************************************************)
EXTENDS Generator

\* NewNodeGenerator (lines 36-50): not running, no channel, currentMemory
\* = memoryMBytes * 2^20, currentTick = 0.
InitV1 == Init

-----------------------------------------------------------------------------
(* Variance functions of this revision.                                   *)

\* varianceRandom with the percentage conversion (/ 100) left out.
RandomValueNoPercent(k) ==
    TruncDiv(BaselineBytes * 100
               + BaselineBytes * MemoryVariance * (2 * k - 100), 100)

\* varianceRandom adding the delta onto the current size, not the baseline.
RandomValueAccumulating(k) ==
    TruncDiv(currentBytes * 10000
               + currentBytes * MemoryVariance * (2 * k - 100), 10000)

\* varianceRandom with memoryVariance > 0: rand.Float64() is k/100, rPct =
\* 2k/100 - 1, varyByPct = variance * rPct / 100, and the new size is
\* int(fMemoryBytes + fMemoryBytes * varyByPct), taken from the baseline.
RandomValueV1(k) ==
    TruncDiv(BaselineBytes * 10000
               + BaselineBytes * MemoryVariance * (2 * k - 100), 10000)

\* getVarianceFuncByName and the function it returns: the sizes an
\* iteration may compute from the current size cur.  varianceLinear, the
\* default, returns g.currentMemory; so do random and sine when
\* memoryVariance is 0, and sine always (its delta is computed and dropped).
NewSizesV1(cur) ==
    IF MemoryVarianceFun = "random" /\ MemoryVariance > 0
    THEN {RandomValueV1(k) : k \in RandomDraws}
    ELSE {cur}

\* varianceSineWave with memoryVariance > 0: currentTick/memoryVariancePeriod
\* is an integer division, which panics when the period is 0 ...
SinePanicsV1 ==
    /\ MemoryVarianceFun = "sine"
    /\ MemoryVariance > 0
    /\ MemoryVariancePeriod = 0

\* ... and the tick advances, back to 0 at ticksPerPeriod.
SineTickV1(t) ==
    IF MemoryVarianceFun = "sine" /\ MemoryVariance > 0
    THEN IF t + 1 < TicksPerPeriod THEN t + 1 ELSE 0
    ELSE t

-----------------------------------------------------------------------------
(* Memory loop of this revision, generateVaryingMemory (lines 116-137).   *)

\* for g.running: newMemLen := calculateVariance(g) (lines 120-122).
MemComputeV1(r) ==
    /\ lpc[Mem(r)] = "run"
    /\ running
    /\ iterations < MaxIterations
    /\ iterations' = iterations + 1
    /\ IF SinePanicsV1
         THEN /\ panicked' = TRUE
              /\ UNCHANGED <<lpc, newLen, currentTick>>
         ELSE /\ \E n \in NewSizesV1(currentBytes) :
                    newLen' = [newLen EXCEPT ![r] = n]
              /\ currentTick' = SineTickV1(currentTick)
              /\ lpc' = [lpc EXCEPT ![Mem(r)] = "commit"]
              /\ UNCHANGED panicked
    /\ UNCHANGED <<sendOn, running, finished, buf, hpc, waitOn, workers,
                   currentBytes>>

\* make([]byte, 0, newMemLen), g.currentMemory = newMemLen and the sleep
\* (lines 124-132); make panics on a negative size.
MemCommitV1(r) ==
    /\ lpc[Mem(r)] = "commit"
    /\ IF MakePanics(newLen[r])
         THEN /\ panicked' = TRUE
              /\ UNCHANGED <<lpc, currentBytes>>
         ELSE /\ currentBytes' = newLen[r]
              /\ lpc' = [lpc EXCEPT ![Mem(r)] = "run"]
              /\ UNCHANGED panicked
    /\ UNCHANGED <<sendOn, running, finished, buf, hpc, waitOn, workers, newLen,
                   currentTick, iterations>>

\* The loop, then <-g.finished, as in the current revision.
MemLoopV1(r) ==
    \/ MemComputeV1(r) \/ MemCommitV1(r) \/ MemExit(r) \/ MemPick(r)
    \/ Recv(Mem(r))

-----------------------------------------------------------------------------
(* The handler's side and the CPU load, unchanged from Generator.         *)

\* Generate() (lines 53-61).
GenerateV1(r) == GenMakeChan(r) \/ GenStart(r)

\* The returned closure (lines 63-68): two sends, then g.running = false.
FinishedV1(r) == SendEval(r) \/ Send(r) \/ ClearRunning(r)

\* generateCPU (lines 72-114): the supervisor starts int(cores) workers and
\* receives from g.finished; each worker spins while g.running.
GenerateCPUV1(r) == CpuStart(r) \/ Recv(Cpu(r))

NextV1 ==
    \/ /\ ~panicked
       /\ \E r \in Requests :
             \/ GenerateV1(r) \/ FinishedV1(r) \/ MemLoopV1(r)
             \/ GenerateCPUV1(r) \/ WorkerExit(r)
    \/ ServerIdle

SpecV1 == InitV1 /\ [][NextV1]_vars

-----------------------------------------------------------------------------
(* Properties.                                                             *)

\* Spec 4.1, 8 and 105 for the random model: every allocation is
\* baseline + delta, never an accumulation of earlier deltas, with delta
\* within [-max, +max), max = baseline * variance / 100, up to the int()
\* of varianceRandom, which truncates the size and may take it up to one
\* byte below baseline - max (checked once an iteration has stored its
\* size).
RandomAllocationWithinVariance ==
    (iterations > 0 /\ \A l \in Loops : lpc[l] # "commit")
        => /\ 100 * (currentBytes - BaselineBytes)
                  > - BaselineBytes * MemoryVariance - 100
           /\ 100 * (currentBytes - BaselineBytes)
                  < BaselineBytes * MemoryVariance
=============================================================================
