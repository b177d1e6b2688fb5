------------------------- MODULE GeneratorV1Proofs -------------------------
(***************************************************************************)
(* Proofs about the earlier NodeGenerator revision (GeneratorV1): the      *)
(* random model's sizes stay within the variance of the baseline, and the *)
(* memory loop never panics unless the sine model has a zero period or    *)
(* the random model a variance above 100%.                                *)
(***************************************************************************)
EXTENDS GeneratorV1, TLAPS

-----------------------------------------------------------------------------
(* The arithmetic of varianceRandom.                                       *)

\* The baseline is a natural number of bytes.
LEMMA BaselineNat == BaselineBytes \in Nat
  BY PhaseAssumption DEF BaselineBytes

\* int(a / b) for a positive divisor is an integer that truncates toward
\* zero: it leaves a remainder of the sign of a and smaller than b.
LEMMA TruncDivBounds ==
  ASSUME NEW num \in Int, NEW den \in Nat \ {0}
  PROVE  /\ TruncDiv(num, den) \in Int
         /\ num >= 0 => den * TruncDiv(num, den) <= num /\ num < den * TruncDiv(num, den) + den
         /\ num < 0  => den * TruncDiv(num, den) - den < num /\ num <= den * TruncDiv(num, den)
<1>1. CASE num >= 0
  <2>1. TruncDiv(num, den) = num \div den
    BY <1>1 DEF TruncDiv
  <2> QED
    BY <1>1, <2>1
<1>2. CASE num < 0
  <2>1. TruncDiv(num, den) = - ((-num) \div den)
    BY <1>2 DEF TruncDiv
  <2>2. den * ((-num) \div den) <= -num /\ -num < den * ((-num) \div den) + den
    BY <1>2
  <2> QED
    BY <1>2, <2>1, <2>2
<1> QED
  BY <1>1, <1>2

\* The same bounds for the divisor 10000 of varianceRandom's size, for
\* every numerator.
LEMMA TruncDivTenThousand ==
  \A x \in Int :
     /\ TruncDiv(x, 10000) \in Int
     /\ x >= 0 => 10000 * TruncDiv(x, 10000) <= x
                  /\ x < 10000 * TruncDiv(x, 10000) + 10000
     /\ x < 0  => 10000 * TruncDiv(x, 10000) - 10000 < x
                  /\ x <= 10000 * TruncDiv(x, 10000)
<1> SUFFICES ASSUME NEW x \in Int
             PROVE  /\ TruncDiv(x, 10000) \in Int
                    /\ x >= 0 => 10000 * TruncDiv(x, 10000) <= x
                                 /\ x < 10000 * TruncDiv(x, 10000) + 10000
                    /\ x < 0  => 10000 * TruncDiv(x, 10000) - 10000 < x
                                 /\ x <= 10000 * TruncDiv(x, 10000)
  OBVIOUS
<1>1. 10000 \in Nat \ {0}
  OBVIOUS
<1> QED
  BY <1>1, TruncDivBounds

\* The size varianceRandom returns is an integer.
LEMMA RandomValueInt ==
  ASSUME NEW k \in 0..99
  PROVE  RandomValueV1(k) \in Int
<1>1. BaselineBytes \in Nat /\ MemoryVariance \in Nat
  BY BaselineNat, PhaseAssumption
<1>2. QED
  BY <1>1, TruncDivBounds DEF RandomValueV1

\* With a positive variance range (baseline * variance >= 1) the size is
\* within max of the baseline, up to int()'s truncation of less than one
\* byte: -max - 1 < size - baseline < max, max = baseline * variance / 100.
LEMMA RandomValueWithin ==
  ASSUME NEW k \in 0..99, BaselineBytes * MemoryVariance >= 1
  PROVE  /\ 100 * (RandomValueV1(k) - BaselineBytes)
              > - BaselineBytes * MemoryVariance - 100
         /\ 100 * (RandomValueV1(k) - BaselineBytes)
              < BaselineBytes * MemoryVariance
<1> DEFINE B == BaselineBytes
           P == B * MemoryVariance
           m == 2 * k - 100
           a == B * 10000 + P * m
           q == TruncDiv(a, 10000)
<1>1. B \in Nat /\ P \in Nat /\ P >= 1 /\ m \in -100..98
  BY BaselineNat, PhaseAssumption
<1>2. P * m <= 98 * P /\ P * m >= -100 * P
  BY <1>1
<1>3. RandomValueV1(k) = q /\ a \in Int
  BY <1>1 DEF RandomValueV1
<1>4. /\ q \in Int
      /\ a >= 0 => 10000 * q <= a /\ a < 10000 * q + 10000
      /\ a < 0  => 10000 * q - 10000 < a /\ a <= 10000 * q
  <2> HIDE DEF a
  <2> QED
    BY <1>3, TruncDivTenThousand
<1>5. CASE a >= 0
  <2>1. 10000 * q <= a /\ a < 10000 * q + 10000
    BY <1>4, <1>5
  <2> QED
    BY <1>1, <1>2, <1>3, <1>4, <2>1
<1>6. CASE a < 0
  <2>1. 10000 * q - 10000 < a /\ a <= 10000 * q
    BY <1>4, <1>6
  <2> QED
    BY <1>1, <1>2, <1>3, <1>4, <2>1
<1> QED
  BY <1>5, <1>6, <1>3

\* With a variance of at most 100% the size is never negative.
LEMMA RandomValueNonNeg ==
  ASSUME NEW k \in 0..99, MemoryVariance <= 100
  PROVE  RandomValueV1(k) >= 0
<1> DEFINE B == BaselineBytes
           P == B * MemoryVariance
           m == 2 * k - 100
           a == B * 10000 + P * m
<1>1. B \in Nat /\ P \in Nat /\ m \in -100..98 /\ P <= 100 * B
  BY BaselineNat, PhaseAssumption
<1>2. P * m >= -100 * P
  BY <1>1
<1>3. a \in Int /\ a >= 0
  BY <1>1, <1>2
<1>4. /\ TruncDiv(a, 10000) \in Int
      /\ 10000 * TruncDiv(a, 10000) <= a
      /\ a < 10000 * TruncDiv(a, 10000) + 10000
  <2> HIDE DEF a
  <2> QED
    BY <1>3, TruncDivTenThousand
<1>5. RandomValueV1(k) = TruncDiv(a, 10000)
  BY DEF RandomValueV1
<1> HIDE DEF a
<1>6. TruncDiv(a, 10000) >= 0
  BY <1>3, <1>4
<1>7. QED
  BY <1>5, <1>6

-----------------------------------------------------------------------------
(* Invariants of the earlier revision's generator.                         *)

\* The part of the generator's state the memory-loop proofs read.
TypeV1 ==
    /\ hpc \in [Requests -> {"idle", "made", "send1", "wait1", "send2", "wait2",
                             "clear", "done"}]
    /\ lpc \in [Loops -> {"none", "run", "commit", "pick", "recv", "done"}]
    /\ newLen \in [Requests -> Int]
    /\ currentBytes \in Int
    /\ iterations \in Nat
    /\ panicked \in BOOLEAN

\* A request's goroutines exist only once its Generate() has started them,
\* and only a memory loop has a size waiting to be committed.
Started ==
    /\ \A r \in Requests : hpc[r] \in {"idle", "made"} => lpc[Mem(r)] = "none"
    /\ \A r \in Requests : lpc[Cpu(r)] # "commit"

\* A size in the random model's range around the baseline.
InRange(n) ==
    /\ 100 * (n - BaselineBytes) > - BaselineBytes * MemoryVariance - 100
    /\ 100 * (n - BaselineBytes) < BaselineBytes * MemoryVariance

\* Inductive invariant for RandomAllocationWithinVariance: every size a
\* memory loop has computed and not yet committed is in range, and so is
\* the stored size once an iteration has committed and none is pending.
RInv ==
    /\ TypeV1
    /\ Started
    /\ \A r \in Requests : lpc[Mem(r)] = "commit" => InRange(newLen[r])
    /\ RandomAllocationWithinVariance

\* Inductive invariant for NoRuntimePanic: the stored size and every size
\* waiting to be committed are non-negative, so make() never panics.
PInv ==
    /\ TypeV1
    /\ ~panicked
    /\ currentBytes >= 0
    /\ \A r \in Requests : lpc[Mem(r)] = "commit" => newLen[r] >= 0

-----------------------------------------------------------------------------
(* The random model keeps every stored size within the variance.          *)

\* The configuration the bound is about: memoryVarianceFun "random" with a
\* variance of at least 1% of a baseline of at least 1 MiB, so that
\* [-max, +max) is not empty.
RandomModel ==
    /\ MemoryVarianceFun = "random"
    /\ MemoryVariance \in Nat \ {0}
    /\ MemoryMBytes \in Nat \ {0}

\* Under RandomModel an iteration's size is baseline + delta, in range.
LEMMA RandomSizesInRange ==
  ASSUME RandomModel, NEW cur
  PROVE  \A n \in NewSizesV1(cur) : n \in Int /\ InRange(n)
<1> SUFFICES ASSUME NEW n \in NewSizesV1(cur) PROVE n \in Int /\ InRange(n)
  OBVIOUS
<1>1. PICK k \in RandomDraws : n = RandomValueV1(k)
  BY DEF RandomModel, NewSizesV1
<1>2. k \in 0..99
  BY PhaseAssumption
<1>3. BaselineBytes * MemoryVariance >= 1
  BY PhaseAssumption DEF RandomModel, BaselineBytes
<1> QED
  BY <1>1, <1>2, <1>3, RandomValueInt, RandomValueWithin DEF InRange

\* Initially no size is pending and no iteration has run.
LEMMA InitRInv == InitV1 => RInv
<1> SUFFICES ASSUME InitV1 PROVE RInv
  OBVIOUS
<1>1. TypeV1
  <2>1. hpc \in [Requests -> {"idle", "made", "send1", "wait1", "send2",
                               "wait2", "clear", "done"}]
    BY DEF InitV1, Init
  <2>2. lpc \in [Loops -> {"none", "run", "commit", "pick", "recv", "done"}]
    BY DEF InitV1, Init
  <2>3. newLen \in [Requests -> Int] /\ currentBytes \in Int
    BY BaselineNat DEF InitV1, Init
  <2>4. iterations \in Nat /\ panicked \in BOOLEAN
    BY DEF InitV1, Init
  <2> QED
    BY <2>1, <2>2, <2>3, <2>4 DEF TypeV1
<1>2. Started
  BY DEF InitV1, Init, Started, Mem, Cpu, Loops
<1>3. \A r \in Requests : lpc[Mem(r)] = "commit" => InRange(newLen[r])
  BY DEF InitV1, Init, Mem, Loops
<1>4. RandomAllocationWithinVariance
  BY DEF InitV1, Init, RandomAllocationWithinVariance
<1> QED
  BY <1>1, <1>2, <1>3, <1>4 DEF RInv

\* Computing a size: the new size is in range and is now pending.
LEMMA ComputeRInv ==
  ASSUME RandomModel, RInv, NEW r \in Requests, MemComputeV1(r)
  PROVE  RInv'
<1>1. ~SinePanicsV1
  BY DEF RandomModel, SinePanicsV1
<1>2. PICK n \in NewSizesV1(currentBytes) : newLen' = [newLen EXCEPT ![r] = n]
  BY <1>1 DEF MemComputeV1
<1>3. n \in Int /\ InRange(n)
  BY RandomSizesInRange
<1>4. /\ lpc' = [lpc EXCEPT ![Mem(r)] = "commit"]
      /\ iterations' = iterations + 1
      /\ UNCHANGED <<hpc, currentBytes, panicked>>
  BY <1>1 DEF MemComputeV1
<1>5. lpc[Mem(r)] = "run" /\ Mem(r) \in Loops
  BY DEF MemComputeV1, Mem, Loops
<1>6. TypeV1'
  BY <1>2, <1>3, <1>4, <1>5 DEF RInv, TypeV1
<1>7. Started'
  BY <1>4, <1>5 DEF RInv, Started, Mem, Cpu, Loops
<1>8. \A s \in Requests : lpc'[Mem(s)] = "commit" => InRange(newLen'[s])
  BY <1>2, <1>3, <1>4, <1>5 DEF RInv, TypeV1, Mem, Loops
<1>9. RandomAllocationWithinVariance'
  <2>1. lpc'[Mem(r)] = "commit"
    BY <1>4, <1>5 DEF RInv, TypeV1
  <2> QED
    BY <2>1, <1>5 DEF RandomAllocationWithinVariance
<1> QED
  BY <1>6, <1>7, <1>8, <1>9 DEF RInv

\* Committing a size: stored if make() succeeds, else still pending.
LEMMA CommitRInv ==
  ASSUME RInv, NEW r \in Requests, MemCommitV1(r)
  PROVE  RInv'
<1>1. CASE MakePanics(newLen[r])
  BY <1>1 DEF MemCommitV1, RInv, TypeV1, Started, InRange,
     RandomAllocationWithinVariance, Mem, Cpu, Loops
<1>2. CASE ~MakePanics(newLen[r])
  <2>1. /\ currentBytes' = newLen[r]
        /\ lpc' = [lpc EXCEPT ![Mem(r)] = "run"]
        /\ UNCHANGED <<hpc, newLen, iterations, panicked>>
    BY <1>2 DEF MemCommitV1
  <2>2. lpc[Mem(r)] = "commit"
    BY DEF MemCommitV1
  <2> QED
    BY <2>1, <2>2 DEF RInv, TypeV1, Started, InRange,
       RandomAllocationWithinVariance, Mem, Cpu, Loops
<1> QED
  BY <1>1, <1>2

\* The steps of the handler, the loops' exits and the CPU load store no
\* size and leave every pending size pending.
LEMMA OtherRInv ==
  ASSUME RInv, NEW r \in Requests,
         \/ GenMakeChan(r) \/ GenStart(r) \/ SendEval(r) \/ Send(r)
         \/ ClearRunning(r)
         \/ MemExit(r) \/ MemPick(r) \/ Recv(Mem(r))
         \/ CpuStart(r) \/ Recv(Cpu(r)) \/ WorkerExit(r)
  PROVE  RInv'
<1> USE DEF RInv, TypeV1, Started, InRange, RandomAllocationWithinVariance,
            Mem, Cpu, Loops
<1>1. CASE GenMakeChan(r)
  BY <1>1 DEF GenMakeChan
<1>2. CASE GenStart(r)
  BY <1>2 DEF GenStart
<1>3. CASE SendEval(r) \/ Send(r)
  BY <1>3 DEF SendEval, Send
<1>4. CASE ClearRunning(r)
  BY <1>4 DEF ClearRunning
<1>5. CASE MemExit(r)
  BY <1>5 DEF MemExit
<1>6. CASE MemPick(r)
  BY <1>6 DEF MemPick
<1>7. CASE Recv(Mem(r))
  BY <1>7 DEF Recv
<1>8. CASE CpuStart(r)
  BY <1>8 DEF CpuStart
<1>9. CASE Recv(Cpu(r))
  BY <1>9 DEF Recv
<1>10. CASE WorkerExit(r)
  BY <1>10 DEF WorkerExit
<1> QED
  BY <1>1, <1>2, <1>3, <1>4, <1>5, <1>6, <1>7, <1>8, <1>9, <1>10

\* Every step of the earlier revision, and a stutter, preserves RInv.
LEMMA StepRInv ==
  ASSUME RandomModel, RInv, [NextV1]_vars
  PROVE  RInv'
<1>1. CASE \E r \in Requests :
             \/ GenerateV1(r) \/ FinishedV1(r) \/ MemLoopV1(r)
             \/ GenerateCPUV1(r) \/ WorkerExit(r)
  <2>1. PICK r \in Requests :
             \/ GenerateV1(r) \/ FinishedV1(r) \/ MemLoopV1(r)
             \/ GenerateCPUV1(r) \/ WorkerExit(r)
    BY <1>1
  <2>2. CASE MemComputeV1(r)
    BY <2>2, ComputeRInv
  <2>3. CASE MemCommitV1(r)
    BY <2>3, CommitRInv
  <2>4. CASE ~MemComputeV1(r) /\ ~MemCommitV1(r)
    BY <2>1, <2>4, OtherRInv
       DEF GenerateV1, FinishedV1, MemLoopV1, GenerateCPUV1
  <2> QED
    BY <2>2, <2>3, <2>4
<1>2. CASE UNCHANGED vars \/ ServerIdle
  BY <1>2 DEF vars, ServerIdle, RInv, TypeV1, Started, InRange,
     RandomAllocationWithinVariance
<1> QED
  BY <1>1, <1>2 DEF NextV1

\* Spec 4.1, 8 and 105, for every configuration of the random model: in
\* every reachable state of the earlier revision, once an iteration of the
\* memory loop has stored its size, g.currentMemory is baseline + delta
\* with delta within [-max, +max) up to the one byte varianceRandom's int()
\* truncation may take below it (RandomAllocationWithinVariance).
THEOREM RandomAllocationBounded ==
  ASSUME RandomModel
  PROVE  SpecV1 => []RandomAllocationWithinVariance
<1>1. InitV1 => RInv
  BY InitRInv
<1>2. RInv /\ [NextV1]_vars => RInv'
  BY StepRInv
<1>3. RInv => RandomAllocationWithinVariance
  BY DEF RInv
<1> QED
  BY <1>1, <1>2, <1>3, PTL DEF SpecV1

-----------------------------------------------------------------------------
(* The earlier revision's memory loop never panics, except for sine with  *)
(* a zero period or random with a variance above 100%.                    *)

\* The configurations in which the variance function cannot panic and
\* cannot return a negative size.
NoPanicModel ==
    /\ ~SinePanicsV1
    /\ MemoryVarianceFun = "random" => MemoryVariance <= 100

\* Under NoPanicModel every size an iteration computes is non-negative.
LEMMA SizesNonNeg ==
  ASSUME NoPanicModel, NEW cur \in Int, cur >= 0
  PROVE  \A n \in NewSizesV1(cur) : n \in Int /\ n >= 0
<1> SUFFICES ASSUME NEW n \in NewSizesV1(cur) PROVE n \in Int /\ n >= 0
  OBVIOUS
<1>1. CASE MemoryVarianceFun = "random" /\ MemoryVariance > 0
  <2>1. PICK k \in RandomDraws : n = RandomValueV1(k)
    BY <1>1 DEF NewSizesV1
  <2>2. k \in 0..99 /\ MemoryVariance <= 100
    BY <1>1, PhaseAssumption DEF NoPanicModel
  <2> QED
    BY <2>1, <2>2, RandomValueInt, RandomValueNonNeg
<1>2. CASE ~(MemoryVarianceFun = "random" /\ MemoryVariance > 0)
  BY <1>2 DEF NewSizesV1
<1> QED
  BY <1>1, <1>2

LEMMA InitPInv == InitV1 => PInv
<1> SUFFICES ASSUME InitV1 PROVE PInv
  OBVIOUS
<1>1. TypeV1
  BY InitRInv DEF RInv
<1>2. ~panicked /\ currentBytes >= 0
  BY BaselineNat DEF InitV1, Init
<1>3. \A r \in Requests : lpc[Mem(r)] = "commit" => newLen[r] >= 0
  BY DEF InitV1, Init, Mem, Loops
<1> QED
  BY <1>1, <1>2, <1>3 DEF PInv

\* Computing a size: it is non-negative and now pending.
LEMMA ComputePInv ==
  ASSUME NoPanicModel, PInv, NEW r \in Requests, MemComputeV1(r)
  PROVE  PInv'
<1>1. ~SinePanicsV1
  BY DEF NoPanicModel
<1>2. PICK n \in NewSizesV1(currentBytes) : newLen' = [newLen EXCEPT ![r] = n]
  BY <1>1 DEF MemComputeV1
<1>3. n \in Int /\ n >= 0
  BY SizesNonNeg DEF PInv, TypeV1
<1>4. /\ lpc' = [lpc EXCEPT ![Mem(r)] = "commit"]
      /\ iterations' = iterations + 1
      /\ UNCHANGED <<hpc, currentBytes, panicked>>
  BY <1>1 DEF MemComputeV1
<1>5. Mem(r) \in Loops
  BY DEF Mem, Loops
<1>6. TypeV1'
  BY <1>2, <1>3, <1>4, <1>5 DEF PInv, TypeV1
<1>7. \A s \in Requests : lpc'[Mem(s)] = "commit" => newLen'[s] >= 0
  BY <1>2, <1>3, <1>4, <1>5 DEF PInv, TypeV1, Mem, Loops
<1> QED
  BY <1>4, <1>6, <1>7 DEF PInv

\* Committing a size: make() gets a non-negative size, so it does not
\* panic, and the size is stored.
LEMMA CommitPInv ==
  ASSUME PInv, NEW r \in Requests, MemCommitV1(r)
  PROVE  PInv'
<1>1. lpc[Mem(r)] = "commit" /\ Mem(r) \in Loops
  BY DEF MemCommitV1, Mem, Loops
<1>2. newLen[r] \in Int /\ newLen[r] >= 0
  BY <1>1 DEF PInv, TypeV1
<1>3. ~MakePanics(newLen[r])
  BY <1>2 DEF MakePanics
<1>4. /\ currentBytes' = newLen[r]
      /\ lpc' = [lpc EXCEPT ![Mem(r)] = "run"]
      /\ UNCHANGED <<hpc, newLen, iterations, panicked>>
  BY <1>3 DEF MemCommitV1
<1> QED
  BY <1>1, <1>2, <1>4 DEF PInv, TypeV1, Mem, Loops

\* The other steps change neither the sizes nor panicked, and leave no
\* size pending that was not.
LEMMA OtherPInv ==
  ASSUME PInv, NEW r \in Requests,
         \/ GenMakeChan(r) \/ GenStart(r) \/ SendEval(r) \/ Send(r)
         \/ ClearRunning(r)
         \/ MemExit(r) \/ MemPick(r) \/ Recv(Mem(r))
         \/ CpuStart(r) \/ Recv(Cpu(r)) \/ WorkerExit(r)
  PROVE  PInv'
<1> USE DEF PInv, TypeV1, Mem, Cpu, Loops
<1>1. CASE GenMakeChan(r)
  BY <1>1 DEF GenMakeChan
<1>2. CASE GenStart(r)
  BY <1>2 DEF GenStart
<1>3. CASE SendEval(r) \/ Send(r)
  BY <1>3 DEF SendEval, Send
<1>4. CASE ClearRunning(r)
  BY <1>4 DEF ClearRunning
<1>5. CASE MemExit(r)
  BY <1>5 DEF MemExit
<1>6. CASE MemPick(r)
  BY <1>6 DEF MemPick
<1>7. CASE Recv(Mem(r))
  BY <1>7 DEF Recv
<1>8. CASE CpuStart(r)
  BY <1>8 DEF CpuStart
<1>9. CASE Recv(Cpu(r))
  BY <1>9 DEF Recv
<1>10. CASE WorkerExit(r)
  BY <1>10 DEF WorkerExit
<1> QED
  BY <1>1, <1>2, <1>3, <1>4, <1>5, <1>6, <1>7, <1>8, <1>9, <1>10

\* Every step of the earlier revision, and a stutter, preserves PInv.
LEMMA StepPInv ==
  ASSUME NoPanicModel, PInv, [NextV1]_vars
  PROVE  PInv'
<1>1. CASE \E r \in Requests :
             \/ GenerateV1(r) \/ FinishedV1(r) \/ MemLoopV1(r)
             \/ GenerateCPUV1(r) \/ WorkerExit(r)
  <2>1. PICK r \in Requests :
             \/ GenerateV1(r) \/ FinishedV1(r) \/ MemLoopV1(r)
             \/ GenerateCPUV1(r) \/ WorkerExit(r)
    BY <1>1
  <2>2. CASE MemComputeV1(r)
    BY <2>2, ComputePInv
  <2>3. CASE MemCommitV1(r)
    BY <2>3, CommitPInv
  <2>4. CASE ~MemComputeV1(r) /\ ~MemCommitV1(r)
    BY <2>1, <2>4, OtherPInv
       DEF GenerateV1, FinishedV1, MemLoopV1, GenerateCPUV1
  <2> QED
    BY <2>2, <2>3, <2>4
<1>2. CASE UNCHANGED vars \/ ServerIdle
  BY <1>2 DEF vars, ServerIdle, PInv, TypeV1
<1> QED
  BY <1>1, <1>2 DEF NextV1

\* In every reachable state of the earlier revision whose configuration is
\* not sine with a zero period nor random with a variance above 100%, no
\* make() or integer division of the memory loop has panicked
\* (NoRuntimePanic): varianceRandom's size is then never negative and
\* varianceLinear returns the stored size unchanged.
THEOREM NoPanicV1 ==
  ASSUME NoPanicModel
  PROVE  SpecV1 => []NoRuntimePanic
<1>1. InitV1 => PInv
  BY InitPInv
<1>2. PInv /\ [NextV1]_vars => PInv'
  BY StepPInv
<1>3. PInv => NoRuntimePanic
  BY DEF PInv, NoRuntimePanic
<1> QED
  BY <1>1, <1>2, <1>3, PTL DEF SpecV1
=============================================================================
