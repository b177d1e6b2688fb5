---------------------------- MODULE MemoryPhase ----------------------------
(***************************************************************************)
(* The phase arithmetic of NodeGenerator (src/unnamed/part_000): the       *)
(* baseline and variance derived by NewNodeGenerator, the four variance    *)
(* models selected by getVarianceFuncByName, and tick().  The module has   *)
(* no variables; Generator.tla uses it for the memory loop's iteration.    *)
(*                                                                         *)
(* Float arithmetic is modelled with exact rationals and int() with        *)
(* truncation toward zero.  math.Sin is modelled exactly at the quarter    *)
(* points of the period (where it is 0, 1 or -1) and by its sign and bound *)
(* elsewhere.  rand.Float64() draws from the constant set RandomDraws of  *)
(* hundredths.                                                             *)
(***************************************************************************)
EXTENDS Integers

CONSTANTS
    MemoryMBytes,          \* memoryMBytes: baseline in MiB
    BytesPerMiB,           \* int(math.Pow(2, 20)) in the code
    MemoryVariance,        \* memoryVariance: variance in percent
    MemoryVarianceFun,     \* memoryVarianceFun: "linear", "random", "sine", other
    MemoryVariancePeriod,  \* memoryVariancePeriod: in seconds
    RandomDraws            \* the values k of rand.Float64() = k/100 explored

ASSUME PhaseAssumption ==
    /\ MemoryMBytes \in Nat
    /\ BytesPerMiB \in Nat \ {0}
    /\ MemoryVariance \in Nat
    /\ MemoryVariancePeriod \in Nat
    /\ RandomDraws \subseteq 0..99

\* int(math.Pow(2, 20)) * memoryMBytes: state.baselineBytes and the
\* initial state.currentBytes.
BaselineBytes == MemoryMBytes * BytesPerMiB

\* state.maxVarianceBytes = 2^20 * (memoryMBytes * memoryVariance) / 100, a
\* float: kept as the numerator over MaxVarianceDen.
MaxVarianceNum == BytesPerMiB * MemoryMBytes * MemoryVariance
MaxVarianceDen == 100

\* int(Duration(period) * time.Second / TICK_INTERVAL), TICK_INTERVAL = 500ms.
\* Nothing clamps it: a period of 0 gives 0 ticks per period.
TicksPerPeriod == (MemoryVariancePeriod * 1000) \div 500

\* int(a / b) for a float quotient: truncation toward zero.
TruncDiv(a, b) ==
    LET q == (IF a < 0 THEN -a ELSE a) \div (IF b < 0 THEN -b ELSE b)
    IN  IF (a < 0) = (b < 0) THEN q ELSE -q

\* linearX() = currentTick / (ticksPerPeriod - 1): the denominator, chosen
\* so that the last tick of a period reaches +max.
LinearXDen == TicksPerPeriod - 1

\* varianceLinear: int(2 * linearX() * max - max).
LinearDelta(t) ==
    TruncDiv((2 * t - LinearXDen) * MaxVarianceNum,
             LinearXDen * MaxVarianceDen)

\* varianceRandom: rSign in {0, -1}; math.Copysign(f, 0) = f and
\* math.Copysign(f, -1) = -f; delta = int(rPct * max).
RandomDeltas ==
    { TruncDiv(s * k * MaxVarianceNum, 100 * MaxVarianceDen) :
        s \in {1, -1}, k \in RandomDraws }

\* varianceSineWave: int(sin(2 * Pi * currentTick / ticksPerPeriod) * max).
\* At a quarter point sin is 0, 1, 0 or -1 (sin(Pi) * max truncates to 0);
\* in between the result has the sign of sin and is bounded by int(max).
\* With ticksPerPeriod = 0 the angle is NaN; tick() then panics in the same
\* iteration (see Tick), so the value is irrelevant and taken as 0.
SineDeltas(t) ==
    LET T   == TicksPerPeriod
        Top == MaxVarianceNum \div MaxVarianceDen
    IN  IF T = 0 THEN {0}
        ELSE IF (4 * t) % T = 0
             THEN {CASE 4 * t = T     -> Top
                     [] 4 * t = 3 * T -> -Top
                     [] OTHER         -> 0}
        ELSE IF 2 * t < T THEN 0..Top ELSE -Top..0

\* getVarianceFuncByName: varianceZero when memoryVariance == 0 or the name
\* is unknown; the chosen function's possible results for tick t.
Deltas(t) ==
    IF MemoryVariance = 0 THEN {0}
    ELSE CASE MemoryVarianceFun = "linear" -> {LinearDelta(t)}
           [] MemoryVarianceFun = "random" -> RandomDeltas
           [] MemoryVarianceFun = "sine"   -> SineDeltas(t)
           [] OTHER                        -> {0}

\* tick(): (currentTick + 1) % ticksPerPeriod.  Go's % by zero panics, so
\* tick() is only defined when TickPanics is false.
TickPanics == TicksPerPeriod = 0
Tick(t) == (t + 1) % TicksPerPeriod

\* make([]byte, 0, n) panics when n < 0 (makeslice: cap out of range).
MakePanics(n) == n < 0
=============================================================================
