--------------------------- MODULE GeneratorProofs ---------------------------
(***************************************************************************)
(* Proofs about Generator: the type invariant for every value of the      *)
(* constants, and that the Finished closure of a generator used by one    *)
(* request at a time never blocks.                                         *)
(***************************************************************************)
EXTENDS Generator, TLAPS

-----------------------------------------------------------------------------
(* Facts about the phase arithmetic.                                       *)

\* ticksPerPeriod is twice the period in seconds, so never 1.
LEMMA TicksPerPeriodValue ==
    TicksPerPeriod = 2 * MemoryVariancePeriod /\ TicksPerPeriod \in Nat
BY PhaseAssumption DEF TicksPerPeriod

\* int(a / b) is an integer whenever b is not zero.
LEMMA TruncDivInt ==
    ASSUME NEW a \in Int, NEW b \in Int, b # 0
    PROVE  TruncDiv(a, b) \in Int
BY DEF TruncDiv

\* Every variance model returns an integer delta.
LEMMA DeltasInt ==
    ASSUME NEW t \in Nat
    PROVE  Deltas(t) \subseteq Int
<1> DEFINE T == TicksPerPeriod
<1>1. T \in Nat /\ T - 1 # 0
  BY TicksPerPeriodValue, PhaseAssumption
<1>2. MaxVarianceNum \in Int /\ MaxVarianceDen = 100
  BY PhaseAssumption DEF MaxVarianceNum, MaxVarianceDen
<1>3. LinearDelta(t) \in Int
  BY <1>1, <1>2, TruncDivInt DEF LinearDelta, LinearXDen
<1>4. RandomDeltas \subseteq Int
  BY <1>2, PhaseAssumption, TruncDivInt DEF RandomDeltas
<1>5. SineDeltas(t) \subseteq Int
  BY <1>1, <1>2 DEF SineDeltas
<1>6. QED
  BY <1>3, <1>4, <1>5 DEF Deltas

-----------------------------------------------------------------------------
(* Type correctness.                                                       *)

LEMMA InitTypeOK == Init => TypeOK
<1> SUFFICES ASSUME Init PROVE TypeOK
  OBVIOUS
<1>1. BaselineBytes \in Int
  BY PhaseAssumption DEF BaselineBytes
<1>2. buf \in [Requests -> 0..FinishedCap]
  BY DEF Init, FinishedCap
<1>3. workers \in [Requests -> 0..Cores] /\ iterations \in 0..MaxIterations
  BY GeneratorAssumption DEF Init
<1>4. newLen \in [Requests -> Int] /\ currentBytes \in Int
  BY <1>1 DEF Init
<1>5. waitOn \in [Loops -> Chans] /\ finished \in Chans
  BY DEF Init, Chans
<1>6. QED
  BY <1>2, <1>3, <1>4, <1>5 DEF Init, TypeOK

LEMMA NextTypeOK == TypeOK /\ [Next]_vars => TypeOK'
<1> SUFFICES ASSUME TypeOK, [Next]_vars PROVE TypeOK'
  OBVIOUS
<1> USE GeneratorAssumption DEF TypeOK, Chans, FinishedCap, Mem, Cpu, Loops
<1>1. ASSUME NEW r \in Requests, GenMakeChan(r) PROVE TypeOK'
  BY <1>1 DEF GenMakeChan
<1>2. ASSUME NEW r \in Requests, GenStart(r) PROVE TypeOK'
  BY <1>2 DEF GenStart
<1>3. ASSUME NEW r \in Requests, SendEval(r) \/ Send(r) PROVE TypeOK'
  BY <1>3 DEF SendEval, Send
<1>4. ASSUME NEW r \in Requests, ClearRunning(r) PROVE TypeOK'
  BY <1>4 DEF ClearRunning
<1>5. ASSUME NEW r \in Requests, MemCompute(r) PROVE TypeOK'
  <2>1. Deltas(currentTick) \subseteq Int
    BY DeltasInt
  <2>2. QED
    BY <1>5, <2>1 DEF MemCompute
<1>6. ASSUME NEW r \in Requests, MemCommit(r) PROVE TypeOK'
  <2>1. CASE MakePanics(newLen[r]) \/ TickPanics
    BY <1>6, <2>1 DEF MemCommit
  <2>2. CASE ~(MakePanics(newLen[r]) \/ TickPanics)
    <3>1. TicksPerPeriod \in Nat \ {0}
      BY <2>2, TicksPerPeriodValue DEF TickPanics
    <3>2. Tick(currentTick) \in Nat
      BY <3>1 DEF Tick
    <3>3. QED
      BY <1>6, <2>2, <3>2 DEF MemCommit
  <2>3. QED
    BY <2>1, <2>2
<1>7. ASSUME NEW r \in Requests, MemExit(r) PROVE TypeOK'
  BY <1>7 DEF MemExit
<1>8. ASSUME NEW r \in Requests, MemPick(r) PROVE TypeOK'
  BY <1>8 DEF MemPick
<1>9. ASSUME NEW r \in Requests, CpuStart(r) PROVE TypeOK'
  BY <1>9 DEF CpuStart
<1>10. ASSUME NEW l \in Loops, Recv(l) PROVE TypeOK'
  BY <1>10 DEF Recv
<1>11. ASSUME NEW r \in Requests, WorkerExit(r) PROVE TypeOK'
  BY <1>11 DEF WorkerExit
<1>12. CASE ServerIdle \/ UNCHANGED vars
  BY <1>12 DEF ServerIdle, vars
<1>13. QED
  BY <1>1, <1>2, <1>3, <1>4, <1>5, <1>6, <1>7, <1>8, <1>9, <1>10, <1>11,
     <1>12
  DEF Next, Handler, MemLoop, CpuSupervisor

\* The type invariant holds in every reachable state.
THEOREM TypeCorrect == Spec => []TypeOK
BY InitTypeOK, NextTypeOK, PTL DEF Spec

-----------------------------------------------------------------------------
(* One request at a time on a generator: the Finished closure never      *)
(* blocks.  The signals request r has sent to its channel are those still *)
(* buffered plus those its loops have received, and a loop only ever      *)
(* waits on r's channel; so before the first send the buffer is empty and *)
(* before the second it holds at most one signal.                         *)

\* The sends the closure of r has made, read off its program counter.
SentBy(r) ==
    CASE hpc[r] \in {"idle", "made", "send1", "wait1"} -> 0
      [] hpc[r] \in {"send2", "wait2"}                  -> 1
      [] OTHER                                          -> 2

\* The loops of r that have received their signal.
Received(r) ==
    (IF lpc[Mem(r)] = "done" THEN 1 ELSE 0)
    + (IF lpc[Cpu(r)] = "done" THEN 1 ELSE 0)

SingleInv(r) ==
    /\ finished \in {NilChan, r}
    /\ (finished = NilChan) <=> (hpc[r] = "idle")
    /\ hpc[r] \in {"wait1", "wait2"} => sendOn[r] = r
    /\ \A k \in {"mem", "cpu"} :
          /\ lpc[<<r, k>>] # "none" => hpc[r] \notin {"idle", "made"}
          /\ lpc[<<r, k>>] \in {"recv", "done"} => waitOn[<<r, k>>] = r
    /\ buf[r] + Received(r) = SentBy(r)

IInv(r) == TypeOK /\ SingleInv(r)

LEMMA SingleInit ==
    ASSUME NEW r, Requests = {r}
    PROVE  Init => IInv(r)
<1> SUFFICES ASSUME Init PROVE IInv(r)
  OBVIOUS
<1>1. TypeOK
  BY InitTypeOK
<1>2. SingleInv(r)
  BY GeneratorAssumption DEF Init, SingleInv, SentBy, Received, Mem, Cpu, Loops
<1>3. QED
  BY <1>1, <1>2 DEF IInv

LEMMA SingleStep ==
    ASSUME NEW r, Requests = {r}
    PROVE  IInv(r) /\ [Next]_vars => IInv(r)'
<1> SUFFICES ASSUME IInv(r), [Next]_vars PROVE IInv(r)'
  OBVIOUS
<1>0. TypeOK /\ TypeOK'
  BY NextTypeOK DEF IInv
<1> USE <1>0, GeneratorAssumption
    DEF IInv, SingleInv, SentBy, Received, Mem, Cpu, Loops, TypeOK, Chans,
        FinishedCap
<1>1. ASSUME NEW s \in Requests, GenMakeChan(s) PROVE SingleInv(r)'
  BY <1>1 DEF GenMakeChan
<1>2. ASSUME NEW s \in Requests, GenStart(s) PROVE SingleInv(r)'
  BY <1>2 DEF GenStart
<1>3. ASSUME NEW s \in Requests, SendEval(s) \/ Send(s) PROVE SingleInv(r)'
  <2>1. s = r
    OBVIOUS
  <2>2. CASE SendEval(s)
    BY <2>1, <2>2 DEF SendEval
  <2>3. CASE Send(s)
    <3>1. hpc[r] \in {"wait1", "wait2"} /\ sendOn[r] = r /\ buf[r] < 2
      BY <2>1, <2>3 DEF Send
    <3>2. buf' = [buf EXCEPT ![r] = @ + 1] /\ sendOn' = [sendOn EXCEPT ![r] = NilChan]
      BY <2>1, <2>3, <3>1 DEF Send
    <3>3. hpc' = [hpc EXCEPT ![r] = IF @ = "wait1" THEN "send2" ELSE "clear"]
      BY <2>1, <2>3 DEF Send
    <3>4. UNCHANGED <<finished, lpc, waitOn>>
      BY <2>3 DEF Send
    <3>5. QED
      BY <3>1, <3>2, <3>3, <3>4
  <2>4. QED
    BY <1>3, <2>2, <2>3
<1>4. ASSUME NEW s \in Requests, ClearRunning(s) PROVE SingleInv(r)'
  BY <1>4 DEF ClearRunning
<1>5. ASSUME NEW s \in Requests, MemCompute(s) PROVE SingleInv(r)'
  BY <1>5 DEF MemCompute
<1>6. ASSUME NEW s \in Requests, MemCommit(s) PROVE SingleInv(r)'
  BY <1>6 DEF MemCommit
<1>7. ASSUME NEW s \in Requests, MemExit(s) PROVE SingleInv(r)'
  BY <1>7 DEF MemExit
<1>8. ASSUME NEW s \in Requests, MemPick(s) PROVE SingleInv(r)'
  BY <1>8 DEF MemPick
<1>9. ASSUME NEW s \in Requests, CpuStart(s) PROVE SingleInv(r)'
  BY <1>9 DEF CpuStart
<1>10. ASSUME NEW l \in Loops, Recv(l) PROVE SingleInv(r)'
  <2>1. waitOn[l] = r /\ buf[r] > 0
    BY <1>10 DEF Recv
  <2>2. buf' = [buf EXCEPT ![r] = @ - 1] /\ lpc' = [lpc EXCEPT ![l] = "done"]
    BY <1>10, <2>1 DEF Recv
  <2>3. UNCHANGED <<finished, hpc, waitOn, sendOn>>
    BY <1>10 DEF Recv
  <2>4. CASE l = <<r, "mem">>
    BY <2>1, <2>2, <2>3, <2>4, <1>10 DEF Recv
  <2>5. CASE l = <<r, "cpu">>
    BY <2>1, <2>2, <2>3, <2>5, <1>10 DEF Recv
  <2>6. QED
    BY <2>4, <2>5
<1>11. ASSUME NEW s \in Requests, WorkerExit(s) PROVE SingleInv(r)'
  BY <1>11 DEF WorkerExit
<1>12. CASE ServerIdle \/ UNCHANGED vars
  BY <1>12 DEF ServerIdle, vars
<1>13. QED
  BY <1>1, <1>2, <1>3, <1>4, <1>5, <1>6, <1>7, <1>8, <1>9, <1>10, <1>11,
     <1>12
  DEF Next, Handler, MemLoop, CpuSupervisor

LEMMA SingleSafe ==
    ASSUME NEW r, Requests = {r}
    PROVE  IInv(r) => StopNeverBlocks
BY DEF IInv, SingleInv, SentBy, Received, StopNeverBlocks, TypeOK, Chans,
       FinishedCap

\* The comment in Generate() holds when one request at a time uses the
\* generator: the Finished closure's sends never find the buffer full,
\* for every core count and every variance configuration.
THEOREM SingleRequestStopNeverBlocks ==
    ASSUME NEW r, Requests = {r}
    PROVE  Spec => []StopNeverBlocks
BY SingleInit, SingleStep, SingleSafe, PTL DEF Spec
=============================================================================
