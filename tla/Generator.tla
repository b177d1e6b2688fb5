----------------------------- MODULE Generator -----------------------------
(***************************************************************************)
(* NodeGenerator (src/unnamed/part_000) as used by a request handler: the  *)
(* handler calls Generate() and, when it returns, the Finished closure.    *)
(* Generate() replaces the shared field g.finished by a fresh channel of   *)
(* capacity 2, sets the shared flag g.running and starts the memory loop   *)
(* and, when cpuCoresCount # 0, the CPU supervisor, which starts           *)
(* cpuCoresCount duty-cycle workers.  The closure sends twice on whatever *)
(* g.finished holds at each send and then clears g.running.  A loop that  *)
(* sees g.running false reads g.finished and receives from that channel;  *)
(* the CPU supervisor reads g.finished as soon as it has started its      *)
(* workers.  One generator is shared by every handler (FakeServer holds   *)
(* one), so each request in Requests runs this protocol on the same       *)
(* g.running, g.finished and phase state.                                 *)
(*                                                                         *)
(* A channel is named by the request whose Generate() made it.  Reads and *)
(* writes of g.running and g.finished are unsynchronised in the code; the *)
(* model lets every read see the last write.                              *)
(***************************************************************************)
EXTENDS MemoryPhase, Naturals

CONSTANTS
    Requests,       \* the handler invocations that use the generator
    Cores,          \* int(cpuCoresCount)
    Serial,         \* TRUE: a request starts only after the others returned
    MaxIterations,  \* bound on the memory loop iterations explored
    NilChan         \* the nil value of g.finished before the first Generate

ASSUME GeneratorAssumption ==
    /\ Cores \in Nat
    /\ Serial \in BOOLEAN
    /\ MaxIterations \in Nat
    /\ NilChan \notin Requests

\* make(chan struct{}, 2) in Generate(); FinishedCapOne is the one-slot
\* buffer its comment warns against.
FinishedCapOne == 1
FinishedCap == 2

\* The goroutines of one request: its memory loop and its CPU supervisor.
Loops == Requests \X {"mem", "cpu"}
Mem(r) == <<r, "mem">>
Cpu(r) == <<r, "cpu">>

VARIABLES
    running,       \* g.running
    finished,      \* g.finished: the channel last made, or NilChan
    buf,           \* buf[c]: signals buffered in channel c
    hpc,           \* hpc[r]: where request r's handler is in the protocol
    lpc,           \* lpc[l]: where loop goroutine l is
    waitOn,        \* waitOn[l]: the channel loop l read from g.finished
    sendOn,        \* sendOn[r]: the channel r's pending send read from g.finished
    workers,       \* workers[r]: CPU duty-cycle workers of r still looping
    newLen,        \* newLen[r]: newMemLen of r's memory loop iteration
    currentBytes,  \* g.state.currentBytes
    currentTick,   \* g.state.currentTick
    iterations,    \* memory loop iterations so far (bounded by MaxIterations)
    panicked       \* a runtime panic has ended the process

vars == <<running, finished, buf, hpc, lpc, waitOn, sendOn, workers, newLen,
          currentBytes, currentTick, iterations, panicked>>

Chans == Requests \cup {NilChan}

TypeOK ==
    /\ running \in BOOLEAN
    /\ finished \in Chans
    /\ buf \in [Requests -> 0..FinishedCap]
    /\ hpc \in [Requests -> {"idle", "made", "send1", "wait1", "send2", "wait2",
                             "clear", "done"}]
    /\ lpc \in [Loops -> {"none", "run", "commit", "pick", "recv", "done"}]
    /\ waitOn \in [Loops -> Chans]
    /\ sendOn \in [Requests -> Chans]
    /\ workers \in [Requests -> 0..Cores]
    /\ newLen \in [Requests -> Int]
    /\ currentBytes \in Int
    /\ currentTick \in Nat
    /\ iterations \in 0..MaxIterations
    /\ panicked \in BOOLEAN

Init ==
    /\ running = FALSE
    /\ finished = NilChan
    /\ buf = [c \in Requests |-> 0]
    /\ hpc = [r \in Requests |-> "idle"]
    /\ lpc = [l \in Loops |-> "none"]
    /\ waitOn = [l \in Loops |-> NilChan]
    /\ sendOn = [r \in Requests |-> NilChan]
    /\ workers = [r \in Requests |-> 0]
    /\ newLen = [r \in Requests |-> BaselineBytes]
    /\ currentBytes = BaselineBytes
    /\ currentTick = 0
    /\ iterations = 0
    /\ panicked = FALSE

-----------------------------------------------------------------------------
(* Generate(), first statement: g.finished = make(chan struct{}, 2).  The  *)
(* handler calls it first thing (request_grpc.go Handle).                  *)
GenMakeChan(r) ==
    /\ hpc[r] = "idle"
    /\ Serial => \A o \in Requests \ {r} : hpc[o] \in {"idle", "done"}
    /\ finished' = r
    /\ hpc' = [hpc EXCEPT ![r] = "made"]
    /\ UNCHANGED <<sendOn, running, buf, lpc, waitOn, workers, newLen,
                   currentBytes, currentTick, iterations, panicked>>

(* The rest of Generate(): g.running = true, generateVaryingMemory() starts *)
(* the memory loop, generateCPU() starts the supervisor unless the core    *)
(* count is 0; the handler then does its work and calls the closure.       *)
GenStart(r) ==
    /\ hpc[r] = "made"
    /\ running' = TRUE
    /\ lpc' = [lpc EXCEPT ![Mem(r)] = "run",
                          ![Cpu(r)] = IF Cores = 0 THEN "none" ELSE "run"]
    /\ hpc' = [hpc EXCEPT ![r] = "send1"]
    /\ UNCHANGED <<sendOn, finished, buf, waitOn, workers, newLen,
                   currentBytes, currentTick, iterations, panicked>>

(* The closure's two sends, g.finished <- struct{}{}: each evaluates the  *)
(* field once (SendEval) and then blocks until that channel has room, for *)
(* ever if it is nil (Send); a later Generate() that reassigns the field  *)
(* does not move a send already blocked.                                   *)
SendEval(r) ==
    /\ hpc[r] \in {"send1", "send2"}
    /\ sendOn' = [sendOn EXCEPT ![r] = finished]
    /\ hpc' = [hpc EXCEPT ![r] = IF @ = "send1" THEN "wait1" ELSE "wait2"]
    /\ UNCHANGED <<running, finished, buf, lpc, waitOn, workers, newLen,
                   currentBytes, currentTick, iterations, panicked>>
SendOnce(r) ==
    /\ hpc[r] = "wait1"
    /\ sendOn[r] # NilChan
    /\ buf[sendOn[r]] < FinishedCap
    /\ buf' = [buf EXCEPT ![sendOn[r]] = @ + 1]
    /\ sendOn' = [sendOn EXCEPT ![r] = NilChan]
    /\ hpc' = [hpc EXCEPT ![r] = "clear"]
    /\ UNCHANGED <<running, finished, lpc, waitOn, workers, newLen,
                   currentBytes, currentTick, iterations, panicked>>
Send(r) ==
    /\ hpc[r] \in {"wait1", "wait2"}
    /\ sendOn[r] # NilChan
    /\ buf[sendOn[r]] < FinishedCap
    /\ buf' = [buf EXCEPT ![sendOn[r]] = @ + 1]
    /\ sendOn' = [sendOn EXCEPT ![r] = NilChan]
    /\ hpc' = [hpc EXCEPT ![r] = IF @ = "wait1" THEN "send2" ELSE "clear"]
    /\ UNCHANGED <<running, finished, lpc, waitOn, workers, newLen,
                   currentBytes, currentTick, iterations, panicked>>

(* The closure's last statement: g.running = false.                        *)
ClearRunning(r) ==
    /\ hpc[r] = "clear"
    /\ running' = FALSE
    /\ hpc' = [hpc EXCEPT ![r] = "done"]
    /\ UNCHANGED <<sendOn, finished, buf, lpc, waitOn, workers, newLen,
                   currentBytes, currentTick, iterations, panicked>>

-----------------------------------------------------------------------------
(* Memory loop, for g.running { ... }: an iteration reads currentBytes and *)
(* computes newMemLen = currentBytes + delta(g) ...                        *)
MemCompute(r) ==
    /\ lpc[Mem(r)] = "run"
    /\ running
    /\ iterations < MaxIterations
    /\ \E d \in Deltas(currentTick) :
          newLen' = [newLen EXCEPT ![r] = currentBytes + d]
    /\ lpc' = [lpc EXCEPT ![Mem(r)] = "commit"]
    /\ iterations' = iterations + 1
    /\ UNCHANGED <<sendOn, running, finished, buf, hpc, waitOn, workers,
                   currentBytes, currentTick, panicked>>

(* ... then make([]byte, 0, newMemLen), g.state.currentBytes = newMemLen, *)
(* g.tick(), and the sleep before the next check of g.running.  Either    *)
(* make or tick() may panic, which ends the process.                      *)
MemCommit(r) ==
    /\ lpc[Mem(r)] = "commit"
    /\ IF MakePanics(newLen[r]) \/ TickPanics
         THEN /\ panicked' = TRUE
              /\ UNCHANGED <<lpc, currentBytes, currentTick>>
         ELSE /\ currentBytes' = newLen[r]
              /\ currentTick' = Tick(currentTick)
              /\ lpc' = [lpc EXCEPT ![Mem(r)] = "run"]
              /\ UNCHANGED panicked
    /\ UNCHANGED <<sendOn, running, finished, buf, hpc, waitOn, workers, newLen,
                   iterations>>

(* The loop condition is false: the memory loop leaves the loop.           *)
MemExit(r) ==
    /\ lpc[Mem(r)] = "run"
    /\ ~running
    /\ lpc' = [lpc EXCEPT ![Mem(r)] = "pick"]
    /\ UNCHANGED <<sendOn, running, finished, buf, hpc, waitOn, workers, newLen,
                   currentBytes, currentTick, iterations, panicked>>

(* <-g.finished after the loop: the field is read now ...                  *)
MemPick(r) ==
    /\ lpc[Mem(r)] = "pick"
    /\ waitOn' = [waitOn EXCEPT ![Mem(r)] = finished]
    /\ lpc' = [lpc EXCEPT ![Mem(r)] = "recv"]
    /\ UNCHANGED <<sendOn, running, finished, buf, hpc, workers, newLen,
                   currentBytes, currentTick, iterations, panicked>>

(* The CPU supervisor goroutine, with the worker loop bound as i <= n.     *)
CpuStartOffByOne(r) ==
    /\ lpc[Cpu(r)] = "run"
    /\ workers' = [workers EXCEPT ![r] = Cores + 1]
    /\ waitOn' = [waitOn EXCEPT ![Cpu(r)] = finished]
    /\ lpc' = [lpc EXCEPT ![Cpu(r)] = "recv"]
    /\ UNCHANGED <<sendOn, running, finished, buf, hpc, newLen,
                   currentBytes, currentTick, iterations, panicked>>

(* The CPU supervisor goroutine: starts int(cpuCoresCount) workers and    *)
(* then, without waiting for g.running, reads g.finished to receive on it. *)
CpuStart(r) ==
    /\ lpc[Cpu(r)] = "run"
    /\ workers' = [workers EXCEPT ![r] = Cores]
    /\ waitOn' = [waitOn EXCEPT ![Cpu(r)] = finished]
    /\ lpc' = [lpc EXCEPT ![Cpu(r)] = "recv"]
    /\ UNCHANGED <<sendOn, running, finished, buf, hpc, newLen,
                   currentBytes, currentTick, iterations, panicked>>

(* ... and blocks until that channel holds a signal (a nil channel never  *)
(* does), then exits.                                                      *)
Recv(l) ==
    /\ lpc[l] = "recv"
    /\ waitOn[l] # NilChan
    /\ buf[waitOn[l]] > 0
    /\ buf' = [buf EXCEPT ![waitOn[l]] = @ - 1]
    /\ lpc' = [lpc EXCEPT ![l] = "done"]
    /\ UNCHANGED <<sendOn, running, finished, hpc, waitOn, workers, newLen,
                   currentBytes, currentTick, iterations, panicked>>

(* A duty-cycle worker: for g.running { busy; sleep }.  An iteration      *)
(* changes nothing shared; a worker that finds g.running false exits.     *)
WorkerExit(r) ==
    /\ workers[r] > 0
    /\ ~running
    /\ workers' = [workers EXCEPT ![r] = @ - 1]
    /\ UNCHANGED <<sendOn, running, finished, buf, hpc, lpc, waitOn, newLen,
                   currentBytes, currentTick, iterations, panicked>>

-----------------------------------------------------------------------------
\* Every handler has returned and every goroutine it started has exited.
Quiescent ==
    /\ \A r \in Requests : hpc[r] = "done" /\ workers[r] = 0
    /\ \A l \in Loops : lpc[l] \in {"none", "done"}

\* Every handler has returned: the server process lives on, idle, whatever
\* goroutines are still blocked or spinning.
ServerIdle ==
    /\ \A r \in Requests : hpc[r] = "done"
    /\ UNCHANGED vars

\* Steps of request r's handler and of each goroutine it starts.
Handler(r) ==
    GenMakeChan(r) \/ GenStart(r) \/ SendEval(r) \/ Send(r) \/ ClearRunning(r)
MemLoop(r) ==
    \/ MemCompute(r) \/ MemCommit(r) \/ MemExit(r) \/ MemPick(r)
    \/ Recv(Mem(r))
CpuSupervisor(r) == CpuStart(r) \/ Recv(Cpu(r))

Next ==
    \/ /\ ~panicked
       /\ \E r \in Requests :
             Handler(r) \/ MemLoop(r) \/ CpuSupervisor(r) \/ WorkerExit(r)
    \/ ServerIdle

Spec == Init /\ [][Next]_vars

\* Go's scheduler eventually runs every runnable goroutine (each loop calls
\* into the runtime on every iteration), and a handler's work between
\* Generate() and the closure is finite.  The workers of one request are
\* alike, so one fairness condition covers them all.
Fairness ==
    \A r \in Requests :
        /\ WF_vars(~panicked /\ Handler(r))
        /\ WF_vars(~panicked /\ MemLoop(r))
        /\ WF_vars(~panicked /\ CpuSupervisor(r))
        /\ WF_vars(~panicked /\ WorkerExit(r))

FairSpec == Spec /\ Fairness

-----------------------------------------------------------------------------
(* Properties.                                                             *)

\* The comment in Generate(): the channel is buffered so that the Finished
\* closure never blocks.  Whenever a send of the closure has evaluated its
\* channel, that channel is a real one and has room.
StopNeverBlocks ==
    \A r \in Requests :
        hpc[r] \in {"wait1", "wait2"}
            => sendOn[r] # NilChan /\ buf[sendOn[r]] < FinishedCap

\* The stop protocol: once every handler has called its Finished closure,
\* every memory loop, CPU supervisor and duty-cycle worker exits (no
\* goroutine is left blocked on <-g.finished or spinning).
GeneratorQuiesces == <>[]Quiescent

\* A memory loop iteration never panics: make() never gets a negative
\* capacity and tick() never takes % 0.
NoRuntimePanic == ~panicked

\* The spec's stateless contract (spec.md 4.1): the allocation made at a
\* tick is baseline + delta(previous tick), never an accumulation.
PrevTick == (currentTick + TicksPerPeriod - 1) % TicksPerPeriod
StatelessAllocation ==
    (iterations > 0 /\ \A l \in Loops : lpc[l] # "commit")
        => \E d \in Deltas(PrevTick) : currentBytes = BaselineBytes + d
=============================================================================
