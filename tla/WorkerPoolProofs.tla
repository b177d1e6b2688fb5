-------------------------- MODULE WorkerPoolProofs --------------------------
(***************************************************************************)
(* Proofs about the worker pool: the pool implements its contract         *)
(* WorkerPoolAbstract under the refinement mapping of WorkerPool, for     *)
(* every number of tasks, every set of worker counts and every outcome    *)
(* set.                                                                    *)
(***************************************************************************)
EXTENDS WorkerPool, SequenceTheorems, TLAPS

Busy(w) == wpc[w] = "busy"

(***************************************************************************)
(* The inductive invariant.  Every task index handed out by the queue     *)
(* (below next) is in exactly one place: with the busy worker running it, *)
(* in one pair of the results channel, or in its slot; an index not yet   *)
(* handed out is in none.  Before Do starts its workers, and after a      *)
(* configuration error, nothing has run; Do returns only when every       *)
(* started worker has exited, and worker 1 is started whenever there is a *)
(* task, so an exit means the queue is drained.                           *)
(***************************************************************************)
NotStarted ==
    ppc \in {"start", "configError"} =>
        /\ wpc = [w \in Workers |-> "none"]
        /\ next = 1
        /\ chan = <<>>
        /\ slots = [i \in Tasks |-> Empty]
CountChecked ==
    /\ ppc = "configError" => wc < 1
    /\ ppc \in {"wait", "returned"} => wc >= 1
FirstWorkerStarted ==
    ppc \in {"wait", "returned"} /\ NTasks >= 1 => wpc[1] # "none"
ReturnedQuiet ==
    ppc = "returned" =>
        /\ chan = <<>>
        /\ \A w \in Workers : wpc[w] \in {"none", "exited"}
ExitedDrained == \A w \in Workers : wpc[w] = "exited" => next > NTasks
BusyPending ==
    \A w \in Workers :
        Busy(w) => /\ cur[w] \in 1..(next - 1)
                   /\ Sent(cur[w]) = {}
                   /\ slots[cur[w]] = Empty
BusyUnique == \A v, w \in Workers : Busy(v) /\ Busy(w) /\ cur[v] = cur[w] => v = w
ChanUnique == \A k, l \in 1..Len(chan) : chan[k][1] = chan[l][1] => k = l
ChanPending ==
    \A k \in 1..Len(chan) : chan[k][1] < next /\ slots[chan[k][1]] = Empty
NotHandedOut == \A i \in Tasks : i >= next => slots[i] = Empty
HandedOutAccounted ==
    \A i \in 1..(next - 1) :
        \/ \E w \in Workers : Busy(w) /\ cur[w] = i
        \/ Sent(i) # {}
        \/ slots[i] # Empty

IInv ==
    /\ TypeOK
    /\ NotStarted
    /\ CountChecked
    /\ FirstWorkerStarted
    /\ ReturnedQuiet
    /\ ExitedDrained
    /\ BusyPending
    /\ BusyUnique
    /\ ChanUnique
    /\ ChanPending
    /\ NotHandedOut
    /\ HandedOutAccounted

\* Initially Do has not started: no worker, no pair, no slot filled.
LEMMA InitIInv == Init => IInv
<1> SUFFICES ASSUME Init PROVE IInv
  OBVIOUS
<1> USE WorkerPoolAssumption DEF Init, Tasks, Workers
<1>1. TypeOK
  <2>1. wc \in WorkerCounts /\ ppc \in {"start", "wait", "returned", "configError"}
    OBVIOUS
  <2>2. next \in 1..NTasks + 1
    OBVIOUS
  <2>3. wpc \in [Workers -> {"none", "idle", "busy", "exited"}]
        /\ cur \in [Workers -> Tasks \cup {0}]
    OBVIOUS
  <2>4. chan \in Seq(Tasks \X Outcomes) /\ results \in Seq(Outcomes)
    BY EmptySeq
  <2>5. slots \in [Tasks -> Outcomes \cup {Empty}]
    OBVIOUS
  <2>6. aggErr \in BOOLEAN
    BY Zenon
  <2>7. QED
    BY <2>1, <2>2, <2>3, <2>4, <2>5, <2>6 DEF TypeOK
<1>2. NotStarted /\ CountChecked /\ FirstWorkerStarted /\ ReturnedQuiet
  BY DEF NotStarted, CountChecked, FirstWorkerStarted, ReturnedQuiet
<1>3. ExitedDrained /\ BusyPending /\ BusyUnique
  BY DEF ExitedDrained, BusyPending, BusyUnique, Busy
<1>4. ChanUnique /\ ChanPending /\ NotHandedOut /\ HandedOutAccounted
  BY DEF ChanUnique, ChanPending, NotHandedOut, HandedOutAccounted
<1>5. QED
  BY <1>1, <1>2, <1>3, <1>4 DEF IInv

\* When Do's return condition holds (every started worker exited, the
\* channel drained) every slot holds a result: worker 1 exited only after
\* the queue was drained, and no task is still running or in flight.
LEMMA ReturnReady ==
  ASSUME IInv, ppc = "wait", chan = <<>>,
         \A w \in Workers : wpc[w] \in {"none", "exited"}
  PROVE  \A i \in Tasks : slots[i] \in Outcomes
<1> USE WorkerPoolAssumption DEF Tasks, Workers
<1>1. CASE NTasks = 0
  BY <1>1
<1>2. CASE NTasks >= 1
  <2>1. next > NTasks
    BY <1>2 DEF IInv, FirstWorkerStarted, ExitedDrained
  <2>2. \A i \in Tasks : \A w \in Workers : ~Busy(w)
    BY DEF Busy
  <2>3. \A i \in Tasks : Sent(i) = {}
    BY DEF Sent
  <2>4. \A i \in Tasks : slots[i] # Empty
    <3> SUFFICES ASSUME NEW i \in Tasks PROVE slots[i] # Empty
      OBVIOUS
    <3>1. i \in 1..(next - 1)
      BY <2>1 DEF IInv, TypeOK
    <3>2. \/ \E w \in Workers : Busy(w) /\ cur[w] = i
          \/ Sent(i) # {}
          \/ slots[i] # Empty
      BY <3>1 DEF IInv, HandedOutAccounted
    <3>3. QED
      BY <3>2, <2>2, <2>3
  <2>5. QED
    BY <2>4 DEF IInv, TypeOK
<1>3. QED
  BY <1>1, <1>2 DEF IInv, TypeOK

\* What a receive of Do does to the channel and the slots.
LEMMA CollectShape ==
  ASSUME IInv, Collect
  PROVE  /\ chan \in Seq(Tasks \X Outcomes)
         /\ slots' = [slots EXCEPT ![chan[1][1]] = chan[1][2]]
         /\ UNCHANGED <<next, wpc, cur>>
         /\ Len(chan) \in Nat \ {0}
         /\ chan[1] \in Tasks \X Outcomes
         /\ Len(chan') = Len(chan) - 1
         /\ \A k \in 1..Len(chan') : chan'[k] = chan[k + 1]
         /\ \A k \in 1..Len(chan) : chan[k] \in Tasks \X Outcomes
<1>1. chan \in Seq(Tasks \X Outcomes) /\ chan # <<>> /\ chan' = Tail(chan)
  BY DEF Collect, IInv, TypeOK
<1>2. Head(chan) = chan[1]
  BY <1>1
<1>3. slots' = [slots EXCEPT ![chan[1][1]] = chan[1][2]] /\ UNCHANGED <<next, wpc, cur>>
  BY <1>2 DEF Collect
<1>4. QED
  BY <1>1, <1>3, HeadTailProperties, EmptySeq

\* What a worker's send does: it was running a pending task, and the
\* channel grows by that task's pair.
LEMMA RunShape ==
  ASSUME IInv, NEW w \in Workers, Run(w),
         NEW o \in Outcomes, chan' = Append(chan, <<cur[w], o>>)
  PROVE  /\ Busy(w)
         /\ wpc' = [wpc EXCEPT ![w] = "idle"]
         /\ UNCHANGED <<wc, ppc, next, cur, slots, results, aggErr>>
         /\ cur[w] \in Tasks /\ cur[w] < next
         /\ Sent(cur[w]) = {} /\ slots[cur[w]] = Empty
         /\ chan' \in Seq(Tasks \X Outcomes)
         /\ Len(chan') = Len(chan) + 1
         /\ \A k \in 1..Len(chan) : chan'[k] = chan[k]
         /\ chan'[Len(chan) + 1] = <<cur[w], o>>
         /\ Len(chan) \in Nat
<1>1. /\ Busy(w)
      /\ wpc' = [wpc EXCEPT ![w] = "idle"]
      /\ UNCHANGED <<wc, ppc, next, cur, slots, results, aggErr>>
  BY DEF Run, Busy
<1>2. /\ cur[w] \in Tasks /\ cur[w] < next
      /\ Sent(cur[w]) = {} /\ slots[cur[w]] = Empty
  BY <1>1 DEF IInv, BusyPending, TypeOK, Workers, Tasks
<1>3. QED
  BY <1>1, <1>2, AppendProperties, LenProperties DEF IInv, TypeOK

\* Every step of Do and of its workers keeps each task in exactly one
\* place and keeps the queue, the workers and Do's position consistent.
LEMMA StepIInv == IInv /\ [Next]_vars => IInv'
<1> SUFFICES ASSUME IInv, [Next]_vars PROVE IInv'
  OBVIOUS
<1> USE WorkerPoolAssumption DEF Tasks, Workers
<1>0. /\ TypeOK /\ NotStarted /\ CountChecked /\ FirstWorkerStarted
      /\ ReturnedQuiet /\ ExitedDrained /\ BusyPending /\ BusyUnique
      /\ ChanUnique /\ ChanPending /\ NotHandedOut /\ HandedOutAccounted
  BY DEF IInv
<1>1. CASE RejectConfig
  <2>1. TypeOK'
    BY <1>1, <1>0 DEF RejectConfig, TypeOK
  <2>2. (NotStarted /\ CountChecked /\ FirstWorkerStarted /\ ReturnedQuiet)'
    BY <1>1, <1>0 DEF RejectConfig, NotStarted, CountChecked, FirstWorkerStarted, ReturnedQuiet
  <2>3. (ExitedDrained /\ BusyPending /\ BusyUnique)'
    BY <1>1, <1>0 DEF RejectConfig, ExitedDrained, BusyPending, BusyUnique, Busy, Sent
  <2>4. (ChanUnique /\ ChanPending)'
    BY <1>1, <1>0 DEF RejectConfig, ChanUnique, ChanPending
  <2>5. (NotHandedOut /\ HandedOutAccounted)'
    BY <1>1, <1>0 DEF RejectConfig, NotHandedOut, HandedOutAccounted, Busy, Sent
  <2>6. QED
    BY <2>1, <2>2, <2>3, <2>4, <2>5 DEF IInv
<1>2. CASE StartWorkers
  <2>1. TypeOK'
    BY <1>2, <1>0 DEF StartWorkers, Started, TypeOK
  <2>2. (NotStarted /\ CountChecked /\ FirstWorkerStarted /\ ReturnedQuiet)'
    BY <1>2, <1>0 DEF StartWorkers, Started, NotStarted, CountChecked, FirstWorkerStarted, ReturnedQuiet
  <2>3. (ExitedDrained /\ BusyPending /\ BusyUnique)'
    BY <1>2, <1>0 DEF StartWorkers, Started, ExitedDrained, BusyPending, BusyUnique, Busy, Sent
  <2>4. (ChanUnique /\ ChanPending)'
    BY <1>2, <1>0 DEF StartWorkers, Started, ChanUnique, ChanPending
  <2>5. (NotHandedOut /\ HandedOutAccounted)'
    <3>1. next = 1 /\ slots = [i \in Tasks |-> Empty]
      BY <1>2, <1>0 DEF StartWorkers, NotStarted
    <3>2. QED
      BY <3>1, <1>2 DEF StartWorkers, NotHandedOut, HandedOutAccounted
  <2>6. QED
    BY <2>1, <2>2, <2>3, <2>4, <2>5 DEF IInv
<1>3. CASE Collect
  <2>1. TypeOK'
    BY <1>3, <1>0 DEF Collect, TypeOK
  <2>2. (NotStarted /\ CountChecked /\ FirstWorkerStarted /\ ReturnedQuiet)'
    BY <1>3, <1>0 DEF Collect, NotStarted, CountChecked, FirstWorkerStarted, ReturnedQuiet
  <2>3. (ExitedDrained /\ BusyPending /\ BusyUnique)'
    BY <1>3, <1>0 DEF Collect, ExitedDrained, BusyPending, BusyUnique, Busy, Sent
  <2>a. /\ chan \in Seq(Tasks \X Outcomes)
        /\ slots' = [slots EXCEPT ![chan[1][1]] = chan[1][2]]
        /\ UNCHANGED <<next, wpc, cur>>
    BY <1>3, CollectShape
  <2>b. /\ Len(chan) \in Nat \ {0}
        /\ chan[1] \in Tasks \X Outcomes
        /\ Len(chan') = Len(chan) - 1
        /\ \A k \in 1..Len(chan') : chan'[k] = chan[k + 1]
        /\ \A k \in 1..Len(chan) : chan[k] \in Tasks \X Outcomes
    BY <1>3, CollectShape
  <2>c. \A k \in 2..Len(chan) : chan[k][1] # chan[1][1]
    BY <2>b, <1>0 DEF ChanUnique
  <2>4. ChanUnique'
    <3> SUFFICES ASSUME NEW k \in 1..Len(chan'), NEW l \in 1..Len(chan'),
                        chan'[k][1] = chan'[l][1]
                 PROVE  k = l
      BY DEF ChanUnique
    <3>1. chan[k + 1][1] = chan[l + 1][1] /\ k + 1 \in 1..Len(chan) /\ l + 1 \in 1..Len(chan)
      BY <2>b
    <3>2. QED
      BY <3>1, <1>0 DEF ChanUnique
  <2>d. ChanPending'
    <3> SUFFICES ASSUME NEW k \in 1..Len(chan')
                 PROVE  chan'[k][1] < next' /\ slots'[chan'[k][1]] = Empty
      BY DEF ChanPending
    <3>1. chan'[k] = chan[k + 1] /\ k + 1 \in 2..Len(chan)
      BY <2>b
    <3>2. chan[k + 1][1] < next /\ slots[chan[k + 1][1]] = Empty
      BY <3>1, <1>0 DEF ChanPending
    <3>3. chan[k + 1][1] # chan[1][1] /\ chan[k + 1][1] \in Tasks
      BY <3>1, <2>b, <2>c
    <3>4. QED
      BY <3>1, <3>2, <3>3, <2>a, <1>0 DEF TypeOK
  <2>5. NotHandedOut'
    BY <2>a, <2>b, <1>0 DEF NotHandedOut, ChanPending, TypeOK
  <2>6. HandedOutAccounted'
    <3> SUFFICES ASSUME NEW i \in 1..(next - 1)
                 PROVE  \/ \E w \in Workers : Busy(w)' /\ cur'[w] = i
                        \/ Sent(i)' # {}
                        \/ slots'[i] # Empty
      BY <2>a DEF HandedOutAccounted
    <3>1. CASE i = chan[1][1]
      BY <3>1, <2>a, <2>b, <1>0 DEF TypeOK
    <3>2. CASE i # chan[1][1] /\ Sent(i) # {}
      <4>1. PICK k \in 1..Len(chan) : chan[k][1] = i
        BY <3>2 DEF Sent
      <4>2. k # 1 /\ k - 1 \in 1..Len(chan')
        BY <4>1, <3>2, <2>b
      <4>3. chan'[k - 1][1] = i
        <5>1. chan'[k - 1] = chan[(k - 1) + 1]
          BY <4>2, <2>b
        <5>2. (k - 1) + 1 = k
          BY <4>2, <2>b
        <5>3. QED
          BY <4>1, <5>1, <5>2
      <4>4. k - 1 \in Sent(i)'
        BY <4>2, <4>3 DEF Sent
      <4>5. QED
        BY <4>4
    <3>3. CASE i # chan[1][1] /\ Sent(i) = {}
      <4>1. (\E w \in Workers : Busy(w) /\ cur[w] = i) \/ slots[i] # Empty
        BY <3>3, <1>0 DEF HandedOutAccounted
      <4>2. slots'[i] = slots[i]
        BY <3>3, <2>a, <1>0 DEF TypeOK
      <4>3. \A w \in Workers : Busy(w)' = Busy(w) /\ cur'[w] = cur[w]
        BY <2>a DEF Busy
      <4>4. QED
        BY <4>1, <4>2, <4>3
    <3>4. QED
      BY <3>1, <3>2, <3>3
  <2>7. (NotHandedOut /\ HandedOutAccounted)'
    BY <2>5, <2>6
  <2>8. QED
    BY <2>1, <2>2, <2>3, <2>4, <2>d, <2>7 DEF IInv
<1>4. CASE Return
  <2>1. TypeOK'
    <3>1. \A i \in Tasks : slots[i] \in Outcomes
      BY <1>4, ReturnReady DEF Return
    <3>2. [i \in Tasks |-> slots[i]] \in Seq(Outcomes)
      BY <3>1
    <3>3. QED
      BY <3>2, <1>4, <1>0 DEF Return, TypeOK
  <2>2. (NotStarted /\ CountChecked /\ FirstWorkerStarted /\ ReturnedQuiet)'
    BY <1>4, <1>0 DEF Return, NotStarted, CountChecked, FirstWorkerStarted, ReturnedQuiet
  <2>3. (ExitedDrained /\ BusyPending /\ BusyUnique)'
    BY <1>4, <1>0 DEF Return, ExitedDrained, BusyPending, BusyUnique, Busy, Sent
  <2>4. (ChanUnique /\ ChanPending)'
    BY <1>4, <1>0 DEF Return, ChanUnique, ChanPending
  <2>5. (NotHandedOut /\ HandedOutAccounted)'
    BY <1>4, <1>0 DEF Return, NotHandedOut, HandedOutAccounted, Busy, Sent
  <2>6. QED
    BY <2>1, <2>2, <2>3, <2>4, <2>5 DEF IInv
<1>5. ASSUME NEW w \in Workers, Take(w) PROVE IInv'
  <2>a. /\ wpc[w] = "idle" /\ next \in Tasks
        /\ cur' = [cur EXCEPT ![w] = next] /\ next' = next + 1
        /\ wpc' = [wpc EXCEPT ![w] = "busy"]
        /\ UNCHANGED <<wc, ppc, chan, slots, results, aggErr>>
    BY <1>5, <1>0 DEF Take, TypeOK
  <2>b. Sent(next) = {} /\ slots[next] = Empty
    BY <2>a, <1>0 DEF Sent, ChanPending, NotHandedOut
  <2>1. TypeOK'
    BY <2>a, <1>0 DEF TypeOK
  <2>2. (NotStarted /\ CountChecked /\ FirstWorkerStarted /\ ReturnedQuiet)'
    BY <2>a, <1>0 DEF NotStarted, CountChecked, FirstWorkerStarted, ReturnedQuiet, TypeOK
  <2>3. ExitedDrained'
    BY <2>a, <1>0 DEF ExitedDrained, TypeOK
  <2>4. BusyPending'
    <3> SUFFICES ASSUME NEW v \in Workers
                 PROVE  (Busy(v) => /\ cur[v] \in 1..(next - 1)
                                    /\ Sent(cur[v]) = {}
                                    /\ slots[cur[v]] = Empty)'
      BY DEF BusyPending
    <3> HAVE Busy(v)'
    <3>1. CASE v = w
      BY <3>1, <2>a, <2>b, <1>0 DEF Sent, TypeOK
    <3>2. CASE v # w
      BY <3>2, <2>a, <1>0 DEF BusyPending, Busy, Sent, TypeOK
    <3>3. QED
      BY <3>1, <3>2
  <2>5. BusyUnique'
    BY <2>a, <1>0 DEF BusyUnique, BusyPending, Busy, TypeOK
  <2>6. (ChanUnique /\ ChanPending)'
    <3>1. \A k \in 1..Len(chan) : chan[k][1] \in Tasks
      BY <1>0 DEF TypeOK
    <3>2. QED
      BY <3>1, <2>a, <1>0 DEF ChanUnique, ChanPending
  <2>7. NotHandedOut'
    BY <2>a, <1>0 DEF NotHandedOut
  <2>8. HandedOutAccounted'
    <3> SUFFICES ASSUME NEW i \in 1..(next' - 1)
                 PROVE  \/ \E v \in Workers : Busy(v)' /\ cur'[v] = i
                        \/ Sent(i)' # {}
                        \/ slots'[i] # Empty
      BY DEF HandedOutAccounted
    <3>1. CASE i = next
      BY <3>1, <2>a, <1>0 DEF Busy, TypeOK
    <3>2. CASE i # next
      <4>1. \/ \E v \in Workers : Busy(v) /\ cur[v] = i
            \/ Sent(i) # {}
            \/ slots[i] # Empty
        <5>1. i \in 1..(next - 1)
          BY <3>2, <2>a
        <5>2. QED
          BY <5>1, <1>0 DEF HandedOutAccounted
      <4>2. \A v \in Workers : Busy(v) => v # w /\ Busy(v)' /\ cur'[v] = cur[v]
        BY <2>a, <1>0 DEF Busy, TypeOK
      <4>3. QED
        BY <4>1, <4>2, <2>a DEF Sent
    <3>3. QED
      BY <3>1, <3>2
  <2>9. QED
    BY <2>1, <2>2, <2>3, <2>4, <2>5, <2>6, <2>7, <2>8
       DEF IInv, ExitedDrained, BusyPending, BusyUnique, NotHandedOut, HandedOutAccounted
<1>6. ASSUME NEW w \in Workers, Run(w) PROVE IInv'
  <2>0. PICK o \in Outcomes : chan' = Append(chan, <<cur[w], o>>)
    BY <1>6 DEF Run
  <2>a. /\ Busy(w)
        /\ wpc' = [wpc EXCEPT ![w] = "idle"]
        /\ UNCHANGED <<wc, ppc, next, cur, slots, results, aggErr>>
    BY <1>6, <2>0, RunShape
  <2>b. /\ cur[w] \in Tasks /\ cur[w] < next
        /\ Sent(cur[w]) = {} /\ slots[cur[w]] = Empty
    BY <1>6, <2>0, RunShape
  <2>c. /\ chan' \in Seq(Tasks \X Outcomes)
        /\ Len(chan') = Len(chan) + 1
        /\ \A k \in 1..Len(chan) : chan'[k] = chan[k]
        /\ chan'[Len(chan) + 1] = <<cur[w], o>>
        /\ Len(chan) \in Nat
    BY <1>6, <2>0, RunShape
  <2>1. TypeOK'
    BY <2>a, <2>c, <1>0 DEF TypeOK
  <2>2. (NotStarted /\ CountChecked /\ FirstWorkerStarted /\ ReturnedQuiet)'
    <3>1. ppc = "wait"
      BY <2>a, <1>0 DEF NotStarted, ReturnedQuiet, Busy, TypeOK
    <3>2. QED
      BY <3>1, <2>a, <1>0 DEF NotStarted, CountChecked, FirstWorkerStarted, ReturnedQuiet, TypeOK
  <2>3. ExitedDrained' /\ BusyUnique'
    BY <2>a, <1>0 DEF ExitedDrained, BusyUnique, Busy, TypeOK
  <2>4. BusyPending'
    <3> SUFFICES ASSUME NEW v \in Workers
                 PROVE  (Busy(v) => /\ cur[v] \in 1..(next - 1)
                                    /\ Sent(cur[v]) = {}
                                    /\ slots[cur[v]] = Empty)'
      BY DEF BusyPending
    <3> HAVE Busy(v)'
    <3>1. v # w /\ Busy(v)
      BY <2>a, <1>0 DEF Busy, TypeOK
    <3>2. cur[v] # cur[w] /\ cur[v] \in 1..(next - 1) /\ Sent(cur[v]) = {}
          /\ slots[cur[v]] = Empty
      BY <3>1, <2>a, <1>0 DEF BusyUnique, BusyPending
    <3>3. \A k \in 1..Len(chan') : chan'[k][1] # cur[v]
      <4> SUFFICES ASSUME NEW k \in 1..Len(chan') PROVE chan'[k][1] # cur[v]
        OBVIOUS
      <4>1. CASE k \in 1..Len(chan)
        <5>1. chan[k][1] # cur[v]
          BY <4>1, <3>2 DEF Sent
        <5>2. QED
          BY <4>1, <5>1, <2>c
      <4>2. CASE k = Len(chan) + 1
        BY <4>2, <3>2, <2>c
      <4>3. QED
        BY <4>1, <4>2, <2>c
    <3>4. QED
      BY <3>2, <3>3, <2>a DEF Sent
  <2>5. ChanUnique'
    <3> SUFFICES ASSUME NEW k \in 1..Len(chan'), NEW l \in 1..Len(chan'),
                        chan'[k][1] = chan'[l][1]
                 PROVE  k = l
      BY DEF ChanUnique
    <3>1. \A m \in 1..Len(chan) : chan[m][1] # cur[w]
      BY <2>b DEF Sent
    <3>2. CASE k \in 1..Len(chan) /\ l \in 1..Len(chan)
      BY <3>2, <2>c, <1>0 DEF ChanUnique
    <3>3. CASE k = Len(chan) + 1 /\ l \in 1..Len(chan)
      BY <3>3, <3>1, <2>c
    <3>4. CASE k \in 1..Len(chan) /\ l = Len(chan) + 1
      BY <3>4, <3>1, <2>c
    <3>5. QED
      BY <3>2, <3>3, <3>4, <2>c
  <2>6. ChanPending'
    <3> SUFFICES ASSUME NEW k \in 1..Len(chan')
                 PROVE  chan'[k][1] < next' /\ slots'[chan'[k][1]] = Empty
      BY DEF ChanPending
    <3>1. CASE k \in 1..Len(chan)
      BY <3>1, <2>a, <2>c, <1>0 DEF ChanPending
    <3>2. CASE k = Len(chan) + 1
      BY <3>2, <2>a, <2>b, <2>c
    <3>3. QED
      BY <3>1, <3>2, <2>c
  <2>7. (NotHandedOut /\ HandedOutAccounted)'
    BY <1>6, <1>0 DEF Run, NotHandedOut, HandedOutAccounted, Busy, Sent
  <2>8. QED
    BY <2>1, <2>2, <2>3, <2>4, <2>5, <2>6, <2>7 DEF IInv
<1>7. ASSUME NEW w \in Workers, Exit(w) PROVE IInv'
  <2>1. TypeOK'
    BY <1>7, <1>0 DEF Exit, TypeOK
  <2>2. (NotStarted /\ CountChecked /\ FirstWorkerStarted /\ ReturnedQuiet)'
    BY <1>7, <1>0 DEF Exit, NotStarted, CountChecked, FirstWorkerStarted, ReturnedQuiet
  <2>3. (ExitedDrained /\ BusyPending /\ BusyUnique)'
    BY <1>7, <1>0 DEF Exit, ExitedDrained, BusyPending, BusyUnique, Busy, Sent
  <2>4. (ChanUnique /\ ChanPending)'
    BY <1>7, <1>0 DEF Exit, ChanUnique, ChanPending
  <2>5. (NotHandedOut /\ HandedOutAccounted)'
    BY <1>7, <1>0 DEF Exit, NotHandedOut, HandedOutAccounted, Busy, Sent
  <2>6. QED
    BY <2>1, <2>2, <2>3, <2>4, <2>5 DEF IInv
<1>8. CASE ServerRuns \/ UNCHANGED vars
  <2>1. TypeOK'
    BY <1>8, <1>0 DEF ServerRuns, vars, TypeOK
  <2>2. (NotStarted /\ CountChecked /\ FirstWorkerStarted /\ ReturnedQuiet)'
    BY <1>8, <1>0 DEF ServerRuns, vars, NotStarted, CountChecked, FirstWorkerStarted, ReturnedQuiet
  <2>3. (ExitedDrained /\ BusyPending /\ BusyUnique)'
    BY <1>8, <1>0 DEF ServerRuns, vars, ExitedDrained, BusyPending, BusyUnique, Busy, Sent
  <2>4. (ChanUnique /\ ChanPending)'
    BY <1>8, <1>0 DEF ServerRuns, vars, ChanUnique, ChanPending
  <2>5. (NotHandedOut /\ HandedOutAccounted)'
    BY <1>8, <1>0 DEF ServerRuns, vars, NotHandedOut, HandedOutAccounted, Busy, Sent
  <2>6. QED
    BY <2>1, <2>2, <2>3, <2>4, <2>5 DEF IInv
<1>9. QED
  BY <1>1, <1>2, <1>3, <1>4, <1>5, <1>6, <1>7, <1>8 DEF Next, Worker

\* The invariant holds in every reachable state of the pool.
THEOREM PoolInvariant == Spec => []IInv
  BY InitIInv, StepIInv, PTL DEF Spec

\* A choice from a set with a single element is that element.
LEMMA ChooseSingle ==
  ASSUME NEW S, NEW m \in S, \A x \in S : x = m
  PROVE  (CHOOSE x \in S : TRUE) = m
  OBVIOUS

\* Under the invariant the mapped slots are the slots themselves while the
\* channel is empty.
LEMMA AbsSlotsDrained ==
  ASSUME TypeOK, chan = <<>>
  PROVE  AbsSlots = slots
  BY EmptySeq DEF AbsSlots, Sent, TypeOK, Tasks

\* Initially the contract has no task complete and Do running.
LEMMA InitRefines == Init => Abs!AbsInit
<1> SUFFICES ASSUME Init PROVE Abs!AbsInit
  OBVIOUS
<1>1. TypeOK
  BY InitIInv DEF IInv
<1>2. AbsSlots = [i \in Tasks |-> Empty]
  BY <1>1, AbsSlotsDrained DEF Init
<1>3. AbsStatus = "running"
  BY DEF Init, AbsStatus
<1>4. results = <<>> /\ aggErr = FALSE /\ wc \in WorkerCounts
  BY DEF Init
<1>5. QED
  BY <1>2, <1>3, <1>4 DEF Abs!AbsInit, Abs!Tasks, Tasks

\* A step that leaves the channel, the slots, the count, the results and
\* the contract's status alone is a stutter of the contract.
LEMMA AbsUnchanged ==
  ASSUME chan' = chan, slots' = slots, UNCHANGED <<wc, results, aggErr>>,
         AbsStatus' = AbsStatus
  PROVE  UNCHANGED Abs!absVars
  BY DEF Abs!absVars, AbsSlots, Sent

\* Do's receive only moves a result from the channel into its slot, which
\* the mapping already counted as complete: a stutter of the contract.
LEMMA CollectRefines ==
  ASSUME IInv, Collect
  PROVE  AbsSlots' = AbsSlots
<1> USE DEF Tasks
<1>1. /\ chan \in Seq(Tasks \X Outcomes)
      /\ slots' = [slots EXCEPT ![chan[1][1]] = chan[1][2]]
      /\ Len(chan) \in Nat \ {0}
      /\ chan[1] \in Tasks \X Outcomes
      /\ Len(chan') = Len(chan) - 1
      /\ \A k \in 1..Len(chan') : chan'[k] = chan[k + 1]
      /\ \A k \in 1..Len(chan) : chan[k] \in Tasks \X Outcomes
  BY CollectShape
<1>2. \A k, l \in 1..Len(chan) : chan[k][1] = chan[l][1] => k = l
  BY DEF IInv, ChanUnique
<1>3. slots \in [Tasks -> Outcomes \cup {Empty}]
  BY DEF IInv, TypeOK
<1>c. \A k \in 1..Len(chan') : chan'[k][1] = chan[k + 1][1] /\ k + 1 \in 2..Len(chan)
  BY <1>1
<1> SUFFICES ASSUME NEW j \in Tasks PROVE AbsSlots'[j] = AbsSlots[j]
  BY DEF AbsSlots
<1>4. CASE j = chan[1][1]
  <2>1. 1 \in Sent(j) /\ \A x \in Sent(j) : x = 1
    BY <1>4, <1>1, <1>2 DEF Sent
  <2>2. AbsSlots[j] = chan[1][2]
    BY <2>1, ChooseSingle DEF AbsSlots
  <2>3. Sent(j)' = {}
    <3>1. \A k \in 1..Len(chan') : chan'[k][1] # j
      BY <1>4, <1>c, <1>2
    <3>2. QED
      BY <3>1 DEF Sent
  <2>4. QED
    BY <2>2, <2>3, <1>1, <1>3, <1>4 DEF AbsSlots
<1>5. CASE j # chan[1][1] /\ Sent(j) = {}
  <2>1. Sent(j)' = {}
    <3>1. \A k \in 1..Len(chan') : chan'[k][1] # j
      BY <1>5, <1>c DEF Sent
    <3>2. QED
      BY <3>1 DEF Sent
  <2>2. QED
    BY <1>5, <2>1, <1>1, <1>3 DEF AbsSlots
<1>6. CASE j # chan[1][1] /\ Sent(j) # {}
  <2>1. PICK m \in Sent(j) : TRUE
    BY <1>6
  <2>2. m \in 2..Len(chan) /\ chan[m][1] = j /\ \A x \in Sent(j) : x = m
    BY <2>1, <1>6, <1>1, <1>2 DEF Sent
  <2>3. AbsSlots[j] = chan[m][2]
    BY <2>2, ChooseSingle DEF AbsSlots
  <2>4. m - 1 \in Sent(j)' /\ \A x \in Sent(j)' : x = m - 1
    <3>1. m - 1 \in 1..Len(chan') /\ chan'[m - 1][1] = j
      <4>1. m - 1 \in 1..Len(chan') /\ (m - 1) + 1 = m
        BY <2>2, <1>1
      <4>2. chan'[m - 1] = chan[(m - 1) + 1]
        BY <4>1, <1>1
      <4>3. QED
        BY <4>1, <4>2, <2>2
    <3>2. \A x \in Sent(j)' : x + 1 \in Sent(j)
      BY <1>c DEF Sent
    <3>3. QED
      BY <3>1, <3>2, <2>2 DEF Sent
  <2>5. AbsSlots'[j] = chan'[m - 1][2]
    BY <2>4, ChooseSingle DEF AbsSlots
  <2>6. QED
    BY <2>2, <2>3, <2>5, <1>1
<1>7. QED
  BY <1>4, <1>5, <1>6

\* A worker's send completes its task in the contract, with the outcome
\* it sent.
LEMMA RunRefines ==
  ASSUME IInv, NEW w \in Workers, Run(w),
         NEW o \in Outcomes, chan' = Append(chan, <<cur[w], o>>)
  PROVE  Abs!Complete(cur[w], o)
<1> USE DEF Tasks, Workers
<1>1. /\ Busy(w)
      /\ UNCHANGED <<wc, ppc, next, cur, slots, results, aggErr>>
      /\ cur[w] \in Tasks
      /\ Sent(cur[w]) = {} /\ slots[cur[w]] = Empty
      /\ Len(chan') = Len(chan) + 1
      /\ \A k \in 1..Len(chan) : chan'[k] = chan[k]
      /\ chan'[Len(chan) + 1] = <<cur[w], o>>
      /\ Len(chan) \in Nat
  BY RunShape
<1>2. ppc = "wait" /\ wc >= 1
  BY <1>1 DEF IInv, TypeOK, NotStarted, ReturnedQuiet, CountChecked, Busy
<1>3. AbsStatus = "running" /\ AbsStatus' = "running"
  BY <1>1, <1>2 DEF AbsStatus
<1>4. AbsSlots[cur[w]] = Empty
  BY <1>1 DEF AbsSlots
<1>5. AbsSlots' = [AbsSlots EXCEPT ![cur[w]] = o]
  <2> SUFFICES ASSUME NEW j \in Tasks
               PROVE  AbsSlots'[j] = [AbsSlots EXCEPT ![cur[w]] = o][j]
    BY DEF AbsSlots
  <2>1. CASE j = cur[w]
    <3>1. Len(chan) + 1 \in Sent(j)' /\ \A x \in Sent(j)' : x = Len(chan) + 1
      BY <2>1, <1>1 DEF Sent
    <3>2. QED
      BY <2>1, <3>1, <1>1, ChooseSingle DEF AbsSlots
  <2>2. CASE j # cur[w]
    <3>1. Sent(j)' = Sent(j)
      BY <2>2, <1>1 DEF Sent
    <3>2. CASE Sent(j) = {}
      BY <2>2, <3>1, <3>2, <1>1 DEF AbsSlots
    <3>3. CASE Sent(j) # {}
      <4>1. PICK m \in Sent(j) : TRUE
        BY <3>3
      <4>2. m \in 1..Len(chan) /\ \A x \in Sent(j) : x = m
        BY <4>1 DEF IInv, ChanUnique, Sent
      <4>3. (CHOOSE x \in Sent(j) : TRUE) = m
        BY <4>2, ChooseSingle
      <4>4. (CHOOSE x \in Sent(j)' : TRUE) = m
        BY <3>1, <4>3
      <4>5. AbsSlots[j] = chan[m][2] /\ AbsSlots'[j] = chan'[m][2]
        BY <3>1, <3>3, <4>3, <4>4 DEF AbsSlots
      <4>6. QED
        BY <2>2, <4>2, <4>5, <1>1
    <3>4. QED
      BY <3>2, <3>3
  <2>3. QED
    BY <2>1, <2>2
<1>6. QED
  BY <1>1, <1>2, <1>3, <1>4, <1>5 DEF Abs!Complete

\* Do's return, once all workers exited and the channel is drained, is
\* the contract's return with every task complete.
LEMMA ReturnRefines ==
  ASSUME IInv, Return
  PROVE  Abs!ReturnAll
<1> USE DEF Tasks
<1>1. ppc = "wait" /\ chan = <<>> /\ \A w \in Workers : wpc[w] \in {"none", "exited"}
  BY DEF Return
<1>2. AbsSlots = slots /\ AbsSlots' = slots
  BY <1>1, AbsSlotsDrained DEF Return, IInv, TypeOK, AbsSlots, Sent
<1>3. \A i \in Tasks : slots[i] \in Outcomes
  BY <1>1, ReturnReady
<1>4. \A i \in Tasks : AbsSlots[i] # Empty
  BY <1>2, <1>3, WorkerPoolAssumption
<1>5. wc >= 1
  BY <1>1 DEF IInv, CountChecked
<1>6. AbsStatus = "running" /\ AbsStatus' = "returned"
  BY <1>1 DEF Return, AbsStatus
<1>7. QED
  BY <1>2, <1>4, <1>5, <1>6 DEF Return, Abs!ReturnAll, Abs!Tasks

\* Every step of the pool is a step of its contract or leaves the
\* contract's state unchanged.
LEMMA StepRefines == IInv /\ [Next]_vars => [Abs!AbsNext]_Abs!absVars
<1> SUFFICES ASSUME IInv, [Next]_vars PROVE [Abs!AbsNext]_Abs!absVars
  OBVIOUS
<1>1. CASE RejectConfig
  <2>1. AbsStatus = "running" /\ AbsStatus' = "configError"
    BY <1>1 DEF RejectConfig, AbsStatus
  <2>2. AbsSlots' = AbsSlots
    BY <1>1 DEF RejectConfig, AbsSlots, Sent
  <2>3. QED
    BY <1>1, <2>1, <2>2 DEF RejectConfig, Abs!RejectConfig, Abs!AbsNext
<1>2. CASE StartWorkers
  <2>1. AbsStatus' = AbsStatus
    BY <1>2 DEF StartWorkers, AbsStatus
  <2>2. QED
    BY <1>2, <2>1, AbsUnchanged DEF StartWorkers
<1>3. CASE Collect
  <2>1. AbsSlots' = AbsSlots
    BY <1>3, CollectRefines
  <2>2. QED
    BY <1>3, <2>1 DEF Collect, AbsStatus, Abs!absVars
<1>4. CASE Return
  BY <1>4, ReturnRefines DEF Abs!AbsNext
<1>5. ASSUME NEW w \in Workers, Take(w) PROVE [Abs!AbsNext]_Abs!absVars
  <2>1. AbsStatus' = AbsStatus
    BY <1>5 DEF Take, AbsStatus
  <2>2. QED
    BY <1>5, <2>1, AbsUnchanged DEF Take
<1>6. ASSUME NEW w \in Workers, Run(w) PROVE [Abs!AbsNext]_Abs!absVars
  <2>1. PICK o \in Outcomes : chan' = Append(chan, <<cur[w], o>>)
    BY <1>6 DEF Run
  <2>2. Abs!Complete(cur[w], o)
    BY <1>6, <2>1, RunRefines
  <2>3. cur[w] \in Abs!Tasks
    BY <1>6, <2>1, RunShape DEF Abs!Tasks, Tasks
  <2>4. QED
    BY <2>2, <2>3 DEF Abs!AbsNext
<1>7. ASSUME NEW w \in Workers, Exit(w) PROVE [Abs!AbsNext]_Abs!absVars
  <2>1. AbsStatus' = AbsStatus
    BY <1>7 DEF Exit, AbsStatus
  <2>2. QED
    BY <1>7, <2>1, AbsUnchanged DEF Exit
<1>8. CASE ServerRuns \/ UNCHANGED vars
  BY <1>8, AbsUnchanged DEF ServerRuns, vars, AbsStatus
<1>9. QED
  BY <1>1, <1>2, <1>3, <1>4, <1>5, <1>6, <1>7, <1>8 DEF Next, Worker

\* The pool implements its contract (the property ImplementsContract that
\* the pool run checks on three tasks), for every number of tasks, every
\* set of worker counts and every outcome set: every task's result is
\* recorded once, and Do returns only with all of them, in task order.
THEOREM PoolImplementsContract == Spec => ImplementsContract
<1>1. Init => Abs!AbsInit
  BY InitRefines
<1>2. IInv /\ [Next]_vars => [Abs!AbsNext]_Abs!absVars
  BY StepRefines
<1>3. QED
  BY <1>1, <1>2, InitIInv, StepIInv, PTL DEF Spec, ImplementsContract, Abs!AbsSpec

=============================================================================
