----------------------------- MODULE WorkerPool -----------------------------
(***************************************************************************)
(* The worker pool of spec.md 4.3, as Handle uses it: worker.New(count,   *)
(* op) then Do(uris) and Responses().  Do rejects a count below 1; else   *)
(* it starts min(count, len(tasks)) workers that pull task indices from a *)
(* shared queue, run the operation and send (index, result) on a results  *)
(* channel in completion order; Do receives each pair and writes it into  *)
(* the slot of its index, and returns when every worker has exited and   *)
(* every result has been placed.  The pool's code is not under src/, so   *)
(* this module follows the spec.                                          *)
(***************************************************************************)
EXTENDS Integers, Sequences, FiniteSets

CONSTANTS NTasks, WorkerCounts, Outcomes, Failed, Empty

ASSUME WorkerPoolAssumption ==
    /\ NTasks \in Nat
    /\ WorkerCounts \subseteq Int
    /\ Failed \subseteq Outcomes
    /\ Empty \notin Outcomes

Tasks == 1..NTasks

\* min(count, len(tasks)) workers; worker ids beyond that never start.
Started(n) == IF n < NTasks THEN n ELSE NTasks
Workers == 1..NTasks

VARIABLES
    wc,         \* the worker count given to worker.New
    ppc,        \* Do: "start", "wait", "returned", "configError"
    next,       \* the next task index the queue hands out
    wpc,        \* wpc[w]: "none", "idle", "busy", "exited"
    cur,        \* cur[w]: the task worker w runs
    chan,       \* the results channel: <<index, outcome>> in completion order
    slots,      \* the result slots, indexed by task
    results,    \* Responses(): the slots once Do returned
    aggErr      \* the aggregate error Do returned

vars == <<wc, ppc, next, wpc, cur, chan, slots, results, aggErr>>

TypeOK ==
    /\ wc \in WorkerCounts
    /\ ppc \in {"start", "wait", "returned", "configError"}
    /\ next \in 1..(NTasks + 1)
    /\ wpc \in [Workers -> {"none", "idle", "busy", "exited"}]
    /\ cur \in [Workers -> Tasks \cup {0}]
    /\ chan \in Seq(Tasks \X Outcomes)
    /\ slots \in [Tasks -> Outcomes \cup {Empty}]
    /\ results \in Seq(Outcomes)
    /\ aggErr \in BOOLEAN

Init ==
    /\ wc \in WorkerCounts
    /\ ppc = "start"
    /\ next = 1
    /\ wpc = [w \in Workers |-> "none"]
    /\ cur = [w \in Workers |-> 0]
    /\ chan = <<>>
    /\ slots = [i \in Tasks |-> Empty]
    /\ results = <<>>
    /\ aggErr = FALSE

-----------------------------------------------------------------------------
\* Do with a count below 1: a configuration error, no task dispatched.
RejectConfig ==
    /\ ppc = "start"
    /\ wc < 1
    /\ ppc' = "configError"
    /\ UNCHANGED <<wc, next, wpc, cur, chan, slots, results, aggErr>>

\* Do with a valid count starts min(count, len(tasks)) workers.
StartWorkers ==
    /\ ppc = "start"
    /\ wc >= 1
    /\ wpc' = [w \in Workers |-> IF w <= Started(wc) THEN "idle" ELSE "none"]
    /\ ppc' = "wait"
    /\ UNCHANGED <<wc, next, cur, chan, slots, results, aggErr>>

\* A worker whose queue is drained off by one: it stops before the last task.
TakeOffByOne(w) ==
    /\ wpc[w] = "idle"
    /\ next < NTasks
    /\ cur' = [cur EXCEPT ![w] = next]
    /\ next' = next + 1
    /\ wpc' = [wpc EXCEPT ![w] = "busy"]
    /\ UNCHANGED <<wc, ppc, chan, slots, results, aggErr>>

\* An idle worker receives the next task index from the queue.
Take(w) ==
    /\ wpc[w] = "idle"
    /\ next <= NTasks
    /\ cur' = [cur EXCEPT ![w] = next]
    /\ next' = next + 1
    /\ wpc' = [wpc EXCEPT ![w] = "busy"]
    /\ UNCHANGED <<wc, ppc, chan, slots, results, aggErr>>

\* The operation returns (success or error) and the worker sends the pair.
Run(w) ==
    /\ wpc[w] = "busy"
    /\ \E o \in Outcomes : chan' = Append(chan, <<cur[w], o>>)
    /\ wpc' = [wpc EXCEPT ![w] = "idle"]
    /\ UNCHANGED <<wc, ppc, next, cur, slots, results, aggErr>>

\* The queue is closed and drained: the worker exits.
Exit(w) ==
    /\ wpc[w] = "idle"
    /\ next > NTasks
    /\ wpc' = [wpc EXCEPT ![w] = "exited"]
    /\ UNCHANGED <<wc, ppc, next, cur, chan, slots, results, aggErr>>

\* A collector that fills the slots in arrival order, not by index.
CollectInArrivalOrder ==
    /\ ppc = "wait"
    /\ chan # <<>>
    /\ LET k == Cardinality({i \in Tasks : slots[i] # Empty}) + 1
       IN  slots' = [slots EXCEPT ![k] = Head(chan)[2]]
    /\ chan' = Tail(chan)
    /\ UNCHANGED <<wc, ppc, next, wpc, cur, results, aggErr>>

\* Do receives a pair and writes the result into the slot of its index.
Collect ==
    /\ ppc = "wait"
    /\ chan # <<>>
    /\ slots' = [slots EXCEPT ![Head(chan)[1]] = Head(chan)[2]]
    /\ chan' = Tail(chan)
    /\ UNCHANGED <<wc, ppc, next, wpc, cur, results, aggErr>>

\* Do returns once all started workers exited and the channel is drained:
\* Responses() is the slot array, the error is set if any task failed.
Return ==
    /\ ppc = "wait"
    /\ \A w \in Workers : wpc[w] \in {"none", "exited"}
    /\ chan = <<>>
    /\ ppc' = "returned"
    /\ results' = [i \in Tasks |-> slots[i]]
    /\ aggErr' = \E i \in Tasks : slots[i] \in Failed
    /\ UNCHANGED <<wc, next, wpc, cur, chan, slots>>

\* The server process lives on whether Do has returned or its caller is
\* still blocked in it; a Do that never returns is a hung request, which
\* DoReturns detects.
ServerRuns == UNCHANGED vars

Worker(w) == Take(w) \/ Run(w) \/ Exit(w)

Next ==
    \/ RejectConfig \/ StartWorkers \/ Collect \/ Return
    \/ \E w \in Workers : Worker(w)
    \/ ServerRuns

Spec == Init /\ [][Next]_vars

\* Every started goroutine is eventually scheduled, and the operation
\* returns (its own deadline bounds an upstream call); Do is then
\* scheduled to receive and to return.
Fairness ==
    /\ \A w \in Workers : WF_vars(Worker(w))
    /\ WF_vars(RejectConfig \/ StartWorkers \/ Collect \/ Return)

FairSpec == Spec /\ Fairness

-----------------------------------------------------------------------------
(* Properties.                                                             *)

\* The slots the abstract pool has filled: a task is complete once its
\* pair is sent, whether Do has placed it yet or not.
Sent(i) == {k \in 1..Len(chan) : chan[k][1] = i}
AbsSlots ==
    [i \in Tasks |-> IF Sent(i) # {} THEN chan[CHOOSE k \in Sent(i) : TRUE][2]
                     ELSE slots[i]]
AbsStatus ==
    CASE ppc \in {"start", "wait"} -> "running"
      [] OTHER                     -> ppc

Abs == INSTANCE WorkerPoolAbstract
         WITH slots <- AbsSlots, status <- AbsStatus

\* The pool implements its contract: every task runs exactly once, Do
\* returns only after all have completed, with the results in task order
\* and the aggregate error, and a bad count runs nothing.
ImplementsContract == Abs!AbsSpec

\* Do eventually returns: no worker is left waiting on the queue and no
\* result is left in the channel.
DoReturns == <>(ppc \in {"returned", "configError"})
=============================================================================
