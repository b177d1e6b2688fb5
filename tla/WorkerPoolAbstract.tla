------------------------- MODULE WorkerPoolAbstract -------------------------
(***************************************************************************)
(* What the worker pool promises its caller (spec.md 4.3): with a valid   *)
(* worker count, every task is run exactly once, in any order; Do returns *)
(* only when all have completed, with one result per task in task order   *)
(* and an aggregate error when any task failed.  With a worker count below *)
(* 1 it fails at once and runs nothing.                                    *)
(***************************************************************************)
EXTENDS Integers, Sequences

CONSTANTS
    NTasks,         \* len(tasks)
    WorkerCounts,   \* the worker counts the pool may be configured with
    Outcomes,       \* what the operation may return for one task
    Failed,         \* the outcomes that carry an error
    Empty           \* a result slot not yet written

Tasks == 1..NTasks

VARIABLES
    wc,         \* the pool's worker count, fixed by worker.New
    slots,      \* slots[i]: the result of task i, or Empty
    status,     \* "running", "returned" or "configError"
    results,    \* what Do returned: the results in task order
    aggErr      \* the aggregate error is non-nil

absVars == <<wc, slots, status, results, aggErr>>

AbsTypeOK ==
    /\ wc \in WorkerCounts
    /\ slots \in [Tasks -> Outcomes \cup {Empty}]
    /\ status \in {"running", "returned", "configError"}
    /\ results \in Seq(Outcomes)
    /\ aggErr \in BOOLEAN

AbsInit ==
    /\ wc \in WorkerCounts
    /\ slots = [i \in Tasks |-> Empty]
    /\ status = "running"
    /\ results = <<>>
    /\ aggErr = FALSE

\* Task i completes with outcome o; each task completes once.
Complete(i, o) ==
    /\ status = "running"
    /\ wc >= 1
    /\ slots[i] = Empty
    /\ slots' = [slots EXCEPT ![i] = o]
    /\ UNCHANGED <<wc, status, results, aggErr>>

\* Do returns once every task has completed.
ReturnAll ==
    /\ status = "running"
    /\ wc >= 1
    /\ \A i \in Tasks : slots[i] # Empty
    /\ status' = "returned"
    /\ results' = [i \in Tasks |-> slots[i]]
    /\ aggErr' = \E i \in Tasks : slots[i] \in Failed
    /\ UNCHANGED <<wc, slots>>

\* An invalid worker count fails before any task is dispatched.
RejectConfig ==
    /\ status = "running"
    /\ wc < 1
    /\ status' = "configError"
    /\ UNCHANGED <<wc, slots, results, aggErr>>

AbsNext ==
    \/ \E i \in Tasks, o \in Outcomes : Complete(i, o)
    \/ ReturnAll
    \/ RejectConfig

AbsSpec == AbsInit /\ [][AbsNext]_absVars
=============================================================================
