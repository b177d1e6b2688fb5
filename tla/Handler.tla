------------------------------ MODULE Handler ------------------------------
(***************************************************************************)
(* FakeServer.Handle (src/handlers/request_grpc.go) for one request: start *)
(* the clock and the load generator (its Finished closure deferred),       *)
(* maybe return an injected error, fan out to the upstream URIs through    *)
(* the worker pool and append every result to the response, compute the   *)
(* remaining duration, return the upstream error or sleep out the budget.  *)
(*                                                                         *)
(* The generator's own protocol is Generator.tla; here a call of the       *)
(* Finished closure is counted in stops.  The worker pool is taken by its  *)
(* contract (spec.md 4.3): with a worker count below 1 Do fails and runs   *)
(* nothing; otherwise it runs every task once and Responses() lists one   *)
(* result per URI in task order.  Time is an integer clock.               *)
(***************************************************************************)
EXTENDS Integers, Sequences, Functions

CONSTANTS
    UpstreamURIs,   \* f.upstreamURIs, a sequence of distinct URIs
    InjectErrors,   \* TRUE when the error injector may fire
    Durations,      \* values f.duration.Calculate() may return
    FanOutTimes,    \* time the fan-out (and the set-up before it) may take
    Outcomes,       \* results a worker can produce for one URI
    WorkerCounts    \* values f.workerCount may have (NewFakeServer checks none)

\* A worker's result: success, an error with a response, or an error with
\* a nil *response.Response.
Ok == "ok"
Err == "err"
ErrNilResponse == "errNil"

ASSUME HandlerAssumption ==
    /\ UpstreamURIs \in Seq(STRING)
    /\ InjectErrors \in BOOLEAN
    /\ Durations \subseteq Nat
    /\ FanOutTimes \subseteq Nat
    /\ Outcomes \subseteq {Ok, Err, ErrNilResponse}
    /\ WorkerCounts \subseteq Int

N == Len(UpstreamURIs)

VARIABLES
    pc,             \* where Handle is
    now,            \* the clock
    ts,             \* ts := time.Now() at the start of Handle
    stops,          \* calls of the generator's Finished closure
    results,        \* wp.Responses(): one outcome per URI, in task order
    upstreamError,  \* upstreamError != nil
    upstreamCalls,  \* resp.UpstreamCalls: the URIs appended so far
    d,              \* d := f.duration.Calculate()
    et,             \* et := time.Since(ts) before the sleep
    code            \* how Handle ended

vars == <<pc, now, ts, stops, results, upstreamError, upstreamCalls, d, et,
          code>>

Codes == {"none", "injected", "internal", "ok", "panic"}

TypeOK ==
    /\ pc \in {"start", "inject", "fanout", "budget", "return", "done"}
    /\ now \in Nat /\ ts \in Nat /\ d \in Nat /\ et \in Int
    /\ stops \in Nat
    /\ results \in Seq(Outcomes)
    /\ upstreamError \in BOOLEAN
    /\ upstreamCalls \in Seq(Range(UpstreamURIs))
    /\ code \in Codes

Init ==
    /\ pc = "start"
    /\ now = 0 /\ ts = 0 /\ d = 0 /\ et = 0
    /\ stops = 0
    /\ results = <<>>
    /\ upstreamError = FALSE
    /\ upstreamCalls = <<>>
    /\ code = "none"

-----------------------------------------------------------------------------
(* Lines 67-70: ts := time.Now(); finished := Generate(); defer finished(). *)
Start ==
    /\ pc = "start"
    /\ ts' = now
    /\ pc' = "inject"
    /\ UNCHANGED <<now, stops, results, upstreamError, upstreamCalls, d, et,
                   code>>

\* Lines 81-94: the injector fires; Handle returns the injected error with no
\* fan-out and no sleep.
InjectError ==
    /\ pc = "inject"
    /\ InjectErrors
    /\ code' = "injected"
    /\ pc' = "return"
    /\ UNCHANGED <<now, ts, stops, results, upstreamError, upstreamCalls, d, et>>

\* Line 81: the injector does not fire.
NoInjectedError ==
    /\ pc = "inject"
    /\ pc' = "fanout"
    /\ UNCHANGED <<now, ts, stops, results, upstreamError, upstreamCalls, d, et,
                   code>>

\* The aggregate error of wp.Do: non-nil when any task failed.
AnyFailed(res) == \E i \in DOMAIN res : res[i] # Ok

\* The first result whose response is nil, or 0 when there is none.
FirstNil(res) ==
    IF \E i \in DOMAIN res : res[i] = ErrNilResponse
    THEN CHOOSE i \in DOMAIN res :
             /\ res[i] = ErrNilResponse
             /\ \A j \in 1..(i - 1) : res[j] # ErrNilResponse
    ELSE 0

\* Lines 97-116: with upstream URIs, the pool runs every task and returns
\* one result per URI in task order; the loop appends them to the response
\* in that order, and *v.Response of a nil response panics (line 114).  The
\* time spent since ts (set-up and fan-out) is t.  Without URIs (line 98)
\* no pool is made: the only result list is the empty one, which leaves
\* the error nil and the response without upstream calls.
FanOut ==
    /\ pc = "fanout"
    /\ N = 0 \/ \E wc \in WorkerCounts : wc >= 1
    /\ \E t \in FanOutTimes : now' = now + t
    /\ \E res \in [1..N -> Outcomes] :
          LET k == FirstNil(res) IN
          /\ results' = res
          /\ upstreamError' = AnyFailed(res)
          /\ IF k = 0
             THEN /\ upstreamCalls' = UpstreamURIs
                  /\ pc' = "budget"
                  /\ UNCHANGED code
             ELSE /\ upstreamCalls' = SubSeq(UpstreamURIs, 1, k - 1)
                  /\ code' = "panic"
                  /\ pc' = "return"
    /\ UNCHANGED <<ts, stops, d, et>>

\* Lines 97-110 when f.workerCount is below 1 (NewFakeServer stores it
\* unchecked): wp.Do fails without dispatching a task (spec 4.3), its error
\* becomes upstreamError, and Responses() has no result to append.
FanOutRejected ==
    /\ pc = "fanout"
    /\ N > 0
    /\ \E wc \in WorkerCounts : wc < 1
    /\ \E t \in FanOutTimes : now' = now + t
    /\ results' = <<>>
    /\ upstreamError' = TRUE
    /\ upstreamCalls' = <<>>
    /\ pc' = "budget"
    /\ UNCHANGED <<ts, stops, d, et, code>>

\* time.Sleep(rd) sleeps only for a positive rd.
SleepFor(rd) == IF rd > 0 THEN rd ELSE 0

\* A controller that sleeps the whole duration instead of what remains.
BudgetSleepD ==
    /\ pc = "budget"
    /\ \E dd \in Durations :
          /\ d' = dd
          /\ et' = now - ts
          /\ IF upstreamError
             THEN /\ code' = "internal"
                  /\ UNCHANGED now
             ELSE /\ code' = "ok"
                  /\ now' = now + SleepFor(dd)
    /\ pc' = "return"
    /\ UNCHANGED <<ts, stops, results, upstreamError, upstreamCalls>>

\* Lines 119-142: d := Calculate(), et := time.Since(ts), rd := d - et; an
\* upstream error is returned at once, otherwise Handle sleeps out rd.
Budget ==
    /\ pc = "budget"
    /\ \E dd \in Durations :
          /\ d' = dd
          /\ et' = now - ts
          /\ IF upstreamError
             THEN /\ code' = "internal"
                  /\ UNCHANGED now
             ELSE /\ code' = "ok"
                  /\ now' = now + SleepFor(dd - (now - ts))
    /\ pc' = "return"
    /\ UNCHANGED <<ts, stops, results, upstreamError, upstreamCalls>>

\* Line 70: on every way out of Handle, a panic included, the deferred
\* finished() of the generator runs.
Return ==
    /\ pc = "return"
    /\ stops' = stops + 1
    /\ pc' = "done"
    /\ UNCHANGED <<now, ts, results, upstreamError, upstreamCalls, d, et, code>>

\* Handle has returned (or the process died of its panic).
Returned ==
    /\ pc = "done"
    /\ UNCHANGED vars

Next ==
    \/ Start \/ InjectError \/ NoInjectedError \/ FanOut \/ FanOutRejected
    \/ Budget \/ Return
    \/ Returned

Spec == Init /\ [][Next]_vars

-----------------------------------------------------------------------------
(* Properties.                                                             *)

\* A successful Handle takes max(D, E): the duration drawn, or the time
\* already spent on set-up and fan-out when that is longer (the duration
\* budget of lines 119-142).
SuccessLatencyIsMaxBudget ==
    code = "ok" => now - ts = IF d > et THEN d ELSE et

\* A worker result with an error and a nil response never crashes the
\* server (the pool's contract allows a nil response).
NoHandlerPanic == code # "panic"

\* Every request that is not answered with an injected error takes at least
\* the duration budget: the controller sleeps out what remains before the
\* response is returned.
BudgetHonoured ==
    code \in {"ok", "internal"} => now - ts >= d
=============================================================================
