---------------------------- MODULE HandlerProofs ----------------------------
(***************************************************************************)
(* Proofs about Handler, for every list of upstream URIs, every duration   *)
(* and fan-out time, every set of worker outcomes and every worker count:  *)
(* the type invariant and the duration budget of a successful request.    *)
(***************************************************************************)
EXTENDS Handler, SequenceTheorems, WellFoundedInduction, TLAPS

\* The first nil response of a list of results is one of its positions,
\* or 0: a non-empty set of positions has a least element.
LEMMA FirstNilBound ==
    ASSUME NEW n \in Nat, NEW res \in [1..n -> Outcomes]
    PROVE  FirstNil(res) \in 0..n
<1> DEFINE T == {i \in DOMAIN res : res[i] = ErrNilResponse}
<1>1. CASE T = {}
  BY <1>1 DEF FirstNil
<1>2. CASE T # {}
  <2>0. T \subseteq Nat
    OBVIOUS
  <2>1. PICK x \in T : \A y \in T : ~(<<y, x>> \in OpToRel(<, Nat))
    BY <1>2, <2>0, NatLessThanWellFounded, WFMin
  <2>2. \A y \in T : ~(y < x)
    BY <2>0, <2>1 DEF OpToRel
  <2>3. x \in 1..n /\ res[x] = ErrNilResponse
    BY <2>1
  <2>4. \A j \in 1..(x - 1) : res[j] # ErrNilResponse
    BY <2>2, <2>3
  <2>5. QED
    BY <2>3, <2>4 DEF FirstNil
<1>3. QED
  BY <1>1, <1>2

\* The handler's progress: no code is decided before the budget, so the
\* clock moves after a success only by the sleep that produced it, and a
\* success carries its latency max(d, et).
HInv ==
    /\ TypeOK
    /\ pc \in {"start", "inject", "fanout", "budget"} => code = "none"
    /\ code = "ok" => now - ts = IF d > et THEN d ELSE et

LEMMA HInit == Init => HInv
<1> SUFFICES ASSUME Init PROVE HInv
  OBVIOUS
<1>1. <<>> \in Seq(Outcomes) /\ <<>> \in Seq(Range(UpstreamURIs))
  BY EmptySeq
<1>2. results \in Seq(Outcomes) /\ upstreamCalls \in Seq(Range(UpstreamURIs))
  BY <1>1, Zenon DEF Init
<1>3. /\ pc \in {"start", "inject", "fanout", "budget", "return", "done"}
      /\ now \in Nat /\ ts \in Nat /\ d \in Nat /\ et \in Int
      /\ stops \in Nat /\ code \in Codes
  BY DEF Init, Codes
<1>4. upstreamError \in BOOLEAN
  BY Zenon DEF Init
<1>5. TypeOK
  BY <1>2, <1>3, <1>4, Zenon DEF TypeOK
<1>6. QED
  BY <1>5 DEF Init, HInv

LEMMA HStep == HInv /\ [Next]_vars => HInv'
<1> SUFFICES ASSUME HInv, [Next]_vars PROVE HInv'
  OBVIOUS
<1> USE HandlerAssumption DEF HInv, TypeOK, Codes, Ok, Err, ErrNilResponse, N
<1>1. CASE Start
  BY <1>1 DEF Start
<1>2. CASE InjectError
  BY <1>2 DEF InjectError
<1>3. CASE NoInjectedError
  BY <1>3 DEF NoInjectedError
<1>4. CASE FanOut
  <2>0. N \in Nat
    BY LenProperties DEF N
  <2>1. PICK t \in FanOutTimes : now' = now + t
    BY <1>4 DEF FanOut
  <2>2. PICK res \in [1..N -> Outcomes] :
           /\ results' = res
           /\ upstreamError' = AnyFailed(res)
           /\ IF FirstNil(res) = 0
              THEN /\ upstreamCalls' = UpstreamURIs
                   /\ pc' = "budget"
                   /\ UNCHANGED code
              ELSE /\ upstreamCalls' = SubSeq(UpstreamURIs, 1, FirstNil(res) - 1)
                   /\ code' = "panic"
                   /\ pc' = "return"
    BY <1>4 DEF FanOut
  <2>3. res \in Seq(Outcomes)
    BY <2>0
  <2>4. FirstNil(res) \in 0..N
    BY <2>0, FirstNilBound
  <2>5. \A k \in 0..N : SubSeq(UpstreamURIs, 1, k - 1) \in Seq(Range(UpstreamURIs))
    <3> TAKE k \in 0..N
    <3>1. \A i \in 1..(k - 1) : UpstreamURIs[i] \in Range(UpstreamURIs)
      BY LenProperties DEF N, Range
    <3>2. QED
      BY <3>1, SubSeqProperties
  <2>6. UpstreamURIs \in Seq(Range(UpstreamURIs))
    BY DEF Range
  <2>7. CASE FirstNil(res) = 0
    BY <1>4, <2>1, <2>2, <2>3, <2>6, <2>7 DEF FanOut, AnyFailed
  <2>8. CASE FirstNil(res) # 0
    <3>1. upstreamCalls' \in Seq(Range(UpstreamURIs))
      BY <2>2, <2>4, <2>5, <2>8
    <3>2. code' = "panic" /\ pc' = "return"
      BY <2>2, <2>8
    <3>3. upstreamError' \in BOOLEAN /\ results' \in Seq(Outcomes)
      BY <2>2, <2>3 DEF AnyFailed
    <3>4. UNCHANGED <<ts, stops, d, et>> /\ now' \in Nat /\ pc = "fanout"
      BY <1>4, <2>1 DEF FanOut
    <3>5. QED
      BY <3>1, <3>2, <3>3, <3>4
  <2>9. QED
    BY <2>7, <2>8
<1>5. CASE FanOutRejected
  <2>1. <<>> \in Seq(Outcomes) /\ <<>> \in Seq(Range(UpstreamURIs))
    BY EmptySeq
  <2> QED
    BY <1>5, <2>1 DEF FanOutRejected
<1>6. CASE Budget
  BY <1>6 DEF Budget, SleepFor
<1>7. CASE Return
  BY <1>7 DEF Return
<1>8. CASE Returned \/ UNCHANGED vars
  BY <1>8 DEF Returned, vars
<1>9. QED
  BY <1>1, <1>2, <1>3, <1>4, <1>5, <1>6, <1>7, <1>8 DEF Next

\* The type invariant of Handle holds in every reachable state.
THEOREM HandlerTypeCorrect == Spec => []TypeOK
<1>1. HInv => TypeOK
  BY DEF HInv
<1>2. QED
  BY HInit, HStep, <1>1, PTL DEF Spec

\* A successful Handle takes exactly max(D, E) on the model's clock.
THEOREM SuccessLatency == Spec => []SuccessLatencyIsMaxBudget
<1>1. HInv => SuccessLatencyIsMaxBudget
  BY DEF HInv, SuccessLatencyIsMaxBudget
<1>2. QED
  BY HInit, HStep, <1>1, PTL DEF Spec
=============================================================================
