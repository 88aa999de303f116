------------------------ MODULE CircuitBreakerProofs ------------------------
(***************************************************************************)
(* Proofs about CircuitBreaker, for every set of overlapping calls and all *)
(* thresholds: the breaker trips in time, and fails fast while OPEN.       *)
(***************************************************************************)
EXTENDS CircuitBreaker, TLAPS

\* TypeOK and ClosedBelowThreshold are inductive together.
IInv == TypeOK /\ ClosedBelowThreshold

LEMMA InitIInv == Init => IInv
  BY ThresholdsAssumption DEF Init, IInv, TypeOK, ClosedBelowThreshold

LEMMA ExecuteStep ==
    ASSUME IInv, NEW c \in Calls, Execute(c)
    PROVE  IInv'
<1>1. TypeOK /\ ClosedBelowThreshold
  BY DEF IInv
<1>2. FatesOf(mood) \subseteq Fates
  BY <1>1, MoodsAssumption DEF TypeOK, FatesOf, Fates
<1>3. call' \in [Calls -> Fates \cup {"idle"}]
  BY <1>1, <1>2 DEF TypeOK, Execute
<1>4. state' \in {"CLOSED", "OPEN", "HALF_OPEN"} /\ (state' = "CLOSED" => state = "CLOSED")
  BY <1>1 DEF TypeOK, Execute
<1>5. successes' \in 0 .. SuccessThreshold - 1
  BY <1>1, ThresholdsAssumption DEF TypeOK, Execute, SuccessesOnAdmission
<1> QED
  BY <1>1, <1>3, <1>4, <1>5 DEF Execute, IInv, TypeOK, ClosedBelowThreshold

LEMMA SucceedStep ==
    ASSUME IInv, NEW c \in Calls, Succeed(c)
    PROVE  IInv'
<1>1. TypeOK /\ ClosedBelowThreshold
  BY DEF IInv
<1>2. failures' = 0 /\ UNCHANGED <<elapsed, mood>>
  BY DEF Succeed
<1>3. call' \in [Calls -> Fates \cup {"idle"}]
  BY <1>1 DEF TypeOK, Succeed
<1>4. /\ state' \in {"CLOSED", "OPEN", "HALF_OPEN"}
      /\ successes' \in 0 .. SuccessThreshold - 1
  BY <1>1, ThresholdsAssumption DEF TypeOK, Succeed, Closes
<1> QED
  BY <1>1, <1>2, <1>3, <1>4, ThresholdsAssumption DEF IInv, TypeOK, ClosedBelowThreshold

LEMMA FailStep ==
    ASSUME IInv, NEW c \in Calls, Fail(c)
    PROVE  IInv'
<1>1. TypeOK /\ ClosedBelowThreshold
  BY DEF IInv
<1>2. call' \in [Calls -> Fates \cup {"idle"}] /\ UNCHANGED <<successes, mood>>
  BY <1>1 DEF TypeOK, Fail
<1>3. failures' \in 0 .. MaxFailures /\ elapsed' \in 0 .. RecoveryTimeout
  BY <1>1, ThresholdsAssumption DEF TypeOK, Fail
<1>4. state' \in {"CLOSED", "OPEN", "HALF_OPEN"}
  BY <1>1 DEF TypeOK, Fail
<1>5. state' = "CLOSED" => failures' < FailureThreshold
  BY <1>1, ThresholdsAssumption DEF TypeOK, Fail, Trips
<1> QED
  BY <1>1, <1>2, <1>3, <1>4, <1>5 DEF IInv, TypeOK, ClosedBelowThreshold

LEMMA NextIInv == IInv /\ [Next]_vars => IInv'
<1> SUFFICES ASSUME IInv, [Next]_vars PROVE IInv'
  OBVIOUS
<1>1. ASSUME NEW c \in Calls, Execute(c) \/ Succeed(c) \/ Fail(c) PROVE IInv'
  BY <1>1, ExecuteStep, SucceedStep, FailStep
<1>2. CASE Tick
  BY <1>2, ThresholdsAssumption DEF Tick, IInv, TypeOK, ClosedBelowThreshold
<1>3. CASE MoodChanges
  BY <1>3 DEF MoodChanges, IInv, TypeOK, ClosedBelowThreshold
<1>4. CASE UNCHANGED vars
  BY <1>4 DEF vars, IInv, TypeOK, ClosedBelowThreshold
<1> QED
  BY <1>1, <1>2, <1>3, <1>4 DEF Next

LEMMA Invariance == Spec => []IInv
  BY InitIInv, NextIInv, PTL DEF Spec

\* Every variable of the breaker keeps its type: the counters stay below the
\* thresholds that reset them.
THEOREM BreakerTypes == Spec => []TypeOK
<1>1. IInv => TypeOK
  BY DEF IInv
<1> QED
  BY <1>1, Invariance, PTL

\* However calls overlap and settle, a CLOSED breaker has seen fewer failures
\* in a row than its threshold.
THEOREM TripsInTime == Spec => []ClosedBelowThreshold
<1>1. IInv => ClosedBelowThreshold
  BY DEF IInv
<1> QED
  BY <1>1, Invariance, PTL

\* No call is let through an OPEN breaker before the recovery timeout has
\* passed since the last failure, whenever that was reported.
THEOREM OpenFailsFast == Spec => FailsFast
<1>1. ASSUME IInv, [Next]_vars
      PROVE  [\A c \in Calls :
                (state = "OPEN" /\ elapsed < RecoveryTimeout /\ call[c] = "idle")
                    => call'[c] = "idle"]_vars
  <2> SUFFICES ASSUME NEW c \in Calls, Next,
                      state = "OPEN", elapsed < RecoveryTimeout, call[c] = "idle"
               PROVE  call'[c] = "idle"
    BY <1>1
  <2>1. TypeOK
    BY <1>1 DEF IInv
  <2>2. ASSUME NEW d \in Calls, Execute(d) PROVE call'[c] = "idle"
    BY <2>1, <2>2, ThresholdsAssumption DEF Execute, Cooled, TypeOK
  <2>3. ASSUME NEW d \in Calls, Succeed(d) \/ Fail(d) PROVE call'[c] = "idle"
    BY <2>1, <2>3 DEF Succeed, Fail, TypeOK
  <2>4. CASE Tick \/ MoodChanges
    BY <2>4 DEF Tick, MoodChanges
  <2> QED
    BY <2>2, <2>3, <2>4 DEF Next
<1> QED
  BY <1>1, Invariance, PTL DEF Spec, FailsFast
=============================================================================
