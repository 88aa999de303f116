--------------------------- MODULE CircuitBreaker ---------------------------
(***************************************************************************)
(* The circuit breaker of shared/resilience, one instance shared by every  *)
(* debit and refund of a payment service process.  Calls overlap: each is  *)
(* admitted in one state of the breaker and settles, by its result or by   *)
(* the breaker's timer, in whatever state the others have left it in.      *)
(* The breaker has no timer of its own to leave OPEN: the first call after *)
(* the recovery timeout does.                                              *)
(*                                                                         *)
(* What a call comes to is fixed when it starts and unknown to the breaker *)
(* until it settles: a result, a business refusal of a healthy wallet      *)
(* service, or an outage (an error or the timer).                          *)
(*                                                                         *)
(* Bounds: MaxFailures caps the failure counter, which only matters up to  *)
(* FailureThreshold; elapsed saturates at RecoveryTimeout.                 *)
(***************************************************************************)
EXTENDS Integers

CONSTANTS
    Calls,              \* concurrent calls of execute
    Moods,              \* how the wallet service behaves over time
    FailureThreshold,
    SuccessThreshold,
    RecoveryTimeout,    \* in ticks
    MaxFailures

ASSUME ThresholdsAssumption ==
    /\ FailureThreshold \in Nat \ {0}
    /\ SuccessThreshold \in Nat \ {0}
    /\ RecoveryTimeout \in Nat
    /\ MaxFailures \in Nat /\ MaxFailures > FailureThreshold

ASSUME MoodsAssumption == Moods \subseteq {"healthy", "refusing", "down"}

VARIABLES
    state,      \* CLOSED, OPEN or HALF_OPEN
    failures,   \* failures since the last success
    successes,  \* successes since the breaker became HALF_OPEN
    elapsed,    \* ticks since lastFailureTime
    call,       \* [Calls -> "idle" or what the call will come to]
    mood        \* the wallet service at present

vars == <<state, failures, successes, elapsed, call, mood>>

Fates == {"result", "refusal", "outage"}

FatesOf(m) == CASE m = "healthy"  -> {"result"}
                [] m = "refusing" -> {"result", "refusal"}
                [] m = "down"     -> {"result", "outage"}

Init ==
    /\ state = "CLOSED"
    /\ failures = 0
    /\ successes = 0
    /\ elapsed = 0
    /\ call = [c \in Calls |-> "idle"]
    /\ mood \in Moods

-----------------------------------------------------------------------------
\* Fault: an open circuit that lets every call through.
AlwaysCooled == TRUE

Cooled == elapsed >= RecoveryTimeout

\* Fault: every admitted call starts the count of successes again.
CountRestarted == 0

SuccessesOnAdmission == IF state = "OPEN" THEN 0 ELSE successes

\* execute: refused while OPEN and not cooled down, else the call starts; the
\* first one after the recovery timeout makes the breaker HALF_OPEN.
Execute(c) ==
    /\ call[c] = "idle"
    /\ state = "OPEN" => Cooled
    /\ state' = IF state = "OPEN" THEN "HALF_OPEN" ELSE state
    /\ successes' = SuccessesOnAdmission
    /\ \E f \in FatesOf(mood) : call' = [call EXCEPT ![c] = f]
    /\ UNCHANGED <<failures, elapsed, mood>>

\* Fault: one success more than configured.
ClosesLate(n) == n > SuccessThreshold

Closes(n) == n >= SuccessThreshold

\* _onSuccess, in whatever state the breaker is in by then.
Succeed(c) ==
    /\ call[c] = "result"
    /\ call' = [call EXCEPT ![c] = "idle"]
    /\ failures' = 0
    /\ \/ state # "HALF_OPEN" /\ UNCHANGED <<state, successes>>
       \/ /\ state = "HALF_OPEN" /\ Closes(successes + 1)
          /\ state' = "CLOSED"
          /\ successes' = 0
       \/ /\ state = "HALF_OPEN" /\ ~Closes(successes + 1)
          /\ successes' = successes + 1
          /\ UNCHANGED state
    /\ UNCHANGED <<elapsed, mood>>

\* Fault: one failure more than configured.
TripsLate(n) == state = "HALF_OPEN" \/ n > FailureThreshold

Trips(n) == state = "HALF_OPEN" \/ n >= FailureThreshold

\* _onFailure: any error counts, and it restarts the recovery timeout even
\* when the breaker is OPEN already.
Fail(c) ==
    /\ call[c] \in {"refusal", "outage"}
    /\ call' = [call EXCEPT ![c] = "idle"]
    /\ failures' = IF failures = MaxFailures THEN failures ELSE failures + 1
    /\ elapsed' = 0
    /\ state' = IF Trips(failures + 1) THEN "OPEN" ELSE state
    /\ UNCHANGED <<successes, mood>>

-----------------------------------------------------------------------------
Tick ==
    /\ elapsed < RecoveryTimeout
    /\ elapsed' = elapsed + 1
    /\ UNCHANGED <<state, failures, successes, call, mood>>

MoodChanges ==
    /\ mood' \in Moods \ {mood}
    /\ UNCHANGED <<state, failures, successes, elapsed, call>>

Next ==
    \/ \E c \in Calls : Execute(c) \/ Succeed(c) \/ Fail(c)
    \/ Tick
    \/ MoodChanges

Spec == Init /\ [][Next]_vars

\* Time passes, every call settles at the latest by the breaker's timer, and
\* clients keep asking for payments: without calls an OPEN breaker stays so.
FairSpec ==
    /\ Spec
    /\ WF_vars(Tick)
    /\ \A c \in Calls : WF_vars(Execute(c)) /\ WF_vars(Succeed(c) \/ Fail(c))

-----------------------------------------------------------------------------
\* Every variable stays in its domain; the successes counted never reach the
\* threshold that closes the breaker.
TypeOK ==
    /\ state \in {"CLOSED", "OPEN", "HALF_OPEN"}
    /\ failures \in 0..MaxFailures
    /\ successes \in 0..SuccessThreshold - 1
    /\ elapsed \in 0..RecoveryTimeout
    /\ call \in [Calls -> Fates \cup {"idle"}]
    /\ mood \in Moods

\* A breaker that lets calls through as normal has not seen FailureThreshold
\* failures in a row, however calls overlap and settle out of order.
ClosedBelowThreshold == state = "CLOSED" => failures < FailureThreshold

\* While OPEN, no call reaches the wallet service until RecoveryTimeout after
\* the last failure, including the failures of calls admitted earlier.
FailsFast ==
    [][\A c \in Calls :
          (state = "OPEN" /\ elapsed < RecoveryTimeout /\ call[c] = "idle")
              => call'[c] = "idle"]_vars

\* Once the wallet service is healthy for good, the breaker closes and stays
\* closed: failures still in flight delay that and cannot prevent it.
Recovers == <>[](mood = "healthy") => <>[](state = "CLOSED")
=============================================================================
