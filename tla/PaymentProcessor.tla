-------------------------- MODULE PaymentProcessor --------------------------
(***************************************************************************)
(* Processing and refunding payments: the payment service's HTTP handlers, *)
(* its circuit-breaker timeout around the retry loop, the calls it makes   *)
(* to the wallet service, and the status row each step leaves behind.      *)
(*                                                                         *)
(* A job is one request to /payments/:id/process or /refund.  Its retry    *)
(* loop has a life of its own: when the breaker's timer fires first, the   *)
(* job goes on with an error and the loop keeps calling the wallet.  A     *)
(* call can outlive both (`stray`): the caller gave up or died, the wallet *)
(* may still execute it.  Of the wallet this module keeps what concerns    *)
(* the caller: one entry per idempotency key, `payment_<id>` and           *)
(* `refund_<id>`, and any answer at any time; PaymentSystem puts the       *)
(* promise of the wallet service, AtomicLedger, in its place.              *)
(*                                                                         *)
(* PATCH /payments/:id/status writes any of the six statuses over any      *)
(* other, also COMPLETED over a payment no wallet was debited for.  The    *)
(* history variable `claimed` remembers those payments.                    *)
(*                                                                         *)
(* Which wallet a request names is in PaymentSystem too.                   *)
(***************************************************************************)
EXTENDS Integers

CONSTANTS
    Payments,   \* payments, all created before
    Jobs,       \* concurrent process and refund requests
    MaxAttempts,\* attempts of withSmartRetry
    None        \* no task

Statuses == {"PENDING", "PROCESSING", "COMPLETED", "FAILED", "REFUNDED", "CANCELLED"}

ASSUME MaxAttemptsAssumption == MaxAttempts \in Nat \ {0}

Kinds == {"process", "refund"}
Tasks == [kind : Kinds, payment : Payments]

ASSUME NoneAssumption == None \notin Tasks

VARIABLES
    status,     \* [Payments -> status column of the payment's row]
    claimed,    \* payments a PATCH has made COMPLETED before they were debited
    debited,    \* payments whose `payment_<id>` entry is in the ledger
    credited,   \* payments whose `refund_<id>` entry is in the ledger
    task,       \* [Jobs -> the request a job serves, or None]
    pc,         \* [Jobs -> where the handler stands]
    loop,       \* [Jobs -> state of the job's calls to the wallet]
    attempt,    \* [Jobs -> attempt number of the running loop]
    stray       \* calls the wallet may still execute for nobody

vars == <<status, claimed, debited, credited, task, pc, loop, attempt, stray>>

\* "await" is the handler waiting for the breaker to settle.
Steps == {"idle", "getPayment", "markProcessing", "callWallet", "await",
          "markCompleted", "markFailed", "markRefunded"}

\* "sent": a call the wallet has not decided; "accepted", "refused", "erred":
\* its answer is on the way; "backoff": the sleep between attempts.
Calling == {"sent", "accepted", "refused", "erred"}
Loops == {"none", "backoff"} \cup Calling

-----------------------------------------------------------------------------
Init ==
    /\ status = [p \in Payments |-> "PENDING"]
    /\ claimed = {}
    /\ debited = {}
    /\ credited = {}
    /\ task = [j \in Jobs |-> None]
    /\ pc = [j \in Jobs |-> "idle"]
    /\ loop = [j \in Jobs |-> "none"]
    /\ attempt = [j \in Jobs |-> 0]
    /\ stray = {}

payment(j) == task[j].payment
IsRefund(j) == task[j].kind = "refund"

row == <<status, claimed>>
money == <<debited, credited>>
calling == <<loop, attempt, stray>>

\* A slot is free again once the handler has answered and its loop has ended.
Goto(j, step) ==
    /\ pc' = [pc EXCEPT ![j] = step]
    /\ task' = [task EXCEPT ![j] =
                   IF step = "idle" /\ loop'[j] = "none" THEN None ELSE @]

-----------------------------------------------------------------------------
\* The HTTP handlers.

Receive(j) ==
    /\ task[j] = None
    /\ \E t \in Tasks : task' = [task EXCEPT ![j] = t]
    /\ pc' = [pc EXCEPT ![j] = "getPayment"]
    /\ UNCHANGED <<row, money, calling>>

\* Fault: a refund refused for pending payments only.
AnythingProcessed(p) == status[p] # "PENDING"

Refundable(p) == status[p] = "COMPLETED"

\* processPayment refuses COMPLETED and FAILED, and nothing else.
Processable(p) == status[p] \notin {"COMPLETED", "FAILED"}

FirstStep(j) == IF IsRefund(j) THEN "callWallet" ELSE "markProcessing"

\* The controller reads the row, checks it and acts on the check later.
GetPayment(j) ==
    /\ pc[j] = "getPayment"
    /\ UNCHANGED <<row, money, calling>>
    /\ IF IF IsRefund(j) THEN Refundable(payment(j)) ELSE Processable(payment(j))
       THEN Goto(j, FirstStep(j))
       ELSE Goto(j, "idle")

GetPaymentFails(j) ==
    /\ pc[j] = "getPayment"
    /\ UNCHANGED <<row, money, calling>>
    /\ Goto(j, "idle")

\* Fault: the catch block of processPayment marks the payment completed.
CompleteAnyway(j) == IF IsRefund(j) THEN "idle" ELSE "markCompleted"

\* Any error of processPayment ends in a FAILED row; refundPayment rethrows.
AfterError(j) == IF IsRefund(j) THEN "idle" ELSE "markFailed"

AfterSuccess(j) == IF IsRefund(j) THEN "markRefunded" ELSE "markCompleted"

\* An unconditional UPDATE of the status; it may fail, and it may take effect
\* although the caller sees it fail.
Mark(j, from, new, next) ==
    /\ pc[j] = from
    /\ UNCHANGED <<claimed, money, calling>>
    /\ \/ /\ status' = [status EXCEPT ![payment(j)] = new]
          /\ Goto(j, next) \/ Goto(j, IF from = "markFailed" THEN "idle" ELSE AfterError(j))
       \/ /\ status' = status
          /\ Goto(j, IF from = "markFailed" THEN "idle" ELSE AfterError(j))

MarkProcessing(j) == Mark(j, "markProcessing", "PROCESSING", "callWallet")
MarkCompleted(j) == Mark(j, "markCompleted", "COMPLETED", "idle")
MarkFailed(j) == Mark(j, "markFailed", "FAILED", "idle")
MarkRefunded(j) == Mark(j, "markRefunded", "REFUNDED", "idle")

\* PATCH: the same unconditional UPDATE, with a status of the caller's choice.
Patch(p) ==
    /\ \E s \in Statuses \ {status[p]} :
          /\ status' = [status EXCEPT ![p] = s]
          /\ claimed' = IF s = "COMPLETED" /\ p \notin debited THEN claimed \cup {p} ELSE claimed
    /\ UNCHANGED <<money, task, pc, calling>>

-----------------------------------------------------------------------------
\* The breaker and the retry loop.

StartCalls(j) ==
    /\ pc[j] = "callWallet"
    /\ loop[j] = "none"
    /\ loop' = [loop EXCEPT ![j] = "sent"]
    /\ attempt' = [attempt EXCEPT ![j] = 1]
    /\ UNCHANGED <<row, money, stray>>
    /\ Goto(j, "await")

\* The circuit is OPEN: see CircuitBreaker for when.
CircuitRefuses(j) ==
    /\ pc[j] = "callWallet"
    /\ UNCHANGED <<row, money, calling>>
    /\ Goto(j, AfterError(j))

\* The breaker's timer fires: the handler goes on, the loop does too.
BreakerTimeout(j) ==
    /\ pc[j] = "await"
    /\ UNCHANGED <<row, money, calling>>
    /\ Goto(j, AfterError(j))

\* The loop ends; a handler still waiting goes on to step.
LoopEnds(j, step) ==
    /\ loop' = [loop EXCEPT ![j] = "none"]
    /\ attempt' = [attempt EXCEPT ![j] = 0]
    /\ IF pc[j] = "await" THEN Goto(j, step) ELSE Goto(j, pc[j])

\* Fault: one attempt too many.
OneAttemptMore(j) == attempt[j] > MaxAttempts

\* A refund is not retried.
LastAttempt(j) == IsRefund(j) \/ attempt[j] >= MaxAttempts

AttemptFails(j, type) ==
    \/ /\ type = "NON_RETRYABLE" \/ LastAttempt(j)
       /\ LoopEnds(j, AfterError(j))
    \/ /\ type # "NON_RETRYABLE" /\ ~LastAttempt(j)
       /\ loop' = [loop EXCEPT ![j] = "backoff"]
       /\ UNCHANGED <<attempt, task, pc>>

\* Fault: the loop forgets to count.
SameAttempt(j) == attempt[j]

NextAttempt(j) == attempt[j] + 1

Retry(j) ==
    /\ loop[j] = "backoff"
    /\ loop' = [loop EXCEPT ![j] = "sent"]
    /\ attempt' = [attempt EXCEPT ![j] = NextAttempt(j)]
    /\ UNCHANGED <<row, money, task, pc, stray>>

-----------------------------------------------------------------------------
\* A call to the wallet service.

Post(kind, p) ==
    /\ debited' = IF kind = "process" THEN debited \cup {p} ELSE debited
    /\ credited' = IF kind = "refund" THEN credited \cup {p} ELSE credited

Decide(j, answer) ==
    /\ loop[j] = "sent"
    /\ loop' = [loop EXCEPT ![j] = answer]
    /\ UNCHANGED <<row, task, pc, attempt, stray>>

\* The wallet posts the entry, or finds it posted: a duplicate succeeds too.
WalletAccepts(j) == Decide(j, "accepted") /\ Post(task[j].kind, payment(j))

\* The wallet refuses: insufficient balance, not found, not active.
WalletRefuses(j) == Decide(j, "refused") /\ UNCHANGED money

\* Another answer than these, such as DUPLICATE_LEDGER_ENTRY or a 500, which
\* may hide a posting that took effect.
WalletErrs(j) ==
    /\ Decide(j, "erred")
    /\ Post(task[j].kind, payment(j)) \/ UNCHANGED money

\* The answer arrives.
Answered(j) ==
    /\ UNCHANGED <<row, money, stray>>
    /\ \/ loop[j] = "accepted" /\ LoopEnds(j, AfterSuccess(j))
       \/ loop[j] = "refused" /\ AttemptFails(j, "NON_RETRYABLE")
       \/ loop[j] = "erred" /\ AttemptFails(j, "UNKNOWN")

\* No answer in time, or no connection: the call may still arrive.
HttpTimeout(j) ==
    /\ loop[j] \in Calling
    /\ stray' = IF loop[j] = "sent" THEN stray \cup {task[j]} ELSE stray
    /\ UNCHANGED <<row, money>>
    /\ AttemptFails(j, "RETRYABLE")

\* A call nobody waits for is executed, or comes to nothing.  Of several with
\* one task, others may be left.
StrayExecuted(t) ==
    /\ t \in stray
    /\ stray' \in {stray, stray \ {t}}
    /\ Post(t.kind, t.payment)
    /\ UNCHANGED <<row, task, pc, loop, attempt>>

StrayLost(t) ==
    /\ t \in stray
    /\ stray' = stray \ {t}
    /\ UNCHANGED <<row, money, task, pc, loop, attempt>>

\* The payment service dies; rows, ledger and calls on the wire survive.
Crash ==
    /\ \E j \in Jobs : task[j] # None
    /\ stray' = stray \cup {task[j] : j \in {i \in Jobs : loop[i] = "sent"}}
    /\ task' = [j \in Jobs |-> None]
    /\ pc' = [j \in Jobs |-> "idle"]
    /\ loop' = [j \in Jobs |-> "none"]
    /\ attempt' = [j \in Jobs |-> 0]
    /\ UNCHANGED <<row, money>>

-----------------------------------------------------------------------------
Handle(j) ==
    \/ GetPayment(j) \/ GetPaymentFails(j)
    \/ MarkProcessing(j) \/ MarkCompleted(j) \/ MarkFailed(j) \/ MarkRefunded(j)
    \/ StartCalls(j) \/ CircuitRefuses(j) \/ BreakerTimeout(j)

Wallet(j) == WalletAccepts(j) \/ WalletRefuses(j) \/ WalletErrs(j)

Next ==
    \/ \E j \in Jobs : Receive(j) \/ Handle(j) \/ Retry(j) \/ Wallet(j) \/ Answered(j) \/ HttpTimeout(j)
    \/ \E t \in Tasks : StrayExecuted(t) \/ StrayLost(t)
    \/ \E p \in Payments : Patch(p)
    \/ Crash

Spec == Init /\ [][Next]_vars

\* Handlers run to their next await, and the breaker, the HTTP client and
\* the retry loop all have timers; the wallet need not answer at all.
FairSpec ==
    /\ Spec
    /\ \A j \in Jobs : /\ WF_vars(Handle(j))
                       /\ WF_vars(Retry(j))
                       /\ WF_vars(HttpTimeout(j))

-----------------------------------------------------------------------------
\* Every variable stays in its domain; a loop never makes more than
\* MaxAttempts attempts and a free slot has nothing running.
TypeOK ==
    /\ status \in [Payments -> Statuses]
    /\ claimed \subseteq Payments
    /\ debited \subseteq Payments
    /\ credited \subseteq Payments
    /\ task \in [Jobs -> Tasks \cup {None}]
    /\ pc \in [Jobs -> Steps]
    /\ loop \in [Jobs -> Loops]
    /\ attempt \in [Jobs -> 0..MaxAttempts]
    /\ stray \subseteq Tasks

\* Only a PATCH shows a payment as COMPLETED that is not debited in the
\* wallet's ledger, or as REFUNDED that is not credited there, whatever the
\* handlers retried, gave up, repeated or lost on the way.
StatusBackedByLedger ==
    [][\A p \in Payments : status'[p] # status[p] /\ ~Patch(p) =>
          /\ status'[p] = "COMPLETED" => p \in debited
          /\ status'[p] = "REFUNDED" => p \in credited]_vars

\* No money comes back that was not taken, also by calls that arrive late: a
\* refund entry only follows the debit entry of its payment, or a PATCH that
\* made the payment COMPLETED without one, which /refund believes.
RefundFollowsDebit == credited \subseteq debited \cup claimed

\* Every request is answered and every retry loop ends, also one whose
\* request the breaker timed out.
WorkEnds == \A j \in Jobs : task[j] # None ~> task[j] = None
=============================================================================
