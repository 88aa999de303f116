----------------------- MODULE PaymentProcessorProofs -----------------------
(***************************************************************************)
(* Proofs about PaymentProcessor, for every set of payments and of         *)
(* concurrent requests and every number of attempts: its type invariant,   *)
(* and that nothing but a PATCH makes statuses and refunds run ahead of    *)
(* the ledger.                                                             *)
(***************************************************************************)
EXTENDS PaymentProcessor, TLAPS

-----------------------------------------------------------------------------
\* The inductive invariant.

\* The payments that were debited, or that a PATCH made COMPLETED without.
Paid == debited \cup claimed

\* The step and the loop of a job fit the request it serves.
StepMatchesTask(j) ==
    /\ task[j] = None => pc[j] = "idle" /\ loop[j] = "none"
    /\ pc[j] = "getPayment" => loop[j] = "none"
    /\ pc[j] \in {"markProcessing", "markCompleted", "markFailed"} => ~IsRefund(j)
    /\ pc[j] = "markRefunded" => IsRefund(j)
    /\ loop[j] = "backoff" => attempt[j] < MaxAttempts

\* What a job is about to write, or to ask the wallet for, is backed: a
\* refund that passed its check has a payment paid for.
Backed(j) ==
    /\ pc[j] = "markCompleted" => payment(j) \in debited
    /\ pc[j] = "markRefunded" => payment(j) \in credited
    /\ task[j] # None /\ IsRefund(j) /\ pc[j] # "getPayment" => payment(j) \in Paid
    /\ loop[j] = "accepted" =>
           IF IsRefund(j) THEN payment(j) \in credited ELSE payment(j) \in debited

JobOK(j) == StepMatchesTask(j) /\ Backed(j)

\* A refund call that lives on was made for a payment paid for.
StraysBacked == \A t \in stray : t.kind = "refund" => t.payment \in Paid

\* What /refund goes by.
CompletedArePaid == \A p \in Payments : status[p] = "COMPLETED" => p \in Paid

LedgerOK == CompletedArePaid /\ RefundFollowsDebit /\ StraysBacked

IInv == TypeOK /\ LedgerOK /\ \A j \in Jobs : JobOK(j)

USE DEF row, Paid

-----------------------------------------------------------------------------
LEMMA TasksAreTyped ==
    ASSUME NEW t \in Tasks
    PROVE  /\ t.kind \in {"process", "refund"} /\ t.payment \in Payments
           /\ t # None
  BY NoneAssumption DEF Tasks, Kinds

\* A job at work serves a request.
LEMMA BusyJobHasTask ==
    ASSUME IInv, NEW j \in Jobs, pc[j] # "idle" \/ loop[j] # "none"
    PROVE  /\ task[j] \in Tasks /\ task[j] # None
           /\ payment(j) \in Payments
           /\ task[j].kind \in {"process", "refund"}
<1>1. task[j] # None
  BY DEF IInv, JobOK, StepMatchesTask
<1>2. task[j] \in Tasks
  BY <1>1 DEF IInv, TypeOK
<1> QED
  BY <1>1, <1>2, TasksAreTyped DEF payment

\* Nothing but job j moves.
OnlyMoves(j) ==
    \A i \in Jobs \ {j} :
        /\ pc'[i] = pc[i] /\ task'[i] = task[i]
        /\ loop'[i] = loop[i] /\ attempt'[i] = attempt[i]

LEMMA OthersStayOK ==
    ASSUME IInv, NEW j \in Jobs, OnlyMoves(j), JobOK(j)',
           Paid \subseteq Paid', debited \subseteq debited', credited \subseteq credited'
    PROVE  \A i \in Jobs : JobOK(i)'
<1> SUFFICES ASSUME NEW i \in Jobs, i # j
             PROVE  JobOK(i)'
  OBVIOUS
<1>1. JobOK(i)
  BY DEF IInv
<1>2. /\ pc'[i] = pc[i] /\ task'[i] = task[i]
      /\ loop'[i] = loop[i] /\ attempt'[i] = attempt[i]
  BY DEF OnlyMoves
<1> QED
  BY <1>1, <1>2 DEF JobOK, StepMatchesTask, Backed, payment, IsRefund

LEMMA GotoMoves ==
    ASSUME TypeOK, NEW j \in Jobs, NEW step \in Steps, Goto(j, step)
    PROVE  /\ pc' \in [Jobs -> Steps] /\ task' \in [Jobs -> Tasks \cup {None}]
           /\ pc'[j] = step
           /\ task'[j] = IF step = "idle" /\ loop'[j] = "none" THEN None ELSE task[j]
           /\ \A i \in Jobs \ {j} : pc'[i] = pc[i] /\ task'[i] = task[i]
  BY DEF TypeOK, Goto

\* A step of the handler that touches neither ledger nor calls.
LEMMA HandlerStep ==
    ASSUME IInv, NEW j \in Jobs, NEW step \in Steps, Goto(j, step),
           UNCHANGED <<claimed, money, calling>>, pc[j] # "idle",
           step = "getPayment" => FALSE,
           step \in {"markProcessing", "markCompleted", "markFailed"} => ~IsRefund(j),
           step = "markRefunded" => IsRefund(j),
           step = "markCompleted" => payment(j) \in debited,
           step = "markRefunded" => payment(j) \in credited,
           IsRefund(j) /\ step # "idle" => payment(j) \in Paid,
           pc[j] = "getPayment" \/ ~IsRefund(j) \/ payment(j) \in Paid
    PROVE  /\ pc' \in [Jobs -> Steps] /\ task' \in [Jobs -> Tasks \cup {None}]
           /\ \A i \in Jobs : JobOK(i)'
<1>1. TypeOK
  BY DEF IInv
<1>2. /\ pc' \in [Jobs -> Steps] /\ task' \in [Jobs -> Tasks \cup {None}]
      /\ pc'[j] = step
      /\ task'[j] = IF step = "idle" /\ loop'[j] = "none" THEN None ELSE task[j]
      /\ \A i \in Jobs \ {j} : pc'[i] = pc[i] /\ task'[i] = task[i]
  BY <1>1, GotoMoves
<1>3. UNCHANGED <<claimed, debited, credited, loop, attempt, stray>>
  BY DEF money, calling
<1>4. OnlyMoves(j)
  BY <1>2, <1>3 DEF OnlyMoves
<1>5. task[j] \in Tasks /\ task[j] # None
  BY BusyJobHasTask
<1>6. JobOK(j)
  BY DEF IInv
<1>7. JobOK(j)'
  <2>1. CASE step = "idle" /\ loop[j] = "none"
    BY <1>2, <1>3, <2>1 DEF JobOK, StepMatchesTask, Backed, payment, IsRefund
  <2>2. CASE ~(step = "idle" /\ loop[j] = "none")
    <3>1. task'[j] = task[j] /\ loop'[j] = loop[j] /\ attempt'[j] = attempt[j]
      BY <1>2, <1>3, <2>2
    <3>2. StepMatchesTask(j)'
      BY <1>2, <1>5, <1>6, <3>1 DEF JobOK, StepMatchesTask, IsRefund
    <3>3. step = "idle" => pc[j] # "getPayment"
      BY <1>6, <2>2 DEF JobOK, StepMatchesTask
    <3>4. Backed(j)'
      BY <1>2, <1>3, <1>5, <1>6, <3>1, <3>3 DEF JobOK, Backed, payment, IsRefund
    <3> QED
      BY <3>2, <3>4 DEF JobOK
  <2> QED
    BY <2>1, <2>2
<1> QED
  BY <1>2, <1>3, <1>4, <1>7, OthersStayOK

-----------------------------------------------------------------------------
LEMMA InitIInv == Init => IInv
<1> SUFFICES ASSUME Init PROVE IInv
  OBVIOUS
<1>1. TypeOK
  BY MaxAttemptsAssumption DEF Init, TypeOK, Statuses, Steps, Loops, Calling
<1>2. LedgerOK
  BY DEF Init, LedgerOK, CompletedArePaid, RefundFollowsDebit, StraysBacked
<1>3. \A j \in Jobs : JobOK(j)
  BY DEF Init, JobOK, StepMatchesTask, Backed
<1> QED
  BY <1>1, <1>2, <1>3 DEF IInv

LEMMA ReceiveKeepsIInv ==
    ASSUME IInv, NEW j \in Jobs, Receive(j)
    PROVE  IInv'
<1> USE DEF IInv
<1>1. PICK t \in Tasks : task' = [task EXCEPT ![j] = t]
  BY DEF Receive
<1>2. /\ pc' = [pc EXCEPT ![j] = "getPayment"] /\ task[j] = None
      /\ UNCHANGED <<row, debited, credited, loop, attempt, stray>>
  BY DEF Receive, money, calling
<1>3. TypeOK'
  BY <1>1, <1>2 DEF TypeOK, Steps
<1>4. LedgerOK'
  BY <1>2 DEF LedgerOK, CompletedArePaid, RefundFollowsDebit, StraysBacked
<1>5. pc'[j] = "getPayment" /\ task'[j] = t /\ loop[j] = "none"
  BY <1>1, <1>2 DEF TypeOK, JobOK, StepMatchesTask
<1>6. OnlyMoves(j)
  BY <1>1, <1>2 DEF OnlyMoves, TypeOK
<1>7. JobOK(j)'
  BY <1>2, <1>5, TasksAreTyped DEF JobOK, StepMatchesTask, Backed
<1> QED
  BY <1>2, <1>3, <1>4, <1>6, <1>7, OthersStayOK

\* Steps that change the handler's place only.
LEMMA PlainStepKeepsIInv ==
    ASSUME IInv, UNCHANGED <<row, money, calling>>,
           pc' \in [Jobs -> Steps], task' \in [Jobs -> Tasks \cup {None}],
           \A i \in Jobs : JobOK(i)'
    PROVE  IInv'
<1>1. UNCHANGED <<row, debited, credited, loop, attempt, stray>>
  BY DEF money, calling
<1>2. TypeOK'
  BY <1>1 DEF IInv, TypeOK
<1>3. LedgerOK'
  BY <1>1 DEF IInv, LedgerOK, CompletedArePaid, RefundFollowsDebit, StraysBacked
<1> QED
  BY <1>2, <1>3 DEF IInv

LEMMA GetPaymentKeepsIInv ==
    ASSUME IInv, NEW j \in Jobs, GetPayment(j) \/ GetPaymentFails(j)
    PROVE  IInv'
<1>1. pc[j] = "getPayment" /\ UNCHANGED <<row, money, calling>>
  BY DEF GetPayment, GetPaymentFails
<1>2. /\ task[j] \in Tasks /\ payment(j) \in Payments
  BY <1>1, BusyJobHasTask
<1>3. PICK step \in {FirstStep(j), "idle"} :
         /\ Goto(j, step)
         /\ step # "idle" /\ IsRefund(j) => Refundable(payment(j))
  BY DEF GetPayment, GetPaymentFails, FirstStep
<1>4. step \in {"callWallet", "markProcessing", "idle"}
      /\ (step = "markProcessing" => ~IsRefund(j))
  BY <1>3 DEF FirstStep
<1>5. step # "idle" /\ IsRefund(j) => payment(j) \in Paid
  BY <1>2, <1>3 DEF IInv, LedgerOK, CompletedArePaid, Refundable
<1>6. /\ pc' \in [Jobs -> Steps] /\ task' \in [Jobs -> Tasks \cup {None}]
      /\ \A i \in Jobs : JobOK(i)'
  BY <1>1, <1>3, <1>4, <1>5, HandlerStep DEF Steps
<1> QED
  BY <1>1, <1>6, PlainStepKeepsIInv

\* Where a job goes after an error, and what is known of it there.
LEMMA ErrorStep ==
    ASSUME NEW j \in Jobs
    PROVE  /\ AfterError(j) \in {"idle", "markFailed"} /\ AfterError(j) \in Steps
           /\ AfterError(j) = "markFailed" => ~IsRefund(j)
  BY DEF AfterError, Steps

LEMMA CircuitKeepsIInv ==
    ASSUME IInv, NEW j \in Jobs, CircuitRefuses(j) \/ BreakerTimeout(j)
    PROVE  IInv'
<1>1. /\ pc[j] \in {"callWallet", "await"} /\ UNCHANGED <<row, money, calling>>
      /\ Goto(j, AfterError(j))
  BY DEF CircuitRefuses, BreakerTimeout
<1>2. task[j] # None
  BY <1>1, BusyJobHasTask
<1>3. IsRefund(j) => payment(j) \in Paid
  BY <1>1, <1>2 DEF IInv, JobOK, Backed
<1>4. /\ pc' \in [Jobs -> Steps] /\ task' \in [Jobs -> Tasks \cup {None}]
      /\ \A i \in Jobs : JobOK(i)'
  BY <1>1, <1>3, ErrorStep, HandlerStep
<1> QED
  BY <1>1, <1>4, PlainStepKeepsIInv

LEMMA MarkKeepsIInv ==
    ASSUME IInv, NEW j \in Jobs, NEW from \in Steps, NEW new \in Statuses,
           NEW next \in Steps, Mark(j, from, new, next),
           from # "idle", from # "getPayment", next \in {"callWallet", "idle"},
           new = "COMPLETED" => from = "markCompleted",
           new = "REFUNDED" => from = "markRefunded"
    PROVE  IInv'
<1> USE DEF IInv
<1>1. pc[j] = from /\ UNCHANGED <<claimed, money, calling>>
  BY DEF Mark
<1>2. UNCHANGED <<claimed, debited, credited, loop, attempt, stray>>
  BY <1>1 DEF money, calling
<1>3. task[j] \in Tasks /\ task[j] # None /\ payment(j) \in Payments
  BY <1>1, BusyJobHasTask
<1>4. JobOK(j)
  OBVIOUS
<1>5. IsRefund(j) => payment(j) \in Paid
  BY <1>1, <1>3, <1>4 DEF JobOK, Backed
<1>6. PICK step \in {next, AfterError(j), "idle"} : Goto(j, step)
  BY DEF Mark
<1>7. /\ pc' \in [Jobs -> Steps] /\ task' \in [Jobs -> Tasks \cup {None}]
      /\ \A i \in Jobs : JobOK(i)'
  <2>1. step \in {"callWallet", "idle", "markFailed"} /\ step \in Steps
    BY <1>6, ErrorStep DEF Steps
  <2>2. step = "markFailed" => ~IsRefund(j)
    BY <1>6, ErrorStep
  <2> QED
    BY <1>1, <1>5, <1>6, <2>1, <2>2, HandlerStep
<1>8. \/ status' = [status EXCEPT ![payment(j)] = new]
      \/ status' = status
  BY DEF Mark
<1>9. TypeOK'
  BY <1>2, <1>7, <1>8 DEF TypeOK
<1>10. CompletedArePaid'
  <2>1. new = "COMPLETED" => payment(j) \in debited
    BY <1>1, <1>4 DEF JobOK, Backed
  <2> QED
    BY <1>2, <1>3, <1>8, <2>1 DEF LedgerOK, CompletedArePaid, TypeOK
<1>11. LedgerOK'
  BY <1>2, <1>10 DEF LedgerOK, RefundFollowsDebit, StraysBacked
<1> QED
  BY <1>7, <1>9, <1>11

-----------------------------------------------------------------------------
\* The retry loop and the wallet.

\* A job whose loop moves, ends or is given up, with the ledger growing.
LEMMA LoopEndKeepsJobs ==
    ASSUME IInv, NEW j \in Jobs, NEW step \in Steps, LoopEnds(j, step),
           loop[j] # "none",
           Paid \subseteq Paid', debited \subseteq debited', credited \subseteq credited',
           step \in {"idle", "markFailed", "markCompleted", "markRefunded"},
           step \in {"markFailed", "markCompleted"} => ~IsRefund(j),
           step = "markRefunded" => IsRefund(j) /\ payment(j) \in credited',
           step = "markCompleted" => payment(j) \in debited'
    PROVE  /\ pc' \in [Jobs -> Steps] /\ task' \in [Jobs -> Tasks \cup {None}]
           /\ loop' \in [Jobs -> Loops] /\ attempt' \in [Jobs -> 0..MaxAttempts]
           /\ \A i \in Jobs : JobOK(i)'
<1> DEFINE there == IF pc[j] = "await" THEN step ELSE pc[j]
<1>1. TypeOK /\ JobOK(j)
  BY DEF IInv
<1>2. /\ loop' = [loop EXCEPT ![j] = "none"]
      /\ attempt' = [attempt EXCEPT ![j] = 0]
      /\ Goto(j, there)
  BY DEF LoopEnds
<1>3. there \in Steps
  BY <1>1 DEF TypeOK
<1> HIDE DEF there
<1>4. /\ pc' \in [Jobs -> Steps] /\ task' \in [Jobs -> Tasks \cup {None}]
      /\ pc'[j] = there
      /\ task'[j] = IF there = "idle" /\ loop'[j] = "none" THEN None ELSE task[j]
      /\ \A i \in Jobs \ {j} : pc'[i] = pc[i] /\ task'[i] = task[i]
  BY <1>1, <1>2, <1>3, GotoMoves
<1>5. loop' \in [Jobs -> Loops] /\ attempt' \in [Jobs -> 0..MaxAttempts]
  BY <1>1, <1>2, MaxAttemptsAssumption DEF TypeOK, Loops, Calling
<1>6. loop'[j] = "none" /\ OnlyMoves(j)
  BY <1>1, <1>2, <1>4 DEF OnlyMoves, TypeOK
<1>7. task[j] \in Tasks /\ task[j] # None
  BY BusyJobHasTask
<1>8. pc[j] # "getPayment"
  BY <1>1 DEF JobOK, StepMatchesTask
<1>9. JobOK(j)'
  <2>1. CASE there = "idle"
    BY <1>4, <1>6, <2>1 DEF JobOK, StepMatchesTask, Backed
  <2>2. CASE there # "idle"
    <3>1. task'[j] = task[j]
      BY <1>4, <2>2
    <3>2. IsRefund(j) => payment(j) \in Paid
      BY <1>1, <1>7, <1>8 DEF JobOK, Backed
    <3>3. StepMatchesTask(j)'
      BY <1>1, <1>4, <1>6, <1>7, <1>8, <3>1
      DEF JobOK, StepMatchesTask, IsRefund, there
    <3>4. Backed(j)'
      BY <1>1, <1>4, <1>6, <1>7, <1>8, <3>1, <3>2
      DEF JobOK, Backed, IsRefund, payment, there
    <3> QED
      BY <3>3, <3>4 DEF JobOK
  <2> QED
    BY <2>1, <2>2
<1> QED
  BY <1>4, <1>5, <1>6, <1>9, OthersStayOK

LEMMA AttemptFailsKeepsJobs ==
    ASSUME IInv, NEW j \in Jobs, NEW type, AttemptFails(j, type), loop[j] # "none",
           Paid \subseteq Paid', debited \subseteq debited', credited \subseteq credited'
    PROVE  /\ pc' \in [Jobs -> Steps] /\ task' \in [Jobs -> Tasks \cup {None}]
           /\ loop' \in [Jobs -> Loops] /\ attempt' \in [Jobs -> 0..MaxAttempts]
           /\ \A i \in Jobs : JobOK(i)'
<1>1. CASE LoopEnds(j, AfterError(j))
  BY <1>1, ErrorStep, LoopEndKeepsJobs
<1>2. CASE /\ ~LastAttempt(j)
           /\ loop' = [loop EXCEPT ![j] = "backoff"]
           /\ UNCHANGED <<attempt, task, pc>>
  <2>1. TypeOK /\ JobOK(j) /\ attempt[j] < MaxAttempts
    BY <1>2, MaxAttemptsAssumption DEF IInv, TypeOK, LastAttempt
  <2>2. loop' \in [Jobs -> Loops] /\ loop'[j] = "backoff" /\ OnlyMoves(j)
    BY <1>2, <2>1 DEF TypeOK, Loops, Calling, OnlyMoves
  <2>3. task[j] # None
    BY BusyJobHasTask
  <2>4. JobOK(j)'
    BY <1>2, <2>1, <2>2, <2>3
    DEF JobOK, StepMatchesTask, Backed, payment, IsRefund
  <2> QED
    BY <1>2, <2>1, <2>2, <2>4, OthersStayOK DEF TypeOK
<1> QED
  BY <1>1, <1>2 DEF AttemptFails

\* The ledger and the statuses stay, and every stray call is backed.
LEMMA CallStepKeepsIInv ==
    ASSUME IInv, UNCHANGED <<row, money>>, stray' \subseteq Tasks, StraysBacked',
           pc' \in [Jobs -> Steps], task' \in [Jobs -> Tasks \cup {None}],
           loop' \in [Jobs -> Loops], attempt' \in [Jobs -> 0..MaxAttempts],
           \A i \in Jobs : JobOK(i)'
    PROVE  IInv'
<1>1. UNCHANGED <<row, debited, credited>>
  BY DEF money
<1>2. TypeOK'
  BY <1>1 DEF IInv, TypeOK
<1>3. LedgerOK'
  BY <1>1 DEF IInv, LedgerOK, CompletedArePaid, RefundFollowsDebit
<1> QED
  BY <1>2, <1>3 DEF IInv

LEMMA SameStraysBacked ==
    ASSUME IInv, Paid \subseteq Paid', stray' \subseteq stray
    PROVE  StraysBacked' /\ stray' \subseteq Tasks
  BY DEF IInv, LedgerOK, StraysBacked, TypeOK

LEMMA StartCallsKeepsIInv ==
    ASSUME IInv, NEW j \in Jobs, StartCalls(j)
    PROVE  IInv'
<1>1. /\ pc[j] = "callWallet" /\ UNCHANGED <<row, money, stray>>
      /\ loop' = [loop EXCEPT ![j] = "sent"]
      /\ attempt' = [attempt EXCEPT ![j] = 1]
      /\ Goto(j, "await")
  BY DEF StartCalls
<1>2. TypeOK /\ JobOK(j)
  BY DEF IInv
<1>3. /\ pc' \in [Jobs -> Steps] /\ task' \in [Jobs -> Tasks \cup {None}]
      /\ pc'[j] = "await" /\ task'[j] = task[j]
      /\ \A i \in Jobs \ {j} : pc'[i] = pc[i] /\ task'[i] = task[i]
  BY <1>1, <1>2, GotoMoves DEF Steps
<1>4. loop' \in [Jobs -> Loops] /\ attempt' \in [Jobs -> 0..MaxAttempts]
  BY <1>1, <1>2, MaxAttemptsAssumption DEF TypeOK, Loops, Calling
<1>5. loop'[j] = "sent" /\ OnlyMoves(j)
  BY <1>1, <1>2, <1>3 DEF TypeOK, OnlyMoves
<1>6. task[j] # None
  BY <1>1, BusyJobHasTask
<1>7. UNCHANGED <<claimed, debited, credited, stray>>
  BY <1>1 DEF money
<1>8. JobOK(j)'
  BY <1>1, <1>2, <1>3, <1>5, <1>6, <1>7
  DEF JobOK, StepMatchesTask, Backed, payment, IsRefund
<1>9. \A i \in Jobs : JobOK(i)'
  BY <1>5, <1>7, <1>8, OthersStayOK
<1> QED
  BY <1>1, <1>3, <1>4, <1>7, <1>9, SameStraysBacked, CallStepKeepsIInv

LEMMA RetryKeepsIInv ==
    ASSUME IInv, NEW j \in Jobs, Retry(j)
    PROVE  IInv'
<1>1. /\ TypeOK /\ JobOK(j) /\ loop[j] = "backoff" /\ attempt[j] < MaxAttempts
      /\ UNCHANGED <<row, debited, credited, task, pc, stray>>
      /\ loop' = [loop EXCEPT ![j] = "sent"]
      /\ attempt' = [attempt EXCEPT ![j] = attempt[j] + 1]
  BY DEF IInv, JobOK, StepMatchesTask, Retry, NextAttempt, money
<1>2. attempt[j] + 1 \in 0..MaxAttempts
  BY <1>1, MaxAttemptsAssumption DEF TypeOK
<1>3. /\ loop' \in [Jobs -> Loops] /\ attempt' \in [Jobs -> 0..MaxAttempts]
      /\ loop'[j] = "sent" /\ OnlyMoves(j)
  BY <1>1, <1>2 DEF TypeOK, Loops, Calling, OnlyMoves
<1>4. task[j] # None
  BY <1>1, BusyJobHasTask
<1>5. JobOK(j)'
  BY <1>1, <1>3, <1>4 DEF JobOK, StepMatchesTask, Backed, payment, IsRefund
<1>6. \A i \in Jobs : JobOK(i)'
  BY <1>1, <1>3, <1>5, OthersStayOK
<1> QED
  BY <1>1, <1>3, <1>6, SameStraysBacked, CallStepKeepsIInv DEF TypeOK, money

LEMMA SuccessStep ==
    ASSUME IInv, NEW j \in Jobs, loop[j] # "none", LoopEnds(j, AfterSuccess(j)),
           Paid \subseteq Paid', debited \subseteq debited', credited \subseteq credited',
           IsRefund(j) => payment(j) \in credited',
           ~IsRefund(j) => payment(j) \in debited'
    PROVE  /\ pc' \in [Jobs -> Steps] /\ task' \in [Jobs -> Tasks \cup {None}]
           /\ loop' \in [Jobs -> Loops] /\ attempt' \in [Jobs -> 0..MaxAttempts]
           /\ \A i \in Jobs : JobOK(i)'
<1>1. /\ AfterSuccess(j) \in {"markRefunded", "markCompleted"}
      /\ AfterSuccess(j) \in Steps
      /\ AfterSuccess(j) = "markCompleted" => ~IsRefund(j)
      /\ AfterSuccess(j) = "markRefunded" => IsRefund(j)
  BY DEF AfterSuccess, Steps
<1> QED
  BY <1>1, LoopEndKeepsJobs

\* A posting keeps what the statuses and the calls under way rely on.
LEMMA PostKeepsLedger ==
    ASSUME IInv, NEW t \in Tasks, Post(t.kind, t.payment), UNCHANGED row,
           t.kind = "refund" => t.payment \in Paid
    PROVE  /\ debited \subseteq debited' /\ credited \subseteq credited' /\ Paid \subseteq Paid'
           /\ debited' \subseteq Payments /\ credited' \subseteq Payments
           /\ t.kind = "refund" => t.payment \in credited'
           /\ t.kind = "process" => t.payment \in debited'
           /\ CompletedArePaid' /\ RefundFollowsDebit'
<1>1. /\ debited' = IF t.kind = "process" THEN debited \cup {t.payment} ELSE debited
      /\ credited' = IF t.kind = "refund" THEN credited \cup {t.payment} ELSE credited
  BY DEF Post
<1>2. debited \subseteq Payments /\ credited \subseteq Payments
  BY DEF IInv, TypeOK
<1>3. t.payment \in Payments /\ t.kind \in {"process", "refund"}
  BY TasksAreTyped
<1>4. /\ debited \subseteq debited' /\ credited \subseteq credited' /\ Paid \subseteq Paid'
      /\ debited' \subseteq Payments /\ credited' \subseteq Payments
      /\ t.kind = "refund" => t.payment \in credited'
      /\ t.kind = "process" => t.payment \in debited'
  BY <1>1, <1>2, <1>3
<1>5. CompletedArePaid'
  BY <1>4 DEF IInv, LedgerOK, CompletedArePaid
<1>6. RefundFollowsDebit'
  BY <1>1 DEF IInv, LedgerOK, RefundFollowsDebit
<1> QED
  BY <1>4, <1>5, <1>6

\* A call in flight is backed, for the wallet and as a stray.
LEMMA CallsAreBacked ==
    ASSUME IInv, NEW j \in Jobs, loop[j] # "none"
    PROVE  task[j].kind = "refund" => task[j].payment \in Paid
<1>1. task[j] # None
  BY BusyJobHasTask
<1> QED
  BY <1>1 DEF IInv, JobOK, Backed, StepMatchesTask, IsRefund, payment

\* The wallet decides: it posts, and answers accordingly or with an error.
LEMMA WalletKeepsIInv ==
    ASSUME IInv, NEW j \in Jobs, Wallet(j)
    PROVE  IInv'
<1>1. PICK answer \in {"accepted", "refused", "erred"} :
         /\ Decide(j, answer)
         /\ Post(task[j].kind, payment(j)) \/ (answer # "accepted" /\ UNCHANGED money)
  BY DEF Wallet, WalletAccepts, WalletRefuses, WalletErrs
<1>2. /\ loop[j] = "sent" /\ loop' = [loop EXCEPT ![j] = answer]
      /\ UNCHANGED <<row, task, pc, attempt, stray>>
  BY <1>1 DEF Decide
<1>3. task[j] \in Tasks /\ task[j] # None /\ task[j].kind \in {"process", "refund"}
  BY <1>2, BusyJobHasTask
<1>4. task[j].kind = "refund" => task[j].payment \in Paid
  BY <1>2, CallsAreBacked
<1>5. /\ debited \subseteq debited' /\ credited \subseteq credited' /\ Paid \subseteq Paid'
      /\ debited' \subseteq Payments /\ credited' \subseteq Payments
      /\ CompletedArePaid' /\ RefundFollowsDebit'
      /\ answer = "accepted" =>
            /\ task[j].kind = "refund" => task[j].payment \in credited'
            /\ task[j].kind = "process" => task[j].payment \in debited'
  <2>1. CASE Post(task[j].kind, payment(j))
    <3>1. Post(task[j].kind, task[j].payment)
      BY <2>1 DEF payment
    <3> QED
      BY <1>2, <1>3, <1>4, <3>1, PostKeepsLedger
  <2>2. CASE answer # "accepted" /\ UNCHANGED money
    BY <1>2, <2>2
    DEF money, IInv, TypeOK, LedgerOK, CompletedArePaid, RefundFollowsDebit
  <2> QED
    BY <1>1, <2>1, <2>2
<1>6. TypeOK /\ JobOK(j)
  BY DEF IInv
<1>7. loop' \in [Jobs -> Loops] /\ loop'[j] = answer /\ OnlyMoves(j)
  BY <1>2, <1>6 DEF TypeOK, Loops, Calling, OnlyMoves
<1>8. JobOK(j)'
  <2>1. StepMatchesTask(j)'
    BY <1>2, <1>3, <1>6, <1>7 DEF JobOK, StepMatchesTask, IsRefund
  <2>2. Backed(j)'
    BY <1>2, <1>3, <1>5, <1>6, <1>7 DEF JobOK, Backed, IsRefund, payment
  <2> QED
    BY <2>1, <2>2 DEF JobOK
<1>9. \A i \in Jobs : JobOK(i)'
  BY <1>5, <1>7, <1>8, OthersStayOK
<1>10. StraysBacked'
  BY <1>2, <1>5, SameStraysBacked
<1>11. TypeOK'
  BY <1>2, <1>5, <1>6, <1>7 DEF TypeOK
<1> QED
  BY <1>5, <1>9, <1>10, <1>11 DEF IInv, LedgerOK

\* The loop learns an answer, or gives up waiting.
LEMMA LoopKeepsIInv ==
    ASSUME IInv, NEW j \in Jobs, Answered(j) \/ HttpTimeout(j)
    PROVE  IInv'
<1>1. loop[j] # "none" /\ UNCHANGED <<row, money>>
  BY DEF Answered, HttpTimeout, Calling
<1>2. stray' \in {stray, stray \cup {task[j]}}
  BY DEF Answered, HttpTimeout
<1>3. UNCHANGED <<claimed, debited, credited>>
  BY <1>1 DEF money
<1>4. /\ pc' \in [Jobs -> Steps] /\ task' \in [Jobs -> Tasks \cup {None}]
      /\ loop' \in [Jobs -> Loops] /\ attempt' \in [Jobs -> 0..MaxAttempts]
      /\ \A i \in Jobs : JobOK(i)'
  <2>1. ASSUME NEW type \in {"NON_RETRYABLE", "UNKNOWN", "RETRYABLE"},
               AttemptFails(j, type)
        PROVE  <1>4
    BY <1>1, <1>3, <2>1, AttemptFailsKeepsJobs
  <2>2. CASE loop[j] = "accepted" /\ LoopEnds(j, AfterSuccess(j))
    <3>1. /\ IsRefund(j) => payment(j) \in credited'
          /\ ~IsRefund(j) => payment(j) \in debited'
      BY <1>3, <2>2 DEF IInv, JobOK, Backed
    <3> QED
      BY <1>1, <1>3, <2>2, <3>1, SuccessStep
  <2> QED
    BY <2>1, <2>2 DEF Answered, HttpTimeout
<1>5. task[j] \in Tasks /\ (task[j].kind = "refund" => task[j].payment \in Paid)
  BY <1>1, BusyJobHasTask, CallsAreBacked
<1>6. stray' \subseteq Tasks /\ StraysBacked'
  BY <1>2, <1>3, <1>5 DEF IInv, TypeOK, LedgerOK, StraysBacked
<1> QED
  BY <1>1, <1>4, <1>6, CallStepKeepsIInv

LEMMA StrayKeepsIInv ==
    ASSUME IInv, NEW t \in Tasks, StrayExecuted(t) \/ StrayLost(t)
    PROVE  IInv'
<1>1. /\ t \in stray /\ stray' \subseteq stray
      /\ UNCHANGED <<row, task, pc, loop, attempt>>
  BY DEF StrayExecuted, StrayLost
<1>2. t.kind = "refund" => t.payment \in Paid
  BY <1>1 DEF IInv, LedgerOK, StraysBacked
<1>3. /\ debited \subseteq debited' /\ credited \subseteq credited' /\ Paid \subseteq Paid'
      /\ debited' \subseteq Payments /\ credited' \subseteq Payments
      /\ CompletedArePaid' /\ RefundFollowsDebit'
  <2>1. CASE Post(t.kind, t.payment)
    BY <1>1, <1>2, <2>1, PostKeepsLedger
  <2>2. CASE UNCHANGED money
    BY <1>1, <2>2
    DEF money, IInv, TypeOK, LedgerOK, CompletedArePaid, RefundFollowsDebit
  <2> QED
    BY <2>1, <2>2 DEF StrayExecuted, StrayLost
<1>4. stray' \subseteq Tasks /\ StraysBacked'
  BY <1>1, <1>3, SameStraysBacked
<1>5. TypeOK'
  BY <1>1, <1>3, <1>4 DEF IInv, TypeOK
<1>6. \A i \in Jobs : JobOK(i)'
  BY <1>1, <1>3 DEF IInv, JobOK, StepMatchesTask, Backed, payment, IsRefund
<1> QED
  BY <1>3, <1>4, <1>5, <1>6 DEF IInv, LedgerOK

LEMMA PatchKeepsIInv ==
    ASSUME IInv, NEW p \in Payments, Patch(p)
    PROVE  IInv'
<1>1. PICK s \in Statuses :
         /\ status' = [status EXCEPT ![p] = s]
         /\ claimed' = IF s = "COMPLETED" /\ p \notin debited THEN claimed \cup {p} ELSE claimed
  BY DEF Patch
<1>2. UNCHANGED <<debited, credited, task, pc, loop, attempt, stray>>
  BY DEF Patch, money, calling
<1>3. Paid \subseteq Paid'
  BY <1>1, <1>2
<1>4. TypeOK'
  BY <1>1, <1>2 DEF IInv, TypeOK
<1>5. LedgerOK'
  <2>1. CompletedArePaid'
    BY <1>1, <1>2, <1>3 DEF IInv, TypeOK, LedgerOK, CompletedArePaid
  <2> QED
    BY <1>2, <1>3, <2>1 DEF IInv, LedgerOK, RefundFollowsDebit, StraysBacked
<1>6. \A j \in Jobs : JobOK(j)'
  BY <1>2, <1>3 DEF IInv, JobOK, StepMatchesTask, Backed, payment, IsRefund
<1> QED
  BY <1>4, <1>5, <1>6 DEF IInv

LEMMA CrashKeepsIInv ==
    ASSUME IInv, Crash
    PROVE  IInv'
<1>1. /\ task' = [j \in Jobs |-> None] /\ pc' = [j \in Jobs |-> "idle"]
      /\ loop' = [j \in Jobs |-> "none"] /\ attempt' = [j \in Jobs |-> 0]
      /\ UNCHANGED <<row, money>>
  BY DEF Crash
<1>2. UNCHANGED <<claimed, debited, credited>>
  BY <1>1 DEF money
<1>3. stray' \subseteq Tasks /\ StraysBacked'
  <2> SUFFICES ASSUME NEW t \in stray'
               PROVE  t \in Tasks /\ (t.kind = "refund" => t.payment \in Paid')
    BY DEF StraysBacked
  <2>1. CASE t \in stray
    BY <1>2, <2>1 DEF IInv, TypeOK, LedgerOK, StraysBacked
  <2>2. CASE t \notin stray
    <3>1. PICK j \in Jobs : loop[j] = "sent" /\ t = task[j]
      BY <2>2 DEF Crash
    <3> QED
      BY <1>2, <3>1, BusyJobHasTask, CallsAreBacked
  <2> QED
    BY <2>1, <2>2
<1>4. /\ pc' \in [Jobs -> Steps] /\ task' \in [Jobs -> Tasks \cup {None}]
      /\ loop' \in [Jobs -> Loops] /\ attempt' \in [Jobs -> 0..MaxAttempts]
  BY <1>1, MaxAttemptsAssumption DEF Steps, Loops, Calling
<1>5. \A i \in Jobs : JobOK(i)'
  BY <1>1 DEF JobOK, StepMatchesTask, Backed
<1> QED
  BY <1>1, <1>3, <1>4, <1>5, CallStepKeepsIInv

LEMMA HandleKeepsIInv ==
    ASSUME IInv, NEW j \in Jobs, Handle(j)
    PROVE  IInv'
<1>1. CASE GetPayment(j) \/ GetPaymentFails(j)
  BY <1>1, GetPaymentKeepsIInv
<1>2. CASE MarkProcessing(j)
  BY <1>2, MarkKeepsIInv DEF MarkProcessing, Steps, Statuses
<1>3. CASE MarkCompleted(j)
  BY <1>3, MarkKeepsIInv DEF MarkCompleted, Steps, Statuses
<1>4. CASE MarkFailed(j)
  BY <1>4, MarkKeepsIInv DEF MarkFailed, Steps, Statuses
<1>5. CASE MarkRefunded(j)
  BY <1>5, MarkKeepsIInv DEF MarkRefunded, Steps, Statuses
<1>6. CASE StartCalls(j)
  BY <1>6, StartCallsKeepsIInv
<1>7. CASE CircuitRefuses(j) \/ BreakerTimeout(j)
  BY <1>7, CircuitKeepsIInv
<1> QED
  BY <1>1, <1>2, <1>3, <1>4, <1>5, <1>6, <1>7 DEF Handle

LEMMA NextKeepsIInv == IInv /\ [Next]_vars => IInv'
<1> SUFFICES ASSUME IInv, [Next]_vars PROVE IInv'
  OBVIOUS
<1>1. ASSUME NEW j \in Jobs,
             \/ Receive(j) \/ Handle(j) \/ Retry(j)
             \/ Wallet(j) \/ Answered(j) \/ HttpTimeout(j)
      PROVE  IInv'
  BY <1>1, ReceiveKeepsIInv, HandleKeepsIInv, RetryKeepsIInv,
     WalletKeepsIInv, LoopKeepsIInv
<1>2. ASSUME NEW t \in Tasks, StrayExecuted(t) \/ StrayLost(t)
      PROVE  IInv'
  BY <1>2, StrayKeepsIInv
<1>3. CASE Crash
  BY <1>3, CrashKeepsIInv
<1>4. ASSUME NEW p \in Payments, Patch(p)
      PROVE  IInv'
  BY <1>4, PatchKeepsIInv
<1>5. CASE UNCHANGED vars
  BY <1>5
  DEF vars, IInv, TypeOK, LedgerOK, CompletedArePaid, RefundFollowsDebit,
      StraysBacked, JobOK, StepMatchesTask, Backed, payment, IsRefund
<1> QED
  BY <1>1, <1>2, <1>3, <1>4, <1>5 DEF Next

LEMMA Invariance == Spec => []IInv
  BY InitIInv, NextKeepsIInv, PTL DEF Spec

-----------------------------------------------------------------------------
\* Variables stay in their domains, for any number of payments, concurrent
\* requests and attempts; a retry loop never exceeds maxRetryAttempts.
THEOREM TypeCorrect == Spec => []TypeOK
<1>1. IInv => TypeOK
  BY DEF IInv
<1> QED
  BY <1>1, Invariance, PTL

\* What StatusBackedByLedger says of a step.
BackedStep ==
    \A p \in Payments : status'[p] # status[p] /\ ~Patch(p) =>
        /\ status'[p] = "COMPLETED" => p \in debited
        /\ status'[p] = "REFUNDED" => p \in credited

LEMMA MarkIsBacked ==
    ASSUME IInv, NEW j \in Jobs, NEW from, NEW new, NEW next, Mark(j, from, new, next),
           new = "COMPLETED" => from = "markCompleted",
           new = "REFUNDED" => from = "markRefunded"
    PROVE  BackedStep
<1>1. pc[j] = from /\ JobOK(j) /\ TypeOK
  BY DEF Mark, IInv
<1>2. status' = [status EXCEPT ![payment(j)] = new] \/ status' = status
  BY DEF Mark
<1>3. /\ new = "COMPLETED" => payment(j) \in debited
      /\ new = "REFUNDED" => payment(j) \in credited
  BY <1>1 DEF JobOK, Backed
<1> QED
  BY <1>1, <1>2, <1>3 DEF BackedStep, TypeOK

LEMMA StepsAreBacked == IInv /\ [Next]_vars => BackedStep
<1> SUFFICES ASSUME IInv, [Next]_vars PROVE BackedStep
  OBVIOUS
<1>1. CASE status' = status
  BY <1>1 DEF BackedStep
<1>2. ASSUME NEW p \in Payments, Patch(p)
      PROVE  BackedStep
  BY <1>2 DEF Patch, BackedStep, IInv, TypeOK
<1>3. ASSUME NEW j \in Jobs,
             MarkProcessing(j) \/ MarkCompleted(j) \/ MarkFailed(j) \/ MarkRefunded(j)
      PROVE  BackedStep
  <2>1. CASE MarkProcessing(j)
    BY <2>1, MarkIsBacked DEF MarkProcessing
  <2>2. CASE MarkCompleted(j)
    BY <2>2, MarkIsBacked DEF MarkCompleted
  <2>3. CASE MarkFailed(j)
    BY <2>3, MarkIsBacked DEF MarkFailed
  <2>4. CASE MarkRefunded(j)
    BY <2>4, MarkIsBacked DEF MarkRefunded
  <2> QED
    BY <1>3, <2>1, <2>2, <2>3, <2>4
<1>4. ASSUME NEW j \in Jobs, Handle(j)
      PROVE  BackedStep
  BY <1>1, <1>3, <1>4
  DEF Handle, GetPayment, GetPaymentFails, StartCalls, CircuitRefuses, BreakerTimeout
<1>5. ASSUME NEW j \in Jobs,
             Receive(j) \/ Retry(j) \/ Wallet(j) \/ Answered(j) \/ HttpTimeout(j)
      PROVE  BackedStep
  BY <1>1, <1>5
  DEF Receive, Retry, Wallet, Decide, WalletAccepts, WalletRefuses, WalletErrs,
      Answered, HttpTimeout
<1>6. ASSUME NEW t \in Tasks, StrayExecuted(t) \/ StrayLost(t)
      PROVE  BackedStep
  BY <1>1, <1>6 DEF StrayExecuted, StrayLost
<1>7. CASE Crash \/ UNCHANGED vars
  BY <1>1, <1>7 DEF Crash, vars
<1> QED
  BY <1>2, <1>4, <1>5, <1>6, <1>7 DEF Next

\* Only a PATCH shows a payment as COMPLETED without its debit in the ledger,
\* or as REFUNDED without its credit: no timeout, retry, crash or late answer
\* makes the handlers do so.
THEOREM StatusesAreBacked == Spec => StatusBackedByLedger
<1>1. IInv /\ [Next]_vars => [BackedStep]_vars
  BY StepsAreBacked
<1>2. Spec => [][BackedStep]_vars
  BY <1>1, Invariance, PTL DEF Spec
<1> QED
  BY <1>2 DEF StatusBackedByLedger, BackedStep

\* No refund is ever credited without the debit it gives back, also by calls
\* that arrive after their request ended, but for payments that a PATCH made
\* COMPLETED before they were debited.
THEOREM RefundsAreBacked == Spec => []RefundFollowsDebit
<1>1. IInv => RefundFollowsDebit
  BY DEF IInv, LedgerOK
<1> QED
  BY <1>1, Invariance, PTL
=============================================================================
