------------------------ MODULE PaymentSystemProofs ------------------------
(***************************************************************************)
(* Proofs about the composed system, for every number of payments,         *)
(* requests, wallets and calls: its types, that nothing but a PATCH makes  *)
(* a status or a refund run ahead of the ledger, that money is conserved   *)
(* over its wallets, and that the payment service with its calls to the wallet      *)
(* service implements PaymentProcessor.                                    *)
(***************************************************************************)
EXTENDS MCPaymentSystem, SumTheorems, TLAPS

-----------------------------------------------------------------------------
\* The inductive invariant.

Entry == [wallet : Wallets, amount : Int, after : Int]
Codes == {"NONE", "WAITING", "OK", "DUPLICATE", "INTERNAL_ERROR"} \cup Ledger!Refusals

WalletTypes ==
    /\ account \in [Wallets -> [balance : Nat, status : {"ACTIVE"}]]
    /\ ledger \in [Ledger!EntryKeys -> Entry \cup {None}]
    /\ req \in [Calls -> Ledger!Posts \cup {None}]
    /\ reply \in [Calls -> Codes]

ServiceTypes ==
    /\ task \in [Jobs -> Tasks \cup {None}]
    /\ loop \in [Jobs -> {"none", "waiting", "backoff"}]
    /\ from \in [Jobs -> Wallets \cup {None}]
    /\ call \in [Jobs -> Calls \cup {None}]

\* A loop waits for one call of its own, which carries the request of its job
\* until it is decided; a loop that works has a task.
CallsOK ==
    /\ \A j \in Jobs : loop[j] = "waiting" <=> call[j] # None
    /\ \A i, j \in Jobs : i # j /\ call[i] # None => call[i] # call[j]
    /\ \A j \in Jobs : call[j] # None /\ req[call[j]] # None => req[call[j]] = Request(j)
    /\ \A j \in Jobs : task[j] = None => loop[j] = "none"

IInv == WalletTypes /\ ServiceTypes /\ CallsOK

-----------------------------------------------------------------------------
LEMMA PostsAreTyped ==
    ASSUME NEW q \in Ledger!Posts
    PROVE  /\ q # None
           /\ q.wallet \in Wallets /\ q.key \in Tasks /\ q.key \in Ledger!EntryKeys
           /\ q.amount = Price
           /\ q.key.kind \in {"process", "refund"} /\ q.key.payment \in Payments
           /\ Ledger!Delta(q) \in Int
  BY NoneAssumption, PriceAssumption DEF Ledger!Posts, Ledger!EntryKeys, Ledger!Delta, Tasks

\* What deciding a call does to the call, and what it posts.
LEMMA AnswerDecides ==
    ASSUME WalletTypes, NEW c \in Calls, NEW code \in Codes, Ledger!Answer(c, code)
    PROVE  /\ req' \in [Calls -> Ledger!Posts \cup {None}] /\ req'[c] = None
           /\ reply' \in [Calls -> Codes] /\ reply'[c] = code
           /\ \A d \in Calls \ {c} : req'[d] = req[d] /\ reply'[d] = reply[d]
  BY DEF WalletTypes, Ledger!Answer

LEMMA ApplyPosts ==
    ASSUME WalletTypes, NEW c \in Calls, Ledger!Apply(c)
    PROVE  /\ \E code \in {"OK", "INTERNAL_ERROR"} : Ledger!Answer(c, code)
           /\ WalletTypes'
           /\ Posted("process")' = IF req[c].key.kind = "process"
                                   THEN Posted("process") \cup {req[c].key.payment}
                                   ELSE Posted("process")
           /\ Posted("refund")' = IF req[c].key.kind = "refund"
                                  THEN Posted("refund") \cup {req[c].key.payment}
                                  ELSE Posted("refund")
<1> DEFINE q == req[c]
           e == [wallet |-> q.wallet, amount |-> Ledger!Delta(q),
                 after |-> account[q.wallet].balance + Ledger!Delta(q)]
<1>1. q \in Ledger!Posts
  BY DEF Ledger!Apply
<1>2. /\ q.wallet \in Wallets /\ q.key \in Tasks /\ q.key \in Ledger!EntryKeys
      /\ q.key.kind \in {"process", "refund"} /\ q.key.payment \in Payments
      /\ Ledger!Delta(q) \in Int
  BY <1>1, PostsAreTyped
<1>3. PICK code \in {"OK", "INTERNAL_ERROR"} : Ledger!Answer(c, code)
  BY DEF Ledger!Apply
<1>4. account[q.wallet] \in [balance : Nat, status : {"ACTIVE"}]
  BY <1>2 DEF WalletTypes
<1>5. account[q.wallet].balance + Ledger!Delta(q) \in Nat
  BY <1>2, <1>4 DEF Ledger!Apply
<1>6. e \in Entry /\ e # None
  BY <1>2, <1>5, NoneAssumption DEF Entry
<1>7. ledger' = [ledger EXCEPT ![q.key] = e]
  BY DEF Ledger!Apply
<1>8. ledger' \in [Ledger!EntryKeys -> Entry \cup {None}]
      /\ ledger'[q.key] # None
      /\ \A k \in Ledger!EntryKeys \ {q.key} : ledger'[k] = ledger[k]
  BY <1>2, <1>6, <1>7 DEF WalletTypes
<1>9. account' \in [Wallets -> [balance : Nat, status : {"ACTIVE"}]]
  BY <1>2, <1>4, <1>5 DEF WalletTypes, Ledger!Apply
<1>10. WalletTypes'
  BY <1>3, <1>8, <1>9, AnswerDecides DEF WalletTypes, Codes
<1>11. ASSUME NEW kind \in {"process", "refund"}
       PROVE  {p \in Payments : ledger'[[kind |-> kind, payment |-> p]] # None} =
                  IF q.key.kind = kind THEN Posted(kind) \cup {q.key.payment} ELSE Posted(kind)
  <2>1. \A p \in Payments : [kind |-> kind, payment |-> p] \in Ledger!EntryKeys
    BY DEF Ledger!EntryKeys, Tasks
  <2>2. \A p \in Payments : [kind |-> kind, payment |-> p] = q.key
                            <=> q.key.kind = kind /\ q.key.payment = p
    BY <1>2 DEF Tasks
  <2> QED
    BY <1>2, <1>8, <2>1, <2>2 DEF Posted
<1>12. Posted("process")' = IF q.key.kind = "process"
                            THEN Posted("process") \cup {q.key.payment} ELSE Posted("process")
  BY <1>11 DEF Posted
<1>13. Posted("refund")' = IF q.key.kind = "refund"
                           THEN Posted("refund") \cup {q.key.payment} ELSE Posted("refund")
  BY <1>11 DEF Posted
<1> QED
  BY <1>3, <1>10, <1>12, <1>13

\* Any other decision leaves balances and ledger alone.
LEMMA OtherDecisions ==
    ASSUME WalletTypes, NEW c \in Calls,
           Ledger!Replay(c) \/ Ledger!Refuse(c) \/ Ledger!Fail(c)
    PROVE  /\ \E code \in Codes :
                  /\ Ledger!Answer(c, code)
                  /\ code \notin {"OK", "NONE", "WAITING"}
                  /\ code = "DUPLICATE" => ledger[req[c].key] # None
           /\ req[c] # None
           /\ WalletTypes'
           /\ Posted("process")' = Posted("process") /\ Posted("refund")' = Posted("refund")
<1>1. req[c] # None /\ UNCHANGED <<account, ledger>>
  BY PostsAreTyped DEF Ledger!Replay, Ledger!Refuse, Ledger!Fail
<1>2. PICK code \in Codes :
          /\ Ledger!Answer(c, code)
          /\ code \notin {"OK", "NONE", "WAITING"}
          /\ code = "DUPLICATE" => ledger[req[c].key] # None
  BY DEF Ledger!Replay, Ledger!Refuse, Ledger!Fail, Codes, Ledger!Refusals
<1>3. WalletTypes'
  BY <1>1, <1>2, AnswerDecides DEF WalletTypes
<1> QED
  BY <1>1, <1>2, <1>3 DEF Posted

-----------------------------------------------------------------------------
LEMMA InitIInv == Init => IInv
<1> SUFFICES ASSUME Init PROVE IInv
  OBVIOUS
<1>1. PICK funds \in [Wallets -> Balances] :
          /\ account = [w \in Wallets |-> [balance |-> funds[w], status |-> "ACTIVE"]]
          /\ ledger = [k \in Ledger!EntryKeys |->
                 IF k \in Wallets /\ funds[k] > 0
                 THEN [wallet |-> k, amount |-> funds[k], after |-> funds[k]]
                 ELSE None]
  BY DEF Init
<1>2. \A w \in Wallets : funds[w] \in Nat
  BY PriceAssumption
<1>3. account \in [Wallets -> [balance : Nat, status : {"ACTIVE"}]]
  BY <1>1, <1>2
<1>4. ledger \in [Ledger!EntryKeys -> Entry \cup {None}]
  <2>1. \A k \in Wallets : [wallet |-> k, amount |-> funds[k], after |-> funds[k]] \in Entry
    BY <1>2 DEF Entry
  <2> QED
    BY <1>1, <2>1
<1>5. WalletTypes
  BY <1>3, <1>4 DEF Init, WalletTypes, Codes
<1>6. ServiceTypes /\ CallsOK
  BY DEF Init, ServiceTypes, CallsOK
<1> QED
  BY <1>5, <1>6 DEF IInv

LEMMA InitRefines == Init => Processor!Init
<1> SUFFICES ASSUME Init PROVE Processor!Init
  OBVIOUS
<1>1. ASSUME NEW kind \in {"process", "refund"}
      PROVE  Posted(kind) = {}
  <2>1. \A p \in Payments : /\ [kind |-> kind, payment |-> p] \in Ledger!EntryKeys
                           /\ [kind |-> kind, payment |-> p] \notin Wallets
    BY KeysAssumption DEF Ledger!EntryKeys, Tasks
  <2>2. \A p \in Payments : ledger[[kind |-> kind, payment |-> p]] = None
    BY <2>1 DEF Init
  <2> QED
    BY <2>2 DEF Posted
<1>2. Strays = {}
  BY DEF Init, Strays
<1>3. loopOf = [j \in Jobs |-> "none"]
  BY DEF Init, loopOf
<1> QED
  BY <1>1, <1>2, <1>3 DEF Init, Processor!Init

-----------------------------------------------------------------------------
\* The steps of the payment service: the invariant.

LEMMA ReceiveStep ==
    ASSUME IInv, NEW j \in Jobs, Receive(j)
    PROVE  IInv'
<1>1. UNCHANGED <<wallet, loop, call>> /\ task[j] = None
  BY DEF Receive, Processor!Receive
<1>2. PICK t \in Tasks : task' = [task EXCEPT ![j] = t]
  BY DEF Receive, Processor!Receive, Processor!Tasks, Processor!Kinds, Tasks
<1>3. WalletTypes' /\ ServiceTypes'
  BY <1>1, <1>2 DEF IInv, WalletTypes, ServiceTypes, wallet, Receive
<1>4. call[j] = None
  BY <1>1 DEF IInv, CallsOK
<1>5. CallsOK'
  <2>1. \A i \in Jobs \ {j} : task'[i] = task[i]
    BY <1>2 DEF IInv, ServiceTypes
  <2>2. task'[j] = t /\ t # None
    BY <1>2, NoneAssumption DEF IInv, ServiceTypes
  <2>3. \A i \in Jobs \ {j} : Request(i)' = Request(i)
    BY <2>1 DEF Request, Key, Op, Receive, IInv, ServiceTypes
  <2> QED
    BY <1>1, <1>4, <2>1, <2>2, <2>3 DEF IInv, CallsOK, wallet
<1> QED
  BY <1>3, <1>5 DEF IInv

\* A handler never loses the task of a loop that works.
LEMMA GotoKeepsTask ==
    ASSUME ServiceTypes, NEW j \in Jobs, NEW step, Processor!Goto(j, step)
    PROVE  /\ task' \in [Jobs -> Tasks \cup {None}]
           /\ \A i \in Jobs : task'[i] = task[i] \/ (task'[i] = None /\ loopOf'[i] = "none")
  BY DEF ServiceTypes, Processor!Goto

LEMMA HandleGoes ==
    ASSUME NEW j \in Jobs,
           \/ Processor!GetPayment(j) \/ Processor!GetPaymentFails(j)
           \/ Processor!MarkProcessing(j) \/ Processor!MarkCompleted(j)
           \/ Processor!MarkFailed(j) \/ Processor!MarkRefunded(j)
           \/ Processor!CircuitRefuses(j) \/ Processor!BreakerTimeout(j)
    PROVE  \E step : Processor!Goto(j, step)
  BY DEF Processor!GetPayment, Processor!GetPaymentFails, Processor!Mark,
         Processor!MarkProcessing, Processor!MarkCompleted, Processor!MarkFailed,
         Processor!MarkRefunded, Processor!CircuitRefuses, Processor!BreakerTimeout

\* What a loop that the calls leave alone shows of itself.
LEMMA IdleLoops ==
    ASSUME NEW j \in Jobs, loopOf[j] = "none"
    PROVE  loop[j] = "none"
  BY DEF loopOf, Outcome

LEMMA HandleStep ==
    ASSUME IInv, NEW j \in Jobs, Handle(j)
    PROVE  IInv'
<1>1. UNCHANGED <<wallet, loop, call>>
  BY DEF Handle
<1>2. PICK step : Processor!Goto(j, step)
  BY HandleGoes DEF Handle
<1>3. /\ task' \in [Jobs -> Tasks \cup {None}]
      /\ \A i \in Jobs : task'[i] = task[i] \/ (task'[i] = None /\ loopOf'[i] = "none")
  BY <1>2, GotoKeepsTask DEF IInv
<1>4. loopOf' = loopOf
  BY <1>1 DEF loopOf, wallet
<1>5. \A i \in Jobs : task'[i] # task[i] => task'[i] = None /\ loop[i] = "none"
  BY <1>3, <1>4, IdleLoops
<1>6. from' \in [Jobs -> Wallets \cup {None}]
  BY DEF IInv, ServiceTypes, Handle, Forget
<1>7. WalletTypes' /\ ServiceTypes'
  BY <1>1, <1>3, <1>6 DEF IInv, WalletTypes, ServiceTypes, wallet
<1>8. CallsOK'
  <2>1. \A i \in Jobs : task'[i] # None => Request(i)' = Request(i)
    BY <1>5 DEF Request, Key, Op, Handle, Forget
  <2>2. \A i \in Jobs : call[i] # None => task[i] # None /\ task'[i] = task[i]
    BY <1>5 DEF IInv, CallsOK
  <2>3. \A i \in Jobs : call'[i] # None /\ req'[call'[i]] # None
                            => req'[call'[i]] = Request(i)'
    BY <1>1, <2>1, <2>2 DEF IInv, CallsOK, wallet
  <2> QED
    BY <1>1, <1>5, <2>3 DEF IInv, CallsOK, wallet
<1> QED
  BY <1>7, <1>8 DEF IInv

LEMMA SendStep ==
    ASSUME IInv, NEW j \in Jobs, Send(j), loop[j] # "waiting",
           task' = task
    PROVE  IInv'
<1>1. PICK c \in Calls \ Owned :
          /\ req' = [req EXCEPT ![c] = Request(j)]
          /\ Ledger!Submit(c)
          /\ call' = [call EXCEPT ![j] = c]
  BY DEF Send
<1>2. task[j] # None /\ UNCHANGED from /\ loop' = [loop EXCEPT ![j] = "waiting"]
  BY DEF Send
<1>3. Request(j) \in Ledger!Posts \cup Ledger!Openings /\ Request(j).key = task[j]
  <2>1. PICK q \in Ledger!Posts \cup Ledger!Openings : req' = [req EXCEPT ![c] = q]
    BY <1>1 DEF Ledger!Submit
  <2>2. req'[c] = Request(j) /\ req'[c] = q
    BY <1>1, <2>1 DEF IInv, WalletTypes
  <2> QED
    BY <2>2 DEF Request, Key
<1>4. Request(j) \in Ledger!Posts
  BY <1>3 DEF Ledger!Openings, Request, Op
<1>5. /\ req' \in [Calls -> Ledger!Posts \cup {None}]
      /\ req'[c] = Request(j)
      /\ \A d \in Calls \ {c} : req'[d] = req[d]
  BY <1>1, <1>4 DEF IInv, WalletTypes
<1>6. WalletTypes'
  BY <1>1, <1>5 DEF IInv, WalletTypes, Ledger!Submit, Codes
<1>7. ServiceTypes'
  BY <1>1, <1>2 DEF IInv, ServiceTypes
<1>8. /\ call'[j] = c /\ loop'[j] = "waiting" /\ c # None
      /\ \A i \in Jobs \ {j} : call'[i] = call[i] /\ loop'[i] = loop[i] /\ call[i] # c
  BY <1>1, <1>2, NoneAssumption DEF IInv, ServiceTypes, Owned
<1>9. CallsOK'
  <2>1. \A i \in Jobs : loop'[i] = "waiting" <=> call'[i] # None
    BY <1>8 DEF IInv, CallsOK
  <2>2. \A i, k \in Jobs : i # k /\ call'[i] # None => call'[i] # call'[k]
    BY <1>8 DEF IInv, CallsOK
  <2>3. \A i \in Jobs : call'[i] # None /\ req'[call'[i]] # None
                            => req'[call'[i]] = Request(i)'
    <3>1. \A i \in Jobs : Request(i)' = Request(i)
      BY <1>2 DEF Request, Key, Op
    <3> QED
      BY <1>5, <1>8, <3>1 DEF IInv, CallsOK, ServiceTypes
  <2>4. \A i \in Jobs : task'[i] = None => loop'[i] = "none"
    BY <1>2, <1>8 DEF IInv, CallsOK
  <2> QED
    BY <2>1, <2>2, <2>3, <2>4 DEF CallsOK
<1> QED
  BY <1>6, <1>7, <1>9 DEF IInv

LEMMA StartCallsStep ==
    ASSUME IInv, NEW j \in Jobs, StartCalls(j) \/ Retry(j)
    PROVE  IInv'
<1>1. Send(j)
  BY DEF StartCalls, Retry
<1>2. loop[j] # "waiting"
  <2>1. loopOf[j] \in {"none", "backoff"}
    BY DEF StartCalls, Retry, Processor!StartCalls, Processor!Retry
  <2> QED
    BY <2>1 DEF loopOf, Outcome
<1>3. task' = task
  BY DEF StartCalls, Retry, Processor!StartCalls, Processor!Retry, Processor!Goto,
         IInv, ServiceTypes
<1> QED
  BY <1>1, <1>2, <1>3, SendStep

LEMMA HangsStep ==
    ASSUME IInv, NEW j \in Jobs, Hangs(j)
    PROVE  IInv'
<1>1. UNCHANGED wallet /\ call' = [call EXCEPT ![j] = None]
  BY DEF Hangs
<1>2. PICK next \in {"none", "backoff"} : loop' = [loop EXCEPT ![j] = next]
  BY DEF Hangs
<1>3. task' = task \/ \E step : Processor!Goto(j, step)
  BY DEF Hangs, Processor!Answered, Processor!HttpTimeout, Processor!AttemptFails,
         Processor!LoopEnds
<1>4. /\ task' \in [Jobs -> Tasks \cup {None}]
      /\ \A i \in Jobs : task'[i] = task[i] \/ (task'[i] = None /\ loopOf'[i] = "none")
  BY <1>3, GotoKeepsTask DEF IInv, ServiceTypes
<1>5. \A i \in Jobs : loopOf'[i] = "none" => loop'[i] = "none"
  BY DEF loopOf, Outcome
<1>6. from' \in [Jobs -> Wallets \cup {None}]
  BY DEF IInv, ServiceTypes, Hangs, Forget
<1>7. WalletTypes' /\ ServiceTypes'
  BY <1>1, <1>2, <1>4, <1>6 DEF IInv, WalletTypes, ServiceTypes, wallet
<1>8. /\ call'[j] = None /\ loop'[j] \in {"none", "backoff"}
      /\ \A i \in Jobs \ {j} : call'[i] = call[i] /\ loop'[i] = loop[i]
  BY <1>1, <1>2 DEF IInv, ServiceTypes
<1>9. loop[j] = "waiting"
  BY DEF Hangs
<1>10. CallsOK'
  <2>1. \A i \in Jobs : loop'[i] = "waiting" <=> call'[i] # None
    BY <1>8 DEF IInv, CallsOK
  <2>2. \A i, k \in Jobs : i # k /\ call'[i] # None => call'[i] # call'[k]
    BY <1>8 DEF IInv, CallsOK
  <2>3. \A i \in Jobs : call'[i] # None => task'[i] = task[i]
    BY <1>4, <1>5, <2>1
  <2>4. \A i \in Jobs : call'[i] # None /\ req'[call'[i]] # None
                            => req'[call'[i]] = Request(i)'
    <3>1. \A i \in Jobs : call'[i] # None => call[i] # None /\ task[i] # None
      BY <1>8 DEF IInv, CallsOK
    <3>2. \A i \in Jobs : call'[i] # None => Request(i)' = Request(i)
      BY <2>3, <3>1 DEF Request, Key, Op, Hangs, Forget
    <3> QED
      BY <1>1, <1>8, <3>1, <3>2 DEF IInv, CallsOK, wallet
  <2>5. \A i \in Jobs : task'[i] = None => loop'[i] = "none"
    BY <1>4, <1>5, <1>8, <1>9 DEF IInv, CallsOK
  <2> QED
    BY <2>1, <2>2, <2>4, <2>5 DEF CallsOK
<1> QED
  BY <1>7, <1>10 DEF IInv

LEMMA CrashStep ==
    ASSUME IInv, Crash
    PROVE  IInv'
<1>1. /\ UNCHANGED wallet
      /\ loop' = [j \in Jobs |-> "none"]
      /\ call' = [j \in Jobs |-> None]
      /\ task' = [j \in Jobs |-> None]
  BY DEF Crash, Processor!Crash
<1>2. from' \in [Jobs -> Wallets \cup {None}]
  BY DEF IInv, ServiceTypes, Crash, Forget
<1>3. WalletTypes' /\ ServiceTypes'
  BY <1>1, <1>2 DEF IInv, WalletTypes, ServiceTypes, wallet
<1>4. CallsOK'
  BY <1>1 DEF CallsOK
<1> QED
  BY <1>3, <1>4 DEF IInv

LEMMA QuietStep ==
    ASSUME IInv, UNCHANGED <<wallet, task, loop, call, from>>
    PROVE  IInv'
  BY DEF IInv, WalletTypes, ServiceTypes, CallsOK, wallet, Request, Key, Op

-----------------------------------------------------------------------------
\* A decision of the wallet service.

LEMMA DecideStep ==
    ASSUME IInv, NEW c \in Calls, Decide(c)
    PROVE  /\ IInv'
           /\ \E code \in Codes : Ledger!Answer(c, code)
           /\ req[c] \in Ledger!Posts
<1>1. UNCHANGED service
  BY DEF Decide
<1>2. /\ WalletTypes' /\ req[c] # None
      /\ \E code \in Codes : Ledger!Answer(c, code)
  <2>1. CASE Ledger!Apply(c)
    <3>1. req[c] # None
      BY <2>1, PostsAreTyped DEF Ledger!Apply
    <3> QED
      BY <2>1, <3>1, ApplyPosts DEF IInv, Codes
  <2>2. CASE Ledger!Replay(c) \/ Ledger!Refuse(c) \/ Ledger!Fail(c)
    BY <2>2, OtherDecisions DEF IInv
  <2> QED
    BY <2>1, <2>2 DEF Decide
<1>3. req[c] \in Ledger!Posts
  BY <1>2 DEF IInv, WalletTypes
<1>4. req'[c] = None /\ \A d \in Calls \ {c} : req'[d] = req[d]
  BY <1>2, AnswerDecides DEF IInv
<1>5. CallsOK'
  BY <1>1, <1>4 DEF IInv, CallsOK, ServiceTypes, service, Request, Key, Op
<1> QED
  BY <1>1, <1>2, <1>3, <1>5 DEF IInv, ServiceTypes, service

\* Who waits for the call learns what its code stands for; nobody else learns
\* anything.
LEMMA OwnerLearns ==
    ASSUME IInv, NEW c \in Calls, NEW code \in Codes, Ledger!Answer(c, code),
           UNCHANGED service, req[c] # None, NEW j \in Jobs, call[j] = c
    PROVE  /\ loopOf[j] = "sent"
           /\ loopOf' = [loopOf EXCEPT ![j] = Outcome(code)]
           /\ Strays' = Strays
           /\ task[j] = req[c].key
<1>1. /\ req'[c] = None /\ reply'[c] = code
      /\ \A d \in Calls \ {c} : req'[d] = req[d] /\ reply'[d] = reply[d]
  BY AnswerDecides DEF IInv
<1>2. loop[j] = "waiting" /\ task[j] = req[c].key
  <2>1. loop[j] = "waiting" /\ req[c] = Request(j)
    BY NoneAssumption DEF IInv, CallsOK
  <2> QED
    BY <2>1 DEF Request, Key
<1>3. loop' = loop /\ call' = call
  BY DEF service
<1>4. \A i \in Jobs \ {j} : call[i] # c
  BY NoneAssumption DEF IInv, CallsOK
<1>5. loopOf[j] = "sent" /\ loopOf'[j] = Outcome(code)
  BY <1>1, <1>2, <1>3 DEF loopOf
<1>6. ASSUME NEW i \in Jobs \ {j} PROVE loopOf'[i] = loopOf[i]
  <2>1. CASE loop[i] # "waiting"
    BY <1>3, <2>1 DEF loopOf
  <2>2. CASE loop[i] = "waiting"
    <3>1. call[i] \in Calls \ {c}
      BY <1>4, <2>2 DEF IInv, CallsOK, ServiceTypes
    <3> QED
      BY <1>1, <1>3, <2>2, <3>1 DEF loopOf
  <2> QED
    BY <2>1, <2>2
<1>7. loopOf' = [loopOf EXCEPT ![j] = Outcome(code)]
  <2>1. loopOf = [i \in Jobs |-> loopOf[i]] /\ loopOf' = [i \in Jobs |-> loopOf'[i]]
    BY DEF loopOf
  <2> QED
    BY <1>5, <1>6, <2>1
<1>8. Strays' = Strays
  <2>1. Owned' = Owned /\ c \in Owned
    BY <1>3 DEF Owned
  <2> QED
    BY <1>1, <2>1 DEF Strays
<1> QED
  BY <1>2, <1>5, <1>7, <1>8

LEMMA StrayDecided ==
    ASSUME IInv, NEW c \in Calls, NEW code \in Codes, Ledger!Answer(c, code),
           UNCHANGED service, req[c] # None, c \notin Owned
    PROVE  /\ loopOf' = loopOf
           /\ req[c].key \in Strays
           /\ Strays' \in {Strays, Strays \ {req[c].key}}
<1>1. /\ req'[c] = None
      /\ \A d \in Calls \ {c} : req'[d] = req[d] /\ reply'[d] = reply[d]
  BY AnswerDecides DEF IInv
<1>2. loop' = loop /\ call' = call
  BY DEF service
<1>3. ASSUME NEW i \in Jobs, loop[i] = "waiting" PROVE call[i] \in Calls \ {c}
  BY <1>3 DEF IInv, CallsOK, ServiceTypes, Owned
<1>4. \A i \in Jobs : loopOf'[i] = loopOf[i]
  BY <1>1, <1>2, <1>3 DEF loopOf
<1>5. loopOf' = loopOf
  <2>1. loopOf = [i \in Jobs |-> loopOf[i]] /\ loopOf' = [i \in Jobs |-> loopOf'[i]]
    BY DEF loopOf
  <2> QED
    BY <1>4, <2>1
<1>6. Owned' = Owned
  BY <1>2 DEF Owned
<1> DEFINE Others == {req[d].key : d \in {e \in (Calls \ Owned) \ {c} : req[e] # None}}
<1>7. Strays = Others \cup {req[c].key}
  BY DEF Strays
<1>8. Strays' = Others
  BY <1>1, <1>6 DEF Strays
<1> QED
  BY <1>5, <1>7, <1>8

LEMMA DecideRefines ==
    ASSUME IInv, NEW c \in Calls, Decide(c)
    PROVE  Processor!Next \/ UNCHANGED Processor!vars
<1> DEFINE t == req[c].key
<1>1. UNCHANGED service /\ UNCHANGED <<status, claimed, task, pc, attempt>>
  BY DEF Decide, service
<1>2. req[c] \in Ledger!Posts /\ req[c] # None
  BY DecideStep, PostsAreTyped
<1>3. t \in Tasks /\ t \in Processor!Tasks
      /\ t.kind \in {"process", "refund"} /\ t.payment \in Payments
  BY <1>2, PostsAreTyped DEF Tasks, Processor!Tasks, Processor!Kinds
<1>4. PICK code \in Codes :
          /\ Ledger!Answer(c, code)
          /\ \/ /\ code \in {"OK", "INTERNAL_ERROR"}
                /\ Processor!Post(t.kind, t.payment)
             \/ /\ code \notin {"OK", "NONE", "WAITING"}
                /\ code = "DUPLICATE" => ledger[t] # None
                /\ UNCHANGED <<Posted("process"), Posted("refund")>>
  <2>1. CASE Ledger!Apply(c)
    BY <2>1, ApplyPosts DEF IInv, Processor!Post, Codes
  <2>2. CASE Ledger!Replay(c) \/ Ledger!Refuse(c) \/ Ledger!Fail(c)
    BY <2>2, OtherDecisions DEF IInv
  <2> QED
    BY <2>1, <2>2 DEF Decide
<1>5. ledger[t] # None /\ UNCHANGED <<Posted("process"), Posted("refund")>>
          => Processor!Post(t.kind, t.payment)
  <2>1. t = [kind |-> t.kind, payment |-> t.payment]
    BY <1>3 DEF Tasks
  <2> QED
    BY <1>3, <2>1 DEF Processor!Post, Posted
<1>6. CASE c \in Owned
  <2>1. PICK j \in Jobs : call[j] = c
    BY <1>6 DEF Owned
  <2>2. /\ loopOf[j] = "sent"
        /\ loopOf' = [loopOf EXCEPT ![j] = Outcome(code)]
        /\ Strays' = Strays
        /\ task[j] = t
    BY <1>1, <1>2, <1>4, <2>1, OwnerLearns
  <2>3. Processor!Decide(j, Outcome(code))
    BY <1>1, <2>2 DEF Processor!Decide, Processor!row
  <2>4. Processor!Wallet(j)
    <3>1. CASE code \in {"OK", "DUPLICATE"}
      <4>1. Outcome(code) = "accepted" /\ Processor!Post(t.kind, t.payment)
        BY <1>4, <1>5, <3>1 DEF Outcome
      <4> QED
        BY <2>2, <2>3, <4>1
        DEF Processor!Wallet, Processor!WalletAccepts, Processor!payment
    <3>2. CASE code \in {"INSUFFICIENT_BALANCE", "WALLET_NOT_FOUND", "WALLET_NOT_ACTIVE"}
      <4>1. Outcome(code) = "refused" /\ UNCHANGED <<Posted("process"), Posted("refund")>>
        BY <1>4, <3>2 DEF Outcome
      <4> QED
        BY <2>3, <4>1 DEF Processor!Wallet, Processor!WalletRefuses, Processor!money
    <3>3. CASE code \notin {"OK", "DUPLICATE", "INSUFFICIENT_BALANCE",
                           "WALLET_NOT_FOUND", "WALLET_NOT_ACTIVE"}
      <4>1. Outcome(code) = "erred"
        BY <3>3 DEF Outcome
      <4> QED
        BY <1>4, <2>2, <2>3, <4>1
        DEF Processor!Wallet, Processor!WalletErrs, Processor!money, Processor!payment
    <3> QED
      BY <3>1, <3>2, <3>3
  <2> QED
    BY <2>4 DEF Processor!Next
<1>7. CASE c \notin Owned
  <2>1. /\ loopOf' = loopOf
        /\ t \in Strays
        /\ Strays' \in {Strays, Strays \ {t}}
    BY <1>1, <1>2, <1>4, <1>7, StrayDecided
  <2>2. CASE Processor!Post(t.kind, t.payment)
    <3>1. Processor!StrayExecuted(t)
      BY <1>1, <2>1, <2>2 DEF Processor!StrayExecuted, Processor!row
    <3> QED
      BY <1>3, <3>1 DEF Processor!Next
  <2>3. CASE UNCHANGED <<Posted("process"), Posted("refund")>> /\ Strays' = Strays
    BY <1>1, <2>1, <2>3 DEF Processor!vars
  <2>4. CASE UNCHANGED <<Posted("process"), Posted("refund")>> /\ Strays' = Strays \ {t}
    <3>1. Processor!StrayLost(t)
      BY <1>1, <2>1, <2>4 DEF Processor!StrayLost, Processor!row, Processor!money
    <3> QED
      BY <1>3, <3>1 DEF Processor!Next
  <2> QED
    BY <1>4, <2>1, <2>2, <2>3, <2>4
<1> QED
  BY <1>6, <1>7

-----------------------------------------------------------------------------
LEMMA StutterRefines ==
    ASSUME UNCHANGED vars
    PROVE  UNCHANGED Processor!vars
<1>1. loopOf' = loopOf /\ Strays' = Strays
      /\ UNCHANGED <<Posted("process"), Posted("refund")>>
  BY DEF vars, service, wallet, loopOf, Strays, Owned, Posted
<1> QED
  BY <1>1 DEF vars, service, Processor!vars

LEMMA NextRefines ==
    ASSUME IInv, [Next]_vars
    PROVE  IInv' /\ [Processor!Next]_(Processor!vars)
<1>1. ASSUME NEW j \in Jobs, Receive(j)
      PROVE  IInv' /\ Processor!Next
  BY <1>1, ReceiveStep DEF Receive, Processor!Next
<1>2. ASSUME NEW j \in Jobs, Handle(j)
      PROVE  IInv' /\ Processor!Next
  BY <1>2, HandleStep DEF Handle, Processor!Handle, Processor!Next
<1>3. ASSUME NEW j \in Jobs, StartCalls(j) \/ Retry(j)
      PROVE  IInv' /\ Processor!Next
  BY <1>3, StartCallsStep DEF StartCalls, Retry, Processor!Handle, Processor!Next
<1>4. ASSUME NEW j \in Jobs, Hangs(j)
      PROVE  IInv' /\ Processor!Next
  BY <1>4, HangsStep DEF Hangs, Processor!Next
<1>5. ASSUME NEW c \in Calls, Decide(c)
      PROVE  IInv' /\ (Processor!Next \/ UNCHANGED Processor!vars)
  BY <1>5, DecideStep, DecideRefines
<1>6. ASSUME NEW p \in Payments, Patch(p)
      PROVE  IInv' /\ Processor!Next
  BY <1>6, QuietStep DEF Patch, Processor!Patch, Processor!Next
<1>7. CASE Crash
  BY <1>7, CrashStep DEF Crash, Processor!Next
<1>8. CASE UNCHANGED vars
  BY <1>8, QuietStep, StutterRefines DEF vars, service
<1> QED
  BY <1>1, <1>2, <1>3, <1>4, <1>5, <1>6, <1>7, <1>8 DEF Next

\* The payment service over the promise of the wallet service behaves as
\* PaymentProcessor says: every decision of the wallet service, for a caller
\* that waits, has given up or died, is one of the answers it allows for.
THEOREM SystemImplementsProcessor == Spec => ImplementsProcessor
<1>1. IInv /\ [Next]_vars => IInv'
  BY NextRefines
<1>2. IInv /\ [Next]_vars => [Processor!Next]_(Processor!vars)
  BY NextRefines
<1> QED
  BY InitIInv, InitRefines, <1>1, <1>2, PTL DEF Spec, ImplementsProcessor, Processor!Spec

-----------------------------------------------------------------------------
\* What is proved of PaymentProcessor holds of the system: its theorems, with
\* the ledger and the calls of the wallet service in the place of its
\* variables.

P == INSTANCE PaymentProcessorProofs WITH
    debited <- Posted("process"), credited <- Posted("refund"),
    stray <- Strays, loop <- loopOf

LEMMA ProcessorAssumptions ==
    P!MaxAttemptsAssumption /\ P!NoneAssumption
<1>1. P!MaxAttemptsAssumption
  BY ProcessorAssumption DEF P!MaxAttemptsAssumption
<1>2. P!NoneAssumption
  BY NoneAssumption DEF P!NoneAssumption, P!Tasks, P!Kinds, Tasks
<1> QED
  BY <1>1, <1>2

\* Processor and P are two instances of the same definitions.
LEMMA SameInit == Processor!Init => P!Init
  BY DEF Processor!Init, P!Init

LEMMA SameStep == [Processor!Next]_(Processor!vars) => [P!Next]_(P!vars)
  BY DEF
     Processor!vars, P!vars, Processor!Statuses, P!Statuses,
     Processor!Kinds, P!Kinds, Processor!Tasks, P!Tasks, Processor!payment,
     P!payment, Processor!IsRefund, P!IsRefund, Processor!money, P!money,
     Processor!calling, P!calling, Processor!row, P!row, Processor!Goto, P!Goto,
     Processor!Receive, P!Receive, Processor!Refundable, P!Refundable,
     Processor!Processable, P!Processable, Processor!FirstStep,
     P!FirstStep, Processor!GetPayment, P!GetPayment,
     Processor!GetPaymentFails, P!GetPaymentFails, Processor!AfterError,
     P!AfterError, Processor!AfterSuccess, P!AfterSuccess, Processor!Mark,
     P!Mark, Processor!MarkProcessing, P!MarkProcessing,
     Processor!MarkCompleted, P!MarkCompleted, Processor!MarkFailed,
     P!MarkFailed, Processor!MarkRefunded, P!MarkRefunded, Processor!Patch,
     P!Patch, Processor!StartCalls, P!StartCalls, Processor!CircuitRefuses,
     P!CircuitRefuses, Processor!BreakerTimeout, P!BreakerTimeout,
     Processor!LoopEnds, P!LoopEnds, Processor!LastAttempt, P!LastAttempt,
     Processor!AttemptFails, P!AttemptFails, Processor!NextAttempt,
     P!NextAttempt, Processor!Retry, P!Retry, Processor!Post, P!Post,
     Processor!Decide, P!Decide, Processor!WalletAccepts, P!WalletAccepts,
     Processor!WalletRefuses, P!WalletRefuses, Processor!WalletErrs,
     P!WalletErrs, Processor!Answered, P!Answered, Processor!HttpTimeout,
     P!HttpTimeout, Processor!StrayExecuted, P!StrayExecuted,
     Processor!StrayLost, P!StrayLost, Processor!Crash, P!Crash,
     Processor!Handle, P!Handle, Processor!Wallet, P!Wallet,
     Processor!Next, P!Next, Processor!Calling, P!Calling

\* What a loop that waits for no answer, or for one, shows of itself is one of
\* PaymentProcessor's; so are statuses and steps.
LEMMA SameTypes == P!TypeOK => Processor!TypeOK
  BY DEF P!TypeOK, Processor!TypeOK, P!Statuses, Processor!Statuses, P!Tasks,
         Processor!Tasks, P!Kinds, Processor!Kinds, P!Loops, Processor!Loops,
         P!Calling, Processor!Calling, P!Steps, Processor!Steps

SInv == IInv /\ P!IInv

LEMMA SystemInvariance == Spec => []SInv
<1>1. Init => SInv
  BY InitIInv, InitRefines, SameInit, ProcessorAssumptions, P!InitIInv DEF SInv
<1>2. SInv /\ [Next]_vars => SInv'
  BY NextRefines, SameStep, ProcessorAssumptions, P!NextKeepsIInv DEF SInv
<1> QED
  BY <1>1, <1>2, PTL DEF Spec

\* Variables stay in their domains; a loop waits for one call of its own, and
\* that call carries the request of its job until it is decided: no answer
\* reaches a loop that did not ask for it.
THEOREM SystemTypes == Spec => []TypeOK
<1>1. SInv => TypeOK
  <2> SUFFICES ASSUME SInv PROVE TypeOK
    OBVIOUS
  <2>1. Processor!TypeOK
    BY SameTypes DEF SInv, P!IInv
  <2> QED
    BY <2>1 DEF SInv, IInv, ServiceTypes, CallsOK, TypeOK
<1> QED
  BY <1>1, SystemInvariance, PTL

\* Where the ledger is the wallet service's own and the answers are its
\* answers, only a PATCH shows a payment as COMPLETED that has no debit entry
\* there, or as REFUNDED that has no refund entry.
THEOREM SystemStatusesAreBacked == Spec => Processor!StatusBackedByLedger
<1>1. SInv /\ [Next]_vars => [P!BackedStep]_(P!vars)
  BY NextRefines, SameStep, ProcessorAssumptions, P!StepsAreBacked DEF SInv
<1>2. Spec => [][P!BackedStep]_(P!vars)
  BY <1>1, SystemInvariance, PTL DEF Spec
<1> QED
  BY <1>2 DEF P!BackedStep, P!Patch, P!vars, P!Statuses, P!money, P!calling,
              Processor!StatusBackedByLedger, Processor!Patch, Processor!vars,
              Processor!Statuses, Processor!money, Processor!calling

\* No refund entry is in the ledger without the debit entry of its payment,
\* but for payments that a PATCH made COMPLETED before they were debited.
THEOREM SystemRefundsAreBacked == Spec => []Processor!RefundFollowsDebit
<1>1. SInv => Processor!RefundFollowsDebit
  BY DEF SInv, P!IInv, P!LedgerOK, P!RefundFollowsDebit, Processor!RefundFollowsDebit
<1> QED
  BY <1>1, SystemInvariance, PTL

-----------------------------------------------------------------------------
\* Everybody's money.

\* A call, waited for or not, debits for a process task and credits for a
\* refund task.
OpsMatchKinds == \A c \in Calls : req[c] # None => req[c].op = Op(req[c].key.kind)

\* Every step posts at most one entry.
PostedFinite == IsFiniteSet(Posted("process")) /\ IsFiniteSet(Posted("refund"))

MoneyInv == SInv /\ OpsMatchKinds /\ PostedFinite /\ MoneyConserved

LEMMA InitMoney == Init => MoneyInv
<1> SUFFICES ASSUME Init PROVE MoneyInv
  OBVIOUS
<1>1. SInv
  BY InitIInv, InitRefines, SameInit, ProcessorAssumptions, P!InitIInv DEF SInv
<1>2. OpsMatchKinds
  BY DEF Init, OpsMatchKinds
<1>3. Posted("process") = {} /\ Posted("refund") = {}
  BY InitRefines DEF Processor!Init
<1>4. PostedFinite
  BY <1>3, FS_EmptySet DEF PostedFinite
<1>5. PICK funds \in [Wallets -> Balances] :
          /\ account = [w \in Wallets |-> [balance |-> funds[w], status |-> "ACTIVE"]]
          /\ ledger = [k \in Ledger!EntryKeys |->
                 IF k \in Wallets /\ funds[k] > 0
                 THEN [wallet |-> k, amount |-> funds[k], after |-> funds[k]]
                 ELSE None]
  BY DEF Init
<1> DEFINE f == [w \in Wallets |-> account[w].balance]
           g == [w \in Wallets |-> Opened(w)]
<1>6. \A w \in Wallets : f[w] = funds[w] /\ g[w] = funds[w] /\ funds[w] \in Int
  <2> SUFFICES ASSUME NEW w \in Wallets PROVE f[w] = funds[w] /\ g[w] = funds[w] /\ funds[w] \in Int
    OBVIOUS
  <2>1. funds[w] \in Nat /\ w \in Ledger!EntryKeys
    BY PriceAssumption DEF Ledger!EntryKeys
  <2>2. [wallet |-> w, amount |-> funds[w], after |-> funds[w]] # None
    BY <2>1, NoneAssumption
  <2>3. CASE funds[w] > 0
    BY <1>5, <2>1, <2>2, <2>3 DEF Opened
  <2>4. CASE funds[w] = 0
    BY <1>5, <2>1, <2>4 DEF Opened
  <2> QED
    BY <2>1, <2>3, <2>4
<1>7. SumFunctionOnSet(f, Wallets) = SumFunctionOnSet(g, Wallets)
      /\ SumFunctionOnSet(g, Wallets) \in Int
  <2> HIDE DEF f, g
  <2> QED
    BY <1>6, WalletsAssumption, SumEqual, SumInt
<1>8. Price * (Cardinality(Posted("process")) - Cardinality(Posted("refund"))) = 0
  BY <1>3, FS_EmptySet, PriceAssumption
<1>9. MoneyConserved
  BY <1>3, <1>7, <1>8 DEF MoneyConserved, SumFunction
<1> QED
  BY <1>1, <1>2, <1>4, <1>9 DEF MoneyInv

LEMMA PriceTimes ==
    ASSUME NEW n \in Int
    PROVE  /\ Price * n \in Int
           /\ Price * (n + 1) = Price * n + Price
           /\ Price * (n - 1) = Price * n - Price
  BY PriceAssumption

\* A posting moves the price out of a wallet or into one.
LEMMA ApplyKeepsMoney ==
    ASSUME MoneyInv, SInv', NEW c \in Calls, Ledger!Apply(c)
    PROVE  PostedFinite' /\ MoneyConserved'
<1> USE DEF MoneyInv
<1>1. PICK q \in Ledger!Posts : q = req[c]
  BY DEF Ledger!Apply
<1>2. /\ q.wallet \in Wallets /\ q.key \in Tasks /\ q.key \in Ledger!EntryKeys
      /\ q.key.kind \in {"process", "refund"} /\ q.key.payment \in Payments
      /\ q.amount = Price /\ Ledger!Delta(q) \in Int /\ q # None
  BY PostsAreTyped
<1> DEFINE w == q.wallet
           p == q.key.payment
           f == [v \in Wallets |-> account[v].balance]
           h == [v \in Wallets |-> account'[v].balance]
           g == [v \in Wallets |-> Opened(v)]
           debits == Posted("process")
           credits == Posted("refund")
<1>3. /\ account' = [account EXCEPT ![w].balance = @ + Ledger!Delta(q)]
      /\ \E e : ledger' = [ledger EXCEPT ![q.key] = e]
      /\ ledger[q.key] = None
  BY <1>1 DEF Ledger!Apply
<1>4. account \in [Wallets -> [balance : Nat, status : {"ACTIVE"}]]
  BY DEF SInv, IInv, WalletTypes
<1>5. /\ \A v \in Wallets : f[v] \in Int /\ h[v] \in Int
      /\ \A v \in Wallets \ {w} : h[v] = f[v]
      /\ h[w] = f[w] + Ledger!Delta(q)
  <2>1. \A v \in Wallets : f[v] \in Int
    BY <1>4
  <2>2. \A v \in Wallets \ {w} : account'[v] = account[v]
    BY <1>2, <1>3, <1>4
  <2>3. account'[w].balance = account[w].balance + Ledger!Delta(q)
    BY <1>2, <1>3, <1>4
  <2> QED
    BY <1>2, <2>1, <2>2, <2>3
<1>6. SumFunctionOnSet(h, Wallets) = SumFunctionOnSet(f, Wallets) + h[w] - f[w]
  <2> HIDE DEF f, h
  <2> QED
    BY <1>2, <1>5, WalletsAssumption, SumUpdate
<1>7. SumFunctionOnSet(f, Wallets) \in Int
  <2> HIDE DEF f, h
  <2> QED
    BY <1>5, WalletsAssumption, SumInt
<1>8. SumFunctionOnSet(h, Wallets) = SumFunctionOnSet(f, Wallets) + Ledger!Delta(q)
  <2>1. f[w] \in Int /\ h[w] = f[w] + Ledger!Delta(q)
    BY <1>2, <1>5
  <2> HIDE DEF f, h
  <2> QED
    BY <1>2, <1>6, <1>7, <2>1
<1>9. g' = g
  <2>1. \A v \in Wallets : v \in Ledger!EntryKeys /\ v # q.key
    BY <1>2, KeysAssumption DEF Ledger!EntryKeys
  <2>2. \A v \in Wallets : ledger'[v] = ledger[v]
    BY <1>3, <2>1 DEF SInv, IInv, WalletTypes
  <2> QED
    BY <2>2 DEF Opened
<1>10. SumFunctionOnSet(g, Wallets) \in Int
  <2>1. \A v \in Wallets : g[v] \in Int
    BY DEF Opened, SInv, IInv, WalletTypes, Entry, Ledger!EntryKeys
  <2> HIDE DEF g
  <2> QED
    BY <2>1, WalletsAssumption, SumInt
<1>11. /\ Posted("process")' = IF q.key.kind = "process"
                               THEN Posted("process") \cup {p} ELSE Posted("process")
       /\ Posted("refund")' = IF q.key.kind = "refund"
                              THEN Posted("refund") \cup {p} ELSE Posted("refund")
  BY <1>1, ApplyPosts DEF SInv, IInv
<1>12. PostedFinite'
  BY <1>11, FS_AddElement DEF PostedFinite
<1>13. debits' = Posted("process")' /\ credits' = Posted("refund")'
  OBVIOUS
<1>14. p \notin Posted(q.key.kind)
  <2>1. [kind |-> q.key.kind, payment |-> p] = q.key
    BY <1>2 DEF Tasks
  <2> QED
    BY <1>3, <2>1 DEF Posted
<1>15. PICK n \in Int : n = Cardinality(debits) - Cardinality(credits)
  BY FS_CardinalityType DEF PostedFinite
<1>16. PICK m \in Int : m = Cardinality(debits') - Cardinality(credits')
  BY <1>12, FS_CardinalityType DEF PostedFinite
<1>17. SumFunctionOnSet(f, Wallets) = SumFunctionOnSet(g, Wallets) - Price * n
  BY <1>15 DEF MoneyConserved, SumFunction
<1>18. /\ q.op = Op(q.key.kind)
       /\ Cardinality(debits) \in Nat /\ Cardinality(credits) \in Nat
  BY <1>1, <1>2, FS_CardinalityType DEF OpsMatchKinds, PostedFinite
<1>19. SumFunctionOnSet(h, Wallets) = SumFunctionOnSet(g, Wallets) - Price * m
  <2>1. CASE q.key.kind = "process"
    <3>1. Ledger!Delta(q) = -Price
      BY <1>2, <1>18, <2>1 DEF Op, Ledger!Delta
    <3>2. Cardinality(debits') = Cardinality(debits) + 1 /\ credits' = credits
      BY <1>11, <1>14, <2>1, FS_AddElement DEF PostedFinite
    <3>3. m = n + 1
      BY <1>15, <1>16, <1>18, <3>2
    <3> QED
      BY <1>2, <1>7, <1>8, <1>10, <1>17, <3>1, <3>3, PriceTimes, PriceAssumption
  <2>2. CASE q.key.kind = "refund"
    <3>1. Ledger!Delta(q) = Price
      BY <1>2, <1>18, <2>2 DEF Op, Ledger!Delta
    <3>2. Cardinality(credits') = Cardinality(credits) + 1 /\ debits' = debits
      BY <1>11, <1>14, <2>2, FS_AddElement DEF PostedFinite
    <3>3. m = n - 1
      BY <1>15, <1>16, <1>18, <3>2
    <3> QED
      BY <1>2, <1>7, <1>8, <1>10, <1>17, <3>1, <3>3, PriceTimes, PriceAssumption
  <2> QED
    BY <1>2, <2>1, <2>2
<1>20. credits' \subseteq debits' \cup claimed'
  BY DEF SInv, P!IInv, P!LedgerOK, P!RefundFollowsDebit
<1>21. MoneyConserved'
  BY <1>9, <1>16, <1>19, <1>20 DEF MoneyConserved, SumFunction
<1> QED
  BY <1>12, <1>21

LEMMA NextKeepsMoney == MoneyInv /\ [Next]_vars => MoneyInv'
<1> SUFFICES ASSUME MoneyInv, [Next]_vars PROVE MoneyInv'
  OBVIOUS
<1> USE DEF MoneyInv
<1>1. SInv'
  BY NextRefines, SameStep, ProcessorAssumptions, P!NextKeepsIInv DEF SInv
<1>2. ASSUME UNCHANGED <<account, ledger>>
      PROVE  PostedFinite' /\ MoneyConserved'
  <2>1. /\ Posted("process")' = Posted("process") /\ Posted("refund")' = Posted("refund")
        /\ \A w \in Wallets : Opened(w)' = Opened(w) /\ account'[w] = account[w]
    BY <1>2 DEF Posted, Opened
  <2>2. Posted("refund")' \subseteq Posted("process")' \cup claimed'
    BY <1>1 DEF SInv, P!IInv, P!LedgerOK, P!RefundFollowsDebit
  <2> QED
    BY <1>2, <2>1, <2>2 DEF PostedFinite, MoneyConserved, Opened
<1>3. ASSUME NEW j \in Jobs, Receive(j) \/ Handle(j) \/ Hangs(j)
      PROVE  MoneyInv'
  BY <1>1, <1>2, <1>3 DEF Receive, Handle, Hangs, wallet, OpsMatchKinds
<1>4. ASSUME NEW j \in Jobs, Send(j)
      PROVE  MoneyInv'
  <2>1. PICK c \in Calls : req' = [req EXCEPT ![c] = Request(j)] /\ Ledger!Submit(c)
    BY <1>4 DEF Send
  <2>2. Request(j).op = Op(Request(j).key.kind)
    BY DEF Request, Key
  <2>3. OpsMatchKinds'
    BY <2>1, <2>2 DEF OpsMatchKinds, Op, SInv, IInv, WalletTypes
  <2> QED
    BY <1>1, <1>2, <2>1, <2>3 DEF Ledger!Submit
<1>5. ASSUME NEW c \in Calls, Decide(c)
      PROVE  MoneyInv'
  <2>1. PICK code \in Codes : Ledger!Answer(c, code)
    BY <1>5, DecideStep DEF SInv
  <2>2. OpsMatchKinds'
    BY <2>1, AnswerDecides DEF OpsMatchKinds, Op, SInv, IInv
  <2>3. CASE Ledger!Apply(c)
    BY <1>1, <2>2, <2>3, ApplyKeepsMoney
  <2>4. CASE Ledger!Replay(c) \/ Ledger!Refuse(c) \/ Ledger!Fail(c)
    BY <1>1, <1>2, <2>2, <2>4 DEF Ledger!Replay, Ledger!Refuse, Ledger!Fail
  <2> QED
    BY <1>5, <2>3, <2>4 DEF Decide
<1>6. CASE Crash \/ (\E p \in Payments : Patch(p)) \/ UNCHANGED vars
  BY <1>1, <1>2, <1>6 DEF Crash, Patch, vars, wallet, OpsMatchKinds
<1> QED
  BY <1>3, <1>4, <1>5, <1>6 DEF Next, StartCalls, Retry

\* Whatever is retried, duplicated, delivered late or lost, and whichever
\* wallets the requests name: the wallets together hold what they were opened
\* with, less one price for each payment debited, plus one for each refunded;
\* and a payment is refunded that was not debited only after a PATCH made it
\* COMPLETED.
THEOREM MoneyIsConserved == Spec => []MoneyConserved
<1>1. Spec => []MoneyInv
  BY InitMoney, NextKeepsMoney, PTL DEF Spec
<1>2. MoneyInv => MoneyConserved
  BY DEF MoneyInv
<1> QED
  BY <1>1, <1>2, PTL
=============================================================================
