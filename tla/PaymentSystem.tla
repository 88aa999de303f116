---------------------------- MODULE PaymentSystem ----------------------------
(***************************************************************************)
(* The payment service and the wallet service together: the handlers and   *)
(* retry loops of PaymentProcessor, calling a wallet service that does     *)
(* what AtomicLedger promises, over HTTP calls that outlive their callers. *)
(*                                                                         *)
(* A call occupies a slot of the wallet service from its arrival until it  *)
(* is answered.  Nobody listens to it any more once its caller has timed   *)
(* out or died; it is executed all the same.  Each request to the payment  *)
(* service names the wallet it is about, which no one compares with the    *)
(* wallet another request for the same payment named.                      *)
(*                                                                         *)
(* Bounds: every payment has one Price, and Calls is the number of calls   *)
(* the wallet service works on at a time.  PATCH writes any status, as in  *)
(* PaymentProcessor.  The wallets exist from the start and   *)
(* stay ACTIVE.  A restart of the wallet service is the failure of each    *)
(* call it was working on.                                                 *)
(***************************************************************************)
EXTENDS Integers

CONSTANTS
    Payments, Jobs, MaxAttempts, None,      \* as in PaymentProcessor
    Wallets,    \* the wallets requests may name
    Calls,      \* slots for calls the wallet service is working on
    Balances,   \* balances wallets are opened with
    Price       \* the amount of every payment

ASSUME PriceAssumption == Price \in Nat \ {0} /\ Balances \subseteq Nat

Tasks == [kind : {"process", "refund"}, payment : Payments]

ASSUME NoneAssumption ==
    /\ None \notin Calls /\ None \notin Tasks
    /\ None \notin [op : {"debit", "credit"}, wallet : Wallets, key : Tasks, amount : {Price}]
    /\ None \notin [wallet : Wallets, amount : Int, after : Int]
ASSUME KeysAssumption == Tasks \cap Wallets = {}

VARIABLES
    status, claimed, task, pc, attempt,     \* as in PaymentProcessor
    loop,       \* [Jobs -> "none", "waiting" or "backoff"]
    from,       \* [Jobs -> the walletId of the request, or None]
    call,       \* [Jobs -> the call its loop waits for, or None]
    account, ledger, req, reply, opening    \* as in AtomicLedger

service == <<status, claimed, task, pc, attempt, loop, from, call>>
wallet == <<account, ledger, req, reply, opening>>
vars == <<service, wallet>>

-----------------------------------------------------------------------------
\* The wallet service.  The task of a call, which names the kind and the
\* payment, stands for its key, `payment_<id>` or `refund_<id>`.
Ledger == INSTANCE AtomicLedger WITH
    Requests <- Calls, Keys <- Tasks, Amounts <- {Price}

\* The payment service, seen from here: what is posted, what nobody waits
\* for, and what each loop will learn.
Posted(kind) == {p \in Payments : ledger[[kind |-> kind, payment |-> p]] # None}

Owned == {call[j] : j \in Jobs}

Strays == {req[c].key : c \in {d \in Calls \ Owned : req[d] # None}}

\* debitWallet of the client: which answers are results, which are refusals
\* that withSmartRetry does not retry.  All others are errors it does.
Outcome(code) ==
    CASE code \in {"OK", "DUPLICATE"} -> "accepted"
      [] code \in {"INSUFFICIENT_BALANCE", "WALLET_NOT_FOUND", "WALLET_NOT_ACTIVE"} -> "refused"
      [] OTHER -> "erred"

loopOf == [j \in Jobs |->
    IF loop[j] # "waiting" THEN loop[j]
    ELSE IF req[call[j]] # None THEN "sent"
    ELSE Outcome(reply[call[j]])]

Processor == INSTANCE PaymentProcessor WITH
    debited <- Posted("process"), credited <- Posted("refund"),
    stray <- Strays, loop <- loopOf

ASSUME ProcessorAssumption == MaxAttempts \in Nat \ {0}

-----------------------------------------------------------------------------
Init ==
    /\ status = [p \in Payments |-> "PENDING"]
    /\ claimed = {}
    /\ task = [j \in Jobs |-> None]
    /\ pc = [j \in Jobs |-> "idle"]
    /\ attempt = [j \in Jobs |-> 0]
    /\ loop = [j \in Jobs |-> "none"]
    /\ from = [j \in Jobs |-> None]
    /\ call = [j \in Jobs |-> None]
    /\ req = [c \in Calls |-> None]
    /\ reply = [c \in Calls |-> "NONE"]
    /\ opening = {}
    /\ \E funds \in [Wallets -> Balances] :
          /\ account = [w \in Wallets |-> [balance |-> funds[w], status |-> "ACTIVE"]]
          /\ ledger = [k \in Ledger!EntryKeys |->
                 IF k \in Wallets /\ funds[k] > 0
                 THEN [wallet |-> k, amount |-> funds[k], after |-> funds[k]]
                 ELSE None]

\* A request is forgotten with its wallet.
Forget == from' = [j \in Jobs |-> IF task'[j] = None THEN None ELSE from[j]]

\* The handlers, but for their calls: each step is PaymentProcessor's.
Receive(j) ==
    /\ UNCHANGED <<wallet, loop, call>>
    /\ Processor!Receive(j)
    /\ \E w \in Wallets : from' = [from EXCEPT ![j] = w]

Handle(j) ==
    /\ UNCHANGED <<wallet, loop, call>>
    /\ \/ Processor!GetPayment(j) \/ Processor!GetPaymentFails(j)
       \/ Processor!MarkProcessing(j) \/ Processor!MarkCompleted(j)
       \/ Processor!MarkFailed(j) \/ Processor!MarkRefunded(j)
       \/ Processor!CircuitRefuses(j) \/ Processor!BreakerTimeout(j)
    /\ Forget

Patch(p) == UNCHANGED <<wallet, loop, call, from>> /\ Processor!Patch(p)

-----------------------------------------------------------------------------
\* The calls.

\* Fault: a refund that takes the money once more.
AlwaysDebit(kind) == "debit"

Op(kind) == IF kind = "refund" THEN "credit" ELSE "debit"

\* Fault: a refund under the key of the debit.
DebitKey(j) == [task[j] EXCEPT !.kind = "process"]

Key(j) == task[j]

Request(j) ==
    [op |-> Op(task[j].kind), wallet |-> from[j], key |-> Key(j), amount |-> Price]

\* Job j's next attempt reaches the wallet service.
Send(j) ==
    /\ task[j] # None
    /\ \E c \in Calls \ Owned :
          /\ req' = [req EXCEPT ![c] = Request(j)]
          /\ Ledger!Submit(c)
          /\ call' = [call EXCEPT ![j] = c]
    /\ loop' = [loop EXCEPT ![j] = "waiting"]
    /\ UNCHANGED from

StartCalls(j) == Send(j) /\ Processor!StartCalls(j)

Retry(j) == Send(j) /\ Processor!Retry(j)

\* The wallet service decides a call, whether or not anybody waits for it.
Decide(c) ==
    /\ Ledger!Apply(c) \/ Ledger!Replay(c) \/ Ledger!Refuse(c) \/ Ledger!Fail(c)
    /\ UNCHANGED service

\* The loop learns the answer of its call, or gives up waiting for it.
Hangs(j) ==
    /\ loop[j] = "waiting"
    /\ \E next \in {"none", "backoff"} : loop' = [loop EXCEPT ![j] = next]
    /\ call' = [call EXCEPT ![j] = None]
    /\ UNCHANGED wallet
    /\ Processor!Answered(j) \/ Processor!HttpTimeout(j)
    /\ Forget

Crash ==
    /\ UNCHANGED wallet
    /\ loop' = [j \in Jobs |-> "none"]
    /\ call' = [j \in Jobs |-> None]
    /\ Processor!Crash
    /\ Forget

Next ==
    \/ \E j \in Jobs : Receive(j) \/ Handle(j) \/ StartCalls(j) \/ Retry(j) \/ Hangs(j)
    \/ \E c \in Calls : Decide(c)
    \/ \E p \in Payments : Patch(p)
    \/ Crash

Spec == Init /\ [][Next]_vars

-----------------------------------------------------------------------------
\* A loop waits for one call of its own, which carries the request of its job
\* until the wallet service has decided it.
TypeOK ==
    /\ Processor!TypeOK
    /\ from \in [Jobs -> Wallets \cup {None}]
    /\ call \in [Jobs -> Calls \cup {None}]
    /\ \A j \in Jobs : loop[j] = "waiting" <=> call[j] # None
    /\ \A i, j \in Jobs : i # j /\ call[i] # None => call[i] # call[j]
    /\ \A j \in Jobs : call[j] # None /\ req[call[j]] # None => req[call[j]] = Request(j)

\* Handlers, loops and calls together do what PaymentProcessor says: no
\* answer of the wallet service, and no call that outlives its caller, is
\* anything it did not allow for.
ImplementsProcessor == Processor!Spec
=============================================================================
