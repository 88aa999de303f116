-------------------------- MODULE MCPaymentSystem --------------------------
(***************************************************************************)
(* PaymentSystem on a small instance, and the sum of everybody's money.    *)
(***************************************************************************)
EXTENDS PaymentSystem, FiniteSets, Functions, TLC

\* What of a state the service and its callers can still tell apart.  The
\* handlers test a row for COMPLETED and FAILED only, nobody reads the answer
\* to a call its caller has given up, a loop reads only the outcome of its
\* answer, and an entry is asked for but never read.
Observed == <<
    [p \in Payments |-> IF status[p] \in {"COMPLETED", "FAILED"} THEN status[p] ELSE "other"],
    claimed, task, pc, attempt, loopOf, from, call, req,
    [w \in Wallets |-> account[w].balance],
    {k \in DOMAIN ledger : ledger[k] # None}>>

Symmetry == Permutations(Jobs) \cup Permutations(Calls) \cup Permutations(Wallets)

ASSUME WalletsAssumption == IsFiniteSet(Wallets)

\* What w was opened with.
Opened(w) == IF ledger[w] = None THEN 0 ELSE ledger[w].amount

\* README.md: "Exactly-once processing", "safe to retry indefinitely".  A
\* payment takes its price from the wallets once and gives it back at most
\* once, whichever wallets its requests name and however often their calls
\* are repeated, lost or late.  It gives back what it never took only after a
\* PATCH has made it COMPLETED.
MoneyConserved ==
    /\ SumFunction([w \in Wallets |-> account[w].balance]) =
           SumFunction([w \in Wallets |-> Opened(w)])
               - Price * (Cardinality(Posted("process")) - Cardinality(Posted("refund")))
    /\ Posted("refund") \subseteq Posted("process") \cup claimed
=============================================================================
