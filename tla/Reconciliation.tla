--------------------------- MODULE Reconciliation ---------------------------
(***************************************************************************)
(* GET /payments/reconcile/run beside the handlers of PaymentProcessor: it *)
(* reads the payments of a time window in one query and compares each row  *)
(* with the wallet's ledger.  Every payment is in the window, and the      *)
(* suspicious ones, which are stuck and not mismatched, are left out.      *)
(*                                                                         *)
(* Which rows carry a gatewayTransactionId is left open: processing writes *)
(* it with COMPLETED, a PATCH may or may not, and nothing clears it.       *)
(***************************************************************************)
EXTENDS PaymentProcessor

VARIABLE
    report      \* payments in the `mismatches` just reported, or None

rvars == <<vars, report>>

\* The rows findByDateRange returns have no field walletId.
WalletId(p) == None

\* _checkPayment asks the wallet service, and is answered.
Verified(p, recorded, answered) ==
    /\ p \in recorded
    /\ WalletId(p) # None
    /\ p \in answered

\* _checkPayment: the payments it classifies as MISMATCH.
Mismatch(p, recorded, answered) ==
    \/ /\ status[p] = "COMPLETED"
       /\ p \notin recorded
    \/ /\ status[p] = "COMPLETED"
       /\ Verified(p, recorded, answered)
       /\ p \notin debited
    \/ /\ status[p] = "FAILED"
       /\ Verified(p, recorded, answered)
       /\ p \in debited

Reconcile ==
    /\ \E recorded, answered \in SUBSET Payments :
          report' = {p \in Payments : Mismatch(p, recorded, answered)}
    /\ UNCHANGED vars

RInit == Init /\ report = None

RNext ==
    \/ Next /\ report' = None
    \/ Reconcile

RSpec == RInit /\ [][RNext]_rvars

\* README.md: reconciliation "catches FAILED_BUT_DEBITED: payment failed,
\* wallet was debited".  A report made while nothing is in flight names every
\* such payment.
DebitedFailuresReported ==
    (report # None /\ stray = {} /\ \A j \in Jobs : task[j] = None) =>
        \A p \in Payments : status[p] = "FAILED" /\ p \in debited => p \in report
=============================================================================
