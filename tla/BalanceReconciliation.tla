------------------------ MODULE BalanceReconciliation ------------------------
(***************************************************************************)
(* GET /wallets/:walletId/reconcile beside the requests of WalletService.  *)
(* reconcileBalance reads the wallet's row, then the sum of its ledger     *)
(* entries, in two statements outside any transaction, and compares what   *)
(* may be two different moments.                                           *)
(***************************************************************************)
EXTENDS MCWalletService

VARIABLES
    audit,      \* the row the audit at work has read, or None
    report      \* the result just answered, or None

rvars == <<vars, audit, report>>

\* No request is between the row of w and its opening entry.
Opened(w) == \A r \in Requests : pc[r] = "opening" => req[r].wallet # w

\* `undisturbed`: since the audit began, nothing about its wallet committed.
FindById(w) ==
    /\ audit = None
    /\ wallet[w] # None
    /\ audit' = [wallet |-> w, balance |-> wallet[w].balance, undisturbed |-> Opened(w)]
    /\ report' = None
    /\ UNCHANGED vars

CalculateBalance ==
    /\ audit # None
    /\ report' = [wallet |-> audit.wallet,
                  isBalanced |-> audit.balance = LedgerSum(audit.wallet),
                  difference |-> audit.balance - LedgerSum(audit.wallet),
                  undisturbed |-> audit.undisturbed]
    /\ audit' = None
    /\ UNCHANGED vars

\* A statement fails, or the process dies: no report.
AuditFails ==
    /\ audit # None
    /\ audit' = None
    /\ report' = None
    /\ UNCHANGED vars

Disturbed(w) ==
    \/ wallet'[w].balance # wallet[w].balance
    \/ \E k \in EntryKeys : ledger'[k] # ledger[k] /\ ledger'[k].wallet = w

ServiceStep ==
    /\ Next
    /\ report' = None
    /\ \/ audit = None /\ audit' = None
       \/ /\ audit # None
          /\ audit' = [audit EXCEPT !.undisturbed = @ /\ ~Disturbed(audit.wallet)]

RInit == Init /\ audit = None /\ report = None

RNext == (\E w \in Wallets : FindById(w)) \/ CalculateBalance \/ AuditFails \/ ServiceStep

RSpec == RInit /\ [][RNext]_rvars

\* DATABASE_DESIGN.md: "Verify: wallet balance = sum of ledger entries".  An
\* audit of an opened wallet during which nothing was posted finds it
\* balanced.
UndisturbedIsBalanced ==
    report # None /\ report.undisturbed => report.isBalanced

\* What an audit that nothing disturbed reports is what the wallet lost: the
\* difference is the amount of its opening entry when that was never written,
\* and nothing otherwise.
AuditsTellLosses ==
    report # None /\ report.undisturbed =>
        LET w == report.wallet IN
        /\ wallet[w] # None
        /\ report.isBalanced <=> report.difference = 0
        /\ report.difference = Gap(w)
        /\ report.difference # 0 => report.difference > 0 /\ ledger[w] = None
=============================================================================
