--------------------------- MODULE MCWalletService --------------------------
(***************************************************************************)
(* WalletService on small instances, and the properties that need sums or  *)
(* that state what a document or a test of the repository says.            *)
(***************************************************************************)
EXTENDS WalletService, Functions, TLC

Symmetry == Permutations(Requests) \cup Permutations(Keys)

Entries(w) == {k \in EntryKeys : ledger[k] # None /\ ledger[k].wallet = w}

LedgerSum(w) == SumFunction([k \in Entries(w) |-> ledger[k].amount])

\* The requests that owe the opening entry of w, and the opening amount that
\* is in its row and not yet in the ledger.
Owing(w) == {r \in Requests : pc[r] = "opening" /\ req[r].wallet = w}

Owed(w) == SumFunction([r \in Owing(w) |-> req[r].amount])

\* The balance of a wallet is the sum of its ledger entries and of the
\* opening entry still to be written, at every moment and under every
\* interleaving; a wallet whose opening entry was lost keeps the
\* difference.
Reconciled ==
    \A w \in Wallets : wallet[w] # None =>
        \/ wallet[w].balance = LedgerSum(w) + Owed(w)
        \/ /\ ledger[w] = None
           /\ Owed(w) = 0
           /\ wallet[w].balance - LedgerSum(w) \in {a \in Amounts : a > 0}

\* What neither the ledger nor an opening entry in flight explains of a balance.
Gap(w) == wallet[w].balance - LedgerSum(w) - Owed(w)

OpeningLost(w) ==
    /\ Gap(w) = 0
    /\ Gap(w)' = Owed(w)
    /\ Owed(w)' = 0
    /\ ledger'[w] = None

GapsKept ==
    \A w \in Wallets : wallet[w] # None =>
        /\ wallet'[w] # None
        /\ Gap(w)' = Gap(w) \/ OpeningLost(w)

\* Losing the opening entry of a wallet is the only way its balance and its
\* ledger come apart; it happens at most once, and no later posting, failure
\* or crash widens or hides the difference.
OnlyOpeningsLost == [][GapsKept]_vars

\* wallet.integration.test.js: of two concurrent requests with one key "both
\* should succeed"; wallet-service/README.md: "Duplicate requests return same
\* result".  A request whose key is already in the ledger is never refused.
SameKeySameAnswer ==
    [][\A r \in Requests :
          /\ reply[r] = "WAITING"
          /\ reply'[r] \in {"INSUFFICIENT_BALANCE", "DUPLICATE_LEDGER_ENTRY"}
          => ledger[req[r].key] = None]_vars
=============================================================================
