---------------------------- MODULE AtomicLedger ----------------------------
(***************************************************************************)
(* What the wallet service promises to its callers, with no transaction,   *)
(* no lock and no connection pool: every request is decided in one step    *)
(* that sees the current balances and the current ledger.  A posting       *)
(* changes a balance and the ledger together, at most once per idempotency *)
(* key; a refusal names a condition that holds at the moment of the        *)
(* decision; an internal error may be answered at any time.                *)
(*                                                                         *)
(* Opening a wallet is the one promise made in two steps, because the code *)
(* makes it in two: the wallet row first, its opening entry later or, when *)
(* something fails in between, never.                                      *)
(***************************************************************************)
EXTENDS Integers

CONSTANTS
    Requests,   \* the request slots of the HTTP server
    Wallets,    \* wallets, one per user and currency
    Keys,       \* idempotency keys chosen by the callers
    Amounts,    \* amounts a caller may send
    None        \* the absent row, entry or request

VARIABLES
    account,    \* [Wallets -> [balance, status] or None]
    ledger,     \* [Keys \cup Wallets -> [wallet, amount, after] or None]
    req,        \* the request being served in each slot, or None
    reply,      \* the last answer given in each slot
    opening     \* slots that inserted a wallet row and owe its opening entry

vars == <<account, ledger, req, reply, opening>>

-----------------------------------------------------------------------------
\* The opening entry of wallet w has a key of its own, `initial_<w>`: the
\* wallet itself stands for that key.
EntryKeys == Keys \cup Wallets

Statuses == {"ACTIVE", "FROZEN"}

Posts == [op : {"debit", "credit"}, wallet : Wallets, key : Keys,
          amount : {a \in Amounts : a > 0}]

\* A request to open a wallet; its key is that of the opening entry.
Openings == {q \in [op : {"create"}, wallet : Wallets, key : Wallets,
                    amount : {a \in Amounts : a >= 0}] : q.key = q.wallet}

Delta(q) == IF q.op = "debit" THEN -q.amount ELSE q.amount

\* The business refusals of request q that hold in the current state.
Justified(q, code) ==
    \/ /\ code = "WALLET_NOT_FOUND"
       /\ account[q.wallet] = None
    \/ /\ code = "WALLET_NOT_ACTIVE"
       /\ account[q.wallet] # None
       /\ account[q.wallet].status # "ACTIVE"
    \/ /\ code = "INSUFFICIENT_BALANCE"
       /\ q.op = "debit"
       /\ account[q.wallet] # None
       /\ account[q.wallet].balance < q.amount
    \/ /\ code = "DUPLICATE_LEDGER_ENTRY"
       /\ ledger[q.key] # None
    \/ /\ code = "WALLET_ALREADY_EXISTS"
       /\ q.op = "create"
       /\ account[q.wallet] # None

Refusals == {"WALLET_NOT_FOUND", "WALLET_NOT_ACTIVE", "INSUFFICIENT_BALANCE",
             "DUPLICATE_LEDGER_ENTRY", "WALLET_ALREADY_EXISTS"}

-----------------------------------------------------------------------------
Answer(r, code) ==
    /\ reply' = [reply EXCEPT ![r] = code]
    /\ req' = [req EXCEPT ![r] = None]
    /\ opening' = opening \ {r}

Submit(r) ==
    /\ req[r] = None
    /\ \E q \in Posts \cup Openings : req' = [req EXCEPT ![r] = q]
    /\ reply' = [reply EXCEPT ![r] = "WAITING"]
    /\ UNCHANGED <<account, ledger, opening>>

Reject(r) ==
    /\ req[r] = None
    /\ Answer(r, "INVALID_INPUT")
    /\ UNCHANGED <<account, ledger>>

\* A posting takes effect: once per key, on an active wallet, never below
\* zero, the balance and the entry together.
Apply(r) ==
    LET q == req[r] IN
    /\ q \in Posts
    /\ ledger[q.key] = None
    /\ account[q.wallet] # None
    /\ account[q.wallet].status = "ACTIVE"
    /\ account[q.wallet].balance + Delta(q) >= 0
    /\ account' = [account EXCEPT ![q.wallet].balance = @ + Delta(q)]
    /\ ledger' = [ledger EXCEPT ![q.key] =
                     [wallet |-> q.wallet, amount |-> Delta(q),
                      after |-> account[q.wallet].balance + Delta(q)]]
    /\ \E code \in {"OK", "INTERNAL_ERROR"} : Answer(r, code)

\* The key was posted before: the caller learns so and nothing changes.
Replay(r) ==
    /\ req[r] \in Posts
    /\ ledger[req[r].key] # None
    /\ account[req[r].wallet] # None
    /\ Answer(r, "DUPLICATE")
    /\ UNCHANGED <<account, ledger>>

Refuse(r) ==
    /\ req[r] # None
    /\ \E code \in Refusals : Justified(req[r], code) /\ Answer(r, code)
    /\ UNCHANGED <<account, ledger>>

Exists(r) ==
    /\ req[r] \in Openings
    /\ account[req[r].wallet] # None
    /\ Answer(r, "OK")
    /\ UNCHANGED <<account, ledger>>

OpenWallet(r) ==
    LET q == req[r] IN
    /\ q \in Openings
    /\ account[q.wallet] = None
    /\ account' = [account EXCEPT ![q.wallet] =
                      [balance |-> q.amount, status |-> "ACTIVE"]]
    /\ \/ /\ q.amount > 0
          /\ opening' = opening \cup {r}
          /\ UNCHANGED <<req, reply>>
       \/ q.amount = 0 /\ Answer(r, "OK")
       \/ Answer(r, "INTERNAL_ERROR")
    /\ UNCHANGED ledger

RecordOpening(r) ==
    LET q == req[r] IN
    /\ r \in opening
    /\ ledger[q.key] = None
    /\ ledger' = [ledger EXCEPT ![q.key] =
                     [wallet |-> q.wallet, amount |-> q.amount,
                      after |-> q.amount]]
    /\ \E code \in {"OK", "INTERNAL_ERROR"} : Answer(r, code)
    /\ UNCHANGED account

\* The service gives up on a request it has not decided.
Fail(r) ==
    /\ req[r] # None
    /\ Answer(r, "INTERNAL_ERROR")
    /\ UNCHANGED <<account, ledger>>

\* The process dies: every caller in flight sees its connection drop.
DropAll ==
    /\ reply' = [r \in Requests |-> IF req[r] = None THEN reply[r] ELSE "DROPPED"]
    /\ req' = [r \in Requests |-> None]
    /\ opening' = {}
    /\ UNCHANGED <<account, ledger>>

\* An operator freezes or reactivates a wallet.
SetStatus(w) ==
    /\ account[w] # None
    /\ \E s \in Statuses : account' = [account EXCEPT ![w].status = s]
    /\ UNCHANGED <<ledger, req, reply, opening>>

Serve(r) == \/ Submit(r) \/ Reject(r) \/ Apply(r) \/ Replay(r) \/ Refuse(r)
            \/ Exists(r) \/ OpenWallet(r) \/ RecordOpening(r) \/ Fail(r)

Init ==
    /\ account = [w \in Wallets |-> None]
    /\ ledger = [k \in EntryKeys |-> None]
    /\ req = [r \in Requests |-> None]
    /\ reply = [r \in Requests |-> "NONE"]
    /\ opening = {}

Next ==
    \/ \E r \in Requests : Serve(r)
    \/ \E w \in Wallets : SetStatus(w)
    \/ DropAll

Spec == Init /\ [][Next]_vars
=============================================================================
