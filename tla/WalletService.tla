---------------------------- MODULE WalletService ---------------------------
(***************************************************************************)
(* The wallet service over its PostgreSQL database: the handlers of        *)
(* /wallets/debit, /wallets/credit and /wallets/create as they interleave  *)
(* statement by statement.  A debit or a credit is one READ COMMITTED      *)
(* transaction that checks the idempotency key, locks the wallet row,      *)
(* updates the balance, inserts the ledger entry and commits; creating a   *)
(* wallet is two or three statements that commit one by one.               *)
(*                                                                         *)
(* The database is modelled by what these statements see and block on: a   *)
(* committed wallet row and a committed ledger, a row lock, and an insert  *)
(* that waits for an uncommitted entry with the same key.  A statement may *)
(* fail, a commit may take effect although its answer is lost, and the     *)
(* process may die at any point, which rolls back what is not committed.   *)
(* An opening entry is inserted without the wait that its foreign key may  *)
(* cause while a posting to the new wallet holds the row: the model allows *)
(* the orders of the two that the database does, and more.                 *)
(*                                                                         *)
(* Bounds: MaxVersion limits how often an operator changes a status.       *)
(***************************************************************************)
EXTENDS Integers, FiniteSets

CONSTANTS
    Requests,   \* concurrent request slots of the HTTP server
    Wallets,    \* wallets, one per user and currency
    Keys,       \* idempotency keys chosen by the callers
    Amounts,    \* amounts a caller may send
    PoolMax,    \* clients in the connection pool
    MaxVersion, \* bound on the row version an operator may still change
    None        \* the absent row, entry, request or lock holder

VARIABLES
    wallet,     \* committed rows of the table wallets
    ledger,     \* committed rows of the table ledger_entries, by key
    lock,       \* the request whose transaction holds the row lock
    pc,         \* the statement each request executes next
    req,        \* the request being served, or None
    snap,       \* the row a transaction read FOR UPDATE, or None
    reply       \* the last answer given in each slot

vars == <<wallet, ledger, lock, pc, req, snap, reply>>

-----------------------------------------------------------------------------
\* `initial_<wallet id>` is the key of an opening entry: the wallet stands
\* for it.
EntryKeys == Keys \cup Wallets

Statuses == {"ACTIVE", "FROZEN"}

Row == [balance : Nat, status : Statuses, version : Nat]

\* The columns of a row the service's callers can see.
Account == [balance : Nat, status : Statuses]

Entry == [wallet : Wallets, amount : Int, after : Nat]

Posts == [op : {"debit", "credit"}, wallet : Wallets, key : Keys,
          amount : {a \in Amounts : a > 0}]

Openings == {q \in [op : {"create"}, wallet : Wallets, key : Wallets,
                    amount : {a \in Amounts : a >= 0}] : q.key = q.wallet}

Submissions == Posts \cup Openings

Steps == {"idle", "begin", "check", "duplicate", "lock", "update", "insert",
          "commit", "find", "insertWallet", "opening"}

\* Steps at which a request holds a client of the pool.
InTransaction == {"check", "duplicate", "lock", "update", "insert", "commit"}

\* Steps at which a request has locked the row and relies on what it read.
Holding == {"update", "insert", "commit"}

Replies == {"NONE", "WAITING", "OK", "DUPLICATE", "INVALID_INPUT",
            "WALLET_NOT_FOUND", "WALLET_NOT_ACTIVE", "INSUFFICIENT_BALANCE",
            "CONCURRENT_MODIFICATION", "DUPLICATE_LEDGER_ENTRY",
            "WALLET_ALREADY_EXISTS", "INTERNAL_ERROR", "DROPPED"}

ASSUME NoneAssumption ==
    /\ None \notin Wallets /\ None \notin Requests
    /\ None \notin Row /\ None \notin Account
    /\ None \notin Entry /\ None \notin Submissions

ASSUME AmountsAssumption == Amounts \subseteq Int

ASSUME KeysAssumption == Keys \cap Wallets = {}

ASSUME PoolAssumption == PoolMax \in Nat \ {0}

-----------------------------------------------------------------------------
Init ==
    /\ wallet = [w \in Wallets |-> None]
    /\ ledger = [k \in EntryKeys |-> None]
    /\ lock = [w \in Wallets |-> None]
    /\ pc = [r \in Requests |-> "idle"]
    /\ req = [r \in Requests |-> None]
    /\ snap = [r \in Requests |-> None]
    /\ reply = [r \in Requests |-> "NONE"]

Goto(r, step) ==
    /\ pc' = [pc EXCEPT ![r] = step]
    /\ UNCHANGED <<req, reply>>

Answer(r, code) ==
    /\ pc' = [pc EXCEPT ![r] = "idle"]
    /\ req' = [req EXCEPT ![r] = None]
    /\ snap' = [snap EXCEPT ![r] = None]
    /\ reply' = [reply EXCEPT ![r] = code]

\* Fault: a transaction that ends and keeps its lock.
LockLeaked(r) == UNCHANGED lock

\* The end of a transaction gives its row lock back.
Unlock(r) == lock' = [w \in Wallets |-> IF lock[w] = r THEN None ELSE lock[w]]

\* An error thrown inside a request: ROLLBACK, release of the client, error
\* response.  When ROLLBACK itself fails its error replaces the first one.
Throw(r, code) ==
    /\ \E c \in {code, "INTERNAL_ERROR"} : Answer(r, c)
    /\ Unlock(r)
    /\ UNCHANGED <<wallet, ledger>>

ClientAvailable ==
    Cardinality({r \in Requests : pc[r] \in InTransaction}) < PoolMax

-----------------------------------------------------------------------------
\* Requests and their validation.

Receive(r) ==
    /\ pc[r] = "idle"
    /\ \E q \in Submissions :
          /\ req' = [req EXCEPT ![r] = q]
          /\ pc' = [pc EXCEPT ![r] = IF q.op = "create" THEN "find" ELSE "begin"]
    /\ reply' = [reply EXCEPT ![r] = "WAITING"]
    /\ UNCHANGED <<wallet, ledger, lock, snap>>

Reject(r) ==
    /\ pc[r] = "idle"
    /\ Answer(r, "INVALID_INPUT")
    /\ UNCHANGED <<wallet, ledger, lock>>

-----------------------------------------------------------------------------
\* Debit and credit: one transaction.

Begin(r) ==
    /\ pc[r] = "begin"
    /\ ClientAvailable
    /\ Goto(r, "check")
    /\ UNCHANGED <<wallet, ledger, lock, snap>>

\* The read of the idempotency key sees committed entries only.
FindByIdempotencyKey(r) ==
    /\ pc[r] = "check"
    /\ Goto(r, IF ledger[req[r].key] = None THEN "lock" ELSE "duplicate")
    /\ UNCHANGED <<wallet, ledger, lock, snap>>

\* The key was posted before: the wallet of the request is read without a
\* lock.  When there is none the controller fails on the missing wallet.
ReturnDuplicate(r) ==
    /\ pc[r] = "duplicate"
    /\ Answer(r, IF wallet[req[r].wallet] = None THEN "INTERNAL_ERROR"
                                                 ELSE "DUPLICATE")
    /\ UNCHANGED <<wallet, ledger, lock>>

Sufficient(r, row) == req[r].op = "debit" => row.balance >= req[r].amount

\* Fault: a posting that ignores the status.
AnyStatus(row) == TRUE

Active(row) == row.status = "ACTIVE"

\* Fault: a plain SELECT where the code says FOR UPDATE.
DoNotWait(w) == TRUE

\* FOR UPDATE blocks while another transaction holds the row.
RowFree(w) == lock[w] = None

FindForUpdate(r) ==
    LET w == req[r].wallet
        row == wallet[w]
    IN
    /\ pc[r] = "lock"
    /\ RowFree(w)
    /\ \/ row = None /\ Throw(r, "WALLET_NOT_FOUND")
       \/ /\ row # None
          /\ ~Active(row)
          /\ Throw(r, "WALLET_NOT_ACTIVE")
       \/ /\ row # None
          /\ Active(row)
          /\ ~Sufficient(r, row)
          /\ Throw(r, "INSUFFICIENT_BALANCE")
       \/ /\ row # None
          /\ Active(row)
          /\ Sufficient(r, row)
          /\ lock' = [lock EXCEPT ![w] = r]
          /\ snap' = [snap EXCEPT ![r] = row]
          /\ Goto(r, "update")
          /\ UNCHANGED <<wallet, ledger>>

NewBalance(r) == IF req[r].op = "debit" THEN snap[r].balance - req[r].amount
                                        ELSE snap[r].balance + req[r].amount

\* UPDATE ... WHERE version = the version read, and CHECK (balance >= 0).
UpdateBalance(r) ==
    LET w == req[r].wallet IN
    /\ pc[r] = "update"
    /\ lock[w] \in {r, None}
    /\ \/ /\ wallet[w].version # snap[r].version
          /\ Throw(r, "CONCURRENT_MODIFICATION")
       \/ /\ wallet[w].version = snap[r].version
          /\ NewBalance(r) < 0
          /\ Throw(r, "INTERNAL_ERROR")
       \/ /\ wallet[w].version = snap[r].version
          /\ NewBalance(r) >= 0
          /\ lock' = [lock EXCEPT ![w] = r]
          /\ Goto(r, "insert")
          /\ UNCHANGED <<wallet, ledger, snap>>

\* An uncommitted entry with the same key, in another transaction.
KeyInFlight(r) ==
    \E s \in Requests \ {r} : pc[s] = "commit" /\ req[s].key = req[r].key

\* Fault: no unique index on ledger_entries.idempotency_key.
NoUniqueIndex(r) == FALSE

KeyTaken(r) == ledger[req[r].key] # None

\* The insert waits for such a transaction, then meets its entry or not.
CreateEntry(r) ==
    /\ pc[r] = "insert"
    /\ ~KeyInFlight(r)
    /\ \/ /\ KeyTaken(r)
          /\ Throw(r, "DUPLICATE_LEDGER_ENTRY")
       \/ /\ ~KeyTaken(r)
          /\ Goto(r, "commit")
          /\ UNCHANGED <<wallet, ledger, lock, snap>>

\* Fault: a debit recorded with the sign of a credit.
UnsignedAmount(r) == req[r].amount

\* The amount of the entry: negative for a debit.
EntryAmount(r) == IF req[r].op = "debit" THEN -req[r].amount ELSE req[r].amount

\* Fault: the amount applied once more to the updated row.
BalanceAppliedTwice(r) == NewBalance(r) + EntryAmount(r)

BalanceAfter(r) == NewBalance(r)

\* The row and the entry become visible together; the answer may be lost.
Commit(r) ==
    LET w == req[r].wallet IN
    /\ pc[r] = "commit"
    /\ wallet' = [wallet EXCEPT ![w].balance = NewBalance(r),
                                ![w].version = @ + 1]
    /\ ledger' = [ledger EXCEPT ![req[r].key] =
                     [wallet |-> w, amount |-> EntryAmount(r),
                      after |-> BalanceAfter(r)]]
    /\ Unlock(r)
    /\ \E code \in {"OK", "INTERNAL_ERROR"} : Answer(r, code)

-----------------------------------------------------------------------------
\* Opening a wallet: statements that commit one by one.

FindExisting(r) ==
    /\ pc[r] = "find"
    /\ ClientAvailable
    /\ \/ /\ wallet[req[r].wallet] # None
          /\ Answer(r, "OK")
       \/ /\ wallet[req[r].wallet] = None
          /\ Goto(r, "insertWallet")
          /\ UNCHANGED snap
    /\ UNCHANGED <<wallet, ledger, lock>>

InsertWallet(r) ==
    LET w == req[r].wallet IN
    /\ pc[r] = "insertWallet"
    /\ ClientAvailable
    /\ \/ wallet[w] # None /\ Throw(r, "WALLET_ALREADY_EXISTS")
       \/ /\ wallet[w] = None
          /\ wallet' = [wallet EXCEPT ![w] = [balance |-> req[r].amount,
                                              status |-> "ACTIVE",
                                              version |-> 0]]
          /\ \/ /\ req[r].amount > 0
                /\ Goto(r, "opening")
                /\ UNCHANGED snap
             \/ req[r].amount = 0 /\ Answer(r, "OK")
             \/ Answer(r, "INTERNAL_ERROR")
          /\ UNCHANGED <<ledger, lock>>

CreateOpeningEntry(r) ==
    /\ pc[r] = "opening"
    /\ ClientAvailable
    /\ \/ /\ KeyTaken(r)
          /\ Throw(r, "DUPLICATE_LEDGER_ENTRY")
       \/ /\ ~KeyTaken(r)
          /\ ledger' = [ledger EXCEPT ![req[r].key] =
                           [wallet |-> req[r].wallet, amount |-> req[r].amount,
                            after |-> req[r].amount]]
          /\ \E code \in {"OK", "INTERNAL_ERROR"} : Answer(r, code)
          /\ UNCHANGED <<wallet, lock>>

-----------------------------------------------------------------------------
\* Failures and the operator.

\* A statement fails or no client comes free in time.
StatementFails(r) ==
    /\ pc[r] # "idle"
    /\ Throw(r, "INTERNAL_ERROR")

\* The process dies and restarts: open transactions are rolled back.
Crash ==
    /\ \E r \in Requests : pc[r] # "idle"
    /\ pc' = [r \in Requests |-> "idle"]
    /\ req' = [r \in Requests |-> None]
    /\ snap' = [r \in Requests |-> None]
    /\ reply' = [r \in Requests |-> IF pc[r] = "idle" THEN reply[r] ELSE "DROPPED"]
    /\ lock' = [w \in Wallets |-> None]
    /\ UNCHANGED <<wallet, ledger>>

\* An operator's UPDATE of a status: it waits for the row lock.
SetStatus(w) ==
    /\ wallet[w] # None
    /\ RowFree(w)
    /\ wallet[w].version < MaxVersion
    /\ \E s \in Statuses \ {wallet[w].status} :
          wallet' = [wallet EXCEPT ![w].status = s, ![w].version = @ + 1]
    /\ UNCHANGED <<ledger, lock, pc, req, snap, reply>>

\* The next statement of a request in flight.
Statement(r) ==
    \/ Begin(r) \/ FindByIdempotencyKey(r) \/ ReturnDuplicate(r)
    \/ FindForUpdate(r) \/ UpdateBalance(r) \/ CreateEntry(r) \/ Commit(r)
    \/ FindExisting(r) \/ InsertWallet(r) \/ CreateOpeningEntry(r)

Next ==
    \/ \E r \in Requests :
          Receive(r) \/ Reject(r) \/ Statement(r) \/ StatementFails(r)
    \/ \E w \in Wallets : SetStatus(w)
    \/ Crash

Spec == Init /\ [][Next]_vars

\* Row locks, key waits and the pool are granted in arrival order, so a
\* request that could go on again and again does.
FairSpec == Spec /\ \A r \in Requests : SF_vars(Statement(r))

-----------------------------------------------------------------------------
\* Every variable stays in its domain; in particular no balance and no
\* balance_after is ever negative, whatever the interleaving.
TypeOK ==
    /\ wallet \in [Wallets -> Row \cup {None}]
    /\ ledger \in [EntryKeys -> Entry \cup {None}]
    /\ lock \in [Wallets -> Requests \cup {None}]
    /\ pc \in [Requests -> Steps]
    /\ req \in [Requests -> Submissions \cup {None}]
    /\ snap \in [Requests -> Row \cup {None}]
    /\ reply \in [Requests -> Replies]

\* Between SELECT ... FOR UPDATE and COMMIT the row a transaction computes
\* from is still the committed row, and the lock is its own: neither another
\* posting, nor the operator, nor a rollback elsewhere can invalidate it.
SnapshotStable ==
    \A r \in Requests : pc[r] \in Holding =>
        /\ lock[req[r].wallet] = r
        /\ snap[r] # None
        /\ snap[r] = wallet[req[r].wallet]

\* r waits for no one: not for a client of the pool, nor for a row lock, nor
\* for the transaction that inserted its key.
GoesOn(r) ==
    \/ pc[r] \in {"check", "duplicate", "commit"}
    \/ pc[r] \in {"begin", "find", "insertWallet", "opening"} /\ ClientAvailable
    \/ pc[r] = "lock" /\ RowFree(req[r].wallet)
    \/ pc[r] = "update" /\ lock[req[r].wallet] \in {r, None}
    \/ pc[r] = "insert" /\ ~KeyInFlight(r)

\* Requests that wait for one another, for a client, a row lock or a key in
\* flight, never wait in a circle: while any is unanswered, one goes on
\* without an error or a timeout to free it.
NoDeadlock ==
    (\E r \in Requests : pc[r] # "idle") => \E r \in Requests : GoesOn(r)

\* The ledger is append-only: an entry once committed is never replaced by a
\* later request with the same idempotency key.
AppendOnly ==
    [][\A k \in EntryKeys : ledger[k] # None => ledger'[k] = ledger[k]]_vars

\* A request accepted by the server is answered: row locks, the wait for a
\* key in flight and the bounded pool never block one for ever.
EveryRequestAnswered ==
    \A r \in Requests : pc[r] # "idle" ~> pc[r] = "idle"

\* The promise this service implements: each request is decided at one
\* instant, refusals tell the truth about that instant, and the optimistic
\* version check never fires.
accountOf == [w \in Wallets |->
    IF wallet[w] = None THEN None
    ELSE [balance |-> wallet[w].balance, status |-> wallet[w].status]]

openingSlots == {r \in Requests : pc[r] = "opening"}

Promise == INSTANCE AtomicLedger WITH account <- accountOf, opening <- openingSlots

ImplementsAtomicLedger == Promise!Spec
=============================================================================
