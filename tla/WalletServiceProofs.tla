------------------------- MODULE WalletServiceProofs ------------------------
(***************************************************************************)
(* Proofs about WalletService, for every set of requests, wallets, keys    *)
(* and amounts and every pool size: its type invariant, the stability of   *)
(* what a transaction reads under its row lock, the append-only ledger,    *)
(* that waits never form a circle, that the statement-by-statement service *)
(* implements AtomicLedger, that its books balance but for lost opening    *)
(* entries, and what an audit of a balance can find.                       *)
(***************************************************************************)
EXTENDS BalanceReconciliation, SumTheorems, TLAPS

-----------------------------------------------------------------------------
\* The inductive invariant.

\* A request in a posting step is a posting, one in an opening step opens a
\* wallet, and an idle slot serves nothing.
RequestsMatchSteps ==
    \A r \in Requests :
        /\ pc[r] = "idle" <=> req[r] = None
        /\ pc[r] \in {"begin"} \cup InTransaction => req[r] \in Posts
        /\ pc[r] \in {"find", "insertWallet", "opening"} => req[r] \in Openings

\* What a transaction has checked stays true while it holds the row.
ChecksHold ==
    \A r \in Requests :
        /\ pc[r] \in Holding => Active(snap[r])
        /\ pc[r] \in {"insert", "commit"} => NewBalance(r) >= 0
        /\ pc[r] = "duplicate" => ledger[req[r].key] # None

\* An uncommitted entry owns its key: it is in no committed entry and in no
\* other uncommitted one.
KeysReserved ==
    \A r \in Requests : pc[r] = "commit" =>
        /\ ledger[req[r].key] = None
        /\ \A s \in Requests \ {r} :
              pc[s] = "commit" => req[s].key # req[r].key

IInv == /\ TypeOK
        /\ RequestsMatchSteps
        /\ SnapshotStable
        /\ ChecksHold
        /\ KeysReserved

-----------------------------------------------------------------------------
LEMMA PostsAreTyped ==
    ASSUME NEW q \in Posts
    PROVE  /\ q.op \in {"debit", "credit"} /\ q.wallet \in Wallets
           /\ q.key \in Keys /\ q.key \in EntryKeys
           /\ q.amount \in Int /\ q.amount > 0 /\ q # None /\ q.op # "create"
  BY AmountsAssumption, NoneAssumption DEF Posts, EntryKeys, Submissions

LEMMA OpeningsAreTyped ==
    ASSUME NEW q \in Openings
    PROVE  /\ q.op = "create" /\ q.wallet \in Wallets /\ q.key = q.wallet
           /\ q.key \in EntryKeys /\ q.amount \in Nat /\ q # None
<1>1. /\ q.op = "create" /\ q.wallet \in Wallets /\ q.key = q.wallet
      /\ q.amount \in Amounts /\ q.amount >= 0
  BY DEF Openings
<1>2. q # None
  BY NoneAssumption DEF Submissions
<1>3. q.key \in EntryKeys
  BY <1>1 DEF EntryKeys
<1>4. q.amount \in Nat
  <2>1. q.amount \in Int
    BY <1>1, AmountsAssumption
  <2> QED
    BY <1>1, <2>1
<1> QED
  BY <1>1, <1>2, <1>3, <1>4

\* A rollback keeps the invariant, whatever the error answered.
LEMMA ThrowKeepsIInv ==
    ASSUME IInv, NEW r \in Requests, NEW code \in Replies, Throw(r, code)
    PROVE  IInv'
<1>1. PICK c \in {code, "INTERNAL_ERROR"} : Answer(r, c)
  BY DEF Throw
<1>2. c \in Replies
  BY DEF Replies
<1>3. UNCHANGED <<wallet, ledger>> /\ Unlock(r)
  BY DEF Throw
<1> USE DEF IInv
<1>4. TypeOK'
  <2>1. pc' \in [Requests -> Steps] /\ req' \in [Requests -> Submissions \cup {None}]
    BY <1>1 DEF TypeOK, Answer, Steps
  <2>2. snap' \in [Requests -> Row \cup {None}] /\ reply' \in [Requests -> Replies]
    BY <1>1, <1>2 DEF TypeOK, Answer
  <2>3. lock' \in [Wallets -> Requests \cup {None}]
    BY <1>3 DEF TypeOK, Unlock
  <2> QED
    BY <1>3, <2>1, <2>2, <2>3 DEF TypeOK
<1>5. pc'[r] = "idle" /\ req'[r] = None
  BY <1>1 DEF Answer, TypeOK
<1>6. \A s \in Requests \ {r} :
         pc'[s] = pc[s] /\ req'[s] = req[s] /\ snap'[s] = snap[s]
  BY <1>1 DEF Answer, TypeOK
<1>7. RequestsMatchSteps'
  BY <1>5, <1>6 DEF RequestsMatchSteps, InTransaction
<1>8. SnapshotStable'
  <2> SUFFICES ASSUME NEW s \in Requests, pc'[s] \in Holding
               PROVE  /\ lock'[req'[s].wallet] = s /\ snap'[s] # None
                      /\ snap'[s] = wallet'[req'[s].wallet]
    BY DEF SnapshotStable
  <2>1. s # r
    BY <1>5 DEF Holding
  <2>2. pc[s] \in Holding /\ req'[s] = req[s] /\ snap'[s] = snap[s]
    BY <1>6, <2>1
  <2>3. req[s].wallet \in Wallets
    BY <2>2, PostsAreTyped DEF RequestsMatchSteps, Holding, InTransaction
  <2> QED
    BY <1>3, <2>1, <2>2, <2>3 DEF SnapshotStable, Unlock
<1>9. ChecksHold'
  BY <1>3, <1>5, <1>6 DEF ChecksHold, Holding, NewBalance, Active
<1>10. KeysReserved'
  BY <1>3, <1>5, <1>6 DEF KeysReserved
<1> QED
  BY <1>4, <1>7, <1>8, <1>9, <1>10

LEMMA InitIInv == Init => IInv
<1> SUFFICES ASSUME Init PROVE IInv
  OBVIOUS
<1>1. TypeOK
  BY DEF Init, TypeOK, Steps, Replies
<1> QED
  BY <1>1 DEF Init, IInv, RequestsMatchSteps, SnapshotStable, ChecksHold,
              KeysReserved, InTransaction, Holding

-----------------------------------------------------------------------------
\* One lemma per statement: each keeps the invariant.

LEMMA ReceiveKeepsIInv ==
    ASSUME IInv, NEW r \in Requests, Receive(r)
    PROVE  IInv'
<1> USE DEF IInv
<1>1. PICK q \in Submissions :
         /\ req' = [req EXCEPT ![r] = q]
         /\ pc' = [pc EXCEPT ![r] = IF q.op = "create" THEN "find" ELSE "begin"]
  BY DEF Receive
<1>2. UNCHANGED <<wallet, ledger, lock, snap>> /\ pc[r] = "idle"
  BY DEF Receive
<1>3. TypeOK'
  BY <1>1, <1>2 DEF TypeOK, Receive, Steps, Replies
<1>4. pc'[r] \in {"find", "begin"} /\ req'[r] = q /\ q # None
  BY <1>1, NoneAssumption DEF TypeOK
<1>5. \A s \in Requests \ {r} : pc'[s] = pc[s] /\ req'[s] = req[s]
  BY <1>1 DEF TypeOK
<1>6. RequestsMatchSteps'
  <2>1. CASE q \in Posts
    BY <2>1, <1>1, <1>4, <1>5, PostsAreTyped
       DEF RequestsMatchSteps, InTransaction, TypeOK
  <2>2. CASE q \in Openings
    BY <2>2, <1>1, <1>4, <1>5, OpeningsAreTyped
       DEF RequestsMatchSteps, InTransaction, TypeOK
  <2> QED
    BY <2>1, <2>2 DEF Submissions
<1>7. SnapshotStable'
  BY <1>2, <1>4, <1>5 DEF SnapshotStable, Holding
<1>8. ChecksHold'
  BY <1>2, <1>4, <1>5 DEF ChecksHold, Holding, NewBalance, Active
<1>9. KeysReserved'
  BY <1>2, <1>4, <1>5 DEF KeysReserved
<1> QED
  BY <1>3, <1>6, <1>7, <1>8, <1>9

\* Steps that only move the program counter to a step where nothing is held.
LEMMA GotoKeepsIInv ==
    ASSUME IInv, NEW r \in Requests, NEW step \in Steps, Goto(r, step),
           UNCHANGED <<wallet, ledger, lock, snap>>,
           \/ /\ pc[r] \in {"begin", "check"}
              /\ step \in {"check", "lock"}
           \/ /\ pc[r] = "check"
              /\ step = "duplicate"
              /\ ledger[req[r].key] # None
           \/ /\ pc[r] = "find"
              /\ step = "insertWallet"
    PROVE  IInv'
<1> USE DEF IInv, Goto
<1>1. TypeOK'
  BY DEF TypeOK
<1>2. pc'[r] = step /\ \A s \in Requests \ {r} : pc'[s] = pc[s]
  BY DEF TypeOK
<1>3. RequestsMatchSteps'
  BY <1>2 DEF RequestsMatchSteps, InTransaction
<1>4. SnapshotStable'
  BY <1>2 DEF SnapshotStable, Holding
<1>5. ChecksHold'
  BY <1>2 DEF ChecksHold, Holding, NewBalance
<1>6. KeysReserved'
  BY <1>2 DEF KeysReserved
<1> QED
  BY <1>1, <1>3, <1>4, <1>5, <1>6

LEMMA FindForUpdateKeepsIInv ==
    ASSUME IInv, NEW r \in Requests, FindForUpdate(r)
    PROVE  IInv'
<1> DEFINE w == req[r].wallet
<1> USE DEF IInv
<1>1. pc[r] = "lock" /\ lock[w] = None
  BY DEF FindForUpdate, RowFree
<1>2. req[r] \in Posts /\ w \in Wallets
  BY <1>1, PostsAreTyped DEF RequestsMatchSteps, InTransaction
<1>3. CASE \E code \in {"WALLET_NOT_FOUND", "WALLET_NOT_ACTIVE",
                        "INSUFFICIENT_BALANCE"} : Throw(r, code)
  BY <1>3, ThrowKeepsIInv DEF Replies
<1>4. CASE /\ wallet[w] # None /\ Active(wallet[w]) /\ Sufficient(r, wallet[w])
           /\ lock' = [lock EXCEPT ![w] = r]
           /\ snap' = [snap EXCEPT ![r] = wallet[w]]
           /\ Goto(r, "update") /\ UNCHANGED <<wallet, ledger>>
  <2> USE <1>4 DEF Goto
  <2>1. TypeOK'
    BY <1>2 DEF TypeOK, Steps
  <2>2. /\ pc'[r] = "update" /\ snap'[r] = wallet[w] /\ lock'[w] = r
        /\ \A s \in Requests \ {r} : pc'[s] = pc[s] /\ snap'[s] = snap[s]
        /\ \A v \in Wallets \ {w} : lock'[v] = lock[v]
    BY <1>2 DEF TypeOK
  <2>3. RequestsMatchSteps'
    BY <1>1, <2>2 DEF RequestsMatchSteps, InTransaction
  <2>4. SnapshotStable'
    <3> SUFFICES ASSUME NEW s \in Requests, pc'[s] \in Holding
                 PROVE  /\ lock'[req[s].wallet] = s /\ snap'[s] # None
                        /\ snap'[s] = wallet[req[s].wallet]
      BY DEF SnapshotStable
    <3>1. CASE s = r
      BY <3>1, <2>2
    <3>2. CASE s # r
      <4>1. pc[s] \in Holding /\ lock[req[s].wallet] = s
        BY <3>2, <2>2 DEF SnapshotStable
      <4>2. req[s].wallet \in Wallets /\ req[s].wallet # w
        BY <4>1, <1>1, PostsAreTyped, NoneAssumption
           DEF RequestsMatchSteps, Holding, InTransaction
      <4> QED
        BY <3>2, <4>1, <4>2, <2>2 DEF SnapshotStable
    <3> QED
      BY <3>1, <3>2
  <2>5. ChecksHold'
    BY <2>2 DEF ChecksHold, Holding, NewBalance, Active
  <2>6. KeysReserved'
    BY <2>2 DEF KeysReserved
  <2> QED
    BY <2>1, <2>3, <2>4, <2>5, <2>6
<1> QED
  BY <1>3, <1>4 DEF FindForUpdate

LEMMA UpdateBalanceKeepsIInv ==
    ASSUME IInv, NEW r \in Requests, UpdateBalance(r)
    PROVE  IInv'
<1> DEFINE w == req[r].wallet
<1> USE DEF IInv
<1>1. pc[r] = "update"
  BY DEF UpdateBalance
<1>2. req[r] \in Posts /\ w \in Wallets
  BY <1>1, PostsAreTyped DEF RequestsMatchSteps, InTransaction
<1>3. lock[w] = r /\ snap[r] = wallet[w] /\ snap[r] \in Row
  BY <1>1, <1>2 DEF SnapshotStable, Holding, TypeOK
<1>4. CASE \E code \in {"CONCURRENT_MODIFICATION", "INTERNAL_ERROR"} : Throw(r, code)
  BY <1>4, ThrowKeepsIInv DEF Replies
<1>5. CASE /\ NewBalance(r) >= 0
           /\ lock' = [lock EXCEPT ![w] = r]
           /\ Goto(r, "insert") /\ UNCHANGED <<wallet, ledger, snap>>
  <2> USE <1>5 DEF Goto
  <2>1. lock' = lock
    BY <1>2, <1>3 DEF TypeOK
  <2>2. TypeOK'
    BY <2>1 DEF TypeOK, Steps
  <2>3. pc'[r] = "insert" /\ \A s \in Requests \ {r} : pc'[s] = pc[s]
    BY DEF TypeOK
  <2>4. RequestsMatchSteps'
    BY <1>1, <2>3 DEF RequestsMatchSteps, InTransaction
  <2>5. SnapshotStable'
    BY <1>1, <2>1, <2>3 DEF SnapshotStable, Holding
  <2>6. ChecksHold'
    BY <1>1, <2>3 DEF ChecksHold, Holding, NewBalance, Active
  <2>7. KeysReserved'
    BY <2>3 DEF KeysReserved
  <2> QED
    BY <2>2, <2>4, <2>5, <2>6, <2>7
<1> QED
  BY <1>4, <1>5 DEF UpdateBalance

LEMMA CreateEntryKeepsIInv ==
    ASSUME IInv, NEW r \in Requests, CreateEntry(r)
    PROVE  IInv'
<1> USE DEF IInv
<1>1. pc[r] = "insert" /\ ~KeyInFlight(r)
  BY DEF CreateEntry
<1>2. CASE Throw(r, "DUPLICATE_LEDGER_ENTRY")
  BY <1>2, ThrowKeepsIInv DEF Replies
<1>3. CASE /\ ~KeyTaken(r) /\ Goto(r, "commit")
           /\ UNCHANGED <<wallet, ledger, lock, snap>>
  <2> USE <1>3 DEF Goto
  <2>1. TypeOK'
    BY DEF TypeOK, Steps
  <2>2. pc'[r] = "commit" /\ \A s \in Requests \ {r} : pc'[s] = pc[s]
    BY DEF TypeOK
  <2>3. RequestsMatchSteps'
    BY <1>1, <2>2 DEF RequestsMatchSteps, InTransaction
  <2>4. SnapshotStable'
    BY <1>1, <2>2 DEF SnapshotStable, Holding
  <2>5. ChecksHold'
    BY <1>1, <2>2 DEF ChecksHold, Holding, NewBalance, Active
  <2>6. KeysReserved'
    BY <1>1, <2>2 DEF KeysReserved, KeyTaken, KeyInFlight
  <2> QED
    BY <2>1, <2>3, <2>4, <2>5, <2>6
<1> QED
  BY <1>2, <1>3 DEF CreateEntry

LEMMA CommitKeepsIInv ==
    ASSUME IInv, NEW r \in Requests, Commit(r)
    PROVE  IInv'
<1> DEFINE q == req[r]
           w == q.wallet
           entry == [wallet |-> w, amount |-> EntryAmount(r),
                     after |-> BalanceAfter(r)]
<1> USE DEF IInv
<1>1. /\ pc[r] = "commit"
      /\ wallet' = [wallet EXCEPT ![w].balance = NewBalance(r), ![w].version = @ + 1]
      /\ ledger' = [ledger EXCEPT ![q.key] = entry]
      /\ Unlock(r)
  BY DEF Commit
<1>2. PICK code \in Replies : Answer(r, code)
  BY DEF Commit, Replies
<1>3. q \in Posts
  BY <1>1 DEF RequestsMatchSteps, InTransaction
<1>4. lock[w] = r /\ snap[r] = wallet[w] /\ snap[r] \in Row /\ wallet[w] \in Row
  BY <1>1, <1>3, PostsAreTyped DEF SnapshotStable, Holding, TypeOK
<1>5. NewBalance(r) \in Nat /\ EntryAmount(r) \in Int
  BY <1>1, <1>3, <1>4, PostsAreTyped DEF ChecksHold, NewBalance, EntryAmount, Row
<1>6. entry \in Entry
  BY <1>3, <1>5, PostsAreTyped DEF Entry, BalanceAfter
<1>7. wallet'[w] = [wallet[w] EXCEPT !.balance = NewBalance(r), !.version = @ + 1]
  BY <1>1, <1>3, PostsAreTyped DEF TypeOK
<1>8. wallet'[w] \in Row
  <2>1. wallet[w].version + 1 \in Nat
    BY <1>4 DEF Row
  <2> QED
    BY <1>4, <1>5, <1>7, <2>1 DEF Row
<1>9. \A v \in Wallets \ {w} : wallet'[v] = wallet[v] /\ lock'[v] = IF lock[v] = r THEN None ELSE lock[v]
  BY <1>1, <1>3, PostsAreTyped DEF TypeOK, Unlock
<1>10. TypeOK'
  <2>1. wallet' \in [Wallets -> Row \cup {None}]
    BY <1>1, <1>8, <1>9 DEF TypeOK
  <2>2. ledger' \in [EntryKeys -> Entry \cup {None}]
    BY <1>1, <1>3, <1>6, PostsAreTyped DEF TypeOK
  <2>3. lock' \in [Wallets -> Requests \cup {None}]
    BY <1>1 DEF TypeOK, Unlock
  <2>4. /\ pc' \in [Requests -> Steps]
        /\ req' \in [Requests -> Submissions \cup {None}]
        /\ snap' \in [Requests -> Row \cup {None}]
        /\ reply' \in [Requests -> Replies]
    BY <1>2 DEF TypeOK, Answer, Steps
  <2> QED
    BY <2>1, <2>2, <2>3, <2>4 DEF TypeOK
<1>11. pc'[r] = "idle" /\ req'[r] = None
  BY <1>2 DEF Answer, TypeOK
<1>12. \A s \in Requests \ {r} :
          pc'[s] = pc[s] /\ req'[s] = req[s] /\ snap'[s] = snap[s]
  BY <1>2 DEF Answer, TypeOK
<1>13. RequestsMatchSteps'
  BY <1>11, <1>12 DEF RequestsMatchSteps, InTransaction
<1>14. SnapshotStable'
  <2> SUFFICES ASSUME NEW s \in Requests, pc'[s] \in Holding
               PROVE  /\ lock'[req'[s].wallet] = s /\ snap'[s] # None
                      /\ snap'[s] = wallet'[req'[s].wallet]
    BY DEF SnapshotStable
  <2>1. s # r /\ pc[s] \in Holding /\ lock[req[s].wallet] = s
    BY <1>11, <1>12 DEF Holding, SnapshotStable
  <2>2. req[s].wallet \in Wallets /\ req[s].wallet # w
    BY <1>4, <2>1, PostsAreTyped DEF RequestsMatchSteps, Holding, InTransaction
  <2> QED
    BY <1>9, <1>12, <2>1, <2>2 DEF SnapshotStable
<1>15. ChecksHold'
  <2> SUFFICES ASSUME NEW s \in Requests \ {r}
               PROVE  /\ pc[s] \in Holding => Active(snap[s])
                      /\ pc[s] \in {"insert", "commit"} => NewBalance(s) >= 0
                      /\ pc[s] = "duplicate" => ledger'[req[s].key] # None
    BY <1>11, <1>12 DEF ChecksHold, Holding, NewBalance, Active
  <2>1. pc[s] = "duplicate" => req[s].key \in EntryKeys
    BY PostsAreTyped DEF RequestsMatchSteps, InTransaction
  <2>2. entry # None
    BY <1>6, NoneAssumption
  <2> QED
    BY <1>1, <2>1, <2>2 DEF ChecksHold, TypeOK
<1>16. KeysReserved'
  <2> SUFFICES ASSUME NEW s \in Requests \ {r}, pc[s] = "commit"
               PROVE  ledger'[req[s].key] = None
    BY <1>11, <1>12 DEF KeysReserved
  <2>1. req[s].key \in EntryKeys /\ req[s].key # q.key
    BY <1>1, PostsAreTyped DEF KeysReserved, RequestsMatchSteps, InTransaction
  <2> QED
    BY <1>1, <2>1 DEF KeysReserved, TypeOK
<1> QED
  BY <1>10, <1>13, <1>14, <1>15, <1>16

\* An answer that leaves wallets, ledger and locks alone, from a step that
\* holds no row.
LEMMA AnswerKeepsIInv ==
    ASSUME IInv, NEW r \in Requests, NEW code \in Replies, Answer(r, code),
           UNCHANGED <<wallet, ledger, lock>>
    PROVE  IInv'
<1> USE DEF IInv
<1>1. pc'[r] = "idle" /\ req'[r] = None
  BY DEF Answer, TypeOK
<1>2. \A s \in Requests \ {r} :
         pc'[s] = pc[s] /\ req'[s] = req[s] /\ snap'[s] = snap[s]
  BY DEF Answer, TypeOK
<1>3. TypeOK'
  BY DEF Answer, TypeOK, Steps
<1>4. RequestsMatchSteps'
  BY <1>1, <1>2 DEF RequestsMatchSteps, InTransaction
<1>5. SnapshotStable'
  BY <1>1, <1>2 DEF SnapshotStable, Holding
<1>6. ChecksHold'
  BY <1>1, <1>2 DEF ChecksHold, Holding, NewBalance, Active
<1>7. KeysReserved'
  BY <1>1, <1>2 DEF KeysReserved
<1> QED
  BY <1>3, <1>4, <1>5, <1>6, <1>7

LEMMA InsertWalletKeepsIInv ==
    ASSUME IInv, NEW r \in Requests, InsertWallet(r)
    PROVE  IInv'
<1> DEFINE w == req[r].wallet
           row == [balance |-> req[r].amount, status |-> "ACTIVE", version |-> 0]
<1> USE DEF IInv
<1>1. pc[r] = "insertWallet"
  BY DEF InsertWallet
<1>2. req[r] \in Openings /\ w \in Wallets /\ req[r].amount \in Nat
  BY <1>1, OpeningsAreTyped DEF RequestsMatchSteps
<1>3. CASE Throw(r, "WALLET_ALREADY_EXISTS")
  BY <1>3, ThrowKeepsIInv DEF Replies
<1>4. CASE /\ wallet[w] = None
           /\ wallet' = [wallet EXCEPT ![w] = row]
           /\ \/ Goto(r, "opening") /\ UNCHANGED snap
              \/ \E code \in {"OK", "INTERNAL_ERROR"} : Answer(r, code)
           /\ UNCHANGED <<ledger, lock>>
  <2>1. row \in Row
    BY <1>2 DEF Row, Statuses
  <2>2. wallet' \in [Wallets -> Row \cup {None}]
    BY <1>4, <2>1 DEF TypeOK
  <2>3. /\ pc' \in [Requests -> Steps] /\ reply' \in [Requests -> Replies]
        /\ req' \in [Requests -> Submissions \cup {None}]
        /\ snap' \in [Requests -> Row \cup {None}]
    BY <1>4 DEF TypeOK, Goto, Answer, Steps, Replies
  <2>4. TypeOK'
    BY <1>4, <2>2, <2>3 DEF TypeOK
  <2>5. \/ pc'[r] = "opening" /\ req'[r] = req[r]
        \/ pc'[r] = "idle" /\ req'[r] = None
    BY <1>4 DEF Goto, Answer, TypeOK
  <2>6. \A s \in Requests \ {r} :
           pc'[s] = pc[s] /\ req'[s] = req[s] /\ snap'[s] = snap[s]
    BY <1>4 DEF Goto, Answer, TypeOK
  <2>7. RequestsMatchSteps'
    BY <1>2, <2>5, <2>6, OpeningsAreTyped DEF RequestsMatchSteps, InTransaction
  <2>8. SnapshotStable'
    <3> SUFFICES ASSUME NEW s \in Requests \ {r}, pc[s] \in Holding
                 PROVE  wallet'[req[s].wallet] = wallet[req[s].wallet]
      BY <1>4, <2>5, <2>6 DEF SnapshotStable, Holding
    <3>1. req[s].wallet # w
      BY <1>4 DEF SnapshotStable
    <3> QED
      BY <1>4, <3>1 DEF TypeOK
  <2>9. ChecksHold'
    BY <1>4, <2>5, <2>6 DEF ChecksHold, Holding, NewBalance, Active
  <2>10. KeysReserved'
    BY <1>4, <2>5, <2>6 DEF KeysReserved
  <2> QED
    BY <2>4, <2>7, <2>8, <2>9, <2>10
<1> QED
  BY <1>3, <1>4 DEF InsertWallet

LEMMA CreateOpeningEntryKeepsIInv ==
    ASSUME IInv, NEW r \in Requests, CreateOpeningEntry(r)
    PROVE  IInv'
<1> DEFINE q == req[r]
           entry == [wallet |-> q.wallet, amount |-> q.amount, after |-> q.amount]
<1> USE DEF IInv
<1>1. pc[r] = "opening"
  BY DEF CreateOpeningEntry
<1>2. q \in Openings
  BY <1>1 DEF RequestsMatchSteps
<1>3. CASE Throw(r, "DUPLICATE_LEDGER_ENTRY")
  BY <1>3, ThrowKeepsIInv DEF Replies
<1>4. CASE /\ ledger' = [ledger EXCEPT ![q.key] = entry]
           /\ \E code \in {"OK", "INTERNAL_ERROR"} : Answer(r, code)
           /\ UNCHANGED <<wallet, lock>>
  <2>1. entry \in Entry /\ entry # None
    BY <1>2, OpeningsAreTyped, NoneAssumption DEF Entry
  <2>2. pc'[r] = "idle" /\ req'[r] = None
    BY <1>4 DEF Answer, TypeOK
  <2>3. \A s \in Requests \ {r} :
           pc'[s] = pc[s] /\ req'[s] = req[s] /\ snap'[s] = snap[s]
    BY <1>4 DEF Answer, TypeOK
  <2>4. TypeOK'
    <3>1. ledger' \in [EntryKeys -> Entry \cup {None}]
      BY <1>2, <1>4, <2>1, OpeningsAreTyped DEF TypeOK
    <3>2. /\ pc' \in [Requests -> Steps] /\ reply' \in [Requests -> Replies]
          /\ req' \in [Requests -> Submissions \cup {None}]
          /\ snap' \in [Requests -> Row \cup {None}]
      BY <1>4 DEF TypeOK, Answer, Steps, Replies
    <3> QED
      BY <1>4, <3>1, <3>2 DEF TypeOK
  <2>5. RequestsMatchSteps'
    BY <2>2, <2>3 DEF RequestsMatchSteps, InTransaction
  <2>6. SnapshotStable'
    BY <1>4, <2>2, <2>3 DEF SnapshotStable, Holding
  <2>7. \A k \in EntryKeys : k # q.key => ledger'[k] = ledger[k]
    BY <1>4 DEF TypeOK
  <2>8. \A s \in Requests : pc[s] \in InTransaction =>
           req[s].key \in EntryKeys /\ req[s].key # q.key
    BY <1>2, PostsAreTyped, OpeningsAreTyped, KeysAssumption
       DEF RequestsMatchSteps
  <2>9. ChecksHold'
    BY <2>2, <2>3, <2>7, <2>8
       DEF ChecksHold, Holding, NewBalance, Active, InTransaction
  <2>10. KeysReserved'
    BY <2>2, <2>3, <2>7, <2>8 DEF KeysReserved, InTransaction
  <2> QED
    BY <2>4, <2>5, <2>6, <2>9, <2>10
<1> QED
  BY <1>3, <1>4 DEF CreateOpeningEntry

LEMMA CrashKeepsIInv == IInv /\ Crash => IInv'
<1> SUFFICES ASSUME IInv, Crash PROVE IInv'
  OBVIOUS
<1> USE DEF IInv, Crash
<1>1. TypeOK'
  BY DEF TypeOK, Steps, Replies
<1>2. \A r \in Requests : pc'[r] = "idle" /\ req'[r] = None
  OBVIOUS
<1> QED
  BY <1>1, <1>2 DEF RequestsMatchSteps, SnapshotStable, ChecksHold,
                    KeysReserved, Holding, InTransaction

LEMMA SetStatusKeepsIInv ==
    ASSUME IInv, NEW w \in Wallets, SetStatus(w)
    PROVE  IInv'
<1> USE DEF IInv
<1>1. PICK s \in Statuses :
         wallet' = [wallet EXCEPT ![w].status = s, ![w].version = @ + 1]
  BY DEF SetStatus
<1>2. lock[w] = None /\ UNCHANGED <<ledger, lock, pc, req, snap, reply>>
  BY DEF SetStatus, RowFree
<1>3. wallet[w] \in Row
  BY DEF SetStatus, TypeOK
<1>4. wallet'[w] = [wallet[w] EXCEPT !.status = s, !.version = @ + 1]
  BY <1>1 DEF TypeOK
<1>5. wallet'[w] \in Row
  <2>1. wallet[w].version + 1 \in Nat
    BY <1>3 DEF Row
  <2> QED
    BY <1>3, <1>4, <2>1 DEF Row
<1>6. TypeOK'
  BY <1>1, <1>2, <1>5 DEF TypeOK
<1>7. SnapshotStable'
  <2> SUFFICES ASSUME NEW r \in Requests, pc[r] \in Holding
               PROVE  wallet'[req[r].wallet] = wallet[req[r].wallet]
    BY <1>2 DEF SnapshotStable
  <2>1. req[r].wallet # w
    BY <1>2, NoneAssumption DEF SnapshotStable
  <2>2. req[r].wallet \in Wallets
    BY PostsAreTyped DEF RequestsMatchSteps, Holding, InTransaction
  <2> QED
    BY <1>1, <2>1, <2>2 DEF TypeOK
<1> QED
  BY <1>2, <1>6, <1>7
     DEF RequestsMatchSteps, ChecksHold, KeysReserved, Holding, NewBalance, Active

-----------------------------------------------------------------------------
LEMMA StatementKeepsIInv ==
    ASSUME IInv, NEW r \in Requests, Statement(r)
    PROVE  IInv'
<1>1. CASE Begin(r)
  BY <1>1, GotoKeepsIInv DEF Begin, Steps
<1>2. CASE FindByIdempotencyKey(r)
  BY <1>2, GotoKeepsIInv DEF FindByIdempotencyKey, Steps
<1>3. CASE ReturnDuplicate(r)
  BY <1>3, AnswerKeepsIInv DEF ReturnDuplicate, Replies
<1>4. CASE FindExisting(r)
  <2>1. CASE Answer(r, "OK") /\ UNCHANGED <<wallet, ledger, lock>>
    BY <2>1, AnswerKeepsIInv DEF Replies
  <2>2. CASE /\ pc[r] = "find" /\ Goto(r, "insertWallet")
             /\ UNCHANGED <<wallet, ledger, lock, snap>>
    BY <2>2, GotoKeepsIInv DEF Steps
  <2> QED
    BY <1>4, <2>1, <2>2 DEF FindExisting
<1> QED
  BY <1>1, <1>2, <1>3, <1>4, FindForUpdateKeepsIInv, UpdateBalanceKeepsIInv,
     CreateEntryKeepsIInv, CommitKeepsIInv, InsertWalletKeepsIInv,
     CreateOpeningEntryKeepsIInv
  DEF Statement

LEMMA NextKeepsIInv == IInv /\ [Next]_vars => IInv'
<1> SUFFICES ASSUME IInv, [Next]_vars PROVE IInv'
  OBVIOUS
<1>1. ASSUME NEW r \in Requests, Reject(r) PROVE IInv'
  BY <1>1, AnswerKeepsIInv DEF Reject, Replies
<1>2. ASSUME NEW r \in Requests, StatementFails(r) PROVE IInv'
  BY <1>2, ThrowKeepsIInv DEF StatementFails, Replies
<1>3. CASE UNCHANGED vars
  BY <1>3 DEF vars, IInv, TypeOK, RequestsMatchSteps, SnapshotStable,
              ChecksHold, KeysReserved, NewBalance, Active
<1> QED
  BY <1>1, <1>2, <1>3, ReceiveKeepsIInv, StatementKeepsIInv, CrashKeepsIInv,
     SetStatusKeepsIInv DEF Next

LEMMA Invariance == Spec => []IInv
  BY InitIInv, NextKeepsIInv, PTL DEF Spec

\* Every reachable state is well typed: no balance and no recorded
\* balance_after is negative, for any number of concurrent requests.
THEOREM TypeCorrect == Spec => []TypeOK
  BY Invariance, PTL DEF IInv

\* What debitWallet and creditWallet read FOR UPDATE is the committed row
\* until they commit or roll back.
THEOREM SnapshotsAreStable == Spec => []SnapshotStable
  BY Invariance, PTL DEF IInv

\* No step replaces or removes a committed ledger entry, so the first request
\* with an idempotency key is the only one that ever takes effect under it.
THEOREM LedgerAppendOnly == Spec => AppendOnly
<1> DEFINE Kept == \A k \in EntryKeys : ledger[k] # None => ledger'[k] = ledger[k]
<1>1. IInv /\ [Next]_vars => [Kept]_vars
  <2> SUFFICES ASSUME IInv, Next PROVE Kept
    OBVIOUS
  <2> USE DEF IInv
  <2>1. ASSUME NEW r \in Requests, Commit(r) PROVE Kept
    <3>1. ledger[req[r].key] = None
      BY <2>1 DEF Commit, KeysReserved
    <3> QED
      BY <2>1, <3>1 DEF Commit, TypeOK
  <2>2. ASSUME NEW r \in Requests, CreateOpeningEntry(r) PROVE Kept
    BY <2>2 DEF CreateOpeningEntry, KeyTaken, Throw, TypeOK
  <2>3. ASSUME NEW r \in Requests, Statement(r), ~Commit(r), ~CreateOpeningEntry(r)
        PROVE  UNCHANGED ledger
    BY <2>3 DEF Statement, Begin, FindByIdempotencyKey, ReturnDuplicate,
                FindForUpdate, UpdateBalance, CreateEntry, FindExisting,
                InsertWallet, Throw
  <2>4. CASE \/ \E r \in Requests : Receive(r) \/ Reject(r) \/ StatementFails(r)
             \/ Crash \/ \E w \in Wallets : SetStatus(w)
    BY <2>4 DEF Receive, Reject, StatementFails, Throw, Crash, SetStatus
  <2> QED
    BY <2>1, <2>2, <2>3, <2>4 DEF Next
<1> QED
  BY <1>1, Invariance, PTL DEF Spec, AppendOnly

-----------------------------------------------------------------------------
\* Refinement: a statement of the service is a step of AtomicLedger or
\* changes nothing its promise speaks of.

LEMMA AccountOfRow ==
    ASSUME TypeOK, NEW w \in Wallets
    PROVE  /\ accountOf[w] = None <=> wallet[w] = None
           /\ wallet[w] # None => /\ accountOf[w].balance = wallet[w].balance
                                  /\ accountOf[w].status = wallet[w].status
<1>1. CASE wallet[w] # None
  <2>1. wallet[w] \in Row
    BY <1>1 DEF TypeOK
  <2>2. [balance |-> wallet[w].balance, status |-> wallet[w].status] \in Account
    BY <2>1 DEF Row, Account
  <2> QED
    BY <1>1, <2>2, NoneAssumption DEF accountOf
<1> QED
  BY <1>1 DEF accountOf

LEMMA InitRefines == Init => Promise!Init
  BY DEF Init, Promise!Init, Promise!EntryKeys, EntryKeys, accountOf, openingSlots

\* Steps of a request that holds the promise's view of wallets and ledger.
LEMMA AnswerRefines ==
    ASSUME IInv, NEW r \in Requests, NEW code, Answer(r, code),
           UNCHANGED <<wallet, ledger>>
    PROVE  Promise!Answer(r, code) /\ UNCHANGED <<accountOf, ledger>>
<1>1. openingSlots' = openingSlots \ {r}
  BY DEF Answer, openingSlots, IInv, TypeOK
<1> QED
  BY <1>1 DEF Answer, Promise!Answer, accountOf

\* An error thrown inside a request is a refusal that is justified, or a
\* failure.
LEMMA ThrowRefines ==
    ASSUME IInv, NEW r \in Requests, pc[r] # "idle",
           NEW code, Throw(r, code),
           \/ code = "INTERNAL_ERROR"
           \/ code \in Promise!Refusals /\ Promise!Justified(req[r], code)
    PROVE  Promise!Refuse(r) \/ Promise!Fail(r)
<1>1. PICK c \in {code, "INTERNAL_ERROR"} : Answer(r, c)
  BY DEF Throw
<1>2. Promise!Answer(r, c) /\ UNCHANGED <<accountOf, ledger>>
  BY <1>1, AnswerRefines DEF Throw
<1>3. req[r] # None
  BY DEF IInv, RequestsMatchSteps
<1> QED
  BY <1>2, <1>3 DEF Promise!Refuse, Promise!Fail

LEMMA FailRefines ==
    ASSUME IInv, NEW r \in Requests, pc[r] # "idle", Throw(r, "INTERNAL_ERROR")
    PROVE  Promise!Fail(r)
<1>1. Answer(r, "INTERNAL_ERROR") /\ UNCHANGED <<wallet, ledger>>
  BY DEF Throw
<1>2. req[r] # None
  BY DEF IInv, RequestsMatchSteps
<1>3. Promise!Answer(r, "INTERNAL_ERROR") /\ UNCHANGED <<accountOf, ledger>>
  BY <1>1, AnswerRefines
<1> QED
  BY <1>2, <1>3 DEF Promise!Fail

LEMMA GotoRefines ==
    ASSUME IInv, NEW r \in Requests, NEW step, Goto(r, step),
           UNCHANGED <<wallet, ledger>>, pc[r] # "opening", step # "opening"
    PROVE  UNCHANGED Promise!vars
<1>1. openingSlots' = openingSlots
  BY DEF Goto, openingSlots, IInv, TypeOK
<1> QED
  BY <1>1 DEF Goto, Promise!vars, accountOf

LEMMA FindForUpdateRefines ==
    ASSUME IInv, NEW r \in Requests, FindForUpdate(r)
    PROVE  Promise!Refuse(r) \/ Promise!Fail(r) \/ UNCHANGED Promise!vars
<1> DEFINE w == req[r].wallet
<1>1. pc[r] = "lock" /\ req[r] \in Posts
  BY DEF FindForUpdate, IInv, RequestsMatchSteps, InTransaction
<1>2. /\ accountOf[w] = None <=> wallet[w] = None
      /\ wallet[w] # None => /\ accountOf[w].balance = wallet[w].balance
                             /\ accountOf[w].status = wallet[w].status
  BY <1>1, PostsAreTyped, AccountOfRow DEF IInv
<1>3. CASE wallet[w] = None /\ Throw(r, "WALLET_NOT_FOUND")
  BY <1>1, <1>2, <1>3, ThrowRefines DEF Promise!Justified, Promise!Refusals
<1>4. CASE /\ wallet[w] # None /\ ~Active(wallet[w])
           /\ Throw(r, "WALLET_NOT_ACTIVE")
  BY <1>1, <1>2, <1>4, ThrowRefines DEF Promise!Justified, Promise!Refusals, Active
<1>5. CASE /\ wallet[w] # None /\ ~Sufficient(r, wallet[w])
           /\ Throw(r, "INSUFFICIENT_BALANCE")
  <2>1. wallet[w].balance \in Nat /\ req[r].amount \in Int /\ req[r].op = "debit"
    BY <1>1, <1>5, PostsAreTyped DEF Sufficient, IInv, TypeOK, Row
  <2>2. accountOf[w].balance < req[r].amount
    BY <1>2, <1>5, <2>1 DEF Sufficient
  <2> QED
    BY <1>1, <1>2, <1>5, <2>1, <2>2, ThrowRefines
       DEF Promise!Justified, Promise!Refusals
<1>6. CASE Goto(r, "update") /\ UNCHANGED <<wallet, ledger>>
  BY <1>1, <1>6, GotoRefines
<1> QED
  BY <1>3, <1>4, <1>5, <1>6 DEF FindForUpdate

LEMMA UpdateBalanceRefines ==
    ASSUME IInv, NEW r \in Requests, UpdateBalance(r)
    PROVE  Promise!Refuse(r) \/ Promise!Fail(r) \/ UNCHANGED Promise!vars
<1>1. pc[r] = "update" /\ snap[r] = wallet[req[r].wallet]
  BY DEF UpdateBalance, IInv, SnapshotStable, Holding
<1>2. CASE Throw(r, "INTERNAL_ERROR")
  BY <1>1, <1>2, FailRefines
<1>3. CASE Goto(r, "insert") /\ UNCHANGED <<wallet, ledger>>
  BY <1>1, <1>3, GotoRefines
<1> QED
  BY <1>1, <1>2, <1>3 DEF UpdateBalance

LEMMA CreateEntryRefines ==
    ASSUME IInv, NEW r \in Requests, CreateEntry(r)
    PROVE  Promise!Refuse(r) \/ Promise!Fail(r) \/ UNCHANGED Promise!vars
<1>1. pc[r] = "insert"
  BY DEF CreateEntry
<1>2. CASE KeyTaken(r) /\ Throw(r, "DUPLICATE_LEDGER_ENTRY")
  BY <1>1, <1>2, ThrowRefines DEF KeyTaken, Promise!Justified, Promise!Refusals
<1>3. CASE Goto(r, "commit") /\ UNCHANGED <<wallet, ledger>>
  BY <1>1, <1>3, GotoRefines
<1> QED
  BY <1>2, <1>3 DEF CreateEntry

LEMMA CommitRefines ==
    ASSUME IInv, NEW r \in Requests, Commit(r)
    PROVE  Promise!Apply(r)
<1> DEFINE q == req[r]
           w == q.wallet
<1>1. /\ pc[r] = "commit"
      /\ wallet' = [wallet EXCEPT ![w].balance = NewBalance(r), ![w].version = @ + 1]
      /\ ledger' = [ledger EXCEPT ![q.key] =
                       [wallet |-> w, amount |-> EntryAmount(r),
                        after |-> BalanceAfter(r)]]
  BY DEF Commit
<1>2. q \in Posts /\ w \in Wallets /\ q.amount \in Int
  BY <1>1, PostsAreTyped DEF IInv, RequestsMatchSteps, InTransaction
<1>3. /\ snap[r] = wallet[w] /\ wallet[w] \in Row /\ wallet[w] # None
      /\ Active(wallet[w]) /\ NewBalance(r) >= 0 /\ ledger[q.key] = None
  BY <1>1, <1>2 DEF IInv, SnapshotStable, ChecksHold, KeysReserved, Holding, TypeOK
<1>4. /\ accountOf[w] = [balance |-> wallet[w].balance, status |-> wallet[w].status]
      /\ accountOf[w] # None
  BY <1>2, <1>3, AccountOfRow DEF accountOf, IInv
<1>5. /\ EntryAmount(r) = Promise!Delta(q)
      /\ NewBalance(r) = accountOf[w].balance + Promise!Delta(q)
      /\ BalanceAfter(r) = NewBalance(r)
  BY <1>2, <1>3, <1>4 DEF EntryAmount, Promise!Delta, NewBalance, Row, BalanceAfter
<1>6. accountOf' = [accountOf EXCEPT ![w].balance = @ + Promise!Delta(q)]
  <2>1. /\ wallet'[w].balance = NewBalance(r) /\ wallet'[w].status = wallet[w].status
    BY <1>1, <1>2, <1>3 DEF IInv, TypeOK, Row
  <2>2. wallet'[w] # None
    BY CommitKeepsIInv, <1>1, <1>2, <1>3, <2>1, NoneAssumption
       DEF IInv, TypeOK, Row
  <2>3. accountOf'[w] = [balance |-> NewBalance(r), status |-> wallet[w].status]
    BY <1>2, <2>1, <2>2 DEF accountOf
  <2>4. \A v \in Wallets \ {w} : accountOf'[v] = accountOf[v]
    BY <1>1, <1>2 DEF accountOf, IInv, TypeOK
  <2>5. accountOf'[w] = [accountOf[w] EXCEPT !.balance = @ + Promise!Delta(q)]
    BY <2>3, <1>4, <1>5
  <2> QED
    BY <2>4, <2>5, <1>2 DEF accountOf
<1>7. PICK code \in {"OK", "INTERNAL_ERROR"} : Answer(r, code)
  BY DEF Commit
<1>8. Promise!Answer(r, code)
  <2>1. openingSlots' = openingSlots \ {r}
    BY <1>7 DEF Answer, openingSlots, IInv, TypeOK
  <2> QED
    BY <1>7, <2>1 DEF Answer, Promise!Answer
<1>9. q \in Promise!Posts
  BY <1>2 DEF Posts, Promise!Posts
<1>10. ledger' = [ledger EXCEPT ![q.key] =
                     [wallet |-> w, amount |-> Promise!Delta(q),
                      after |-> accountOf[w].balance + Promise!Delta(q)]]
  BY <1>1, <1>5
<1>11. accountOf[w].status = "ACTIVE" /\ accountOf[w].balance + Promise!Delta(q) >= 0
  BY <1>3, <1>4, <1>5 DEF Active
<1> QED
  BY <1>3, <1>4, <1>6, <1>7, <1>8, <1>9, <1>10, <1>11 DEF Promise!Apply

LEMMA OpeningStepsRefine ==
    ASSUME IInv, NEW r \in Requests,
           FindExisting(r) \/ InsertWallet(r) \/ CreateOpeningEntry(r)
    PROVE  \/ Promise!Exists(r) \/ Promise!OpenWallet(r) \/ Promise!RecordOpening(r)
           \/ Promise!Refuse(r) \/ Promise!Fail(r) \/ UNCHANGED Promise!vars
<1> DEFINE q == req[r]
           w == q.wallet
           row == [balance |-> q.amount, status |-> "ACTIVE", version |-> 0]
<1>1. /\ pc[r] \in {"find", "insertWallet", "opening"}
      /\ q \in Openings /\ w \in Wallets /\ q.amount \in Nat /\ q.op = "create"
      /\ pc[r] # "idle"
  BY OpeningsAreTyped DEF FindExisting, InsertWallet, CreateOpeningEntry, IInv,
     RequestsMatchSteps
<1>2. q \in Promise!Openings
  BY <1>1 DEF Openings, Promise!Openings
<1>3. accountOf[w] = None <=> wallet[w] = None
  BY <1>1, AccountOfRow DEF IInv
<1>4. CASE FindExisting(r)
  <2>1. CASE /\ wallet[w] # None /\ Answer(r, "OK") /\ UNCHANGED <<wallet, ledger>>
    BY <1>2, <1>3, <2>1, AnswerRefines DEF Promise!Exists
  <2>2. CASE /\ Goto(r, "insertWallet") /\ UNCHANGED <<wallet, ledger>>
    BY <1>4, <2>2, GotoRefines DEF FindExisting
  <2> QED
    BY <1>4, <2>1, <2>2 DEF FindExisting
<1>5. CASE InsertWallet(r)
  <2>1. CASE wallet[w] # None /\ Throw(r, "WALLET_ALREADY_EXISTS")
    BY <1>1, <1>3, <2>1, ThrowRefines DEF Promise!Justified, Promise!Refusals
  <2>2. CASE /\ wallet[w] = None /\ wallet' = [wallet EXCEPT ![w] = row]
             /\ UNCHANGED ledger
    <3>1. accountOf' = [accountOf EXCEPT ![w] =
                          [balance |-> q.amount, status |-> "ACTIVE"]]
      <4>1. row \in Row
        BY <1>1 DEF Row, Statuses
      <4>2. wallet'[w] = row /\ row # None
        BY <1>1, <2>2, <4>1, NoneAssumption DEF IInv, TypeOK
      <4>3. accountOf'[w] = [balance |-> q.amount, status |-> "ACTIVE"]
        BY <1>1, <4>2 DEF accountOf
      <4>4. \A v \in Wallets \ {w} : accountOf'[v] = accountOf[v]
        BY <1>1, <2>2 DEF accountOf, IInv, TypeOK
      <4> QED
        BY <4>3, <4>4 DEF accountOf
    <3>2. CASE q.amount > 0 /\ Goto(r, "opening")
      <4>1. openingSlots' = openingSlots \cup {r} /\ UNCHANGED <<req, reply>>
        BY <3>2 DEF Goto, openingSlots, IInv, TypeOK
      <4> QED
        BY <1>2, <1>3, <2>2, <3>1, <3>2, <4>1 DEF Promise!OpenWallet
    <3>3. ASSUME NEW code, Answer(r, code) PROVE Promise!Answer(r, code)
      <4>1. openingSlots' = openingSlots \ {r}
        BY <3>3 DEF Answer, openingSlots, IInv, TypeOK
      <4> QED
        BY <3>3, <4>1 DEF Answer, Promise!Answer
    <3>4. CASE q.amount = 0 /\ Answer(r, "OK")
      BY <1>2, <1>3, <2>2, <3>1, <3>3, <3>4 DEF Promise!OpenWallet
    <3>5. CASE Answer(r, "INTERNAL_ERROR")
      BY <1>2, <1>3, <2>2, <3>1, <3>3, <3>5 DEF Promise!OpenWallet
    <3> QED
      BY <1>5, <2>2, <3>2, <3>4, <3>5 DEF InsertWallet
  <2> QED
    BY <1>5, <2>1, <2>2 DEF InsertWallet
<1>6. CASE CreateOpeningEntry(r)
  <2>1. CASE KeyTaken(r) /\ Throw(r, "DUPLICATE_LEDGER_ENTRY")
    BY <1>1, <2>1, ThrowRefines DEF KeyTaken, Promise!Justified, Promise!Refusals
  <2>2. CASE /\ ~KeyTaken(r)
             /\ ledger' = [ledger EXCEPT ![q.key] =
                             [wallet |-> w, amount |-> q.amount, after |-> q.amount]]
             /\ \E code \in {"OK", "INTERNAL_ERROR"} : Answer(r, code)
             /\ UNCHANGED wallet
    <3>1. PICK code \in {"OK", "INTERNAL_ERROR"} : Answer(r, code)
      BY <2>2
    <3>2. Promise!Answer(r, code)
      <4>1. openingSlots' = openingSlots \ {r}
        BY <3>1 DEF Answer, openingSlots, IInv, TypeOK
      <4> QED
        BY <3>1, <4>1 DEF Answer, Promise!Answer
    <3>3. r \in openingSlots /\ ledger[q.key] = None /\ UNCHANGED accountOf
      BY <1>6, <2>2 DEF CreateOpeningEntry, openingSlots, KeyTaken, accountOf
    <3> QED
      BY <2>2, <3>1, <3>2, <3>3 DEF Promise!RecordOpening
  <2> QED
    BY <1>6, <2>1, <2>2 DEF CreateOpeningEntry
<1> QED
  BY <1>4, <1>5, <1>6

LEMMA SetStatusRefines ==
    ASSUME IInv, NEW w \in Wallets, SetStatus(w)
    PROVE  Promise!SetStatus(w)
<1>1. PICK s \in Statuses :
         wallet' = [wallet EXCEPT ![w].status = s, ![w].version = @ + 1]
  BY DEF SetStatus
<1>2. wallet[w] # None /\ wallet[w] \in Row
      /\ UNCHANGED <<ledger, lock, pc, req, snap, reply>>
  BY DEF SetStatus, IInv, TypeOK
<1>3. accountOf[w] # None /\ accountOf[w] =
         [balance |-> wallet[w].balance, status |-> wallet[w].status]
  BY <1>2, AccountOfRow DEF accountOf, IInv
<1>4. accountOf' = [accountOf EXCEPT ![w].status = s]
  <2>1. wallet'[w].balance = wallet[w].balance /\ wallet'[w].status = s
    BY <1>1, <1>2 DEF IInv, TypeOK, Row
  <2>2. wallet'[w] # None
    <3>1. wallet'[w] = [wallet[w] EXCEPT !.status = s, !.version = @ + 1]
      BY <1>1 DEF IInv, TypeOK
    <3>2. wallet[w].version + 1 \in Nat
      BY <1>2 DEF Row
    <3>3. wallet'[w] \in Row
      BY <1>2, <3>1, <3>2 DEF Row
    <3> QED
      BY <3>3, NoneAssumption
  <2>3. accountOf'[w] = [balance |-> wallet[w].balance, status |-> s]
    BY <2>1, <2>2 DEF accountOf
  <2>4. \A v \in Wallets \ {w} : accountOf'[v] = accountOf[v]
    BY <1>1 DEF accountOf, IInv, TypeOK
  <2>5. accountOf'[w] = [accountOf[w] EXCEPT !.status = s]
    BY <1>3, <2>3
  <2> QED
    BY <2>4, <2>5 DEF accountOf
<1>5. UNCHANGED openingSlots
  BY <1>2 DEF openingSlots
<1>6. s \in Promise!Statuses
  BY DEF Statuses, Promise!Statuses
<1> QED
  BY <1>2, <1>3, <1>4, <1>5, <1>6 DEF Promise!SetStatus

LEMMA NextRefines == IInv /\ [Next]_vars => [Promise!Next]_(Promise!vars)
<1> SUFFICES ASSUME IInv, [Next]_vars PROVE Promise!Next \/ UNCHANGED Promise!vars
  OBVIOUS
<1>1. ASSUME NEW r \in Requests, Receive(r) PROVE Promise!Submit(r)
  <2>1. PICK q \in Submissions :
           /\ req' = [req EXCEPT ![r] = q]
           /\ pc' = [pc EXCEPT ![r] = IF q.op = "create" THEN "find" ELSE "begin"]
    BY <1>1 DEF Receive
  <2>2. q \in Promise!Posts \cup Promise!Openings
    BY DEF Submissions, Posts, Openings, Promise!Posts, Promise!Openings
  <2>3. openingSlots' = openingSlots
    BY <1>1, <2>1 DEF Receive, openingSlots, IInv, TypeOK
  <2>4. req[r] = None /\ UNCHANGED <<accountOf, ledger>>
           /\ reply' = [reply EXCEPT ![r] = "WAITING"]
    BY <1>1 DEF Receive, accountOf, IInv, RequestsMatchSteps
  <2> QED
    BY <2>1, <2>2, <2>3, <2>4 DEF Promise!Submit
<1>2. ASSUME NEW r \in Requests, Reject(r) PROVE Promise!Reject(r)
  BY <1>2, AnswerRefines DEF Reject, Promise!Reject, IInv, RequestsMatchSteps
<1>3. ASSUME NEW r \in Requests, StatementFails(r) PROVE Promise!Fail(r)
  BY <1>3, FailRefines DEF StatementFails
<1>4. ASSUME NEW r \in Requests, Begin(r) \/ FindByIdempotencyKey(r)
      PROVE  UNCHANGED Promise!vars
  BY <1>4, GotoRefines DEF Begin, FindByIdempotencyKey
<1>5. ASSUME NEW r \in Requests, ReturnDuplicate(r)
      PROVE  Promise!Replay(r) \/ Promise!Fail(r)
  <2>1. /\ req[r] \in Posts /\ req[r].wallet \in Wallets /\ req[r] # None
        /\ ledger[req[r].key] # None
    BY <1>5, PostsAreTyped
       DEF ReturnDuplicate, IInv, RequestsMatchSteps, InTransaction, ChecksHold
  <2>2. accountOf[req[r].wallet] = None <=> wallet[req[r].wallet] = None
    BY <2>1, AccountOfRow DEF IInv
  <2>3. req[r] \in Promise!Posts
    BY <2>1 DEF Posts, Promise!Posts
  <2>4. CASE wallet[req[r].wallet] = None
    BY <1>5, <2>1, <2>4, AnswerRefines DEF ReturnDuplicate, Promise!Fail
  <2>5. CASE wallet[req[r].wallet] # None
    BY <1>5, <2>1, <2>2, <2>3, <2>5, AnswerRefines DEF ReturnDuplicate, Promise!Replay
  <2> QED
    BY <2>4, <2>5
<1>6. CASE Crash
  <2>1. openingSlots' = {} /\ UNCHANGED <<accountOf, ledger>>
    BY <1>6 DEF Crash, openingSlots, accountOf
  <2>2. \A r \in Requests : pc[r] = "idle" <=> req[r] = None
    BY DEF IInv, RequestsMatchSteps
  <2>3. reply' = [r \in Requests |-> IF req[r] = None THEN reply[r] ELSE "DROPPED"]
    BY <1>6, <2>2 DEF Crash
  <2> QED
    BY <1>6, <2>1, <2>3 DEF Crash, Promise!DropAll, Promise!Next
<1>7. CASE UNCHANGED vars
  BY <1>7 DEF vars, Promise!vars, accountOf, openingSlots
<1>8. ASSUME NEW r \in Requests, Receive(r) \/ Reject(r) \/ Statement(r) \/ StatementFails(r)
      PROVE  Promise!Serve(r) \/ UNCHANGED Promise!vars
  BY <1>1, <1>2, <1>3, <1>4, <1>5, <1>8, FindForUpdateRefines,
     UpdateBalanceRefines, CreateEntryRefines, CommitRefines, OpeningStepsRefine
  DEF Statement, Promise!Serve
<1> QED
  BY <1>6, <1>7, <1>8, SetStatusRefines DEF Next, Promise!Next

\* The service implements its promise: every request is decided at one
\* instant on the balances and the ledger of that instant, a refusal tells
\* the truth about it, and CONCURRENT_MODIFICATION is never answered.
THEOREM Implementation == Spec => ImplementsAtomicLedger
  BY InitRefines, NextRefines, Invariance, PTL
  DEF Spec, ImplementsAtomicLedger, Promise!Spec

-----------------------------------------------------------------------------
\* Waiting: every wait is for a transaction that is further than its waiter.

\* A row lock belongs to a transaction on that row that is past the wait for it.
LocksAreHeld ==
    \A w \in Wallets : lock[w] # None =>
        pc[lock[w]] \in Holding /\ req[lock[w]].wallet = w

LEMMA AnswerKeepsLocks ==
    ASSUME IInv, LocksAreHeld, NEW r \in Requests, NEW code, Answer(r, code),
           Unlock(r) \/ (lock' = lock /\ pc[r] \notin Holding)
    PROVE  LocksAreHeld'
<1> SUFFICES ASSUME NEW w \in Wallets, lock'[w] # None
             PROVE  pc'[lock'[w]] \in Holding /\ req'[lock'[w]].wallet = w
  BY DEF LocksAreHeld
<1>1. lock'[w] = lock[w] /\ lock[w] \in Requests /\ lock[w] # r
  BY DEF LocksAreHeld, Unlock, IInv, TypeOK
<1>2. pc'[lock[w]] = pc[lock[w]] /\ req'[lock[w]] = req[lock[w]]
  BY <1>1 DEF Answer, IInv, TypeOK
<1> QED
  BY <1>1, <1>2 DEF LocksAreHeld

LEMMA GotoKeepsLocks ==
    ASSUME IInv, LocksAreHeld, NEW r \in Requests, NEW step, Goto(r, step),
           \/ step \in Holding /\ lock' = [lock EXCEPT ![req[r].wallet] = r]
           \/ step \in Holding /\ lock' = lock
           \/ pc[r] \notin Holding /\ lock' = lock
    PROVE  LocksAreHeld'
<1> SUFFICES ASSUME NEW w \in Wallets, lock'[w] # None
             PROVE  pc'[lock'[w]] \in Holding /\ req'[lock'[w]].wallet = w
  BY DEF LocksAreHeld
<1>1. pc' = [pc EXCEPT ![r] = step] /\ req' = req
  BY DEF Goto
<1>2. CASE lock'[w] = r
  <2>1. CASE lock'[w] = lock[w]
    BY <1>1, <1>2, <2>1 DEF LocksAreHeld, IInv, TypeOK
  <2>2. CASE lock'[w] # lock[w]
    BY <1>1, <1>2, <2>2 DEF IInv, TypeOK
  <2> QED
    BY <2>1, <2>2
<1>3. CASE lock'[w] # r
  <2>1. lock'[w] = lock[w] /\ lock[w] \in Requests
    BY <1>3 DEF IInv, TypeOK
  <2> QED
    BY <1>1, <1>3, <2>1 DEF LocksAreHeld, IInv, TypeOK
<1> QED
  BY <1>2, <1>3

LEMMA NextKeepsLocks == IInv /\ LocksAreHeld /\ [Next]_vars => LocksAreHeld'
<1> SUFFICES ASSUME IInv, LocksAreHeld, [Next]_vars PROVE LocksAreHeld'
  OBVIOUS
<1>1. ASSUME NEW r \in Requests, NEW code, Throw(r, code)
      PROVE  LocksAreHeld'
  <2>1. PICK c \in {code, "INTERNAL_ERROR"} : Answer(r, c)
    BY <1>1 DEF Throw
  <2>2. Unlock(r)
    BY <1>1 DEF Throw
  <2> QED
    BY <2>1, <2>2, AnswerKeepsLocks
<1>2. ASSUME NEW r \in Requests, Receive(r)
      PROVE  LocksAreHeld'
  <2> SUFFICES ASSUME NEW w \in Wallets, lock'[w] # None
               PROVE  pc'[lock'[w]] \in Holding /\ req'[lock'[w]].wallet = w
    BY DEF LocksAreHeld
  <2>1. lock' = lock /\ lock[w] \in Requests /\ lock[w] # r
    BY <1>2 DEF Receive, LocksAreHeld, Holding, IInv, TypeOK
  <2>2. pc'[lock[w]] = pc[lock[w]] /\ req'[lock[w]] = req[lock[w]]
    BY <1>2, <2>1 DEF Receive, IInv, TypeOK
  <2> QED
    BY <2>1, <2>2 DEF LocksAreHeld
<1>3. ASSUME NEW r \in Requests,
             \/ Reject(r) \/ ReturnDuplicate(r) \/ Commit(r)
             \/ FindExisting(r) /\ wallet[req[r].wallet] # None
             \/ InsertWallet(r) /\ \E code : Answer(r, code) /\ lock' = lock
             \/ CreateOpeningEntry(r) /\ ~KeyTaken(r)
      PROVE  LocksAreHeld'
  <2>1. \E code : Answer(r, code)
    BY <1>3 DEF Reject, ReturnDuplicate, Commit, FindExisting, CreateOpeningEntry
  <2>2. Unlock(r) \/ (lock' = lock /\ pc[r] \notin Holding)
    <3>1. CASE Reject(r) \/ ReturnDuplicate(r) \/ FindExisting(r)
      BY <3>1 DEF Reject, ReturnDuplicate, FindExisting, Holding
    <3>2. CASE Commit(r)
      BY <3>2 DEF Commit
    <3>3. CASE InsertWallet(r) /\ lock' = lock
      BY <3>3 DEF InsertWallet, Holding
    <3>4. CASE CreateOpeningEntry(r) /\ ~KeyTaken(r)
      BY <3>4 DEF CreateOpeningEntry, Holding
    <3> QED
      BY <1>3, <3>1, <3>2, <3>3, <3>4
  <2> QED
    BY <2>1, <2>2, AnswerKeepsLocks
<1>4. ASSUME NEW r \in Requests,
             \/ Begin(r) \/ FindByIdempotencyKey(r)
             \/ FindExisting(r) /\ wallet[req[r].wallet] = None
             \/ InsertWallet(r) /\ Goto(r, "opening") /\ lock' = lock
      PROVE  LocksAreHeld'
  BY <1>4, GotoKeepsLocks DEF Begin, FindByIdempotencyKey, FindExisting,
     InsertWallet, Holding
<1>5. ASSUME NEW r \in Requests, FindForUpdate(r) \/ UpdateBalance(r) \/ CreateEntry(r)
      PROVE  LocksAreHeld'
  BY <1>1, <1>5, GotoKeepsLocks DEF FindForUpdate, UpdateBalance, CreateEntry, Holding
<1>6. ASSUME NEW r \in Requests, InsertWallet(r)
      PROVE  LocksAreHeld'
  BY <1>1, <1>3, <1>4, <1>6 DEF InsertWallet
<1>7. ASSUME NEW r \in Requests, CreateOpeningEntry(r) \/ FindExisting(r)
      PROVE  LocksAreHeld'
  BY <1>1, <1>3, <1>4, <1>7 DEF CreateOpeningEntry
<1>8. ASSUME NEW r \in Requests, StatementFails(r)
      PROVE  LocksAreHeld'
  BY <1>1, <1>8 DEF StatementFails
<1>9. CASE Crash
  BY <1>9 DEF Crash, LocksAreHeld
<1>10. CASE (\E w \in Wallets : SetStatus(w)) \/ UNCHANGED vars
  BY <1>10 DEF SetStatus, vars, LocksAreHeld
<1> QED
  BY <1>2, <1>3, <1>4, <1>5, <1>6, <1>7, <1>8, <1>9, <1>10 DEF Next, Statement

\* A request that waits for a row waits for a holder, one that waits for a key
\* for a transaction about to commit, and one that waits for a client for a
\* transaction.
LEMMA WaitsEnd == IInv /\ LocksAreHeld => NoDeadlock
<1> SUFFICES ASSUME IInv, LocksAreHeld, NEW r \in Requests, pc[r] # "idle"
             PROVE  \E s \in Requests : GoesOn(s)
  BY DEF NoDeadlock
<1>1. ASSUME NEW s \in Requests, pc[s] = "insert"
      PROVE  \E t \in Requests : GoesOn(t)
  BY <1>1 DEF GoesOn, KeyInFlight
<1>2. ASSUME NEW s \in Requests, pc[s] \in Holding
      PROVE  \E t \in Requests : GoesOn(t)
  <2>1. CASE pc[s] = "update"
    BY <1>2, <2>1 DEF GoesOn, IInv, SnapshotStable
  <2>2. CASE pc[s] = "commit"
    BY <2>2 DEF GoesOn
  <2> QED
    BY <1>1, <1>2, <2>1, <2>2 DEF Holding
<1>3. ASSUME NEW s \in Requests, pc[s] = "lock"
      PROVE  \E t \in Requests : GoesOn(t)
  <2>1. PICK w \in Wallets : w = req[s].wallet
    BY <1>3, PostsAreTyped DEF IInv, RequestsMatchSteps, InTransaction
  <2>2. CASE lock[w] = None
    BY <1>3, <2>1, <2>2 DEF GoesOn, RowFree
  <2>3. CASE lock[w] # None
    BY <1>2, <2>3 DEF LocksAreHeld, IInv, TypeOK
  <2> QED
    BY <2>2, <2>3
<1>4. ASSUME NEW s \in Requests, pc[s] \in InTransaction
      PROVE  \E t \in Requests : GoesOn(t)
  <2>1. CASE pc[s] \in {"check", "duplicate"}
    BY <2>1 DEF GoesOn
  <2> QED
    BY <1>2, <1>3, <1>4, <2>1 DEF InTransaction, Holding
<1>5. CASE \A s \in Requests : pc[s] \notin InTransaction
  <2>1. {s \in Requests : pc[s] \in InTransaction} = {}
    BY <1>5
  <2>2. ClientAvailable
    BY <2>1, FS_EmptySet, PoolAssumption DEF ClientAvailable
  <2>3. pc[r] \in {"begin", "find", "insertWallet", "opening"}
    BY <1>5 DEF IInv, TypeOK, Steps, InTransaction
  <2> QED
    BY <2>2, <2>3 DEF GoesOn
<1> QED
  BY <1>4, <1>5

\* No deadlock, for any number of requests, wallets, keys and clients: a
\* request in flight that waits is waited out by one that does not.
THEOREM WaitsAreAcyclic == Spec => []NoDeadlock
<1>1. Init => IInv /\ LocksAreHeld
  BY InitIInv DEF Init, LocksAreHeld
<1> QED
  BY <1>1, NextKeepsIInv, NextKeepsLocks, WaitsEnd, PTL DEF Spec

-----------------------------------------------------------------------------
\* Balances and the ledger: the balance of a wallet is the sum of its entries
\* and of the opening amount still to be recorded.

\* A request that owes an opening entry owes it alone, to a wallet whose row
\* is there and whose opening entry is not.
OpeningsOwed ==
    \A r \in Requests : pc[r] = "opening" =>
        /\ wallet[req[r].wallet] # None
        /\ ledger[req[r].wallet] = None
        /\ req[r].amount > 0
        /\ \A s \in Requests \ {r} :
              pc[s] = "opening" => req[s].wallet # req[r].wallet

\* Every entry is about a wallet that has a row, an opening entry about the
\* wallet whose key it has.
EntriesHaveRows ==
    \A k \in EntryKeys : ledger[k] # None =>
        /\ wallet[ledger[k].wallet] # None
        /\ k \in Wallets => ledger[k].wallet = k

\* Every step writes at most one entry.
LedgerFinite == IsFiniteSet({k \in EntryKeys : ledger[k] # None})

SumInv == IInv /\ OpeningsOwed /\ EntriesHaveRows /\ LedgerFinite /\ Reconciled

\* A ledger sum is a sum of integers over a finite set, whatever the ledger.
LEMMA LedgerSumTyped ==
    ASSUME TypeOK, LedgerFinite, NEW w \in Wallets
    PROVE  /\ IsFiniteSet(Entries(w)) /\ LedgerSum(w) \in Int
           /\ \A k \in Entries(w) : ledger[k].amount \in Int
<1> DEFINE f == [k \in Entries(w) |-> ledger[k].amount]
<1>1. IsFiniteSet(Entries(w))
  <2>1. Entries(w) \subseteq {k \in EntryKeys : ledger[k] # None}
    BY DEF Entries
  <2> QED
    BY <2>1, FS_Subset DEF LedgerFinite
<1>2. \A k \in Entries(w) : ledger[k].amount \in Int
  BY DEF Entries, TypeOK, Entry
<1>3. SumFunctionOnSet(f, Entries(w)) \in Int
  <2>1. \A k \in Entries(w) : f[k] \in Int
    BY <1>2
  <2> HIDE DEF f
  <2> QED
    BY <1>1, <2>1, SumInt
<1> QED
  BY <1>1, <1>2, <1>3 DEF LedgerSum, SumFunction

\* Nothing is owed to a wallet, or one request owes it its opening amount.
LEMMA OneOwes ==
    ASSUME IInv, OpeningsOwed, NEW w \in Wallets
    PROVE  \/ Owing(w) = {} /\ Owed(w) = 0
           \/ \E r \in Requests : /\ pc[r] = "opening" /\ req[r].wallet = w
                                  /\ Owing(w) = {r} /\ Owed(w) = req[r].amount
                                  /\ req[r].amount \in Amounts /\ req[r].amount > 0
<1> DEFINE f == [r \in Owing(w) |-> req[r].amount]
<1>1. Owed(w) = SumFunctionOnSet(f, Owing(w))
  BY DEF Owed, SumFunction
<1>2. CASE Owing(w) = {}
  <2> HIDE DEF f
  <2> QED
    BY <1>1, <1>2, SumEmpty
<1>3. CASE Owing(w) # {}
  <2>1. PICK r \in Requests : pc[r] = "opening" /\ req[r].wallet = w
    BY <1>3 DEF Owing
  <2>2. Owing(w) = {r}
    BY <2>1 DEF Owing, OpeningsOwed
  <2>3. req[r] \in Openings
    BY <2>1 DEF IInv, RequestsMatchSteps
  <2>4. req[r].amount \in Amounts /\ req[r].amount > 0 /\ req[r].amount \in Int
    BY <2>1, <2>3, AmountsAssumption DEF Openings, OpeningsOwed
  <2>5. f[r] = req[r].amount
    BY <2>2
  <2>6. SumFunctionOnSet(f, {r}) = req[r].amount
    <3> HIDE DEF f
    <3> QED
      BY <2>4, <2>5, SumSingleton
  <2> QED
    BY <1>1, <2>1, <2>2, <2>4, <2>6
<1> QED
  BY <1>2, <1>3

LEMMA OwedTyped ==
    ASSUME IInv, OpeningsOwed, NEW w \in Wallets
    PROVE  Owed(w) \in Int
<1>1. CASE Owed(w) = 0
  BY <1>1
<1>2. CASE Owed(w) \in Amounts
  BY <1>2, AmountsAssumption
<1> QED
  BY <1>1, <1>2, OneOwes

LEMMA InitSumInv == Init => SumInv
<1> SUFFICES ASSUME Init PROVE SumInv
  OBVIOUS
<1>1. {k \in EntryKeys : ledger[k] # None} = {}
  BY DEF Init
<1>2. LedgerFinite
  BY <1>1, FS_EmptySet DEF LedgerFinite
<1>3. OpeningsOwed /\ EntriesHaveRows /\ Reconciled
  BY DEF Init, OpeningsOwed, EntriesHaveRows, Reconciled
<1> QED
  BY <1>2, <1>3, InitIInv DEF SumInv

\* A step that posts nothing and opens no wallet: balances and ledger stay,
\* and an opening request goes on as it was or is lost.
LEMMA NothingPosted ==
    ASSUME SumInv, IInv', ledger' = ledger,
           \A w \in Wallets : /\ wallet'[w] = None <=> wallet[w] = None
                              /\ wallet[w] # None => wallet'[w].balance = wallet[w].balance,
           \A r \in Requests : pc'[r] = "opening" => pc[r] = "opening" /\ req'[r] = req[r]
    PROVE  SumInv' /\ GapsKept
<1> USE DEF SumInv
<1>1. \A r \in Requests : pc[r] = "opening" => req[r].wallet \in Wallets
  BY OpeningsAreTyped DEF IInv, RequestsMatchSteps
<1>2. OpeningsOwed'
  BY <1>1 DEF OpeningsOwed
<1>3. EntriesHaveRows'
  <2>1. \A k \in EntryKeys : ledger[k] # None => ledger[k].wallet \in Wallets
    BY DEF IInv, TypeOK, Entry
  <2> QED
    BY <2>1 DEF EntriesHaveRows
<1>4. LedgerFinite'
  BY DEF LedgerFinite
<1>5. ASSUME NEW w \in Wallets, wallet[w] # None
      PROVE  /\ LedgerSum(w)' = LedgerSum(w) /\ LedgerSum(w) \in Int
             /\ wallet[w].balance \in Int /\ Owed(w) \in Int
             /\ \/ Owed(w)' = Owed(w)
                \/ /\ Owed(w)' = 0
                   /\ Owed(w) \in {a \in Amounts : a > 0}
                   /\ ledger[w] = None
                   /\ wallet[w].balance = LedgerSum(w) + Owed(w)
  <2>1. LedgerSum(w)' = LedgerSum(w) /\ LedgerSum(w) \in Int
    <3>1. LedgerSum(w)' = LedgerSum(w)
      BY DEF LedgerSum, Entries
    <3> QED
      BY <3>1, LedgerSumTyped DEF IInv
  <2>2. wallet[w].balance \in Int /\ Owed(w) \in Int
    <3>1. wallet[w] \in Row
      BY <1>5 DEF IInv, TypeOK
    <3> QED
      BY <3>1, OwedTyped DEF Row
  <2>3. CASE Owing(w)' = {}
    <3> DEFINE f == [r \in {} |-> req'[r].amount]
    <3>1. Owed(w)' = SumFunctionOnSet(f, {})
      BY <2>3 DEF Owed, SumFunction
    <3>2. Owed(w)' = 0
      <4> HIDE DEF f
      <4> QED
        BY <3>1, SumEmpty
    <3>3. CASE Owed(w) = 0
      BY <2>1, <2>2, <3>2, <3>3
    <3>4. CASE \E r \in Requests : /\ pc[r] = "opening" /\ req[r].wallet = w
                                   /\ Owed(w) = req[r].amount
                                   /\ req[r].amount \in Amounts /\ req[r].amount > 0
      <4>1. Owed(w) \in {a \in Amounts : a > 0} /\ ledger[w] = None
        BY <3>4 DEF OpeningsOwed
      <4>2. wallet[w].balance = LedgerSum(w) + Owed(w)
        BY <1>5, <4>1 DEF Reconciled
      <4> QED
        BY <2>1, <2>2, <3>2, <4>1, <4>2
    <3> QED
      BY <3>3, <3>4, OneOwes
  <2>4. CASE Owing(w)' # {}
    <3>1. PICK r \in Requests : pc'[r] = "opening" /\ req'[r].wallet = w
      BY <2>4 DEF Owing
    <3>2. pc[r] = "opening" /\ req[r].wallet = w /\ req'[r] = req[r]
      BY <3>1
    <3>3. Owing(w)' = {r} /\ Owing(w) = {r}
      BY <1>2, <3>1, <3>2 DEF Owing, OpeningsOwed
    <3>4. Owed(w)' = Owed(w)
      <4>1. [s \in Owing(w)' |-> req'[s].amount] = [s \in Owing(w) |-> req[s].amount]
        BY <3>2, <3>3
      <4> QED
        BY <4>1 DEF Owed
    <3> QED
      BY <2>1, <2>2, <3>4
  <2> QED
    BY <2>3, <2>4
<1>6. Reconciled'
  <2> SUFFICES ASSUME NEW w \in Wallets, wallet'[w] # None
               PROVE  \/ wallet'[w].balance = LedgerSum(w)' + Owed(w)'
                      \/ /\ ledger'[w] = None
                         /\ Owed(w)' = 0
                         /\ wallet'[w].balance - LedgerSum(w)' \in {a \in Amounts : a > 0}
    BY DEF Reconciled
  <2>1. wallet[w] # None /\ wallet'[w].balance = wallet[w].balance
    OBVIOUS
  <2>2. CASE Owed(w)' = Owed(w)
    BY <1>5, <2>1, <2>2 DEF Reconciled
  <2>3. CASE /\ Owed(w)' = 0
             /\ Owed(w) \in {a \in Amounts : a > 0}
             /\ ledger[w] = None
             /\ wallet[w].balance = LedgerSum(w) + Owed(w)
    <3>1. wallet'[w].balance - LedgerSum(w)' = Owed(w)
      BY <1>5, <2>1, <2>3
    <3> QED
      BY <2>3, <3>1
  <2> QED
    BY <1>5, <2>1, <2>2, <2>3
<1>7. GapsKept
  BY <1>5 DEF GapsKept, Gap, OpeningLost
<1> QED
  BY <1>2, <1>3, <1>4, <1>6, <1>7

\* An entry written under a free key adds its amount to the sum of its wallet
\* and to no other.
LEMMA EntryAdded ==
    ASSUME TypeOK, LedgerFinite, NEW k \in EntryKeys, NEW e \in Entry,
           ledger[k] = None, ledger' = [ledger EXCEPT ![k] = e]
    PROVE  /\ LedgerFinite'
           /\ LedgerSum(e.wallet)' = LedgerSum(e.wallet) + e.amount
           /\ \A v \in Wallets \ {e.wallet} : LedgerSum(v)' = LedgerSum(v)
<1> DEFINE w == e.wallet
           f == [i \in Entries(w) |-> ledger[i].amount]
           h == [i \in Entries(w)' |-> ledger'[i].amount]
<1>1. w \in Wallets /\ e.amount \in Int /\ e # None
  BY NoneAssumption DEF Entry
<1>2. ledger'[k] = e /\ \A i \in EntryKeys \ {k} : ledger'[i] = ledger[i]
  BY DEF TypeOK
<1>3. LedgerFinite'
  <2>1. {i \in EntryKeys : ledger'[i] # None} = {i \in EntryKeys : ledger[i] # None} \cup {k}
    BY <1>1, <1>2
  <2> QED
    BY <2>1, FS_AddElement DEF LedgerFinite
<1>4. ASSUME NEW v \in Wallets \ {w} PROVE LedgerSum(v)' = LedgerSum(v)
  <2>1. Entries(v)' = Entries(v) /\ k \notin Entries(v)
    BY <1>2 DEF Entries
  <2>2. [i \in Entries(v)' |-> ledger'[i].amount] = [i \in Entries(v) |-> ledger[i].amount]
    BY <1>2, <2>1 DEF Entries
  <2> QED
    BY <2>2 DEF LedgerSum
<1>5. Entries(w)' = Entries(w) \cup {k} /\ k \notin Entries(w)
  BY <1>1, <1>2 DEF Entries
<1>6. /\ IsFiniteSet(Entries(w))
      /\ \A i \in Entries(w) : f[i] \in Int /\ h[i] = f[i]
      /\ h[k] = e.amount
  <2>1. \A i \in Entries(w) : i \in EntryKeys \ {k}
    BY <1>5 DEF Entries
  <2> QED
    BY <1>1, <1>2, <1>5, <2>1, LedgerSumTyped
<1>7. SumFunctionOnSet(h, Entries(w) \cup {k}) = SumFunctionOnSet(f, Entries(w)) + h[k]
  <2> HIDE DEF f, h
  <2> QED
    BY <1>1, <1>5, <1>6, SumAdd
<1>8. LedgerSum(w)' = LedgerSum(w) + e.amount
  BY <1>5, <1>6, <1>7 DEF LedgerSum, SumFunction
<1> QED
  BY <1>3, <1>4, <1>8

\* A step that leaves the opening requests alone owes what was owed.
LEMMA OwedKept ==
    ASSUME NEW w \in Wallets,
           \A r \in Requests : /\ pc'[r] = "opening" <=> pc[r] = "opening"
                               /\ pc[r] = "opening" => req'[r] = req[r]
    PROVE  Owed(w)' = Owed(w)
<1>1. Owing(w)' = Owing(w)
  BY DEF Owing
<1>2. [r \in Owing(w)' |-> req'[r].amount] = [r \in Owing(w) |-> req[r].amount]
  BY <1>1 DEF Owing
<1> QED
  BY <1>2 DEF Owed

LEMMA CommitKeepsSums ==
    ASSUME SumInv, NEW r \in Requests, Commit(r)
    PROVE  SumInv' /\ GapsKept
<1> USE DEF SumInv
<1>q. PICK q \in Posts : q = req[r]
  BY DEF Commit, IInv, RequestsMatchSteps, InTransaction
<1> DEFINE w == q.wallet
<1>2. w \in Wallets /\ q.key \in Keys /\ q.key \in EntryKeys /\ q.amount \in Int
  BY PostsAreTyped
<1>0. PICK e : e = [wallet |-> w, amount |-> EntryAmount(r), after |-> BalanceAfter(r)]
  OBVIOUS
<1>1. /\ pc[r] = "commit"
      /\ wallet' = [wallet EXCEPT ![w].balance = NewBalance(r), ![w].version = @ + 1]
      /\ ledger' = [ledger EXCEPT ![q.key] = e]
  BY <1>q, <1>0 DEF Commit
<1>3. snap[r] = wallet[w] /\ wallet[w] \in Row /\ wallet[w] # None /\ ledger[q.key] = None
  BY <1>q, <1>1, <1>2 DEF IInv, SnapshotStable, KeysReserved, Holding, TypeOK
<1>4. NewBalance(r) = wallet[w].balance + EntryAmount(r) /\ EntryAmount(r) \in Int
      /\ wallet[w].balance \in Int /\ NewBalance(r) \in Nat
  BY <1>q, <1>1, <1>2, <1>3 DEF EntryAmount, NewBalance, Row, IInv, ChecksHold
<1>5. e \in Entry /\ e.wallet = w /\ e.amount = EntryAmount(r)
  BY <1>0, <1>2, <1>4 DEF Entry, BalanceAfter
<1>6. /\ LedgerFinite'
      /\ LedgerSum(w)' = LedgerSum(w) + EntryAmount(r)
      /\ \A v \in Wallets \ {w} : LedgerSum(v)' = LedgerSum(v)
  BY <1>1, <1>2, <1>3, <1>5, EntryAdded DEF IInv
<1>7. PICK code \in Replies : Answer(r, code)
  BY DEF Commit, Replies
<1>8. \A s \in Requests : /\ pc'[s] = "opening" <=> pc[s] = "opening"
                          /\ pc[s] = "opening" => req'[s] = req[s]
  BY <1>1, <1>7 DEF Answer, IInv, TypeOK
<1>9. \A v \in Wallets : Owed(v)' = Owed(v)
  BY <1>8, OwedKept
<1>10. IInv'
  BY CommitKeepsIInv
<1>11. /\ wallet'[w].balance = NewBalance(r)
       /\ \A v \in Wallets \ {w} : wallet'[v] = wallet[v]
  BY <1>1, <1>2, <1>3 DEF IInv, TypeOK, Row
<1>12. wallet'[w] # None
  <2>1. wallet'[w] = [wallet[w] EXCEPT !.balance = NewBalance(r), !.version = @ + 1]
    BY <1>1, <1>2 DEF IInv, TypeOK
  <2>2. wallet[w].version + 1 \in Nat
    BY <1>3 DEF Row
  <2>3. wallet'[w] \in Row
    BY <1>3, <1>4, <2>1, <2>2 DEF Row
  <2> QED
    BY <2>3, NoneAssumption
<1>13. \A v \in Wallets : ledger'[v] = ledger[v]
  BY <1>1, <1>2, KeysAssumption DEF IInv, TypeOK, EntryKeys
<1>14. OpeningsOwed'
  <2>1. \A s \in Requests : pc[s] = "opening" => req[s].wallet \in Wallets
    BY OpeningsAreTyped DEF IInv, RequestsMatchSteps
  <2> QED
    BY <1>8, <1>11, <1>12, <1>13, <2>1 DEF OpeningsOwed
<1>15. EntriesHaveRows'
  <2>1. \A k \in EntryKeys : ledger[k] # None => ledger[k].wallet \in Wallets
    BY DEF IInv, TypeOK, Entry
  <2>2. \A k \in EntryKeys : ledger'[k] = IF k = q.key THEN e ELSE ledger[k]
    BY <1>1 DEF IInv, TypeOK
  <2> QED
    BY <1>2, <1>5, <1>11, <1>12, <2>1, <2>2, KeysAssumption DEF EntriesHaveRows
<1>16. Reconciled'
  <2> SUFFICES ASSUME NEW v \in Wallets, wallet'[v] # None
               PROVE  \/ wallet'[v].balance = LedgerSum(v)' + Owed(v)'
                      \/ /\ ledger'[v] = None
                         /\ Owed(v)' = 0
                         /\ wallet'[v].balance - LedgerSum(v)' \in {a \in Amounts : a > 0}
    BY DEF Reconciled
  <2>1. LedgerSum(v) \in Int /\ Owed(v) \in Int
    BY LedgerSumTyped, OwedTyped DEF IInv
  <2>2. CASE v = w
    <3>1. \/ wallet[w].balance = LedgerSum(w) + Owed(w)
          \/ /\ ledger[w] = None
             /\ Owed(w) = 0
             /\ wallet[w].balance - LedgerSum(w) \in {a \in Amounts : a > 0}
      BY <1>2, <1>3 DEF Reconciled
    <3>2. CASE wallet[w].balance = LedgerSum(w) + Owed(w)
      BY <1>2, <1>4, <1>6, <1>9, <1>11, <2>1, <2>2, <3>2
    <3>3. CASE /\ ledger[w] = None
               /\ Owed(w) = 0
               /\ wallet[w].balance - LedgerSum(w) \in {a \in Amounts : a > 0}
      <4>1. wallet'[w].balance - LedgerSum(w)' = wallet[w].balance - LedgerSum(w)
        BY <1>4, <1>6, <1>11, <2>1, <2>2
      <4> QED
        BY <1>2, <1>9, <1>13, <2>2, <3>3, <4>1
    <3> QED
      BY <3>1, <3>2, <3>3
  <2>3. CASE v # w
    BY <1>6, <1>9, <1>11, <1>13, <2>3 DEF Reconciled
  <2> QED
    BY <2>2, <2>3
<1>17. GapsKept
  <2> SUFFICES ASSUME NEW v \in Wallets, wallet[v] # None
               PROVE  wallet'[v] # None /\ Gap(v)' = Gap(v)
    BY DEF GapsKept
  <2>1. LedgerSum(v) \in Int /\ Owed(v) \in Int
    BY LedgerSumTyped, OwedTyped DEF IInv
  <2>2. CASE v = w
    BY <1>4, <1>6, <1>9, <1>11, <1>12, <2>1, <2>2 DEF Gap
  <2>3. CASE v # w
    BY <1>6, <1>9, <1>11, <2>3 DEF Gap
  <2> QED
    BY <2>2, <2>3
<1> QED
  BY <1>6, <1>10, <1>14, <1>15, <1>16, <1>17

LEMMA RecordingKeepsSums ==
    ASSUME SumInv, NEW r \in Requests, CreateOpeningEntry(r), ~KeyTaken(r)
    PROVE  SumInv' /\ GapsKept
<1> USE DEF SumInv
<1>q. PICK q \in Openings : q = req[r]
  BY DEF CreateOpeningEntry, IInv, RequestsMatchSteps
<1> DEFINE w == q.wallet
           e == [wallet |-> w, amount |-> q.amount, after |-> q.amount]
<1>1. pc[r] = "opening" /\ ledger' = [ledger EXCEPT ![q.key] = e]
      /\ UNCHANGED <<wallet, lock>>
  BY <1>q DEF CreateOpeningEntry
<1>2. PICK code \in Replies : Answer(r, code)
  BY DEF CreateOpeningEntry, Replies
<1>3. w \in Wallets /\ q.key = w /\ w \in EntryKeys /\ q.amount \in Nat
  BY OpeningsAreTyped
<1>4. /\ wallet[w] # None /\ ledger[w] = None /\ q.amount > 0
      /\ \A s \in Requests \ {r} : pc[s] = "opening" => req[s].wallet # w
  BY <1>q, <1>1 DEF OpeningsOwed
<1>5. e \in Entry /\ e # None /\ e.wallet = w /\ e.amount = q.amount
  BY <1>3, NoneAssumption DEF Entry
<1>6. /\ LedgerFinite'
      /\ LedgerSum(w)' = LedgerSum(w) + q.amount
      /\ \A v \in Wallets \ {w} : LedgerSum(v)' = LedgerSum(v)
  <2> HIDE DEF e
  <2> QED
    BY <1>1, <1>3, <1>4, <1>5, EntryAdded DEF IInv
<1>7. /\ pc'[r] = "idle"
      /\ \A s \in Requests \ {r} : pc'[s] = pc[s] /\ req'[s] = req[s]
  BY <1>2 DEF Answer, IInv, TypeOK
<1>8. IInv'
  BY CreateOpeningEntryKeepsIInv
<1>9. \A k \in EntryKeys : ledger'[k] = IF k = w THEN e ELSE ledger[k]
  BY <1>1, <1>3 DEF IInv, TypeOK
<1>10. OpeningsOwed'
  <2> SUFFICES ASSUME NEW s \in Requests, pc'[s] = "opening"
               PROVE  /\ wallet'[req'[s].wallet] # None
                      /\ ledger'[req'[s].wallet] = None
                      /\ req'[s].amount > 0
                      /\ \A i \in Requests \ {s} :
                            pc'[i] = "opening" => req'[i].wallet # req'[s].wallet
    BY DEF OpeningsOwed
  <2>1. s # r /\ pc[s] = "opening" /\ req'[s] = req[s]
    BY <1>7
  <2>2. req[s].wallet \in EntryKeys /\ req[s].wallet # w
    BY <1>4, <2>1, OpeningsAreTyped DEF IInv, RequestsMatchSteps
  <2>3. \A i \in Requests : pc'[i] = "opening" => pc[i] = "opening" /\ req'[i] = req[i]
    BY <1>7
  <2> QED
    BY <1>1, <1>9, <2>1, <2>2, <2>3 DEF OpeningsOwed
<1>11. EntriesHaveRows'
  <2>1. e.wallet = w
    OBVIOUS
  <2> QED
    BY <1>1, <1>4, <1>9, <2>1 DEF EntriesHaveRows
<1>12. Owed(w) = q.amount /\ Owed(w)' = 0
  <2>1. Owing(w) = {r} /\ Owing(w)' = {}
    BY <1>q, <1>1, <1>4, <1>7 DEF Owing
  <2>2. Owed(w) = q.amount
    BY <1>q, <1>3, <2>1, OneOwes
  <2> DEFINE f == [s \in {} |-> req'[s].amount]
  <2>3. Owed(w)' = SumFunctionOnSet(f, {})
    BY <2>1 DEF Owed, SumFunction
  <2> HIDE DEF f
  <2> QED
    BY <2>2, <2>3, SumEmpty
<1>13. ASSUME NEW v \in Wallets, v # w
       PROVE  Owed(v)' = Owed(v) /\ ledger'[v] = ledger[v]
  <2>1. Owing(v)' = Owing(v) /\ \A s \in Owing(v) : req'[s] = req[s]
    BY <1>q, <1>7, <1>13 DEF Owing
  <2>2. [s \in Owing(v)' |-> req'[s].amount] = [s \in Owing(v) |-> req[s].amount]
    BY <2>1
  <2>3. Owed(v)' = Owed(v)
    BY <2>2 DEF Owed
  <2> QED
    BY <1>9, <1>13, <2>3 DEF EntryKeys
<1>14. Reconciled'
  <2> SUFFICES ASSUME NEW v \in Wallets, wallet'[v] # None
               PROVE  \/ wallet'[v].balance = LedgerSum(v)' + Owed(v)'
                      \/ /\ ledger'[v] = None
                         /\ Owed(v)' = 0
                         /\ wallet'[v].balance - LedgerSum(v)' \in {a \in Amounts : a > 0}
    BY DEF Reconciled
  <2>1. CASE v = w
    <3>1. wallet[w].balance = LedgerSum(w) + q.amount
      BY <1>3, <1>4, <1>12 DEF Reconciled
    <3>2. LedgerSum(w) \in Int /\ LedgerSum(w)' = LedgerSum(w) + q.amount
      BY <1>3, <1>6, LedgerSumTyped DEF IInv
    <3> QED
      BY <1>1, <1>3, <1>12, <2>1, <3>1, <3>2
  <2>2. CASE v # w
    BY <1>1, <1>6, <1>13, <2>2 DEF Reconciled
  <2> QED
    BY <2>1, <2>2
<1>15. GapsKept
  <2> SUFFICES ASSUME NEW v \in Wallets, wallet[v] # None
               PROVE  wallet'[v] # None /\ Gap(v)' = Gap(v)
    BY DEF GapsKept
  <2>1. LedgerSum(v) \in Int /\ wallet[v].balance \in Int
    <3>1. wallet[v] \in Row
      BY DEF IInv, TypeOK
    <3> QED
      BY <3>1, LedgerSumTyped DEF IInv, Row
  <2>2. CASE v = w
    BY <1>1, <1>3, <1>6, <1>12, <2>1, <2>2 DEF Gap
  <2>3. CASE v # w
    BY <1>1, <1>6, <1>13, <2>3 DEF Gap
  <2> QED
    BY <2>2, <2>3
<1> QED
  BY <1>6, <1>8, <1>10, <1>11, <1>14, <1>15

LEMMA InsertionKeepsSums ==
    ASSUME SumInv, NEW r \in Requests, InsertWallet(r), wallet[req[r].wallet] = None
    PROVE  SumInv' /\ GapsKept
<1> USE DEF SumInv
<1>q. PICK q \in Openings : q = req[r]
  BY DEF InsertWallet, IInv, RequestsMatchSteps
<1> DEFINE w == q.wallet
           row == [balance |-> q.amount, status |-> "ACTIVE", version |-> 0]
<1>1. /\ pc[r] = "insertWallet" /\ wallet[w] = None /\ UNCHANGED <<ledger, lock>>
      /\ wallet' = [wallet EXCEPT ![w] = row]
  BY <1>q DEF InsertWallet
<1>2. \/ q.amount > 0 /\ pc' = [pc EXCEPT ![r] = "opening"] /\ req' = req
      \/ /\ pc' = [pc EXCEPT ![r] = "idle"]
         /\ req' = [req EXCEPT ![r] = None]
  BY <1>q, <1>1 DEF InsertWallet, Goto, Answer
<1>3. w \in Wallets /\ q.key = w /\ w \in EntryKeys /\ q.amount \in Nat /\ q.amount \in Amounts
  BY OpeningsAreTyped DEF Openings
<1>4. row # None
  <2>1. row \in Row
    BY <1>3 DEF Row, Statuses
  <2> QED
    BY <2>1, NoneAssumption
<1>5. /\ wallet'[w] # None /\ wallet'[w].balance = q.amount
      /\ \A v \in Wallets \ {w} : wallet'[v] = wallet[v]
  BY <1>1, <1>3, <1>4 DEF IInv, TypeOK
<1>6. \A s \in Requests \ {r} : pc'[s] = pc[s] /\ req'[s] = req[s]
  BY <1>2 DEF IInv, TypeOK
<1>7. /\ pc'[r] \in {"opening", "idle"}
      /\ pc'[r] = "opening" => req'[r] = q /\ q.amount > 0
  BY <1>q, <1>2 DEF IInv, TypeOK
<1>8. IInv'
  BY InsertWalletKeepsIInv
<1>9. \A s \in Requests : pc[s] = "opening" => req[s].wallet \in Wallets \ {w}
  BY <1>1, OpeningsAreTyped DEF IInv, RequestsMatchSteps, OpeningsOwed
<1>10. \A k \in EntryKeys : ledger[k] # None => ledger[k].wallet \in Wallets \ {w}
  BY <1>1 DEF EntriesHaveRows, IInv, TypeOK, Entry
<1>11. Entries(w) = {} /\ Entries(w)' = {} /\ ledger[w] = None
  BY <1>1, <1>3, <1>10 DEF Entries, EntriesHaveRows
<1>12. OpeningsOwed'
  <2> SUFFICES ASSUME NEW s \in Requests, pc'[s] = "opening"
               PROVE  /\ wallet'[req'[s].wallet] # None
                      /\ ledger[req'[s].wallet] = None
                      /\ req'[s].amount > 0
                      /\ \A i \in Requests \ {s} :
                            pc'[i] = "opening" => req'[i].wallet # req'[s].wallet
    BY <1>1 DEF OpeningsOwed
  <2>1. CASE s = r
    BY <1>5, <1>6, <1>7, <1>9, <1>11, <2>1
  <2>2. CASE s # r
    <3>1. pc[s] = "opening" /\ req'[s] = req[s] /\ req[s].wallet \in Wallets \ {w}
      BY <1>6, <1>9, <2>2
    <3> QED
      BY <1>5, <1>6, <1>7, <2>2, <3>1 DEF OpeningsOwed
  <2> QED
    BY <2>1, <2>2
<1>13. EntriesHaveRows'
  BY <1>1, <1>5, <1>10 DEF EntriesHaveRows
<1>14. LedgerFinite'
  BY <1>1 DEF LedgerFinite
<1>15. ASSUME NEW v \in Wallets, v # w
       PROVE  Owed(v)' = Owed(v) /\ LedgerSum(v)' = LedgerSum(v)
  <2>1. Owing(v)' = Owing(v) /\ \A s \in Owing(v) : req'[s] = req[s]
    BY <1>q, <1>1, <1>6, <1>7, <1>15 DEF Owing
  <2>2. [s \in Owing(v)' |-> req'[s].amount] = [s \in Owing(v) |-> req[s].amount]
    BY <2>1
  <2>3. Owed(v)' = Owed(v)
    BY <2>2 DEF Owed
  <2> QED
    BY <1>1, <2>3 DEF LedgerSum, Entries
<1>16. Reconciled'
  <2> SUFFICES ASSUME NEW v \in Wallets, wallet'[v] # None
               PROVE  \/ wallet'[v].balance = LedgerSum(v)' + Owed(v)'
                      \/ /\ ledger'[v] = None
                         /\ Owed(v)' = 0
                         /\ wallet'[v].balance - LedgerSum(v)' \in {a \in Amounts : a > 0}
    BY DEF Reconciled
  <2>1. CASE v = w
    <3> DEFINE f == [k \in {} |-> ledger'[k].amount]
               g == [s \in Owing(w)' |-> req'[s].amount]
    <3>1. LedgerSum(w)' = SumFunctionOnSet(f, {})
      BY <1>11 DEF LedgerSum, SumFunction
    <3>2. LedgerSum(w)' = 0
      <4> HIDE DEF f
      <4> QED
        BY <3>1, SumEmpty
    <3>3. Owed(w)' = SumFunctionOnSet(g, Owing(w)')
      BY DEF Owed, SumFunction
    <3>4. CASE pc'[r] = "opening"
      <4>1. Owing(w)' = {r} /\ g[r] = q.amount
        BY <1>6, <1>7, <1>9, <3>4 DEF Owing
      <4>2. Owed(w)' = q.amount
        <5> HIDE DEF g
        <5> QED
          BY <1>3, <3>3, <4>1, SumSingleton
      <4> QED
        BY <1>3, <1>5, <2>1, <3>2, <4>2
    <3>5. CASE pc'[r] # "opening"
      <4>1. Owing(w)' = {}
        BY <1>6, <1>9, <3>5 DEF Owing
      <4>2. Owed(w)' = 0
        <5> HIDE DEF g
        <5> QED
          BY <3>3, <4>1, SumEmpty
      <4>3. CASE q.amount = 0
        BY <1>5, <2>1, <3>2, <4>2, <4>3
      <4>4. CASE q.amount > 0
        BY <1>1, <1>3, <1>5, <1>11, <2>1, <3>2, <4>2, <4>4
      <4> QED
        BY <1>3, <4>3, <4>4
    <3> QED
      BY <3>4, <3>5
  <2>2. CASE v # w
    BY <1>1, <1>5, <1>15, <2>2 DEF Reconciled
  <2> QED
    BY <2>1, <2>2
<1>17. GapsKept
  BY <1>1, <1>5, <1>15 DEF GapsKept, Gap
<1> QED
  BY <1>8, <1>12, <1>13, <1>14, <1>16, <1>17

LEMMA SetStatusKeepsSums ==
    ASSUME SumInv, NEW w \in Wallets, SetStatus(w)
    PROVE  SumInv' /\ GapsKept
<1> USE DEF SumInv
<1>1. IInv'
  BY SetStatusKeepsIInv
<1>2. PICK s \in Statuses :
         wallet' = [wallet EXCEPT ![w].status = s, ![w].version = @ + 1]
  BY DEF SetStatus
<1>3. wallet[w] # None /\ wallet[w] \in Row
      /\ UNCHANGED <<ledger, lock, pc, req, snap, reply>>
  BY DEF SetStatus, IInv, TypeOK
<1>4. wallet'[w] = [wallet[w] EXCEPT !.status = s, !.version = @ + 1]
      /\ \A v \in Wallets \ {w} : wallet'[v] = wallet[v]
  BY <1>2 DEF IInv, TypeOK
<1>5. wallet'[w] \in Row
  <2>1. wallet[w].version + 1 \in Nat
    BY <1>3 DEF Row
  <2> QED
    BY <1>3, <1>4, <2>1 DEF Row
<1>6. wallet'[w] # None /\ wallet'[w].balance = wallet[w].balance
  BY <1>3, <1>4, <1>5, NoneAssumption DEF Row
<1>7. \A v \in Wallets : /\ wallet'[v] = None <=> wallet[v] = None
                         /\ wallet[v] # None => wallet'[v].balance = wallet[v].balance
  BY <1>3, <1>4, <1>6
<1> QED
  BY <1>1, <1>3, <1>7, NothingPosted

LEMMA NextKeepsSums == SumInv /\ [Next]_vars => SumInv' /\ GapsKept
<1> SUFFICES ASSUME SumInv, [Next]_vars PROVE SumInv' /\ GapsKept
  OBVIOUS
<1>1. IInv /\ IInv'
  BY NextKeepsIInv DEF SumInv
<1>2. ASSUME NEW r \in Requests, NEW code, Answer(r, code), UNCHANGED <<wallet, ledger>>
      PROVE  SumInv' /\ GapsKept
  BY <1>1, <1>2, NothingPosted DEF Answer, IInv, TypeOK
<1>3. ASSUME NEW r \in Requests, NEW code, Throw(r, code)
      PROVE  SumInv' /\ GapsKept
  BY <1>2, <1>3 DEF Throw
<1>4. ASSUME NEW r \in Requests, NEW step, Goto(r, step), step # "opening",
             UNCHANGED <<wallet, ledger>>
      PROVE  SumInv' /\ GapsKept
  BY <1>1, <1>4, NothingPosted DEF Goto, IInv, TypeOK
<1>5. ASSUME NEW r \in Requests, Receive(r)
      PROVE  SumInv' /\ GapsKept
  <2>1. /\ UNCHANGED <<wallet, ledger>> /\ pc'[r] \in {"find", "begin"}
        /\ \A s \in Requests \ {r} : pc'[s] = pc[s] /\ req'[s] = req[s]
    BY <1>1, <1>5 DEF Receive, IInv, TypeOK
  <2> QED
    BY <1>1, <2>1, NothingPosted
<1>6. ASSUME NEW r \in Requests, Reject(r) \/ ReturnDuplicate(r)
      PROVE  SumInv' /\ GapsKept
  BY <1>2, <1>6 DEF Reject, ReturnDuplicate
<1>7. ASSUME NEW r \in Requests,
             \/ Begin(r) \/ FindByIdempotencyKey(r) \/ FindForUpdate(r)
             \/ UpdateBalance(r) \/ CreateEntry(r) \/ FindExisting(r)
      PROVE  SumInv' /\ GapsKept
  BY <1>2, <1>3, <1>4, <1>7 DEF Begin, FindByIdempotencyKey, FindForUpdate,
     UpdateBalance, CreateEntry, FindExisting
<1>8. ASSUME NEW r \in Requests, InsertWallet(r)
      PROVE  SumInv' /\ GapsKept
  BY <1>3, <1>8, InsertionKeepsSums DEF InsertWallet
<1>9. ASSUME NEW r \in Requests, CreateOpeningEntry(r)
      PROVE  SumInv' /\ GapsKept
  BY <1>3, <1>9, RecordingKeepsSums DEF CreateOpeningEntry
<1>10. ASSUME NEW r \in Requests, StatementFails(r)
       PROVE  SumInv' /\ GapsKept
  BY <1>3, <1>10 DEF StatementFails
<1>11. CASE Crash
  BY <1>1, <1>11, NothingPosted DEF Crash
<1>12. CASE UNCHANGED vars
  BY <1>1, <1>12, NothingPosted DEF vars
<1>13. ASSUME NEW r \in Requests, Statement(r)
       PROVE  SumInv' /\ GapsKept
  BY <1>6, <1>7, <1>8, <1>9, <1>13, CommitKeepsSums DEF Statement
<1> QED
  BY <1>5, <1>6, <1>10, <1>11, <1>12, <1>13, SetStatusKeepsSums DEF Next

\* The books balance: every wallet's balance is the sum of its ledger entries
\* and of an opening entry in flight, or is off by one lost opening entry for
\* good, under every interleaving, failure and crash, for any number of
\* requests, wallets and keys.  Neither set need be finite: a state has
\* finitely many entries.
THEOREM LedgerReconciles == Spec => []Reconciled
<1>1. Spec => []SumInv
  BY InitSumInv, NextKeepsSums, PTL DEF Spec
<1>2. SumInv => Reconciled
  BY DEF SumInv
<1> QED
  BY <1>1, <1>2, PTL

\* The books come apart in one way only: by the loss of an opening entry.  A
\* debit, a credit, a refused or failed request, a crash and an operator leave
\* what is unexplained of every balance as it was.
THEOREM LossesAreOpenings == Spec => OnlyOpeningsLost
  BY InitSumInv, NextKeepsSums, PTL DEF Spec, OnlyOpeningsLost

-----------------------------------------------------------------------------
\* The audit of a balance.

\* What an undisturbed audit has read is still the balance of its wallet, and
\* nobody owes that wallet its opening entry.
AuditCurrent ==
    audit # None =>
        /\ audit \in [wallet : Wallets, balance : Nat, undisturbed : BOOLEAN]
        /\ wallet[audit.wallet] # None
        /\ audit.undisturbed =>
              /\ audit.balance = wallet[audit.wallet].balance
              /\ Opened(audit.wallet)

AuditInv == SumInv /\ AuditCurrent /\ AuditsTellLosses

\* Only a wallet without a row gets an opening entry to wait for.
LEMMA OpenedForGood ==
    ASSUME SumInv, Next, NEW w \in Wallets, wallet[w] # None, Opened(w)
    PROVE  Opened(w)'
<1> USE DEF SumInv
<1> SUFFICES ASSUME NEW r \in Requests, pc'[r] = "opening", req'[r].wallet = w
             PROVE  FALSE
  BY DEF Opened
<1>1. CASE pc[r] = "opening" /\ req'[r] = req[r]
  BY <1>1 DEF Opened
<1>2. ASSUME NEW s \in Requests, NEW code, Answer(s, code)
      PROVE  FALSE
  BY <1>1, <1>2 DEF Answer, IInv, TypeOK
<1>3. ASSUME NEW s \in Requests, NEW code, Throw(s, code)
      PROVE  FALSE
  BY <1>2, <1>3 DEF Throw
<1>4. ASSUME NEW s \in Requests, NEW step, Goto(s, step), step # "opening"
      PROVE  FALSE
  BY <1>1, <1>4 DEF Goto, IInv, TypeOK
<1>5. ASSUME NEW s \in Requests, Receive(s)
      PROVE  FALSE
  BY <1>1, <1>5 DEF Receive, IInv, TypeOK
<1>6. ASSUME NEW s \in Requests,
             Reject(s) \/ ReturnDuplicate(s) \/ StatementFails(s) \/ Commit(s)
      PROVE  FALSE
  BY <1>2, <1>3, <1>6 DEF Reject, ReturnDuplicate, StatementFails, Commit
<1>7. ASSUME NEW s \in Requests,
             \/ Begin(s) \/ FindByIdempotencyKey(s) \/ FindForUpdate(s)
             \/ UpdateBalance(s) \/ CreateEntry(s) \/ FindExisting(s)
      PROVE  FALSE
  BY <1>2, <1>3, <1>4, <1>7 DEF Begin, FindByIdempotencyKey, FindForUpdate,
     UpdateBalance, CreateEntry, FindExisting
<1>8. ASSUME NEW s \in Requests, InsertWallet(s)
      PROVE  FALSE
  <2>1. CASE Goto(s, "opening") /\ wallet[req[s].wallet] = None
    BY <1>1, <2>1 DEF Goto, IInv, TypeOK
  <2> QED
    BY <1>2, <1>3, <1>8, <2>1 DEF InsertWallet
<1>9. ASSUME NEW s \in Requests, CreateOpeningEntry(s)
      PROVE  FALSE
  BY <1>2, <1>3, <1>9 DEF CreateOpeningEntry
<1>10. CASE Crash
  BY <1>10 DEF Crash
<1>11. ASSUME NEW v \in Wallets, SetStatus(v)
       PROVE  FALSE
  BY <1>1, <1>11 DEF SetStatus
<1> QED
  BY <1>5, <1>6, <1>7, <1>8, <1>9, <1>10, <1>11 DEF Next, Statement

\* The report of an undisturbed audit.
LEMMA ReportTellsLosses ==
    ASSUME SumInv, AuditCurrent, CalculateBalance
    PROVE  AuditsTellLosses'
<1> USE DEF SumInv
<1>1. PICK w \in Wallets : w = audit.wallet
  BY DEF CalculateBalance, AuditCurrent
<1>2. /\ wallet[w] # None
      /\ report' = [wallet |-> w,
                    isBalanced |-> audit.balance = LedgerSum(w),
                    difference |-> audit.balance - LedgerSum(w),
                    undisturbed |-> audit.undisturbed]
  BY <1>1 DEF CalculateBalance, AuditCurrent
<1> SUFFICES ASSUME audit.undisturbed
             PROVE  /\ wallet'[w] # None
                    /\ audit.balance = LedgerSum(w) <=> audit.balance - LedgerSum(w) = 0
                    /\ audit.balance - LedgerSum(w) = Gap(w)'
                    /\ audit.balance - LedgerSum(w) # 0 =>
                          audit.balance - LedgerSum(w) > 0 /\ ledger'[w] = None
  BY <1>2 DEF AuditsTellLosses
<1>3. wallet' = wallet /\ ledger' = ledger /\ pc' = pc /\ req' = req
  BY DEF CalculateBalance, vars
<1>4. Gap(w)' = Gap(w)
  BY <1>3 DEF Gap, LedgerSum, Entries, Owed, Owing
<1>5. audit.balance = wallet[w].balance /\ Opened(w)
  BY <1>1 DEF CalculateBalance, AuditCurrent
<1>6. Owed(w) = 0
  <2>1. \A r \in Requests : ~(pc[r] = "opening" /\ req[r].wallet = w)
    BY <1>5 DEF Opened
  <2> QED
    BY <1>2, <2>1, OneOwes
<1>7. wallet[w].balance \in Int /\ LedgerSum(w) \in Int
  <2>1. wallet[w] \in Row
    BY <1>2 DEF IInv, TypeOK
  <2> QED
    BY <1>2, <2>1, LedgerSumTyped DEF IInv, Row
<1>8. \/ wallet[w].balance = LedgerSum(w)
      \/ ledger[w] = None /\ wallet[w].balance - LedgerSum(w) > 0
  BY <1>2, <1>6, <1>7 DEF Reconciled
<1> QED
  BY <1>2, <1>3, <1>4, <1>5, <1>6, <1>7, <1>8 DEF Gap

LEMMA RNextKeepsAuditInv == AuditInv /\ [RNext]_rvars => AuditInv'
<1> SUFFICES ASSUME AuditInv, [RNext]_rvars PROVE AuditInv'
  OBVIOUS
<1> USE DEF AuditInv
<1>1. SumInv'
  BY NextKeepsSums DEF RNext, FindById, CalculateBalance, AuditFails, ServiceStep, rvars
<1>2. ASSUME NEW w \in Wallets, FindById(w)
      PROVE  AuditInv'
  <2>1. wallet[w] # None /\ wallet[w].balance \in Nat
    BY <1>2 DEF FindById, SumInv, IInv, TypeOK, Row
  <2>2. AuditCurrent'
    <3>1. /\ audit' = [wallet |-> w, balance |-> wallet[w].balance,
                       undisturbed |-> Opened(w)]
          /\ wallet' = wallet /\ pc' = pc /\ req' = req
      BY <1>2 DEF FindById, vars
    <3>2. Opened(w) \in BOOLEAN
      BY DEF Opened
    <3>3. audit' \in [wallet : Wallets, balance : Nat, undisturbed : BOOLEAN]
      BY <2>1, <3>1, <3>2
    <3> QED
      BY <2>1, <3>1, <3>3 DEF AuditCurrent, Opened
  <2> QED
    BY <1>1, <1>2, <2>2 DEF FindById, AuditsTellLosses
<1>3. CASE CalculateBalance
  <2>1. AuditCurrent'
    BY <1>3 DEF CalculateBalance, AuditCurrent
  <2> QED
    BY <1>1, <1>3, <2>1, ReportTellsLosses
<1>4. CASE AuditFails
  BY <1>1, <1>4 DEF AuditFails, AuditCurrent, AuditsTellLosses
<1>5. CASE ServiceStep
  <2>1. AuditCurrent'
    <3>1. CASE audit' = None
      BY <3>1 DEF AuditCurrent
    <3>2. CASE audit # None /\ audit' = [audit EXCEPT !.undisturbed = @ /\ ~Disturbed(audit.wallet)]
      <4>0. PICK w \in Wallets : w = audit.wallet
        BY <3>2 DEF AuditCurrent
      <4>1. /\ wallet[w] # None
            /\ audit' \in [wallet : Wallets, balance : Nat, undisturbed : BOOLEAN]
            /\ audit'.wallet = w /\ audit'.balance = audit.balance
            /\ audit'.undisturbed => audit.undisturbed /\ ~Disturbed(w)
        BY <3>2, <4>0 DEF AuditCurrent
      <4>2. wallet'[w] # None
        BY <1>5, <4>1, NextKeepsSums DEF ServiceStep, GapsKept
      <4>3. ASSUME audit'.undisturbed
            PROVE  audit'.balance = wallet'[w].balance /\ Opened(w)'
        <5>1. audit.balance = wallet[w].balance /\ Opened(w)
          BY <3>2, <4>0, <4>1, <4>3 DEF AuditCurrent
        <5>2. wallet'[w].balance = wallet[w].balance
          BY <4>1, <4>3 DEF Disturbed
        <5>3. Opened(w)'
          BY <1>5, <4>1, <5>1, OpenedForGood DEF ServiceStep
        <5> QED
          BY <4>1, <5>1, <5>2, <5>3
      <4>4. Opened(w)' => Opened(audit.wallet)'
        BY <4>1 DEF Opened
      <4> QED
        BY <4>1, <4>2, <4>3, <4>4 DEF AuditCurrent
    <3> QED
      BY <1>5, <3>1, <3>2 DEF ServiceStep
  <2> QED
    BY <1>1, <1>5, <2>1 DEF ServiceStep, AuditsTellLosses
<1>6. CASE UNCHANGED rvars
  BY <1>1, <1>6 DEF rvars, vars, AuditCurrent, AuditsTellLosses, Opened, Gap,
     LedgerSum, Entries, Owed, Owing
<1> QED
  BY <1>2, <1>3, <1>4, <1>5, <1>6 DEF RNext

\* An audit during which nothing about its wallet commits is exact: it reports
\* the amount of a lost opening entry and no other difference.  Every other
\* alarm is the audit's own doing, two statements that saw two moments.
THEOREM UndisturbedAuditsAreExact == RSpec => []AuditsTellLosses
<1>1. RInit => AuditInv
  BY InitSumInv DEF RInit, AuditInv, AuditCurrent, AuditsTellLosses
<1>2. AuditInv => AuditsTellLosses
  BY DEF AuditInv
<1> QED
  BY <1>1, <1>2, RNextKeepsAuditInv, PTL DEF RSpec
=============================================================================
