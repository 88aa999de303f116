--------------------------- MODULE DatabaseClient ---------------------------
(***************************************************************************)
(* DatabaseClient.getClient and transaction over the pool of `pg`, which   *)
(* is external: it lends an idle client or opens one, takes it back at     *)
(* release and closes it when it stays idle.  getClient replaces `query`   *)
(* of the client it is lent by a wrapper around the present one and never  *)
(* puts the original back.                                                 *)
(***************************************************************************)
CONSTANTS
    Clients,    \* connections the pool may have open
    Requests,   \* concurrent transactions
    None        \* no client

VARIABLES
    open,       \* clients the pool has open
    holder,     \* [Requests -> client the request was lent, or None]
    spent,      \* clients with a wrapper whose `released` is true
    pc,         \* [Requests -> "idle", "connect", "begin", "work", "release"]
    error       \* [Requests -> what the transaction ended with]

vars == <<open, holder, spent, pc, error>>

Errors == {"none", "statement", "Cannot query on released client"}

Init ==
    /\ open = {}
    /\ holder = [r \in Requests |-> None]
    /\ spent = {}
    /\ pc = [r \in Requests |-> "idle"]
    /\ error = [r \in Requests |-> "none"]

Lent == {holder[r] : r \in Requests}

Start(r) ==
    /\ pc[r] = "idle"
    /\ pc' = [pc EXCEPT ![r] = "connect"]
    /\ error' = [error EXCEPT ![r] = "none"]
    /\ UNCHANGED <<open, holder, spent>>

\* pool.connect opens a client only when none is idle.
GetClient(r) ==
    /\ pc[r] = "connect"
    /\ \E c \in Clients \ Lent :
          /\ c \in open \/ open \subseteq Lent
          /\ open' = open \cup {c}
          /\ holder' = [holder EXCEPT ![r] = c]
    /\ pc' = [pc EXCEPT ![r] = "begin"]
    /\ UNCHANGED <<spent, error>>

\* BEGIN goes through every wrapper the client has collected.
BeginTransaction(r) ==
    /\ pc[r] = "begin"
    /\ \/ /\ holder[r] \in spent
          /\ pc' = [pc EXCEPT ![r] = "release"]
          /\ error' = [error EXCEPT ![r] = "Cannot query on released client"]
       \/ /\ holder[r] \notin spent
          /\ pc' = [pc EXCEPT ![r] = "work"]
          /\ UNCHANGED error
    /\ UNCHANGED <<open, holder, spent>>

\* The callback, then COMMIT, or an error and ROLLBACK.
Finish(r) ==
    /\ pc[r] = "work"
    /\ pc' = [pc EXCEPT ![r] = "release"]
    /\ \E e \in {"none", "statement"} : error' = [error EXCEPT ![r] = e]
    /\ UNCHANGED <<open, holder, spent>>

\* `released` of this wrapper becomes true, and the wrapper stays.
Release(r) ==
    /\ pc[r] = "release"
    /\ pc' = [pc EXCEPT ![r] = "idle"]
    /\ spent' = spent \cup {holder[r]}
    /\ holder' = [holder EXCEPT ![r] = None]
    /\ UNCHANGED <<open, error>>

\* The pool closes a client that stayed idle; its successor is a new object.
CloseIdle(c) ==
    /\ c \in open \ Lent
    /\ open' = open \ {c}
    /\ spent' = spent \ {c}
    /\ UNCHANGED <<holder, pc, error>>

Next ==
    \/ \E r \in Requests :
          \/ Start(r) \/ GetClient(r) \/ BeginTransaction(r)
          \/ Finish(r) \/ Release(r)
    \/ \E c \in Clients : CloseIdle(c)

Spec == Init /\ [][Next]_vars

\* DatabaseClient.js: the wrapper is there to "prevent use after release".  A
\* transaction that has not released its client is not refused by it.
HolderMayQuery ==
    \A r \in Requests : error[r] # "Cannot query on released client"
=============================================================================
