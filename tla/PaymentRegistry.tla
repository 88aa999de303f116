-------------------------- MODULE PaymentRegistry --------------------------
(***************************************************************************)
(* What POST /payments promises its callers, whatever the cache, the table *)
(* and races between requests do: a key is given to one payment at one     *)
(* instant and for good, every answer names the payment of its key, and    *)
(* only the request that registered a payment announces it, once and       *)
(* before it is answered.                                                  *)
(*                                                                         *)
(* A request may fail, also after its payment is registered; the service   *)
(* may restart.  Either way a payment may then be there unannounced.       *)
(***************************************************************************)
EXTENDS Integers

CONSTANTS
    Keys,       \* idempotency keys
    Ids,        \* payment ids
    Callers,    \* concurrent requests
    Statuses,   \* statuses a payment may have
    None        \* no payment, no request

VARIABLES
    rows,       \* [Ids -> the payment registered under the id, or None]
    asked,      \* [Callers -> the key of the request, or None]
    owned,      \* [Callers -> the payment a request has yet to announce, or None]
    answered,   \* history: [Keys -> ids clients were told]
    announced   \* history: [Ids -> number of PaymentCreated events]

vars == <<rows, asked, owned, answered, announced>>

Init ==
    /\ rows = [i \in Ids |-> None]
    /\ asked = [c \in Callers |-> None]
    /\ owned = [c \in Callers |-> None]
    /\ answered = [k \in Keys |-> {}]
    /\ announced = [i \in Ids |-> 0]

Registered(k) == {i \in Ids : rows[i] # None /\ rows[i].key = k}

Leave(c) == asked' = [asked EXCEPT ![c] = None]

Ask(c) ==
    /\ asked[c] = None
    /\ \E k \in Keys : asked' = [asked EXCEPT ![c] = k]
    /\ UNCHANGED <<rows, owned, answered, announced>>

Register(c) ==
    /\ asked[c] # None
    /\ Registered(asked[c]) = {}
    /\ \E i \in Ids :
          /\ rows[i] = None
          /\ rows' = [rows EXCEPT ![i] = [key |-> asked[c], status |-> "PENDING"]]
          /\ \/ owned' = [owned EXCEPT ![c] = i] /\ UNCHANGED asked
             \/ Leave(c) /\ UNCHANGED owned
    /\ UNCHANGED <<answered, announced>>

\* The event reaches its subscribers or is lost.
Announce(c) ==
    /\ owned[c] # None
    /\ announced[owned[c]] = 0
    /\ owned' = [owned EXCEPT ![c] = None]
    /\ announced' \in {announced, [announced EXCEPT ![owned[c]] = 1]}
    /\ UNCHANGED <<rows, asked, answered>>

Answer(c) ==
    /\ asked[c] # None
    /\ owned[c] = None
    /\ \E i \in Registered(asked[c]) :
          answered' = [answered EXCEPT ![asked[c]] = @ \cup {i}]
    /\ Leave(c)
    /\ UNCHANGED <<rows, owned, announced>>

Fail(c) ==
    /\ asked[c] # None
    /\ owned[c] = None
    /\ Leave(c)
    /\ UNCHANGED <<rows, owned, answered, announced>>

Change(i) ==
    /\ rows[i] # None
    /\ \E s \in Statuses : rows' = [rows EXCEPT ![i].status = s]
    /\ UNCHANGED <<asked, owned, answered, announced>>

Restart ==
    /\ asked' = [c \in Callers |-> None]
    /\ owned' = [c \in Callers |-> None]
    /\ UNCHANGED <<rows, answered, announced>>

Next ==
    \/ \E c \in Callers : Ask(c) \/ Register(c) \/ Announce(c) \/ Answer(c) \/ Fail(c)
    \/ \E i \in Ids : Change(i)
    \/ Restart

Spec == Init /\ [][Next]_vars
=============================================================================
