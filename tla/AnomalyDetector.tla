--------------------------- MODULE AnomalyDetector ---------------------------
(***************************************************************************)
(* The anomaly detector for the payments of one user: createPayment first  *)
(* checks a new payment against the lists in Redis of those recorded       *)
(* before, then records it.  Each list, one for all payments and one for   *)
(* every amount, is read whole; entries older than its window are skipped  *)
(* by the reader and go when the list, untouched for two windows, expires. *)
(* Redis may drop a whole list at any time: its memory is limited, with    *)
(* the policy allkeys-lru, and it may come back without its data.  (What a *)
(* restart may lose besides, the last commands of a list that survives, is *)
(* left out.)  Payments overlap, commands fail silently, and the process   *)
(* may die.                                                                *)
(*                                                                         *)
(* The commands one step sends go out together and are executed together.  *)
(* Between the clock a check reads and the execution of its LRANGE lie at  *)
(* most Lag ticks.                                                         *)
(*                                                                         *)
(* The rule FAILED_STREAK is not modelled because it never speaks: record  *)
(* is called with new payments only, which are PENDING, so its counter is  *)
(* deleted each time and never incremented.                                *)
(*                                                                         *)
(* Bounds: Payments are all there ever are, MaxTime ends time.             *)
(***************************************************************************)
EXTENDS Integers, FiniteSets

CONSTANTS
    Payments,
    Amounts,
    LargeAmounts,       \* those above largeAmountThreshold
    VelocityLimit, VelocityWindow,
    DuplicateLimit, DuplicateWindow,
    Lag,
    MaxTime,
    None

Lists == {"velocity"} \cup Amounts

Limit(k) == IF k = "velocity" THEN VelocityLimit ELSE DuplicateLimit

Window(k) == IF k = "velocity" THEN VelocityWindow ELSE DuplicateWindow

ASSUME WindowsAssumption ==
    /\ \A k \in Lists : Limit(k) \in Nat \ {0} /\ Window(k) \in Nat \ {0} /\ Lag <= Window(k)
    /\ Lag \in Nat /\ MaxTime \in Nat

ASSUME NamesAssumption ==
    /\ "velocity" \notin Amounts /\ "LARGE_AMOUNT" \notin Amounts /\ LargeAmounts \subseteq Amounts
    /\ None \notin Amounts /\ None \notin Nat

ASSUME PaymentsAssumption == IsFiniteSet(Payments)

VARIABLES
    now,
    list,       \* [Lists -> the payments entered in it]
    expires,    \* [Lists -> when the list expires, or None]
    amount,     \* [Payments -> its amount, or None before it is created]
    step,       \* [Payments -> the await its request stands at]
    asOf,       \* [Payments -> the time its check goes by]
    stamp,      \* [Payments -> the time it is recorded with]
    flags,      \* [Payments -> what its check found]
    unread,     \* [Payments -> the lists its check could not read]
    kept        \* recent <<payment, list>> entries whose EXPIRE was executed,
                \* too, in lists that Redis has not evicted since

vars == <<now, list, expires, amount, step, asOf, stamp, flags, unread, kept>>

Init ==
    /\ now = 0
    /\ list = [k \in Lists |-> {}]
    /\ expires = [k \in Lists |-> None]
    /\ amount = [p \in Payments |-> None]
    /\ step = [p \in Payments |-> "new"]
    /\ asOf = [p \in Payments |-> 0]
    /\ stamp = [p \in Payments |-> 0]
    /\ flags = [p \in Payments |-> {}]
    /\ unread = [p \in Payments |-> {}]
    /\ kept = {}

-----------------------------------------------------------------------------
\* The lists a payment is checked against and entered in.
ListsOf(p) == {"velocity", amount[p]}

Goto(p, next) == step' = [step EXCEPT ![p] = next]

\* The verdicts of checks that are over have been logged.
Forget(over) ==
    LET Reset(f, v) == [p \in Payments |-> IF p \in over THEN v ELSE f[p]] IN
    /\ flags' = Reset(flags, {})
    /\ unread' = Reset(unread, {})
    /\ asOf' = Reset(asOf, 0)

\* A payment has been created: check reads the clock and sends its LRANGEs.
Check(p) ==
    /\ step[p] = "new"
    /\ \E a \in Amounts : amount' = [amount EXCEPT ![p] = a]
    /\ asOf' = [asOf EXCEPT ![p] = now]
    /\ Goto(p, "lrange")
    /\ UNCHANGED <<now, list, expires, stamp, flags, unread, kept>>

\* Fault: the check counts every entry it finds.
Everything(p, k) == list[k]

Recent(p, k) == {q \in list[k] : asOf[p] - stamp[q] < Window(k)}

LimitReached(p, k) == Cardinality(Recent(p, k)) >= Limit(k)

Large(p) == IF amount[p] \in LargeAmounts THEN {"LARGE_AMOUNT"} ELSE {}

\* The answers arrive and record reads the clock.  A list that cannot be read
\* counts as empty.
Record(p) ==
    /\ step[p] = "lrange"
    /\ \E read \in SUBSET ListsOf(p) :
          /\ flags' = [flags EXCEPT ![p] = {k \in read : LimitReached(p, k)} \cup Large(p)]
          /\ unread' = [unread EXCEPT ![p] = ListsOf(p) \ read]
    /\ stamp' = [stamp EXCEPT ![p] = now]
    /\ Goto(p, "rpush")
    /\ UNCHANGED <<now, list, expires, amount, asOf, kept>>

\* Each command of a batch may fail, with or without effect: the client logs
\* the error and returns, so EXPIRE is sent even where RPUSH has failed.
Rpush(p) ==
    /\ step[p] = "rpush"
    /\ \E done \in SUBSET ListsOf(p) :
          list' = [k \in Lists |-> IF k \in done THEN list[k] \cup {p} ELSE list[k]]
    /\ Goto(p, "expire")
    /\ Forget({p})
    /\ UNCHANGED <<now, expires, amount, stamp, kept>>

\* Fault: a list lives as long as its window.
OneWindow(k) == Window(k)

TTL(k) == 2 * Window(k)

\* A list that is not there has no expiry.
Expire(p) ==
    /\ step[p] = "expire"
    /\ \E done \in SUBSET {k \in ListsOf(p) : list[k] # {}} :
          /\ expires' = [k \in Lists |-> IF k \in done THEN now + TTL(k) ELSE expires[k]]
          /\ kept' = kept \cup {<<p, k>> : k \in {l \in done : p \in list[l]}}
    /\ Goto(p, "done")
    /\ UNCHANGED <<now, list, amount, asOf, stamp, flags, unread>>

\* The payment service dies in the middle of a request, or of several.
Crash ==
    /\ \E p \in Payments : step[p] \notin {"new", "done"}
    /\ step' = [p \in Payments |-> IF step[p] = "new" THEN "new" ELSE "done"]
    /\ Forget(Payments)
    /\ UNCHANGED <<now, list, expires, amount, stamp, kept>>

\* Redis needs the memory, or has lost its data.
Evict(k) ==
    /\ list[k] # {}
    /\ list' = [list EXCEPT ![k] = {}]
    /\ expires' = [expires EXCEPT ![k] = None]
    /\ kept' = {e \in kept : e[2] # k}
    /\ UNCHANGED <<now, amount, step, asOf, stamp, flags, unread>>

Tick ==
    /\ now < MaxTime
    /\ \A p \in Payments : step[p] = "lrange" => now < asOf[p] + Lag
    /\ now' = now + 1
    /\ LET Due(k) == expires[k] # None /\ expires[k] <= now' IN
       /\ list' = [k \in Lists |-> IF Due(k) THEN {} ELSE list[k]]
       /\ expires' = [k \in Lists |-> IF Due(k) THEN None ELSE expires[k]]
    /\ kept' = {e \in kept : now' - stamp[e[1]] < Window(e[2]) + Lag}
    /\ UNCHANGED <<amount, step, asOf, stamp, flags, unread>>

Next ==
    \/ \E p \in Payments : Check(p) \/ Record(p) \/ Rpush(p) \/ Expire(p)
    \/ \E k \in Lists : Evict(k)
    \/ Crash
    \/ Tick

Spec == Init /\ [][Next]_vars

-----------------------------------------------------------------------------
\* check and record are two steps and concurrent payments do not see each
\* other; but a payment is flagged whenever, at its check, a limit was used
\* up by payments of the window that had been recorded completely, in a list
\* that Redis has not evicted since.  The time to live removes no list under
\* a check that needs it: neither the lag of commands nor EXPIREs that failed
\* or were sent for other payments do.
RecordedAreSeen ==
    [][\A p \in Payments, k \in Lists :
          /\ step[p] = "lrange" /\ step'[p] = "rpush"
          /\ k \in ListsOf(p) \ unread'[p]
          /\ Cardinality({q \in Payments :
                 <<q, k>> \in kept /\ asOf[p] - stamp[q] < Window(k)}) >= Limit(k)
          => k \in flags'[p]]_vars

\* A payment is flagged for a cause: as many others as the limit says were
\* created within the window before its check, of the same amount where the
\* rule is about amounts.
FlaggedForCause ==
    \A p \in Payments, k \in Lists :
        k \in flags[p] =>
            Cardinality({q \in Payments \ {p} :
                /\ step[q] # "new" /\ k \in ListsOf(q)
                /\ asOf[p] - stamp[q] < Window(k)}) >= Limit(k)
=============================================================================
