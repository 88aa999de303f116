-------------------------- MODULE PaymentCreation --------------------------
(***************************************************************************)
(* Creating payments under an idempotency key, while statuses change: the  *)
(* Redis cache is asked first, then the payments table, whose unique index *)
(* settles races, and both creation and status changes write the cache.    *)
(*                                                                         *)
(* `cache` is Redis, external: it forgets (TTL, eviction, restart), may be *)
(* away, and a failed command may have taken effect.  What a body besides  *)
(* its key asks for is left out, as are validation errors, which touch     *)
(* nothing.                                                                *)
(***************************************************************************)
EXTENDS Integers

CONSTANTS
    Keys,       \* idempotency keys
    Ids,        \* payment ids uuidv4 may draw
    Callers,    \* concurrent POST /payments
    Updaters,   \* concurrent updatePaymentStatus
    NewStatuses,\* statuses the updaters write
    None        \* no row, nothing cached, nothing in hand

Statuses == {"PENDING"} \cup NewStatuses
Row == [key : Keys, status : Statuses]
Payment == [id : Ids, key : Keys, status : Statuses]
Workers == Callers \cup Updaters

ASSUME NoneAssumption ==
    None \notin Row /\ None \notin Payment /\ None \notin Keys /\ None \notin Ids
ASSUME WorkersAssumption == Callers \cap Updaters = {}

VARIABLES
    rows,       \* [Ids -> row of the payments table, or None]
    cache,      \* [Keys -> payment stored under idempotency:<key>, or None]
    pc,         \* [Workers -> where the request stands]
    asked,      \* [Callers -> idempotency key of the request, or None]
    got,        \* [Workers -> payment in hand, or None]
    created,    \* callers whose own insert succeeded
    previous,   \* [Updaters -> previousStatus of the event to come, or None]
    reached,    \* history: [Ids -> statuses the row has had]
    passed,     \* history: [Ids -> pairs <<s, t>>: the row had s, then was given t]
    answered,   \* history: [Keys -> ids clients were told]
    announced   \* history: [Ids -> number of PaymentCreated events]

vars == <<rows, cache, pc, asked, got, created, previous, reached, passed,
          answered, announced>>
table == <<rows, reached, passed>>

CallerSteps == {"idle", "getCached", "find", "insert", "findAgain", "store",
                "publish", "checkAnomaly"}
UpdaterSteps == {"idle", "update", "publish", "store"}

Init ==
    /\ rows = [i \in Ids |-> None]
    /\ cache = [k \in Keys |-> None]
    /\ pc = [w \in Workers |-> "idle"]
    /\ asked = [c \in Callers |-> None]
    /\ got = [w \in Workers |-> None]
    /\ created = {}
    /\ previous = [u \in Updaters |-> None]
    /\ reached = [i \in Ids |-> {}]
    /\ passed = [i \in Ids |-> {}]
    /\ answered = [k \in Keys |-> {}]
    /\ announced = [i \in Ids |-> 0]

InTable(i) == rows[i] # None
Found(k) == {i \in Ids : InTable(i) /\ rows[i].key = k}

\* Fault: the raw row, which has no field idempotencyKey.
RawRow(i) == [id |-> i, status |-> rows[i].status]

\* mapRowToPayment
Stored(i) == [id |-> i, key |-> rows[i].key, status |-> rows[i].status]

Goto(w, step) == pc' = [pc EXCEPT ![w] = step]
Hold(w, p) == got' = [got EXCEPT ![w] = p]

\* A request ends and its slot is free again.
End(w) ==
    /\ Goto(w, "idle")
    /\ Hold(w, None)
    /\ created' = created \ {w}
    /\ asked' = IF w \in Callers THEN [asked EXCEPT ![w] = None] ELSE asked
    /\ previous' = IF w \in Updaters THEN [previous EXCEPT ![w] = None] ELSE previous

Answer(c, p) ==
    /\ End(c)
    /\ answered' = [answered EXCEPT ![asked[c]] = @ \cup {p.id}]

\* The caller goes on to step with payment p.
Proceed(c, step, p) ==
    /\ Goto(c, step)
    /\ Hold(c, p)
    /\ UNCHANGED <<asked, created, previous>>

-----------------------------------------------------------------------------
\* createPayment

Receive(c) ==
    /\ pc[c] = "idle"
    /\ \E k \in Keys : asked' = [asked EXCEPT ![c] = k]
    /\ Goto(c, "getCached")
    /\ UNCHANGED <<table, cache, got, created, previous, answered, announced>>

\* A failing GET counts as a miss.
GetCached(c) ==
    LET p == cache[asked[c]] IN
    /\ pc[c] = "getCached"
    /\ \/ p # None /\ Answer(c, p)
       \/ Proceed(c, "find", None) /\ UNCHANGED answered
    /\ UNCHANGED <<table, cache, announced>>

\* findByIdempotencyKey.
FindExisting(c) ==
    /\ pc[c] = "find"
    /\ \/ \E i \in Found(asked[c]) : Proceed(c, "store", Stored(i))
       \/ Found(asked[c]) = {} /\ Proceed(c, "insert", None)
    /\ UNCHANGED <<table, cache, answered, announced>>

\* findByIdempotencyKey after DUPLICATE_PAYMENT.  The winner has committed and
\* rows are not deleted; were it missing, this request would never end.
FindAgain(c) ==
    /\ pc[c] = "findAgain"
    /\ \E i \in Found(asked[c]) : Proceed(c, "store", Stored(i))
    /\ UNCHANGED <<table, cache, answered, announced>>

\* Fault: no unique index on payments.idempotency_key.
NoUniqueIndex(k) == FALSE

KeyTaken(k) == Found(k) # {}

\* Fault: insert again instead of looking up the payment that won.
InsertAgain(c) == "insert"

AfterDuplicate(c) == "findAgain"

\* The row is committed; the caller may see an error all the same.
Insert(c) ==
    LET k == asked[c] IN
    /\ pc[c] = "insert"
    /\ \/ /\ KeyTaken(k)
          /\ Proceed(c, AfterDuplicate(c), None)
          /\ UNCHANGED table
       \/ /\ ~KeyTaken(k)
          /\ \E i \in Ids :
                /\ ~InTable(i)
                /\ rows' = [rows EXCEPT ![i] = [key |-> k, status |-> "PENDING"]]
                /\ reached' = [reached EXCEPT ![i] = {"PENDING"}]
                /\ UNCHANGED passed
                /\ \/ /\ Goto(c, "store")
                      /\ Hold(c, [id |-> i, key |-> k, status |-> "PENDING"])
                      /\ created' = created \cup {c}
                      /\ UNCHANGED <<asked, previous>>
                   \/ End(c)
    /\ UNCHANGED <<cache, answered, announced>>

\* storePayment swallows a failing SETEX, which may have taken effect.
Store(w) ==
    \/ cache' = [cache EXCEPT ![got[w].key] = got[w]]
    \/ cache' = cache

\* Fault: an event for every payment returned.
AnyAnswer(c) == TRUE

Announces(c) == c \in created

StoreCreated(c) ==
    /\ pc[c] = "store"
    /\ Store(c)
    /\ \/ Announces(c) /\ Proceed(c, "publish", got[c]) /\ UNCHANGED answered
       \/ ~Announces(c) /\ Answer(c, got[c])
    /\ UNCHANGED <<table, announced>>

\* A failing PUBLISH is swallowed.
PublishCreated(c) ==
    /\ pc[c] = "publish"
    /\ Proceed(c, "checkAnomaly", got[c])
    /\ \/ announced' = [announced EXCEPT ![got[c].id] = @ + 1]
       \/ announced' = announced
    /\ UNCHANGED <<table, cache, answered>>

\* The anomaly check never fails the request.
CheckAnomaly(c) ==
    /\ pc[c] = "checkAnomaly"
    /\ Answer(c, got[c])
    /\ UNCHANGED <<table, cache, announced>>

\* The database fails a statement, which has no effect.
StatementFails(c) ==
    /\ pc[c] \in {"find", "insert", "findAgain"}
    /\ End(c)
    /\ UNCHANGED <<table, cache, answered, announced>>

-----------------------------------------------------------------------------
\* updatePaymentStatus

\* Fault: previousStatus is taken from the updated payment.
PreviousFromResult(i, s) == s

\* previousStatus of an update of payment i to status s.
PreviousStatus(i, s) == rows[i].status

\* findById: the updater holds the payment as it will be.
ReadPayment(u) ==
    /\ pc[u] = "idle"
    /\ \E i \in {j \in Ids : InTable(j)}, s \in NewStatuses :
          /\ Hold(u, [Stored(i) EXCEPT !.status = s])
          /\ previous' = [previous EXCEPT ![u] = PreviousStatus(i, s)]
    /\ Goto(u, "update")
    /\ UNCHANGED <<table, cache, asked, created, answered, announced>>

\* The row takes the status of p, whatever it is by now.
WriteStatus(p) ==
    /\ rows' = [rows EXCEPT ![p.id].status = p.status]
    /\ reached' = [reached EXCEPT ![p.id] = @ \cup {p.status}]
    /\ passed' = [passed EXCEPT ![p.id] = @ \cup (reached[p.id] \X {p.status})]

\* Fault: an error of the UPDATE is logged and the rest is done all the same.
GoesOnAfterError(u) ==
    Goto(u, "publish") /\ UNCHANGED <<got, asked, created, previous>>

\* The error goes to the client, who knows nothing of the update.
AfterUpdateError(u) == End(u)

UpdateStatus(u) ==
    /\ pc[u] = "update"
    /\ \/ WriteStatus(got[u]) /\ Goto(u, "publish")
             /\ UNCHANGED <<got, asked, created, previous>>
       \/ AfterUpdateError(u) /\ (WriteStatus(got[u]) \/ UNCHANGED table)
    /\ UNCHANGED <<cache, answered, announced>>

\* A failing PUBLISH is swallowed.
PublishChanged(u) ==
    /\ pc[u] = "publish"
    /\ Goto(u, "store")
    /\ UNCHANGED <<table, cache, asked, got, created, previous, answered, announced>>

StoreChanged(u) ==
    /\ pc[u] = "store"
    /\ Store(u)
    /\ End(u)
    /\ UNCHANGED <<table, answered, announced>>

-----------------------------------------------------------------------------
\* Redis forgets a key.
Forget(k) ==
    /\ cache[k] # None
    /\ cache' = [cache EXCEPT ![k] = None]
    /\ UNCHANGED <<table, pc, asked, got, created, previous, answered, announced>>

\* The payment service dies and restarts.
Crash ==
    /\ \E w \in Workers : pc[w] # "idle"
    /\ pc' = [w \in Workers |-> "idle"]
    /\ asked' = [c \in Callers |-> None]
    /\ got' = [w \in Workers |-> None]
    /\ created' = {}
    /\ previous' = [u \in Updaters |-> None]
    /\ UNCHANGED <<table, cache, answered, announced>>

Create(c) ==
    \/ GetCached(c) \/ FindExisting(c) \/ Insert(c) \/ FindAgain(c)
    \/ StoreCreated(c) \/ PublishCreated(c) \/ CheckAnomaly(c)

Change(u) == UpdateStatus(u) \/ PublishChanged(u) \/ StoreChanged(u)

Next ==
    \/ \E c \in Callers : Receive(c) \/ Create(c)
    \/ \E u \in Updaters : ReadPayment(u) \/ Change(u)
    \/ \E c \in Callers : StatementFails(c)
    \/ \E k \in Keys : Forget(k)
    \/ Crash

Spec == Init /\ [][Next]_vars

\* Every Redis command and every statement ends, with a result or an error.
FairSpec ==
    /\ Spec
    /\ \A c \in Callers : WF_vars(Create(c))
    /\ \A u \in Updaters : WF_vars(Change(u))

-----------------------------------------------------------------------------
TypeOK ==
    /\ rows \in [Ids -> Row \cup {None}]
    /\ cache \in [Keys -> Payment \cup {None}]
    /\ pc \in [Workers -> CallerSteps \cup UpdaterSteps]
    /\ asked \in [Callers -> Keys \cup {None}]
    /\ got \in [Workers -> Payment \cup {None}]
    /\ created \subseteq Callers
    /\ previous \in [Updaters -> Statuses \cup {None}]
    /\ reached \in [Ids -> SUBSET Statuses]
    /\ passed \in [Ids -> SUBSET (Statuses \X Statuses)]
    /\ answered \in [Keys -> SUBSET Ids]
    /\ announced \in [Ids -> Nat]

\* All successful answers to one idempotency key name one payment, and it is
\* in the table under that key: through the cache, the table or the lost race,
\* before and after the cache forgot it.
SameKeySamePayment ==
    \A k \in Keys : \A i \in answered[k] :
        /\ i \in Found(k)
        /\ \A j \in answered[k] : i = j

\* A payment is announced to the subscribers of payment-events at most once,
\* however many requests race for its key.
AnnouncedOnce == \A i \in Ids : announced[i] <= 1

\* The cache may lag behind the table but is never ahead of it: a status that
\* a cached payment shows is one its row has had.
CacheNeverAhead ==
    \A k \in Keys : cache[k] # None =>
        /\ cache[k].id \in Found(k)
        /\ cache[k].status \in reached[cache[k].id]

\* An event tells subscribers of a change that happened: the row had the
\* previous status and was later given the new one.  Of two concurrent updates
\* both may name one previous status, so the events of a payment need not chain.
EventsTellHistory ==
    \A u \in Updaters : pc[u] = "publish" =>
        <<previous[u], got[u].status>> \in passed[got[u].id]

\* Every request ends, also one that loses the race for its key again and
\* again: the loser looks the winner up and does not insert a second time.
RequestsEnd == \A w \in Workers : pc[w] # "idle" ~> pc[w] = "idle"

\* The promise of creation: for its callers and subscribers, the cache, the
\* table and the lost race come to one registration per key, decided at one
\* instant, whose payment every answer names and one request announces.
ownedOf == [c \in Callers |->
    IF c \in created /\ pc[c] \in {"store", "publish"} THEN got[c].id ELSE None]

Promise == INSTANCE PaymentRegistry WITH owned <- ownedOf

ImplementsRegistry == Promise!Spec
=============================================================================
