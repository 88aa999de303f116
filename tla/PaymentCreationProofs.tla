----------------------- MODULE PaymentCreationProofs -----------------------
(***************************************************************************)
(* Proofs about PaymentCreation, for every set of keys, ids, concurrent    *)
(* requests and statuses: its type invariant, one payment per key, one     *)
(* announcement per payment, a cache and events that never run ahead of    *)
(* the table, and that creation implements PaymentRegistry.                *)
(***************************************************************************)
EXTENDS PaymentCreation, TLAPS

-----------------------------------------------------------------------------
\* The inductive invariant.

\* p is a row of the table as it is or was.
Backed(p) ==
    /\ p \in Payment
    /\ rows[p.id] # None
    /\ rows[p.id].key = p.key
    /\ p.status \in reached[p.id]

Answering == {"store", "publish", "checkAnomaly"}

\* A request has a key, the payment in its hand is the one of that key, and a
\* payment it is about to announce has not been announced.
CallerOK(c) ==
    /\ pc[c] \in CallerSteps
    /\ pc[c] # "idle" => asked[c] # None
    /\ pc[c] \in Answering => Backed(got[c]) /\ got[c].key = asked[c]
    /\ pc[c] = "publish" => c \in created
    /\ c \in created => pc[c] \in Answering
    /\ c \in created /\ pc[c] \in {"store", "publish"} => announced[got[c].id] = 0

UpdaterOK(u) ==
    /\ pc[u] \in UpdaterSteps
    /\ pc[u] = "update" =>
           /\ got[u] \in Payment
           /\ rows[got[u].id] # None
           /\ rows[got[u].id].key = got[u].key
           /\ previous[u] \in reached[got[u].id]
    /\ pc[u] \in {"publish", "store"} => Backed(got[u])
    /\ pc[u] = "publish" => <<previous[u], got[u].status>> \in passed[got[u].id]

\* No two requests have inserted the same payment.
CreatorsDiffer == \A c, d \in created : c # d => got[c].id # got[d].id

TableOK ==
    /\ \A i \in Ids : rows[i] # None => rows[i].status \in reached[i]
    /\ \A i, j \in Ids :
           rows[i] # None /\ rows[j] # None /\ rows[i].key = rows[j].key => i = j
    /\ \A i \in Ids : announced[i] # 0 => rows[i] # None

CacheOK == \A k \in Keys : cache[k] # None => Backed(cache[k]) /\ cache[k].key = k

AnswersOK == \A k \in Keys : \A i \in answered[k] : rows[i] # None /\ rows[i].key = k

IInv ==
    /\ TypeOK
    /\ TableOK
    /\ CacheOK
    /\ AnswersOK
    /\ AnnouncedOnce
    /\ CreatorsDiffer
    /\ \A c \in Callers : CallerOK(c)
    /\ \A u \in Updaters : UpdaterOK(u)

-----------------------------------------------------------------------------
\* The table only grows.

Grows ==
    /\ \A i \in Ids : rows[i] # None =>
           /\ rows'[i] # None
           /\ rows'[i].key = rows[i].key
           /\ reached[i] \subseteq reached'[i]
    /\ \A i \in Ids : passed[i] \subseteq passed'[i]

LEMMA SameTableGrows == UNCHANGED table => Grows
  BY DEF table, Grows

LEMMA BackedStays ==
    ASSUME Grows, NEW p, Backed(p)
    PROVE  /\ p \in Payment
           /\ rows'[p.id] # None
           /\ rows'[p.id].key = p.key
           /\ p.status \in reached'[p.id]
<1>1. p \in Payment /\ p.id \in Ids
  BY DEF Backed, Payment
<1> QED
  BY <1>1 DEF Backed, Grows

LEMMA CacheStays ==
    ASSUME IInv, Grows, UNCHANGED cache
    PROVE  CacheOK'
<1> SUFFICES ASSUME NEW k \in Keys, cache[k] # None
             PROVE  Backed(cache[k])' /\ cache[k].key = k
  BY DEF CacheOK
<1>1. Backed(cache[k]) /\ cache[k].key = k
  BY DEF IInv, CacheOK
<1> QED
  BY <1>1, BackedStays DEF Backed

LEMMA AnswersStay ==
    ASSUME IInv, Grows, UNCHANGED answered
    PROVE  AnswersOK'
  BY DEF IInv, AnswersOK, Grows, TypeOK

LEMMA CallerStays ==
    ASSUME IInv, Grows, NEW c \in Callers,
           pc'[c] = pc[c], got'[c] = got[c], asked'[c] = asked[c],
           c \in created' <=> c \in created,
           c \in created /\ pc[c] \in {"store", "publish"} =>
               announced'[got[c].id] = announced[got[c].id]
    PROVE  CallerOK(c)'
<1>1. CallerOK(c)
  BY DEF IInv
<1>2. pc[c] \in Answering => Backed(got[c])'
  BY <1>1, BackedStays DEF CallerOK, Backed
<1> QED
  BY <1>1, <1>2 DEF CallerOK, Answering

LEMMA UpdaterStays ==
    ASSUME IInv, Grows, NEW u \in Updaters,
           pc'[u] = pc[u], got'[u] = got[u], previous'[u] = previous[u]
    PROVE  UpdaterOK(u)'
<1>1. UpdaterOK(u)
  BY DEF IInv
<1>2. pc[u] \in {"publish", "store"} => Backed(got[u])'
  BY <1>1, BackedStays DEF UpdaterOK, Backed
<1>3. CASE pc[u] = "update"
  <2>1. got[u].id \in Ids
    BY <1>1, <1>3 DEF UpdaterOK, Payment
  <2> QED
    BY <1>1, <1>3, <2>1 DEF UpdaterOK, UpdaterSteps, Grows
<1>4. CASE pc[u] = "publish"
  <2>1. got[u].id \in Ids
    BY <1>1, <1>4 DEF UpdaterOK, Backed, Payment
  <2> QED
    BY <1>1, <1>2, <1>4, <2>1 DEF UpdaterOK, UpdaterSteps, Grows
<1>5. CASE pc[u] \in {"idle", "store"}
  BY <1>1, <1>2, <1>5 DEF UpdaterOK, UpdaterSteps
<1> QED
  BY <1>1, <1>3, <1>4, <1>5 DEF UpdaterOK, UpdaterSteps

\* Only worker w moves.
OnlyMoves(w) ==
    /\ \A x \in Workers \ {w} : pc'[x] = pc[x] /\ got'[x] = got[x]
    /\ \A c \in Callers \ {w} : asked'[c] = asked[c] /\ (c \in created' <=> c \in created)
    /\ \A u \in Updaters \ {w} : previous'[u] = previous[u]

-----------------------------------------------------------------------------
\* What the building blocks do.

LEMMA GotoMoves ==
    ASSUME TypeOK, NEW w \in Workers, NEW step \in CallerSteps \cup UpdaterSteps,
           Goto(w, step)
    PROVE  /\ pc' \in [Workers -> CallerSteps \cup UpdaterSteps]
           /\ pc'[w] = step
           /\ \A x \in Workers \ {w} : pc'[x] = pc[x]
  BY DEF TypeOK, Goto

LEMMA HoldMoves ==
    ASSUME TypeOK, NEW w \in Workers, NEW p \in Payment \cup {None}, Hold(w, p)
    PROVE  /\ got' \in [Workers -> Payment \cup {None}]
           /\ got'[w] = p
           /\ \A x \in Workers \ {w} : got'[x] = got[x]
  BY DEF TypeOK, Hold

LEMMA ProceedMoves ==
    ASSUME TypeOK, NEW c \in Callers, NEW step \in CallerSteps,
           NEW p \in Payment \cup {None}, Proceed(c, step, p)
    PROVE  /\ OnlyMoves(c)
           /\ pc' \in [Workers -> CallerSteps \cup UpdaterSteps] /\ pc'[c] = step
           /\ got' \in [Workers -> Payment \cup {None}] /\ got'[c] = p
           /\ UNCHANGED <<asked, created, previous>>
<1>1. c \in Workers
  BY DEF Workers
<1> QED
  BY <1>1, GotoMoves, HoldMoves DEF Proceed, OnlyMoves

LEMMA EndMoves ==
    ASSUME TypeOK, NEW w \in Workers, End(w)
    PROVE  /\ OnlyMoves(w)
           /\ pc' \in [Workers -> CallerSteps \cup UpdaterSteps] /\ pc'[w] = "idle"
           /\ got' \in [Workers -> Payment \cup {None}]
           /\ asked' \in [Callers -> Keys \cup {None}]
           /\ created' \subseteq created /\ w \notin created'
           /\ previous' \in [Updaters -> Statuses \cup {None}]
<1>1. pc' \in [Workers -> CallerSteps \cup UpdaterSteps] /\ pc'[w] = "idle"
      /\ \A x \in Workers \ {w} : pc'[x] = pc[x]
  BY GotoMoves DEF End, CallerSteps
<1>2. got' \in [Workers -> Payment \cup {None}]
      /\ \A x \in Workers \ {w} : got'[x] = got[x]
  BY HoldMoves DEF End
<1>3. /\ asked' \in [Callers -> Keys \cup {None}]
      /\ \A c \in Callers \ {w} : asked'[c] = asked[c]
  BY DEF End, TypeOK
<1>4. /\ previous' \in [Updaters -> Statuses \cup {None}]
      /\ \A u \in Updaters \ {w} : previous'[u] = previous[u]
  BY DEF End, TypeOK
<1>5. /\ created' \subseteq created /\ w \notin created'
      /\ \A c \in Callers \ {w} : c \in created' <=> c \in created
  BY DEF End
<1> QED
  BY <1>1, <1>2, <1>3, <1>4, <1>5 DEF OnlyMoves, Workers

\* A worker that ends its request satisfies its invariant, and so do the others.
LEMMA EndKeepsWorkers ==
    ASSUME IInv, Grows, NEW w \in Workers, End(w), UNCHANGED announced
    PROVE  /\ \A c \in Callers : CallerOK(c)'
           /\ \A u \in Updaters : UpdaterOK(u)'
           /\ CreatorsDiffer'
<1>1. /\ OnlyMoves(w)
      /\ pc'[w] = "idle"
      /\ created' \subseteq created /\ w \notin created'
  BY EndMoves DEF IInv
<1>2. ASSUME NEW c \in Callers PROVE CallerOK(c)'
  <2>1. CASE c = w
    BY <1>1, <2>1 DEF CallerOK, CallerSteps, Answering
  <2>2. CASE c # w
    BY <1>1, <2>2, CallerStays DEF OnlyMoves, Workers
  <2> QED
    BY <2>1, <2>2
<1>3. ASSUME NEW u \in Updaters PROVE UpdaterOK(u)'
  <2>1. CASE u = w
    BY <1>1, <2>1 DEF UpdaterOK, UpdaterSteps
  <2>2. CASE u # w
    BY <1>1, <2>2, UpdaterStays DEF OnlyMoves, Workers
  <2> QED
    BY <2>1, <2>2
<1>4. CreatorsDiffer'
  <2>1. \A c \in created' : c \in created /\ got'[c] = got[c]
    BY <1>1 DEF OnlyMoves, Workers, IInv, TypeOK
  <2> QED
    BY <2>1 DEF IInv, CreatorsDiffer
<1> QED
  BY <1>2, <1>3, <1>4

\* A caller that goes on satisfies its invariant, and so do the others.
LEMMA ProceedKeepsWorkers ==
    ASSUME IInv, Grows, NEW c \in Callers, NEW step \in CallerSteps,
           NEW p \in Payment \cup {None}, Proceed(c, step, p),
           UNCHANGED announced, pc[c] # "idle",
           step \in Answering => Backed(p) /\ p.key = asked[c],
           step = "publish" => c \in created,
           c \in created => step \in Answering /\ p = got[c],
           step = "store" => c \notin created,
           step = "publish" => pc[c] = "store"
    PROVE  /\ \A d \in Callers : CallerOK(d)'
           /\ \A u \in Updaters : UpdaterOK(u)'
           /\ CreatorsDiffer'
<1>1. /\ OnlyMoves(c)
      /\ pc'[c] = step
      /\ got'[c] = p
      /\ UNCHANGED <<asked, created, previous>>
  BY ProceedMoves DEF IInv
<1>2. ASSUME NEW d \in Callers PROVE CallerOK(d)'
  <2>1. CASE d = c
    <3>1. CallerOK(c)
      BY DEF IInv
    <3>2. step \in Answering => Backed(got[c])'
      BY <1>1, BackedStays DEF Backed
    <3> QED
      BY <1>1, <2>1, <3>1, <3>2 DEF CallerOK, Answering
  <2>2. CASE d # c
    BY <1>1, <2>2, CallerStays DEF OnlyMoves, Workers
  <2> QED
    BY <2>1, <2>2
<1>3. ASSUME NEW u \in Updaters PROVE UpdaterOK(u)'
  BY <1>1, UpdaterStays, WorkersAssumption DEF OnlyMoves, Workers
<1>4. CreatorsDiffer'
  <2>1. \A d \in created : d \in created /\ got'[d] = got[d]
    BY <1>1 DEF OnlyMoves, Workers, IInv, TypeOK
  <2> QED
    BY <1>1, <2>1 DEF IInv, CreatorsDiffer
<1> QED
  BY <1>2, <1>3, <1>4

LEMMA AnswerMoves ==
    ASSUME IInv, UNCHANGED table, NEW c \in Callers, NEW p, Answer(c, p),
           Backed(p), p.key = asked[c]
    PROVE  AnswersOK' /\ answered' \in [Keys -> SUBSET Ids]
<1>1. p.id \in Ids /\ asked[c] \in Keys /\ rows[p.id] # None /\ rows[p.id].key = asked[c]
  BY DEF Backed, Payment
<1>2. answered \in [Keys -> SUBSET Ids] /\ AnswersOK /\ rows' = rows
  BY DEF IInv, TypeOK, table
<1>3. answered' = [answered EXCEPT ![asked[c]] = @ \cup {p.id}]
  BY DEF Answer
<1>4. \A k \in Keys : answered'[k] =
          IF k = asked[c] THEN answered[k] \cup {p.id} ELSE answered[k]
  BY <1>1, <1>2, <1>3
<1> QED
  BY <1>1, <1>2, <1>3, <1>4 DEF AnswersOK

LEMMA StoreMoves ==
    ASSUME IInv, UNCHANGED table, NEW w \in Workers, Store(w), Backed(got[w])
    PROVE  CacheOK' /\ cache' \in [Keys -> Payment \cup {None}]
<1>1. Grows
  BY SameTableGrows
<1>2. cache \in [Keys -> Payment \cup {None}]
  BY DEF IInv, TypeOK
<1>3. CASE cache' = cache
  BY <1>1, <1>2, <1>3, CacheStays
<1>4. CASE cache' = [cache EXCEPT ![got[w].key] = got[w]]
  <2>1. got[w] \in Payment /\ got[w].key \in Keys
    BY DEF Backed, Payment
  <2>2. SUFFICES ASSUME NEW k \in Keys, cache'[k] # None
                 PROVE  Backed(cache[k])' /\ cache'[k].key = k
    BY <1>2, <1>4, <2>1 DEF CacheOK
  <2>3. Backed(cache'[k]) /\ cache'[k].key = k
    BY <1>2, <1>4, <2>1, <2>2 DEF IInv, CacheOK
  <2> QED
    BY <1>1, <2>3, BackedStays DEF Backed
<1> QED
  BY <1>3, <1>4 DEF Store

LEMMA TableStays ==
    ASSUME IInv, UNCHANGED <<table, announced>>
    PROVE  TableOK' /\ AnnouncedOnce'
  BY DEF IInv, TableOK, AnnouncedOnce, table

\* The payment that a lookup under a request's key returns.
LEMMA FoundIsBacked ==
    ASSUME IInv, NEW k \in Keys, NEW i \in Found(k)
    PROVE  Backed(Stored(i)) /\ Stored(i).key = k /\ Stored(i) \in Payment
<1>1. i \in Ids /\ rows[i] # None /\ rows[i].key = k
  BY DEF Found, InTable
<1>2. rows[i] \in Row /\ rows[i].status \in reached[i]
  BY <1>1 DEF IInv, TypeOK, TableOK
<1> QED
  BY <1>1, <1>2 DEF Stored, Backed, Payment, Row

-----------------------------------------------------------------------------
\* The initial states, and one lemma per action.

LEMMA InitIInv == Init => IInv
<1> SUFFICES ASSUME Init PROVE IInv
  OBVIOUS
<1>1. TypeOK
  BY DEF Init, TypeOK, CallerSteps
<1>2. TableOK /\ CacheOK /\ AnswersOK /\ AnnouncedOnce /\ CreatorsDiffer
  BY DEF Init, TableOK, CacheOK, AnswersOK, AnnouncedOnce, CreatorsDiffer
<1>3. ASSUME NEW c \in Callers PROVE CallerOK(c)
  BY DEF Init, CallerOK, Workers, CallerSteps, Answering
<1>4. ASSUME NEW u \in Updaters PROVE UpdaterOK(u)
  BY DEF Init, UpdaterOK, Workers, UpdaterSteps
<1> QED
  BY <1>1, <1>2, <1>3, <1>4 DEF IInv

LEMMA ReceiveStep ==
    ASSUME IInv, NEW c \in Callers, Receive(c)
    PROVE  IInv'
<1>1. UNCHANGED <<table, cache, got, created, previous, answered, announced>>
  BY DEF Receive
<1>2. Grows /\ TypeOK /\ c \in Workers
  BY <1>1, SameTableGrows DEF IInv, Workers
<1>3. PICK k \in Keys : asked' = [asked EXCEPT ![c] = k]
  BY DEF Receive
<1>4. /\ pc' \in [Workers -> CallerSteps \cup UpdaterSteps]
      /\ pc'[c] = "getCached"
      /\ \A w \in Workers \ {c} : pc'[w] = pc[w]
  BY <1>2, GotoMoves DEF Receive, CallerSteps
<1>5. asked' \in [Callers -> Keys \cup {None}] /\ asked'[c] = k
      /\ \A d \in Callers \ {c} : asked'[d] = asked[d]
  BY <1>2, <1>3 DEF TypeOK
<1>6. TypeOK'
  BY <1>1, <1>2, <1>4, <1>5 DEF TypeOK, table
<1>7. TableOK' /\ AnnouncedOnce' /\ CacheOK' /\ AnswersOK' /\ CreatorsDiffer'
  BY <1>1, <1>2, TableStays, CacheStays, AnswersStay DEF IInv, CreatorsDiffer
<1>8. ASSUME NEW d \in Callers PROVE CallerOK(d)'
  <2>1. CASE d = c
    <3>1. CallerOK(c) /\ pc[c] = "idle"
      BY DEF IInv, Receive
    <3> QED
      BY <1>1, <1>4, <1>5, <2>1, <3>1, NoneAssumption
      DEF CallerOK, CallerSteps, Answering
  <2>2. CASE d # c
    BY <1>1, <1>2, <1>4, <1>5, <2>2, CallerStays DEF Workers
  <2> QED
    BY <2>1, <2>2
<1>9. ASSUME NEW u \in Updaters PROVE UpdaterOK(u)'
  BY <1>1, <1>2, <1>4, UpdaterStays, WorkersAssumption DEF Workers
<1> QED
  BY <1>6, <1>7, <1>8, <1>9 DEF IInv

LEMMA GetCachedStep ==
    ASSUME IInv, NEW c \in Callers, GetCached(c)
    PROVE  IInv'
<1>1. UNCHANGED <<table, cache, announced>> /\ pc[c] = "getCached"
  BY DEF GetCached
<1>2. Grows /\ TypeOK /\ CallerOK(c) /\ c \in Workers
  BY <1>1, SameTableGrows DEF IInv, Workers
<1>3. asked[c] \in Keys /\ c \notin created
  BY <1>1, <1>2 DEF CallerOK, TypeOK, Answering
<1>4. TableOK' /\ AnnouncedOnce' /\ CacheOK'
  BY <1>1, <1>2, TableStays, CacheStays
<1>5. CASE cache[asked[c]] # None /\ Answer(c, cache[asked[c]])
  <2>1. Backed(cache[asked[c]]) /\ cache[asked[c]].key = asked[c]
    BY <1>3, <1>5 DEF IInv, CacheOK
  <2>2. AnswersOK' /\ answered' \in [Keys -> SUBSET Ids]
    BY <1>1, <1>5, <2>1, AnswerMoves
  <2>3. End(c)
    BY <1>5 DEF Answer
  <2>4. TypeOK'
    BY <1>1, <1>2, <2>2, <2>3, EndMoves DEF TypeOK, table
  <2> QED
    BY <1>1, <1>2, <1>4, <2>2, <2>3, <2>4, EndKeepsWorkers DEF IInv
<1>6. CASE Proceed(c, "find", None) /\ UNCHANGED answered
  <2>1. TypeOK'
    BY <1>1, <1>2, <1>6, ProceedMoves DEF TypeOK, table, CallerSteps
  <2>2. AnswersOK'
    BY <1>2, <1>6, AnswersStay
  <2>3. /\ \A d \in Callers : CallerOK(d)'
        /\ \A u \in Updaters : UpdaterOK(u)'
        /\ CreatorsDiffer'
    BY <1>1, <1>2, <1>3, <1>6, ProceedKeepsWorkers DEF CallerSteps, Answering
  <2> QED
    BY <1>4, <2>1, <2>2, <2>3 DEF IInv
<1> QED
  BY <1>5, <1>6 DEF GetCached

\* A request that goes on without an answer or a payment of its own.
LEMMA GoesOn ==
    ASSUME IInv, NEW c \in Callers, NEW step \in CallerSteps,
           NEW p \in Payment \cup {None}, Proceed(c, step, p),
           UNCHANGED <<table, cache, answered, announced>>,
           pc[c] \in {"find", "insert", "findAgain"},
           step \notin {"publish"},
           step \in Answering => Backed(p) /\ p.key = asked[c]
    PROVE  IInv'
<1>1. Grows /\ TypeOK /\ CallerOK(c)
  BY SameTableGrows DEF IInv
<1>2. c \notin created
  BY <1>1 DEF CallerOK, Answering
<1>3. TypeOK'
  BY <1>1, ProceedMoves DEF TypeOK, table
<1>4. TableOK' /\ AnnouncedOnce' /\ CacheOK' /\ AnswersOK'
  BY <1>1, TableStays, CacheStays, AnswersStay
<1>5. /\ \A d \in Callers : CallerOK(d)'
      /\ \A u \in Updaters : UpdaterOK(u)'
      /\ CreatorsDiffer'
  BY <1>1, <1>2, ProceedKeepsWorkers
<1> QED
  BY <1>3, <1>4, <1>5 DEF IInv

LEMMA FindStep ==
    ASSUME IInv, NEW c \in Callers, FindExisting(c) \/ FindAgain(c)
    PROVE  IInv'
<1>1. UNCHANGED <<table, cache, answered, announced>> /\ pc[c] \in {"find", "findAgain"}
  BY DEF FindExisting, FindAgain
<1>2. asked[c] \in Keys
  BY <1>1 DEF IInv, CallerOK, TypeOK
<1>3. CASE \E i \in Found(asked[c]) : Proceed(c, "store", Stored(i))
  <2>1. PICK i \in Found(asked[c]) : Proceed(c, "store", Stored(i))
    BY <1>3
  <2>2. Backed(Stored(i)) /\ Stored(i).key = asked[c] /\ Stored(i) \in Payment
    BY <1>2, FoundIsBacked
  <2> QED
    BY <1>1, <2>1, <2>2, GoesOn DEF CallerSteps
<1>4. CASE Proceed(c, "insert", None)
  BY <1>1, <1>4, GoesOn DEF CallerSteps, Answering
<1> QED
  BY <1>3, <1>4 DEF FindExisting, FindAgain

LEMMA EndStep ==
    ASSUME IInv, NEW w \in Workers, End(w),
           UNCHANGED <<table, cache, answered, announced>>
    PROVE  IInv'
<1>1. Grows /\ TypeOK
  BY SameTableGrows DEF IInv
<1>2. TypeOK'
  BY <1>1, EndMoves DEF TypeOK, table
<1>3. TableOK' /\ AnnouncedOnce' /\ CacheOK' /\ AnswersOK'
  BY <1>1, TableStays, CacheStays, AnswersStay
<1> QED
  BY <1>1, <1>2, <1>3, EndKeepsWorkers DEF IInv

\* A new row takes a key no row has.
LEMMA InsertedRow ==
    ASSUME IInv, NEW k \in Keys, NEW i \in Ids, ~KeyTaken(k), ~InTable(i),
           rows' = [rows EXCEPT ![i] = [key |-> k, status |-> "PENDING"]],
           reached' = [reached EXCEPT ![i] = {"PENDING"}],
           UNCHANGED <<passed, announced>>
    PROVE  /\ Grows
           /\ TableOK' /\ AnnouncedOnce'
           /\ rows' \in [Ids -> Row \cup {None}]
           /\ reached' \in [Ids -> SUBSET Statuses]
           /\ rows'[i] = [key |-> k, status |-> "PENDING"] /\ rows'[i] # None
           /\ reached'[i] = {"PENDING"}
           /\ rows[i] = None /\ announced[i] = 0
<1> DEFINE new == [key |-> k, status |-> "PENDING"]
<1>1. new \in Row /\ new # None
  BY NoneAssumption DEF Row, Statuses
<1>2. rows \in [Ids -> Row \cup {None}] /\ reached \in [Ids -> SUBSET Statuses] /\ TableOK
  BY DEF IInv, TypeOK
<1>3. rows[i] = None /\ \A j \in Ids : rows[j] # None => rows[j].key # k
  BY DEF KeyTaken, Found, InTable
<1>4. rows' \in [Ids -> Row \cup {None}] /\ reached' \in [Ids -> SUBSET Statuses]
  BY <1>1, <1>2 DEF Statuses
<1>5. rows'[i] = new /\ reached'[i] = {"PENDING"}
      /\ \A j \in Ids \ {i} : rows'[j] = rows[j] /\ reached'[j] = reached[j]
  BY <1>2
<1>6. Grows
  BY <1>3, <1>5 DEF Grows
<1>7. announced[i] = 0
  BY <1>2, <1>3 DEF TableOK
<1>8. TableOK'
  BY <1>1, <1>2, <1>3, <1>5 DEF TableOK
<1> QED
  BY <1>1, <1>3, <1>4, <1>5, <1>6, <1>7, <1>8 DEF IInv, AnnouncedOnce

LEMMA InsertStep ==
    ASSUME IInv, NEW c \in Callers, Insert(c)
    PROVE  IInv'
<1> DEFINE k == asked[c]
<1>1. UNCHANGED <<cache, answered, announced>> /\ pc[c] = "insert"
  BY DEF Insert
<1>2. TypeOK /\ CallerOK(c) /\ c \in Workers
  BY DEF IInv, Workers
<1>3. k \in Keys /\ c \notin created
  BY <1>1, <1>2 DEF CallerOK, TypeOK, Answering
<1>4. CASE Proceed(c, AfterDuplicate(c), None) /\ UNCHANGED table
  BY <1>1, <1>4, GoesOn DEF AfterDuplicate, CallerSteps, Answering
<1>5. CASE ~KeyTaken(k) /\ \E i \in Ids :
                /\ ~InTable(i)
                /\ rows' = [rows EXCEPT ![i] = [key |-> k, status |-> "PENDING"]]
                /\ reached' = [reached EXCEPT ![i] = {"PENDING"}]
                /\ UNCHANGED passed
                /\ \/ /\ Goto(c, "store")
                      /\ Hold(c, [id |-> i, key |-> k, status |-> "PENDING"])
                      /\ created' = created \cup {c}
                      /\ UNCHANGED <<asked, previous>>
                   \/ End(c)
  <2>1. PICK i \in Ids :
                /\ ~InTable(i)
                /\ rows' = [rows EXCEPT ![i] = [key |-> k, status |-> "PENDING"]]
                /\ reached' = [reached EXCEPT ![i] = {"PENDING"}]
                /\ UNCHANGED passed
                /\ \/ /\ Goto(c, "store")
                      /\ Hold(c, [id |-> i, key |-> k, status |-> "PENDING"])
                      /\ created' = created \cup {c}
                      /\ UNCHANGED <<asked, previous>>
                   \/ End(c)
    BY <1>5
  <2> DEFINE p == [id |-> i, key |-> k, status |-> "PENDING"]
  <2>2. /\ Grows
        /\ TableOK' /\ AnnouncedOnce'
        /\ rows' \in [Ids -> Row \cup {None}]
        /\ reached' \in [Ids -> SUBSET Statuses]
        /\ rows'[i] = [key |-> k, status |-> "PENDING"] /\ rows'[i] # None
        /\ reached'[i] = {"PENDING"}
        /\ rows[i] = None /\ announced[i] = 0
    BY <1>1, <1>3, <1>5, <2>1, InsertedRow
  <2>3. CacheOK' /\ AnswersOK'
    BY <1>1, <2>2, CacheStays, AnswersStay
  <2>4. CASE End(c)
    <3>1. TypeOK'
      BY <1>1, <1>2, <2>1, <2>2, <2>4, EndMoves DEF TypeOK
    <3> QED
      BY <1>1, <1>2, <2>2, <2>3, <2>4, <3>1, EndKeepsWorkers DEF IInv
  <2>5. CASE /\ Goto(c, "store") /\ Hold(c, p)
             /\ created' = created \cup {c}
             /\ UNCHANGED <<asked, previous>>
    <3>1. p \in Payment
      BY <1>3 DEF Payment, Statuses
    <3>2. /\ pc' \in [Workers -> CallerSteps \cup UpdaterSteps]
          /\ pc'[c] = "store"
          /\ \A w \in Workers \ {c} : pc'[w] = pc[w]
      BY <1>2, <2>5, GotoMoves DEF CallerSteps
    <3>3. /\ got' \in [Workers -> Payment \cup {None}]
          /\ got'[c] = p
          /\ \A w \in Workers \ {c} : got'[w] = got[w]
      BY <1>2, <2>5, <3>1, HoldMoves
    <3>4. TypeOK'
      BY <1>1, <1>2, <2>1, <2>2, <2>5, <3>2, <3>3 DEF TypeOK
    <3>5. ASSUME NEW d \in Callers PROVE CallerOK(d)'
      <4>1. CASE d = c
        <5>1. Backed(got[c])' /\ got'[c].key = asked'[c]
          BY <2>2, <2>5, <3>1, <3>3 DEF Backed
        <5>2. asked'[c] # None
          BY <1>1, <1>2, <2>5 DEF CallerOK
        <5>3. announced'[got'[c].id] = 0 /\ c \in created'
          BY <1>1, <2>2, <2>5, <3>3
        <5> QED
          BY <3>2, <4>1, <5>1, <5>2, <5>3 DEF CallerOK, CallerSteps, Answering
      <4>2. CASE d # c
        BY <1>1, <2>2, <2>5, <3>2, <3>3, <4>2, CallerStays DEF Workers
      <4> QED
        BY <4>1, <4>2
    <3>6. ASSUME NEW u \in Updaters PROVE UpdaterOK(u)'
      BY <2>2, <2>5, <3>2, <3>3, UpdaterStays, WorkersAssumption DEF Workers
    <3>7. CreatorsDiffer'
      <4>1. ASSUME NEW d \in created PROVE got'[d] = got[d] /\ got[d].id # i
        <5>1. CallerOK(d) /\ d \in Callers
          BY DEF IInv, TypeOK
        <5>2. Backed(got[d])
          BY <5>1 DEF CallerOK
        <5> QED
          BY <1>3, <2>2, <3>3, <5>1, <5>2 DEF Backed, Workers
      <4> QED
        BY <2>5, <3>3, <4>1 DEF IInv, CreatorsDiffer
    <3> QED
      BY <2>2, <2>3, <3>4, <3>5, <3>6, <3>7 DEF IInv
  <2> QED
    BY <2>1, <2>4, <2>5
<1> QED
  BY <1>4, <1>5 DEF Insert

LEMMA StoreCreatedStep ==
    ASSUME IInv, NEW c \in Callers, StoreCreated(c)
    PROVE  IInv'
<1>1. UNCHANGED <<table, announced>> /\ pc[c] = "store" /\ Store(c)
  BY DEF StoreCreated
<1>2. Grows /\ TypeOK /\ CallerOK(c) /\ c \in Workers
  BY <1>1, SameTableGrows DEF IInv, Workers
<1>3. Backed(got[c]) /\ got[c].key = asked[c] /\ got[c] \in Payment
  BY <1>1, <1>2 DEF CallerOK, Answering, Backed
<1>4. TableOK' /\ AnnouncedOnce' /\ CacheOK' /\ cache' \in [Keys -> Payment \cup {None}]
  BY <1>1, <1>2, <1>3, TableStays, StoreMoves
<1>5. CASE Announces(c) /\ Proceed(c, "publish", got[c]) /\ UNCHANGED answered
  <2>1. TypeOK'
    BY <1>1, <1>2, <1>3, <1>4, <1>5, ProceedMoves DEF TypeOK, table, CallerSteps
  <2>2. AnswersOK'
    BY <1>2, <1>5, AnswersStay
  <2>3. /\ \A d \in Callers : CallerOK(d)'
        /\ \A u \in Updaters : UpdaterOK(u)'
        /\ CreatorsDiffer'
    BY <1>1, <1>2, <1>3, <1>5, ProceedKeepsWorkers DEF CallerSteps, Answering, Announces
  <2> QED
    BY <1>4, <2>1, <2>2, <2>3 DEF IInv
<1>6. CASE Answer(c, got[c])
  <2>1. AnswersOK' /\ answered' \in [Keys -> SUBSET Ids]
    BY <1>1, <1>3, <1>6, AnswerMoves
  <2>2. End(c)
    BY <1>6 DEF Answer
  <2>3. TypeOK'
    BY <1>1, <1>2, <1>4, <2>1, <2>2, EndMoves DEF TypeOK, table
  <2> QED
    BY <1>1, <1>2, <1>4, <2>1, <2>2, <2>3, EndKeepsWorkers DEF IInv
<1> QED
  BY <1>5, <1>6 DEF StoreCreated

LEMMA CheckAnomalyStep ==
    ASSUME IInv, NEW c \in Callers, CheckAnomaly(c)
    PROVE  IInv'
<1>1. UNCHANGED <<table, cache, announced>> /\ pc[c] = "checkAnomaly"
      /\ Answer(c, got[c])
  BY DEF CheckAnomaly
<1>2. Grows /\ TypeOK /\ CallerOK(c) /\ c \in Workers
  BY <1>1, SameTableGrows DEF IInv, Workers
<1>3. Backed(got[c]) /\ got[c].key = asked[c]
  BY <1>1, <1>2 DEF CallerOK, Answering
<1>4. TableOK' /\ AnnouncedOnce' /\ CacheOK'
  BY <1>1, <1>2, TableStays, CacheStays
<1>5. AnswersOK' /\ answered' \in [Keys -> SUBSET Ids]
  BY <1>1, <1>3, AnswerMoves
<1>6. End(c)
  BY <1>1 DEF Answer
<1>7. TypeOK'
  BY <1>1, <1>2, <1>5, <1>6, EndMoves DEF TypeOK, table
<1> QED
  BY <1>1, <1>2, <1>4, <1>5, <1>6, <1>7, EndKeepsWorkers DEF IInv

LEMMA PublishCreatedStep ==
    ASSUME IInv, NEW c \in Callers, PublishCreated(c)
    PROVE  IInv'
<1> DEFINE i == got[c].id
<1>1. UNCHANGED <<table, cache, answered>> /\ pc[c] = "publish"
      /\ Proceed(c, "checkAnomaly", got[c])
  BY DEF PublishCreated
<1>2. Grows /\ TypeOK /\ CallerOK(c) /\ c \in Workers
  BY <1>1, SameTableGrows DEF IInv, Workers
<1>3. /\ Backed(got[c]) /\ got[c].key = asked[c] /\ got[c] \in Payment
      /\ i \in Ids /\ rows[i] # None /\ c \in created /\ announced[i] = 0
  BY <1>1, <1>2 DEF CallerOK, Answering, Backed, Payment
<1>4. /\ announced' \in [Ids -> Nat]
      /\ announced'[i] \in {0, 1}
      /\ \A j \in Ids \ {i} : announced'[j] = announced[j]
  BY <1>2, <1>3 DEF PublishCreated, TypeOK
<1>5. TableOK' /\ AnnouncedOnce'
  BY <1>1, <1>3, <1>4 DEF IInv, TableOK, AnnouncedOnce, table
<1>6. CacheOK' /\ AnswersOK'
  BY <1>1, <1>2, CacheStays, AnswersStay
<1>7. /\ OnlyMoves(c)
      /\ pc'[c] = "checkAnomaly"
      /\ got'[c] = got[c]
      /\ UNCHANGED <<asked, created, previous>>
  BY <1>1, <1>2, <1>3, ProceedMoves DEF CallerSteps
<1>8. TypeOK'
  BY <1>1, <1>2, <1>3, <1>4, ProceedMoves DEF TypeOK, table, CallerSteps
<1>9. ASSUME NEW d \in Callers PROVE CallerOK(d)'
  <2>1. CASE d = c
    <3>1. Backed(got[c])'
      BY <1>2, <1>3, <1>7, BackedStays DEF Backed
    <3> QED
      BY <1>2, <1>3, <1>7, <2>1, <3>1 DEF CallerOK, CallerSteps, Answering
  <2>2. CASE d # c
    <3>1. ASSUME d \in created, pc[d] \in {"store", "publish"}
          PROVE  announced'[got[d].id] = announced[got[d].id]
      <4>1. CallerOK(d) /\ got[d].id # i
        BY <1>3, <2>2, <3>1 DEF IInv, CreatorsDiffer
      <4>2. got[d].id \in Ids
        BY <3>1, <4>1 DEF CallerOK, Answering, Backed, Payment
      <4> QED
        BY <1>4, <4>1, <4>2
    <3> QED
      BY <1>2, <1>7, <2>2, <3>1, CallerStays DEF OnlyMoves, Workers
  <2> QED
    BY <2>1, <2>2
<1>10. ASSUME NEW u \in Updaters PROVE UpdaterOK(u)'
  BY <1>2, <1>7, UpdaterStays, WorkersAssumption DEF OnlyMoves, Workers
<1>11. CreatorsDiffer'
  <2>1. \A d \in created : got'[d] = got[d]
    BY <1>2, <1>7 DEF OnlyMoves, Workers, TypeOK
  <2> QED
    BY <1>7, <2>1 DEF IInv, CreatorsDiffer
<1> QED
  BY <1>5, <1>6, <1>8, <1>9, <1>10, <1>11 DEF IInv

-----------------------------------------------------------------------------
\* updatePaymentStatus.

\* An updater moves on: the callers stay as they are.
LEMMA UpdaterMoves ==
    ASSUME IInv, Grows, NEW u \in Updaters, OnlyMoves(u), UpdaterOK(u)',
           UNCHANGED <<asked, created, announced>>
    PROVE  /\ \A c \in Callers : CallerOK(c)'
           /\ \A v \in Updaters : UpdaterOK(v)'
           /\ CreatorsDiffer'
<1>1. ASSUME NEW c \in Callers PROVE CallerOK(c)'
  BY CallerStays, WorkersAssumption DEF OnlyMoves, Workers
<1>2. ASSUME NEW v \in Updaters PROVE UpdaterOK(v)'
  <2>1. CASE v # u
    BY <2>1, UpdaterStays DEF OnlyMoves, Workers
  <2> QED
    BY <2>1
<1>3. CreatorsDiffer'
  <2>1. \A d \in created : got'[d] = got[d]
    BY WorkersAssumption DEF OnlyMoves, Workers, IInv, TypeOK
  <2> QED
    BY <2>1 DEF IInv, CreatorsDiffer
<1> QED
  BY <1>1, <1>2, <1>3

LEMMA ReadPaymentStep ==
    ASSUME IInv, NEW u \in Updaters, ReadPayment(u)
    PROVE  IInv'
<1>1. UNCHANGED <<table, cache, asked, created, answered, announced>>
      /\ pc[u] = "idle" /\ Goto(u, "update")
  BY DEF ReadPayment
<1>2. Grows /\ TypeOK /\ u \in Workers
  BY <1>1, SameTableGrows DEF IInv, Workers
<1>3. PICK i \in Ids, s \in NewStatuses :
          /\ InTable(i)
          /\ Hold(u, [Stored(i) EXCEPT !.status = s])
          /\ previous' = [previous EXCEPT ![u] = PreviousStatus(i, s)]
  BY DEF ReadPayment
<1> DEFINE p == [Stored(i) EXCEPT !.status = s]
<1>4. /\ rows[i] # None /\ rows[i] \in Row
      /\ rows[i].key \in Keys /\ rows[i].status \in Statuses
      /\ rows[i].status \in reached[i]
  BY <1>2, <1>3 DEF InTable, TypeOK, Row, IInv, TableOK
<1>5. p = [id |-> i, key |-> rows[i].key, status |-> s] /\ p \in Payment
  BY <1>4 DEF Stored, Payment, Statuses
<1>6. /\ pc' \in [Workers -> CallerSteps \cup UpdaterSteps]
      /\ pc'[u] = "update"
      /\ \A w \in Workers \ {u} : pc'[w] = pc[w]
  BY <1>1, <1>2, GotoMoves DEF UpdaterSteps
<1>7. /\ got' \in [Workers -> Payment \cup {None}]
      /\ got'[u] = p
      /\ \A w \in Workers \ {u} : got'[w] = got[w]
  BY <1>2, <1>3, <1>5, HoldMoves
<1>8. /\ previous' \in [Updaters -> Statuses \cup {None}]
      /\ previous'[u] = rows[i].status
      /\ \A v \in Updaters \ {u} : previous'[v] = previous[v]
  BY <1>2, <1>3, <1>4 DEF TypeOK, PreviousStatus
<1>9. TypeOK'
  BY <1>1, <1>2, <1>6, <1>7, <1>8 DEF TypeOK, table
<1>10. TableOK' /\ AnnouncedOnce' /\ CacheOK' /\ AnswersOK'
  BY <1>1, <1>2, TableStays, CacheStays, AnswersStay
<1>11. OnlyMoves(u)
  BY <1>1, <1>6, <1>7, <1>8 DEF OnlyMoves
<1>12. UpdaterOK(u)'
  BY <1>1, <1>4, <1>5, <1>6, <1>7, <1>8 DEF UpdaterOK, UpdaterSteps, table
<1> QED
  BY <1>1, <1>2, <1>9, <1>10, <1>11, <1>12, UpdaterMoves DEF IInv

LEMMA WriteStatusMoves ==
    ASSUME IInv, NEW p \in Payment, rows[p.id] # None, WriteStatus(p),
           UNCHANGED announced
    PROVE  /\ Grows
           /\ TableOK' /\ AnnouncedOnce'
           /\ rows' \in [Ids -> Row \cup {None}]
           /\ reached' \in [Ids -> SUBSET Statuses]
           /\ passed' \in [Ids -> SUBSET (Statuses \X Statuses)]
           /\ rows'[p.id] # None /\ rows'[p.id].key = rows[p.id].key
           /\ p.status \in reached'[p.id]
           /\ \A s \in reached[p.id] : <<s, p.status>> \in passed'[p.id]
<1> DEFINE i == p.id
<1>1. i \in Ids /\ p.status \in Statuses
  BY DEF Payment
<1>2. /\ rows \in [Ids -> Row \cup {None}] /\ reached \in [Ids -> SUBSET Statuses]
      /\ passed \in [Ids -> SUBSET (Statuses \X Statuses)] /\ TableOK
  BY DEF IInv, TypeOK
<1>3. rows[i] \in Row
  BY <1>1, <1>2
<1>4. [rows[i] EXCEPT !.status = p.status] \in Row
      /\ [rows[i] EXCEPT !.status = p.status].key = rows[i].key
      /\ [rows[i] EXCEPT !.status = p.status].status = p.status
  BY <1>1, <1>3 DEF Row
<1>5. /\ rows'[i] = [rows[i] EXCEPT !.status = p.status]
      /\ \A j \in Ids \ {i} : rows'[j] = rows[j]
      /\ rows' \in [Ids -> Row \cup {None}]
  BY <1>1, <1>2, <1>4 DEF WriteStatus
<1>6. /\ reached'[i] = reached[i] \cup {p.status}
      /\ \A j \in Ids \ {i} : reached'[j] = reached[j]
      /\ reached' \in [Ids -> SUBSET Statuses]
  BY <1>1, <1>2 DEF WriteStatus
<1>7. /\ passed'[i] = passed[i] \cup (reached[i] \X {p.status})
      /\ \A j \in Ids \ {i} : passed'[j] = passed[j]
      /\ passed' \in [Ids -> SUBSET (Statuses \X Statuses)]
  <2>1. reached[i] \X {p.status} \in SUBSET (Statuses \X Statuses)
    BY <1>1, <1>2
  <2> QED
    BY <1>1, <1>2, <2>1 DEF WriteStatus
<1>8. rows'[i] # None
  BY <1>4, <1>5, NoneAssumption
<1>9. Grows
  BY <1>4, <1>5, <1>6, <1>7, <1>8 DEF Grows
<1>10. TableOK'
  <2>1. rows'[i].key = rows[i].key /\ rows'[i].status = p.status
    BY <1>4, <1>5
  <2>2. \A j \in Ids : (rows'[j] # None <=> rows[j] # None)
                       /\ rows'[j].key = rows[j].key
    BY <1>5, <1>8, <2>1
  <2>3. \A j \in Ids : rows'[j] # None => rows'[j].status \in reached'[j]
    BY <1>2, <1>5, <1>6, <2>1 DEF TableOK
  <2> QED
    BY <1>2, <2>2, <2>3 DEF TableOK
<1> QED
  BY <1>1, <1>4, <1>5, <1>6, <1>7, <1>8, <1>9, <1>10 DEF IInv, AnnouncedOnce

LEMMA UpdateStatusStep ==
    ASSUME IInv, NEW u \in Updaters, UpdateStatus(u)
    PROVE  IInv'
<1> DEFINE p == got[u]
<1>1. UNCHANGED <<cache, answered, announced>> /\ pc[u] = "update"
  BY DEF UpdateStatus
<1>2. TypeOK /\ UpdaterOK(u) /\ u \in Workers
  BY DEF IInv, Workers
<1>3. /\ p \in Payment /\ rows[p.id] # None /\ rows[p.id].key = p.key
      /\ previous[u] \in reached[p.id]
  BY <1>1, <1>2 DEF UpdaterOK
<1>4. CASE WriteStatus(p) /\ Goto(u, "publish")
           /\ UNCHANGED <<got, asked, created, previous>>
  <2>1. /\ Grows
        /\ TableOK' /\ AnnouncedOnce'
        /\ rows' \in [Ids -> Row \cup {None}]
        /\ reached' \in [Ids -> SUBSET Statuses]
        /\ passed' \in [Ids -> SUBSET (Statuses \X Statuses)]
        /\ rows'[p.id] # None /\ rows'[p.id].key = rows[p.id].key
        /\ p.status \in reached'[p.id]
        /\ \A s \in reached[p.id] : <<s, p.status>> \in passed'[p.id]
    BY <1>1, <1>3, <1>4, WriteStatusMoves
  <2>2. /\ pc' \in [Workers -> CallerSteps \cup UpdaterSteps]
        /\ pc'[u] = "publish"
        /\ \A w \in Workers \ {u} : pc'[w] = pc[w]
    BY <1>2, <1>4, GotoMoves DEF UpdaterSteps
  <2>3. TypeOK'
    BY <1>1, <1>2, <1>4, <2>1, <2>2 DEF TypeOK
  <2>4. CacheOK' /\ AnswersOK'
    BY <1>1, <2>1, CacheStays, AnswersStay
  <2>5. OnlyMoves(u)
    BY <1>4, <2>2 DEF OnlyMoves
  <2>6. UpdaterOK(u)'
    BY <1>3, <1>4, <2>1, <2>2 DEF UpdaterOK, UpdaterSteps, Backed
  <2> QED
    BY <1>1, <1>4, <2>1, <2>3, <2>4, <2>5, <2>6, UpdaterMoves DEF IInv
<1>5. CASE AfterUpdateError(u) /\ WriteStatus(p)
  <2>1. /\ Grows
        /\ TableOK' /\ AnnouncedOnce'
        /\ rows' \in [Ids -> Row \cup {None}]
        /\ reached' \in [Ids -> SUBSET Statuses]
        /\ passed' \in [Ids -> SUBSET (Statuses \X Statuses)]
    BY <1>1, <1>3, <1>5, WriteStatusMoves
  <2>2. End(u)
    BY <1>5 DEF AfterUpdateError
  <2>3. TypeOK'
    BY <1>1, <1>2, <2>1, <2>2, EndMoves DEF TypeOK
  <2>4. CacheOK' /\ AnswersOK'
    BY <1>1, <2>1, CacheStays, AnswersStay
  <2> QED
    BY <1>1, <1>2, <2>1, <2>2, <2>3, <2>4, EndKeepsWorkers DEF IInv
<1>6. CASE AfterUpdateError(u) /\ UNCHANGED table
  BY <1>1, <1>2, <1>6, EndStep DEF AfterUpdateError
<1> QED
  BY <1>4, <1>5, <1>6 DEF UpdateStatus

LEMMA PublishChangedStep ==
    ASSUME IInv, NEW u \in Updaters, PublishChanged(u)
    PROVE  IInv'
<1>1. UNCHANGED <<table, cache, asked, got, created, previous, answered, announced>>
      /\ pc[u] = "publish" /\ Goto(u, "store")
  BY DEF PublishChanged
<1>2. Grows /\ TypeOK /\ UpdaterOK(u) /\ u \in Workers
  BY <1>1, SameTableGrows DEF IInv, Workers
<1>3. /\ pc' \in [Workers -> CallerSteps \cup UpdaterSteps]
      /\ pc'[u] = "store"
      /\ \A w \in Workers \ {u} : pc'[w] = pc[w]
  BY <1>1, <1>2, GotoMoves DEF UpdaterSteps
<1>4. TypeOK'
  BY <1>1, <1>2, <1>3 DEF TypeOK, table
<1>5. TableOK' /\ AnnouncedOnce' /\ CacheOK' /\ AnswersOK'
  BY <1>1, <1>2, TableStays, CacheStays, AnswersStay
<1>6. OnlyMoves(u)
  BY <1>1, <1>3 DEF OnlyMoves
<1>7. UpdaterOK(u)'
  BY <1>1, <1>2, <1>3 DEF UpdaterOK, UpdaterSteps, Backed, table
<1> QED
  BY <1>1, <1>2, <1>4, <1>5, <1>6, <1>7, UpdaterMoves DEF IInv

LEMMA StoreChangedStep ==
    ASSUME IInv, NEW u \in Updaters, StoreChanged(u)
    PROVE  IInv'
<1>1. UNCHANGED <<table, answered, announced>> /\ pc[u] = "store"
      /\ Store(u) /\ End(u)
  BY DEF StoreChanged
<1>2. Grows /\ TypeOK /\ UpdaterOK(u) /\ u \in Workers
  BY <1>1, SameTableGrows DEF IInv, Workers
<1>3. Backed(got[u])
  BY <1>1, <1>2 DEF UpdaterOK
<1>4. TableOK' /\ AnnouncedOnce' /\ AnswersOK'
      /\ CacheOK' /\ cache' \in [Keys -> Payment \cup {None}]
  BY <1>1, <1>2, <1>3, TableStays, StoreMoves, AnswersStay
<1>5. TypeOK'
  BY <1>1, <1>2, <1>4, EndMoves DEF TypeOK, table
<1> QED
  BY <1>1, <1>2, <1>4, <1>5, EndKeepsWorkers DEF IInv

-----------------------------------------------------------------------------
LEMMA ForgetStep ==
    ASSUME IInv, NEW k \in Keys, Forget(k)
    PROVE  IInv'
<1>1. UNCHANGED <<table, pc, asked, got, created, previous, answered, announced>>
      /\ cache' = [cache EXCEPT ![k] = None]
  BY DEF Forget
<1>2. Grows /\ TypeOK
  BY <1>1, SameTableGrows DEF IInv
<1>3. TypeOK'
  BY <1>1, <1>2 DEF TypeOK, table
<1>4. CacheOK'
  BY <1>1, <1>2 DEF IInv, CacheOK, TypeOK, Backed, table
<1>5. TableOK' /\ AnnouncedOnce' /\ AnswersOK'
  BY <1>1, <1>2, TableStays, AnswersStay
<1>6. ASSUME NEW c \in Callers PROVE CallerOK(c)'
  BY <1>1, <1>2, CallerStays
<1>7. ASSUME NEW u \in Updaters PROVE UpdaterOK(u)'
  BY <1>1, <1>2, UpdaterStays
<1>8. CreatorsDiffer'
  BY <1>1 DEF IInv, CreatorsDiffer
<1> QED
  BY <1>3, <1>4, <1>5, <1>6, <1>7, <1>8 DEF IInv

LEMMA CrashStep ==
    ASSUME IInv, Crash
    PROVE  IInv'
<1>1. UNCHANGED <<table, cache, answered, announced>>
  BY DEF Crash
<1>2. Grows /\ TypeOK
  BY <1>1, SameTableGrows DEF IInv
<1>3. TypeOK'
  BY <1>1, <1>2 DEF TypeOK, Crash, table, CallerSteps
<1>4. TableOK' /\ AnnouncedOnce' /\ CacheOK' /\ AnswersOK'
  BY <1>1, <1>2, TableStays, CacheStays, AnswersStay
<1>5. CreatorsDiffer'
  BY DEF Crash, CreatorsDiffer
<1>6. ASSUME NEW c \in Callers PROVE CallerOK(c)'
  BY DEF Crash, CallerOK, Workers, CallerSteps, Answering
<1>7. ASSUME NEW u \in Updaters PROVE UpdaterOK(u)'
  BY DEF Crash, UpdaterOK, Workers, UpdaterSteps
<1> QED
  BY <1>3, <1>4, <1>5, <1>6, <1>7 DEF IInv

LEMMA StutterStep ==
    ASSUME IInv, UNCHANGED vars
    PROVE  IInv'
<1>1. UNCHANGED <<table, cache, pc, asked, got, created, previous, answered, announced>>
  BY DEF vars, table
<1>2. Grows /\ TypeOK
  BY <1>1, SameTableGrows DEF IInv
<1>3. TypeOK' /\ CreatorsDiffer'
  BY <1>1, <1>2 DEF TypeOK, IInv, CreatorsDiffer, table
<1>4. TableOK' /\ AnnouncedOnce' /\ CacheOK' /\ AnswersOK'
  BY <1>1, <1>2, TableStays, CacheStays, AnswersStay
<1>5. ASSUME NEW c \in Callers PROVE CallerOK(c)'
  BY <1>1, <1>2, CallerStays
<1>6. ASSUME NEW u \in Updaters PROVE UpdaterOK(u)'
  BY <1>1, <1>2, UpdaterStays
<1> QED
  BY <1>3, <1>4, <1>5, <1>6 DEF IInv

LEMMA NextIInv == IInv /\ [Next]_vars => IInv'
<1> SUFFICES ASSUME IInv, [Next]_vars PROVE IInv'
  OBVIOUS
<1>1. ASSUME NEW c \in Callers, Receive(c) PROVE IInv'
  BY <1>1, ReceiveStep
<1>2. ASSUME NEW c \in Callers, Create(c) PROVE IInv'
  BY <1>2, GetCachedStep, FindStep, InsertStep, StoreCreatedStep,
     PublishCreatedStep, CheckAnomalyStep DEF Create
<1>3. ASSUME NEW u \in Updaters, ReadPayment(u) PROVE IInv'
  BY <1>3, ReadPaymentStep
<1>4. ASSUME NEW u \in Updaters, Change(u) PROVE IInv'
  BY <1>4, UpdateStatusStep, PublishChangedStep, StoreChangedStep DEF Change
<1>5. ASSUME NEW c \in Callers, StatementFails(c) PROVE IInv'
  BY <1>5, EndStep DEF StatementFails, Workers
<1>6. ASSUME NEW k \in Keys, Forget(k) PROVE IInv'
  BY <1>6, ForgetStep
<1>7. CASE Crash
  BY <1>7, CrashStep
<1>8. CASE UNCHANGED vars
  BY <1>8, StutterStep
<1> QED
  BY <1>1, <1>2, <1>3, <1>4, <1>5, <1>6, <1>7, <1>8 DEF Next

\* The inductive invariant implies what the runs check.
LEMMA IInvImplies ==
    IInv => /\ SameKeySamePayment
            /\ CacheNeverAhead
            /\ EventsTellHistory
<1> SUFFICES ASSUME IInv
             PROVE  SameKeySamePayment /\ CacheNeverAhead /\ EventsTellHistory
  OBVIOUS
<1>1. SameKeySamePayment
  <2>1. \A k \in Keys : \A i \in answered[k] : i \in Ids /\ i \in Found(k)
    BY DEF IInv, TypeOK, AnswersOK, Found, InTable
  <2> QED
    BY <2>1 DEF IInv, TableOK, SameKeySamePayment, Found, InTable
<1>2. CacheNeverAhead
  BY DEF IInv, CacheOK, CacheNeverAhead, Backed, Payment, Found, InTable
<1>3. EventsTellHistory
  BY DEF IInv, UpdaterOK, EventsTellHistory
<1> QED
  BY <1>1, <1>2, <1>3

LEMMA Invariance == Spec => []IInv
<1> QED
  BY InitIInv, NextIInv, PTL DEF Spec

-----------------------------------------------------------------------------
\* Every variable of payment creation keeps its type.
THEOREM CreationTypes == Spec => []TypeOK
<1>1. IInv => TypeOK
  BY DEF IInv
<1> QED
  BY <1>1, Invariance, PTL

\* However many requests race for an idempotency key, over the cache, the table
\* and the unique index, all answers to it name the one payment of its row.
THEOREM OnePaymentPerKey == Spec => []SameKeySamePayment
  BY IInvImplies, Invariance, PTL

\* No payment is announced twice: only the request whose insert won publishes.
THEOREM PaymentsAnnouncedOnce == Spec => []AnnouncedOnce
<1>1. IInv => AnnouncedOnce
  BY DEF IInv
<1> QED
  BY <1>1, Invariance, PTL

\* Whatever order creations and status changes write the cache in, a cached
\* payment shows a status its row has had.
THEOREM CacheFollowsTable == Spec => []CacheNeverAhead
  BY IInvImplies, Invariance, PTL

\* Concurrent updates included, a PaymentStatusChanged event names a status the
\* row had and one it was given later.
THEOREM EventsAreHistory == Spec => []EventsTellHistory
  BY IInvImplies, Invariance, PTL

-----------------------------------------------------------------------------
\* Creation implements PaymentRegistry.

IdleAsksNothing == \A c \in Callers : pc[c] = "idle" => asked[c] = None

\* The request has inserted a payment and not announced it.
Owns(c) == c \in created /\ pc[c] \in {"store", "publish"}

LEMMA NextKeepsIdle == IInv /\ IdleAsksNothing /\ [Next]_vars => IdleAsksNothing'
<1> SUFFICES ASSUME IInv, IdleAsksNothing, [Next]_vars, NEW c \in Callers, pc'[c] = "idle"
             PROVE  asked'[c] = None
  BY DEF IdleAsksNothing
<1>1. TypeOK /\ c \in Workers /\ c \notin Updaters
  BY WorkersAssumption DEF IInv, Workers
<1>2. CASE pc[c] = "idle" /\ asked'[c] = asked[c]
  BY <1>2 DEF IdleAsksNothing
<1>3. ASSUME NEW w \in Workers, End(w)
      PROVE  asked'[c] = None
  <2>1. CASE w = c
    BY <1>1, <1>3, <2>1 DEF End, TypeOK
  <2>2. CASE w # c
    BY <1>1, <1>2, <1>3, <2>2, EndMoves DEF OnlyMoves
  <2> QED
    BY <2>1, <2>2
<1>4. ASSUME NEW d \in Callers, NEW step \in CallerSteps \ {"idle"}, NEW q, Proceed(d, step, q)
      PROVE  asked'[c] = None
  BY <1>1, <1>2, <1>4 DEF Proceed, Goto, Workers, TypeOK
<1>5. ASSUME NEW u \in Updaters, NEW step, Goto(u, step), UNCHANGED asked
      PROVE  asked'[c] = None
  BY <1>1, <1>2, <1>5 DEF Goto, Workers, TypeOK
<1>6. ASSUME NEW d \in Callers, Receive(d)
      PROVE  asked'[c] = None
  BY <1>1, <1>2, <1>6 DEF Receive, Goto, Workers, TypeOK
<1>7. ASSUME NEW d \in Callers, GetCached(d) \/ CheckAnomaly(d) \/ StatementFails(d)
      PROVE  asked'[c] = None
  BY <1>3, <1>4, <1>7 DEF GetCached, CheckAnomaly, StatementFails, Answer, Workers, CallerSteps
<1>8. ASSUME NEW d \in Callers, FindExisting(d) \/ FindAgain(d)
      PROVE  asked'[c] = None
  BY <1>4, <1>8 DEF FindExisting, FindAgain, CallerSteps
<1>9. ASSUME NEW d \in Callers, StoreCreated(d) \/ PublishCreated(d)
      PROVE  asked'[c] = None
  BY <1>3, <1>4, <1>9 DEF StoreCreated, PublishCreated, Answer, Workers, CallerSteps
<1>10. ASSUME NEW d \in Callers, Insert(d)
       PROVE  asked'[c] = None
  <2>1. CASE Goto(d, "store") /\ UNCHANGED asked
    BY <1>1, <1>2, <2>1 DEF Goto, Workers, TypeOK
  <2> QED
    BY <1>3, <1>4, <1>10, <2>1 DEF Insert, AfterDuplicate, Workers, CallerSteps
<1>11. ASSUME NEW u \in Updaters, ReadPayment(u) \/ PublishChanged(u)
       PROVE  asked'[c] = None
  BY <1>5, <1>11 DEF ReadPayment, PublishChanged
<1>12. ASSUME NEW u \in Updaters, UpdateStatus(u) \/ StoreChanged(u)
       PROVE  asked'[c] = None
  BY <1>3, <1>5, <1>12 DEF UpdateStatus, StoreChanged, AfterUpdateError, Workers
<1>13. CASE Crash \/ (\E k \in Keys : Forget(k)) \/ UNCHANGED vars
  BY <1>2, <1>13 DEF Crash, Forget, vars
<1> QED
  BY <1>6, <1>7, <1>8, <1>9, <1>10, <1>11, <1>12, <1>13 DEF Next, Create, Change

LEMMA OwnedStays ==
    ASSUME \A c \in Callers : /\ Owns(c)' <=> Owns(c)
                              /\ Owns(c) => got'[c] = got[c]
    PROVE  ownedOf' = ownedOf
  BY DEF ownedOf, Owns

LEMMA EndOwned ==
    ASSUME IInv, NEW w \in Workers, End(w), w \in Callers => ~Owns(w)
    PROVE  ownedOf' = ownedOf
<1>1. OnlyMoves(w) /\ pc'[w] = "idle" /\ w \notin created'
  BY EndMoves DEF IInv
<1>2. ASSUME NEW c \in Callers
      PROVE  (Owns(c)' <=> Owns(c)) /\ (Owns(c) => got'[c] = got[c])
  <2>1. CASE c = w
    BY <1>1, <2>1 DEF Owns
  <2>2. CASE c # w
    BY <1>1, <2>2 DEF Owns, OnlyMoves, Workers
  <2> QED
    BY <2>1, <2>2
<1> QED
  BY <1>2, OwnedStays

LEMMA ProceedOwned ==
    ASSUME IInv, NEW c \in Callers, NEW step \in CallerSteps,
           NEW p \in Payment \cup {None}, Proceed(c, step, p),
           c \in created => pc[c] = "store" /\ step = "publish" /\ p = got[c]
    PROVE  ownedOf' = ownedOf
<1>1. OnlyMoves(c) /\ pc'[c] = step /\ got'[c] = p /\ UNCHANGED created
  BY ProceedMoves DEF IInv
<1>2. ASSUME NEW d \in Callers
      PROVE  (Owns(d)' <=> Owns(d)) /\ (Owns(d) => got'[d] = got[d])
  <2>1. CASE d = c
    BY <1>1, <2>1 DEF Owns
  <2>2. CASE d # c
    BY <1>1, <2>2 DEF Owns, OnlyMoves, Workers
  <2> QED
    BY <2>1, <2>2
<1> QED
  BY <1>2, OwnedStays

\* A step of an updater leaves what creators own alone.
LEMMA UpdaterOwned ==
    ASSUME IInv, NEW u \in Updaters, UNCHANGED created,
           \A w \in Workers \ {u} : pc'[w] = pc[w] /\ got'[w] = got[w]
    PROVE  ownedOf' = ownedOf
<1>1. \A c \in Callers : c \in Workers \ {u}
  BY WorkersAssumption DEF Workers
<1> QED
  BY <1>1, OwnedStays DEF Owns

\* An answer names the payment registered under the key of the request.
LEMMA AnswerRefines ==
    ASSUME IInv, NEW c \in Callers, NEW p, Answer(c, p), Backed(p), p.key = asked[c],
           asked[c] # None, ~Owns(c), UNCHANGED <<rows, announced>>
    PROVE  Promise!Answer(c)
<1>1. ownedOf' = ownedOf
  BY EndOwned DEF Answer, Workers
<1>2. ownedOf[c] = None
  BY DEF ownedOf, Owns
<1>3. p.id \in Promise!Registered(asked[c])
  BY DEF Backed, Payment, Promise!Registered
<1>4. answered' = [answered EXCEPT ![asked[c]] = @ \cup {p.id}]
      /\ asked' = [asked EXCEPT ![c] = None]
  BY DEF Answer, End
<1> QED
  BY <1>1, <1>2, <1>3, <1>4 DEF Promise!Answer, Promise!Leave

LEMMA InsertRefines ==
    ASSUME IInv, NEW c \in Callers, Insert(c)
    PROVE  Promise!Register(c) \/ UNCHANGED Promise!vars
<1>1. pc[c] = "insert" /\ UNCHANGED <<answered, announced>>
  BY DEF Insert
<1>2. c \notin created /\ asked[c] \in Keys /\ asked[c] # None /\ c \in Workers
  BY <1>1 DEF IInv, CallerOK, TypeOK, Answering, Workers
<1>3. CASE Proceed(c, AfterDuplicate(c), None) /\ UNCHANGED table
  <2>1. ownedOf' = ownedOf
    BY <1>2, <1>3, ProceedOwned DEF AfterDuplicate, CallerSteps
  <2> QED
    BY <1>1, <1>3, <2>1 DEF Promise!vars, Proceed, table
<1>4. ASSUME ~KeyTaken(asked[c]), NEW i \in Ids, ~InTable(i),
             rows' = [rows EXCEPT ![i] = [key |-> asked[c], status |-> "PENDING"]],
             \/ /\ Goto(c, "store")
                /\ Hold(c, [id |-> i, key |-> asked[c], status |-> "PENDING"])
                /\ created' = created \cup {c}
                /\ UNCHANGED <<asked, previous>>
             \/ End(c)
      PROVE  Promise!Register(c)
  <2>1. Promise!Registered(asked[c]) = {} /\ rows[i] = None
    BY <1>4 DEF KeyTaken, Found, InTable, Promise!Registered
  <2>2. CASE End(c)
    <3>1. ownedOf' = ownedOf
      BY <1>2, <2>2, EndOwned DEF Owns
    <3>2. asked' = [asked EXCEPT ![c] = None]
      BY <2>2 DEF End
    <3> QED
      BY <1>1, <1>2, <1>4, <2>1, <3>1, <3>2 DEF Promise!Register, Promise!Leave
  <2>3. CASE /\ Goto(c, "store")
             /\ Hold(c, [id |-> i, key |-> asked[c], status |-> "PENDING"])
             /\ created' = created \cup {c}
             /\ UNCHANGED <<asked, previous>>
    <3>1. pc'[c] = "store" /\ c \in created' /\ got'[c].id = i
      BY <1>2, <2>3 DEF Goto, Hold, IInv, TypeOK
    <3>2. \A d \in Callers \ {c} : /\ Owns(d)' <=> Owns(d)
                                   /\ got'[d] = got[d]
      BY <1>2, <2>3 DEF Goto, Hold, Owns, Workers, IInv, TypeOK
    <3>3. ownedOf' = [ownedOf EXCEPT ![c] = i]
      <4>1. Owns(c)' /\ got'[c].id = i
        BY <3>1 DEF Owns
      <4> QED
        BY <3>2, <4>1 DEF ownedOf, Owns
    <3> QED
      BY <1>1, <1>2, <1>4, <2>1, <2>3, <3>3 DEF Promise!Register
  <2> QED
    BY <1>4, <2>2, <2>3
<1> QED
  BY <1>3, <1>4 DEF Insert

LEMMA PublishRefines ==
    ASSUME IInv, NEW c \in Callers, PublishCreated(c)
    PROVE  Promise!Announce(c)
<1>1. PICK p \in Payment : p = got[c]
  BY DEF PublishCreated, IInv, CallerOK, Answering, Backed
<1>2. /\ pc[c] = "publish" /\ c \in created /\ announced[p.id] = 0 /\ p.id \in Ids
  BY <1>1 DEF PublishCreated, IInv, CallerOK, Payment
<1>3. Proceed(c, "checkAnomaly", p) /\ UNCHANGED <<rows, answered>>
  BY <1>1 DEF PublishCreated, table
<1>4. OnlyMoves(c) /\ pc'[c] = "checkAnomaly" /\ UNCHANGED <<asked, created>>
  BY <1>3, ProceedMoves DEF IInv, CallerSteps
<1>5. ownedOf[c] = p.id /\ p.id # None
  BY <1>1, <1>2, NoneAssumption DEF ownedOf
<1>6. ownedOf' = [ownedOf EXCEPT ![c] = None]
  <2>1. \A d \in Callers \ {c} : pc'[d] = pc[d] /\ got'[d] = got[d]
    BY <1>4 DEF OnlyMoves, Workers
  <2> QED
    BY <1>4, <2>1 DEF ownedOf
<1>7. announced' = [announced EXCEPT ![p.id] = 1] \/ announced' = announced
  <2>1. announced' = [announced EXCEPT ![p.id] = @ + 1] \/ announced' = announced
    BY <1>1 DEF PublishCreated
  <2>2. announced[p.id] + 1 = 1
    BY <1>2
  <2>3. [announced EXCEPT ![p.id] = @ + 1] = [announced EXCEPT ![p.id] = 1]
    BY <1>2, <2>2
  <2> QED
    BY <2>1, <2>3
<1> QED
  BY <1>2, <1>3, <1>4, <1>5, <1>6, <1>7 DEF Promise!Announce

LEMMA CallerRefines ==
    ASSUME IInv, IdleAsksNothing, NEW c \in Callers,
           Receive(c) \/ Create(c) \/ StatementFails(c)
    PROVE  [Promise!Next]_(Promise!vars)
<1>1. c \in Workers /\ CallerOK(c) /\ TypeOK
  BY DEF IInv, Workers
<1>2. CASE Receive(c)
  <2>1. asked[c] = None /\ UNCHANGED <<rows, answered, announced, created, got>>
    BY <1>2 DEF Receive, IdleAsksNothing, table
  <2>2. ownedOf' = ownedOf
    <3>1. pc[c] = "idle" /\ pc'[c] = "getCached"
          /\ \A d \in Callers \ {c} : pc'[d] = pc[d]
      BY <1>1, <1>2 DEF Receive, Goto, Workers, TypeOK
    <3> QED
      BY <2>1, <3>1, OwnedStays DEF Owns
  <2>3. Promise!Ask(c)
    BY <1>2, <2>1, <2>2 DEF Receive, Promise!Ask
  <2> QED
    BY <2>3 DEF Promise!Next
<1>3. CASE GetCached(c)
  <2>1. PICK k \in Keys : k = asked[c]
    BY <1>1, <1>3 DEF GetCached, CallerOK, TypeOK
  <2>2. c \notin created /\ asked[c] # None /\ UNCHANGED <<rows, announced>>
    BY <1>1, <1>3 DEF GetCached, CallerOK, Answering, table
  <2>3. CASE cache[k] # None /\ Answer(c, cache[k])
    <3>1. Backed(cache[k]) /\ cache[k].key = asked[c]
      BY <2>1, <2>3 DEF IInv, CacheOK
    <3> QED
      BY <2>2, <2>3, <3>1, AnswerRefines DEF Owns, Promise!Next
  <2>4. CASE Proceed(c, "find", None) /\ UNCHANGED answered
    <3>1. ownedOf' = ownedOf
      BY <2>2, <2>4, ProceedOwned DEF CallerSteps
    <3> QED
      BY <2>2, <2>4, <3>1 DEF Proceed, Promise!vars
  <2> QED
    BY <1>3, <2>1, <2>3, <2>4 DEF GetCached
<1>4. CASE FindExisting(c) \/ FindAgain(c)
  <2>1. c \notin created /\ asked[c] \in Keys
    BY <1>1, <1>4 DEF FindExisting, FindAgain, CallerOK, Answering, TypeOK
  <2>2. UNCHANGED <<rows, answered, announced>>
    BY <1>4 DEF FindExisting, FindAgain, table
  <2>3. PICK step \in {"store", "insert"}, p \in Payment \cup {None} : Proceed(c, step, p)
    BY <1>4, <2>1, FoundIsBacked DEF FindExisting, FindAgain
  <2>4. ownedOf' = ownedOf
    BY <2>1, <2>3, ProceedOwned DEF CallerSteps
  <2> QED
    BY <2>2, <2>3, <2>4 DEF Proceed, Promise!vars
<1>5. CASE Insert(c)
  BY <1>5, InsertRefines DEF Promise!Next
<1>6. CASE StoreCreated(c)
  <2>1. /\ pc[c] = "store" /\ Backed(got[c]) /\ got[c].key = asked[c] /\ asked[c] # None
        /\ got[c] \in Payment
        /\ UNCHANGED <<rows, announced>>
    BY <1>1, <1>6 DEF StoreCreated, CallerOK, Answering, Backed, table
  <2>2. CASE Proceed(c, "publish", got[c]) /\ UNCHANGED answered
    <3>1. ownedOf' = ownedOf
      BY <2>1, <2>2, ProceedOwned DEF CallerSteps
    <3> QED
      BY <2>1, <2>2, <3>1 DEF Proceed, Promise!vars
  <2>3. CASE ~Announces(c) /\ Answer(c, got[c])
    BY <2>1, <2>3, AnswerRefines DEF Announces, Owns, Promise!Next
  <2> QED
    BY <1>6, <2>2, <2>3 DEF StoreCreated
<1>7. CASE PublishCreated(c)
  BY <1>7, PublishRefines DEF Promise!Next
<1>8. CASE CheckAnomaly(c)
  <2>1. /\ pc[c] = "checkAnomaly" /\ Backed(got[c]) /\ got[c].key = asked[c] /\ asked[c] # None
        /\ Answer(c, got[c]) /\ UNCHANGED <<rows, announced>>
    BY <1>1, <1>8 DEF CheckAnomaly, CallerOK, Answering, table
  <2> QED
    BY <2>1, AnswerRefines DEF Owns, Promise!Next
<1>9. CASE StatementFails(c)
  <2>1. c \notin created /\ asked[c] # None /\ End(c) /\ UNCHANGED <<rows, answered, announced>>
    BY <1>1, <1>9 DEF StatementFails, CallerOK, Answering, table
  <2>2. ownedOf' = ownedOf
    BY <1>1, <2>1, EndOwned DEF Owns
  <2>3. ownedOf[c] = None /\ asked' = [asked EXCEPT ![c] = None]
    BY <2>1 DEF ownedOf, End
  <2> QED
    BY <2>1, <2>2, <2>3 DEF Promise!Next, Promise!Fail, Promise!Leave
<1> QED
  BY <1>2, <1>3, <1>4, <1>5, <1>6, <1>7, <1>8, <1>9 DEF Create

LEMMA UpdaterRefines ==
    ASSUME IInv, NEW u \in Updaters, ReadPayment(u) \/ Change(u)
    PROVE  [Promise!Next]_(Promise!vars)
<1>1. u \in Workers /\ u \notin Callers /\ TypeOK /\ UpdaterOK(u)
  BY WorkersAssumption DEF IInv, Workers
<1>2. CASE ReadPayment(u)
  <2>1. \A w \in Workers \ {u} : pc'[w] = pc[w] /\ got'[w] = got[w]
    BY <1>1, <1>2 DEF ReadPayment, Goto, Hold, TypeOK
  <2>2. ownedOf' = ownedOf
    BY <1>2, <2>1, UpdaterOwned DEF ReadPayment
  <2> QED
    BY <1>2, <2>2 DEF ReadPayment, table, Promise!vars
<1>3. CASE PublishChanged(u)
  <2>1. \A w \in Workers \ {u} : pc'[w] = pc[w] /\ got'[w] = got[w]
    BY <1>1, <1>3 DEF PublishChanged, Goto, TypeOK
  <2>2. ownedOf' = ownedOf
    BY <1>3, <2>1, UpdaterOwned DEF PublishChanged
  <2> QED
    BY <1>3, <2>2 DEF PublishChanged, table, Promise!vars
<1>4. CASE StoreChanged(u)
  <2>1. ownedOf' = ownedOf /\ asked' = asked
    BY <1>1, <1>4, EndOwned DEF StoreChanged, End
  <2> QED
    BY <1>4, <2>1 DEF StoreChanged, table, Promise!vars
<1>5. CASE UpdateStatus(u)
  <2>1. PICK p \in Payment : p = got[u] /\ rows[p.id] # None
    BY <1>1, <1>5 DEF UpdateStatus, UpdaterOK
  <2>2. ownedOf' = ownedOf /\ asked' = asked /\ UNCHANGED <<answered, announced>>
    <3>1. CASE End(u)
      BY <1>1, <1>5, <3>1, EndOwned DEF End, UpdateStatus
    <3>2. CASE Goto(u, "publish") /\ UNCHANGED <<got, asked, created, previous>>
      <4>1. \A w \in Workers \ {u} : pc'[w] = pc[w] /\ got'[w] = got[w]
        BY <1>1, <3>2 DEF Goto, TypeOK
      <4> QED
        BY <1>5, <3>2, <4>1, UpdaterOwned DEF UpdateStatus
    <3> QED
      BY <1>5, <3>1, <3>2 DEF UpdateStatus, AfterUpdateError
  <2>3. CASE WriteStatus(p)
    <3>1. p.id \in Ids /\ p.status \in Statuses
      BY DEF Payment
    <3>2. Promise!Change(p.id)
      BY <2>1, <2>2, <2>3, <3>1 DEF WriteStatus, Promise!Change
    <3> QED
      BY <3>1, <3>2 DEF Promise!Next
  <2>4. CASE UNCHANGED table
    BY <2>2, <2>4 DEF table, Promise!vars
  <2> QED
    BY <1>5, <2>1, <2>3, <2>4 DEF UpdateStatus
<1> QED
  BY <1>2, <1>3, <1>4, <1>5 DEF Change

LEMMA NextRefines ==
    IInv /\ IdleAsksNothing /\ [Next]_vars => [Promise!Next]_(Promise!vars)
<1> SUFFICES ASSUME IInv, IdleAsksNothing, [Next]_vars
             PROVE  [Promise!Next]_(Promise!vars)
  OBVIOUS
<1>1. CASE \E k \in Keys : Forget(k)
  BY <1>1, OwnedStays DEF Forget, Owns, table, Promise!vars
<1>2. CASE Crash
  <2>1. ownedOf' = [c \in Callers |-> None]
    BY <1>2 DEF Crash, ownedOf
  <2> QED
    BY <1>2, <2>1 DEF Crash, table, Promise!Next, Promise!Restart
<1>3. CASE UNCHANGED vars
  BY <1>3, OwnedStays DEF vars, Owns, table, Promise!vars
<1> QED
  BY <1>1, <1>2, <1>3, CallerRefines, UpdaterRefines DEF Next

\* The cache, the table, the unique index and the lost race amount to a
\* registry that decides each key once: for any number of keys, payments and
\* concurrent requests, every step of creation is a step of PaymentRegistry or
\* invisible in it.
THEOREM CreationImplementsRegistry == Spec => ImplementsRegistry
<1>1. Init => Promise!Init /\ IdleAsksNothing
  BY DEF Init, Promise!Init, IdleAsksNothing, ownedOf
<1> QED
  BY <1>1, InitIInv, NextIInv, NextKeepsIdle, NextRefines, PTL
  DEF Spec, ImplementsRegistry, Promise!Spec
=============================================================================
