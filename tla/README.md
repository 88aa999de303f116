# Verification of the distributed payment system

TLA+ models of the API gateway, the payment service, the wallet service and the
circuit breaker between them; TLC configurations that check the models on small instances; and
proofs, checked by TLAPS, of the properties that matter most for instances of
any size. Paths below are relative to `src/`.

## 1. The system

Three Node.js services, two PostgreSQL databases, one Redis.

| Component | State | Operations |
|---|---|---|
| **API gateway** (`services/api-gateway`) | request counters in Redis, one per API key and window | authenticate, count, forward; no retries |
| **Payment service: creation** (`PaymentService.js`, `IdempotencyService.js`, `EventPublisher.js`, `PaymentRepository.js`) | `payments` table, Redis key `idempotency:<key>` (TTL one day), pub/sub channel `payment-events` | `createPayment`, `updatePaymentStatus` |
| **Payment service: processing** (`PaymentController.js`, `PaymentProcessor.js`, `WalletClient.js`, `SmartRetry.js`) | `payments.status`; retry loops and timers in the process | `POST /payments/:id/process`, `/refund`, `PATCH /payments/:id/status` |
| **Circuit breaker** (`shared/resilience/CircuitBreaker.js`) | state, failure and success counts, time of the last failure | `execute` around every debit and refund |
| **Wallet service** (`WalletService.js`, its repositories) | `wallets` rows with a version, `ledger_entries` with a unique idempotency key | `debitWallet`, `creditWallet`, `createWallet`; reads, `reconcileBalance` |
| **Pooled database client** (`DatabaseClient.js`, both services) | pool of connections, wrappers left on them | `getClient`, `transaction` |
| **Reconciliation** (`ReconciliationService.js`) | none | compares payments with the ledger |
| **Anomaly detector** (`AnomalyDetector.js`) | lists of times in Redis, per user and per user and amount | `check`, `record`; the verdict is logged |

How they interact: a client creates a payment through the gateway; the payment
service asks Redis, then its table, inserts, caches, publishes an event.
`/process` reads the payment, marks it PROCESSING, and calls the breaker, which
runs the retry loop under a timer; the loop posts `payment_<id>` to the wallet
service, which debits and records in one transaction; the handler then writes
COMPLETED or FAILED. `/refund` posts `refund_<id>` without a retry loop and
writes REFUNDED. The two services share nothing but these HTTP calls.

What is hard here:

* the wallet's answer may be lost, late or unknown, while the payment service
  must decide what its row says; the breaker's timer gives up on a retry loop
  that goes on calling;
* statuses are read in one statement and overwritten unconditionally in another;
* requests with one idempotency key race through the cache, the table and the
  wallet's ledger, where only the unique indexes decide;
* a balance is read, checked, written and recorded in four statements under a
  row lock, with a bounded pool and lost commits;
* counters and lists in Redis are read, written and given an expiry in separate
  commands that fail, wait for a reconnection or die with the process, while
  time passes and a Redis of 256 MB evicts what it pleases;
* `PATCH /payments/:id/status` writes any status beside all of this;
* several results settle in one breaker in whatever state the others left it;
* processes restart between any two steps.

What makes each component correct: the wallet service must look to its callers
as if each request were decided at one instant, and its books must balance; a
handler must not write a status ahead of the ledger; one idempotency key must name one
payment, announced once; the breaker must trip at its threshold, fail fast and
come back; the limiter must let no more pass than its limit and lock nobody out
for ever; the anomaly check must not miss what was recorded and kept; and everything
accepted must end. `PROJECT.json` lists each hazard with its line and the
properties aimed at it.

## 2. The modules

**AtomicLedger** is the abstract specification of the wallet service. A request
is decided in one step: `Apply` changes a balance and the ledger together, at
most once per key and never below zero; `Refuse` answers a code only when
`Justified` in that state; `Replay` answers a known key. There is no
CONCURRENT_MODIFICATION in it: callers of the service never see one. Opening a
wallet is the one promise in two steps (`OpenWallet`, `RecordOpening`), because
the code commits twice.

**WalletService** is the service over PostgreSQL, one action per statement. `pc`
is the await a request stands at, `lock` the row lock, `snap` the row it read
FOR UPDATE. `wallet` and `ledger` are the committed rows; what a transaction has
written becomes visible in `Commit`, and since everybody else who would read it
FOR UPDATE or write it waits for the lock, that is what READ COMMITTED shows.
`CreateEntry` waits while another transaction holds an uncommitted entry with
its key (`KeyInFlight`), as the unique index does. `StatementFails`, a `Commit`
whose answer is an error, and `Crash` model failures; `Throw` includes the
ROLLBACK that fails in the catch block and replaces the error. That is more than
`DatabaseClient` finds: a BEGIN or ROLLBACK refused by a spent wrapper is a
statement that fails, and a read outside a transaction that the pool gives such
a client throws where nobody catches it, which is a crash. Pool clients are
counted by `InTransaction`; `SetStatus` is an operator's UPDATE. The refinement
mapping drops the version column (`accountOf`) and reads the slots that owe an
opening entry off `pc` (`openingSlots`).

**PaymentProcessor** is the two handlers of the payment service over
AtomicLedger's promise, reduced to what it tells this component: which of
`payment_<id>` and `refund_<id>` are posted. A job is a request (`task`, `pc`);
`loop` and `attempt` are its retry loop, which lives on when `BreakerTimeout`
lets the handler go; `stray` are calls nobody waits for any more, which
`StrayExecuted` may still post. `Mark` is an unconditional UPDATE that may fail
with or without effect; `Patch` is the UPDATE of `PATCH /payments/:id/status`,
whose caller may write any of the six statuses, whatever the row and the ledger
say and whichever handler is at work on it. `claimed` remembers the payments a
PATCH has made COMPLETED before they were debited: `/refund` believes it. When the circuit is open (`CircuitRefuses`)
is left to **CircuitBreaker**; here it may happen at any time.

**PaymentSystem** puts the two services together: the handlers are
PaymentProcessor's, but a loop's attempt is now a call in a slot of AtomicLedger
(`call`, `Send`, `Decide`), which goes on when nobody waits for it, and each
request names a wallet (`from`) that nothing compares with the wallet another
request for the payment named. What PaymentProcessor keeps as `debited`,
`credited` and `stray` is computed from the ledger and the slots; that mapping is
the refinement `ImplementsProcessor`. Together with WalletService implementing
AtomicLedger this ties the handlers to the SQL statements.

**Reconciliation** extends PaymentProcessor with `reconcile`, which classifies
the payments it read in one query. `WalletId` is what such a row says of its
wallet: nothing.

**MCWalletService** adds what needs sums: `LedgerSum` of a wallet's entries,
`Owed`, the opening amount that is in the row and not yet in the ledger, and
`Gap`, what neither explains of the balance.

**BalanceReconciliation** extends it with `reconcileBalance`, whose two reads see
two moments; `undisturbed` remembers whether anything about the wallet was
committed in between.

**CircuitBreaker** is `execute`, `_onSuccess` and `_onFailure` with overlapping
calls. A call's fate is drawn at its start from the `mood` of the wallet service
(healthy, refusing, down) and seen by the breaker when it settles. `elapsed` is
the time since `lastFailureTime`, saturating at the recovery timeout.

**PaymentRegistry** is the abstract specification of creation: `Register` gives a
key to one payment at one instant, every `Answer` names the payment of its key,
and only the request that registered a payment may `Announce` it, before it is
answered. It knows no cache, no lookup and no lost race.

**PaymentCreation** is `createPayment` and `updatePaymentStatus`, one action per
Redis command or SQL statement, over an external Redis that forgets, fails
silently and may have obeyed a command that failed. `previous` is the status an
event will call the previous one; `passed` is the history it is compared with.
The refinement mapping to PaymentRegistry hides the cache and the steps, and
reads off `created` and `pc` what a request has yet to announce (`ownedOf`).

**Gateway** is one request's way through `apiKeyAuth`, the rate limiter and the
proxy. Redis keeps a counter per key and window, created without an expiry; the
first request of a window sends EXPIRE as a command of its own. Time is in
ticks: a window lasts `Window`, its counter `Window + Buffer` from the EXPIRE on,
and an INCR may wait `Lag` for Redis. A failing command, with or without effect,
lets the request pass uncounted. `Evict` is Redis under `--maxmemory 256mb
--maxmemory-policy allkeys-lru` (`docker-compose.yml:53`): any counter may be gone
at any time, and `evicted` remembers which. Behind the proxy a service may execute what the
gateway has given up (`Serve`).

**AnomalyDetector** is `check` and `record` for one user's payments. The check
reads the clock and each list (`Check`, `Record`), the record pushes and then
sets the expiry (`Rpush`, `Expire`), all command by command. A list goes when its
expiry is due (`Tick`) or when Redis evicts or loses it (`Evict`). `kept` names the
entries whose list had its expiry renewed after them and is not evicted since.

**DatabaseClient** is `getClient`/`transaction` over the external pool of `pg`:
what the wrapper left on a client does to the next transaction.

The modules named `MC...` extend these for TLC; `...Proofs` hold the theorems;
**SumTheorems** holds the laws of finite sums that two of them need.
Operators that a comment marks "Fault:" are not part of the specification: each
is a plausible mistake that `PROJECT.json` substitutes for the definition after
it, to show that a property can fail.

## 3. The runs

| Run | Instance | What it shows |
|---|---|---|
| `wallet_promise` | 2 requests, 2 wallets, 1 key, amounts 0 and 1 | types, stable snapshots, balanced books that only a lost opening entry unbalances, append-only ledger, and the refinement to AtomicLedger |
| `wallet_answers` | 3 requests, 1 wallet, 1 key, amount 1, 2 pool clients | requests never wait in a circle, and every accepted one is answered |
| `wallet_same_key` | as the first, 1 wallet | **violated**: a concurrent duplicate is refused, not answered as a duplicate |
| `wallet_audit` | same, with audits | **violated**: an undisturbed audit finds a wallet unbalanced, because its opening entry was never written |
| `pool_reuse` | 2 transactions, 2 clients | **violated**: the second transaction on a client is refused |
| `processor` | 1 payment, 2 jobs, 2 attempts, any status patched | handlers never write a status ahead of the ledger, refunds follow debits or a PATCH to COMPLETED, all work ends |
| `system` | 1 payment, 2 jobs, 2 attempts, 2 wallets, 2 calls, any status patched, balance and price 1 | money is taken once and given back at most once; the refinement to PaymentProcessor |
| `reconciliation` | as `processor`, 3 attempts | **violated**: a FAILED payment that was debited and that no report names |
| `breaker` | 3 calls, thresholds 2, timeout 2 ticks | trips at the threshold, fails fast, closes again |
| `creation` | 1 key, 2 ids, 2 creators, 2 updaters, 2 statuses | one payment per key, announced once; the cache lags and never leads; events tell of changes that happened; the refinement to PaymentRegistry |
| `gateway` | 3 requests of 1 key, limit 1, window 2, buffer 1, lag 1, time 0 to 3 | the limit holds per window unless the counter was evicted, nobody is refused too early, counters expire unless their EXPIRE was lost, 503 means not executed |
| `anomaly` | 3 payments, 2 amounts, limits 2 and 1, windows 1, lag 1, time 0 to 2 | what was recorded completely and not evicted is counted, and flags have causes |

The runs marked violated check what a document, comment or test of the
repository says of the program; `findings` in `PROJECT.json` quotes each.

Bounds. Two requests reach every pairwise race of the wallet; the third, in
`wallet_answers`, exceeds the pool and makes two wait for one lock. One key is
the case in which requests conflict; two wallets let one key name either.
Amount 1 makes the second debit fail when the first succeeded, amount 0 opens
an empty wallet. `MaxVersion` bounds the operator to two status changes. The
processor's payments do not influence one another, so one suffices; two
attempts are a first and a repeated one, and the third the code may make differs
from the second in nothing. PATCH may write all six statuses. The breaker's thresholds of 2 are the
smallest at which counting matters, and three calls let two settle around a
third. `MaxFailures` caps a counter that only grows beyond the threshold. In
`creation` two ids are enough for a second row under the key, which is what the
index has to prevent, and two updaters for two events with one previous status.
In `system` two calls are one that is waited for and one that is not, two
attempts let a repeated call meet the first one, two wallets let a refund reach
another wallet than the debit. `gateway`'s time covers two windows, and with
limit 1 the third request is one too many even when one was let pass uncounted;
a counter can expire within that time, and does so one tick too early when the
buffer is left out. `anomaly` has one payment to check after the two that use up
the velocity limit, and a list can expire between them.

TLC's deadlock check says little of the wallet service, where a statement may
always fail; `NoDeadlock` says that even without failures somebody goes on.
The deadlock check is off in `gateway` and `anomaly`: their requests and
payments are finitely many and their time ends. The other runs have it on.

Symmetry is declared for interchangeable requests and keys, in runs without
liveness properties only. Two runs, also without liveness properties, identify
states by a VIEW `Observed`, which leaves out what no action and no property
reads any more. In `system` that is the answer to a call nobody waits for, the
fields of a ledger entry beside its key, the version of a wallet, and which status
other than COMPLETED and FAILED a row has, the two the handlers test. In `gateway` it
is how a forwarded request ended (unless with SERVICE_UNAVAILABLE) with what the
service makes of it then, and the time of an arrival within its window once its
INCR has ended.

Fairness. `WalletService!FairSpec` has strong fairness of each request's next
statement: PostgreSQL queues row locks and `pg` queues for clients in arrival
order, so a request that can go on again and again does. `PaymentProcessor`
has weak fairness of the handlers' steps and of the timers (breaker, HTTP
client, backoff) and none of the wallet service, which need not answer at all.
`CircuitBreaker` assumes that time passes, that calls settle (the breaker's timer
sees to that) and that callers keep calling, without which an OPEN breaker
stays OPEN: it has no timer of its own. `PaymentCreation` assumes that every
Redis command and statement ends in a result or an error. Crashes have no
fairness and are never required or excluded. The other modules state no liveness
and assume no fairness.

Time. `Lag <= Buffer` in **Gateway** is an assumption about the Redis client: it
gives up after ten reconnections whose pauses add up to 5.5 seconds, less than
the buffer of ten seconds; connection attempts that hang could add to that.
**AnomalyDetector** assumes that a check's LRANGE is executed within one window
of the time the check goes by (`Lag <= Window(k)`).

## 4. The proofs

`WalletServiceProofs`, for every set of requests, wallets, keys and amounts and
any pool, from the four assumptions WalletService states (`NoneAssumption`,
`AmountsAssumption`, `KeysAssumption`, `PoolAssumption`: the pool has a client):
`TypeCorrect`, `SnapshotsAreStable`, `LedgerAppendOnly`, `WaitsAreAcyclic`,
`LedgerReconciles`, `LossesAreOpenings`, `UndisturbedAuditsAreExact`, and
`Implementation`, that WalletService implements AtomicLedger. The inductive invariant is `IInv`:

* `TypeOK`, and `RequestsMatchSteps`: a request at a given statement is of the
  kind that gets there. Without it, `UpdateBalance` cannot know it posts.
* `SnapshotStable`: the holder of a row works from the committed row. It is not
  inductive on its own, since `Commit` adds the amount to a snapshot: that the
  result is not negative needs
* `ChecksHold`: what a transaction checked, status and sufficient balance, is
  still true of its snapshot. With `SnapshotStable` it is true of the committed
  row at `Commit`, which is the guard of `AtomicLedger!Apply`.
* `KeysReserved`: a transaction about to commit is the only one with its key and
  its key is not in the ledger, as the unique index guarantees. It gives
  `AppendOnly` and the other guard of `Apply`.

The refinement proof takes each action to the step of AtomicLedger it
implements, or to a stutter; `CONCURRENT_MODIFICATION` is shown unreachable,
because the snapshot's version is the row's.

`WaitsAreAcyclic` is about `NoDeadlock`. With `LocksAreHeld` (a row lock belongs
to a transaction on that row past its wait), a request that waits for a row
waits for one about to update, insert or commit; one that waits to insert waits
for one about to commit, which waits for nobody; and one that waits for a client
waits for transactions. No set of requests need be finite for this.

The books need `SumInv`, which adds to `IInv` the invariant `Reconciled` itself
and what the sums range over: `OpeningsOwed` (a request that owes an opening
entry owes it alone, to a wallet that has its row and not its entry, so `Owed` is
one amount or none), `EntriesHaveRows` (no entry is older than the row of its
wallet, so a new wallet starts from an empty sum) and `LedgerFinite` (each step
writes at most one entry, so a sum is over finitely many even when `Keys` and
`Wallets` are not). `LossesAreOpenings`, on `OnlyOpeningsLost`, compares the `Gap`
before and after each step. `UndisturbedAuditsAreExact` carries both to
BalanceReconciliation: the false alarms of an audit are those a commit between
its two reads causes, every other difference it reports is a lost opening entry
and exactly its amount. That is the finding of `wallet_audit`, bounded: the
violated run shows that the loss happens, the theorem that nothing else does.

`SumTheorems` proves the laws of the community modules' `SumFunctionOnSet` that
this needs: the sum of nothing, of one element, and how a sum changes when an
element is added, removed or given another value. An induction over finite sets
would need an operator parameter; the proofs take instead a smallest subset for
which the claim fails (one exists by well-foundedness of the cardinality, a
statement about sets) and derive a contradiction from the subset without one
element.

`PaymentProcessorProofs`, for any number of payments, jobs and attempts (from
`MaxAttemptsAssumption` and `NoneAssumption`), whatever PATCH writes: `TypeCorrect`,
`StatusesAreBacked`, `RefundsAreBacked`. A PATCH to COMPLETED or REFUNDED says that
money moved and nothing checks it, so an invariant of rows and ledger cannot hold.
`StatusBackedByLedger` is therefore about steps: one that is not a PATCH writes
COMPLETED only of a debited payment and REFUNDED only of a credited one.
`RefundFollowsDebit` excepts the payments in `claimed` and no others. The inductive
invariant calls a payment `Paid` when it is debited or claimed, says that COMPLETED
rows are (`CompletedArePaid`), and adds, per job, `StepMatchesTask` (only a refund
reaches `markRefunded`, ...) and `Backed` (a handler about to write COMPLETED has its
debit in the ledger, one about to write REFUNDED its credit, one that runs a refund
belongs to a paid payment) and, for calls nobody waits for, `StraysBacked`: a late
refund may only post what was paid.

`PaymentSystemProofs`, for any number of payments, jobs and calls and finitely
many wallets (`WalletsAssumption`; `ProcessorAssumption` repeats the processor's):
`SystemTypes`, `SystemImplementsProcessor`, `SystemStatusesAreBacked`,
`SystemRefundsAreBacked`, `MoneyIsConserved`. The inductive invariant says what a
call carries: `ServiceTypes` and `WalletTypes` (domains) and `CallsOK`: a loop
waits for one call of its own, which carries the request of its job until it is
decided. Each step is then a step of PaymentProcessor or a stutter. The invariant
of PaymentProcessorProofs is taken over by instantiating that module (`P`): a
COMPLETED payment has its debit in the wallet's ledger or is claimed, whatever
calls do. With it `MoneyInv` is inductive: `OpsMatchKinds` (a call under a refund's key credits
the price, one under a payment's key debits it, and entries likewise) and
`PostedFinite` beside `MoneyConserved`; the one step that moves money,
`AtomicLedger!Apply`, changes one wallet by one price and posts one key, so the
number of debits or of refunds posted moves by one in the matching direction; and
a refund it posts belongs to a payment that is debited or claimed.

`PaymentCreationProofs`, for any number of keys, ids and workers: `CreationTypes`,
`OnePaymentPerKey`, `PaymentsAnnouncedOnce`, `CacheFollowsTable`,
`EventsAreHistory` and `CreationImplementsRegistry`; the middle four are about
`SameKeySamePayment`, `AnnouncedOnce`, `CacheNeverAhead` and `EventsTellHistory`.
In the refinement the insert is the registration, PUBLISH the announcement, and
the last step of a request its answer; a cache hit answers rightly because what
is cached is backed by a row. The invariant says of each step what the worker holds
(`CallerOK`, `UpdaterOK`: a payment whose row exists, with a status it has had,
and of a creator that his row is not yet announced), that no two requests
inserted one row (`CreatorsDiffer`), that a key has at most one row (`TableOK`,
which the unique index gives), and that what is cached or was answered is
`Backed` by a row of the key (`CacheOK`, `AnswersOK`).

`CircuitBreakerProofs`: `BreakerTypes`, `TripsInTime` and `OpenFailsFast`,
from `TypeOK` and `ClosedBelowThreshold`, which together are inductive.

`GatewayProofs`, for any number of requests and keys and any limit, window,
buffer and lag with `Lag <= Buffer`: `GatewayTypes`, `LimitHolds`,
`RefusalsAreDue`, `CountersDoExpire`, `UnavailableMeansNotExecuted`. The argument
for `LimitPerWindow`: an expiry is set no earlier than the arrival of a request of
the window, and for `Window + Buffer`, so not before the window and the lag are
over (`ExpiresLate`). Until then the counter, if Redis has not evicted it, is at
least the number of requests let pass (`CountsEnough`), so one more passes only below the limit; afterwards
no INCR of the window can come (`Timely`) and the number no longer changes.
`CountsNoMore`, in the other direction, gives `RefusedOnlyOverLimit`.

`AnomalyDetectorProofs`, for any number of payments and amounts and any limits
and windows: `FlagsHaveCauses` and `RecordedAreCounted`. A list with an entry in
`kept` expires no earlier than two windows after it (`KeptLives`), and an entry
leaves `kept` before that, or with its list when Redis evicts it; the payments in a list have passed their RPUSH
(`Entered`), so a payment never counts itself, and what justified a flag still
does while the flag stands.

Only model-checked: liveness (`EveryRequestAnswered`, `WorkEnds`, `Recovers`,
`RequestsEnd`), which is beyond the prover; `NoDeadlock` is the part of the first
that is not. The violated properties have counterexamples. Every invariant,
action property and refinement of the passing runs is proved.

## 5. What the code does otherwise than its documents say

Five disagreements are shown by a violated run (`findings`). Others were met
while modelling and are stated here only:

* CANCELLED and REFUNDED payments are processed again when asked
  (`PaymentController.js:125-146` stops at COMPLETED and FAILED only); the status
  flow of `infrastructure/DATABASE_DESIGN.md:65-72` leads nowhere from either.
  The models allow it, and a debit that was posted is not posted again.
* PATCH makes a payment COMPLETED that was never debited, and `/refund`, which
  tests the status only, then credits money nobody paid (`RefundFollowsDebit` and
  `MoneyConserved` name exactly this case). Reconciliation does not report it: like
  FAILED_BUT_DEBITED, the COMPLETED_LEDGER_MISSING of `README.md:45` needs a wallet
  no row names.
* Refusals such as INSUFFICIENT_BALANCE count as failures of the breaker, and can
  open it; the comment at `PaymentProcessor.js:99` speaks of a wallet that is
  down.
* `rateLimiter.js:7` says sliding window; the window is fixed, and around its
  boundary twice the limit passes.
* `AnomalyDetector.js:15` and `README.md:58` flag a duplicate amount at three times;
  three recorded ones flag the fourth. `FAILED_STREAK` never speaks: `record` is
  called with new payments only, which deletes its counter.
* `walletRoutes.js:37` routes to `walletController.verifyLedgerEntry`, which
  `WalletController` does not define.

## 6. What is not modelled, and the plan

* Of reconciliation: the time window, its limit of rows, the stuck payments. Of
  the anomaly detector: `FAILED_STREAK` and severities. Of the database client:
  `pool.query`, the health check, closing.
* Endpoints that only read one row or list: no state changes and no second read.
* The wait of an opening entry for its wallet's row, which its foreign key locks
  FOR KEY SHARE: a posting to a wallet just created may hold that row. The model
  allows the orders of the two that the database does, and more; and the holder
  waits for no opening entry, so no circle comes of the wait.
* What a restart of Redis may lose of a counter or list that survives it, its last
  commands: `Evict` takes the whole key.
* Amounts that are not integers; validation other than its outcome.
* A Redis that never comes back: the client stops reconnecting, and every later
  request passes uncounted. Gateway claims nothing of uncounted requests.
* Database objects no code reaches (stored functions, audit, lock and snapshot
  tables); TypeScript twins of the shared classes; constant tables; start-up,
  configuration, logging, health.

Written in this order: AtomicLedger, WalletService and its refinement;
PaymentProcessor; CircuitBreaker; PaymentCreation; DatabaseClient;
Reconciliation; PaymentSystem; BalanceReconciliation; Gateway; AnomalyDetector;
the proofs of each after its runs.

Left, most important first:

1. CircuitBreaker around PaymentSystem's calls, in place of a breaker that may
   refuse at any time.
2. The stuck payments reconciliation reports as suspicious, which need a clock.
3. Abstract specifications of the rate limiter and the breaker, shown to be
   implemented as those of the wallet service and of creation are.

## 7. Running

    tlc -workers 2 -config wallet_promise.cfg MCWalletService.tla
    tlapm WalletServiceProofs.tla
