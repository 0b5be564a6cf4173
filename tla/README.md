# TLA+ models of bime-bazar

The repository is a FastAPI service that sells products of several inventory
providers. A checkout first *reserves* its items (locally, then with each
provider that takes reservations), is then *confirmed* when payment comes in or
*cancelled*, and *expires* when neither happens; a confirmed reservation becomes an
*order*. Users log in with a one-time code. This directory holds TLA+ modules that
model the checkout on top of what it really runs on (PostgreSQL at READ COMMITTED,
row locks, SQLAlchemy sessions with their identity map), the orders beside it, the
login, the machinery around provider calls, and the schema migrations. TLC checks
them on small instances, and TLAPS proves all their safety properties for all sizes.

## 1. Inventory of the system

| Component (sources under `src/app/`) | State | Operations | Properties that make it correct |
|---|---|---|---|
| Checkout workflow (`modules/reservation/services/`) | none of its own: rows it loads into a session | create, confirm, cancel, expire | all or nothing per reservation; never oversells; every request ends |
| Reservation storage (`modules/reservation/repositories`, `models`) | `reservations`, `reservation_items` rows | create, add item, `lock_and_transition`, `find_expired_and_lock`, commit, rollback, savepoints | a status is changed only from the statuses allowed |
| Inventory storage (`modules/inventory/repositories`) | `product_inventories` rows | hold, release, consume | nothing oversold, no lost update |
| Inventory port (`adapters/reservation_inventory_adapter.py`, `services/provider_service.py`) | none | hold, release, consume, and the upstream reserve, confirm, release, revalidate | an item is confirmed only against a hold its provider confirmed |
| Expiry worker (`modules/reservation/workers`) | one session per pass | sweep every 30 s | due reservations do not keep their stock |
| Database session (`core/database/postgres`) | transaction, locks, loaded objects | commit on return, rollback on an exception | every exit lets its locks go |
| Provider clients (`providers/provider_implementation`) | at the provider | reserve, confirm, release, check stock | external |
| Provider registry (`providers/provider_registry.py`) | one cached client per provider name | `get_client` | all calls go through one client; a misconfigured provider never serves a call |
| Resilience (`providers/shared`) | breaker state, failure count, opening time; attempts of a call | circuit breaker around retry policy around transport | state and count agree; recovers when the provider does |
| Orders (`modules/order`) | `orders`, `order_items` rows | order from a reservation, read an order | the whole confirmed cart, ordered once; no more ordered than sold |
| Login (`modules/user`, `core/database/redis`) | codes in Redis or `otps`, `users` rows, the event loop | login, verify code | a token belongs to its phone; a code logs in once; no process hangs |
| Migrations (`src/alembic`) | schema, recorded revision, the rows in the way | upgrade to the head of the day, downgrade -1 | the recorded revision tells the schema; the head fits the models; every command ends |
| Access tokens (`core/security`) | none | encode, decode | none worth a model |
| Composition, routes, error mapping | none | wiring; what a route answers, and commit or rollback, is part of the models above | |
| Configuration, seed | static | read once | none worth a model |

How they interact. A request opens one session (`get_db_postgres`), runs one
service method, and the dependency commits when the route returns and rolls back
when it raises. The reservation and order routes run in server threads; the two
login routes are `async` and run on the event loop. The worker opens a session of
its own per pass. Sessions meet in the database only: through committed rows, row
locks and unique keys. Providers are called synchronously while the item's stock
row is locked. An order has no foreign key to its reservation (revision `89cce`
dropped it), so an order request shares no lock with a checkout. Registry and
breakers are objects of the process that all threads share.

What is hard here, and where the hazards in `PROJECT.json` come from:

* **Stale objects under a lock.** `autoflush` is off and no query uses
  `populate_existing`: `SELECT ... FOR UPDATE` on a row the session has already
  loaded takes the lock and leaves the loaded attributes as they were. A status
  test made after such a lock is made on the old status.
* **Locks that end early.** A row lock lasts to the outer commit or rollback. The
  commits inside create, confirm and the sweep let go of everything, and expire
  every loaded object, which is then read again with no lock.
* **Exceptions undo compensation.** An error that leaves the route rolls back
  whatever the handler did since its last explicit commit, but not what a
  provider has done meanwhile.
* **Lock upgrades.** The insert of an item takes `KEY SHARE` on its stock row
  (foreign key) before `hold_stock` asks for `FOR UPDATE`.
* **Retries.** Clients repeat requests; providers fail, or answer and the answer
  is lost; processes die between two commits.
* **Answers before commits.** The transaction is committed by the dependency after
  the answer has left. Another request, or a crash, comes in between.
* **Blocking calls on the event loop.** An `async` login handler that waits for a
  row lock stops every other request of its process, also the commit it waits for.
* **Two stores.** Codes live in Redis, or in PostgreSQL when a Redis call fails; each
  of the three reads of a verification may go to either.
* **Shared objects without locks.** Threads switch between the lines of the breaker
  and of the registry.
* **Migrations that stop half-way.** `autocommit_block` commits what came before it;
  two operators may run Alembic at once, and lock tables in opposite orders; tables hold
  rows of an older application.

## 2. The modules

| Module | What it is |
|---|---|
| `StockLedger` | the stock row and the arithmetic of hold, release and consume |
| `CheckoutSessions` | the whole workflow over sessions, locks and committed rows: one action per step between two points at which another session can act |
| `AtomicCheckout` | the abstract specification: a reservation moves as a whole in one step, and the stock is a function of where the items are |
| `CheckoutSafety` | the properties, and the refinement mapping to `AtomicCheckout` |
| `CheckoutClaims` | what documents, docstrings and tests say and the code does not do |
| `Orders` | order requests composed with the checkout: extends `CheckoutSafety`, interleaves with `SerialNext` |
| `OtpLogin`, `LoginSafety` | both login routes call by call, and their properties |
| `ProviderCalls` | registry, breaker and retry policy under threads, with their properties |
| `Migrations` | the ten revisions, the processes that run them, the models they serve |
| `MCCheckout`, `MCOrders`, `MCLogin`, `MCProviderCalls`, `MCMigrations` | the small instances TLC runs |
| `CheckoutProofs` | types and the balance of the ledger, under any overlap |
| `CheckoutLockProofs`, extending it | which locks a session holds for what it has written |
| `CheckoutWorkProofs`, extending that | providers' references, and the stock row in hand against the committed one |
| `CheckoutSerialProofs`, extending that | under `SerialSpec`: coherence, accounting, no overselling, and the refinement of `AtomicCheckout` |
| `OrdersProofs`, extending `Orders` and that | the orders beside the checkout |
| `LoginProofs`, `ProviderCallsProofs`, `MigrationsProofs` | theorems about the login, the provider calls and the migrations |

`CheckoutSessions` and `Orders` meet in committed rows. The login, the provider calls
and the migrations share no state with them or with each other (a login writes
`users` and `otps` only; the breaker is beneath `Fault` of the checkout; a migration
runs before the application starts), so each has a module of its own.

### Checkout: how the state corresponds to the code

* `resv`, `item`, `stock`: the *committed* rows. `stock[p].sold` is a history
  field: `consume_hold` drops the units it takes from `qty_reserved`, the model
  keeps counting them.
* `holder`, `sharer`: row locks. `CanLock` is the condition for `FOR UPDATE`,
  `UPDATE` and `INSERT` to go ahead, `CanShare` the one for a foreign-key check.
  A step whose lock is taken is simply not enabled: that is the wait.
* `row`, `attrs`, `inv`, `touched`, `dirty`: the identity map of each session, the
  loaded reservation, items and stock rows, and what it has written since its last
  commit. `MemStock` is the point of it: the row as the session sees it after
  `get_locked`. A flush sends changed columns only (`FlushedItem`,
  `Transitioned`), so a stale column that was not assigned is not written back.
* `pc`, `target`, `todo`, `at`, `batch`, `allConfirmed`: where the handler is.
* `upstream`: the provider's side of each reservation reference.
* `due`: `expires_at` has passed.

One session per request and one per worker pass. A request is one service call
(`Start` picks which, and for which reservation): repeated and concurrent
requests for one reservation are several `Requests`. Names of the steps follow
the methods: `Create...`, `Confirm...`, `Cancel...`, `Expire...`. `Rollback` is
every exit through an exception, `Leave` every exit. `PassTTL`, `Crash`,
`DeadlockAbort` and the failing disjuncts of the provider calls are the
environment.

Where one step covers several statements, those statements touch only the
session's own memory or rows it has locked. In particular a provider call and the
stock update beside it are one step, since the adapter locks the stock row before
it calls the provider, and two sessions on the same provider reference hold the
same stock row.

### Orders

`OrderFind`, `OrderRead`, `OrderItems`, `OrderInsert`, `OrderFill` are the queries of
`create_order_from_reservation` in order. The reservation and, by a later lazy load,
its items are read from committed rows with no lock, and a checkout session may
commit between the two. `draft` is the order inserted and not committed; an INSERT
with the same `reservation_id` waits for it (unique key) and fails with an
`IntegrityError` that nothing catches if it commits. `reply` is set when the handler
returns, before `OrderCommit`; `OrderCrash` may come between. Orders are named by the
request that creates them.

### Login

`step` is the call a handler makes next and `loop[p]` the request whose handler the
event loop of process `p` runs: from its first call to its return, lock waits
included. After the answer, `Dispatch` (which needs the event loop free) hands the
commit to a thread. `redis`, `otps`, `users` are the stores, `tx` what the open
transaction has written. `GetOtp` is the read with its fallback: each read goes to
Redis if that call answers, and to the unused, unexpired `otps` rows if it raises; more than
one such row makes `scalar_one_or_none` raise (`Ambiguous`). A verification reads
three times (`VerifyCurrent`, `VerifyCompare`, `VerifyConsume`). A failed Redis write
may have been done. Codes are named by the login that generated them: that two
random codes can be equal is left out. A failure is one Redis call that raises, an
outage (Redis returns with or without its keys), or the crash of a process.

### Provider calls

A step is what runs between two points at which the interpreter may switch threads
(a call, or the back edge of a loop), so that `Failed` and `Stamp` are two steps:
`time.time()` is called between setting the state and setting `_opened_at`. A client
is named by the thread that built it. The failure count stops at the threshold,
against which alone it is compared; `openedAt` is `None`, within the cooldown
(`"now"`) or beyond it (`"cooled"`). `Attempt` is one request of the transport: it
succeeds (also after the provider failed for others), times out and is tried again,
fails, or returns a body that is no JSON, an error that passes both handlers
uncounted. The warehouse client wraps its requests in `_call` but the calls
themselves are commented out, so the module models the composition they were
written for.

### Migrations

A revision is a sequence of statements; a statement is a record of the schema facts
it needs, must not find, takes and gives, of the rows that make PostgreSQL refuse
it, and of the tables it locks. `db` is the committed schema, its rows and the recorded
revision. `proc` says of each process what it runs: the revision at which it last
committed (`base`), the one it has come to since (`at`), and its next statement. `Begin`
reads the recorded revision once and starts `alembic upgrade head`, for the head of some
day (`Heads`), or `alembic downgrade -1`. So the committed revision takes every value from
0 to 10, as it did while the revisions were written: each was the head once, and the
application of that day wrote rows on it (`Write`). `env.py` runs all revisions of one command
in one transaction, except that an `autocommit_block` commits what came before it.
`Record` is Alembic's `UPDATE` of the version row, which must match.

What a process has done and not committed is no state of its own: `Seen` computes it from
`db` and its place, with `Course` (what a script alone makes of a database) and `Upgraded`
(what all the scripts up to some revision do), both recursive functions. That is right
because nobody else commits a change to a table that the process has locked, and this is
modelled: `Held` collects the tables that its statements have created, altered, dropped or
referred to, and the row of `alembic_version` once it has recorded a revision. A
statement goes ahead when nobody else holds what it wants (`WaitsFor`). Two processes do lock in
opposite orders: the downgrade of `5d0c6` holds `product_inventories` and wants the version
row, which an upgrade has had since `c3c55` when it comes to `product_inventories` in `89cce`; the
upgrade `5f53d` locks `otps` and then `users`, the downgrade of `250dc` the reverse.
`DeadlockAbort` is PostgreSQL's way out.

Simplifications: a statement takes all its locks in one step; every lock of one migration
conflicts with those of another and with the application's writes to that table; the locks
that an application's writes take on tables they refer to are left out; of the schema
only what a later revision touches or a model relies on is kept; of rows, which tables hold some,
and which rows miss a value; `alembic_version` is there from the start. A statement on a table
that another command has just dropped may pass here, and the command then fails at `Record`.

### What is external

PostgreSQL's locking, unique keys, deadlock detection and what a DDL statement needs,
Redis, Alembic's version table and the provider's behaviour are not in `src/`; they
are modelled from how the code uses them. The provider is honest: `reserve` repeated
under one key answers the same reference, `confirm` succeeds for a hold that stands
and again for one already confirmed, and any call may fail or do its work and lose
its answer (`Fault`, bounded). The clients in the repository answer from constants
(their HTTP calls are commented out) and do not fail; the failure paths modelled are
those the service has code and tests for.

## 3. Two environments of the checkout

Nothing in the code keeps two sessions off one reservation except row locks, and
because of the stale objects those do not order the decisions. So properties come
in two groups.

* `Spec`: any overlap of any sessions. What survives is what the stock-row locks
  alone guarantee: `NoLostUpdate`, `ItemRowsUncontended`,
  `ConfirmedUpstream`, and the types.
* `SerialSpec`: one session at a time *on each reservation*; sessions on other
  reservations run beside it and compete for stock, lock and deadlock with it, and
  crashes, failures and deadlock aborts remain. This is what the design takes for
  granted of its clients. Here a reservation is coherent (`RowsCoherent`), the
  books balance (`Accounting`), nothing is oversold (`NeverOversold`) and the workflow
  implements `AtomicCheckout`.

The difference between the two is real, and two findings show it: with two sessions on one
reservation a final status is overwritten (`claim_final_status`), and a unit is held by two
reservations (`claim_oversold`, the same `NeverOversold` that holds under `SerialSpec`).
No property here says that overlapping sessions do not oversell: they do.
`Orders` runs beside `SerialSpec`'s sessions: orders of a reservation that two sessions
corrupt are not asked about.

## 4. The runs

| Run | Instance | Spec | Checks |
|---|---|---|---|
| `overlap` | a reservation of two items on two products (one with provider holds) beside one of one item, 3 requests, a worker whose sweep finds both, 1 fault | `Spec` | `TypeOK`, `NoLostUpdate`, `ItemRowsUncontended`, `ConfirmedUpstream` |
| `serial` | two carts of the same two products in opposite order, too little of one, 3 requests, worker, 2 faults | `SerialSpec` | `RowsCoherent`, `Accounting`, `NeverOversold`, `ImplementsAtomic` |
| `answered` | the two carts of `serial`, 2 requests, worker, 1 fault | `FairSpec` | `EveryRequestEnds`, `DueReservationsClose` |
| `orders` | one reservation of two items on two products, 3 requests, worker, 1 fault, 2 order requests | `OrderSpec` | `OrderTypeOK`, `OrderedIsSold`, `OrderIsWholeCart`, `OrderRequestsEnd` |
| `login` | two phones, known or new, 3 requests on one or two processes, 1 fault | `FairSpec` | `LoginTypeOK`, `TokenBelongs`, `CodeLogsInOnce`, `AnsweredCodeStands`, `RequestsEnd` |
| `provider_calls` | one provider, 2 threads, threshold 2, 2 attempts | `FairSpec` | `CallsTypeOK`, `BreakerCoherent`, `OneBreakerInTheEnd`, `BreakerRecovers` |
| `migrations` | all ten revisions, heads 2, 4 and 10, 2 operators, the rows that can stop an upgrade | `FairSpec` | `MigrationsTypeOK`, `RecordedIsReal`, `UpgradeWorksUnless`, `HeadServesModels`, `CommandEnds` |

What they show:

* `NoLostUpdate`: what a session is about to write to a stock row is the committed
  row plus what it took and minus what it let go, whoever committed in between.
  Locks on the wrong row, a missing `FOR UPDATE` or a stale row break it.
* `ItemRowsUncontended`: item rows are written without locks of their own; that two
  sessions never have uncommitted writes on one item follows from each write being
  made under the lock of the item's stock row.
* `ConfirmedUpstream`: `CONFIRMED` with a reference implies the provider confirmed
  that reference, also through lost answers, retries and a second session.
* `RowsCoherent`: e.g. a `PENDING` reservation has all its items `HELD`; a failed
  confirmation leaves all items as they were. For an incomplete confirmation that is what the
  code does, against `ARCHITECTURE.md:149` (`claim_incomplete`).
* `NeverOversold`: the items that hold or have bought a product stand for no more units than
  there were, with two carts that compete for the last unit. It speaks of items and not of the
  stock rows' numbers, which could all be right while an item that gave its unit back
  is held again.
* `ImplementsAtomic`: with two transactions per checkout and three per
  confirmation, the committed rows still move as `AtomicCheckout` says.
* `EveryRequestEnds`: crosswise stock locks (a checkout of each cart, in opposite order) and
  lock upgrades do deadlock in this run; every request is answered all the same since
  each exit rolls back.
* `DueReservationsClose`: a reservation past its time leaves `PENDING` and
  `PENDING_LOCAL` even if a worker pass dies half-way. It may leave them for `CONFIRMING`,
  and then keeps its stock.
* `OrderedIsSold`, `OrderIsWholeCart`: two order requests that both find no order, or
  that look while a confirmation is under way or rolls back, make one order of the
  whole confirmed cart, and no more units are ordered than the stock has sold.
* `OrderRequestsEnd`: the wait on the unique key ends, with the commit, the error or the
  crash of the other request.
* `TokenBelongs`: through fallback, outage, expiry and crash a token is given for a
  code of that phone and a committed user. `CodeLogsInOnce` and `AnsweredCodeStands`
  hold in one process while nothing fails, *because* the handlers keep the event
  loop; with `def` routes (`LoopNotNeeded`), a second verification comes in between.
* `RequestsEnd`: while nothing fails, the event loop is never stuck. With a fault it can be
  (`claim_login_hangs`).
* `BreakerCoherent`, `BreakerRecovers`: the unlocked races of the breaker, late
  successes and half-open probes of every thread included, leave no state that
  sticks. (One of the threads may crash: see section 5.) `OneBreakerInTheEnd`: nor do several clients built at first use.
* `RecordedIsReal`: after any crash, failure, deadlock, downgrade or second operator the schema is
  that of the recorded revision, apart from enum types and labels, which nothing drops.
* `UpgradeWorksUnless` is an equivalence: an upgrade fails exactly if there are rows in
  `otps` below `54bea`, items below `38dd` whose product number is no inventory's, rows in
  `order_items` below `89cce`, or the enum types that the downgrade of `f6be8` leaves.
  All four are reached: databases stop at revision 2 and 4 because these were heads, and at
  3 and 1 by a downgrade. (The downgrades of `38dd` and `54bea` fail on every database.)
* `HeadServesModels`: of what the models declare the head lacks exactly `Undelivered`, and
  it has no required column they do not fill. `Undelivered` is a difference between code and
  migrations: the class `Reservation` declares its key unique alone (`reservation.py:34`), the
  table has it unique per user (`c3c55:51`, and `ARCHITECTURE.md:193` wants that).
* `CommandEnds`: no command waits for ever, though two of them can lock the same tables
  and the version row in opposite orders.

Bounds and why they are enough. The checkout's bounds are `Requests` (each one call),
`MaxFaults` (provider failures plus crashes), the carts and the stock. The interesting
steps involve two sessions on one row, with a third that changes the row in between;
three requests and a worker give that in all orders. Two items per cart are needed for
a partial failure, two products for crosswise locks, two due reservations for a sweep
whose first commit precedes its second reservation. Two faults allow a failure and then
a crash while it is compensated. Two order requests meet on the key, and the
checkout requests beside them create, confirm and cancel or expire. Three logins or
verifications give a login and two verifications, or two first logins and one more,
and two processes the cases that one event loop keeps apart. Two threads race
at each shared attribute, and calls are not counted: each thread makes one after the
other. The number of commands of an operator is not bounded either. The heads 2, 4 and 10 leave
a database below each of the revisions that rows or types can stop, and with the downgrades from
them every revision is committed. Rows of the two tables whose new columns are filled on the way
are in the proofs (any `Marks`) and not in the run. Symmetry
(`Requests`) is used in the checkout's safety runs only, never with liveness.

Fairness. `answered`: `SF` on a session's next step, because PostgreSQL grants row
locks in the order of the requests, so that a waiter is not passed over for ever,
provider calls time out and server threads run; `WF` on the deadlock detector; `WF`
on the worker's sweep, which comes back every 30 seconds. `orders`: `WF` on the steps
of a request's thread. `login`: `WF` on handlers and commit threads; Redis need not
return. `provider_calls`: `WF` on threads, on further calls (`Look`) and on the clock
(`Cool`). `migrations`: `SF` on a process's next statement, for PostgreSQL's order of
locks, and `WF` on its deadlock detector.
Starting a request, the passing of time elsewhere, recoveries and faults are not fair.

Deadlock is checked except in `login` and `claim_login_hangs`, where it is part of the
program: all requests may be done, and a process may hang.

## 5. Findings

Each is a run that refutes one property stated from a document or docstring.

* `claim_final_status` (`FinalStatusStays`): `lock_and_transition` tests the status
  loaded before the lock; a final status can be overwritten.
* `claim_failed_create` (`FailedCreateLetsGo`): the error that reports a failed checkout
  rolls back its compensation; items and stock stay held until the worker comes.
* `claim_login_hangs` (`RequestsEndWithoutRedis`): one failed write to Redis at a first
  login, and a second login of that number before the first is committed, leave the
  process waiting for itself.
* `claim_oversold` (`NeverOversold` under `Spec`): a checkout that is cancelled while it runs
  makes a released item `HELD` again, for its re-fetch returns the session's old object;
  another checkout takes the freed unit as well (`ARCHITECTURE.md:174`).
* `claim_incomplete` (`IncompleteIsConfirmed`): one session is enough: an incomplete
  confirmation is rolled back to `CONFIRMING` with its items `HELD` (`ARCHITECTURE.md:149`,
  also `:76`, `:219`, `:233`, say `CONFIRMED`).

Also met, with no run of their own:

* Two overlapping cancels, or a cancel and a confirmation, of one reservation let one hold go
  twice: `qty_reserved` is negative and `qty_available` too large (`ARCHITECTURE.md:296`).
* The losing insert of an idempotency key ends in a raw `IntegrityError`
  (`ARCHITECTURE.md:231`, `tests.py:866`): the answer `integrityError` of `CreateInsert`.
* Two users who reuse a key value share the warehouse client's reference, which is made of the
  key and the SKU; one's cancel releases the hold of the other (`ARCHITECTURE.md:193`). The
  references of the instances are distinct.
* A thread that finds the breaker open before `_opened_at` is set ends in a `TypeError`
  (`typeError`), where `SCALABILITY.md:131` says "not a crash".
* The registry stores a client before the check of its capability, so only the first use of
  a misconfigured provider fails (`provider_not_found.py:19` says it is "raised loudly").
* With overlapping sessions on one reservation the sweep releases the items of a
  reservation that began to be confirmed after its locks were let go
  (`ARCHITECTURE.md:235`), and the `version` audit counter can go back.
* Two checkouts of one product can deadlock on the lock upgrade. A reservation confirmed
  while `PENDING_LOCAL` stays in `CONFIRMING` (`BeginConfirm` of `AtomicCheckout` allows it, and
  nothing there takes it further).
* The documents say that confirming creates the order (`readme.md:142`,
  `ARCHITECTURE.md:146`); in the code a client asks for it.
  An order or a code that was answered can be lost before its commit.
* After a crash a code can be in Redis for a phone that has no user; with two processes
  a login can overwrite a code just answered; two unused `otps` rows of one phone
  answer it errors until one expires.
* A success that comes late closes a breaker in its cooldown.
* `38dd` re-points an item whose product number happens to be some inventory's.

## 6. What is proved

Every safety property of the checkout, the orders, the login, the provider calls and the
migrations, and the refinement of `AtomicCheckout`: for any number of requests, workers,
reservations, items, products, phones, processes, threads, operators and failures, any
carts and any stock. The only assumptions are those the modules state about their
constants (`CheckoutAssumption`, `OrderAssumption`, `LoginAssumption`, `CallsAssumption`,
`HeadsAssumption`, `MarksAssumption`), which TLC evaluates in the runs.

**The checkout, any overlap.** None of the properties is inductive; each needs to know
what sessions have in hand. The invariants build on each other.

* `TypeInv` (`CheckoutProofs`) adds to `TypeOK` that a session in a handler has a
  reservation and one inside a loop has an item; without it the reads of `target[c]`
  and `at[c]` have no type. `TypeCorrect`: `Spec => []TypeOK`.
* `LedgerInv` (`CheckoutProofs`): the numbers of each stock row, committed or in a session's
  hand, add up to the stock there was, with `available` never negative. It is a lemma only: it
  follows from the arithmetic of `StockLedger` whatever the locks are, says nothing about
  overselling by itself, and is used below together with `Accounting`.
* `LockInv` (`CheckoutLockProofs`): whoever has touched a stock row holds it; an item
  that is written and not committed is of the session's own cart, and its stock row is
  held or, between insert and hold, shared by the insert's foreign key (`AtHold`). Two sessions that
  share one product's row can both be about to hold, so the argument has two cases: one of
  them has the stock row, or both are inserting, and then the reservation row, which the
  unique key lets only one insert, decides (`RowHeld`).
  `ItemRowsAreUncontended`: `Spec => []ItemRowsUncontended`.
* `RefInv` (`CheckoutWorkProofs`): the loaded items obey the same rule about references as
  the committed ones, and a confirmation visits items it has loaded as `HELD`; providers do
  not take a confirmation back (`UpstreamMoves`). So stale objects that are written back
  cannot break it. `ConfirmedIsUpstream`: `Spec => []ConfirmedUpstream`.
* `RowsInv`, `LoopInv`, `TracksInv` (`CheckoutWorkProofs`): reservation rows precede their
  items; what is written has been loaded, and a loop has not yet written what is still to
  come; the stock row in hand is the committed one plus what was taken, minus what was
  let go, and its `sold` the committed one plus what was confirmed. The lock makes the
  committed row stand still, and `LoopInv` makes each step on an item change exactly one
  of the three sets by exactly that item; the cardinalities follow from lemmas on
  `UnitsOf` (`UnitCount`). `UpdatesAreNotLost`: `Spec => []NoLostUpdate`.

**The checkout, one session at a time on each reservation.** `SerialInv`
(`CheckoutSerialProofs`) contains all of the above, and what each handler knows at each
of its steps: that what is not still to come has been written with the right status
(`InsertOK`, `UpstreamOK`, `ConfirmOK`, `CloseOK`), that the reservation row it has read
is the committed one, and that the rest of a sweep is still open (`BatchOK`). The
argument turns on one operator: every step either leaves the committed reservation and
item rows alone or `Turns` one reservation, status and all items together
(`Commits`).

* `RowsAreCoherent`, `AccountsAgree`: `SerialSpec => []RowsCoherent`, `[]Accounting`. The
  first follows from `Turns`; for the second, a turn moves the units of its items from
  one set of `Accounting` to another, and `TracksInv` says the committed stock row moves by the
  same amount.
* `NothingIsOversold`: `SerialSpec => []NeverOversold`. `Accounting` turns the units of the held
  and of the sold items into `reserved` and `sold`, the ledger bounds their sum by `Stock0`
  (`AccountsBound`).
* `CheckoutIsAtomic`: `SerialSpec => ImplementsAtomic`. By `Accounting` and the ledger, the stock
  rows are the function of the items that `AtomicCheckout` prescribes (`StockIsLedger`),
  before and after; so a turn is one of its moves (`MoveOfTurn`) and every other step a
  stutter.

**Orders.** `OrderInv` (`OrdersProofs`) adds to `SerialInv` what a creating request has in
hand at each step, that the reservation it found confirmed stays so (`ConfirmedStays`: no
step of the workflow leaves `CONFIRMED`), and `OneOrder`, what the unique key stands for: of the
orders of one reservation, drafts included, there is at most one. `OrderTypeCorrect`,
`OrdersAreWhole`, `OrdersAreSold`: the safety properties of `Orders`. The last
maps the ordered units into the sold ones; `OneOrder` makes the map injective, and
`Accounting` counts its range.

**Login.** `BaseInv` (`LoginProofs`) holds whatever fails, on any number of processes: a
code in either store was made by a login of that phone which has ended its handler, and a
request that got past the comparison has such a code and a committed user (`Checked`).
`LoginTypeCorrect`, `TokensBelong`. `QuietInv` is about one process while nothing fails:
a login that is about to generate a code finds none under its key, a verification that is about to
consume finds its code or nothing, and that code has given no token yet. It is kept
because no other handler moves in between (`OnlyOneWorks`, from the type invariant's
account of the event loop); time may (`LapseQuiet`). `CodesLogInOnce`,
`AnsweredCodesStand`.

**Provider calls.** The invariant of `ProviderCallsProofs` adds `Stored` to the types: a thread on its
way to take the client finds one stored. `CallsTypeCorrect`; `BreakerStaysCoherent`:
`Spec => []BreakerCoherent`, which is inductive with the types. Its third part is the
subtle one: a step of one thread must not take away the other thread that is about to
stamp (`OthersKept`), and only the stamp itself ends that thread's duty.

**Migrations.** `MigrationsProofs` has three parts.

* *What scripts do.* `CourseSteps` and `UpgradedSteps` derive the defining equations of
  the two recursive functions from a witness, built by induction on numbers
  (`NatSetInduction`, from the well-foundedness of `<`). With them each revision is run
  symbolically on an arbitrary database (`UpgradeTo1` ... `DowngradeFrom8`): an upgrade
  takes `Shed[r]` away and adds `Grown[r]`; its downgrade does the reverse, enum types and
  labels excepted; and a database that is `Ready` lets all statements of an upgrade
  run exactly if no row or type is in the way of that revision (`UpgradeMoves`). The
  downgrades of `54bea` and `38dd` have a statement that is impossible on every database
  they can meet.
* *The inductive invariant.* `RecordedIsReal` is not inductive: an action commits what a
  process has done over many steps. `IInv` has, besides the types: `DbInv`, the committed
  database is like a new one of its revision up to `Lasting`, and has no item astray from `38dd`
  on. `VersionInv` and `OneInv`: a process that has recorded revisions it has not
  committed holds the version row, so the recorded revision is still its base, and there is
  one such process at most (`NobodyAhead`). `StraysInv`: once a process is past the foreign key of
  `38dd`, its lock on `reservation_items` keeps stray items out until it commits
  (`StraysLocked`). `PlaceInv`: where a process can be; in particular nobody is past the
  impossible statement in the downgrades of `54bea` and `38dd` (`ImpossibleFails`, `NeverThere`).
  A process that was overtaken may do anything: its `UPDATE` matches no row (`RecordKeeps`). One
  that was not sees a database like a new one of the revision it has reached
  (`ReachedIsReal`), hence the same in the middle of a script (`SeenIsLike`, from `CourseLike`
  and `CourseKeeps`) and at its end (`EndOfScript`), which is what it commits. TLC checked `IInv`
  on the instance of the run before it was proved. One lemma per action, then `InvariantHolds`.
* *The properties.* `MigrationsTypeCorrect`, `RecordedSchemaIsReal`,
  `HeadSchemaServesModels`; and `UpgradeWorksExactly`, for which `UpgradedIsReal` shows
  that an upgrade of a reachable database keeps looking like one of a new one at each
  revision, so that each revision is `Ready` when its turn comes and only rows and the
  left-over types decide.

Only model-checked: liveness (`EveryRequestEnds`, `DueReservationsClose`,
`OrderRequestsEnd`, `RequestsEnd`, `OneBreakerInTheEnd`, `BreakerRecovers`,
`CommandEnds`). It rests on fairness, hence on `ENABLED`, which the prover does not handle.

## 7. Plan

1. *Done.* Inventory, `StockLedger`, `CheckoutSessions`, its properties, the
   refinement to `AtomicCheckout`, the findings, type correctness.
2. *Done.* `Orders`, `OtpLogin`, `ProviderCalls`, `Migrations`, each with its runs.
   Type correctness and coherence of the breaker for any number of threads.
3. *Done.* The safety theorems of checkout, orders and login, and the step simulation of
   `AtomicCheckout`.
4. *Done.* `Migrations` for any number of operators and any heads: the schemas as recursive
   functions over `0 .. Latest`, locks and deadlocks, and its four invariants.
5. *Done.* `NeverOversold`, proved for `SerialSpec` and refuted for `Spec`.
6. *Open.* Which of the claims hold again with `populate_existing` in the locked reads, and with
   the item's status read after the stock row's lock.

## 8. Not modelled

* Access tokens: a pure encoding around a library. Configuration and seed: static data,
  read or inserted once. Composition, and the HTTP code of an error: no state.
* The provider clients' requests (commented out in the source) and their payloads.
  `CallLogger` is constructed nowhere. An unknown provider key is a pure refusal.
* Methods that nothing calls: `get_expired_pending`, `get_items_for_reservation`,
  `update_last_login`, `UserRepository`'s own code methods.
* The connection pool (it only delays steps), the `version` column of stock rows (read by
  nothing), money and payment (external).
* Alembic's offline mode, which prints SQL; downgrades by more than one revision are
  several commands here, each in its own transaction.
