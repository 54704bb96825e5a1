# CONFIT: verification of the commerce core

CONFIT is a fashion marketplace: a FastAPI backend (`src/backend/app`) over
PostgreSQL, Celery workers, a hosted payment gateway (Fawaterak), GPU workers
for try-on and vision, and a web frontend. The specifications here are about the
part where money, goods and stock meet: checkout, inventory reservations,
payment callbacks, reconciliation, operator transitions, the sweep of expired
reservations, returns and refunds; and about two more protocols that live on
rows shared by concurrent processes: the durable catalogue import and the second
factor of an account.

## 1. The system

### Components

| Component | State | Operations | What is hard | What makes it correct |
|---|---|---|---|---|
| Order and payment lifecycle (`services/commerce_service.py`) | `orders`, `payment_transactions`, `webhook_events` | `checkout`, `process_webhook`, `reconcile_order_payment`, `transition_order`, `capture_demo_payment` | awaits between load and write, rows held stale by the ORM session, several workers, redelivered and reordered callbacks, failures between COMMITs | goods move only for captured money; settled money is not undone; an event takes effect once, and in the end; cancelled orders do not ship |
| Inventory reservations (`_reserve_inventory`, `_commit_reservations`, `_release_inventory_for_order`) | `product_skus.stock_level`, `inventory_reservations` | reserve, commit, release | row locks that do not refresh loaded objects, rows to be given back read before the lock, lock order, crashes between COMMITs | no unit sold twice, each given back once |
| Expired reservation sweep (`workers/tasks.py`) | the same rows | `release_expired_inventory_reservations_task` | overlaps itself, checkouts and releases | gives each expired unit back once |
| Operators (`controllers/admin_controller.py`) | orders, audit rows | status transition, demo capture | runs in threads, COMMIT in the middle of a cash handover | handed over means paid |
| Cart, promotions, checkout sessions (`commerce_repository.py`, `commerce_controller.py`) | carts, promotions and redemptions, sessions | add, merge, apply promo, confirm | check-then-insert limits, confirmation without lock across an await | one order per confirmation, limits kept |
| Returns, refunds, exchanges (`commerce_service.py`) | return and exchange requests, refunded amounts | create, reject, refund, exchange | await between check and write, partial failure after the provider has refunded | refunded once, never more than the order cost, books backed by the gateway |
| Payment providers (`providers/payment`) | token cache, invoices at the gateway | initiate, look up, refund | timeouts with unknown outcome | answers reflect the gateway's books |
| Try-on jobs (`services/tryon_service.py`, `vton_delivery.py`) | job rows, temporary images | enqueue, render, cancel, purge | cancel against a late completion | cancelled stays cancelled |
| Catalog import (`services/brand_catalog_service.py`, `workers/tasks.py`) | job rows with lease and attempts | enqueue, claim, run, retry, recover | lost and duplicate dispatches, killed workers, a failing worker resetting another's job | nothing is imported again after a completion, a job ends |
| Email outbox (`services/email_outbox.py`) | `email_outbox` rows | dispatch, bounce | send before COMMIT | at most one send per event |
| Ad billing (`services/ad_billing_service.py`) | placement counters, ledger | record event, void | budget at its limit, duplicates | ledger equals counters, budget kept |
| Audit chain (`core/audit_chain.py`) | hash chain of audit rows | append, verify | batches and rollbacks with a cached head | one chain, no fork |
| Authentication and MFA (`services/auth_service.py`) | users, tokens, replay markers, recovery and mailed codes | enrol, present a code, remove, renew | concurrent use of one code, two readings of the clock, COMMITs that release a row lock early | a code and a time step are accepted once, guesses are bounded |
| Others: stylist, search, fit, wardrobe, storage, reports, brand administration, AI provider failover, GPU workers, frontend | see `PROJECT.json` | | mostly computation, CRUD or third-party I/O | |

### How they interact

Browser and operators call the API; `checkout` reserves stock and inserts the
order in one transaction, awaits the payment orchestrator, and finishes. The
customer pays on the gateway's page; the gateway calls the webhook endpoint as
often as it likes. A client that returns from the gateway triggers a
reconciliation, which asks the gateway and writes what it says. Operators move
the order on; Celery beat runs the sweep every 15 minutes. All of them write
the same rows of `orders`, `payment_transactions`, `inventory_reservations` and
`product_skus`, and share nothing else. There is no lock on orders. Once an order
has been handed over, customers and operators open, reject and refund returns;
the refund awaits the gateway, which calls back through the same webhook.

A brand's import is a row the API inserts and dispatches, to Celery or to a
Modal function; whichever execution wins a conditional UPDATE of the row runs
it, and a sweep dispatches abandoned ones again. MFA requests of one account
meet under the lock of the user's row. Neither shares a row with the commerce
core in what is modelled here, so their modules stand alone.

Three facts of the code's infrastructure decide what can interleave:

- **ORM sessions are snapshots.** `SessionLocal` has `autoflush=False`; a loaded
  object keeps its column values until a COMMIT or ROLLBACK expires it. A later
  query, `SELECT ... FOR UPDATE` included, does not refresh it (only
  `populate_existing` does, which `brand_repository` uses and
  `commerce_repository.lock_sku` does not). A flush updates the columns that
  changed, and no version column guards it.
- **One worker is an event loop.** Async handlers (checkout, webhook,
  reconciliation) use a synchronous session: between two awaits nothing else of
  that worker runs. Operators' handlers are `def`s, which run in threads; the
  sweep is another process.
- **`backend/Dockerfile` starts four workers**, so in that deployment async
  handlers interleave at every statement.

## 2. The modules

| Module | Models | Extends |
|---|---|---|
| `OrderStates` | the two status tables and the fulfilment gate | |
| `Sale` | abstract specification: the money and the unit of a card order as one state | |
| `OrderPayment` | order, payment, reservation and everything that races for them | `OrderStates`, instantiates `Sale` |
| `MCOrderPayment` | instances for TLC | `OrderPayment` |
| `OrderPayment_proofs` | theorems | `OrderPayment`, `TLAPS` |
| `Inventory` | several SKUs, statement by statement, with row locks; the idempotency key, the cart and the limits of a code around them | |
| `Returns` | returns and refunds of an order that was handed over | `OrderStates` |
| `ImportJob` | one durable catalogue import | |
| `Mfa` | the second factor of one account | |
| `MCInventory`, `MCReturns`, `MCImportJob`, `MCMfa` | instances for TLC | the modules above |
| `Inventory_proofs`, `Returns_proofs`, `ImportJob_proofs`, `Mfa_proofs` | theorems | the modules above, `TLAPS` |
| `OrderPayment_settled_proofs` | theorems about settled money and the goods it pays for | `OrderPayment_proofs` |
| `Inventory_stock_proofs` | theorems about the stock of the SKUs | `Inventory_proofs` |

### `OrderPayment`

*State.* `status`, `pay`, `method` are columns of `orders`; `tx` is the status
of the order's latest payment transaction; `resv` the status of its reservation;
`seen` the rows of `webhook_events`. `checkout`, `answer`, `hook`, `recon` and
`op` are the requests in progress with the rows they hold, `swept` the rows the
sweep has read. `psp` and `sent` are the gateway, `live` is `PAYMENTS_LIVE`;
`applied`, `early` and `faults` are bookkeeping of the model.

*Actions.* A handler is cut where something else can run: at awaits, at COMMITs
that expire its rows and, for operators and for handlers in other workers,
between the load of a row and its write.

| Handler | Actions |
|---|---|
| `checkout` | `PlaceOrder` (to the call of the provider), `RecordPayment` (answer and transaction), `FinishAccepted` / `FinishDeclined` / `FinishRaises`, `CrashCheckout` |
| `process_webhook` | `Deliver` (key not recorded), `LookupConfirms` / `LookupRefuses` (await), `RecordEvent` / `RecordLosesRace` (COMMIT of the key), `ApplyCaptured` / `ApplyFailure` / `ApplyRefund`, `ApplyFails` |
| `reconcile_order_payment` | `StartReconcile`, `ProviderAnswers` (await), `ReconcilePaid` / `ReconcileFailed` / `ReconcileEnds` |
| `transition_order` | `StartMove` (checks), `CollectCash` (its own COMMIT), `CommitMove`, `CrashOperator` |
| `capture_demo_payment` | `StartCapture`, `CommitCapture` |
| the sweep | `SweepReads` (without a lock), `SweepCommits` (every row it has read) |
| the gateway | `PspFails`, `PspPays`, `PspExpires`, `PspRefunds` |

`Flush` is the session's write: columns equal to the loaded row are left as the
database has them. `Finish`, the end of checkout, is different: `payment_status`
is assigned to an order the COMMIT of the transaction has expired (lines 604 and
626), so it has no loaded value and is always written. That takes back cash an
operator has collected since that COMMIT: the order ends `picked_up` and `pending`. `early`
remembers the orders this may happen to. `LoopFree` is the event loop: with
`SingleWorker` no async request resumes while another is past its last await.

*Abstractions.* An order has one reservation row, and a row is its status. How
many units are on the shelf is not in this module: the sweep, a release and a
reservation read and write `stock_level` in separate statements and lose or
double units between them, which `Inventory` models statement by statement. An
amount is right or wrong. A reservation is attached to its order in the step that
places it: the two COMMITs have no await between them, and nothing else finds the
order by then. `ReleaseInventory` is one step: that it may write a row somebody has
released since it was read makes no difference to a status. The gateway settles an
invoice only after checkout has answered, because the customer has the link from
that answer; invoices expire after the checkout has ended. The sweep takes held
reservations of checkouts that have ended, because a request does not last 30
minutes. Events, notifications, the wardrobe, emails and the attribution ledger
are left out.

### `Sale`

What the handlers together promise of a card order, as one state of it: `open`
(unit kept, payment undecided), `settled`, `void` (payment failed, unit given
back), `lapsed` (the sweep took the unit), `owed` (money for a unit that was given
back). The moves are few: an open sale is settled, voided or lapses, a lapsed one
is voided, a void one may come to owe money. `DealOf` maps the two columns of
`OrderPayment`, which five handlers write, to these states; `ImplementsSale` says
that every step is such a move or none. A payment that fails while the unit is
kept, a settled order whose unit is given back, or a `paid` one without a unit is
no state of a sale.

### `Inventory`

*State.* `stock` and `resv` per row, `lock` the row lock of each SKU, `snap` the
`stock_level`s in the session of a checkout, `sweep` the rows a sweep or callback
has read, `redeemed` the rows of `promotion_redemptions`, `cleared` the converted
carts, `taken` the callbacks that have come; `again` is history, the rows whose
units were given back a second time.
*Actions.* `CheckKey` (the pre-flight replay); `LoadCart`; `ResolvePromo`;
`LockLine` per cart line, in cart order, or `Reject`; `Reserve`, which commits
the order under its key, or `LoseKey` when the unique index refuses it;
`Redeem`, whose COMMIT comes after the order's; then `Accept` and `ClearCart`,
or `Decline`, `LockToRelease`, `Release`; `Crash` anywhere; `SweepReads`,
`SweepLocks`, `SweepCommits`; `DeadlockVictim` for the database's deadlock
detection. A failed or cancelled payment gives back the rows of an order that
checkout has left (`CallbackReads`, then the steps of the sweep, or
`CallbackBreaks`): webhook and reconciliation read the rows without a lock, lock
their SKUs and add the units without looking at the rows again, as the sweep does.
`Accept` writes `committed` whatever the row has become, as the code
does. A checkout between two awaits keeps its server's event loop
(`ServerFree`), also while it waits for a row lock. The quantities of a set of rows
are counted as a set of units (`UnitsOf`), the i-th unit of a row. `Limits` stands for
`max_redemptions` (all checkouts with the code) and `max_per_user` (those of one
person). Store (BOPIS) rows, which follow the same pattern, and restocking are
left out.

### `Returns`

*State.* `status`, `pay` of the order and `refunded` of its transaction;
`flagged` the items with `is_returned`; `netted` those with a return event in
the attribution ledger (carried for the hazard at `commerce_service.py:1169`; no
property is about it); `returns`; `seen` the refund callbacks recorded; `run` the
requests in progress with the rows they have loaded. Of the gateway, per return:
`taken`, the refunds it has accepted, `waiting`, those it has not decided about,
`payouts`, those it has paid; `accepted` is the sum of what it has taken.

| Handler | Actions |
|---|---|
| `create_return` | `CheckReturn`, `InsertReturn` (COMMIT), `ReloadOrder` (the order is expired and checked again), `MoveToReturnRequested` (COMMIT), `RecordLedger` |
| `reject_return` | `CheckReject`, `Reject` or `RejectRaises` |
| `refund_return` | `AskRefund`, then at the gateway `GatewayPays`, `GatewayAccepts` or `GatewayRefuses` (the await), `BookPending`, `BookRefunded` or `RefundRaises` |
| the gateway, later | `GatewayDecides`: what it has accepted is paid or declined, and the code is not told which |
| the refund callback | `RecordRefundEvent` (COMMIT of the key), `LoadForRefundEvent`, `ApplyRefundEvent` |
| `transition_order` | `CheckMove`, `Move` |

`Dies` ends any request; what it has not committed is gone, what the gateway has
paid is not. The tables are those of `OrderStates`. The adapter reads any status
but an approval as `refund_pending`: the refund is accepted and not paid, and may
be declined; `refund_return` adds it to `refunded_amount` at once. An answer that
is lost after the gateway has taken the refund reads as `failed`, as the adapter
reports a timeout. Money is counted in cents; `Tolerance` is the cent by which
the check lets refunds exceed the total and `IsFull` lets them fall short of it.
A return is refunded with the subtotals of its items, which a discount makes more
than the order cost. The model starts when the order is delivered.

### `ImportJob`

*State.* Status, attempts, heartbeat and file of the row of
`catalog_import_jobs`; `api` the request that enqueues or retries; `queue` the
messages by the retries behind them; `worker` the executions; `host` whether
they run on Celery (a retry is a new message) or Modal (a loop in the process).

*Actions.* `Enqueue`, `Dispatch`, `DispatchRaises`, `MarkDispatchFailed`,
`CheckRetry`, `Requeue` for the API; `Receive`, `Claim` or `Refuse` and
`GiveUp`, `PayloadMissing`, `Start`, `Parse`, `Progress`, `Finish`, `Notify`,
`Raise`, `Fail`, `LoadRecovery`, `Recover`, `RecoverFails`, `RetryTask` for an
execution; `Sweep`, `LeaseExpires`, `KillWorker`, `KillApi` around them. The
claim is one conditional UPDATE. Every other write of the status is a session's
flush of a row loaded before (`Written`), so it may overwrite what another
execution has made of the job. The heartbeat is fresh, older than the lease, or
not there. `LeaseExpires` waits until no execution that holds the job is alive:
Celery (`task_time_limit=300`) and Modal (`timeout=900`) kill them before
`JOB_LEASE_SECONDS` have passed since their last sign of life. `orphaned` is
history: somebody was killed when the sweep's filter no longer finds the job.

### `Mfa`

*State.* `enabled`, `secret` of the user; `marker` the last accepted TOTP step,
which the audit log keeps; `backup` and `email` the recovery and mailed codes;
`locker` the holder of the user's row lock; `run` the requests. `accepts` and
`spent` are history: how often a code was accepted, and a step recorded.

*Actions.* A request begins with `PresentCode` (login, change of password,
removal, renewal of the codes), `DisableUnenrolled`, `SetupMfa`, `VerifySetup`
or `RequestEmailCode`. A challenge is `LockRow`, `VerifyTotp`, `MatchTotp`, `RecordStep`, or
`CheckEmail` with `RedeemEmail` or `BurnAttempt`, then `CheckBackup` and
`ClaimBackup`. What follows an accepted code is written by `Enable`, `Disable`,
`Regenerate`, `MintSecret` after the lock is gone: `log_audit` commits by
default, and `BurnAttempt` commits in the middle of the challenge. `IssueEmail`
retires the codes `RetireEmail` found. A TOTP code is a secret and a step, valid
within one step of `now`; a recovery code stands for a set of ten. The service
reads the clock twice: `totp.verify` reads it for the window, and the search for
the step that made the code reads it again. If the step has left the window in
between, no candidate is equal to the code and the present step stands in for it
(`Matched`). The same happens at once to a code whose digits are of another
script (`WideCodes`): pyotp normalises them, the comparison does not. Passwords,
sessions and the expiry of mailed codes, which ends them like a retirement, are
left out.

## 3. The runs

| Run | Question | Result |
|---|---|---|
| `orders_webhook` | one order, one worker, two deliveries and two operators in progress, the sweep, card and cash, demo and live, one crash or failure anywhere | all hold, 424,594 states |
| `orders_reconcile` | the same with a reconciliation, one delivery, crashing checkouts, fairness | all hold, 39,925 states |
| `inventory` | three checkouts over three SKUs on two servers, opposite lock orders, a shared key, a code for one redemption, crashes, one sweep, one callback that gives units back, fairness | all hold, 55,048 states |
| `returns` | two requests at a time on two returns of a two-item order, each may die; a gateway that pays, defers or declines | all hold, 3,359,697 states |
| `imports` | one import, two executions, two attempts, one kill, celery and Modal, fairness | all hold, 422,199 states |
| `mfa` | two requests at a time, three steps, a TOTP code in plain digits and one in others, two sets of recovery codes, one mailed code | all hold, 3,413,476 states |
| `orders_workers` | two deliveries on two workers | `SettledForwardOnly` fails |
| `orders_cancel_race` | a reconciliation and a cancelling operator | `CancelledNeverShips` fails |
| `orders_lost_event` | one database failure while an event is applied | `CaptureIsApplied` fails |
| `inventory_oversell` | two servers, overlapping carts | `NoOversell` fails |
| `inventory_sweeps` | two overlapping sweeps | `NoOversell` fails |
| `returns_refund_twice` | a second refund request of one return | `RefundedOnce` fails |

What the passing runs of the orders and of the inventory show, on one worker
unless said otherwise:

- `ImplementsSale`: payment and reservation of a card order go through the states
  of `Sale`, though checkout, callbacks, operators, the sweep and crashes write
  them at different times: no payment fails with its unit kept, no settled order's
  unit goes back on sale, and money that comes too late is owed.
- `PaidHoldsUnit`: a card order whose payment stands as paid still holds its unit (without
  reconciliation; see the hazard at `commerce_service.py:1689`).
- `MovedGoodsAreCaptured`, `HandedOverIsPaid`: the fulfilment gate is sound
  although it is checked on a row loaded earlier, although cash is committed in the
  middle of a handover that may then crash, and with two operators at a time.
  `HandedOverIsPaid` and `SettledForwardOnly` except the orders in `early`.
- `AppliedOnce`, `SettledForwardOnly`, `CaptureIsApplied`: callbacks take
  effect once, never undo a settlement, and in the end take effect if no
  database failure comes in between.
- `HeldIsTransient`, `HeldIsReclaimed`, `EveryCheckoutEnds`,
  `ReleasedForGood`: reservations of dead checkouts do not stay held, a released
  row stays released, and lock cycles between carts, releases, callbacks and the
  sweep do not block for ever. `HeldIsTransient` is about *held* rows: the
  committed one of an abandoned order waits for the gateway's callback
  (hazard at `tasks.py:128`).
- `NoOversellOnOneServer`: the stale stock under the lock is harmless as long as
  all buyers of a SKU are on one event loop, until the units of one row are given
  back twice. A sweep and a cancellation do that in the run, as two sweeps do in
  `inventory_sweeps`: both read the row as held and neither reads it again.
  `LimitsKeptOnOneServer` is the same
  argument for codes: the redemption is counted long before it is inserted, but
  nothing runs in between on that server.
- `OneOrderPerKey`: a checkout sent twice under one key places one order, on any
  number of servers, because the key is unique in the database and not because
  it is looked up first.

The other three passing runs:

- `returns`: `RecordedWithinTotal` and `BooksAreBacked` hold although
  `refund_return` writes a sum it computed before its await and a callback
  overwrites it with an absolute amount: whatever is lost by that, the books only
  ever show *less* than the gateway has taken. They may show more than it has
  paid, because a refund that waits is booked and one that is declined stays
  booked. `FlaggedItemHasReturn` holds although two overlapping requests may
  return the same item twice and one of the returns is then rejected.
- `imports`: `NoImportAfterCompletion` rests on the file, not on the status. The
  status of a completed import may well become `failed` or `queued` again (a mail
  raises after the COMMIT, a refused claim of an exhausted job ends it, a stale
  recovery resets it); the retry then finds no file. Two executions that run at
  the same time may both finish: the property says *begins*. `JobEnds` needs its
  exception: a worker killed on the last attempt leaves the job in `processing`
  for ever, because the sweep asks for attempts that are left.
- `mfa`: a time step is recorded once, and a recovery or mailed code accepted
  once (`AcceptedOnce`). For steps this needs the row lock only up to the COMMIT of
  the marker, which is why releasing it there is harmless for them. It does not
  make a TOTP *code* good for one use: verified before a tick and matched after
  it, the code of an old step is taken for the present and accepted again, once
  (`ReplayedOnce`); in digits of another script it is accepted once in every step
  of its window. `_verify_totp_with_replay_guard` promises "Valid TOTP AND not a
  replay of an already-accepted time step"; see the hazard at
  `auth_service.py:612`. `GuessesAreBounded` needs count and burn under the lock.

What the failing runs show is listed with quotes under `findings` in
`PROJECT.json`:

1. `orders_workers`: a failure callback has read the order, a capture commits on
   the other worker, the failure commits: paid becomes failed and the unit is
   back on sale.
2. `orders_cancel_race`: reconciliation loads the order, the operator cancels,
   the provider answers paid: the stale row is not cancelled, so the order goes
   to `processing`.
3. `orders_lost_event`: the key is committed, the database fails, the
   redelivery is a duplicate.
4. `inventory_oversell`: two carts load stock 1, the second waits for the lock,
   gets it, and checks the 1 it has in its session.
5. `inventory_sweeps`: both sweeps read the row as held, both add its units.
6. `returns_refund_twice`: the gateway answers `refund_pending`, the return
   becomes `approved`, and a second request asks the gateway again: only
   `refunded` is turned away. Two requests around the await do the same.

### Bounds

One order is enough for the order runs: handlers only ever touch the rows of one
order; the theorems cover any number. Two deliveries are the least that race, and
so are two operators: `orders_webhook` has both. `orders_reconcile` has one of
each beside the reconciliation. `MaxFaults` is 1: a
second crash meets a state a single one can leave. `FulfilmentTargets` has
one representative of each kind of move: cancel, fail, process, move goods,
hand over; `ExchangeTargets` adds the exchange that starts an order over. In `Inventory`, two SKUs in opposite order are the smallest lock
cycle, quantity 2 against supply 2 the smallest competition for all units. The
third checkout is sent under the second one's key, from its cart, on the other
server: the second attempt of a customer who changed the cart in between. It
also competes with the first for the last units of a SKU and for the last
redemption of a code, on one server. One sweep and one callback, on the second server, are the
least that give one row back twice. A fourth checkout takes the liveness
properties of this run past five minutes.

In `returns` two items of equal price make a partial and a full refund; they cost
three cents each and the order five, so that a full refund exceeds the total by the
tolerance of one cent. Two returns and two requests are the least that share an
item or race. `MaxRefunds` is 1 in the passing run: a second refund of one return
is the finding of `returns_refund_twice`, where it is 2. `AdminTargets` are the moves that take a
delivered order out of, and into, the states a return may begin or end in. In
`imports` two attempts, one task retry and one kill let a job be claimed again,
exhausted and orphaned; with 3 attempts and 2 retries, the code's own numbers, all
properties hold as well (1,650,000 states, close to five minutes, so not among
the runs). In `mfa` three steps are the least that leave the window of validity
behind; `PlainSteps` and `WideSteps` let somebody present the code of the first step in
plain digits and that of the second in others, one of each being enough for what the
properties tell apart; two sets of recovery codes allow one renewal; one attempt for a mailed
code is the tightest limit.
Deadlock is not checked: requests are finite and the system may come to rest.

### Fairness

The event loop resumes a request that can go on (weak fairness of what no await
interrupts, strong fairness where another request can take the loop
in between). The sweep is scheduled by Celery beat. The gateway redelivers until
it is acknowledged, and its lookup does not fail for ever (strong fairness of
`Deliver` and `LookupConfirms`). PostgreSQL grants row locks in order of arrival
and detects deadlocks. For `imports`, requests and executions that have begun go
on (a row's processing ends because tasks have a time limit, so `Progress` is
not part of what is fair), Celery beat runs the sweep and time passes. No
fairness is assumed of customers, operators, faults or the gateway's decisions.

## 4. The proofs

`OrderPayment_proofs` proves from `OrderPaymentAssumption` alone, that is for
any set of orders and any numbers of workers, deliveries,
reconciliations, operators and faults:

| Theorem | States |
|---|---|
| `TypeCorrect` | `Spec => []TypeOK` |
| `EventAppliedOnce` | `Spec => []AppliedOnce` |
| `GoodsMoveOnlyWhenCaptured` | `Spec => []MovedGoodsAreCaptured` |

`TypeOK` is not inductive: a delivery writes the row of the order its event is
about, and the type of that row needs that the order exists and has a
transaction. `IInv` adds `Links`: an order has a row and a transaction exactly
as far as its checkout has come, an event was emitted for an invoice whose
checkout has ended, and every delivery, reconciliation and operator request is
about such an order.

`AppliedOnce` needs `KeyedOnce`: an event that a delivery applies, or has
applied, is in `seen`, and no two deliveries apply the same one; the uniqueness
of the key is all it takes, on any number of workers.

`MovedGoodsAreCaptured` needs that stale rows are harmless. `CapturedInv` says
that a paid card order has its invoice settled in full (or its demo transaction
paid), that this never becomes false again, and that a delivery, reconciliation
or operator request that is about to write a paid or moved row holds one for
which it is already true. So a write from a stale row may be out of date, but
never opens the gate for money that is not there. This holds with several
workers and with reconciliation, where `SettledForwardOnly` does not.

`OrderPayment_settled_proofs` proves, under an assumption it names, the four
properties that several workers or a reconciliation break:

| Theorem | States |
|---|---|
| `PaidOrdersHoldUnits` | `OneWorker => (Spec => []PaidHoldsUnit)` |
| `OrdersAreSales` | `OneWorker => (Spec => ImplementsSale)` |
| `SettledMoneyGoesForward` | `OneWorker => (Spec => SettledForwardOnly)` |
| `GoodsHandedOverArePaid` | `OneWorker => (Spec => []HandedOverIsPaid)` |

`OneWorker` is a single worker process and no reconciliation. `orders_workers`
shows that a second worker breaks `SettledForwardOnly`, the hazard at
`commerce_service.py:1703` what a reconciliation does. Operators may be any number
and make all moves. The last two are about the orders outside `early`: with one
operator and one worker TLC finds the cash order that is collected during its
checkout and ends `delivered` and `pending` when they are not excepted
(hazard at `commerce_service.py:626`).

None of these is inductive. `PayInv` is the strengthening:

- a delivery that is about to apply its event is alone past its last await and
  holds the payment the database has (`HookFresh`), which is what one event loop
  gives;
- a card order is not paid before its checkout has ended well, it holds its unit
  from then on as long as its payment stands, it holds none when the payment has
  failed, and a live one that is settled has its capture among the applied events
  (`CardOrder`). The last part is what keeps a capture from being applied to money
  that was given back: `AppliedOnce` forbids a second time;
- cash that is there while its checkout runs is that of an order in `early`
  (`CashPayment`), so the write of `Finish` reaches no other;
- a capture is only emitted for a checkout that ended well (`SentByDone`), and an
  operator captures only demo authorisations (`CaptureRelies`).

`PayInv` gives the first and the third theorem directly. For the refinement each
step is mapped to one of `Sale`: the end of a checkout opens no new deal or voids
one, a delivery settles, voids or comes to owe, the sweep's COMMIT is `Lapse` of
all the card orders it has read, an operator settles a demo authorisation, and
everything else stutters (`CheckoutSale`, `ApplySale`, `SweepSale`, `AdminSale`,
`SaleStutters`). `GoodsPaid` carries the checks of an operator's move to its
commit, because settled money only goes forward in between.

`Inventory_stock_proofs` is about counts. A set of rows stands for a set of units, so
that taking, giving back and disjoint unions of rows become facts about finite
sets (`UnitsAdd`, `UnitsSplit`, `UnitsOfOne`) that need no induction over data:

| Theorem | States |
|---|---|
| `StockTypeCorrect` | `Spec => []TypeOK` |
| `SoldOnceOnOneServer` | `Spec => []NoOversellOnOneServer` |

That `stock_level` stays a natural number needs that a line's quantity was
compared with the very object it is taken from, although that object may be
older than the row. `NoOversellOnOneServer` rests on `SoldInv`: for a SKU whose
buyers share a server, what a checkout remembers of the stock is at most what the
row has (`NotTooHigh`: sales do not interleave there, releases, callbacks and the
sweep only add), and the rows a checkout may still give back itself are held
(`StillHeld`). A row that is given back twice joins `again`. Overlapping sweeps
and callbacks are not excluded; the property is silent about a SKU once `again` has a
row of it, which is the damage `inventory_sweeps` shows.

The other modules have proofs of their own:

| Theorem | States | Rests on |
|---|---|---|
| `Inventory_proofs!KeyOrdersOnce` | `Spec => []OneOrderPerKey` | an order is only placed by `Reserve`, which the unique key guards |
| `Inventory_proofs!LimitsKept` | `Spec => []LimitsKeptOnOneServer` | at most one checkout of a server is between two awaits; one that has passed `ResolvePromo` still finds the allowance it saw |
| `Inventory_proofs!ReleasedRowsStay` | `Spec => ReleasedForGood` | a request whose rows a sweep may have read has ended, one that releases its own rows ends by it |
| `Returns_proofs!ReturnsTypeCorrect` | `Spec => []TypeOK` | requests only hold returns that were opened |
| `Returns_proofs!RefundsWithinTotal` | `Spec => []RecordedWithinTotal` | the sum a request carries over its await was within the total and the tolerance when it was computed, and so is the amount of every recorded callback |
| `Returns_proofs!RefundsAreBacked` | `Spec => []BooksAreBacked` | a carried sum plus its own amount is at most what the gateway has taken (`RequestOK`); what it has paid, or may still pay, it has taken (`TakenReturns`) |
| `Returns_proofs!FlagsHaveReturns` | `Spec => []FlaggedItemHasReturn` | flags are set with a return, and taken back with its rejection |
| `ImportJob_proofs!ImportTypeCorrect` | `Spec => []TypeOK` | an execution that will be retried is not the task's last; an execution exists only after the job does |
| `ImportJob_proofs!ImportedOnce` | `Spec => NoImportAfterCompletion` | once `done > 0` the file is gone, and `Parse` reads it |
| `Mfa_proofs!MfaTypeCorrect` | `Spec => []TypeOK` | |
| `Mfa_proofs!StepAcceptedOnce` | `Spec => []AcceptedOnce` | a step between comparison and record holds the lock and is above the marker; a recorded step is not, an accepted code is used or deleted |
| `Mfa_proofs!CodeAcceptedTwiceAtMost` | `Spec => []ReplayedOnce` | a code is accepted for its own step, which the marker then has reached, or for the present after its window is over, by the one request that verified it before |
| `Mfa_proofs!GuessesBounded` | `Spec => []GuessesAreBounded` | the codes a burn will count are below the limit as long as it holds the lock |

These assume only what each module states of its constants. They hold for any
numbers of requests, returns, workers, servers, steps, codes and faults.

Every safety invariant and action property of a passing run is stated by a
theorem. Only model-checked are the liveness properties `CaptureIsApplied`,
`HeldIsTransient`, `EveryCheckoutEnds`, `HeldIsReclaimed` and `JobEnds`, because
fairness and `ENABLED` are out of the prover's reach, and the properties of the
runs that expect a violation.

## 5. What is not modelled, and the plan

Next, in this order:

1. `CheckoutSession`: confirmation and conversion of a session, cart edits and
   the merging of carts. The checkout they call is in `Inventory`.
2. `create_exchange` and its reservation, which is never attached to an order
   and which the sweep takes after 30 minutes.
3. `TryOnJob` (cancel against a late completion), `Outbox` (send before COMMIT),
   `AdBilling` (budget at its limit), `AuditChain` (appends under an advisory
   lock, rolled-back batches).
4. The rest of authentication: two concurrent refreshes of one token both
   succeed, and a revocation misses a row a concurrent refresh inserts; password
   reset.

Seen while modelling and stated as hazards rather than properties: a full refund
of a `return_requested` order raises after the gateway has paid, and nothing is
recorded; a rejected return can still be refunded; two partial refunds of the same
amount share a deduplication key; a refund the gateway declines stays booked; cash
collected during a checkout is overwritten by its end; the confirmation of an enrolment loses its lock
before `mfa_enabled` is set, so two of them with codes of different steps both
mint recovery codes.

Left out for good: stylist, search, fit, wardrobe, reports and content safety
(computation and CRUD), media storage and GPU workers (I/O), rate limiting (a
third-party library), the frontend.
