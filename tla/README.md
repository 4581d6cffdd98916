# Order service: TLA+ models, checks and proofs

The repository is one service, `order-service` (FastAPI, SQLAlchemy over
PostgreSQL, SQS), with contracts, mocks and CI around it. Clients create an
order, edit it while it is a draft, confirm it, pay it and may cancel it; a
payment gateway reports its verdicts through a webhook; meanwhile clients read
orders, payments and pages of a customer's orders. The models here cover every
operation of the API, under concurrent requests, failures of the other services
and crashes. Paths below are relative to
`order-service/src/order_service/` unless they start with `docs/` or `tests/`.

## Inventory

| Component | State it keeps | Operations | What makes it correct |
|---|---|---|---|
| Order aggregate (`domain/entities/order.py`, `value_objects`, `services`) | status, items, total, payment attempts, version | add/remove item, confirm with prices, mark pending, approve, reject, cancel | transitions follow `VALID_TRANSITIONS`; prices fixed at confirmation; three rejections cancel |
| Repositories (`infrastructure/persistence/repositories.py`, `models.py`) | tables `orders`, `order_items`, `payments`; a session's identity map | `get_by_id`, `save`, `has_active_order`, `find_by_customer`, payment lookups | the version counts changes (ADR-005); one active order per customer |
| Idempotency store (`infrastructure/persistence/database.py`) | `idempotency_keys` | lookup first, INSERT last | a key stands for work that is done, a repetition has no effect (ADR-008) |
| Saga (`application/saga/`) | `saga_instances` | three records, two compensations | COMPLETED means confirmed |
| Use cases (`application/use_cases/order_use_cases.py`) | locals of a handler | create, add, remove, confirm, cancel, initiate, callback | PAID needs an approval; charged only when confirmed; refusals are rolled back; a success is in the tables when it is told, unless a crash or another request came between |
| Read use cases (same file, `domain/ports/repositories.py`) | none; a reader's statements see different moments | get order, get payment, list a customer's orders | an answer combines order, items and payment only in ways the writers' order of commits allows; a walk over the pages misses nothing |
| Outbox and SQS (`infrastructure/messaging/`) | `outbox_events`, the queue | `publish` | an event speaks of something that was committed |
| HTTP gateways (`infrastructure/http/gateways.py`) | none | customer, catalog, payment (3 tries on 503), notification | calls end; a charge that was accepted or whose answer was lost is not made again before a rejection (a charge behind an error answer may be) |
| Problem details (`presentation/problem_details.py`, `domain/exceptions`) | none | the HTTP status of each error | one request at a time, a 4xx answer left at most a saga row behind and a 503 at most the order row |
| Rest of `presentation/` | none | routing, JWT scopes, rate limits, middleware | not modelled |

How they interact: a request runs in a task of its own with a database session
of its own (`presentation/dependencies.py`). Its use case calls repositories,
gateways and the publisher one after the other, each call an `await`. Requests
meet only in the database, in the queue and at the payment gateway. The
gateway calls back with a verdict on a charge, any number of times, at any time.

What is hard, and is therefore what the properties are about: a handler is
several transactions, not one; the version check is a SELECT and a comparison
in Python, and the UPDATE does not repeat it; SQLAlchemy writes only the
columns that changed since they were loaded; `payments` has no version at all;
the payment is committed before its order (callback, cancel); a lost answer of
the gateway is not compensated, and an error answer is taken for a charge that
was not made; keys are recorded last; the outbox row is
committed after the message; a crash may fall between any two of these; a
reader's answer is put together from several snapshots, and the pages of a walk
from several requests.
`PROJECT.json` lists these hazards line by line with the properties that would
notice each of them going wrong.

## Modules

| Module | Models | Extends |
|---|---|---|
| `OrderDomain` | entities, guards, pricing, transition table: pure operators | |
| `OrderStore` | variables, tables, control flow of a request, order and payment repository | `OrderDomain` |
| `IdempotencyStore` | `SqlAlchemyIdempotencyStore` | `OrderStore` |
| `EventPublisher` | `OutboxEventPublisher`, `SqsEventPublisher`, notification | `IdempotencyStore` |
| `DraftUseCases` | create, add item, remove item | `EventPublisher` |
| `ConfirmSaga` | `ConfirmOrderUseCase`, `OrderSagaOrchestrator`, `saga_instances` | `EventPublisher` |
| `PaymentUseCases` | cancel, initiate payment, callback, payment gateway | `EventPublisher` |
| `OrderService` | composition: arrivals, answers, crashes, `Init`, `Next`, fairness | the three above |
| `OrderProperties` | type invariant, safety, action and liveness properties | `OrderService` |
| `OrderAnswers` | `problem_details.py`, and which tables a request in flight has written | `OrderProperties` |
| `OrderQueries` | `GetOrder`, `ListOrders`, `GetPayment`, `PaginatedResult`, and a client that follows `has_next`, beside the service | `OrderProperties` |
| `PaymentLedger` | abstract: the trail confirmed, taken, settled, paid, told | |
| `OrderLifecycle` | abstract: the life of an order, one atomic step per operation | `OrderDomain` |
| `OrderRefinement` | the mappings: the service implements both | `OrderProperties` |
| `MCOrders`, `MCAnswers`, `MCQueries` | instances for TLC; the `.cfg` files choose bounds and properties | `OrderRefinement`, and the two observers |
| `OrderInvariant`, `OrderWork`, `OrderSequence` | the inductive invariants `IndInv`; `IndWork` and `CountInv`; `IndSequence`, `CommitsJoin` and `IndTotal` | `OrderProperties`, each the one before |
| `OrderReading` | the inductive invariant of a read and of a walk, `IndReading` | `OrderQueries`, `OrderSequence` |
| `OrderProofs` | `TypeOK` and `IndInv` are inductive | `OrderInvariant` |
| `OrderWorkProofs` | `IndWork` is inductive | `OrderProofs`, `OrderWork` |
| `OrderLedgerProofs` | `CountInv` is inductive; the service implements `PaymentLedger` | `OrderWorkProofs`, `OrderRefinement` |
| `OrderSequenceProofs` | `IndSequence` is inductive, with one slot | `OrderWorkProofs`, `OrderSequence` |
| `OrderAtomicProofs` | with one slot the service implements `OrderLifecycle`; what errors leave behind | `OrderSequenceProofs`, `OrderRefinement`, `OrderAnswers` |
| `OrderTotalProofs` | sums of lines; `IndTotal` is inductive, with one slot | `OrderSequenceProofs` |
| `OrderReadingProofs` | `IndReading` is inductive beside one slot | `OrderTotalProofs`, `OrderReading` |
| `OrderLifecycleProofs` | the invariants of `OrderLifecycle` | `OrderLifecycle` |

### State

Tables are functions from order ids (`orders`, `payments`, `saga`; `order_id`
is unique in the last two) or sets of rows (`items`, `idem`, `outbox`). A row
that does not exist has the status `ABSENT`. A payment is named by its order,
since an order has at most one and rows are never deleted. `queue` counts the
messages in SQS, `charges` is the log of charges the gateway took, each
with the verdict it will report and whether an error answer hid it. For each slot `r` for a request in flight,
`pc[r]` is its next round trip, `req[r]` what the client asked for, and
`ord`, `base`, `cached`, `pay`, `sagaRow`, `stage`, `tries`, `prev`, `reply`
are the locals of the handler and of its session: the entity in hand, the
`OrderModel` that `save` compares with, whether that model is still in the
identity map, and so on. `commits` and `settled` are observers: they count
committed effects and log the callbacks whose verdict was committed; no action
reads them.

### Actions

One action is one round trip (a SQL statement, or a flush with its COMMIT, or
an HTTP call) together with the code up to the next `await`; that is where
asyncio lets another task run. A handler is the path of `pc` through them:

| Handler | Round trips in order (`pc`) |
|---|---|
| create | `customer`, `active_check`, `insert` |
| add item | `load`, `load_items`, `product`, `select`, `select_items`, `commit` |
| remove item | `load`, `load_items`, `remove`, `select`, `select_items`, `commit` |
| confirm | [`idem_get`], `load`, `load_items`, saga record, `validate_customer`, saga record, `prices`, `select`, `select_items`, `commit`, saga record, `send`, `outbox_commit`, `notify`, [`idem_save`] |
| cancel | `load`, `load_items`, `cancel_payment`, [`pay_select`, `pay_commit`], `cancel`, `select`, `select_items`, `commit`, `send`, `outbox_commit` |
| initiate | [`pay_by_key`, `idem_get`], `load`, `load_items`, `initiate`, `select`, `select_items`, `commit`, `gateway`, `pay_select`, `pay_commit`, `send`, `outbox_commit`, [`idem_save`]; after a refusal `load`, ..., `restore`, `select`, `select_items`, `commit` |
| callback | [`idem_get`], `pay_load`, `load`, `load_items`, `apply`, `pay_select`, `pay_commit`, `select`, `select_items`, `commit`, `send`, `outbox_commit`, `notify`, [`idem_save`] |

A saga record is `saga_select`, `saga_commit`; brackets are for requests with
an `Idempotency-Key`, or with a pending payment to void. Every path can end
early with the error the code raises there.

### The read side

`OrderQueries` adds a reader to the service. Its statements are actions of
their own (`SelectOrder`, `CountOrders`, `SelectPage`, `SelectItems`,
`SelectPayments`, `SelectPayment`), each evaluated on the tables of its moment,
between any two steps of a request that writes. `AfterRead` is the order in
which `GetOrderUseCase` and `ListOrdersUseCase` go through them: order, items,
payment. `Page`, `HasNext`, `TotalPages` and `PageSize` are the arithmetic of
`find_by_customer` and `PaginatedResult`. A client that walks begins with page 1
and asks for the next one as long as it is told that there is one. `born` is the
`created_at` of an order, which is taken before the INSERT; `Newer` is the number
of orders that `ORDER BY created_at DESC` puts before an order, so that OFFSET and
LIMIT are bounds on it and a page is the set of orders between them. The rows of an
answer are a function from order id to what is shown. Reading changes no variable
of the service, so everything shown about `Spec` holds beside readers.

The invariants say what an answer may combine. A payment newer than its order
may be shown (a callback between the two snapshots), an order newer than its
payment may not: an answer that says PAID shows the approval, one that says
CANCELLED shows no payment still awaited. The reason is that the writers commit
the payment first and the readers select it last. A walk misses no order that
existed when it began unless an order was inserted between `count(*)` and the
page of its last request; `WalkMissesNothing` names this exception, and without
it TLC finds the walk that ends one order early.

### Answers

`OrderAnswers` adds the map from error codes to HTTP statuses and a history
variable `wrote`: the tables each request in flight has changed. It compares
what a client is told with what was done. The handlers raise most of their
errors before the first commit, but not by construction: `cancel` commits the
VOID of a payment before `Order.cancel` can refuse. A confirm is the exception:
its saga row is committed before its 409 and its 422, and a second confirm of a
confirmed order sets a COMPLETED saga back to RUNNING
(`ClientErrorLeavesSagaOnly`).

A success is compared with the tables by `SuccessIsInTables`, one request at a
time. It does not say more than the code keeps. A callback that finds the payment
decided answers 200 whatever the order says, and after a crash between its
payment and its order (`order_use_cases.py:378-379`) the order still waits. An
`initiate` that is answered from a key may speak of another order's payment.
Between overlapping requests another request may have overwritten what was
committed; what is left there is `AnsweredIsAnnounced`: a request that did its
work has its event in the outbox before it answers.

### The environment

What the model assumes of the world outside the repository:

* *Payment gateway.* A call is answered 200 with a charge taken; or its answer
  is lost (a timeout, JSON that does not parse, a missing field), with or
  without a charge; or it ends in a status that is not 200. The code takes every
  such status for "not charged" and repeats the POST after a 503, though the POST
  carries no key and a gateway that failed late may hold the charge
  (`gateways.py:88-110`). `HiddenCharge` is that case: each error answer may hide
  a charge, up to `MaxHidden` for an order (a bound of the model; the theorems
  are for any). What is promised of charges is therefore about the ones that no
  error answer hid (`Undenied`): `ChargeAgainOnlyAfterRejectionOrError`. Nothing
  prevents a second charge after an error, and no property says so.
* *Webhook.* A callback carries the gateway's own verdict on one of its charges,
  names the payment of that order, and may come late, in any order and any number
  of times. The handler takes every status but `APPROVED` for a rejection
  (`order_use_cases.py:369-376`), so one value stands for all of those. A
  rejection that was delivered twice and applied twice counts as two
  (`Rejections`), for the code cannot tell them apart.
* *Customer, catalog and notification services* answer or fail in any way, at
  every call.
* *Time.* `created_at` differs between orders of a customer: `ORDER BY created_at`
  has no second key, and the timestamps have microseconds.

### The two abstract specifications

`PaymentLedger` has five growing sets. The mapping (`OrderRefinement`) reads them
off the observers, the gateway's log and the queue: `confirmed` are orders with a
committed confirmation, `taken` and `settled` are the entries of `charges` and
of `settled`, `paid` are orders with a committed approval, `told` those with a
PAYMENT_APPROVED message. The abstract guards (a charge only for a confirmed order, a
verdict only on a charge taken, paid only with an approval, told only when paid)
are nowhere tested by the code as such; they hold through what handlers
loaded many steps before, and under every interleaving. `MoneyTrailKept` is
checked in both race runs and proved.

`OrderLifecycle` has the status, the attempts and the payment of an order, and
one step per operation that changes them together. The service needs up to
two transactions for a step, so the mapping places it at the last of them: while
`initiate` is between its first save and the payment, or is compensating, the
status shown is the one it found (`Initiating`, `prev`); while `callback` or
`cancel` has saved the payment and not yet the order, the payment shown is
still PENDING (`Settling`). A lost answer of the gateway is the step
`LosePayment`. `BehavesAtomically` is checked for one request at a time, where it
covers retries, compensation, early returns and all failures of other services.
In `LiveSequence` there is no crash: one between the two commits of a callback or
a cancel leaves the two tables apart for good, as the hazards say. It is the only
place where a crash does so: under `UntornSpec`, which excludes just that, the
refinement is proved, and a crash of `initiate` is in effect a `LosePayment`.

### What the model takes from the libraries

These are facts about SQLAlchemy, asyncpg and PostgreSQL that the code relies
on or runs into; each is named in a comment where it is used.

* READ COMMITTED: every statement has its own snapshot. `selectinload` is a
  second statement, so row and items may be of two moments.
* `expire_on_commit=False`: a SELECT that finds its model in the identity map
  does not refresh it. The map is weak; a saved order stays in it, because order
  and items refer to each other, until the cycle is collected. So a second load
  in one session sees the database or the old model, and the model allows both.
* The flush updates changed columns only. A total that is not exact in binary
  always counts as changed (`Decimal` against `float`).
* An item whose id was loaded becomes an UPDATE. An UPDATE that matches no row
  is noticed only when it is the only one of its flush.
* The UPDATE of `orders` takes the row lock until COMMIT, so flush and COMMIT
  are one action.
* One process serves requests (`scripts/entrypoint.sh` starts one uvicorn).
  `send_message` of boto3 blocks the event loop; the model lets other requests
  run there all the same, which is what several processes would do.

## Runs

Given orders have one item; their starting rows are those that create, add,
confirm and, for `PAYMENT_FAILED`, two rejected payments leave behind. Runs use
`MCOrders` except where another module is named.

| Run | Bounds | Shows |
|---|---|---|
| `DraftSequence` (`MCAnswers`) | 1 slot, 2 orders of one customer, 2 products, 3 item ids, prices 5.00, 9.90 and -1.00, 6 requests, 1 crash | one active order, totals match items, versions count changes, transitions follow the table, an error of the client leaves at most a saga row |
| `PaymentSequence` (`MCAnswers`) | 1 slot, 1 confirmed order, 6 requests, 1 crash, 1 hidden charge | no further charge before a rejection or an error, a charge can always be recorded, attempts count rejections, a pending payment is awaited, a refusal restores the order and opens nothing, a 4xx answer changed nothing (no confirm in this run), a success is in the tables, transitions follow the table, approval is final |
| `PaymentRace` | 2 slots, 1 confirmed order, 1 key, 3 requests, 1 crash | PAID only after approval; events, payments and keys follow what was committed; an answer leaves its event; the money trail |
| `DraftRace` | 2 slots, 1 draft, 1 key, 3 requests | charges and completed sagas only for confirmed orders; events, keys, answers and the trail as above |
| `ReadRace` (`MCQueries`) | 1 slot and 1 reader, 1 draft and 1 further order, pages of 1 and 2, 3 requests, 1 read or walk, 1 crash, 1 hidden charge | what an answer may combine; what a walk sees |
| `LiveSequence` | 1 slot, 1 confirmed order, 7 requests, fair | a refused payment releases its order; an approval reaches it; operations are in effect atomic up to the third rejection |
| `LiveRace` | 2 slots, 2 orders (one with two rejections), all operations, 2 requests, 1 crash, fair | every request ends; the type invariant |
| `LostUpdate`, `TwoActiveOrders`, `DoubleCharge`, `RepeatedVerdict`, `ConflictRetry` | 2 or 3 requests of the kind concerned (`RepeatedVerdict`: 4, one at a time) | counterexamples, see Findings |

Why these bounds. Two requests suffice for the races found: each needs one
request that reads and one that commits in between. Three requests over two
slots add a request that starts after one of the first two has ended. Six sequential
requests are three rejected payments (initiate and callback each), and seven
one request more; a crash may fall between any two steps of any of them, and the
requests after it repeat what it cut off. One hidden charge is enough to be
followed by a retry, a compensation and a second attempt. Three item ids let an item be removed and another take its place. One
product more than one order needs lets totals tell products apart. Three
requests beside a reader are a confirmation, a payment and its verdict (or a
cancellation), or a cancellation and a new order of the customer; one read is
enough, since an answer depends on nothing but the tables. `MaxRequests`,
`MaxCrashes` and `MaxHidden` (0 where the table names no hidden charge) are bounds of the model, not of the program; `Ops` selects the
operations an instance exercises. Slots are interchangeable, so the race runs
use symmetry; runs with liveness do not.

Properties of the one-slot runs hold only there: with overlapping requests the
lost update breaks most of them, which is what the counterexample runs show for
the ones that the documents promise.

`ApprovalReachesOrder` and `RefusedOrderReleased` are checked without crashes:
nothing in the code resumes a handler that died, so neither holds after one.

Fairness: `WF(Serve(r))` for each slot. The event loop resumes a task whose
round trip is over; round trips end because `httpx` has a timeout of 10 s and
no transaction holds a lock while it waits for another one. Arrivals, crashes
and the verdict of the gateway are not fair: nothing obliges them to happen.

### Findings

| Run | Documented | What the code does |
|---|---|---|
| `LostUpdate` | ADR-005: version incremented at each mutation, conflict answered 409 | two saves pass the check together; both commit, the version counts one |
| `TwoActiveOrders` | same file: not more than one active order | two creations both find none |
| `DoubleCharge` | ADR-008: repeated clicks do not duplicate effects | two clicks with one key reach the gateway twice |
| `RepeatedVerdict` | ADR-008: the webhook is idempotent | a callback that failed at its notification is applied again to the next charge |
| `ConflictRetry` | ADR-005: a client may retry after a conflict | a callback that ended in a conflict has approved the payment already; repeated, it returns at once and the order stays CANCELLED |

Three consequences are worth knowing though no run is spent on them. The lost
update also lets a request that loaded a draft write its DRAFT over a
confirmation that took the same version number. And `initiate` returns the
payment found by its key before it compares the hash, so a key used for another
order is answered with the first order's payment, where ADR-008 promises a 409.
A gateway that charges and then answers with an error is asked again, by the retry
or by the client's next attempt, and nothing ever compares the two charges.

## Proofs

For all values of the constants that satisfy `StoreAssumption` and
`ServiceAssumption` (any finite set of slots, any sets of orders, customers,
products, prices, items and keys; any bounds) the following are proved:

| Module | Theorem | States |
|---|---|---|
| `OrderProofs` | `Invariance` | `Spec => []IndInv` |
| | `TypeCorrect` | `Spec => []TypeOK` |
| | `PaidWasApproved` | `Spec => []PaidOnlyAfterApproval` |
| | `ChargedWasConfirmed` | `Spec => []ChargedOnlyIfConfirmed` |
| | `CompletedWasConfirmed` | `Spec => []SagaCompletedIfConfirmed` |
| `OrderWorkProofs` | `WorkInvariance` | `Spec => []IndWork` |
| | `AnswersWereAnnounced` | `Spec => []AnsweredIsAnnounced` |
| | `KeysStandForWork` | `Spec => []KeyRecordedAfterEffect` |
| `OrderLedgerProofs` | `CountInvariance` | `Spec => []CountInv` |
| | `EventsWereCommitted` | `Spec => []EventsFollowCommits` |
| | `PaymentsWereCharged` | `Spec => []PaymentBackedByCharge` |
| | `MoneyTrail` | `Spec => MoneyTrailKept`, the refinement of `PaymentLedger` |
| | `ToldWasBacked` | `Spec => []Ledger!ToldIsBacked` |

These are about any number of overlapping requests. The next ones have the
hypothesis `OneAtATime`, that there is one slot, and no other but those named:

| Module | Theorem | States |
|---|---|---|
| `OrderSequenceProofs` | `SequenceInvariance` | `Spec => []IndSequence` |
| | `PendingWasAwaited` | `Spec => []PendingPaymentIsAwaited` |
| | `ChargeWasRecordable` | `Spec => []ChargeCanBeRecorded` |
| | `ChargedAgainAfterRejectionOrError` | `Spec => []ChargeAgainOnlyAfterRejectionOrError` |
| | `AttemptsWereRejections` | `Spec => []AttemptsCountRejections` |
| | `RefusalRestored` | `Spec => []RefusalRestoresOrder` |
| | `SuccessWasStored` | `Spec => []SuccessIsInTables` |
| | `OneActive` | `Spec => []OneActiveOrder`, given `OneGivenPerCustomer` |
| | `VersionsCountChanges` | `Spec => VersionCountsChanges` |
| | `StatusFollowed` | `Spec => StatusFollowsTable` |
| | `ApprovalStays` | `Spec => ApprovalIsFinal` |
| `OrderAtomicProofs` | `ServiceIsAtomic` | `UntornSpec => BehavesAtomically`, the refinement of `OrderLifecycle` |
| | `UncrashedIsAtomic` | `Spec => BehavesAtomically`, given `MaxCrashes = 0` |
| | `ServiceAgrees` | `UntornSpec => []Lifecycle!AgreementInv` |
| | `AnswerInvariance` | `AnswerSpec => []AnswersInv` |
| | `ErrorsLeaveSagaOnly` | `AnswerSpec => []ClientErrorLeavesSagaOnly` |
| | `RefusalsOpenNothing` | `AnswerSpec => []RefusalOpensNothing` |
| `OrderTotalProofs` | `TotalsMatch` | `Spec => []TotalMatchesItems` |
| `OrderReadingProofs` | `ReadingInvariance` | `QuerySpec => [](IndAll /\ IndReading)` |
| | `PaidWasShownApproved` | `QuerySpec => []PaidShownWithApproval` |
| | `CancelledWasShownSettled` | `QuerySpec => []CancelledShownWithoutPending` |
| | `ShownTotalsMatch` | `QuerySpec => []ShownTotalMatchesItems` |
| | `WalksMissNothing` | `QuerySpec => []WalkMissesNothing` |
| | `WalksRepeatNothing` | `QuerySpec => []WalkRepeatsNothing` |

So every safety and action property of the runs that pass is proved, the two
refinements included. `OneAtATime` is not a convenience: with two slots the lost
update falsifies most of these, and the runs `LostUpdate`, `TwoActiveOrders` and
`ConflictRetry` show it for three of them. Crashes, failures of the other services,
early returns, retries and redelivered callbacks are all included; readers are
concurrent with the one request that writes. `QueriesAssumption` adds that orders
are finitely many, so that `count(*)` is a number, and that a page has 1 to 100 rows.

**First layer, `IndInv`.** These properties are not inductive:
`SaveCommit` writes the status of an entity that was loaded many steps ago, and
whether it may say PAID depends on what the handler has seen since. `IndInv`
therefore says what a request knows at each `await` (`SessionInv`, in
`OrderInvariant`):

* it is on the path of its handler (`RequestOK`), and an idle slot holds
  nothing (`IdleOK`);
* the payment in hand is the one of its order (`PaymentOK`); without this the
  verdict could be committed to another order;
* an order it holds as confirmed was confirmed, unless this request is the
  confirm about to commit (`ConfirmationSeen`); likewise for PAID and the
  callback (`ApprovalSeen`);
* the saga record it is about to write is of a phase before the confirmation, or
  the confirmation was committed (`SagaPhase`);

and of the tables, that confirmed statuses have a committed confirmation.

The argument has two halves. *Nothing is taken back*: committed
confirmations, approvals and the gateway's verdicts only accumulate (`Grows`,
`NextGrows`), and a step of one request does not touch the session of another
(`Others`), so what the others know stays true (`OthersKept`). *Own step*: each
of the 36 actions is taken in turn for each part of `SessionInv`
and for the tables (`OrderCommitTables`,
`SagaCommitTables`, `ChargeTables`; every other action leaves them alone).
The first part of `OrderProofs` does the same for `TypeOK`, with lemmas for the
operators of `OrderDomain`.

**Second layer, `IndWork`** (in `OrderWork`). What a request has *done* by each
`await`: its effect is committed before it sends, its outbox row is there before
it notifies or records its key, a callback's verdict is settled before the order
is saved (`WorkDone`), the phases that fail have chosen their answer
(`PhaseKnown`), and from the outbox commit to the answer the row of the
request's event is there (`Announced`). The tables know that messages, payments,
approvals and verdicts were committed first (`CommitsFirst`), and that a row that
says published has its message (`PublishedSent`). The proof is
organised as above, with `IndInv` as a hypothesis; `Writers` names the few
actions that change each observer.

**Third layer, `CountInv`.** `EventsFollowCommits` compares numbers, and "every
message was committed" is too weak for it: two requests could announce one
commit. `CountInv` counts, for each order and event, the messages sent *and* the
requests that still owe one (`Owing`): together they never outnumber the
commits. Likewise payments opened and being opened (`Openings`) against charges. A
step moves one request into or out of these sets (`DifferByOne`, `CountStep`,
which is where `Requests` must be finite), and `RepositoryOwes`,
`UseCaseOwes` and `EdgesOwe` say which.

**Refinement.** `OrderLedgerProofs` maps each step of the service to a step of
`PaymentLedger` or a stutter: the commit of an order to `Confirm` or `Pay`, a
charge to `Take`, the commit of a payment to `Settle`, a message to `Tell`, and
everything else is `Unseen`. `IndInv` supplies the guards of `Take` and
`Settle`, `IndWork` those of `Pay` and `Tell`.

**One request at a time, `IndSequence`** (in `OrderSequence`). A crash may have left
any handler's work half done, so the tables are not simply in one of the states
between two handlers. `SequenceTables` says which pairs of statuses an order and its
payment can be in all the same (`OrdersWith`), and that no charge is undecided before
the order waits for it (`NoChargeBefore`), where charges behind an error answer do
not count (`AllRejected`). `HandlerOK` says that the handler holds the
truth: `Reading`, the entity is the order as stored; `Changing`, it is the one
change the handler decided on (`Change`), applied to the order as stored; and its
base model, its payment and its cached model are the stored ones. So every
write of a handler is its `Change`, which is what the action properties are read off
(`ChangeMade`, `SavedOrder`); a save can fail neither its version check nor its flush.
The compensation of a refused payment works on the stored order although it
may take it from the identity map, because nobody else has written. The proof
goes action by action for each part of `HandlerOK`; the other orders need no
argument, since one slot has one order.

**Successes.** `WorkStored` adds what the tables hold from a handler's last commit of
order and payment up to its answer (`RequestStored`, one conjunct per handler): with
one slot nobody else writes in between, so it survives the send, the outbox commit,
the notification and the key, and at the answer it is `SuccessIsInTables`.

**In effect atomic.** `OrderAtomicProofs` proves `CommitsJoin` first: between two
commits that belong together nothing can end a handler except its next commit,
a lost answer, or a crash; `initiate` either opens the payment or compensates, and a
callback that has saved the payment finds the order still waiting. Each step is then
an operation of `OrderLifecycle` on one order, or is not seen (`OperationOf`,
`AlikeStutters`). `CrashSeen` shows that a crash of `initiate` maps to `LosePayment`.

**Answers.** `AnswersInv` bounds `wrote` at each await: nothing before the last check
that can end in a client's error (`Early`), at most the order row while a refusal is
possible (`Refusable`), and the saga row of a confirm at any time (`Excused`). That no such check comes later rests on `IndSequence`: the
version check of a later save cannot fail, and `Order.cancel` cannot refuse once the
payment is void.

**Totals.** `IndTotal` says that a draft has no prices and that what a confirm is
about to save is priced and adds up (`HeldTotal`). That the fold of `CalculateTotal`
is the sum whatever order it takes the items in is an induction on their number. It
is done with a set of numbers in place of the predicate (`SetInduction`): the
partial sums over the subsets of a set (`PartSums`) exist, are unique, and determine
the total (`LineTotalSums`).

**Readers, `IndReading`** (in `OrderReading`). `RowStands`: what was shown of an order
that is PAID, CANCELLED or confirmed is still so, because no step of the service takes
it back (`OrdersStand`); a payment selected later is then at least as far
(`PaymentFits`, from `PaymentsFit`). `WalkOK`: an order that existed when the walk began
and was not seen yet is on the next page or behind it, since an insert can only move
it back (`PagesStand`); when the page is the last one by a count that still holds,
nothing is behind it (`LastPage`).

Every invariant was checked by TLC on the instances of the runs before it was proved,
and `BehavesAtomically` under `UntornSpec` on the one of `PaymentSequence`. `OrderLifecycleProofs` holds
the lemma `LifeAgrees` on `OrderLifecycle` itself, which `ServiceAgrees` rests on.

Only model-checked: `EveryRequestEnds`, `RefusedOrderReleased` and
`ApprovalReachesOrder`, which are liveness under fairness and out of the prover's
reach; and the violations in Findings, which are counterexamples.

## Not modelled

* Two readers, or a reader beside overlapping writers: a reader disturbs nobody, and
  what it can be shown of a lost update is what the tables hold.
* Quantities other than one per add: a second add of the same product raises
  the quantity. Validation of bodies happens before a handler starts.
* Authentication, scopes, rate limits, middleware, logging, metrics, tracing, the
  text of errors: they decide whether a handler starts or how its answer looks.
* Migrations, configuration, start-up, CI, contracts, WireMock stubs.
* Consumers of the queues: the repository has none.
* Losing the database, or a COMMIT whose answer is lost.

## Plan

Done: the domain, the repositories, the key store, the publisher, the seven
handlers that write, the three that read, their composition, the two abstract
specifications, and the proofs above. Left:

1. Overlapping requests: which of the one-slot properties survive when the requests
   concern different orders, or when the version is compared in the UPDATE.
2. Readers beside two writers, with the lost update named as the exception.
3. A model of a relay for unpublished outbox rows, should the repository get one.
