# A verification project for pos-backend

TLA+ modules, TLC runs and TLAPS proofs about the backend of a multi-tenant restaurant
POS (FastAPI, SQLAlchemy over PostgreSQL with one schema per tenant, Redis). The source
is `src/app`; paths below are relative to it. `PROJECT.json` maps every definition to
the lines it models, names every run, mutant and theorem, and lists the hazards the
properties are for.

## 1. The system

### Components

| Component | State | Operations | What makes it correct |
|---|---|---|---|
| Orders (`api/v1/orders`) | `customer_orders.status/version`, `order_items.estado_cocina`, `order_payment_attempts` | create, consolidate, add, transition, ready, void/replace, block, pay, confirm, checkout-and-send, approve, confirm-cash, reject, cancel | a line is charged once or dropped; stock follows the status; attempts and orders agree; terminal is final |
| Cart (`api/v1/cart`) | carts and their items, a diner's session | open session, add/update/remove, submit, new attempt, receipt, cancel own order, leave | one active order per diner; what is shown is charged |
| Table sessions (`api/v1/table_sessions`) | `table_sessions`, `session_participants`, tables | participants, assignments, merge, close (unified or split), release | an account charges each unit once; no live order in a closed session |
| Sales (`api/v1/sales`) | `sales`, `sale_items`, `payments`, payment methods | `build_sale`, method settings | totals add up; at least one active method |
| Inventory (`inventory_engine`, `api/v1/inventory`) | `inventory_items.current_stock`, kardex, purchases | deduct, reverse, adjust, purchase, receive | stock is the sum of the kardex |
| Catalog engine (`catalog_engine`) | recipes, options | price, selection and consumption of a line | what is served is poured; what is returned is what was deducted |
| Catalog (`api/v1/catalog`, `products`, `menu`) | variants, groups, options | save a product, edit groups, public menu | what is offered can be sold |
| Promotions (`api/v1/promotions`) | promotions, their rules and variant sets | create, edit, activate, duplicate, expire, evaluate | one rule per variant at an instant; discounts add up |
| Cash and invoices (`api/v1/cash`, `api/v1/invoices`) | shifts, movements, counters | open, sell, move, close, reconcile, next number | the drawer adds up; numbers unique and without holes |
| Tenants and users (`core/plan_limits.py`, `invitations`, `users`, `super_admin`) | users, invitations, plans | invite, resend, take up, demote, switch off, change plan | within the plan; somebody can administer |
| Credentials (`api/v1/auth`) | password, reset links, the cut, the blocklist | login, refresh, logout, change, reset | a link once; sessions older than a change of password end, newer ones hold; what was logged out stays out |
| Realtime (`core/events.py`, `core/event_bus.py`, `api/v1/realtime`) | a Redis stream per tenant, a reader per process, a queue per connection, slots | publish, subscribe, replay, fan out, linger | no silent hole; in order; pages end up right |
| Notifications (`core/notifications`) | notices, preferences, devices | dispatch, recover, purge | a failed channel keeps nothing from the others |
| Scheduler and limits (`core/scheduler.py`, `core/rate_limit.py`) | Redis keys with a life | sweep, expire, purge; count and turn away | what is overdue is done; what is full has room again |
| Images (`core/asset_refs.py`, `core/storage.py`) | references in rows, files in R2 | replace, delete, migrate, reconcile | no reference without its file |
| Audit, reports, infrastructure, migrations | their tables | write-only, read-only | little |

### How they interact

Every request is one database session and, nearly always, one transaction under READ
COMMITTED (`core/db.py`, autoflush off). Components meet through rows: the diner's cart
becomes an order; the kitchen moves its lines; billing (six doors: `pay_order`,
`checkout_and_send`, `approve_payment_attempt`, `confirm_cash_payment_attempt`,
`close_session` unified and split) builds a sale from them, in the open cash shift, at the
prices of the promotions of the order's instant; confirming or cancelling moves the stock
by the recipes and options of the lines. After the commit an event is published to the
tenant's Redis stream and each process fans it out to its browsers; a notice is stored and
handed to the channels.

### What is hard here

* **Interleavings.** Some handlers read with `SELECT ... FOR UPDATE`, others do not, and
  the ORM writes blindly what it decided from its reads. Only one handler in two is
  protected from the others.
* **Sequences.** Six ways of charging, two moments at which stock is taken, lines added,
  voided, shared out and replaced in between; promotions, groups and variants edited in any
  order while they are on sale.
* **Two computations of one thing.** A cart's total and the charge, the menu's price and the
  charge, the menu's availability and the refusal, a report's cost and the consumption.
* **Partial failure.** An ingredient short at the end must undo the sale and the attempt; a
  process dies between a commit and its event, or between a mail and its row.
* **Ordering and loss.** The event stream is trimmed, its reader restarts, the replay and
  the live queue overlap, queues fill up.

`PROJECT.json` lists these hazards one by one, at the line where they bite.

## 2. Modules

| Module | What it is |
|---|---|
| `OrderLifecycle` | Orders, lines, attempts, sales and stock. One action per handler, each handler one transaction. |
| `LineSettlement`, `OrderSettlement` | The abstract specification of a line (owed, then charged once or dropped, for good), and the refinement mapping from `OrderLifecycle` to it. |
| `OrderTransactions` | The same handlers as interleaved transactions: reads, row locks, commit, refusal, crash. EXTENDS `OrderLifecycle` and reuses its `XReads` and `XWrites`. |
| `TableSessions` | The account of a table: sessions, diners, tables, and the orders as a session sees them. |
| `Account` | The same account in pesos: carts, orders, assignments, merged bills, the six charges, with `PromotionEngine`. |
| `EventBus` | The stream of one tenant, the reader of one process, its SSE connections. |
| `OrderFeed` | What handlers commit and then publish, and the pages that hear it and refetch with an ETag. |
| `Notices` | Notifications: dispatch to channels, recovery of an absent page, purge. |
| `Quotas`, `Scheduler` | What Redis counts and locks: windows, slots, the jobs' locks, the round over tenants. |
| `Inventory`, `Consumption` | Stock and its kardex under overlapping requests; what a line consumes (pure operators). |
| `CashDesk` | Shifts, sales, movements, invoice numbers, turns. |
| `Tenancy`, `Credentials`, `PaymentMethods`, `Assets` | Seats and plans; one account's password and tokens; one payment method and its catalog entry; images and their files. |
| `Promotions`, `PromotionEngine` | The life of promotions and their guards; the engine that groups and discounts (pure operators). |
| `Catalog`, `OptionGroups`, `Menu` | A product's variants; groups, options and selections; what menu and reports foresee (extends `OptionGroups`). |
| `BackOffice`, `Shop`, `Alerts` | Components that share no row, put side by side with their properties: `CashDesk`, `Tenancy`, `Assets`, `Credentials` and `PaymentMethods`; `Promotions` with `Catalog` and `OptionGroups`; `EventBus` with `Notices`. |
| `XProofs` | The theorems about `X` (`OrderLifecycle`, `OrderTransactions`, `TableSessions`, `EventBus` with `Alerts`, `OrderFeed`, `Inventory`, `Shop`, `BackOffice`). |
| `MCX` | Small instances for TLC. |

An operator named `X_Variant` is `X` with a plausible bug. No action uses it; put in the
place of `X` it must make a run fail (section 7).

**Composition by disjoint parts.** `MCBackOffice`, `MCShop`, `MCLive` and `MCEventBus` check
several components in one run. The parts share no variable, so their product would add states
and no behaviour; a variable `part`, chosen at the start, says which one moves, and the rest
stays as it began. `BackOffice`, `Shop` and `Alerts` declare the constants and variables of their
parts, instantiate each (`T == INSTANCE Tenancy WITH ...`) and give its properties a name, so that
the run and the theorem speak of one formula; the MC module extends them and adds only values.

**`Alone`.** Several modules take a set `Alone` of kinds of request that overlap no other.
The code does not lock what those read, and overlapping they do break the property; section 5
lists each with what it breaks. With the kind removed from `Alone`, TLC shows it.

### OrderLifecycle and the code

* `order[o]` is a `customer_orders` row: `status` (plus `ausente`: not inserted), the
  optimistic `version`, `diner` (it has a `participant_id`), `pooled`
  (`is_consolidation_order`). `line[l]` is an `order_items` row, `attempt[a]` an
  `order_payment_attempts` row. `billed[l]` counts the `sale_items` built from a line
  and `saleOf[o]` the `sales` that name an order: a split or multi-order account names
  none, so both are needed. `stock`, `taken`, `returned` are `current_stock` and what
  the kardex says of each line.
* Guards are the handlers' early returns; a rejected request rolls back and is a
  stuttering step. `MoveStock` fails when an ingredient is short, and with it the action.
* `ConfirmedBy` reproduces `scalar_one_or_none`: with two confirmed attempts the handler
  raises. `OldLine`/`OldAttempt` give initial states that exist in a migrated database:
  an order still `recibida` whose attempt is already `confirmado`.
* Abstracted: amounts (they are in `Account`; a billing handler succeeds when the payments
  cover the total: the client's choice), quantities (one unit per ingredient of the recipe),
  names, audit rows, the cart, the table. `CloseSession` may take any set of billable orders.
* `pay_order`, `close_session`, `cancel_order` and `pagada` do not bump the version,
  `block`, `confirm`, and the fused handlers do (once, in `_deduct_and_open`).

### OrderTransactions and the code

`tx[r]` is a request: its handler, its step (`read`, or `locked` once it holds its
order's row), and what it read. A handler is `BeginX` (its reads), for an approval
`LockOrder` in between, and `CommitX` (its writes). Locks are derived: the order is
locked by requests in step `locked`, an attempt by the approvals and rejections that
read it. An `UPDATE`, and an insertion that references the row (its foreign key), wait for
the lock, and then write **without looking again**, which is READ COMMITTED. `Refuse` is
the handler's own rollback, `Crash` the loss of the request.

Inventory rows are locked only at the end of a transaction and in the order of their ids,
so their locks are part of the commit. The reads of one handler are one step: the
interleavings in which a handler's own reads disagree with each other are left out, so
what `tx_orphan` finds does not depend on them.

### TableSessions and the code

* `session[s]`, `diner[d]`, `table[t]` are rows of `table_sessions`, `session_participants`
  and `dining_tables`; `qr` tells the diner who scanned (and has a token) from the name a
  cashier put on the bill. `order[o]` has what sessions look at: its session, its table (two
  columns, and they may disagree), its diner, its channel, and `cooking`: some line is
  unfinished. `abierta` stands for `bloqueada` too: no handler here tells them apart but
  `get_or_create_open_order`, which may therefore pass over a pooled order. That a sale
  naming an order makes it `pagada` is `OrderLifecycle`'s to say, so `has_billable_orders`
  is the status only.
* `open_session`, `submit_cart` and `create_order` look for the session, the live orders
  and the table's status without locks, and insert later: `BeginX` fills `req[r]`,
  `CommitX` inserts and checks only what a partial unique index checks (`Seated`: one
  active session per table; `OneMore`: one live order per diner). `GiveUp` is the failed
  insertion, or the crash. `cancel_my_order` commits its cancellation before it tries to
  release the table: two actions again. A request keeps the session it read, which may be
  closed by the time it inserts.
* `Empty`, `Billable`, `Closable`, `LiveOn` are the four different tests of "nothing is
  left" that the six closers use; `Shut` is `close_table_sessions` (it closes **every**
  active session of the table, found by table and not by id) with `CloseDiners`.
* Abstracted: the lines of the carts, and time: a token or a session may be found expired at
  any moment (`AbandonExpired`; `Sweep` takes any active session). The closers, the other
  handlers of an order, `consolidate_table` and `add_participant` are one action each.

### EventBus, OrderFeed and the code

The id of an entry is its position. `reader`/`lastId`/`from` are `_read_loop`: `lastId`
is its local variable (`Latest` for `"$"`), `from` what Redis understood when it got the
XREAD. A connection is `away`, then `replay` (subscribed, generator not past its replay),
then `loop`/`waiting`. `maxSent` is the generator's variable, `lastEvent` the browser's
Last-Event-ID. `known` is what the page knows: by frames, or because it loaded its data
over REST (when it connects with nothing to resume from, and after a `resync`: the
client's part of the contract, external to this repository). The asyncio lock of the bus
is never held over an await, so `subscribe`, `unsubscribe` and the end of the linger are
single steps. `MAXLEN ~` trims when it likes, never below the limit. `history`'s two
XRANGEs are one step. `publish` swallows Redis errors: an event that was never added is
not in the stream and no property speaks of it.

In `OrderFeed` a handler is a list of steps (`Plan`): its commit and then what it says, each
event built from the row as it is read again at that moment. A request may die before any
step. A screen hears an entry, jumps to the end of the stream, or polls its list, whose ETag
is a function of the whole page.

### The other modules and the code

* `Account`: `cart`, `order`, `line` (with `asked`, what the diner sent, and `root`, the line a
  share was cloned from), `sale`, `period`. `RulesAt[period]` are the rules in force; an order
  keeps the period it was sent in (`promotion_evaluated_at`), a charge of several takes the
  oldest. Each of the previews (`CartBase`, `DraftPreview`, `Preview`, `GroupBill`, `Summary`) is
  computed as its own function in the code does, not from the charge.
* `Inventory`: a request is a list of steps still to do, the rows it holds and the rows it has
  *seen*: a locked row is not refreshed if the ORM had loaded it. `took`/`gave`/`entered` are the
  kardex, by line and by purchase.
* `CashDesk`: statements are steps; `counter` and `turn` are locked to the end of the
  transaction, the shift is read unlocked.
* `Tenancy`: the tenant's row lock is `holder`; `CountOf` is evaluated under it. `Halves` is the
  order in which a resent invitation mails and saves.
* `Credentials`: time in half seconds, so that the truncation of `iat` to seconds shows.
* `Promotions`: hours of a short day; `Valid` is `_valid_now` with windows that cross midnight;
  the guards are those of `service.py`, applied where `change_status`, `update`, `update_shape`,
  `duplicate` and `duplicate_replacing` apply them; `charged` is the last evaluation.
* `Catalog`: a save reads, decides and commits the columns that differ; a unique constraint is
  what stands between overlapping saves.
* `OptionGroups`: edits read and commit as in `Catalog`; a diner's selection is validated against
  the rows of that instant. `Menu` keeps its state still and varies the stock and the costs.
* `Assets`: the advisory lock of a key is `holder`; a reference is a key, or a URL of the same
  file (`form`), or foreign.
* `Quotas`: a key of Redis is its value and what is left of its life; INCR, EXPIRE and DECR are
  actions of their own. Each may also fail, done or not (`IncrFails`, `ExpireFails`, ...), and then
  the request is let in, as the code's `except` does; a process may die between any two. `lost` is a
  history of the keys whose EXPIRE was missed in one of these ways.
* `Scheduler`: locks are keys with a life too; a worker may die between any two commands.

## 3. Runs

| Run | Specification | Instance | Properties |
|---|---|---|---|
| `core` | `Spec` | 2 orders, one of them old, 3 lines (the old one needs no ingredient, two share one), 3 attempts, 1 unit of stock, constraint `SomeOrderOpen`, symmetry; 341,395 states | `OneChargePerLine`, `ConfirmedIsPaid`, `IInv`, `TerminalIsFinal` |
| `tx_all` | `TxSpec` | 2 requests, all 11 handlers, 1 order, 2 lines, 2 attempts, stock for one line; 540,903 states | `ResolvedOnce` |
| `tx_locked` | `FairLockedSpec` | 2 requests of the four handlers that lock, overlapping, and the other handlers one at a time; 2 orders, one of them old, 3 lines, two sharing an ingredient, 2 attempts, constraint `Meets`; 111,861 states | `StockFollowsStatus`, `Serializable`, `EveryRequestEnds`, `SettlesEveryLine` |
| `tx_orphan` | `TxSpec` | an approval and a cancellation; violation | `NoOrphanSale` |
| `sessions` | `Spec` | 2 tables, 2 sessions, 1 diner, 2 orders, 2 requests, constraints `TablesMeet`, `SerialAcross` and `NotAllOver`, symmetry; 391,182 states | `OneActivePerTable`, `OneLiveOrderPerDiner`, `SettledAtClose`, `ClosedIsEmptied` |
| `bus` | `MCSpec` | 2 browsers, 3 events, queue of 1, retention of 1; and the notices of 3 facts, one recovered at a time; 2,154,940 states | `SubscribersHaveReader`, `NoHole`, `InOrderOnce`, `NoticesReach` |
| `live` | `MCSpec` with fairness | bus: 1 browser, 3 events; feed: 1 order, 1 screen, 2 requests; quotas: 2 tasks, limit and window of 2; jobs: 2 workers, 2 tenants of which one is broken, 1 death, 1 outage; 191,108 states | `AnnouncedIsCommitted`, `Arrives`, `ShowsTheTruth`, `HealsInTheEnd` |
| `slots` | `SlotSpec` with fairness | the slots of one session: 2 tasks, limit and window of 2, Redis always answering; violation | `CounterHeals` |
| `account` | `Spec` | 2 diners (one with a token), 2 orders, 3 lines, 2 options, a package that ends, constraint `Short`, symmetry; 317,734 states | `ShownIsCharged`, `EveryUnitChargedOnce`, `SplitKeepsTheBill` |
| `grouped` | `Spec` | the same; violation | `NotYetCharged` |
| `backoffice` | `MCSpec` | inventory: 2 items, 2 lines, 1 purchase, 2 requests, 2 recipes, 1 edit; desk: 1 register, 2 shifts, 2 prefixes; tenancy: 3 addresses, 2 methods, 2 plans; images: 2 rows, 3 files; credentials: 2 links, 3 requests, 4 half seconds; payment method: 2 fields, 1 edit; view and symmetry; 703,658 states | `KardexExplainsStock`, `OrdersAreAccounted`, `OrderedLocksNoCircle`, `NumberedInOrder`, `DrawerAddsUp`, `TenantIsUsable`, `ReferencedIsStored`, `WithinPlan`, `CredentialsHold` |
| `shop` | `MCSpec` | promotions: 2, over 3 variants, 5 hours of 3-hour days, 2 carts; variants: 3 sizes, 3 rows, 3 forms, 2 requests; options: 2 of one group, 2 requests; menu: 2 sizes; constraint `Few`, view and symmetry; 274,732 states | `OneRulePerVariant`, `DiscountAddsUp`, `NoBetterGrouping`, `MenuIsCharged`, `SavedAsListed`, `OfferedAsRuled`, `PouredAsForeseen` |

All passing runs are exhaustive within these instances and constraints. Deadlock is checked
in `shop` only: everywhere else the system may really stop (all orders terminal, all ids
used, the bound on events reached).

**Bounds.** Ids are finite sets: rows are never deleted, so each set bounds how many are
created. Two orders show accounts with one and with several orders; three lines leave one to
add or to replace with while an order has two; two attempts let one be rejected and retried, a
third leaves room for the attempt an old order came with. `SomeOrderOpen` checks, but does not
follow, the states in which all the orders are terminal; each terminal order is followed beside
one that is not. The stock is one unit less than the lines would need, so that the last one
fails. `Versions == 0 .. 2`: an order's version changes at most twice (confirm, block), so every
version a client may present is there, the stale ones included. Two requests are enough for each
lost update, and give locks something to wait for.

In `tx_locked`, requests overlap about the old order, or about a new one once the old one is
cancelled (`OneOrder`); one of the lines is seen half cooked (`FewCook`), another is added late or
comes in an order already confirmed (`ComesLate`), and what follows when both orders are terminal is
not followed (`NotAllOver`). A request half way is never cut off, so what must happen still may.
Requests about two live orders overlap in no run: that they, too, are serial is what
`LockedHandlersSerialize` proves.

In `sessions`, requests overlap on one table; a second table comes in by an order that is moved
(`TablesMeet`), the only way tables meet, and then there is one request at a time
(`SerialAcross`); what happens once all orders, or all sessions, are over is not followed
(`NotAllOver`). Events: three, with queues of one and a retention of one, so that queues
overflow and an entry that one browser saw is trimmed before another, which is away, comes back.

`Short` follows one cart by diner, at most one line voided and one that is somebody else's, and
lets the package end once there is an order: each of the previews is then computed before and
after the end. `Few` (`OneOff`, `OneSizeMoves`, `PlainEdits`) keeps all but one variant as they
were, lets one presentation come and go, and lets one edit change one field of an option or a
group; two edits still overlap. A day of three hours has an evening, a night past midnight and a
morning. The amounts are chosen so that a percentage has a remainder. In `backoffice` each item
has one unit more than the one before; two recipes differ in both items, so an edit between a
sale and its void shows. Half seconds are the coarsest clock in which the truncation of `iat`
shows. `View` drops the variables of the parts that do not move (and, of the variants, what a
product no longer reads once it exists).

**Fairness.** `FairLockedSpec` has the fairness of `FairTxSpec`, strong fairness of each request's
own progress (`LockOrder`, commit, refusal): PostgreSQL grants a row lock to its waiters in turn, and a statement that can
run does. Requests are not forced to begin, and may crash. `Fairness` of the bus is weak
fairness of each task of the event loop (asyncio runs every ready task) and strong fairness of an
XREAD that finds entries: it may fail again and again, but not always. `MCFairness` adds weak
fairness of the page's timer (`Poll`), of time itself (`Tick` of the quotas and of the jobs; a key
whose life is over expires), of a request that goes from its INCR to its EXPIRE (which may fail
instead, or die), of each worker's timer, start, visit of a tenant and end (APScheduler
and the event loop), and of the return of Redis. Nothing makes a browser connect, a request
begin, a worker die or Redis fail, and nothing prevents it.

## 4. What the runs show

* **Charging** (`core`). Handlers one at a time, no line is charged twice or missed, whatever the
  door and whatever was added, voided or replaced before; a confirmed attempt has its paid order
  and its one sale; terminal orders never change; a charged line is served and out of stock.
* **Settlement** (`tx_locked`). With lines edited in confirmed orders only, the stock follows the
  status line by line, and each line is owed, then charged once or dropped (`LineSettlement`),
  while the handlers that lock overlap and crash.
* **Locks** (`tx_all`, `tx_locked`). With everything interleaved, an attempt is resolved once.
  The handlers that lock what they read are serializable, and no request waits for ever.
* **Tables** (`sessions`). Whatever overlaps, a table has one active session and a diner one live
  order; none of the six ways to close a session leaves an order on its table unsettled, keeps a
  diner's token alive, or keeps the table busy.
* **The bill** (`account`). What the cart, the previews and the group's bill show is what the sale
  charges at the instant the preview stands for; each unit is charged to exactly one consumer,
  whatever was assigned, cloned and merged; a split keeps the total of the bill.
* **Events** (`bus`, `live`). Replay, queue, drop, reconnection, trimming and restart leave no hole
  among the events a reader fanned out, nothing is repeated or goes back within a connection; a
  subscriber always has a reader. An event that follows what a reader has read arrives. No event
  announces what was not committed, and a page that hears the events and polls ends up right,
  through crashes between commit and publication and through 304s. A failed channel keeps no
  notice from the others, and recovery has no gap.
* **Limits and jobs** (`live`, `slots`). A full window, or a session without slots, comes to have
  room again though connections die without a release, commands fail and everybody insists, unless
  the key's EXPIRE was lost; `slots` shows that then it may not. A tenant's overdue sessions are
  swept although another tenant is broken or a worker died with the lock.
* **Stock** (`backoffice`). Sales, voids, adjustments and edits of recipes overlap, purchases run
  alone, and the stock is what the kardex says; a void puts back what its sale took, when nobody edited the recipe
  between; a purchase's reception is what entered. Requests that order their locks never wait in a
  circle.
* **Money, seats, images, credentials** (`backoffice`). Invoices and turns are consecutive and the
  drawer is explained; a seat is taken within the plan, an administrator and a payment method
  remain, the till is offered complete methods only; a row's image exists; a link works
  once, a change of password ends the sessions opened a second or more before it and none opened
  after, and what was logged out stays out.
* **The shop** (`shop`). No two promotions in force at one instant cover one variant; the discounts
  of a cart's lines add up and no other grouping would be cheaper; the menu's price is the price
  charged; a product's variants are what its form lists; what is offered is active, what is
  accepted is drawn from the stock, what the menu marks as available can be served.

## 5. Where the code does not do what its text says

Three are `violation` runs, with the sentence quoted in `PROJECT.json`:

1. `tx_orphan`: `cancel_order` does not lock what it reads: a payment that commits meanwhile
   leaves a cancelled order with a sale.
2. `grouped`: once one order of a session is charged by itself, the summary calls the session's
   other orders, which nobody paid, billed in a group.
3. `slots`: EXPIRE is a command of its own after the first INCR. A process that dies between the two
   leaves a counter without a life, which never heals itself, against what the docstring of
   `_acquire_slot` says of it. An EXPIRE that raises, and is swallowed, leaves the same; and both
   leave it in `enforce`'s windows (`core/rate_limit.py:40-42`), where they block an address for
   ever: `live` with `Q!RoomAgain` without `k \in lost`.

The others were found while modelling and can be reproduced by changing a run as the last column
says. They are known here so that nobody takes a passing run for more than it shows.

| What happens | How to see it |
|---|---|
| `pay_order` does not lock: two of them, or one and `close_session`, charge the same lines twice | `tx_all` with `Handlers = {"pay", "close"}`, `OneChargePerLine` |
| An item added to a `recibida` order is deducted when added and again when the order is confirmed; one voided there, or in a cancelled order, is returned without having been taken | `core`, invariant `\A l \in Lines : taken[l] <= 1`; `EditsOnlyConfirmed` is what `tx_locked` assumes instead |
| A line replaced in a cancelled order is owed again | `core`, `SettlesEveryLine` |
| `create_payment_attempt` that overlaps a cancellation leaves an attempt under review on a cancelled order | `tx_all`, `CancelledIsSettled` |
| `move_order` leaves the order in its first session; releasing the first table closes that session with the order unpaid | `sessions`, `LiveHasAccount` |
| "Suscribirse antes de crear el generador" does not keep an event from slipping by: the shared reader's first XREAD asks from `$` (`realtime/router.py:102`) | `bus`, `NothingSlipsBy` |
| A notification that commits late, with an earlier `created_at`, is missed by a recovery that has passed it | not modelled: commits follow creation in `Notices` |
| "Un solo worker ejecuta el barrido por ciclo" (`core/scheduler.py:280`) is not so when the workers' timers are offset and the lock's life, shorter than a cycle, is over: the second sweeps again, harmlessly | `live`: `Lasts` is less than `Interval` |
| `create_purchase` loads the item before it is locked and overwrites a sale that committed between, against the "variación atómica" of `inventory_engine/stock.py:1-3` | `backoffice`, `"buy"` out of `Alone`, `KardexExplainsStock` |
| Two `receive_purchase` of one order take in more than was ordered | `backoffice`, `"receive"` out of `Alone`, `OrdersAreAccounted` |
| A sale commits into a shift that `close_shift` is reconciling | `backoffice`, `DeskAlone = {}`, `DrawerAddsUp` |
| Two administrators demote each other; two requests deactivate the last two payment methods; a change of plan overlaps an invitation | `backoffice`, fewer kinds in `TenantAlone`, `TenantIsUsable`, `WithinPlan` |
| Two edits of one payment method overwrite each other's data or its completeness | `backoffice`, `FieldsAlone = {}`, `TenantIsUsable` |
| The migration scripts, which "need no maintenance window", and a replacement of an unmanaged reference overlap other writes and leave a reference without its file | `backoffice`, `ImagesAlone = {}`, `ReferencedIsStored` |
| Closing a group overlaps a product that links it; repricing a group overlaps an option's edit | `shop`, `EditsAlone = {}`, `OfferedAsRuled` |
| Without the strict setting, a selection may hold an option of a group that the variant does not offer: its numbers are not validated, although it moves stock | `shop`, `StockIsValidated` |
| Two activations of promotions that overlap each read the other as a draft | not explored: promotions' requests run one after the other |
| `expire_promotions` compares local dates with UTC ones | not modelled |
| The counter sale (`sales/service.py:345`) calls `checkout.auto_discount`, but `checkout` is the function that line 299 defines: it raises before it changes anything | its steps are in no model |
| A share cloned from a line loses how many of an option it had | `Clone` in `Account`, under the note A-97 of the source |
| Logout revokes the access token only; two `forgot_password` leave two valid links | `Credentials` |

Comments that are simply out of date: `table_sessions/service.py` (`has_billable_orders`) and
`kitchen.py` (`void_item`) say that a paid QR order stays `abierta`, while
`approve_payment_attempt` and `confirm_cash_payment_attempt` set it to `pagada`; the docstrings of
`compute_bill` and `group_bill` promise a preview that coincides with the charge, which holds at the
instant of the preview.

## 6. Proofs

TLC checks the instances of section 3. TLAPS proves what follows for all values of the constants
that satisfy the assumption named in the module: any number of orders, lines, browsers or requests.
The theorems of `PROJECT.json` are the results; the lemmas they rest on are in the same modules,
one per operator or family of actions.

**`OrderLifecycleProofs`**, from `LifecycleAssumption` (ids distinct, finitely many lines, recipes
and initial stock of the right type, old rows consistent):

* `TypeCorrect`. The part with content is `stock \in [Ingredients -> Nat]`: the lemmas on `Uses`
  (the cardinality of a subset of a finite set) and on `MoveStock` give it.
* `TerminalFinal`: `Spec => TerminalIsFinal`, action by action.
* `Invariance`: `Spec => []IInv`. The safety properties are not inductive on their own: charging a
  line once rests on `PaidIsCharged` and `ChargedIsServed` (a line in play of an unpaid order is
  unbilled), those on `SaleIsOfPaid`, `ChargedLeftStock` on `PlayedIsTaken`, and all on
  `RowsHaveOrder` (rows point at orders that exist). `ChargedOnceAndServed` and `AttemptsSettle`
  read the properties off it.
* `StockFollows`, `Implements`, `DroppedReturns`: of `EditedSpec`, which is `Spec` with
  `EditsOnlyConfirmed` as a constraint on steps. The proofs first show that every action has one
  of a few *shapes* (it charges the lines of some orders, takes the stock of an order, drops lines,
  inserts one, or changes no line), and then that each shape keeps the stock aligned and is a step
  of `LineSettlement` or a stutter. The refinement mapping is `OrderSettlement`'s `Fate`.

**`OrderTransactionsProofs`**, over the same assumption:

* `TxTypeCorrect`: types of rows and of half-way requests, with `Linked` (the ids that a request
  read are of rows that exist).
* `ResolvesAtMostOnce`: `TxSpec => ResolvedOnce`, for every set of handlers. The invariant is
  `Reviewed`: a request that holds an attempt under review still sees it as the database has it,
  because only the holder of its row may resolve it.
* `LockedHandlersSerialize`: if all the handlers lock (`Handlers \subseteq Locking`, the ones of
  `tx_locked`), `TxSpec => Serializable`, that is: every step is a serial step of `OrderLifecycle` or
  stutters. The invariant `Secured` says that what a request has read under its locks is what the
  database still says (`Good`), that no two requests hold one row (`Apart`), and that each commit
  leaves the others' reads alone (`Leaves`). The hypothesis is what the code does in those four
  handlers; `tx_orphan` shows it is needed.
* `LockedHandlersKeepInvariant` follows: what was proved of the serial system holds of theirs.
* `ConfirmedMoneyIsSold`: with every handler interleaved, a confirmed attempt has its sale, provided
  the database starts without attempts confirmed before payment and dispatch were one step.

**`TableSessionsProofs`**, from `SessionsAssumption` (NULL is no id, hand-made marks are statuses):

* `RowsLinked`: types and foreign keys. One lemma per way of writing (seating, closing, inserting,
  asking) and one step per action.
* `OneAccountPerTable`, `OneOrderPerDiner`: inductive over `TypeOK`; the proofs show which insertion
  needs which index, and that nothing else creates a rival.
* `ClosersSettle`, `ClosersEmpty`: they rest on `OneActivePerTable`: a closer reads the account of
  one session and then closes all the active ones of its table, so it must be the only one
  (`ShutCloses`). `CloseByAccount` and `CloseByTable` are the two ways of asking what is left.

**`EventBusProofs`**, from `EventBusAssumption` (what a browser listens to and what is published are
sets of channels, the limits are positive):

* `ReaderFollowsSubscribers`: `SubscribersHaveReader` and `IdleReaderStops` are inductive together
  with the type of `phase`.
* `NoHoleInTheFeed`, `FramesAscend`, `BusTypeCorrect`, from `BusInv`. `NoHole` speaks of what a
  browser saw; the invariant adds where each missing entry still is (`Accounted`: known, or in its
  queue, or after the whole queue of a connection that is marked to be told to resync), that
  queues ascend and hold entries that were read (`QueueAscends`), that everything read is behind
  the reader's position (`ReaderIsPast`), and that a replay, which reads the stream itself and may
  be ahead of the reader, leaves no hole for the reader to fall into (`Whole`). The lemmas
  `RanksCount` and `WantedAscends` say what `Wanted` returns, `FanoutFeeds` what a fan-out does to
  one queue.

**`OrderFeedProofs`**, from `OrderFeedAssumption` (an order has finitely many items):

* `ToldIsTrue`, `FeedTypeCorrect`, from `ToldInv`: a request is at the whole plan of its handler, or
  behind its commit, and then has to tell only what is true or what is read when the event is
  built (`Honest`). The lemma `Handles` goes through the thirteen handlers: what each says is true
  of the row it writes. An event told before the commit (`Plan_TellFirst`) is what breaks it.
* `ShownHasBeen`, `PollTellsTruth`, from `ShownInv`: pages were true, and the body a browser keeps
  is the one its ETag names. They are what `ShowsTheTruth` comes down to without fairness.

**`InventoryProofs`**, from `InventoryAssumption`:

* `Invariance`, `StockIsExplained`: with `"buy" \in Alone`. The inductive invariant:
  a row is held by one request at a time (`LocksExclude`), and what a request will write of a row it
  holds is the committed row plus its own kardex rows (`WritesFresh`), which is exactly what
  `create_purchase`, loading before it locks, breaks.
* `TypeCorrect` has no hypothesis: a purchase that loses another's update writes a wrong stock,
  never a negative one.
* `SalesAndVoidsBalance` has none either. Its invariant `LinesInv`: no two requests are at one line
  (`ClaimsApart`), sold lines took what the catalogue still says and voided ones were given it back
  (`Settled`), and of the lines a request is at (`InHand`): those it has still to plan are in the
  stage its direction says, those it will sell are sellable or still before the guard, and what
  it drew is the catalogue's need. The guard and the deduction are separate statements; an edit
  between them puts the line in `edited`.
* `OrdersAccounted` assumes `"receive" \in Alone`: two receptions that overlap enter one remainder
  twice (section 5), and the property is false. `ReceptionsInv`: a reception goes on from what its
  order had received when it read it, which is what the order still says, and stays within what
  was ordered (`Fits`).
* `OrderedLocks`: what a sale or a void still has to lock is above all it holds (`Orderly`); in a
  circle each waits for a row another holds, so the items waited for would have no last one
  (`SomeLast`: a finite, nonempty set of naturals has).
* All of these work over the *shapes* of a step (lemma `Shapes`: a request starts, goes on, goes
  idle, commits, or only purchases or the catalogue change), so that an invariant needs one
  argument per shape, and the steps of each handler are looked at once.

**`ShopProofs`**:

* `NoDoublePromotion`, from `Disjoint`: any two promotions that could be in force have disjoint
  variants, whatever their windows.
* `OptionsInvariance`, `OffersHold`: with `Ruled` (closing and repricing a group overlap no other
  edit: section 5 shows what happens otherwise; links start empty, prices and quantities may be 0).
  An edit writes the row it read with one thing changed, so the invariant speaks of requests in
  flight (`EditFits`): what an edit wants is still allowed by the group as it is now, and a group
  being closed is in use by no size.

**`BackOfficeProofs`**, one section per part of `BackOffice`, each from its own invariant and the
assumption its module names. The instances share nothing, so a theorem is about `D!Spec`, `A!Spec`,
..., which is how the run, too, moves one part at a time.

* The cash desk's numbers (`DeskInvariance`, `NumbersKeepOrder`), from `Billed` (bills are of whole
  amounts) and with no hypothesis on who overlaps whom. A request that has taken a number has its
  row to itself until it commits (`OneHolder`); what it has numbered goes on from the counter
  without a gap (`SaleFits`), and an order's number is the next one of a shift that is still open
  (second half of `TurnInOrder`). A rollback gives everything back because nothing was committed.
  The creation of a prefix's first counter is the case that a lock alone does not cover: the
  second to insert it fails.
* Images (`ImageInvariance`, `NoBrokenImage`, `MigratedImagesHold`), from `Distinct` (NULL is no
  row, request or value). `NoBrokenImage` also needs `RewritesAlone`: a form that turns a URL into
  its key, and the scripts, overlap nothing. Nothing in the code ensures it, so
  `MigratedImagesHold` says what holds without it: where rows are keys and no migration runs,
  whatever overlaps. The invariant follows a file through the two halves of a deletion (is it
  used? drop it) and of a reference (is it stored? save it), which the advisory lock of its key
  keeps apart.
* Credentials (`CredentialsAreSafe`), from `Lives` (NULL is no request, lives are naturals), with no
  hypothesis on overlaps. A link ends once; a token minted since the last change of the password is
  accepted; one minted a second or more before it is refused; one that was logged out stays out, but
  for the fraction of a second that the revocation's life loses. `LoginInductive` says of each token when it was minted against the
  truncated second it carries and that its place in the blocklist outlasts it, and of each request
  that resets that it holds its link and found it unused.
* The tenant (`TenantInvariance`, `PlanIsKept`, `TenantStaysUsable`), from `Allotted` (finitely many
  addresses and methods; changes of an administrator, of a method's activity and of the plan
  overlap nothing). What a request has counted under the tenant's row is what is there
  (`TenantCounts`), so the seat it takes is within the limit (nothing is said of a plan that has expired); whoever resends still holds the
  letter (`TenantResends`); whoever demotes has seen another administrator (`TenantRemains`).
  The half on payment methods comes from `MethodInductive`, with `EditsAlone` (two edits of one
  method's data do not overlap): what a request will store is marked by the rules it read.

**Notices** (in `EventBusProofs`): `NoticesArrive`, from `WellFormed` (finitely many facts, a page of
at least one row). Every channel and device is tried or still to try (`ToldOrTrying`); creation
dates are a numbering without ties (`InOrder`); what a screen is owed lies after the last row it has
(`Owed`). That a page shorter than its limit is the last rests on counting: if a newer notice were
left out, the page would hold `Limit` older ones, and so not be the last.

**How each part's invariant was found.** TLC checked it first: `core` keeps `IInv` as an invariant of
the run; the others were checked the same way on the instance of their run before they were proved.

**Only model-checked.**

* Liveness (`EveryRequestEnds`, `Arrives`, `ShowsTheTruth`, `HealsInTheEnd`) and anything under
  fairness is beyond the prover.
* What recursive definitions and folds compute for every input: the properties of
  `PromotionEngine`, `Account` and `Menu` (`DiscountAddsUp`, `NoBetterGrouping`, `MenuIsCharged`,
  `ShownIsCharged`, `EveryUnitChargedOnce`, `SplitKeepsTheBill`, `PouredAsForeseen`) and the sums of
  the drawer (`DrawerAddsUp`) are checked over bounded inputs.
* `SavedAsListed` (a form's rows against the table, by folds over the list) is not proved.

## 7. Which variant breaks which property

| Run | Property | Replaced | By |
|---|---|---|---|
| `core` | `OneChargePerLine` | `OrderLifecycle.PayReads` | `PayReads_Again` (a paid order can be paid again) |
|  | `ConfirmedIsPaid` | `OrderLifecycle.ConfirmedBy` | `ConfirmedBy_AnyStatus` (an approval charges an order in any status) |
|  | `TerminalIsFinal` | `OrderLifecycle.CancelReads` | `CancelReads_SaleOnly` (a paid or cancelled order can be cancelled if it has no sale of its own) |
|  | `IInv` | `OrderLifecycle.ConfirmOrder` | `ConfirmOrder_NoStock` (confirming takes no stock) |
| `tx_locked` | `StockFollowsStatus` | `OrderLifecycle.Uncooked` | `Unstarted` (an order that was never confirmed gives stock back) |
|  | `SettlesEveryLine` | `OrderLifecycle.CancelReads` | `CancelReads_SaleOnly` (a paid or cancelled order can be cancelled if it has no sale of its own) |
| `tx_all` | `ResolvedOnce` | `OrderTransactions.AttemptLocked` | `AttemptLocked_ByApprovals` (a rejection does not hold the attempt) |
| `tx_locked` | `Serializable` | `OrderTransactions.LockOrder` | `LockOrder_NoRecheck` (the approval does not look at the order again once it has its lock) |
|  | `EveryRequestEnds` | `OrderTransactions.Refused` | `Short` (only a shortage makes a handler give up) |
| `sessions` | `OneActivePerTable` | `TableSessions.Seated` | `Seated_NoIndex` (no unique index on active sessions) |
|  | `OneLiveOrderPerDiner` | `TableSessions.OneMore` | `OneMore_NoIndex` (no unique index on a diner's live orders) |
|  | `SettledAtClose` | `TableSessions.Empty` | `Empty_DinersOnly` (only diners are counted, not orders) |
|  | `ClosedIsEmptied` | `TableSessions.Shut` | `Shut_KeepDiners` (diners keep their tokens) |
| `bus` | `SubscribersHaveReader` | `EventBus.KeepReader` | `KeepReader_Lingering` (a new subscriber does not cancel the linger) |
|  | `NoHole` | `EventBus.Gap` | `Gap_EmptyOnly` (only an empty stream is a gap) |
|  | `InOrderOnce` | `EventBus.AlreadySent` | `AlreadySent_LastOnly` (only the very last id is skipped) |
|  | `NoticesReach` | `Notices.Left` | `Left_Stops` (the first channel that fails ends the dispatch) |
|  | `NoticesReach` | `Notices.PageOf` | `PageOf_NewestFirst` (recovery gives the newest first) |
| `live` | `Arrives` | `EventBus.AsksAfter` | `AsksAfter_AlwaysNew` (the reader asks from `$` every time) |
|  | `AnnouncedIsCommitted` | `OrderFeed.Plan` | `Plan_TellFirst` (publish, then commit) |
|  | `ShowsTheTruth` | `OrderFeed.Etag` | `Etag_OfOrder` (the ETag is of the order, not of its lines) |
|  | `HealsInTheEnd` | `Scheduler.Life` | `Life_Forever` (the lock outlives the interval) |
|  | `HealsInTheEnd` | `Scheduler.Rest` | `Rest_Aborted` (a broken tenant ends the round) |
|  | `HealsInTheEnd` | `Quotas.IsFirst` | `IsFirst_Always` (each request renews the window) |
|  | `HealsInTheEnd` | `Quotas.Adds` | `Adds_Blocked` (a request that is turned away counts) |
| `account` | `ShownIsCharged` | `Account.CartBase` | `CartBase_NoAddons` (the cart's base leaves the add-ons out) |
|  | `ShownIsCharged` | `Account.Instant` | `Instant_Now` (promotions of now, not of the order) |
|  | `ShownIsCharged` | `Account.DraftPreview` | `DraftPreview_Menu` (the draft's surcharge is counted in the unit) |
|  | `ShownIsCharged` | `Account.GroupBill` | `GroupBill_OneInstant` (one instant for the whole group) |
|  | `EveryUnitChargedOnce` | `Account.Consumers` | `Consumers_Named` (the unassigned lines are nobody's) |
|  | `SplitKeepsTheBill` | `Account.Clone` | `Clone_WithAddons` (a share keeps the add-ons too) |
| `backoffice` | `KardexExplainsStock` | `Inventory.Free` | `Free_NoLock` (no row lock) |
|  | `OrdersAreAccounted` | `Inventory.Left` | `Left_AllOrdered` (what was already received is not subtracted) |
|  | `OrdersAreAccounted` | `Inventory.Deduct` | `Deduct_NoGuard` (no guard on lines that consume nothing) |
|  | `OrderedLocksNoCircle` | `Inventory.NextToLock` | `NextToLock_AnyOrder` (items locked in any order) |
|  | `NumberedInOrder` | `CashDesk.CounterFree` | `CounterFree_NoLock` (the counter is not locked) |
|  | `NumberedInOrder` | `CashDesk.TurnFree` | `TurnFree_NoLock` (an order takes its number without the shift's row) |
|  | `DrawerAddsUp` | `CashDesk.LessChange` | `LessChange_Gross` (change is not subtracted from the closing) |
|  | `DrawerAddsUp` | `CashDesk.Expected` | `Expected_Gross` (change is not subtracted from the reconciliation) |
|  | `TenantIsUsable` | `Tenancy.Halves` | `Halves_SaveFirst` (save, then mail) |
|  | `TenantIsUsable` | `Tenancy.KeyFree` | `KeyFree_No` (an invitation's insertion does not wait for the tenant's lock) |
|  | `TenantIsUsable` | `Tenancy.Others` | `Others_Any` (an administrator may act on himself) |
|  | `TenantIsUsable` | `PaymentMethods.Judged` | `Judged_AsSent` (completeness of what was sent) |
|  | `TenantIsUsable` | `PaymentMethods.Written` | `Written_Whole` (the whole row is written) |
|  | `WithinPlan` | `Tenancy.Wait` | `Wait_No` (limits are counted without the tenant's lock) |
|  | `ReferencedIsStored` | `Assets.Exists` | `Exists_Unlocked` (a file is looked for without its lock) |
|  | `ReferencedIsStored` | `Assets.Unused` | `Unused_Unlooked` (deleted without looking) |
|  | `CredentialsHold` | `Credentials.Ttl` | `Ttl_Fixed` (a revocation lasts one second) |
|  | `CredentialsHold` | `Credentials.CutOver` | `CutOver_Exact` (the cut keeps its fraction) |
|  | `CredentialsHold` | `Credentials.CutOver` | `CutOver_Leeway` (the cut forgives the second before it) |
|  | `CredentialsHold` | `Credentials.Free` | `Free_NoLock` (no row lock) |
| `shop` | `OneRulePerVariant` | `Promotions.ProductsFree` | `ProductsFree_Draft` (no guard on the product) |
|  | `DiscountAddsUp` | `PromotionEngine.Remainder` | `Remainder_Dropped` (the remainder of a rounding is nobody's) |
|  | `NoBetterGrouping` | `PromotionEngine.Sooner` | `Sooner_CheapFirst` (the cheap units are grouped first) |
|  | `MenuIsCharged` | `PromotionEngine.PercentOf` | `PercentOf_Down` (rounded down) |
|  | `SavedAsListed` | `Catalog.Fits` | `Fits_AnyOrder` (no unique index on the position) |
|  | `SavedAsListed` | `Catalog.Unlisted` | `Unlisted_Kept` (what the form leaves out stays on sale) |
|  | `OfferedAsRuled` | `OptionGroups.MayClose` | `MayClose_Unchecked` (a group in use can be closed) |
|  | `OfferedAsRuled` | `OptionGroups.Freed` | `Freed_Active` (a group that becomes free frees only its active options) |
|  | `PouredAsForeseen` | `OptionGroups.MustTakeAll` | `MustTakeAll_Min` (the minimum is enough) |
|  | `PouredAsForeseen` | `Menu.Worst` | `Worst_Greatest` (the greatest draw although a size says nothing) |
|  | `PouredAsForeseen` | `Menu.PerOption` | `PerOption_BySize` (the size's quantity only) |

## 8. Not modelled, and what could come next

Not modelled for good: names, codes and lists of catalog, users and tenants, the audit log, mail,
print layouts, provisioning of schemas, migrations (little state, or pure I/O). The reads of one
handler are one step in `OrderTransactions`; the charge of an account is one step in `Account`;
requests over promotions run one after the other.

Next: a proof that `Catalog` saves what its form lists, which needs the folds of `save` restated
as functions of the row's place; `Account`'s charge overlapping an unlocked `set_assignments`;
activations of promotions that overlap.
