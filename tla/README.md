# ShodaiHub in TLA+

A verification project for ShodaiHub, a B2B wholesale marketplace: TLA+ modules of the parts
where concurrency, failure and time decide whether the system is right, from the Lua scripts
of the reservation store to the buttons of the frontend; TLC configurations that check them
on small instances; and proofs, checked by TLAPS, of what matters most for instances of
every size.

## 1. The system

Services (`src/services`), each with its own PostgreSQL schema, all of them replicated, and
a Next.js frontend (`src/frontend`):

| component | state it keeps | operations | talks to |
|---|---|---|---|
| **Reservation store** (inventory, `reservation/`, `resources/redis/*.lua`) | per product: mirror of the stock, `reserved_total`, sorted set of holds by expiry; per hold: a hash with a TTL (Redis) | reserve, release, renew, convert, isActive, sellable, reap, syncStockMirror; a reaper every two seconds and an expiry listener | called by cart, checkout, stock, fulfilment |
| **Cart** (`cart/`) | `cart`, `cart_item` (with the id of its hold) | addItem, changeQuantity, removeItem | reservation store, inside its transaction |
| **Checkout** (`order/`) | `orders`, `sub_order`, `order_line`, `status_history` | checkout; queries | reads carts, asks the store whether holds are active |
| **Fulfilment** (`fulfillment/`) | `sub_order.status`, `status_history`, `product.available_stock` | pack, ship, deliver, cancel | restores stock, sets the mirror, releases holds |
| **Product stock, catalogue, reviews, moderation** | `product`, `review` | create, publish, update, unpublish, setStock, submit, remove | index events on a Redis stream |
| **Pricing tiers** (`pricing/`, `TierEditor`, `lib/pricing`) | `pricing_tier`; the drafts of the editor | addTier, quote; edit, preview, save | each other |
| **Search** (`services/search`) | Elasticsearch index | consume index events, query | consumes the stream |
| **Payment gateway** (`services/payment`) | `payment_transaction`, `rejected_callback` | initiate, handleCallback, sweepTimeouts | asks inventory for totals and confirmation; notification stream |
| **Notification** (`services/notification`) | stream group, dedup keys, notifications, dead letters | handleEvent with retries per channel | consumes the stream |
| **Auth** (`services/auth`) | users, login attempts, refresh tokens | register, login, refresh, logout, suspend | - |
| **Gateway** (`services/bff`) | two rate limiters in the memory of each of its processes | decide on a request, forward it, give it up | all services |
| **Frontend** | React state, the React Query cache of the cart, two cookies | cart, checkout and product pages, panels, forms, tier editor, login and logout | the gateway |

What is hard here, and what makes each component correct:

* The store keeps three records of each hold (counter, set member, hash) and two clocks
  judge them: the caller's, and that of Redis. They must agree after any sequence of
  scripts, and no hold may block stock for ever.
* A request of the cart or of checkout changes Redis at once and PostgreSQL at its commit.
  Nothing is locked and no entity has a version. A hold must back one line, fit it, and not
  get lost; what was ordered must leave the cart.
* A payment callback may come several times, late, in the wrong order, and on several
  handlers at once; the confirmation may be executed without its answer arriving. A
  payment must be applied once, and an unpaid transaction be closed.
* Stock is changed by suppliers, confirmations and cancellations at the same time, in
  PostgreSQL under row locks, in Redis before the commit. The sums must be right, the mirror
  equal, and the locks must not stop everything.
* Requests on a product write the whole row they read, and send their index event before
  they commit; replicas of search read the events once, in batches, and may die with them.
  The index must follow the catalogue, and the rating the reviews.
* Events for notification are repeated, and replicas fail between any two writes. An event
  must reach a channel at most once, an acknowledgement must mean that it is settled.
* Logins count failures that others are about to record, and lock rows they read before;
  refreshes overlap with each other and with a suspension. Guesses must be bounded, a lock
  must hold, a suspension must end every session.
* The gateway gives up requests that the services still carry out, and counts in windows that
  the clients can time, each of its processes for itself. What is refused must not be done;
  bursts must be bounded.
* The pages keep copies of what the server has, disable controls with one variable for many
  rows, and issue calls whose answers come in any order or never, to pages that may be gone.
  Nothing may stay disabled, be sent for the wrong row, or be shown out of date; the ways in
  which something is sent twice, shown late or stranded must be known.

`PROJECT.json` lists every component, and under "hazards" the lines where each of these
bites, with the property that watches it.

## 2. Modules

| module | models | |
|---|---|---|
| `HoldLedger` | what the reservation store promises: stock and holds, no clocks, no counters | abstract specification |
| `ReservationStore` | the Lua scripts, the mirror, expiry, TTL, the reaper | implements `HoldLedger` |
| `Checkout` | cart and checkout requests, step by step | uses `HoldLedger` as its store |
| `Fulfillment` | sub-orders, stock rows with locks, the mirror | |
| `Catalog` | requests on one product, its reviews, index events, the replicas of search | |
| `Pricing` | the tiers of a product, the endpoint, the price rule, the editor | |
| `Payment` | transactions, callback handlers, the sweep; inventory as environment | |
| `Delivery` | what notification promises for an event and a channel | abstract specification |
| `Notification` | replicas, the stream and its group, deduplication, retries, dead letters | implements `Delivery` |
| `Login` | registration, logins, lockout of one account | |
| `Session` | token pairs, cookies, suspension | takes from `Login` that a login passes |
| `Routes` | the route table, the gateway's decision, every call the pages make | used by `Gateway` and `Storefront` |
| `Gateway` | rate limiters, the decision, the proxy with its timer | |
| `Storefront` | the cart, checkout and product pages of one retailer | uses `Routes` |
| `Panels` | the other panels and forms: one machine, nine sets of parameters | |
| `...Proofs` | theorems and proofs about the module they are named for; `CatalogProofs` about `Pricing` and `Catalog`, `AccessProofs` about `Session`, `Storefront`, `Gateway` and `Login` | |
| `MC...` | the small instances TLC explores | |

Definitions of the form "Broken variant of ..." are the specification of a plausible bug in
the definition they precede. Nothing refers to them; each is what some property must be able
to tell from the code (`PROJECT.json`, "mutants").

### ReservationStore

A script is one EVAL, so one action. `stock`, `reserved`, `members`, `score` and `hash` are
the keys; `age` is history. The loop every script opens with, dropping expired members, is
`Expired` and `Remove`; the action applies it before deciding, as the script does. Times are
kept as the time left by the clock of Redis, and a caller is off by `d` in `-Skew .. Skew`.
`Tick` moves all clocks and lets Redis drop hashes whose TTL is up, which leaves the member
in the set until some script meets it.

Where the code stands for more than the model: ids are random UUIDs, so a name that no key
mentions any more may stand for a fresh one; `convert` is called with the product and the
quantity that were reserved (it has no caller outside the tests); `reapAll` is a series of
`Reap`s; the missing stock key is 0, as the scripts read it. Loss of the Redis data is not
modelled: a comment speaks of a periodic reconcile that repairs drift, but nothing in the
code rebuilds the keys.

### Checkout

The calls to the reservation service and the commit are the points where requests
interleave. `calls[w]` is what the request has read and not written yet. Transactions run at
READ COMMITTED, so a write is a blind overwrite of the row; Hibernate fails an UPDATE or
DELETE that meets no row (`UpdateGoneItem`, `DeleteGoneItem`, `CommitFails`). The derived
query `deleteByCartId` selects the rows of the cart anew and then deletes each
(`PlanDeletes`, `CommitOrder`); lines of a second cart row, where there is one, stay. An `ApiException` rolls the transaction back (`RestoreOld`). `carts`
distinguishes no, one and several cart rows of a retailer, since no constraint excludes
the last and `findByRetailerId` throws on it. Left out: prices, totals, the split into
sub-orders by supplier, and an `addItem` that is refused, which changes nothing.

A hold that has lapsed is one the ledger has dropped. That a hold may be inactive to
`isActive` and still counted until the next script is part of `ReservationStore`. `leaked`
names the holds that no row refers to any more and that only expiry gives back; every
action that adds to it is a place where the code loses one.

### Fulfillment

A request reads, waits for row locks, and writes at its commit. `Cancel` fixes the order in
which the rows will be locked, any order, since the query has no ORDER BY; lines of one
product are taken together. `lock`, `Deadlocked` and `BreakDeadlock` are PostgreSQL's.
`EditProduct` stands for publish, update, unpublish, removeProduct and recalculateAverage,
which read the product without the lock and write all its columns, the stock included.
`Confirm` is external: the endpoint that turns a payment into CONFIRMED sub-orders is called
by the payment service and implemented nowhere in the repository, so the module takes what
`convert.lua` and the statuses say of it. History variables: `expected` is the stock as set,
less what every sub-order has taken by its status (`Taken`), so that units restored twice are
not expected twice; `astray` names the products for which the code loses that sum: a row
written back without its lock, and requests that overlap on one sub-order, of which the one
that commits later goes by a status that is not the stored one any more (`Misled`);
`unmirrored` those whose mirror a rollback or such a write has put out of step. Hibernate may write the row of the sub-order
before the second product is locked; the model writes it at the commit, when it becomes
visible.

### Catalog

One product. A request is `Opens`, with the row it will write in `mine[w]`, then for
requests that index `Send` (or `SendFails`, an error that is logged and swallowed), then
`Commit` or `RollsBack`. Only `setStock` locks the row, so that a commit waits for it.
`submit` and `removeReview` average what their transaction sees (`recalculateAverage`);
`submit` uses the row it read before, `removeReview` reads it after the review is hidden
(`findProduct`) and the visible reviews after that. `log`, `next` and
`hand` are the stream, the last id the group delivered, and what each replica still has of
its batch. An entry that fails, or whose replica stops, is read by nobody again: `XREADGROUP`
asks for ">" only. A failed acknowledgement behind a change of the index is `handle_event`, since
nothing looks at acknowledgements.

History variables say where the promise ends: `raced` that a request wrote back a row that
had changed since it read it, `lost` that an event was lost, failed, was sent by a
transaction rolled back, or overtook another one between two replicas. Both happen; the
properties say that nothing else is in the way. Left out: `create` beyond the initial row,
the conditions for publishing, and what a document has besides status and text. Neither a
change of the rating nor of the sellable quantity is indexed, and nothing here says it is.

### Pricing

`FindByIdForUpdate` takes the lock of the product and reads its tiers; `AddTier` inserts,
`Refuse` and `Rollback` do not. `validateFields`, `overlaps` and `Quote` are the Java rules,
`validateTiers`, `rangesOverlap`, `hasAtMostTwoDecimals` and `resolveUnitPrice` those of the
frontend, in the editor and on the product page. `InexactPrices` are the prices that times
one hundred are no whole number in binary fractions, 1.1 among them, which the editor
refuses. `save` sends what the editor sends, an object `{tiers: [...]}` without the fields
the controller reads, so that every save is refused (`PricingSave.cfg`). `NoIssueNoRefusal`
therefore speaks of the tiers as they would be sent one by one.

### Payment

A handler is a run of `handleCallback`; between two awaits it is one action, and
`calls[h].at` says which await it is at. A callback is authentic, or rejected with one of
the three reasons; signatures and payloads are not looked into. `ConfirmAnswered`,
`ConfirmFails`, `ConfirmUnheard` and `ConfirmLate` are the inventory service as
`inventoryClient.ts` can see it: it answers, fails, or does what it was asked after nobody
waits any more. `Dies` is a process that ends or a query that fails. The payer may fail and
then succeed, not the other way round; callbacks of either verdict may be delivered any
number of times, in any order, after that. The order of the payment is not modelled, so
two transactions of one order are two independent ones. `initiate` writes the row; the
amounts it is asked for are data.

### Delivery and Notification

`Delivery` says of each event and channel: nothing yet, tried, delivered once, or
buried after all its attempts failed. `Notification` is the replicas that do it: `EnsureGroup`
creates the group at the end of the stream as it is then; `ReadGroup` takes a batch;
`at[w]` is the await a replica is at, from the claim of the event (`INSERT ... ON CONFLICT DO
NOTHING`) through each channel's row, sends, result and dead letter to the
acknowledgement. A write fails, or is made and its answer lost; a failing handler leaves
its entry unacknowledged and goes on, a failing acknowledgement leaves the loop and the
rest of the batch with it; a replica may die at any await and start again. What these leave
behind is in `abandoned`. The refinement maps the attempts of `Delivery` to the sends.

### Login and Session

`Login` is one account: handlers go from await to await (`at`), with what they read
(`sawLocked`) and when they started (`started`). `ComputeLockedUntil` is the loop of
`computeLockedUntil` as a recursive function of the instants, with `Scanned` as one turn of
it; `Locked` is `evaluateLockout`. The scan, the
count and the lock are three queries, so handlers interleave between them. `stale` names
the handlers that read the row before its present lock was stored. `EndsStreak` is the rule as
`lockout.ts` states it, over all attempts ever recorded; `recentForUser` returns those of one
window only, so that what a later login computes may lack the beginning of a streak, and only
the stored lock tells. History `forgone`: locks the rule asks for that a failed query did not
store, or that a stale login took away.

`Session` has calls of `refresh`, `login`, `logout` and `suspendUser`, each query one
action, from the browser, whose pair lives in two cookies, and from other clients. Access
tokens cannot be revoked and expire. A token pair nobody can use any more is forgotten so
that pairs never run out.

### Routes and Gateway

`ROUTE_TABLE`, `matchPattern`, `Decision` and the body rules are the gateway's, in their
order: limiter, parse, route, token, role, body, fields. `PageCalls` lists every call the
frontend makes, with the role whose page offers it. `Gateway` adds time: `Arrive` passes the two
limiters of the process it reaches, each with a window of its own length that opens with the
first request after the last one; `Refuse` and
`Forward` decide; the service may `Execute` before or after `GiveUp`, the 502 or 504.
Headers a client sends of its own accord (`claims`) are replaced (`seen`).

### Storefront and Panels

`Storefront` has the pages of the site as "cart", "checkout" and "other", a product's page
among the latter, and calls in `Slots`: a call may be executed, lost, or executed after its
caller was told 504 (`Rest`, `Lapse`). `Settle` is `finally` with the invalidation of the cart;
the refetch is asked, read and taken, so that reads are overtaken by writes. Which changes
the server grants is open within `Carts`. `Add` puts a
new line into the cart and goes on to the cart page (`Added`) without an invalidation, so that
the page shows the copy React Query has, while it is fresh. A page that is left is gone, what
it called for goes on; `Unloaded` is a reload, a closed tab or the provider's page, at any
moment, after which no call of before goes on in the browser, the copy is gone and the services
may still act. `Ages` is `staleTime`, `Collect` is `gcTime`. History: `drift` says that the
cart changed and nothing invalidates the copy, until it is read anew; `failed` that a call of
`pay` failed or was cut off by an unload. A document the browser keeps alive behind another
(its back-forward cache) is left out.

`Panels` is a record of parameters per component: `FulfillmentBoard`,
`SupplierProductsTable`, `KycQueuePanel`, `ActionCard` of the moderation page, `KycForm`,
`ReviewForm`, `AddToCart`, `LoginForm`, `RegisterForm`. `mark` is `busy`, `modal` and
`text` are the dialog and what is typed in it, `router.refresh` is `wanted`, `Read` and
`Show`. `passed` names the rows with a request under way whose mark another request took over
or removed by ending, `left` says that a
cancelled dialog left its text behind, which the code then offers to the next row, `drift` the
rows that were changed elsewhere or behind a lost answer.

Three things the modules do not say, though they decide what a user gets. The pages read
`/products/:id`, `/suppliers/me`, `/suppliers/me/suborders` and `/admin/kyc` in live mode,
which the gateway does not route, so that some panels have rows only in mock mode. The
panels send their plain actions without a body, which the gateway refuses with 400
(`GatewayPages.cfg`); `Panels` lets the service refuse anything. The frontend's search page
and the search service disagree on the name of the query parameter.

## 3. What TLC checks

| run | bounds | distinct states | shows |
|---|---|---|---|
| `store` | 2 products, 2 reservations, quantities 1-2, stock 1-2, TTL 2, 1 renewal, skew 1 | 45 360 | counter, set and hash agree, each hold counts once and for a bounded time (`HoldsAreConsistent`); no script oversells (`ScriptsNeverOversell`); every hold ends (`EveryHoldEnds`); the ledger is implemented (`LedgerSpec`) |
| `checkout` | 1 retailer, 1 product with 2 units, 2 items, 2 orders, 4 reservation ids, 2 requests; symmetric in items, orders, reservations, requests | 458 736 | a hold backs one line and fits it (`HoldsAreSound`), is not lost but in listed ways (`HoldsAreOwned`), ordered lines leave the cart (`OrderedLinesLeaveCart`) |
| `fulfillment` | 1 sub-order of 2 products, 1 unit each, 2 requests | 234 123 | stock adds up but where requests overlap on the sub-order or write back an unlocked row, and is mirrored (`StockIsSound`), `EveryStatusIsEarned`, `RequestsEnd` |
| `catalog` | 2 requests at a time, 3 in all, 2 replicas, batches of 2, 2 texts, 3 reviews by 2 authors | 379 622 | `ReviewsAreSound`, `IndexFollows`, `IndexCatchesUp` |
| `pricing` | quantities and prices 1-2, drafts one beyond, 2 rows, 2 requests | 353 535 | disjoint valid tiers, so that previews hold (`TypeOK`, `PreviewHolds`); the editor is not laxer than the server (`NoIssueNoRefusal`) |
| `payment` | 1 transaction, 2 handlers, 2 unanswered confirms | 60 160 | the claim is a lock (`ClaimIsSound`), effects happen once (`EffectsHappenOnce`), `SettledStays`, `PaymentsEnd` |
| `notification` | 2 replicas, 2 entries of 1 or 2 events, 2 channels, 1 retry, batches of 2, 1 death | 109 048 | what is acknowledged is settled (`DeliveryIsSound`), `Delivery` is implemented (`DeliverySpec`), no entry is overlooked (`EntriesAreHandled`) |
| `login` | 2 calls, threshold 2, window 3, 6 instants | 226 444 | the lock is the rule's, as computed and as stored (`LockIsSound`), `GuessesAreBounded`, `OnlyStaleLoginsShorten` |
| `session` | 2 calls, 2 pairs | 106 717 | `RotationIsSound`, `SuspensionBites` |
| `gateway` | 2 processes, 1 address, 1 request at a time, 11 kinds, windows 2 and 3, limits 2 and 1, 3 instants | 255 644 | `AnswersAreSound`, `RatesAreBounded`, `RequestsEnd` |
| `storefront` | 2 lines of up to 2 units, 3 in all, 2 calls at a time | 2 183 561 | `ControlsAreSound`, `ViewIsCurrent`, `StrandedByFailure` |
| `panels` | 2 rows, 2 requests at a time, all nine panels | 1 202 061 | `ControlsAreSound`, `MarksHaveRequests`, `TextIsForItsRow`, `PageIsCurrent` |

The bounds are enough for the interesting cases: with two reservations one can expire while
the other is converted, with two products an operation on one must leave the other alone,
with skew 1 and TTL 2 a hash can go before its member expires and after; with two requests
and two items every pair of requests overlaps, on the same row or on two; two
requests that cancel the same sub-order take two locks in opposite orders and deadlock;
with two handlers and two lost answers a claim is taken, released and taken again; with two
entries and two replicas an event is claimed by one and met by the other, with batches of
two an entry stands behind one that fails; with threshold 2 and window 3 a streak begins
before and ends behind the edge of a window, and two logins pass the check before either
counts; two pairs allow a pair to be issued behind a revocation; a window of 2 in 3 instants
ends once and lets two bursts meet, while the other limiter's, of 3, is still open. Requests at
the gateway share nothing but the limiters, which each passes in one step, so one at a time
suffices there, and addresses share nothing. Two calls of the storefront are a change that
overlaps an addition, a checkout or another change; three units let either line of two be
stepped up and down. Transactions of payment share no state but the sweep, and
accounts and products none, so one suffices. Stock in the checkout run is two units, where any
two wishes of different sizes compete.

Deadlock is checked in every run but four, whose systems do stop: `checkout` when its bounded
ids and orders are used up, `catalog` and `notification` when their requests and entries
are, and `payment` when its transaction is settled and its confirms are spent.

The run `fulfillment` has one sub-order. `FulfillmentPair.cfg` has two that share a product, so
that cancellations of different sub-orders overlap and deadlock: the same invariants hold in its
7 500 576 states (up to symmetry), too many to be among the runs. The theorems are about any
number of sub-orders.

### Counterexamples kept beside the runs

The following configurations end in a violation, each but `PanelsTwice` of a statement the
repository makes in a comment or a test. They document why the properties above say no more
than they do; run them with `tlc -config <file> <module>`.

| configuration | statement | what happens |
|---|---|---|
| `ReservationStoreResync` (`NoOversell`) | `ReservationService.java:8-12`: reservations never exceed the stock | a supplier lowers the stock below what is reserved; the mirror is set regardless |
| `CheckoutRefuted` (`RefusedChangeKeepsHold`) | `CartService.java:96-98`: a refused change restores the original hold | the new id is rolled back with the exception; the row names a released hold, the new hold nobody |
| `CheckoutRefuted` (`DeletedLinesAreOrdered`) | `CheckoutService.java:147`: the deleted lines have become an order | a line added meanwhile is deleted and ordered nowhere |
| `CheckoutRefuted` (`OneOrderPerLine`) | `CheckoutService.java:18-23`: a single parent order | two overlapping checkouts order the same lines |
| `FulfillmentRace` (`StatusFollowsGraph`) | `FulfillmentStateMachine.java:13-15`: any other transition is rejected | two requests validate one status and both write |
| `FulfillmentRace` (`CancelRestoresUnits`) | `CancellationStock.java:18-19`: the quantity that can be sold rises by exactly the cancelled quantity | two cancellations of one CONFIRMED sub-order both restore its units |
| `CatalogRemoved` (`RemovedIsNotPublished`) | `ProductService.java:88`: publishes a DRAFT or UNPUBLISHED product | the status is not looked at; a removed product is published |
| `PricingSave` (`CleanSaveIsAccepted`) | `TierEditor.tsx:17-18`: blocked while issues exist, the server is authoritative | a save without issues is refused, its body has other fields than the endpoint reads |
| `PaymentRefuted` (`FailedStaysPending`) | `types.ts:12`: FAILED means the sub-orders stay PENDING | a failure callback overwrites a confirmed SUCCESS |
| `PaymentRefuted` (`AckedIsApplied`) | `paymentService.ts:178`: already applied | a duplicate is acknowledged, then the claim is released |
| `NotificationLost` (`UnackedIsRedelivered`) | `consumer.ts`: the message stays unacked for redelivery | nothing reads pending entries; an entry that failed is never handled again |
| `LoginLock` (`LockIsKept`) | `lockout.ts`: a locked account stays locked until its stored expiry | a login in flight when the lock was stored clears it |
| `GatewayPages` (`MutationsPass`) | `api/bff/[...path]/route.ts`: interactive mutations are routed through this handler | the gateway answers 400 to mutations without a body |
| `PanelsTwice` (`DialogIsSentOnce`) | no statement of the repository: what its other controls keep | the button that sends a KYC rejection is disabled only without a reason, so that two presses send it twice |

`PaymentRefuted`, `CheckoutRefuted` and `FulfillmentRace` have several statements:
`tlc -continue` shows that each of them fails.
`FailedStaysPending` asks its question only where every confirm was answered and
nothing is under way, so that a lost answer is not what it shows.

### Fairness

* `ReservationStore`: the clocks run, and the reaper runs for every product
  (`@Scheduled`, errors caught and retried two seconds later). No caller is obliged to
  anything.
* `Fulfillment`: requests go on, and those waiting for a row lock queue in PostgreSQL, so
  none is passed over for ever: strong fairness of `Continue`, because the lock is taken
  and given back while others wait. Deadlocks are detected.
* `Catalog`: a transaction goes on to its end, and the loop of a replica reads and handles
  what there is. Both may fail at every step, and a replica may stop; failing is progress.
* `Payment`: a handler goes on, since queries end and the inventory call has a
  timeout, and the sweep runs by `setInterval`. Publishing the notifications is left out: a
  connection that Redis closes without an answer settles the promise of `publish` neither
  way, so that the calls are promised to end up to that point. Nobody is obliged to pay, to
  call back or to answer.
* `Notification`: the loop of a running replica goes on. Nothing says that a replica starts or
  survives, so `EntriesAreHandled` is stated for behaviours in which some replica keeps
  coming back to its read.
* `Session`: queries return or fail, and access tokens expire.
* `Gateway`: bodies arrive and the proxy's timer fires; a service need not do anything.
* `Checkout`, `Pricing`, `Login`, `Storefront` and `Panels` state safety only: their
  requests wait for people and services that owe nothing.

## 4. What is proved

Every safety invariant and every action property of the runs, and both refinements: 56
theorems, for every value of the constants that meets the named assumptions of the modules.
These ask that quantities, limits, windows, the lockout policy, `Ttl` and channels are
positive; stock levels, `MaxRenewals`, `Skew` and retries natural; that products, and the
calls and logins in flight at one time, are finitely many; that the requests clients make are
requests (`InputsAssumption`: a method, a path, a token or none, a body of some kind), and
that there is one; that the processes of the gateway are finitely many; that the carts the stock
allows (`Carts` of `Storefront`) are quantities of its lines; that the "no value" constants are outside the sets they
complement.

| module | about | proves |
|---|---|---|
| `ReservationStoreProofs` | | `TypeOK`, `HoldsAreConsistent` and its parts, `ScriptsNeverOversell`, `LedgerSpec` |
| `CheckoutProofs` | | `HoldsAreSound`, `HoldsAreOwned`, `OrderedLinesLeaveCart` |
| `FulfillmentProofs` | | `StockIsSound`, `EveryStatusIsEarned` |
| `PaymentProofs` | | `TypeOK`, `ClaimIsSound`, `EffectsHappenOnce` and their parts, `SettledStays` |
| `NotificationProofs` | | `DeliveryIsSound`, `DeliverySpec` |
| `PanelsProofs` | | `ControlsAreSound`, `MarksHaveRequests`, `TextIsForItsRow`, `PageIsCurrent` |
| `CatalogProofs` | `Pricing` | `TypeOK`, `PreviewHolds`, `NoIssueNoRefusal` |
| | `Catalog` | `ReviewsAreSound`, `IndexFollows` |
| `AccessProofs` | `Session` | `RotationIsSound`; `SuspensionCloses`, `SuspensionIsFinal` |
| | `Storefront` | `ControlsAreSound`, `ViewIsCurrent`, `StrandedByFailure` |
| | `Gateway` | `AnswersAreSound`, `RatesAreBounded` |
| | `Login` | `LockIsSound`, `GuessesAreBounded`, `OnlyStaleLoginsShorten` |

Each rests on an inductive invariant: `IInv` where a module of proofs is about one
component, `TInv` and the types of the editor for `Pricing`, and `CatalogInv`, `SessionInv`,
`StorefrontInv`, `GatewayInv`, `LoginInv`; with one lemma per action, or per action and
conjunct, and a theorem that it holds.

**ReservationStore.** Counter, active holds, one member each, and types are inductive only
together: the counter is right only if the member a script subtracts is really in the set with
that quantity and a granted id is in no other, and the sums need finite sets. Units are counted
as a cardinality, so that "subtract the units of the expired members" is the library's theorem
about the cardinality of a difference. `HoldIsBounded` needs a further invariant that relates
the age of a hold to its renewals and the time it has left. The refinement maps `holds` to the
members: every script is a step of the ledger in which some holds lapse and at most one other
thing happens.

**Checkout.** What has to be unique is not the holds but every mention of an id: in a row, in
an order, in the memory of a request that has read it or will write it (`Mentioned`, `Adds`).
`Unique` says an id stands for one row of one item, `Apart` that rows still to be inserted
have ids of their own, `HoldsFit` that what the store holds is what the row says. `Released`
says that what a request has released stays released, which is why the old id may be dropped
from the row without being leaked; `HeldIsFirm` follows a hold to a row, an order, or a
request that will write it. For the cart, `Placed` says that rows never change hands and that a
checkout about to commit deletes every row it orders. The lemmas `ControlKeeps`, `GrantKeeps`,
`EndKeeps` and `QuietEndKeeps` treat the four shapes of a step.

**Fulfillment.** A sum of changes is right because the row is locked from the read to the
commit: `Fits` says that a transaction has locked every row it will write, and writes the
stock that is in it and its own units; `LocksFit` that a locked row has a writer that set the
mirror to what it will write. Strict alternation of lock holders is never needed. The stock is
compared with the statuses, so that the step to prove is that a commit which was not `Misled`
changes both by the same units.

**Payment.** The invariant adds what a handler knows at each await (`HandlerInv`: the row is
claimed, not notified, and how many confirms have been spent), that the claim has one
holder (`Unique`), and what an unclaimed row implies (`RowInv`: every confirm so far went
unanswered). The argument is one of accounting: a confirm is spent by the holder of
the claim, and a released claim gives back only what went unanswered.

**Notification.** `BatchInv` says that the batches of two replicas do not meet, nor
what is acknowledged, and that claims point to entries somebody has handled; `OwnerInv` that
who delivers has claimed, and that nothing happened to an unclaimed event; `DeliverInv`
how far the channels have come at each await. A step of the model is then a step of
`Delivery` on one event and channel, or none.

**Pricing.** A running request has the lock, so what it read is what is stored
(`RunningHasLock`); stored tiers are therefore disjoint, at most one matches a quantity, and
the price a page finds, by whatever order its tiers came in, is the server's.

**Panels.** The marks of all nine components by one invariant over their common parameters
(`PanelFacts`): rows and forms exclude each other, and a dialog starts empty. `TwiceInv` says that two requests
for one row mean a mark that was taken over or removed, or two rejections. `PageInv` says what
a refresh under way has read, relative to what is granted and not answered yet.

**Catalog.** `WritesFit` follows a request from its read to its commit: as long as the product
has not changed since (`w \notin behind`), `rated` is the set of reviews that will be visible
after the commit, and a request without an event changes nothing search could show. The set
`behind` is what makes this inductive: a commit puts every other request that has read into it.
`LogFits` says that the last entry of the stream is what search should offer, or while
events wait for their commits, the document of one of these; `IndexAt(k)` that the index is
entry `k` of the stream and that the replicas have in hand exactly the entries read after it.
`IndexFollows` is the three together where nothing is left to read.

**Session.** `Presenting(t)` are the calls that hold the refresh token of `t` and have not
lost it yet; the exchanges of `t` and those calls are together no more than there are calls
(`ExchangesAreCounted`). An exchange takes its call out of the set, and only a call that has
found the token valid gets into it, which no call does once the token is spent. Of
`SuspensionBites` the safety half is proved: after a suspension the calls past the account
check only get fewer, a pair is issued only as one of them ends (`SuspensionCloses`), and
once there are none and access has expired, that is never undone (`SuspensionIsFinal`).
That this comes about is left to TLC.

**Storefront.** `CopyFits`: while nothing is outdated, the copy of the cart, or the answer of
the refetch under way, differs from the cart only if a call was executed and has not
settled, or `drift` tells. `OrderFits` says who may act on an order after its page has gone: a
call that failed or was cut off, or a payment under way. `PagesFit` says which page may wait for
which call, and that a cart page has a copy to show.

**Gateway.** That a request has one route follows from the table: the lemmas `MatchOne` to
`MatchFive` say what a path that matches a pattern looks like, and no two rows of a method
agree on one. The bound on bursts is about the window that is open at one process: what an
address got through in it, and what in the end of the one before (`RateFits`), counted as
cardinalities of sets of pairs of an instant and a number, so that totals add up by the library's
theorems; `PassesAdd` adds the processes up, by an injection that numbers what each let through.

**Login.** `ScanIsTheRule` proves the loop of `computeLockedUntil` right: after the turn of
instant `t` it has the failures of the streak that ends there and the lock of the last failure
that ended one of `Threshold` within `Window` (`ScanFits`). The recursive function is shown to
exist by well-founded induction on the naturals, with a least counterexample. The bound on
guesses counts those that are being verified as failures already (`Guessed`): if `Threshold`
of a row had been recorded, the last of them would lock out the login that wants to join it
(`PassedFindsFew`). `LocksFit` says that a login that is not stale started after the lock it
is about to overwrite has expired. The stored lock follows the rule by one case per action
(`LockKept`): an attempt that completes a streak is that of a login which counts next, finds the
streak whole (`SeenIsStreak`), and stores its lock.

Only model-checked: liveness (`EveryHoldEnds`, `RequestsEnd` of `Fulfillment` and of
`Gateway`, `PaymentsEnd`, `EntriesAreHandled`, `IndexCatchesUp`, `SuspensionBites`), since the
prover has no ENABLED.

## 5. Not modelled

* The endpoint that confirms orders, and the conversion of holds at payment: called, and
  implemented nowhere in the repository. `Payment` and `Fulfillment` take them as external.
* Providers' signatures and amounts, search and order queries, supplier profiles (their
  verification is a single-row update that `Panels` meets from outside), user profiles and
  listings, the admin overview, health checks, error bodies, logging: they keep no state
  shared between requests, or are pure data conversion.
* `create` of a product and the conditions for publishing one; totals and the split of an
  order into sub-orders.
* The rest of the frontend: pages that only read, styles, icons, translations, the mock
  backend; build files, deployment files, seeds and scripts.
* Compositions. `Checkout` is composed with the abstract ledger; `Fulfillment` and `Catalog`
  share the product row and are kept apart (each has the other's writes as `EditProduct`, or
  as `setStock`), since what one promises does not depend on the columns of the other.
* Loss of all data of Redis, and clocks that jump.
