# TLA+ models of the Vendure community plugins

This directory holds TLA+ models of the plugins under `src/packages`, the TLC
configurations that check them and proofs checked by TLAPS. The plugins run inside
a Vendure server, whose core (`@vendure/core`) is not part of the repository: it
is modelled from how the plugins use it and marked *external* in `PROJECT.json`,
like the services the plugins talk to.

Run a configuration with `tlc -config X.cfg M`, check a proof module with `tlapm M.tla`.

## 1. The system

| component | state it keeps | operations | talks to | what is hard |
| --- | --- | --- | --- | --- |
| Razorpay, settlement | payment rows and state of the order (core), Razorpay's order and payments | `createRazorpayOrder`, `addPaymentToOrder` with the handler's `createPayment`, the `payment.*` webhook | Razorpay, OrderService | storefront and webhook record the same capture; the webhook reads the order before its transaction; events repeat |
| Stripe | payment rows | intent with an idempotency key, webhook | Stripe, OrderService | repeated events, several intents, amounts in currencies without a fraction |
| Cashfree | payment rows, one Cashfree order per shop order | order reused after HTTP 409, `addPaymentToOrder`, webhook | Cashfree, OrderService | as Razorpay; an amount that no longer matches is Declined |
| Mollie | payment rows, held (authorized) money | intent, status webhook, sync by the storefront, settlement by an administrator | Mollie, OrderService | statuses in any order, payments that fall short, a capture and its row in two systems |
| Braintree | payment rows | token, sale, refund | Braintree | the sale is made inside a transaction that may roll back |
| Refunds of the five plugins | refund rows | `refundOrder` with each handler's `createRefund`, the refund webhooks of Razorpay and Cashfree | the gateways, PaymentService | an event before the row is committed; lost answers; what counts as done |
| Deployment tracker | one row per channel, debounce memory, cache of GitHub's answer | catalog listener, `publishChannel`, `channelDeploymentStatus`; the dashboard polls | GitHub Actions, event bus | three read-modify-writes of one row with waits in between; which run ended |
| Elasticsearch, indexing | documents, indices, aliases, job queue | product and variant events, jobs, `reindex` with the alias switch | search backend, job queue, event bus | updates during a reindex; overlapping reindexes; a switch of several calls, each of which may fail |
| Product import | validated rows by token | validate, commit, the job's writer | job queue, core services | two commits of one token; skipped rows; a job that stops half-way |
| Pub/Sub job queue | remembered queues, listeners | `add`, `start`, `init`, `stop`, `destroy` | Pub/Sub | at-least-once delivery, leases, stop during a job |
| Stellate | a buffer of events per rule and process | purge | Stellate, event bus | the CDN fills its cache while events wait |
| Shiprocket | cached clients with their tokens, shipment ids and labels | `createShipment`, the status-sync job | Shiprocket | several calls in one mutation; rows read long before they are written; a changed password |
| Elasticsearch, searching | none | queries | search backend | nothing the models could add |
| Audit log | log rows, settings row with a cache | record, settings, retention | event bus | creation of the settings row by two readers |
| Punchout gateway | session, active order | authenticate, transfer the cart | gateway | order chosen per session |
| S3, Sentry | none | one client call each | S3, Sentry | pure I/O |

What makes each modelled component correct is said in section 3 next to the property.
The hazards at their lines are in `PROJECT.json`.

## 2. Modules

| module | models |
| --- | --- |
| `PaymentLedger` | abstract specification: captured money is entered once, only captured money is entered, entries stay |
| `VendureOrder` | external: order states, transitions, payable states, the outstanding amount |
| `RazorpaySettlement` | `razorpay.service.ts`, `.resolver.ts`, `.handler.ts` (payments), `.controller.ts` (payment events), with transactions that may overlap |
| `OrderBook` | the order row, its settled payments, webhook requests, shoppers and administrators, shared by the next four |
| `StripeSettlement`, `CashfreeSettlement`, `MollieSettlement`, `BraintreeSettlement` | the service, handler and controller of each of these plugins |
| `ShopPayments` | composition of the four on one order |
| `GatewayRefunds` | `createRefund` of the five handlers, the refund events of Razorpay and Cashfree, the refund processes |
| `Catalog` | external: products, tax rates and the event bus of each process |
| `PubSubJobQueue` | `pub-sub-job-queue-strategy.ts` and a Pub/Sub subscription |
| `ProductImport` | `product-import.controller.ts`, the parser's validation, `import-writer.service.ts` |
| `StellateCache` | `stellate-plugin.ts`, `default-purge-rules.ts`, `stellate.service.ts` and the CDN |
| `CatalogImport` | composition of the four before: an import on the queue, in a shop behind the CDN |
| `Shiprocket` | `shiprocket.service.ts`, `shiprocket-client.ts`, `shiprocket-utils.ts`, the fulfillment handler |
| `DeploymentTracker` | `catalog-change-listener.service.ts`, `deployment-tracker.service.ts`, `github-deployment.service.ts`, the dashboard's calls |
| `ElasticsearchIndexer` | `indexer.controller.ts`, `elasticsearch-index.service.ts`, `indexing-utils.ts`, the events of `plugin.ts` |
| `MC...` | instances for TLC: model values, symmetry, the uploaded file |
| `RazorpayProofs`, `ShopProofs`, `RefundsProofs`, `ImportProofs`, `TrackerProofs`, `IndexerProofs`, `ShiprocketProofs` | theorems and proofs |
| `Sums` | lemmas about sums over finite sets and the greatest of a finite set of numbers |

Operators whose comment begins with `Mutant` are variants of the definition that
follows, each with a plausible bug: putting one in place of the definition must make
a run fail. They are used by no specification.

### RazorpaySettlement

One order, any number of checkouts of it. Concurrency is that of a Node server with a
database: a request is cut into steps where it awaits something another request can
change. `WebhookRead` is the read of the order before the transaction, `WebhookBegin`
the first read inside (`view`), `WebhookCommit` the rest. `view` is not refreshed, which
is what a transaction sees that read the row before another one committed. The commit
follows the branches of the controller: already settled, transition needed and refused,
transition needed and made, payable as it is. `WebhookTransitionInDefaultChannel` is the
second attempt of the transition, which the code makes with a new request context and so
outside of the transaction; it survives `Abort`. `SignatureValid` abstracts the HMAC:
only a captured payment has one. A row records the outstanding amount, as
`createPayment` does.

Switches make assumptions explicit:

- `Serial`: transactions run one by one (SQLite, or serializable isolation). FALSE is
  read committed, the default of PostgreSQL.
- `Disciplined`: the storefront does not change an order or leave its checkout once a
  checkout at Razorpay is open. Only the liveness run and the race assume it. In
  `razorpay_safety` the order is edited and left while checkouts are open and paid; the
  history variable `outdated` lists the checkouts whose order was edited after they were
  opened, for which the plugin books the outstanding amount and not the one charged.
- `QuietModify`: no administrator modifies the placed order while a webhook runs.

### OrderBook, the four settlement modules and ShopPayments

The order row has a state, a total, `covered` (what Settled and Authorized rows add up to)
and `held` (its Authorized part); `settled` lists the Settled rows. The four plugin modules
extend `OrderBook` and act on its variables, each has variables of its own for its provider's side, and
`ShopPayments` is their interleaving, with shoppers who edit the order and open several checkouts,
and administrators who modify and cancel it or enter a payment by hand. Transactions are serial here: what overlapping
ones do is the subject of `RazorpaySettlement`, and the race found there is one
of the database's isolation level, not of a gateway. What is not atomic in the code is not in the model either:

- Cashfree's webhook reads the order before its transaction (`CashfreeRead`, `CashfreeCommit`);
  its transition in the default channel survives a death in between.
- Stripe's second transition attempt is made in the default channel, outside the transaction of the
  webhook, and survives its rollback likewise.
- Mollie's webhook and the storefront's sync fetch the payment and read the order before the transaction in which
  they add the payment (`MollieRead`, `MollieEnd`). `settleExistingPayment` has no transaction: the row is
  saved (`MollieSettleExisting`) and then the order moves (`MollieTransition`), and a death in between leaves the order
  in PaymentAuthorized with nothing held. The capture and the settlement of the row, by
  an administrator, are two steps.

`ToStripe` and `FromStripe` convert amounts as `stripe-utils.ts` does, with `Unit` for the
100 of a currency without a fraction. Some things the modules say of the code that are not
obvious from its documentation: Cashfree declines a payment whose amount no longer matches the order and answers
its event 200; a Mollie payment that becomes authorized while the order is still in ArrangingPayment makes the
handler throw at every repetition; a payment that Mollie holds, captured after the order was
modified, gets a Settled row beside its Authorized one (`QuietModify` excludes that).

The shopper may edit the order while its checkouts are open, so that payments of another amount than its total
arrive. One that falls short is entered and leaves the order in ArrangingPayment, where neither Mollie's webhook and sync
(`mollie.service.ts:302-350` looks for a row only when `orderPlacedAt` is set) nor Stripe's webhook looks for a row of
it: it is entered again whenever it is brought again. The history variable `short` lists the payments that fell short
when they were entered. `mollie-payment.e2e-spec.ts:396-447` enters one id twice in this way. The README of the
Mollie plugin says (lines 124-126) that items added while a checkout is open bring the order into
ArrangingAdditionalPayment; the code leaves it in ArrangingPayment. After a short Mollie payment a Cashfree
order, made for the full total, is declined.

Switches: `Disciplined`: the storefront does not go back from the checkout while one is open with a provider,
nor into it once something is paid; what the order contains may change. `QuietModify` as for Razorpay; `OneDelivery`: Cashfree does not deliver
an event again while it is still being served.

### GatewayRefunds

One captured payment of some `gateway`, refunds of it by concurrent `refundOrder` mutations. The
row is appended when the mutation ends (`SaveRefund`), after the gateway's answer. What differs
between the plugins is which of the answers ends the refund (`Trusting`: Mollie and Braintree take an
accepted refund for Settled), who catches what the call throws (`Catching`; Stripe's handler catches only Stripe's errors and is in `Rethrowing` too, with the two that catch nothing) and who hears of it later
(`Notifying`). A refund is *instant* if the speed is `optimum` and the gateway can do it; the others
take days, which means: they do not end before their mutation does. `FindRefund` and
`TransitionRefund` are apart because the controllers await between them, so two deliveries of one
event can both find the row Pending. A Stripe refund that is pending stays Pending: no webhook of the plugin
listens for it. Switches: `StatusEvents`, Cashfree sends events of a status that is not final;
`AcceptedMayFail`, a refund that Mollie or Braintree accepted may fail later.

### Catalog, PubSubJobQueue, ProductImport, StellateCache and CatalogImport

`Catalog` has the products with counters for their changes and, per process, the events that wait in that
process's buffers: Vendure's event bus does not leave the process. `PubSubJobQueue` has, for each job, its message
and the number of its deliveries, for each worker how far its queue has come (started before or
after `init`, stopped, destroyed) and the deliveries being handled. A delivery whose lease
runs out is still handled while the next one begins. `ProductImport` follows an uploaded file
through validation, commit and the writer, which creates a product and its variants row by row, each
in a transaction of its own. A row keeps the product's name or its absence, and its validity: that decides
the grouping. `StellateCache` follows one entry of the CDN, chosen at the start: entries
do not depend on one another.

A redelivered job creates its products again, because `retries: 0` of the job is not part of the message and the
writer looks for nothing that exists; the model has the same products twice, under keys of the delivery. Partial products
of a run that died stay. The dashboard's status map, which a job run by another process never
updates, is left out. `PurgeRule`'s comment gives the default buffer time as 5000 ms, the code uses
2000; the model has no such time, only the order of events.

Commit requests may overlap and may fail before or after they queued their job; the history variable `retried` lists the
files whose commits did so. A valid row without a name goes to the product of the last valid row that has one, as
`groupByProduct` does when the row naming its product is skipped; `ListedUnder` says which product the file meant.

Switches: `DebugLogging` as the option; `QuickFills`, a shop query is
answered within the buffer time.

### Shiprocket

`attempt` follows `createShipment` call by call inside the mutation; `shipment` is what exists at
Shiprocket, which a rollback does not undo: when the courier's number cannot be assigned, the shipment stays there
without a fulfillment. `client` is the cached client of each process with the password it was made with: after the
password changed, that process is locked out until it restarts. The job reads all open rows at
once (`sync.todo`), and for each asks the carrier, saves the label and makes the transition in steps of its own, between which the
process may restart and the administrator may move the row. The carrier may report visits without delivery (at most `MaxVisits`
shipments), whose label contains that of a delivery. `byHand` lists the states that the administrator gave.

### DeploymentTracker

One channel. TypeORM's `save` writes the entity it is given, so `LoadRow`/`SaveRow`,
`LoadTriggered`/`SaveTriggered` and `LoadStatus`/`Answer` are pairs, and a save brings
back what the entity held when loaded. Time is a counter of ticks, one debounce interval
being `Debounce` of them. `Push` starts a run that no publish dispatched, as the design
document describes. A publish may come at any time, whatever the row says: the server does
not look, and the dashboard's button, off while the row is triggered, is on again after
`DEPLOYING_TIMEOUT_MS` (`deployment-status-action.tsx:147-152,187`). The dispatch is sent
(`Dispatch`), then accepted (`DispatchAccepted`) or its answer is lost and the mutation throws
while the run goes on (`DispatchLost`). The request to GitHub and the fill of the cache with its
answer are two steps (`AskGitHub`, `FillCache`), with an await between. A second insert of the row
violates the unique index and throws (`InsertedTwice`). A query keeps the row it loaded only while that
awaits a deploy, since it saves no other.

- `Calm`: a catalog write overlaps no query, no mutation, no other write and no restart. Queries and publishes
  overlap one another freely.
- `SlowRuns`: no run ends while a publish mutation is served. The mutation takes its trigger time after the
  dispatch was accepted, so a run that ends before it would be taken for an earlier one and the row would wait for the next.

### ElasticsearchIndexer

A product's documents, one per variant, channel and language in the code, are one per
channel here; the code deletes and writes them together. A document carries the version
of the product that it was made from, so "the index is up to date" can be said. A job
for a product is `Find` (which variants to delete), `Erase` (bulk delete), `Load` (read
the product), `Write` (bulk upsert), a reindex `CreateIndex`, `Page` and the steps of its
products, then `Resolve`, `Swap`, `DropOriginal`, `Cleanup`, which are the calls of
`switchAlias` in order, with the `catch` and `finally` of each. Writes go to an alias and
only succeed when one index is behind it. `Crash` may hit between any two steps.

`Starts` says what the live name may be at first: the alias of an index, an index itself, or nothing, because
the server starts without an index when it cannot create one (`elasticsearch.service.ts:115-131`). `served` is
the set of indices behind the alias, {0} where the name is an index's own. `Replace` deletes such an index before
`updateAliases` (`indexer.controller.ts:469-473`). With nothing of that name the backend may make an index of it
when a job writes a document (`MakesIndex`). The three reads of `Resolve` are one step; an index created whose alias
could not be put (`indexing-utils.ts`) is left out.
`QuietDeletes`: no product is deleted while a reindex pages through the products.
`OutsideRemovals`: a product is removed from a channel by a request made in another one.

## 3. Runs

Deadlock is not checked: every system here may stop when its bounded environment has
nothing more to do. Counters (faults, edits, modifications, changes, runs, passwords) are
bounded in the guards of the actions that increase them, by the constant of that name.

| run | checks | bounds and why they are enough |
| --- | --- | --- |
| `razorpay_safety` | `OneRecordPerCapture`, `LedgerInv`, `PlacedForTheCharge`, `NeverReopened`, `RefinesLedger` | two checkouts and two webhook workers beside the storefront: every pair of requests overlaps; one fault (death, redelivery or disabled method); two amounts and two edits or trips out of the checkout, so that an order changes, and changes back, while both checkouts are open (`Disciplined` is FALSE) |
| `razorpay_live` | `BackstopSettles` | one worker, two faults, so that an event is repeated after a death; a disciplined storefront |
| `razorpay_race` | violation of `OneRecordPerCapture` without `Serial` | finding 1 |
| `shop_payments` | `BooksMatchCharges`, `HeldOrSettled`, `StaysPlaced`, `BackstopPlaces`, `HeldMoneySettles`, `RefinesLedger` | an intent of Stripe for each total, one Cashfree order, one Mollie payment, one Braintree sale: any two providers are paid one beside the other; one worker and the storefront's sync; totals 0 (the free order), 200 and 300 in a currency without a fraction, so that the conversion shows; at most two checkouts are opened (`MaxCheckouts`), with any providers, and one edit between or after them, so that intents for both totals are open and paid and payments fall short; one modification and one fault |
| `mollie_additional` | violation of `AdditionalPaymentFinalizes` | finding 2; two Mollie payments, one for the order and one after its modification |
| `refunds` | `SettledMeansReturned`, `ReturnedIsBooked`, `NormalReconciled` | each of the five gateways; two refunds of 1 or 2 of a payment of 2 (one that leaves no room for the other, two that fit), two mutations, two deliveries that overlap, one fault |
| `stripe_refund` | violation of `ReturnedIsBooked` with `Unit` = 100 | finding 3 |
| `catalog_import` | `VariantsOfTheirProduct`, `DoneMeansImported`, `CommittedOnce`, `StaleMeansPending`, `QueuedIsImported` | a file of five rows with three products, of which the second loses its first row and not its second, and others have one and two rows; room for a second job, which a commit that fails late and is repeated makes; one request at a time, so that two overlapping commits of a file are covered by the proof only; one worker beside the server, one fault (so two deliveries, which may overlap), one edit; the CDN entry is that of a product whose rows the import writes one by one |
| `shiprocket` | `TrackedHasAwb`, `NotAheadOfCarrier`, `StatusFollows` | two fulfillments, so that the job visits one after the other; one failed visit, one fault (a failing call, a refused token or a restart), two passwords, one transition by hand |
| `tracker` | `RecordedWithinDebounce`, `IdleWhenDeployed`, `StatusClears` | four ticks hold a change that is dropped and one that is recorded; two runs, each dispatched by a publish or started by a push, in any order; one query and one mutation that overlap; one fault (a failing run or request, a lost answer, a restart) |
| `indexer` | `CurrentUnlessPending`, `EventuallyCurrent` | two products in pages of one (three pages), two channels, three changes: a change before, during and after the page of its product; the live name is an alias or an index at first |
| `indexer_alias` | `AliasStays`, `SwitchInv`, `NoStrayIndices` | two workers that reindex at once, one failing call and one crash anywhere; the live name is an alias, an index or nothing at first; one change, whose job may make an index of that name |

### Properties, in words

- `OneRecordPerCapture`: no capture is recorded by two payments. `LedgerInv`: payments, captures and
  the order's state agree. `PlacedForTheCharge`: the payment that places the order was charged
  what is booked for it, unless the order was edited after that checkout was opened. `NeverReopened`, `StaysPlaced`: a paid order never is an open cart again.
- `RefinesLedger` (two runs): the plugins implement `PaymentLedger`, with the captured payments and the list of Settled
  rows as refinement mapping. In `shop_payments` that says that no provider's
  payment is booked twice and nothing is booked that was not paid, whichever plugin acts; a payment that fell short
  when it was entered (`short`) may be booked again and is no entry of the ledger.
- `BackstopSettles`, `BackstopPlaces`: captured money settles (places) the order by webhooks alone, the latter
  unless money was taken for another price than the order has (`OutOfPrice`).
- `BooksMatchCharges`: each Settled row says what its provider charged, and the order's covered
  amount is the sum of its rows and the money held. `HeldOrSettled`: money is not
  counted twice, unless it fell short. `HeldMoneySettles`: held money that is captured does not stay a mere authorization.
- `SettledMeansReturned`: what is shown as Settled was given back, in one row with that amount.
  `ReturnedIsBooked`: money that goes back is in the books. `NormalReconciled`: a refund of Razorpay or Cashfree that
  takes its time comes to be shown as it ended.
- `VariantsOfTheirProduct`: no invalid row is written, and a variant is part of the product that the last valid row with a
  name before it began; where products are whole that is the product of the file. `DoneMeansImported`: the queue
  forgets a job only when it is complete. `CommittedOnce`: one job per file, unless two commits of it overlapped or one failed after it
  had queued.
  `QueuedIsImported`: a queued job is imported in the end. `StaleMeansPending`: whatever the CDN shows wrongly is about
  to be purged.
- `TrackedHasAwb`: a fulfillment names a shipment with a courier. `NotAheadOfCarrier`: each state that the
  administrator did not give answers a report of the carrier, a failed visit passing for a delivery. `StatusFollows`: it shows the end of the shipment in the end, unless the worker is locked out.
- `RecordedWithinDebounce`: the row is less than one debounce interval behind the last change.
  `IdleWhenDeployed`: an idle row with a publish time has had a run succeed at or after it. `StatusClears`: it does end while runs succeed.
- `CurrentUnlessPending`: what is served of a product without a job is what the database says. `AliasStays`: once the
  live name is an alias, an index stays behind it; `SwitchInv` strengthens it. `NoStrayIndices`: reindexes leave no index behind. `EventuallyCurrent`:
  the index converges.

### What the assumptions hide

The passing runs fix the switches of section 2. These are the assumptions the code does not enforce; giving the constant
the other value makes TLC find a counterexample:

| setting | then | because |
| --- | --- | --- |
| `Disciplined = FALSE` (Razorpay, assumed by `razorpay_live` and the race only) | `BackstopSettles` fails | the shopper leaves the checkout while the webhook holds its copy of the order; the event is answered 200 and the captured money is not recorded |
| `Disciplined = FALSE` (`shop_payments`) | `BackstopPlaces` fails | the shopper goes into the checkout or back from it while a webhook holds its copy of the order: the transition is refused and the event answered 200. The safety properties of the run hold on it with FALSE too; their proofs assume TRUE |
| `QuietModify = FALSE` (both) | `RefinesLedger` fails | a modified order takes payments again, and a repeated event books its payment again |
| `OneDelivery = FALSE` | `BackstopPlaces` fails | (two workers, two faults) of two Cashfree deliveries one dies after the default-channel transition; the other is refused and answers 200. Razorpay is the same with two workers |
| `StatusEvents = TRUE` | `ReturnedIsBooked` and `NormalReconciled` fail | Cashfree's PENDING or ONHOLD refund becomes Failed for good, whatever becomes of the money |
| `AcceptedMayFail = TRUE` | `SettledMeansReturned` fails | a refund that Mollie or Braintree accepted is Settled already |
| `DebugLogging = TRUE`, more products in `Watched` than `LogLimit` | `StaleMeansPending` fails | the list of keys is cut for the log, and it is the list that is sent (`stellate.service.ts:119`); `types.ts` describes the option as logging |
| `QuickFills = FALSE` | `StaleMeansPending` fails | an old answer fills the cache after the purge |
| `Calm = FALSE` | `RecordedWithinDebounce` fails | an older `lastChangedAt` is saved over a newer one |
| `SlowRuns = FALSE` | `StatusClears` fails | a run that ends before its mutation takes the trigger time is older than the publish it belongs to |
| `OutsideRemovals = FALSE` | `CurrentUnlessPending` fails | the documents to delete are looked for through the product's present channels (`indexer.controller.ts:724`) |
| `QuietDeletes = FALSE` | `CurrentUnlessPending` fails | a product deleted between two pages moves the others up, and one is skipped |

Some properties except by name what the code does not keep, and the runs have those cases:

| exception | in | because |
| --- | --- | --- |
| `outdated` | `PlacedForTheCharge` | `createPayment` of Razorpay books what is outstanding, not what was captured (`razorpay.handler.ts:85-87`): after an edit with the checkout open these differ |
| `short` | `HeldOrSettled`, `RefinesLedger` | until the order is placed Mollie and Stripe book a repeated payment again |
| `OutOfPrice` | `BackstopPlaces` | Cashfree declines a payment that no longer matches; one that falls short places nothing |
| `Aliased` | `AliasStays` | an index with the live name itself is deleted before the alias is made; when `updateAliases` fails then, or the worker dies, nothing is served, and the `finally` block deletes the new index too |
| `retried` | `CommittedOnce` | two commits of one token both find the rows before either drops them; the token is dropped after the job was queued |
| last valid row with a name | `VariantsOfTheirProduct` | a row that names a product and is skipped leaves its other rows to the product before (`import-writer.service.ts:23`) |
| "Undelivered" | `NotAheadOfCarrier` | the label contains "delivered" (`shiprocket-utils.ts:23`) |
| any run of the branch | `IdleWhenDeployed` | the comment at `deployment-tracker.service.ts:41-46` speaks of "the deploy we were waiting for", but a run that a push, an earlier publish or a dispatch with a lost answer started clears the status when it ends after the publish |
| a query's old row | `IdleWhenDeployed` | a query that saves a row loaded before a publish takes the record of that publish away; the row then is idle for the earlier one |

Not expressed by a property, because nothing in the code could keep it: the event of an instant refund that arrives before
its row is answered 200 and the row stays Pending; a change made while a workflow run is in progress counts as
published (`deployment-tracker.service.ts:59`); a publish whose save fails has dispatched a run nobody waits for (`:81`);
two workers that handle one product may write it in the wrong order; a Braintree sale or a shipment
outlives the transaction that rolls back; what waits in a Stellate buffer when its process dies, or in a purge that
fails, is never purged; customers, option groups and the audit settings row can be created twice by
two first requests.

### Fairness

- Server steps (webhook steps, commits, workers' steps, queries, the ends of mutations) are weakly
  fair: Node runs its continuations, the job queue polls for ever, the dashboard polls for ever.
- `WebhookBegin` of Razorpay, `CashfreeRead` and each `MollieWebhook` are strongly fair: the database does not starve a
  transaction that waits while others come and go, and a request that throws for a reason that
  persists does not starve the events of other providers, since each is a request of its own.
- Delivery is weakly fair through the webhook steps: an event not answered with 200 is
  sent again. A disabled payment method is enabled again at some time.
- A worker is started and initialised, a stopping process exits, Pub/Sub hands over each waiting message, the writer goes on.
  Faults are bounded, so at some time a run of the job is not disturbed.
- The interval timer queues the Shiprocket job again and again (weak fairness of `Sync`).
- A workflow run ends. Ticks go on (weak fairness, up to the bound).
- Shoppers, administrators, carriers and the providers' own decisions owe nothing: no fairness.

### Findings

1. Under read committed the storefront and the webhook both record one capture (`razorpay_race`).
2. The Mollie payment that the documentation asks for after an order was modified is taken for a
   second payment and never recorded (`mollie_additional`).
3. In a currency without a fraction Stripe is asked to return a hundred times what the shop books (`stripe_refund`).

## 4. Theorems

Each safety property, action property and refinement that a passing run checks is also stated by a theorem,
for every value of the constants; liveness is not. A theorem assumes the named `ASSUME`s of its modules, and
the switches it names as hypotheses: they hold on the passing run's instance, and sections 2 and 3 say what they mean and what fails without them.
Every proof has the same plan. The property is strengthened to an inductive invariant; there is one lemma
per action or group of actions that disturb the same conjuncts, or one per conjunct, and the theorem puts them together.

### Settling with Razorpay (`RazorpayProofs`)

- `TypeCorrect`: `Spec => []TypeOK`. `TypeOK` is inductive with its own parts; one lemma per part.
- `BooksAreRight`: `Serial` and `QuietModify` imply `Spec => []LedgerInv`. `OneRecordPerCapture`
  alone is not inductive: a webhook may hold a copy of the order that misses a payment
  that is booked by now. `StaleCopyIsHarmless` says that the order is then settled and
  takes no payment; it needs `ClosedOnceBooked` (the shop API cannot take up a paid order),
  `OneTransaction` (views are current under `Serial`), `ShopPaysOpenOrder`, and
  `EventsAreTrue` with `OnlyCapturedBooked` for the mapping. The proof has one lemma for the
  steps that commit a payment (`CommitKeepsBooks`), one for manual payments and one for
  all others.
- `RecordedOnce`, `StaysPlaced`, `ImplementsLedger` follow: the last one maps every step to a
  step of `PaymentLedger` or a stutter.
- `PlacedAtTheCharge`: `Spec => []PlacedForTheCharge`, whatever the storefront does. The strengthening `CartIsAsCharged` is about
  the time before the first row: the order is an open cart, nothing is covered, and each opened checkout asks for the
  total of now unless it is `outdated`. So the outstanding amount that `createPayment` records is the amount that was charged; afterwards
  neither the first row nor the amount of an opened checkout changes.

### An order that four plugins settle (`ShopProofs`)

- `PlacedStays` (`StaysPlaced`) needs no assumption: `OrderShape` and the transitions of the order process are enough,
  whatever the storefront and administrators do.
- `ShopInvariant`: `Careful` implies `Spec => []ShopInv`; `ShopTypes`, `BooksAreRight` and `MoneyCountsOnce` are its
  parts. `Careful` is `Disciplined /\ QuietModify /\ OneDelivery`: orders may be edited with checkouts open, and totals may lose a remainder on their way to Stripe.
  `IdsAssumption` says that the id of no gateway is that of a manual or free payment.
  `BooksMatchCharges` is not inductive alone. `AnnouncedIsTrue`: what Stripe and Mollie announce has happened.
  `HeldIsAuthorized`: at most one payment is held, and the order counts its amount. `CartIsShort`: until the order is placed all that was entered fell short of it, and in the cart it has no rows. `ExtraIsQuiet`:
  while an additional payment is awaited, nothing under way is about a payment already entered, the one state in
  which a repeated event would be booked again. `OneCashfree`: one request at a time acts on Cashfree's event.
- `ShopKeepsTheLedger`: `Careful` implies `RefinesLedger`. The proof first sorts the steps of all modules
  into what they do to the book (`BookStep`: an entry, an authorization, the settlement of what was held, or nothing),
  shows that what is entered is known to its provider with that amount and has no row, unless it fell short (`KnownMeans`, `NotInBook`), and that each provider's side
  only grows; then every step is one of `PaymentLedger`.

### Refunds (`RefundsProofs`)

- `RefundsInvariant`: `Spec => []RefundsInv` without assumptions. `EventsAreTrue`: what an event says of a refund that has ended stays true.
  `AnswersMatch`: an answer is about a refund of its own that no row names yet. `RowsMatch`: with Razorpay and Cashfree a row is the only one of its refund,
  has its amount, and is Settled only if the refund was processed.
  `Finitely`: the sets that are summed over are finite. `RefundTypes` follows.
- `SettledIsReturned`: where accepted refunds do not fail later (`~AcceptedMayFail`), `[]SettledMeansReturned`. With a webhook the rows are named;
  for the three gateways without one the books say only amounts, and `Covered` adds to
  what is Settled what the answered calls are about to settle.
- `ReturnedMoneyIsBooked`: `AsksTheAmount` (no refund goes to Stripe in a currency without a fraction, finding 3) and `~StatusEvents` imply `[]ReturnedIsBooked`, by `Booked`: a refund that has not failed has its row or
  an answer under way that will make it.

The proof found that two guards of `CreateRefundResult` overlapped; they are alternatives in the code and now in the model.

### The import and the CDN (`ImportProofs`)

- What the two loops over a file's rows compute, for every file: `RowsAreSieved` (the filter leaves rows in their order, and only invalid ones are missing),
  `RowsAreParted` (the groups are made of exactly these rows), `RowsContinue` (an imported row without a name has the same last valid row with a name before it as the imported row it follows, though rows between them were skipped), and from these `GroupsArePermitted`: the rows of a group were begun by one naming row. `WholeProductsAreKept`: where no product has lost its first row alone, that is the row the file lists them under. `KeysAssumption` only makes the set of catalog keys large enough for the deliveries of each job.
- `ImportTypes`, `VariantsAreInPlace`, `ForgottenIsImported` hold without assumptions, by `ImportInv`: only what may be imported is requested and queued (`Permitted`), a message is not
  delivered more often than faults allow (`QueueInv`), each run of a job has written the groups before the one it is at
  (`Written`), each product was written by a run for a group of its job (`Owned`), and a job that the queue has forgotten was written completely by one of its runs (`DoneIsComplete`).
- `FilesAreQueuedOnce`: `[]CommittedOnce` without assumptions, for any number of overlapping and failing commits. `Files`: unless it is `retried`, a file has one request at a time; a file that was queued is
  gone or about to be; one whose request is about to queue it was not queued before.
- `StaleIsPending`: `~DebugLogging` and `QuickFills` imply `[]StaleMeansPending`. `StaleInv` adds the answer under way to the CDN: if it is stale, an
  event that has not been handed over awaits it.

### Deployment tracker (`TrackerProofs`)

- `TrackerTypes` needs no assumption but that time may run for one debounce interval (`MaxTime >= Debounce`).
- `ChangesAreRecorded`: `Calm` implies `[]RecordedWithinDebounce`. `CalmInv` says that a catalog write is alone (`WriterAlone`), what each
  of the three read-modify-writes is going to save (`WriterHolds`, `PublisherHolds`, `ReaderHolds`), and that the row, or the
  write under way, is not behind the listener's memory (`Recording`, `Remembered`, `Covered`).
- `IdleMeansDeployed`: `[]IdleWhenDeployed` without any assumption. The row alone is not inductive, because what other requests have loaded comes back: `DeployInv` says the same
  (`Deployed`) of every entity that a catalog write or a mutation is about to save (`WritersDeployed`, `PublishersDeployed`), and that the time a query was told
  is that of a success (`ReadersTold`). A success stays one (`SuccessStays`).

### The search index (`IndexerProofs`)

- `SwitchIsSafe` (`[]SwitchInv`) and `StaysServed` (`AliasStays`, an action property) from any start, for any numbers of products, channels, workers, reindexes, failures
  and crashes. `AliasStays` needs to know that what `DropOriginal` and `Cleanup` delete is not served, and that `Replace` finds no alias:
  an index belongs to one worker from its creation (`Owner`), carries the reindex alias while it is built
  (`Building`), loses it in the very request that makes it live, and never gets it back.
- `IndexerTypes`: `[]TypeOK`. The number of indices is bounded by the reindexes asked for, so the invariant counts them, and a page holds live products:
  the pages are stated by row numbers (`RowNumber`, `ProductAt`), as the database counts rows, and those are proved to number the
  live products without gaps.
- `NothingIsLeftBehind` (`[]NoStrayIndices`): `InHand`, where no fault has occurred an index that is not served is the one its worker builds, or the one a
  worker has just taken the alias from.
- `SearchesAreCurrent`: `Alone` (an index at the start, one worker at most, no failing call or crash, `QuietDeletes`, `OutsideRemovals`) implies
  `[]CurrentUnlessPending`. `CurrentInv` says of the served index and of the one being built alike: it holds what is wanted of a
  product, or a job for the product waits (`ServeInv`, `BuildInv`); documents of channels the product has left are gone, or a job waits that will
  erase them (`Clean`, `Erasing`); a product the reindex has not come to is blank and will be on a page still to be read (`ToDo`); and what a job
  has read is what the database says, or another job waits (`ReadInv`).

### Shiprocket (`ShiprocketProofs`)

- `TypeCorrect`.
- `HasAwb`: `Spec => []TrackedHasAwb`. The strengthening `AttemptInv` says what exists
  at Shiprocket at each stage of a createFulfillment; `NothingTakenBack`, that no step undoes it.
- `FollowsCarrier`: `Spec => []NotAheadOfCarrier` without assumptions. Needed are `JourneyInv` (a
  shipment has reported its latest label, and has left before it reports anything else) and `VisitInv` (the label at hand was
  reported by the shipment visited). The rows that the job decides by may be old; what was reported stays so (`ReportedGrows`).

### Lemmas (`Sums`), and what stays with TLC

`Sums` proves what the books and the pages need of sums over a finite set and of the greatest number of one: how a sum unfolds,
that any element may be taken first, sums of disjoint unions, of parts, and along an injection. The
library's induction theorems take an operator as a parameter, which the provers cannot instantiate, so these proofs, and those about the loops of the
import, argue by a smallest counterexample: among the sets (or numbers) for which the equation fails there is a smallest,
and it does not fail there. No model that is proved about declares a RECURSIVE operator.

Only model-checked is liveness, since TLAPS does not treat ENABLED: `BackstopSettles`, `BackstopPlaces`, `HeldMoneySettles`,
`NormalReconciled`, `QueuedIsImported`, `StatusFollows`, `StatusClears`, `EventuallyCurrent`. The three violations are
counterexamples and have no theorem.

## 5. Not modelled, and what is left

Left out of the modelled components:

- the customers kept at Razorpay, Stripe and Braintree (`getRazorpayCustomerId` and its like), Mollie payments that end
  unpaid, Mollie's list of methods;
- the asset updates of the search index, the check of index settings at the start of the server;
- of the import: the status map the dashboard polls, option groups and assets of a product, the export and the
  connection to Shopify, which read products or make single calls;
- Stellate's rules for collections, channels and stock movements, which differ from the
  modelled ones in what they name only; `getLiveRate` of Shiprocket; two sync jobs at once;
- the progress bar of the dashboard.

Not modelled at all: searching only reads; the audit log appends rows and has one settings row without a defence that a
property could be about; the punchout gateway makes one request per session; S3 and Sentry are
single client calls without state; the development server, the documentation, scripts and tests are no part of a running
shop. About three quarters of the lines of the repository are GraphQL types generated for the plugins and their
end-to-end tests (`src/e2e-common`, `generated-*.ts`); they hold no behaviour, so the models stand for a small part of the
lines and for most of the server code that changes state.

Left to prove, in this order:

1. The safety half of the liveness properties: captured money has an event that is not acknowledged, a request that serves it, or
   its row (`BackstopSettles`); a queued job has a message that is not acknowledged or is complete (`QueuedIsImported`).
2. Weaker hypotheses: `PlacedAtTheCharge` without `QuietModify`, which only `LedgerInv` uses; which of the three
   parts of `Careful` each theorem of `ShopProofs` needs.
