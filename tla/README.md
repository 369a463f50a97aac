# A formal model of the raffle shop

The repository is a raffle shop in .NET: buyers put raffle tickets for donated gifts into
orders, a manager draws a winner among the confirmed tickets of a gift, and the winner is
e-mailed. It was a monolith (`WebApplication2`) and is being split into services behind a
gateway; `docker-compose.yml` deploys both. The order services work as a saga of events
over RabbitMQ; the monolith reserves tickets on Redis counters and keeps the rest in SQL.

This directory holds TLA+ modules translated from that code, TLC configurations that check
them on small instances, and proofs that TLAPS checks for instances of any size.
`PROJECT.json` maps every definition to the lines it stands for and lists the runs, the
findings, the hazards and the theorems.

Paths below are relative to the repository.

## 1. Inventory

| Part | State it keeps | Operations | Talks to |
|---|---|---|---|
| Event bus: RabbitMQ, exchange `raffle.events`, used by the consumers of three services | durable queues, dead-letter queues, unacknowledged deliveries; per process an in-memory `ProcessedMessageStore` | declare and bind, publish, deliver, acknowledge, republish with a larger `x-retry`, dead-letter, requeue when a connection or process is lost | OrderService, CatalogService, NotificationService |
| OrderService, order saga | SQL `Orders` and `OrderItems` (`IsDraft` is the only status) | checkout, confirm and cancel (`IsDraft` false / true), confirm over HTTP, add an item to an order | publishes `order.placed`, `inventory.release-requested`, `order.status-changed`; consumes `inventory.reserved/rejected` |
| CatalogService, inventory check | none of its own | on `order.placed` look every gift up and publish a result; log a release | reads MongoDB, publishes results |
| CatalogService, catalog | MongoDB collections `gifts`, `categories`, `donors` | add, update, soft-delete; `max(id) + 1` as the next id | two replicas over one database |
| NotificationService | none | on `order.status-changed` send an e-mail | SMTP |
| Monolith, ticket purchase | SQL orders and lines, Redis counter per gift | check, read gifts, reserve lines, insert, invalidate the summary, give back on an exception | SQL, Redis |
| Monolith, raffle, winners, orders, gift deletion | SQL `Winners`, `Orders`, `Gifts.IsDeleted` | draw, enter or remove a winner, confirm, add an item, delete a gift | SQL, SMTP |
| Monolith, gifts, donors and categories | SQL `Gifts`, `Donors`, `Categories` with `IsDeleted` behind query filters | add and rename gifts, add, rename and delete donors and categories, list | SQL |
| Monolith, sales summary cache | Redis key, 30 s absolute and 10 s sliding expiry | cache-aside read, invalidate | SQL, Redis |
| OrderService, raffle and winners | SQL `Winners` | draw, add, remove | SQL, SMTP |
| BffService | none | aggregate an order with its products under one 3 s deadline | HTTP to OrderService, CatalogService |
| AuthenticationService | SQL `Users`, unique index on the e-mail | register, log in | SQL |
| ApiGateway | none | route and add a correlation header | all |

What makes the parts correct, and what is hard about them:

* **Event bus.** An event that was published is never lost without a trace, whatever
  process dies and whatever call throws. Hard: the consumers mark a message as processed
  *before* they do the work, the mark is in memory, a retry is a *copy* that carries the
  same `MessageId`, a delivery tag goes stale when a connection is recovered, and no
  publish waits for a confirmation, so that a lost connection swallows what is published
  on it.
* **Order saga.** What the customer is told follows from what the catalog found; row,
  announcement and raffle pool agree; the saga ends. Hard: four processes, three publishes
  and one row change without a transaction, redelivery, two replicas that answer alike,
  a rejection that is retried under the routing key of a reservation, and a user who
  confirms the order by hand while all this goes on.
* **Ticket purchase.** Never sell more tickets than there are; give every ticket back when
  a checkout fails; an "ok" means that the basket was bought. Hard: several Redis counters
  and one SQL transaction with no common commit, a `catch` that compensates from a local
  variable, database retries that repeat a commit.
* **Raffle and administration.** A winner had a ticket; congratulations name a recorded
  winner. Hard: every rule is a query followed, after an `await`, by an insert, with no
  transaction, lock or unique index between.
* **Catalog.** Documents get ids of their own, and a gift is filed under the category and
  donor that were asked for. Hard: the id is computed one call before it is used, in two
  replicas, and every write stores the whole document that was read before.
* **Sales summary.** A dashboard lags behind the store for a while only. Hard: a
  read that computes while a checkout commits and invalidates.
* **OrderService raffle and added items.** A drawn winner's order was in the pool, although
  the saga cancels orders during a draw; items added behind the catalog's back change no
  verdict.
* **Gift administration.** No two gifts of a name, and an added gift is on the list. Hard:
  the duplicate check, the category, the donor and the insert are four calls, deleted rows
  stay behind filters, and the data source repeats an insert whose answer was lost.
* **BFF.** A 200 is complete, an error names its cause, and every request is answered. Hard:
  sequential calls with a time-out each under one deadline, content that arrives after the
  headers, and an order and a catalog that change between the calls.
* **Authentication.** Who was told of success can log in. Hard: the service compares
  e-mails letter by letter, the index and the login by collation, and two registrations
  pass the check together.

The full list, at the line where each bites, is `hazards` in `PROJECT.json`.

## 2. Modules

```
EventBus  <-- OrderSaga <-- MCOrderSaga                      saga_*.cfg
                   ^------- OrderRaffle  <-- MCOrderRaffle   orders_raffle.cfg
                   |             ^--- OutcomeProofs          (TLAPS, with OrderSagaProofs)
                   ^------- OrderSagaProofs                  (TLAPS)
                   |
                   +- INSTANCE OrderOutcome    (the abstract order it implements)
TicketPurchase <-- TicketStore <-- MCTicketStore             store_*.cfg
                        ^--- SalesSummary <-- MCSalesSummary store_checkout.cfg
                        ^--- StoreProofs                     (TLAPS)
                             ^--- TicketProofs               (TLAPS, with SalesSummary)
CatalogStore   <-- MCCatalogStore                            catalog_store.cfg
        ^--------- CatalogProofs                             (TLAPS)
GiftAdmin      <-- MCGiftAdmin                               gift_admin.cfg
        ^--------- AdminProofs                               (TLAPS)
BffAggregation <-- MCBffAggregation                          bff_*.cfg
        ^--------- BffProofs                                 (TLAPS)
Registration   <-- MCRegistration                            registration.cfg
        ^--------- RegistrationProofs                        (TLAPS)
```
(an arrow is EXTENDS; MCOrderRaffle and MCSalesSummary also extend MCOrderSaga and
MCTicketStore; TicketPurchase and BffAggregation extend Totals, the sums of both)

### EventBus: RabbitMQ and the consumer protocol

One consumer protocol is written out three times in the code
(`InventoryReservationConsumer`, `InventoryReservedConsumer`,
`OrderStatusChangedConsumer`); it is modelled once, with the service as a parameter.

| In the module | In the code |
|---|---|
| `ready`, `dead`, `bound` | copies in the durable queues, in the dead-letter queues, the queues declared so far |
| `held`, `pc`, `stale` | the delivery a handler works on, the step it is at, whether the broker has already taken the delivery back |
| `seen` | `ProcessedMessageStore`: in memory, marked by `TryMarkProcessed` *before* the work |
| `Take`, `Suppress` | `TryMarkProcessed` succeeds / fails (acknowledge and return) |
| `Throw`, `Republish`, `Nack` | the `catch` block: `RepublishWithRetryAsync` if the `x-retry` header is below 3, then `BasicNackAsync(requeue: false)` |
| `Ack`, `AckThrows`, `Abandon` | `BasicAckAsync`; on a delivery tag from before a recovered connection, it has no effect or throws, and the catch block may throw too |
| `Boot`, `Subscribe` | the host starts to serve HTTP; `ExecuteAsync` declares, binds and consumes some time later |
| `Crash` | the process dies: the broker puts its delivery back, `seen` is empty |
| `Drop`, `Reconnect`, `cut` | a consumer's connection is lost under its handler: the broker puts the delivery back (`stale`), and until the client library has recovered connection and consumer (`Reconnect`) the service is `cut`: it takes nothing, and what it publishes on that connection is `lost` |
| `Send` | a publish; `mandatory` is set, but nobody listens for returned messages, so an event without a queue is gone (`unrouted`). No channel asks for publisher confirms, so that a publish on a connection that is gone returns like any other and the event is nowhere (`lost`) |
| `Publish` | `RabbitMqPublisher.PublishAsync` of OrderService, on a connection of its own for each event, which may be lost under it (counted in `drops`) |

`tag` identifies a copy, `mid` the `MessageId` in the body that copies share. `log`,
`done`, `unrouted`, `abandoned` and `lost` are history variables: no action reads them.

### OrderSaga: the checkout saga

`SaveOrder`, `PublishPlaced` and `PublishPlacedFails` are `PlaceOrderAsync` cut at its
commit, `ConfirmOverHttp` is `POST confirm/{orderId}`; `TakePlaced`, `CheckItem`, `Reply`
and `ReleaseLogged` are the consumers of CatalogService; `TakeResult`, `ApplyResult`,
`PublishRelease` and `PublishStatus` that of OrderService; `TakeStatus` and `SendMail` that
of NotificationService. A handler is one step per database, broker or SMTP call, so every
interleaving and every crash or exception between two calls is a behaviour. `row` is the
row of OrderService: absent, draft or final. `gift` is what CatalogService would answer
about a gift; managers add and delete gifts at any time.

### OrderOutcome: what the saga promises

An order without broker, queues and processes: it is placed, the catalog decides it any
number of times, OrderService announces decisions, its row follows what is announced, its
client may confirm it by hand, mails go out. `OrderSaga` implements it: `Outcome` is an
`INSTANCE` whose `decisions` and `announced` are the verdicts among the published results
and statuses (`Decisions`, `Announcements`), `row` and `manual` are themselves, and
`ImplementsOutcome` is `Outcome!Spec` as a property of `saga_failures`. The abstract step
`Announce` is the point of the argument: OrderService announces a decision only if its row
follows it, or something (a contrary decision, a hand) has overruled it.

### OrderRaffle: OrderService's raffle and added items

Draws (`StartDraw`, `ReadPool`, `InsertWinner`, `InsertWinnerThrows`: `RunRaffleAsync`, one
step per SQL call) and winners entered by hand (`WinnerController`, the insert alone) over
the `row`s of the saga, whose steps go on in between (`SagaStep`). The notice to the winner
is sent after the answer, and its failure is swallowed: it is left out. `told` is a history
variable, the orders that had been announced as Rejected when the draw began. `AddItem` is
`AddItemToOrderAsync`: it adds a line to any order with a row, draft or not, and publishes
nothing, so `added` lines are in the raffle pool of gifts the catalog was never asked for.

### TicketPurchase and TicketStore: the monolith

`TicketPurchase` is `TicketPurchaseService.PlaceOrderAsync`, one step per SQL or Redis
call: `CheckWon` for each line, `ReadGifts`, `Reserve` for each line (the Lua script is
atomic on the Redis side), `Commit` (order and lines in one SQL transaction), `Invalidate`,
and `Release` for each reserved line in the `catch` block. `QueryThrows`, `ReserveThrows`,
`CommitThrows`, `InvalidateThrows` and `ReleaseThrows` are the same calls failing, before
or after they took effect where the client cannot tell; `CommitTwice` is
`EnableRetryOnFailure` repeating a commit whose answer was lost.

`TicketStore` adds the requests that meet the checkouts in the same tables: draws
(`StartDraw`, `ReadPool`, `CheckPurchasers`, `InsertWinner`, `RereadAndMail`), winners
entered by hand (the same steps from `CheckPurchasers` on) and removed (`DeleteWinner`),
`ConfirmOrder`, added items (`CheckDraft`, `AddItem`), gift deletion (`CheckNotOrdered`
twice, `DeleteGift`), and a `Crash` of the process with all requests it serves. `met`,
`saw` and `asked` are history variables: the winners there were when a checkout or a draw
began, and the next identity when a deletion was asked for. Properties use them to tell
what a check prevents from what only overlapping requests can do.

### Totals: sums that can be reasoned about

Tickets are sold by quantity, and prices add up line by line. A sum by recursion or by a
fold could be checked, not proved about: its laws need induction over data. `Total` counts
instead, the way `SelectRandomWinner` lists a buyer once per ticket: a line of quantity 3
is three units, and a sum is the number of units (less those of negative quantities, which
an edit may have). Its laws are then those of the cardinality of finite sets.

### SalesSummary: the manager's dashboard

`GetSalesSummaryAsync` as a cache-aside read over `TicketStore`: `Hit`, or `Miss`, four
times `Ask` (the queries of `GiftBLL.GetSalesSummaryAsync`, each a snapshot of its own) and
`Fill`. `cache` is the Redis entry with the two clocks of its expiries, which `Tick`
advances. `StoreStep` is a step of the store: the one that leaves the checkout's step
`Invalidate` removes the entry. Every gift costs 1, so that an amount is a quantity.

### CatalogStore: the catalog

Gift, category and donor requests of CatalogService over MongoDB, one step per database
call: an add of a gift walks through the collections `categories`, `donors` and `gifts`
(`Find`, `ChooseId`, `Insert`), a plain add only through its own; updates and deletes
`Read` a document and `Replace` it whole. `Throws` is a call that fails before or after
its effect, `Crash` a replica that dies with some of the requests.

### GiftAdmin: the monolith's gifts, donors and categories

`AddGiftAsync` in its four calls (`CheckName`, `FileUnderExisting` or `FileUnderNew`,
`FindDonor`, `InsertGift` or `DonorUnknown`), next to the one-call requests that add,
rename and delete parents and gifts. Rows are never removed: `Live` and `IsListed` are the
global query filters and the inner joins of `GetAll`. `Times` is the data source's
execution strategy, which inserts a row again when the answer to its commit was lost.

### BffAggregation: the details of an order

One `GET` of the BFF: `Ask`, then per call its headers (`OrderHeaders`, `GiftHeaders`), on
which `HttpClient.Timeout` runs, and its content, on which only the deadline of the whole
request runs. `Tick` is time; a timer that is due stops it. `AddItem` and `SetPrice` are
the requests of others to OrderService and CatalogService. `Routed` says whether
OrderService has the route the BFF calls. In the repository it has not: `OrderClient` asks
for `GET api/Order/{id}`, for which `OrderController` has no action although
`OrderService.GetOrderByIdAsync` was written for it, so that the BFF takes the 404 of the
route for a missing order and answers "order not found" for every order: `bff_not_found`,
with `Routed = FALSE`. A route alone would not do, since the controller also asks for
`[Authorize]` and the BFF forwards no token. `bff_details` is about the request with the
route in place, which is what the tests of the BFF mock; the proofs leave `Routed` open.
`Tax` and `GrandTotal` do the decimal rounding of the code in cents.

### Registration: the accounts

`RegisterAsync` call by call: `Validate`, `ListUsers` (with the hash that overwrites the
password in the DTO), `SaveUser`, `VerifyUser`. `Spelling` is what C#'s `==` compares and
`Address` what the collation of the index and of the login query compares. `Unstorable`
requests are refused by the save (a role that cannot be parsed, an `Id` of the client's
own, an e-mail longer than its column). Passwords are told apart and no more: the limit of
100 characters that `LoginDTO` has and registration has not is in section 4.

## 3. What the runs check

Runs that must pass:

| Run | Instance | Properties | Shows |
|---|---|---|---|
| `saga_failures` | one order, one gift, 2 catalog replicas, confirmation by hand; 1 exception, and 1 crash or 1 lost connection, a consumer's or a publisher's | `TypeOK`, `NoSilentLoss`, `SeenAccounted`, `VerdictsFollowDecisions`, `RowMatchesStatus`, `PoolIsJustified`, `ImplementsOutcome` | an event survives any single crash together with any single exception; with a connection it is lost only if it was published on one that was gone, or its handler gave up on a stale delivery; verdict, row and pool follow what the catalog published; every step is one of `OrderOutcome` |
| `saga_live` | the same with 4 replicas and 4 exceptions, fair services, no crash | `NoSilentLoss`, `RetriesDuplicateNothing`, `PlacedIsSettled` | a placed order ends with a mail (or a refused one) or with a dead letter; the retry limit of 3 is reached and passed, and retries neither lose nor duplicate |
| `orders_raffle` | from a cold start, an order of 2 gifts, placed as final or as a draft, to which a third is added at any point of its saga and then raffled; a winner entered by hand, confirmation by hand, managers adding and deleting gifts, 1 exception | `NoSilentLoss`, `VerdictsFollowDecisions`, `RowMatchesStatus`, `DrawnWinnersWereInThePool` | an event whose queue is not there yet is lost, and no other; an order is reserved only if both gifts it was placed for were there, whatever is added; row and status agree also for an order placed as final; only a rejection that overlaps the draw or follows it leaves a drawn winner without a confirmed order |
| `store_checkout` | 2 checkouts of the last bike, one with a ring before it, one a draft that is confirmed later; an item of quantity 1 or -1 added to it; 1 failure (a failed call or a crash), 1 gift deletion, a dashboard | `NoOversell`, `NoTicketIsLost`, `OkMeansBought`, `DeletedGiftsWereUnsold`, `SummariesLagBehind`, `CacheSettles` | the counters never promise more than was seeded; failed checkouts give everything back; an "ok" bought the basket; a soft delete overtakes no order that was there when it was asked for; the dashboard never shows revenue or orders the store does not have, whatever is edited, all its figures err on the late side unless a gift is deleted or a confirmed line is negative, and it becomes right when orders stop |
| `store_draw` | 2 checkouts, one a draft, 2 draws, a hand-picked winner, an edit with quantity 0, a removed winner, 1 failure | `StoreTypeOK`, `DrawnWinnersHadTickets`, `MailsMatchWinners`, `RaffledGiftsAreLeftAlone`, `FinalOrdersStand` | who is drawn had a confirmed ticket before; congratulations go to a recorded winner of that gift; a second winner and a ticket of a raffled gift come only from requests that overlap, a late line only into an order placed as a draft |
| `catalog_store` | 2 adds of gifts wanting the same new category and donor, an add of a category, an update, a delete, 1 failed call or dead replica | `GiftsAreFiledAsAsked`, `SomeAddSucceeds`, `AddedGiftsExist`, `DeletedComesBackOnlyByUpdate` | ids computed twice never file a gift wrongly, and cannot make every add fail; only an update that had read the gift before brings it back |
| `gift_admin` | 2 managers, 2 gift names, 2 categories, a donor, 5 requests, 1 request that dies or an insert that is repeated | `AdminTypeOK`, `TwinsHaveACause`, `AddedGiftsAreListed` | two gifts of a name need an overlap, a rename, a hidden parent or a repeated insert; an added gift is listed where it was asked for |
| `bff_details` | an order of none, one or two lines, or none at all; 2 changes meanwhile, 1 failed call, every delay | `BffTypeOK`, `AnswersAreComplete`, `BlameIsDeserved`, `RequestsEnd` | with the route in place answers are complete, errors are deserved, and there always is one |
| `registration` | 6 registrations, 3 of one address in two spellings, one malformed, one that cannot be stored; 2 failed calls or lost answers, 1 crash | `RegistrationTypeOK`, `RegisteredOwnsAccount`, `ErrorsAreTrue`, `RegistrationGivesNoToken` | the unique index makes up for the check; a success owns the one account of its address, an error is true, and no registration is answered with a token |

Runs that TLC must refute, each because the code does something else than the repository
says (quotations in `findings`):

| Run | Property | What the code does |
|---|---|---|
| `saga_retry_suppressed` | `RetriesDeliver` | the retry copy keeps its `MessageId`, which the same process has already marked; with one replica it is acknowledged unhandled and the order is never decided |
| `store_error_bought` | `ErrorMeansNotBought` | the cache invalidation runs inside the `try` block, so a Redis error gives the tickets of a committed order back and answers with an error (`MaxSqlFaults` is 0, so that Redis alone can fail) |
| `bff_not_found` | `NotFoundMeansAbsent` | OrderService has no route for the BFF's request, so an order that exists is "not found" |

`saga_retry_suppressed` and `saga_live` belong together. A suppressed retry is not a silent
loss in the sense of `NoSilentLoss`, because the original was dead-lettered when its copy
was published: that is why `PlacedIsSettled` holds although `RetriesDeliver` does not, and
the dead-letter queues, which nothing consumes, are where an operator has to look.

Other disagreements show in what the passing properties have to allow:

* A replica that dies between its publish and its acknowledgement lets another one decide
  again, so that a customer can be told Confirmed and then Rejected, although
  `docs/ARCHITECTURE_DOCUMENT.md:135` speaks of idempotent consumers. `OrderOutcome` allows
  any number of decisions; `RetriesDuplicateNothing` therefore excludes crashes.
* Two overlapping draws record two winners of a gift, and a checkout that overlaps a draw
  sells tickets of a raffled gift. `RaffledGiftsAreLeftAlone` says that nothing but an
  overlap does.
* An order that is committed between the second check of a gift's deletion and the soft
  delete loses its gift, although `Instructions/DATA_INTEGRITY_DOCUMENTATION.md:13` says
  that a gift with orders cannot be deleted. `DeletedGiftsWereUnsold` says that every
  ticket a deletion leaves behind was inserted after it had been asked for.
* No publish waits for a confirmation, so a lost connection takes the event along that was
  published on it, although `docs/adr/ADR-2026-07-07-RabbitMQ-EventBus.md:18` speaks of
  at-least-once delivery: `NoSilentLoss` counts `lost` among the three ways to lose one.
* An edit may ask for a negative quantity, since `AddItemRequest` has no `[Range]`. Tickets
  of a gift and of all gifts can then fall under a summary that is being computed, so
  `SummariesLagBehind` promises these figures only while no confirmed line is negative;
  revenue and orders it promises always.
* Two managers who add a gift of one name at the same time both succeed, and so does a
  rename to a name in use or an add while the first gift is hidden with its donor:
  `TwinsHaveACause`.
* Slow services are answered 424 and not 504 when the deadline of the whole request ends
  the call, since the filter `when (!ct.IsCancellationRequested)` lets that pass as a
  failure: `BlameIsDeserved` counts such a deadline among the causes.
* A line added to an order after its `order.placed` went out is in the raffle pool of a
  gift which nobody asked the catalog about: `DrawnWinnersWereInThePool` promises a line,
  not a gift that is there.

Each passing property is paired in `PROJECT.json` with a mutant of the modelled code (a
dropped guard, a missing reset, a forgotten filter) that TLC finds to violate it. The
mutants are the definitions commented `mutant` in the modules; nothing else uses them.

### Bounds, and why they are enough

* **Processes.** `Catalogs` has two replicas, as `docker-compose.yml` deploys
  (`catalogservice`, `catalogservice2`); four in `saga_live`, because a retry copy is
  handled only by a process that has not marked its `MessageId`, so that passing the limit
  of 3 takes four processes. Replicas run the same code, hence the symmetry set; the
  liveness run uses none. A single replica is enough for `orders_raffle`. OrderService and NotificationService are deployed once.
* **Orders and gifts.** Handlers share no state between orders except `seen` and the
  queues, both by message, and the theorems of section 5 hold for any number of orders; the
  runs have one. Its two items (`orders_raffle`) are enough for a loop that stops in the
  middle, and a third gift for an item the catalog is not asked about.
* **Failures.** `MaxFaults` bounds exceptions of the saga, `MaxLosses` its crashes and lost
  connections together; `MaxFaults` of the store and `MaxFailures` of the catalog bound
  failed calls and crashes together. One crash and one exception anywhere, or one lost
  connection and one exception anywhere, cover every pair of failures around one handler.
  `MaxSqlFaults` bounds the SQL calls among the failed calls of the store; it is `MaxFaults`
  but in `store_error_bought`, where it is 0. In `store_checkout` one failure is enough for
  a line that is refused, a commit that fails or a process that dies after lines were
  reserved. The theorems of section 5 have no such bounds.
* **Clients.** `DraftChoices` and `ManualOrders` (saga) and the constant sets of requests
  (store, catalog) bound what clients do. `DraftChoices` is both values in `orders_raffle`;
  in `saga_failures`, where every order is placed as a draft, a hand makes it final. An
  update, a deletion or a draw is one request and happens once. `orders_raffle` has no
  crash: a draw that dies with OrderService has recorded nothing, and `OutcomeProofs` covers
  it.
* **Quantities.** One bike in stock for two baskets makes the last ticket contested on the
  *second* line of one of them, after its first is reserved. `EditQuantities` is `{0}` in
  `store_draw`, the numeric edge of the pool (`RaffleSarviceBLL.cs:104`), and `{-1, 1}` in
  `store_checkout`: added lines bypass the counter, have no `[Range]` and reach the sums of
  the dashboard.
* **Administration.** Five requests and one failure are enough for every pair of overlapping
  adds with a third request in between and one after; two names make a rename meet an add.
* **Registrations.** Three requests for one address, two of one spelling and one of another,
  are every way two comparisons can disagree; the others (another address, unstorable,
  malformed) are one each.
* **Identities.** Identity columns, tags and `MessageId`s come from counters that only
  grow as long as an event or row is created, so they need no bound of their own.
* **Time.** In `bff_details` a tick is half a second: `CallTimeout` is 2 and `Deadline` 6,
  so that the third call is the first that the deadline can cut before its own time-out.
  `MaxAge` and `MaxIdle`, 30 s and 10 s in the code, are 3 and 2 ticks: an entry
  can be renewed by a reader and still be old. `SalesAssumption` asks for `MaxIdle < MaxAge`
  and nothing else of them.

Deadlock checking is off in all runs: when every client request has been answered and the
failure budget is spent the system has nothing to do, which is what it should do then.

### Fairness

Only `saga_live`, `saga_retry_suppressed`, `store_checkout` and `bff_details` assume any.
`Fairness` gives weak fairness to the work of every running service, to its protocol steps,
to the publish of a request in progress and to a started process subscribing: the .NET scheduler runs a ready
continuation, and the broker hands a consumer with free capacity the messages of its
queue. Clients, managers and every failure are unfair, and so is `Boot`: no container of
these three services has a restart policy, so that a process which died need not come
back. Therefore the liveness run has no crash, starts warm, and does not speak of one.

`SalesFairSpec` of `store_checkout` has two parts: time passes (`Tick`, Redis expires keys),
and a dashboard request that has started goes on. Checkouts, confirmations and dashboards
that ask again owe nothing: `CacheSettles` holds also when one of them stops anywhere or
when a dashboard asks for ever.

`FairSpec` of `bff_details` makes time pass and due timers go off, and nothing else: the
other services owe no answer. `RequestsEnd` therefore rests on the two timers alone.

## 4. What the models leave out

* **Delivery order.** A queue is a set. RabbitMQ redelivers near the old position and two
  replicas compete, so an order between messages is not something the code may rely on.
* **One delivery at a time.** The client dispatches the deliveries of a channel serially;
  a service therefore has at most one delivery in hand, and after a recovered connection
  the stale handler may finish beside the new dispatch loop. A new loop that does more
  than suppress duplicates or log releases while the stale handler works is not modelled.
* **Poison messages.** Bodies that do not deserialize are dead-lettered by the code; no
  publisher in the repository produces one. Partial declaration (a crash between two queue
  declarations) is one step, `Subscribe`.
* **OrderSaga**: quantities, which neither the catalog's answer nor the row depends on.
  Adding and deleting a gift is atomic here and split in `CatalogStore`. Every status is
  mailed with the same text, a raffle winner's; the text is not modelled.
* **External**: RabbitMQ, Redis, MongoDB, SQL Server and the client libraries are modelled
  from how the code uses them. Redis counters are taken as seeded by an operator: nothing
  in the code creates `raffle:{gift}:available_count`. The Lua script is taken to run as
  written; whether `LuaScript.ToString()` hands Redis its text is a matter of the library.
  SQL Server's default collation and foreign keys are taken as documented.
* **Monolith**: a donor update whose body carries gifts; read-only queries;
  `RemoveOrderItemAsync`, which no endpoint calls; `TicketDal`, every method of which throws
  `NotImplementedException`. A cancelled request is covered as a call that throws.
* **AuthenticationService**: logins are reads of the rows `Registration` has, behind a check
  of the request; hashing and tokens are cryptography. No endpoint calls `UserDal.Delete`.
  `LoginDTO` (`LoginDTO.cs:12`) refuses passwords of more than 100 characters, which
  registration accepts and answers with "You can now log in" (`AuthService.cs:69`): such an
  account is its owner's (`RegisteredOwnsAccount`) and can never be used. Two attributes
  disagree here, no step or state, so this is noted and not modelled.
* **Not modelled**: ApiGateway (stateless), middlewares, mappings, SMTP, generated
  migrations, Razor pages and the scripts under `wwwroot` (templates and vendored
  libraries), `RedisInventoryService` and `InMemoryOrderRepository` of OrderService,
  `RemoveItemAsync` of its repository and `CacheInvalidationService` of
  NotificationService, which nothing uses.
* Known consequences of the code that no property forbids, because nothing in the code
  prevents them: an order whose event was never published, two winners of one gift from
  overlapping draws of OrderService, a mail that the SMTP server refuses, a removal of a
  winner that is cut short with its request.
* **Lost connections while a consumer is idle** change nothing a property sees: the broker
  has nothing to put back, and the next delivery waits for the recovery.

## 5. What is proved

`OrderSagaProofs` proves, for every set of orders, gifts and replicas, every assignment of
gifts to orders and every number of exceptions, crashes and lost connections:

* `TypesAreInvariant`: `Spec => []TypeOK`. `TypeOK` is inductive; the part that is not
  plain typing is that a handler has a delivery in hand exactly while it is at work.
* `NothingIsLostSilently`: `Spec => []NoSilentLoss`. It counts a publish on a lost
  connection as lost, which the code lets happen: what is proved is that
  besides the three known ways nothing is lost.
* `MarksAreAccountedFor`: `Spec => []SeenAccounted`.
* `VerdictsAreDecisions`: `Spec => []VerdictsFollowDecisions`.
* `PoolNeedsAReason`: `Spec => []PoolIsJustified`.
* `RetriesAreHarmless`: `Spec => []RetriesDuplicateNothing`.

`NoSilentLoss` is not inductive. `Suppress` throws a copy away because its `MessageId` is
marked; that is safe only if whoever marked it answers for the event. The inductive
invariant `Accounts == TypeOK /\ SeenAccounted /\ NoSilentLoss` says so: a marked message
is in the hand of *that* process, or dead-lettered, handled or given up. `saga_failures`
checks all three conjuncts. The proof of the step
(`NextIsSafe`) shows for every action that what was accounted for stays so and that new
events of `log` are accounted for. Actions fall into those that take nothing away
(`TakingNothingIsSafe`), those that pick a delivery up (`TakeIsSafe`), throw one away
(`SuppressIsSafe`), or end a handler, which must leave a trace of its event
(`LeavingIsSafe`).

`VerdictsFollowDecisions` relates published events, but a handler publishes from the copy
in its hand, which may be a requeued delivery or a retry with a changed routing key. The
inductive invariant `Decided` therefore adds `Origins` (every copy in a queue or a hand
goes back to a published event of the same order, success and queue; a retry key leads to
the queue its delivery came from, `RepublishKeepsOrigins`) and `Progress` (a catalog
handler has seen every gift it has ticked off; OrderService releases only on a rejection,
and announces one only after the release). `Backed` then says event by event what must be
published before it, and is never taken back because the log and the known gifts only
grow. `Origins` is also what `PoolIsJustified` needs: the result `ApplyResult` confirms
on was published (`ResultBehind`).

`RetriesDuplicateNothing` is about retries that no single process can tell from duplicates:
a retried delivery is for a while both in its queue and in the hand of the handler that
failed, and another replica, whose store does not know the `MessageId`, may take the copy.
The inductive invariant `Once` goes by stage, as long as nothing crashed and no connection
was lost (`Calm`). For the catalog, whose replicas do not share a store, the right to
publish a result of an order is a token: one copy in the queue, or one handler before its
acknowledgement, or a published result, never two of them (`CheckedOnce`). OrderService and
NotificationService have one instance each, so there the marks do the work: they publish
from a delivery marked in their own store, and an order has one result and one status to
mark (`AnsweredOnce`, `MailedOnce`). A copy must for that have the `MessageId` of the event
it goes back to, which `Origins` includes, and a delivery in hand must be marked (`Marked`).

Assumed are `BusAssumption` and `SagaAssumption`: the processes are distinct, `NoMsg` is
no message, the bounds are numbers, every order asks for some gift. TLC evaluates both on
every saga run.

`OutcomeProofs` shows that the saga implements `OrderOutcome`, and what it inherits:

* `SagaImplementsOutcome`: `Spec => ImplementsOutcome`.
* `RowsMatchAnnouncements`: `Spec => []RowMatchesStatus`.

The step that has to be justified is `PublishStatus`, which must be an abstract `Announce`:
the verdict was decided (`Decided`) and the row follows it or is overruled. The latter is
`RowFollows`, which holds from `ApplyResult` to `PublishStatus` since only a confirmation by
hand writes the row meanwhile; `Placed` ties the row to the checkout and says that no event
is about an order without a row. `RowMatchesStatus` is then proved of the abstract order
(`OutcomeKeepsAgreed`) and carried over.

It also carries the saga's invariants into its composition with the raffle, under the
assumptions of both (`RaffleAssumption`):

* `WinnersWereInThePool`: `RaffleSpec => []DrawnWinnersWereInThePool`.

A step of a draw changes nothing of the saga, an added item is no order of it, and every
other step is one of the saga (`Known`). `FairDraws` follows a draw from the statuses that
had been announced when it began, over the tickets it read, to its winner: an order in the
pool was out of draft at that moment, so that by `RowMatchesStatus` it had not been told of
a rejection before, unless overruled.

`StoreProofs`, of `TicketStore` for any requests, baskets and number of failures, repeated
commits and crashes, assumes `PurchaseAssumption` and `StoreAssumption` (there is a user,
and a request is of one kind):

* `StoreTypes`, `RaffledGiftsStayAlone`, `DeletionsSpareSoldGifts`, `MailsAlwaysMatch`.

The inductive invariant is `Orderly`. `StoreTypeOK` in it says that identities are old and
unique, without which a fresh row could be taken for one a request had seen.
`DrawsSawNothing` is what a draw knows between its check and its write, and
`DeletionsFaceYoungTickets` what a deletion does, which must hold over both its looks: a
draft that is confirmed between them is seen by the second, and tickets inserted since are
younger than the request (`DeletionsStayAhead`, `CheckoutTicketsAreYoung`).
`CheckoutsAreClear` follows a basket line by line: no winner a checkout met at its start is
of a line that passed, what is reserved was asked for, and whoever has an order is past the
commit. The multi-line basket, which no run of the draws has, is covered here.

`TicketProofs`, on top of it, keeps the books of the tickets, for any stocks and baskets of
any length as well:

* `NothingIsOversold`: `Spec => []NoOversell`.
* `TicketsComeBack`: `Spec => []NoTicketIsLost`.
* `OkBuysTheBasket`: `Spec => []OkMeansBought`.
* `WinnersHadTickets`: `Spec => []DrawnWinnersHadTickets`.
* `FinalOrdersAreFinal`: `Spec => []FinalOrdersStand`.
* `SummariesStayBehind`: `SalesSpec => []SummariesLagBehind`.

The invariant is `Orderly /\ Whole /\ Accounted`. `Whole` is about the tables: an identity
names one order, the lines a checkout inserted under it are the rows of its basket, an
order that was not placed as a draft has no others (`Books`); what is reserved is a
beginning of the basket (`ReservedAlong`); a winner a draw has chosen had a ticket when the
order was there, and still has one, because orders do not become drafts again
(`DrawsChooseBuyers`). `Accounted` is the ledger of each gift: sold, held and available
tickets are at most the stock unless a checkout was committed twice or gave back what it
had bought, and at least the stock unless Redis failed or the process died. Every step of a
checkout moves a quantity from one of the three columns to another: `Reserve` from the
counter to what is held, `Commit` a whole basket from held to sold, `Release` back, line by
line. The laws of `Total` that this needs (a sum over disjoint parts, a member changed, an
index set renamed) come first in the module.

`SummariesStayBehind` compares four sums read at four moments, for any edit quantities.
Revenue and orders count the orders that are out of draft and what their gifts cost, which
only grow. The other figures sum quantities. Their part of the invariant says how
far each figure of a request under way is behind the store and behind the figures read
after it, query by query (`Behind`), as long as the store is `Regular`, that is no gift is
deleted and no confirmed line is negative; once one is, it stays so, and the part is void.

`CatalogProofs`, of `CatalogStore` for any requests, names and number of failed calls and
dead replicas, assumes `CatalogAssumption` (there is a name, a request is of one kind, and
`"past"` is none):

* `GiftsAreAlwaysFiled`, `AddsAreThere`, `DeletesHold`: `Spec => []` of
  `GiftsAreFiledAsAsked`, `AddedGiftsExist` and `DeletedComesBackOnlyByUpdate`.
* `SomebodyGetsThrough`: `Adds # {} => (Spec => []SomeAddSucceeds)`.

The invariant of the first three is `Catalogued`. The argument does not use how ids are
chosen, only that an insert of a taken id throws: every step leaves the documents alone, adds one under a free
id, or puts a document in the place of the one of its id (`Writes`), so that each has a
successor of the same id, references and origin (`Evolves`). What was filed right stays
filed right (`FiledStays`). `CopiesAreOfDocuments` is what an update or delete knows between its
read and its write, `ReferencesAreFiled` what an add of a gift knows between two
collections, and `DeletesLast` who may still bring a deleted document back.

`SomeAddSucceeds` does depend on the ids. `Prospers` says that a collection has a largest
id, so that the next one is free when it is computed, and that an add whose id is taken by
now has been beaten by one that got past the collection (`Somebody`). When all adds are over
and none has succeeded, the one that beat a loser at the categories lost later, at the
donors or the gifts, to one that had got further, and nobody gets past the gifts without
succeeding. Without any add there is nothing to succeed, hence the hypothesis.

`BffProofs`, for any orders, prices, changes, failures and lengths of the timers:

* `BffTypes`, `BlameIsAlwaysDeserved`, `AnswersAreAlwaysComplete`: `Spec => []` of
  `BffTypeOK`, `BlameIsDeserved` and `AnswersAreComplete`.
* `AnswersListOneRow`, which no run states: the lines of a 200 are the lines of one row the
  order had during the request, at prices the gifts had.

`Honest` is its invariant: what is read followed by what is left to read is a row of the
order's history (`OnOneRow`), prices are of the history (`AtRealPrices`), and every tick
that passed belongs to a call, at most `CallTimeout` to each, or to content (`TimeIsSpent`). `Truthful` adds that the
histories hold one row and one price per gift until something changes, so that the sum of
the answer is the sum over that row (a total by `Totals`, here of lines). None of the
theorems assumes `Routed`: without the route they say of the answers what they say with it,
but there is no 200 then. That a 404 means an absent order is false of the repository and
not proved of anything.

`RegistrationProofs`, for any requests, spellings, faults and crashes:

* `RegistrationTypes`, `SuccessOwnsTheAccount`, `ErrorsAreAlwaysTrue`, `TokensComeFromLogin`:
  `Spec => []` of `RegistrationTypeOK`, `RegisteredOwnsAccount`, `ErrorsAreTrue` and
  `RegistrationGivesNoToken`.

`Accountable` adds that an address has one row (`OneRowEach`), that a request has its row
from its insert on and none before (`OwnRows`), and that one in progress has met no fault.
The assumption used is that equal spellings are one address to the collation.

`AdminProofs`, of `GiftAdmin` for any managers, names and number of requests and failures:

* `TablesStaySound`: `Spec => []AdminTypeOK`.
* `TwinsAreNeverAnAccident`: `Spec => []TwinsHaveACause`.
* `InsertedGiftsAreOnTheList`: `Spec => AddedGiftsAreListed`, an action property.

Neither property is inductive. As long as nothing has gone wrong in one of the ways the
property names (`meddled`), no gift has a name that a request in progress asks for, and no
two of these ask for the same (`Apart`): that is what the check has found, and what nobody
else may spoil until the insert three transactions later. A request no other has overtaken
still finds the category and the donor it has found before (`Followed`). TLC checks the
whole invariant (`IInv`) on the instance of `gift_admin`.

Only model-checked:

* liveness under fairness, which is beyond the prover: `PlacedIsSettled`, `CacheSettles`,
  `RequestsEnd`.

Every safety property of the passing runs, invariants and action properties, and the
refinement of `OrderOutcome` are theorems.

## 6. Plan

Written, most important behaviour first: `EventBus`, `OrderSaga`, `OrderSagaProofs`,
`TicketPurchase`, `TicketStore`, `CatalogStore`, `SalesSummary`, `OrderRaffle`,
`BffAggregation`, `OrderOutcome` with `OutcomeProofs`, `StoreProofs`, `BffProofs`,
`Registration` with its proofs, `GiftAdmin`, `CatalogProofs`, `Totals` with `TicketProofs`,
`AdminProofs`.

Left, in this order:

1. An abstract counter of tickets per gift, reserved, sold or given back, implemented by
   `TicketPurchase` as long as no commit is repeated and no checkout fails after it; the
   laws of `Total` it needs are there.
2. A donor update whose body carries gifts, if somebody needs it.

## 7. Running

```
tlc -workers 2 -config saga_failures.cfg MCOrderSaga       # saga_live, saga_retry_suppressed
tlc -workers 2 -config orders_raffle.cfg MCOrderRaffle
tlc -workers 2 -config store_checkout.cfg MCSalesSummary
tlc -workers 2 -config store_draw.cfg MCTicketStore        # store_error_bought
tlc -workers 2 -config catalog_store.cfg MCCatalogStore
tlc -workers 2 -config gift_admin.cfg MCGiftAdmin
tlc -workers 2 -config bff_details.cfg MCBffAggregation    # bff_not_found
tlc -workers 2 -config registration.cfg MCRegistration
tlapm OrderSagaProofs.tla
```
and `tlapm` likewise for `OutcomeProofs`, `StoreProofs`, `TicketProofs`, `CatalogProofs`,
`BffProofs`, `RegistrationProofs` and `AdminProofs`. The longest run takes three minutes.
