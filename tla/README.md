# A TLA+ model of the go-service-template

This directory models `src/go-service-template`, the Go service the platform of
this repository hands to its users: a Product API over REST and gRPC, backed by
a SQL table and a Redis cache, with an Excel export, a queue consumer and a cron
process beside it. The other directories of the repository (`docs/`, `argocd/`,
`kind/`, `.agent/`) are plans and manifests; their sentences are used as claims
to check the service against, they hold no code.

All paths below are relative to `src/go-service-template`.

## Inventory

| Component | State it keeps | Operations | Hard behaviour | What makes it correct |
|---|---|---|---|---|
| **Product service** `internal/service/product_service.go`, with `internal/repository`, `internal/types/entity`, `internal/handler/product_handler.go` | the `products` table, the Redis entries by SKU; locals of every running request | GetProduct, CreateProduct, UpdateProduct, DeleteProduct, GetProductFromCache, ListProducts | every handler makes two calls on shared state, and any other request may run between them; each call may fail, or succeed and be reported as failed; deadlines; copies that are stored late | keys stay unique; deleted stays deleted; the cache holds the right product and no copy beyond a bounded age; each answer is right at some instant of its request; requests end |
| **Product export** `internal/export`, `ExportProducts` | cursors, current row, sheet and file of one export | Start, one loop turn per page | products come and go between pages; deadline; a page that is exactly full; a Flush whose error is dropped | no product that stays is missed (but by Flush), none is invented, none has two rows; the export ends |
| **Product listing** `ListProducts`, `FindWithPagination`, `product.pb.validate.go` | nothing of its own; a client's walk through the pages | validate, count and read a page | each page is a request, each request two queries, and products come and go in between | without such a change nothing is hidden or repeated, pages agree with their totals; filters mean what they say |
| **Transport** `api/product/*_http.pb.go`, `*_grpc.pb.go`, `internal/handler` | one call: request, answer, what the client was told | parse, default, validate, call, write | the server ends a call at its deadline while the handler runs on; responses that cannot be written; defaults over one transport only | what the client is told is how its operation returned, and is told once; nothing out of range is served |
| **Kafka check** `product_handler.go` `CheckKafka` | one producer per request | open, send with 3 s, close | no broker answers before the deadline, the send fails or panics | producers do not leak; every check ends |
| **Queue consumer** `internal/consumer`, `cmd/consumer` | messages in work, offsets of the broker | Start, Consume | panics, commits out of order; crashes, rebalances and broken connections, which redeliver what may still be in work | a message is lost or repeated only for a known reason |
| **Registry** `internal/registry`, `service_factory.go`, `entity/migrate.go` | contexts, lazily built singletons, the schema | load, open, migrate, wire, register | servers race for the migration and may stop half way, or cannot finish it; two threads build one service; embedded nil interfaces | nobody serves without the index; built once; all servers come up |
| **Cron**, **configuration** | none | one command; loading | | part of the start-up |
| **Security contexts**, **product information mapper** | none | | | nothing to check: bodies commented out, no caller |

Requests reach the product service through the generated transport code and
`ProductHandler`, which validates and delegates. The service calls the table
through the repository (`helper/sql/repository`, not in this repository) and
Redis through `cache.Cache` (`helper/cache`, not in this repository). The only
state two requests share is the table and the cache; nothing in the service
locks or retries. Export and listing read the same table page by page. The
consumer and cron processes share nothing with the servers but the database,
whose table the servers create.

## Modules

| Module | Role |
|---|---|
| `ProductTypes` | rows, documents, requests, answers, and what SQL statements do to a set of rows |
| `ProductCatalog` | abstract specification: every request takes effect at one instant |
| `ProductService` | the handlers of `productSvcImpl`, one action per call on the table or the cache |
| `ProductProperties` | type invariant, safety, liveness, the refinement mapping, claims that fail |
| `MCProduct` | TLC instances of the service (symmetry of requests) |
| `ProductProofs` | proofs about the service: types, safety, the age of cached copies, and that it implements the catalog |
| `ProductExport` | one export next to inserts and deletes, and its properties |
| `MCExport` | TLC instance of the export: rising ids |
| `ExportProofs` | proofs of the export's safety properties |
| `Validation`, `ValidationProofs` | the rules of the requests, as functions of a message; what those of a listing mean |
| `ProductListing` | a client's walk through the pages of a listing, in either order, next to inserts and deletes |
| `ListingProofs` | proofs about ordered pages, and of the safety properties of the listing |
| `Transport`, `TransportProofs` | a call over REST or gRPC around any operation; proofs of its safety properties |
| `KafkaCheck`, `KafkaCheckProofs` | checks side by side, their producers and the brokers; proofs |
| `QueueConsumer`, `QueueConsumerProofs` | the consumer process between broker and `Consume`; proofs |
| `Registry`, `RegistryProofs` | the start of all processes over one database; proofs |

`ProductService` begins where `Transport` has validated a request and ends
where it answers; `Transport` in turn knows an operation only by its outcome.
`ProductListing` and `Transport` both extend `Validation`.

### How `ProductService` corresponds to the code

A *worker* is the goroutine that serves one request; `pc[w]` names the next
call its handler makes, `item[w]` is the variable `item` or `result` of the
handler, `resp[w]` its answer, `timer[w]` what is left of its context. One
action is one call on the table or the cache together with the code up to the
next such call, which is local to the goroutine.

| Action | Code |
|---|---|
| `Receive` | a parsed, validated request enters its handler |
| `Find` | `FindByUid` of GetProduct, UpdateProduct, DeleteProduct, and its error returns |
| `Fill` | `Marshal` and `SetWithExpireCtx` of GetProduct, both errors dropped |
| `Count` | `CountBySku` of CreateProduct; a failed count lets the creation go on (`err == nil && total > 0`) |
| `Insert` | `Create`: row inserted and reported, inserted and reported as failed, refused or failed |
| `Update` | `UpdateById`: the row written, no row, or failed; all three are answered like a success |
| `Delete` | `DeleteById` |
| `Lookup` | GetProductFromCache: empty SKU, hit, miss, error |
| `Reply`, `Abandon` | the response is written; the process stops, or a panic ends the request |
| `Evict`, `Tick` | Redis drops an entry; time passes, deadlines and expirations run down |

Name, status and price are written together by every operation that writes
them, so they are one value. A uid is given with the id and never changes, so
one number stands for both. A document in the cache is the row it was made of,
or `Blank` where `Marshal` fails: JSON has no NaN and no infinity, PostgreSQL
has both, and no rule of `product.proto` restricts a price.

What the model assumes of code that is not in the repository:

* `FindByUid`, `Create`, `UpdateById`, `DeleteById` and `Count` are one
  statement each, atomic, on one database. `etc/app.yaml` can name a replica;
  with one, reads may lag behind. Which reads would go to it is decided by a
  helper outside the repository, and none of the results below is claimed for
  that configuration.
* A call that has not taken effect by the deadline of its context never does.
* Redis entries live for the time they were stored with, at most.
* If `IdModel` deletes softly, a deleted row still occupies its SKU in the
  index. An insertion may fail in any state of the model, so its behaviours
  are among those checked.

### How `ProductExport` corresponds to the code

`Start` is `ExportProducts` up to the loop of `Build`: the URL type returns an
empty file, the others build a sheet with a header. `Fetch` is one turn of the
loop: `FindWithCursor`, one `SetRow` per result, the cursors (`Follow`);
`GiveUp` is the turn that finds the deadline passed. `Deliver` is the way out
of `Build` with a file, which runs the deferred `Flush`: its error is dropped,
so the file has all rows of the sheet, or only the first of them (`flushed` is
history: Flush did not fail). Every other error is a return without a file.
`Insert` and `Remove` are the rest of the service, `Expire` the deadline.
`sheet` is what `SetRow` has written from row 2 on, so
`currentRow = Len(sheet) + 2`, `file` what is delivered of it. `always` and
`ever` are history too: the products that were there at every moment, and at
some moment, since the export began.

`QueryWithCursor` is external. It is given both cursors of the page before
(`Rest`). Assumed is that a page holds the first `PageSize` products behind
`Next` in the order of the ids, that `Next` wins where both cursors are given
and `Prev` alone turns back, that `Prev` is empty or leads back from the first
row of its page, and that `Next` is empty only where nothing is left; it may be
non-empty there, which the code handles by an empty page. If `Prev` won, the
export would go back and forth between its pages until the deadline. Which direction
`SortOrderDefault` is cannot be seen: the order is a constant operator. TLC
checks the rising one, in which new products land ahead of the cursor and the
export must come to an end all the same; the proofs hold for any strict total
order.

### How `ProductListing` corresponds to the code

`Refuse` and `Accept` are the validation in `ProductHandler.ListProducts`,
`Count` and `Find` the two queries behind `FindWithPagination`, in either
order (`QueryWithPagination` is external), `Fail` the error of one of them,
`Answer` the mapping of rows and pagination to the response, after which the
client asks for the next page if `total_page` promises one. `Matching` is
`WithFilter`. The condition on `name` refers to a column `names`, so with that
filter no query succeeds (`FilterFits`). `faulted` is history: a failure that
came from the database or the deadline, not from the query. `torn` is history
too: a write fell between the two queries of one page.

The order is rising or falling by id, as the request asks with the default
`sort_by=id`. With a
`sort_by` of a column that has equal values the order of ties may differ from
query to query, and nothing below is claimed for it.

### How `Transport` corresponds to the code

`RestHandler` is the body of the eight functions `_Product_..._HTTP_Handler`,
which differ in the request and the operation only, and `GrpcHandler` that of
the eight `_Product_..._Handler`. `Parse` is `request.Parse` or `dec`, with
its error return; `Default` the `form` tags, which gRPC has not; `Handle` the
validation in `ProductHandler`, which ExportProducts and CheckKafka lack (they
have no rules to break); `Serve` the operation: a result, an error, a panic,
or nothing as long as it likes; `Respond` the error or the response, with a
failed `response.Write`, whose error is logged only. Filters do not appear:
no rule looks at them. `Send`, `Interrupt` and the recovery from a panic are
go-zero's.

### How `KafkaCheck` corresponds to the code

`New` is `queue.New` and the first `defer`; `Send`, `SendFails` and `Panic`
are the ways `SendCtx` ends; `Answering` keeps the response while the deferred
`cancel` and `Close` run; `Reply` returns it. `broker` is what the handler
reads from `KAFKA_BROKER`. `SendCtx` is external: that it returns nil only
where a broker answers is assumed, so no property is made of it. A ping that
was reported as failed may have arrived; nothing in the code depends on it.

### How `QueueConsumer` corresponds to the code

`Start` is `main` with its switch over the driver, `Dispatch` the lookup in
`Handler.consumers`, `Process` the consumer's `Process` with its three ways to
end, of which the deferred recovery turns a panic into nil (`Recover`).
`Registered` stands for the map of consumers, which is empty at this commit;
the passing run registers one, as whoever fills in the template will.

Everything else is the listeners' and the brokers', which are external.
`Processors` are those of all consumers of the process, working on one
partition, or one queue. `Take`, `Acknowledge` and `Reject` are the listener
around a call of `Consume`. The Kafka one commits offsets: a commit passes over
everything before it, and an earlier offset committed later may set the group
back (`Settled`). The RabbitMQ one settles each message for itself and puts
back what failed.

`Restart` is a stop of the process: the broker offers again what it has handed
out and was not acknowledged (`OfferAgain`). The same happens while the process
runs on, where the group gives a partition to another of its consumers
(`etc/app.yaml` starts three, line 72) or a connection to RabbitMQ breaks
(`TakeOver`). The processors then go on with what they hold, not knowing that
it is also delivered elsewhere (`stale`). What such a processor settles later
may count or be refused by Kafka, and is void for RabbitMQ. A commit that is
not stale is assumed to be effective.

### How `Registry` corresponds to the code

`Load`, `Open` and `Wire` are the way through `config.Load` and
`New...Context`, `db.Must` with the migrator in the middle of it for servers,
without it for consumers, not at all for cron commands. `MigrateTables` is the
call of `AutoMigrate`, whose inside is gorm's: it looks for the table
(`MigrateTables`) and, where there is one, for the index (`HasIndex`), and makes
what it has found missing (`CreateTable`, `CreateIndex`). Each of these
statements may come too late, where another server was faster between the look
and the statement, and that for the index fails over a table with duplicate
SKUs. `MigrationFails` is what the code makes of it: `RegisterMigrator` returns
the error, and `db.Must` ends the process. `GetServiceFactory` and `GetProductService` are called by
`NewProductHandler`, once for each transport. A factory and a service are named
for the thread that had them built, so two that differ have different names.
`Context` says of each getter whether it gives something, nil, or panics. The
`main` of the server is not in the repository; that it registers both
transports side by side is assumed, being the harder case.

## Runs

| Run | Question | Bounds |
|---|---|---|
| `service_safety` | do keys, cache and deletions stay right under every interleaving and failure, and is every answer right at some instant of its request? | 2 requests at a time, 2 insertions, one SKU and the empty SKU, 2 contents of which one has no JSON, TTL of 1 tick, Timeout of 2 |
| `service_liveness` | do requests end, and does the cache converge when writing stops? | 1 insertion, TTL and Timeout of 1 tick, no symmetry |
| `update_success`, `hit_document`, `cache_aside` | three claims of documents that the code does not keep, each a violation | as `service_safety`, TTL of 2 ticks |
| `export_oldest_first` | is the file complete where Flush does not fail, free of inventions and of repetitions, and does the export end? | 5 products, pages of 2, any initial table |
| `listing` | does a walk hide or repeat products, is an undisturbed one the list, and do pages agree with their totals? | 4 products, both orders, limits 0, 1, 2, 3, 101, first pages 0, 1, 2, one SKU |
| `listing_by_name` | claim: a listing fails only by a fault (violation) | 2 products, limit 2 |
| `transport` | is what a client is told how its operation returned, and told once? | 1 call at a time, pages 0, 1, 2 or absent, limits 0, 1, 100, 101 or absent, all operations and routes |
| `kafka_check` | are producers closed, and does every check end? | 2 checks, a local and another broker, a deadline of 2 ticks |
| `consumer_template` | why can a message be lost or processed twice? | 3 messages, 2 queues of which one is registered, 2 processors, 1 restart or takeover |
| `startup` | does every server come up, with the index and one service? | 2 servers, 1 consumer, 1 cron command, 2 faults; to begin with no table, a table, one with duplicate SKUs, or one with the index |

Why the bounds are enough. Every race of the service is between two requests
on one row or one SKU; two workers that serve any sequence of requests produce
each pair of them, and two insertions produce a product, its deletion, and a
second product that reuses its SKU while copies of the first are still around.
A timeout of two ticks lets a deadline be half over between the read and the
store of a copy, which then lives for one tick more: the worst staleness. The
refinement does not depend on time. In the export five products and pages of
two give three pages, with the last one full or not, and an insertion or
deletion before, on and behind the cursor. Four products and limits of 1 to 3
give walks of up to four pages, the last one full or not; 0 and 101 lie just
outside the rules. Calls of the transport share nothing, so one shows what any number
does. Two servers are a race, and two faults are one failed start for each.
Three messages and two processors let an offset be committed over a message in
work with one more behind, and a message in work with both after a takeover;
one restart or takeover shows each of them between any two steps. What the bounds cannot show the proofs do: they hold
for every number of workers, products, SKUs, pages, ticks, calls, checks,
messages and processes.

Deadlock is checked in the service, the transport and the Kafka check. It is
not checked where the system may really stop: an export or a listing that is
over, a consumer with no supported driver (`log.Fatal`) or no message left, and
processes that have all come up.

### Properties

* `TypeOK` (service, export): types, and the relation of `pc`, request, row and
  answer that the handlers rely on without checking it.
* `TableKeysUnique`: CreateProduct counts and inserts in two calls, and inserts
  unchecked when the count fails. The unique index of the entity is what keeps
  it true, as its mutant (no index) shows.
* `CachedUnderItsSku`: whoever looks up an SKU gets a product with this SKU,
  although copies are stored at any time after they were read. It rests on
  UpdateProduct not writing the SKU (see the observations under Findings): if
  it did, copies under the old SKU would be wrong, as the mutant shows.
* `BoundedStaleness`: nothing invalidates a copy, yet none is served later than
  TTL + Timeout - 2 whole ticks after it was current. The deadline matters as
  much as the expiration: a store without it (the mutant) has no bound.
* `NoResurrection`: an update by the id of a row read earlier does not bring a
  deleted row back.
* `ImplementsCatalog`: the refinement. A GetProduct is decided when it has read
  its row; every other request when the call that answers it is made. The
  catalog's weak spots are the API's: an "error" may hide a write, a successful
  update may have changed nothing, a cached product may be out of date.
* `EveryRequestEnds`, `CacheConverges`: liveness. The history counters stop at `LagCap`.
* `FileIsFaithful`: a file misses no product that was there throughout the
  export, with one exception that the code has: Flush failed, and `Build` did
  not look (lines 39-41). It never has a product that was not there. A `break`
  instead of a return where a page fails (the mutant) would deliver the pages
  so far.
* `NoRowTwice`: the sheet is in the order of the query, no product twice. The
  two cursors are strings, side by side in the signature of `FindWithCursor`;
  its mutant swaps them.
* `ExportEnds`: the loop has no bound of its own, and no query need return
  before the deadline; only that ends it. A loop that tries again after an
  error (the mutant) never ends.
* `NothingHidden`, `NothingRepeated`: a listing pages by offset, so a product
  deleted on the way shifts the next page and hides one, an inserted one
  repeats one. These are the only reasons: a walk without deletions lists
  everything that was there throughout, one without insertions is in order.
  A write between the two queries of a page can hide the last page
  (`torn`). Limit and page are swapped in the mutant: both are plain integers
  in the signature of `FindWithPagination`.
* `PagesMakeTheList`: the pages of a walk nobody disturbs, put together, are the
  list from the first of them on, whatever the page size and wherever the last
  page ends. The mutant rounds the number of pages down.
* `PageAgreesWithTotals`: a page has as many products as its total promises,
  unless a write fell between the two queries.
* `RefusedMeansUntouched`, `ToldAsReturned`, `EndsOnce`: what the client is
  told of a call. Success says that the operation returned no error, which is not
  that it did what it was asked to (finding 1). A timeout or disconnection says nothing, no late answer
  contradicts it, and no handler answers twice.
* `OnlyValidServed`, `InvalidHasCause`: the rules hold behind both transports
  and however much is left out. REST fills in a page of 1 and a limit of 10;
  gRPC fills in nothing, so that a listing without page and limit is invalid
  over gRPC and valid over REST.
* `EveryCallEnds`: no way through a handler leaves the client without an answer,
  also where no deadline ends the call. `EveryCheckEnds`: by the deadline of the
  send, not by the good will of the broker.
* `NoProducerLeaks`: a producer is open only while its check is between
  `queue.New` and `Close`, whichever way the send ends.
* `LossHasCause`, `RepeatHasCause`: the exact reasons for which the consumer
  drops or repeats a message. The code itself repeats nothing: a message is
  processed once more for each time the broker had to offer it again, because the
  process stopped, a partition moved or a connection broke before it was
  acknowledged, and RabbitMQ puts back what failed.
  `EveryMessageReached`: with Kafka no message keeps the consumer from those
  behind it.
* `ServingMeansIndexed`: the index that `TableKeysUnique` rests on is there
  before the first request, also after a start that ended between the two
  statements of the migration, or could not finish it: ignoring the error of the
  migration (the mutant) breaks it. `OneService`: both transports work on the same
  service. `EveryServerServes`: a lost race for the table or for the index, or a
  crash, costs a start, no more. It excepts a table that already has duplicate
  SKUs: there the index fails at every start, and no server ever comes up.

### Fairness

`WF` of every step of a worker: a goroutine that can run is scheduled, and a
call returns because the context it is given ends (`etc/app.yaml` sets 5 s for
gRPC and 30 s for REST). `WF` of `Tick`: time passes. Nothing is assumed of
clients, of Redis evictions or of the success of any call. In the export, `WF`
of its start, of its deadline and of the step that finds it passed, and nothing
else: no query is assumed to return before, so that the deadline is needed. An
export in rising order that is fed new products as fast as it reads them is the
other case that needs it; it would take more products than the instance has.

In the transport `WF` of the handler's steps, which assumes that its operation
returns (each operation has its own property for that), and of `Send`; none of
`Interrupt`. In the Kafka check `WF` of the handler's steps and of the
expiry of its context, and of time; nothing of brokers. In the consumer `WF` of
the start (a process that stops is started again), of the listeners taking the
next message and of each processor's steps, which assumes that `Process`
ends. In the registry `WF` of each process's steps: it runs, and is restarted
by its orchestrator; faults from outside are bounded by `MaxFaults`.

## Findings

1. `UpdateProduct` returns the nil error of `FindByUid` where `UpdateById`
   failed (line 107): a failed update is a success to its client
   (`update_success`).
2. `GetProduct` stores the result of a failed `Marshal`; for ten minutes
   `GetProductFromCache` answers with a hit without a product (`hit_document`).
3. No operation that changes a product touches its cached copy, while the plan
   of the platform promises cache-aside (`cache_aside`).
4. `WithFilter` looks for a name in a column `names` that the table does not
   have: the `name` filter of the API fails always (`listing_by_name`).

Further disagreements between the code and its documents, which show at a
glance in the source and have no run:

* `UpdateProductRequest` has an SKU (`product.proto`, line 154) that no code
  reads: `UpdateProduct` writes name, status and price.
* `CheckKafka` asks the broker of `KAFKA_BROKER` or localhost, while
  `etc/app.yaml` configures the service with `KAFKA_BROKER_HOST`.
* `Consume` returns nil for queues without a consumer, and there are no
  consumers: everything is acknowledged unprocessed, where the plan of the
  platform promises at-least-once delivery. Recovered panics have the same
  effect for any consumer that is added. `LossHasCause` lists both.
* `Build` drops the error of `Flush` (`internal/export/product_export.go`, lines
  39-41), so that an export may be delivered, as a success, without its rows.
  `FileIsFaithful` names it as its exception.
* Products that share an SKU in a table older than its index make every start of
  every server fail (`migrate.go`, lines 6-8). `EveryServerServes` names it.
* No context has a producer client; the server's and the cron command's embed
  nil interfaces, whose getters would panic (`Context` in `Registry`).

## Proofs

All theorems hold for all values of the constants that satisfy the named
assumptions (`TypesAssumption`, `SentinelAssumption`, `RequestAssumption`,
`AnswerAssumption`, `TimeAssumption`; `ExportAssumption`, `OrderAssumption`;
`ErrorAssumption`, `ListingAssumption`, `TransportAssumption`;
`CheckAssumption`, `ConsumerAssumption`, `RegistryAssumption`), which only say that bounds are natural numbers, that the markers for "nothing"
are none of the data, and that the ids are ordered.

* `ProductProofs!TypeCorrect`: `TypeOK` is inductive. One lemma for each way a
  handler goes on (it returns, it holds a row, it ends), one for each action.
* `ProductProofs!KeysUnique`, `DeletedForGood`: `NextTableSteps` reduces every
  step to what it may do to the table (nothing, one insertion, one rewriting,
  one deletion); `TableKeysUnique` is inductive over those.
* `ProductProofs!StalenessBounded`: `BoundedStaleness` is not inductive, since
  it does not say how long a copy has still to live. `StalenessInv` does: what
  a request has waited and what its context has left are together at most
  `Timeout`, and the age of a copy and what is left of its expiration are
  together at most `TTL + Timeout - 1`.
* `ProductProofs!CacheCatchesUp`: the part of `CacheConverges` that needs no
  fairness. Say that every stale copy, cached or held by a request that can still
  store it, has been stale for `n` ticks (`StaleFor(n)`). While no product is
  written no step undoes this, not even a late store, a tick makes it `n + 1`,
  and `StaleFor(TTL + Timeout - 1)` leaves no stale copy in the cache. What is
  left to TLC is that the clock goes on.
* `ProductProofs!RequestsAdvance`: the same part of `EveryRequestEnds`. A handler
  has at most three steps left (`CallsLeft`), each of which leaves it fewer
  whatever the outcome of its call, and nobody else moves it.
* `ProductProofs!CacheKeysRight`: strengthened by the same fact about rows that
  handlers hold and have not stored yet (`HeldRows`).
* `ProductProofs!Refinement`: every step is a step of the catalog or a
  stutter, under the mapping `answer <- Decided`; only the cache lookup needs
  an invariant beyond the types.
* `ListingProofs!WalkComplete`, `WalkOrdered`, `WalkIsTheList`, `PagesAgree`: for
  any number of products, any page size and either order. First the operators:
  ranks map a set of ids onto 0 to n-1, one to one (`RankNumbers`), so that
  `Sorted` lists every row once, in order, at its rank (`SortedRows`,
  `PlaceIsRank`), a page is a slice of the list (`PageIsSlice`) with the size
  the totals promise (`WindowSize`), and the last page there is has the last row
  (`LastPage`). Then the walk. None of its properties is inductive, for they
  speak of finished walks or of rows, not of where the walk stands. `Inv` adds
  that an undisturbed query result is still the page of the current table
  (`Snapshot`); that without insertions ranks only fall, so that what has been
  listed stays in front of the next offset (`NothingComesBack`); that without
  deletions ranks only rise, so that what lies in front of it has been listed
  (`NothingSlipsBy`); and that without either the pages so far are a prefix of
  the list (`PagesSoFar`).
* `ExportProofs!ExportTypeCorrect`, `ExportFaithful`, `ExportOrdered`: the
  invariant `FileInv` says that a product that stays is in the sheet as soon as
  the cursor has passed it, and what of the sheet a file has. That the cursors
  lead on is part of the types.
* `KafkaCheckProofs`: `TypeOK` and `NoProducerLeaks` are inductive together.
* `QueueConsumerProofs`: `LossHasCause` needs to know what `Consume` returned
  for a message before it is settled (`Verdicts`), `RepeatHasCause` that a
  message that may still be processed, by whichever processors hold it, has a
  run to spare for each of them (`RunsLeft`), and that there are no more offers
  than faults (`FewOffers`).
* `RegistryProofs`: `ServiceShared` rests on `Held` (a handler holds the
  service of the one factory of its context), `IndexedBeforeServing` on
  `Migrated` (a process at the index step has the table behind it, a server
  beyond it the index, whatever the others do). `StartAdvances` is the part of
  `EveryServerServes` that needs no fairness: the steps a server has left
  (`StepsLeft`), plus those of the races for the table and for its index it may
  still lose, become fewer with each of its own steps and are raised by no other
  process; the schema never goes back (`SchemaGrows`), so each race is lost once
  at most. A table with duplicate SKUs is excluded by assumption.
* `TransportProofs`: calls share nothing, so the invariant is one of a single
  call (`Local`) and each step touches one (`AloneInv`). `ValidationProofs!ValidListing` proves
  what the rules of a listing mean, for all integers; `ServedInRange`,
  `InvalidExplained` and the type invariant of the listing follow from it.
  `CallsEndOnce` is an action property.

Model-checked only: the liveness properties (`EveryRequestEnds`,
`CacheConverges`, `ExportEnds`, `EveryCallEnds`, `EveryCheckEnds`,
`EveryMessageReached`, `EveryServerServes`), since the prover has no rule for
fairness (of three of them the measure they rest on is proved); and the four violations, which are counterexamples. Every invariant
and every action property of a passing run is proved.

## Plan

All modules of the plan but one are written. Left are a variant of
`ProductService` whose reads may lag behind (`ProductReplica`), for which the
helper that routes reads would have to be known; ties in the order of a listing;
and, for the liveness properties of the export, the transport, the Kafka check
and the consumer, proofs of the measures they rest on.

## Not modelled

The text of errors, logs and JSON; HTTP and gRPC status codes beyond the kinds
of answer; cells of the sheet; reads from a replica; listings sorted by a column
with equal values; authentication and the security contexts (commented out
everywhere); the product information mapper (no caller); the rules of the
responses (nothing calls them); generated descriptors, reflection and messages
without a use; the values of the configuration; the documents and manifests of
the platform. The consumer may run before a server has created the table; with
no consumer registered nothing depends on it, and no property speaks of it.
