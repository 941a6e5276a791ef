# A TLA+ model of marketflow

marketflow takes price updates from three exchanges over TCP, passes them
through a pipeline of goroutines into Redis, and answers HTTP requests about
latest, highest, lowest and average prices. It runs in *live* or *test* mode; in
test mode its data comes from the generator in `src/test-mode/main.go`, a second
program that plays the exchanges. The repository has no tests. These modules
model the parts that run concurrently, check them with TLC on small instances,
and prove with TLAPS, for every instance, the safety properties of all but one of
them.

Paths below are relative to `src/`; `service.go` is
`internal/core/service/exchange/service.go`, `live.go` is
`internal/adapters/exchanges/live.go`, `redis.go` is
`internal/adapters/cache/redis.go`, `server.go` is `internal/server/server.go`
and `main.go` is `test-mode/main.go`.

## Inventory

| Part | State it keeps | Operations | What is hard | What makes it correct |
|---|---|---|---|---|
| Exchange service, data path (`service.go` 308-444) | four kinds of bounded channels, a round-robin index | fanIn, distributor, worker; consumed by `processMarketData` (`server.go`) | drops on full channels, reordering by workers, cancellation while a send is blocked | every update is stored at most once or dropped knowingly; order is kept; a cancelled pipeline ends |
| Exchange service, generations (`service.go` 225-302, 353-407) | e.ctx, e.workerPool and the shared channels | StartDataProcessing again, while the goroutines of the first run live on | old goroutines read fields that a switch replaced | a switch loses nothing; what it started ends with it |
| Exchange service, modes (`service.go` 89-302) | mode, active adapters, isRunning, a context, two mutexes | two switches, Start/StopDataProcessing, GetStats | two locks, check-then-act on isRunning, contexts of requests | statistics are coherent, calls return, only the active adapters run, processing survives a switch |
| Exchange adapter (`live.go`, and `test.go`, which is the same code) | connection, isRunning, isHealthy, two channels; no lock | Start, Stop, readData, handleReconnection | shared fields without a lock, reconnection against Stop, double close | one reader at a time, one connection, health means somebody reads or is about to, Stop ends everything, a broken connection comes back |
| Redis cache (`redis.go`) | `latest:*` keys and `timeseries:*` sorted sets, with time to live | SetPrice, range queries, GetLatestPrice, CleanupOldData | several commands per operation, failures in between, milliseconds against seconds | statistics are of prices reported in the period, the latest price is the most recent one and not too old, nothing is removed too early or kept too long |
| Price service (`prices.go`, `period.go`) | none | highest, lowest, average, latest | what the cache left out | the fold is that of the reported prices |
| Test generator, server (`main.go` 178-322) | the map of clients under an RWMutex | accept, handleClient, BroadcastData, Shutdown | exchange of read for write lock, two goroutines that close one connection | no write of the map under iteration, dead clients leave, broadcasts end |
| Test generator, prices (`main.go` 325-449) | price and trend per symbol | generateDataForSymbol, generateNextPrice | three servers share a symbol; a price is computed and stored under the lock, but not under the same hold of it | prices stay in their bounds, goroutines end |
| Application (`server.go`, `app.go`, `main.go`) | the goroutines above | start-up, cleanup routine, Shutdown | start-up races requests | |
| Mode handler, health service, debug handler | none | HTTP requests | reads taken one after the other | |
| Configuration, endpoints, PostgreSQL | read once, or opened and pinged | | | |

How they interact: `startMarketDataProcessor`, a goroutine of its own, calls
SwitchToLiveMode and StartDataProcessing; StartDataProcessing starts the active
adapters, hands their data channels to fanIn and starts the goroutines of the
pipeline; the result channel goes to `processMarketData`, which calls SetPrice.
`/mode/test` and `/mode/live` call the switches from HTTP goroutines;
`/mode/current` and `/health` call GetStats. Price requests call the price
service, which reads Redis. A cleanup goroutine calls CleanupOldData every 30 s.

## Modules

| Module | Models | Correspondence |
|---|---|---|
| `LossyRelay` | what the data path promises | items are accepted or refused, then delivered or given up |
| `MarketPipeline` | the data path of one run | a channel is a sequence, a goroutine waits, holds one update or has returned; a receive, a send with its 100 ms timer, and a return are the actions of each stage |
| `PipelineGenerations` | the data path across mode switches | the goroutines of each StartDataProcessing, indexed by generation; entering a select reads e.ctx and e.workerPool, and the goroutine waits with what it read |
| `ExchangeService` | switches, StartDataProcessing, GetStats and their callers | a program counter per caller; a section under a lock that waits for nothing is a step, a lock held over other steps is a variable; an adapter only runs or not |
| `ExchangeAdapter` | one adapter | an access to a shared field and a go statement are steps, but for three reads its header names; connections are numbered |
| `PriceSeries` | the sorted sets of one symbol: SetPrice, cleanup, statistics | a Redis command is a step, and so is the start of a cleanup round, which fixes its cutoff; time passes between any two of them and is counted in ticks, two to a second in the runs |
| `LatestPrice` | the `latest:*` keys of one symbol: SetPrice, cleanup, the latest price of one exchange or of all | as `PriceSeries`; GET and DEL of the cleanup are two steps |
| `PriceGenerator` | the data of one symbol and the goroutines of the servers that share it | a section under the symbol's lock is a step; prices are whole numbers of the last decimal the symbol keeps |
| `TestExchangeServer` | one server of the test generator | a section under the write lock is a step, a broadcast holds the read lock from step to step |
| `*Proofs` | theorems about the module of that name | see Proofs |
| `MC*` | instances for TLC | |

`MarketPipeline` takes the adapters' readers as a source of updates (`Publish`)
and their Stop as `CloseInput`; `ExchangeAdapter` has the detail of both.
`ExchangeService` takes an adapter's Start and Stop as single steps.
`PipelineGenerations` takes the switches of `ExchangeService` in the order the
locks allow and runs several pipelines of `MarketPipeline` on shared channels;
both modules implement `LossyRelay`.
`PriceSeries` and `LatestPrice` share the writer, the cleanup routine and the
requests of the program; each has the commands on its own keys, because no
command touches both. Operators preceded by a comment `mistake:` are variants of
the definition after them with a plausible bug. They are used to see that each
property can fail.

Some choices a reader will ask about:

- *A full channel.* Go's `select` takes a ready send at once, so its timer can
  win only while the channel stays full: a stage drops only when there is no
  room.
- *Fields without a lock.* `e.activeAdapters` and `e.currentMode` are read by
  StartDataProcessing without `modeMutex`. Each is one word or is written
  before the service can start again; they are read and written as wholes.
  The adapter's `isRunning` and `isHealthy` are read late or early, which the
  interleaving of single accesses covers.
- *A second Stop panics* (closing a closed channel). In a handler `net/http`
  recovers and the deferred unlock runs; in the start-up goroutine the program
  would end. `ExchangeService` models both.
- *The member of a sorted set is the price*: `series[e]` maps a price to its
  score, and adding a price twice moves the score.
- *A cache that is missing.* `Initialize` goes on when Redis cannot be reached
  and hands on a nil `*RedisAdapter` as a `port.Cache`, which is then not nil:
  the tests for a missing cache never succeed and a request is aborted by a
  panic that `net/http` recovers. `LatestPrice` has that.
- *Statuses.* A missing price is an error of the service, and the handler
  answers every error of the service with 500; its 404 for a nil result is never
  reached. Names and periods are checked before anything is read, so a request
  that fails there has no part in the models.

## Runs

| Run | Expected | What it shows | Bounds |
|---|---|---|---|
| `Pipeline` | pass | `Accounted`: each update is in flight, stored or knowingly dropped, never two of these; `UpstreamOrdered`; `StoredAreStamped`; `DrainsWhenCancelled`; `IsLossyRelay`: the pipeline implements `LossyRelay!FairSpec` | one exchange, two workers, three updates, channels of capacity one: each stage fills up and drops, and workers overtake each other |
| `PipelineRegress` | violation | two workers: an older update overwrites the latest price | two updates |
| `Generations` | pass | `SwitchLosesNothing`; `OnlyStartupLingers`: when nothing can go on, what a restart started has returned and nobody holds an update; `RelaysAcrossSwitches`: the generations together implement `LossyRelay!Spec` | one worker, capacity one, two generations, two updates; a third generation is out of TLC's reach, but an old and a new goroutine of each stage already meet on every channel |
| `Service` | pass | `StatsCoherent`, `StartupNeverPanics`, `NoDeadlock` and `EveryCallReturns` under both locks | two handlers, one observer, three requests: a panic needs three switches |
| `ServiceAdapters` | pass | `OnlyActiveAdaptersRunAfterStartup`, `RunningHasAdapter`, `FailedRestartIsFinal` | two adapters per mode, so that some start and some fail; four requests |
| `ServiceSwitchStops` | violation | after a switch's request the restarted processing is cancelled | one request |
| `Adapter` | pass | `AtMostOneReads`, `OneConnection`, `HealthMatchesReader`, `StopDrains`, `Recovers` | two starts, one stop, three connections: two reconnections, or a restart after the Stop, each while goroutines of before live on. A second Stop only closes what is closed; with it the liveness takes too long, and the safety is proved for any number |
| `Series` | pass | `PricesAreOfPeriod`, `ExtremesRight`, `SeriesBounded` | two exchanges, two prices, two writes, two ticks to a second, retention and period of a second, a cleanup every second and a half, so that its cutoff is really cut, that takes up to a tick, five seconds: long enough for expiry, a cleanup between any two commands, and a price too old that one round removes early and the next late |
| `SeriesAverage` | violation | a price reported twice counts once in the average | three writes |
| `Latest` | pass | `LatestIsMostRecent`, `AnswersAreRecent`, `FreshIsKept` | two exchanges, two writes, two ticks to a second, retention of three ticks and a cleanup every two, seven ticks: a key expires, or is cleaned, or both, during a request |
| `Generator` | pass | `PricesBounded`, `GeneratorsEnd` | two servers, a base price of ten, changes of one unit, of the band's width and beyond |
| `TestServer` | pass | `IterationStable`, `ClosedIsLeaving`, `GoneIsForgotten`, `BroadcastsEnd` | two connections, two broadcasts: each may hold what the other waits for |

Every module's `TypeOK` is an invariant of one of its runs. Deadlock checking is
off because each system may really stop: bounds are used up, contexts are done,
nobody sends a request. That callers do not block one another is stated by
`NoDeadlock`, `EveryCallReturns`, `BroadcastsEnd`, `StopDrains` and `DrainsWhenCancelled`
instead.

### What the violations say

1. **The latest price may go back** (`PipelineRegress`). Round-robin
   distribution (`service.go:366`) lets a later update of an exchange overtake
   an earlier one, and SetPrice does not compare timestamps.
2. **A mode switch ends processing** (`ServiceSwitchStops`). The handler cancels
   the context it gave to the switch (`modeHandler.go:43`), the parent of
   everything the switch restarted (`service.go:256`), while isRunning stays
   true.
3. **Averages forget repeated prices** (`SeriesAverage`, `redis.go:58`).

### What the conditions of the passing properties say

A property that holds under a condition fails without it, and the condition is
what the code relies on:

- *Nobody requested a switch before start-up was over*
  (`OnlyActiveAdaptersRunAfterStartup`, `RunningHasAdapter`). A switch that reads
  isRunning before the start-up goroutine's StartDataProcessing sets it does
  not restart, and adapters started later run beside those of the other mode.
- *No Stop panicked* (`RunningHasAdapter`).
- *The first context is not done* (`SwitchLosesNothing`). The first generation's
  goroutines live on after every switch; they take updates of later ones, and
  end only with the context in e.ctx.
- *The context lives and nobody stops the adapter* (`HealthMatchesReader`).
  Nor is there a reader in the moment between the flag and the go statement
  (`live.go:52-55`, `257-261`). A reader that ends with its context leaves
  isHealthy true (`live.go:117`); after violation 2 the health service reports a
  service that reads nothing as healthy.
- *The stop channel is open* (`OneConnection`). A reconnection that overlaps Stop
  leaves the connection it dialled open (`live.go:252`).
- *The cleanup's delete did not race with a write* (`FreshIsKept`). GET and DEL
  of the cleanup (`redis.go:365`) are two commands; a price written in between
  is deleted, up to two minutes early.
- *Timestamps of one unit* (`LatestIsMostRecent`). GetLatestPrice compares them
  as they were stored: one in milliseconds beats every one in seconds.
- *No command failed* (`ExtremesRight`, `LatestIsMostRecent`, `SeriesBounded`).
  Over all exchanges a failed command leaves its exchange out, and the request
  succeeds; a failed cleanup waits for the next.
- *A round of the cleanup ends* (`SeriesBounded`). It may take `RoundLimit`, in
  the program the 10 s of its context (`server.go:280`) and the timeout of the
  command it began last. Its cutoff is that of its start (`redis.go:330`), so a
  price may outlive the retention by a cleanup period, a round and a second:
  161 s or 164 s in the program, and no key's time to live helps, as each new
  price prolongs it. The run fails with a bound one tick lower.
- *No price was repeated outside the period* (`ExtremesRight`), for the reason
  of violation 3.
- *But for events* (`PricesBounded`). The event multiplier is applied after the
  clamp (`main.go:427`), so a price may lie five per cent and a rounding outside
  the 20 % band of `main.go:403`, but never twice that.

One more observation has no run: the server closes a client that sends nothing
for 30 s (`main.go:260`, against the comment at `main.go:253`). The adapters
never send, so each is cut off every 30 s and takes up to 5 s to reconnect.

### Fairness

- *Pipeline*: weak fairness per goroutine. The scheduler runs what can go on, and
  a blocked send always can, by its timer. Nothing is assumed of exchanges,
  Stop or cancellation.
- *Service*: strong fairness per caller, because steps wait for mutexes: Go
  serves a starving waiter first, and an RWMutex lets no new reader in before a
  waiting writer. Dials end after 10 s. Requests need not arrive.
- *Adapter*: weak fairness for calls and goroutines. Strong fairness for a
  reconnector's exit, since a select with two ready cases picks either and
  cannot for ever pick the tick, for a successful dial, and for the end of a
  scan on a connection that is over, whose buffered lines run out. `Recovers` is
  thus about an exchange that accepts connections again and again.
- *Generator*: weak fairness for a round that has begun, strong fairness for the
  exit, as for the reconnector. Ticks need not come.
- *Test server*: strong fairness for the acceptor once it has a connection,
  for a handler whose connection is over, and for broadcasts; for the locks as
  above, and because writes have deadlines.
- *Series, Latest, Generations*: none; only safety is stated of them.
  `OnlyStartupLingers` says what holds when nothing can go on: `AtRest` spells
  out the guards of what the code does by itself, requests and reports aside.

## Proofs

For every value of the constants that satisfies the module's assumption
(`PipelineAssumption`, `ServiceAssumption` and so on: positive sizes and periods,
finitely many exchanges for `PriceSeries`, a processor that is no handler;
`TestExchangeServer` needs none). In each module the facts about records,
channels and arithmetic are lemmas, the step from one state to the next is
proved action by action, and the temporal step is the last.

| Module | Theorems | Inductive invariant |
|---|---|---|
| `MarketPipelineProofs` | `TypeCorrect` | `TypeOK`; that the round-robin index stays within the workers needs `NumWorkers > 0` |
| | `OrderKept` (`UpstreamOrdered`) | each place an update can be upstream of the workers is chained to the next; the last link, about an update not yet sent, closes the induction |
| | `StampsKept` (`StoredAreStamped`) | `DownstreamStamped`: the same of what workers, the result channel and `processMarketData` hold |
| | `OneWorkerNeverRegresses` (`LatestNeverRegresses` if `NumWorkers = 1`) | `DownstreamOrdered`: each place downstream of the distributor holds only later updates than the places after it; `UpstreamOrdered` supplies what the distributor takes |
| | `AccountKept` (`Accounted`) | `AccountInv`: no update twice in a channel, none in two places, and each one reported is somewhere |
| | `ImplementsRelay` (`Spec => Relay!Spec`) | the same. Every action is first shown to be a movement of at most one update (taken, refused, passed on, dropped, written, abandoned, ended); the rest argues about movements, of which each is a step of the relay or none |
| `PipelineGenerationsProofs` | `TypeCorrect` | `StartInv`: only generations started so far have goroutines, and a worker's channel is of the latest one but while a start replaces the pool |
| | `SwitchesLeaveNothing` (`OnlyStartupLingers`) | `WaitsForOwn`: the context a waiting goroutine watches is that of its own generation or of a later one |
| | `SwitchesLoseNothing` (`SwitchLosesNothing`), `SwitchesRelay` (`Spec => RelaysAcrossSwitches`) | `AccountInv`, as for the pipeline, over the places of all generations; what is in the pool of one generation may be taken by a worker of another |
| `ExchangeServiceProofs` | `NobodyDeadlocks` (`NoDeadlock`) | `HoldersGoOn`: whoever holds `runMutex` is starting adapters and waits for no lock, whoever holds `modeMutex` is past its wait for it |
| | `TypeCorrect`, `StatsAreCoherent` | `LockInv`: who holds `modeMutex`, and that only its holder is between changing the adapters and the mode |
| | `StartupSafe` | `FreshInv`: until start-up's own switch is over no adapter was ever started |
| | `OnlyActiveRun`, `RunningHasOne` | `ActiveInv`: without overlap there is one caller at a time at work on the adapters, and those it has still to stop or has started are accounted for |
| | `FailureIsFinal` | `TypeOK`; an action property |
| `ExchangeAdapterProofs` | `TypeCorrect`, `OneReads`, `OneConnects` (`OneConnection`), `HealthMatches` (`HealthMatchesReader`) | `AdapterInv`: until the stop channel is closed at most one reader lives, with the connection in the field, and none while a reconnector or Start is about to make the next; whoever dials has left no connection open |
| `PriceSeriesProofs` | `OfPeriod`, `Extremes` | `AnswerInv`: a stored price is that of an update; a young durable price is in its series and its key lives long enough; what a request holds is of its period, and what is due is held or still to be read; the cutoff of a round stays behind the retention (`CutoffPast`) |
| | `Bounded`, if updates arrive before the retention is over | `CleanInv`: rounds begin on time and end by their deadline (`OnTime`), and what the last round left of a series is no older than its cutoff (`Cleaned`), until the next is done with it |
| | `TypeCorrect` | `TypeOK` |
| `LatestPriceProofs` | `TypeCorrect`, `RecentAnswers` | `RecentInv`: no key outlives its time to live, and the best price so far is recent |
| | `FreshKept` | `KeptInv`: the last price stands or its time is over; what the cleanup is about to delete looked old |
| | `LatestMostRecent` | `NewestInv`: of the exchanges passed over none had only newer prices |
| `PriceGeneratorProofs` | `TypeCorrect`, `BoundsKept` | `TypeOK` and `PricesBounded`: generateNextPrice yields a bounded price from any price, so a lost step does no harm |
| `TestExchangeServerProofs` | `TypeCorrect`, `MapStable`, `ClosedLeave` | `ClientInv`: a broadcast that ranges holds the read lock, so nobody takes the write lock; a connection not yet accepted is untouched. `MapStable` is an action property |

So every invariant of the passing runs is proved for every value of the
constants, and so are the action properties `FailedRestartIsFinal` and `IterationStable`, the refinement
`RelaysAcrossSwitches` and the safety half of `IsLossyRelay`. Only model-checked
is what must happen under fairness (`DrainsWhenCancelled`, `EveryCallReturns`,
`StopDrains`, `Recovers`, `GoneIsForgotten`, `BroadcastsEnd`, `GeneratorsEnd` and
the liveness half of `IsLossyRelay`): it needs ENABLED, which is out of the
prover's reach. For the same reason `OnlyStartupLingers` and `NoDeadlock` name
the guards of the steps they are about.

The properties of the violations are false and have no proof.
`OneWorkerNeverRegresses` says of the first one that nothing but the number of
workers is to blame: drops, cancellation and a failing Redis keep the order.

## Not modelled

- StopDataProcessing and `App.Shutdown`, which `main` never calls, and
  drainChannel, which nobody calls.
- What the health service makes of the statistics: a report that changes nothing.
- Validation of names and periods, formatting and rounding of answers, logging,
  configuration, routing, the PostgreSQL connection (unused but for a ping) and
  the debug handler, which only reads.
- reportStats of the test generator, which only logs, and the random choice of a
  change: `PriceGenerator` takes every change of a set.

## Plan

Modelled first was what every price goes through (`MarketPipeline`,
`PriceSeries`), then what controls it (`ExchangeService`, `ExchangeAdapter`), the
generator, and last what they share (`PipelineGenerations`, `LatestPrice`,
`PriceGenerator`). What is left:

1. `HealthReport`: health and mode requests as functions of the service's state
   read in several calls.
2. `Generations` with StopDataProcessing, once something calls it.
