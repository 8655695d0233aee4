# ProxyCollector: specification and proofs

TLA+ models of ProxyCollector (Go), their TLC configurations, and theorems about
them checked by TLAPS. Paths below are relative to `src/`; modules and
configurations are the files of this directory.

ProxyCollector is one process. Collectors fetch proxy lists from outside services;
each result is handed to the state store, which keeps the last result of every
source in a JSON state file and publishes the union as a TXT list; a web server
serves that TXT. What makes it hard is not its size: two files have to stay
consistent through crashes and failed writes, a lost state must not lose the list
people are using, several loops share one store, and a partial result must never
pass for a complete one.

## 1. Inventory

### State store - `internal/state/store.go`
- **State**: `Store.state` in memory (`Sources`: key -> proxies; `RecoveryPending`),
  the state file, the TXT list, one mutex.
- **Operations**: `Open` (load, prune sources no longer configured, enter recovery,
  publish), `Update` (accept a result, save, publish); both through `writeAtomic`.
- **Interactions**: `runServe` calls `Open`; every collection loop calls `Update`;
  `publishLocked` calls the alive filter inside the mutex; the web server opens the
  TXT by path.
- **Hard**: crash, failure or power loss between the two writes and inside each; an
  error reported after the rename; memory ahead of the file; recovery across restarts,
  failed saves and changes of configuration; zero results; limits.
- **Correct when**: the list never runs ahead of the state; recovery keeps the old
  list until all sources have come back; no source is forgotten; the store can load
  what it wrote; nobody ever sees a torn file.

### Alive filter - `internal/alive/alive.go`
- **State**: one call's dispatcher, workers, two channels, wait group.
- **Hard**: closing the results channel exactly after the last send; cancellation
  racing with dispatch; pool and channel sizes.
- **Correct when**: it always returns, never sends on a closed channel, checks no
  index twice, and returns exactly what answers unless cancelled.

### Serve process - `internal/app/app.go`
- **State**: the context, one goroutine per collector, the wait group.
- **Operations**: `runServe`, `collectionLoop`, `collectOnce`; the `check` command.
- **Hard**: signals at any moment, loops competing for the store, failing updates in
  the middle of a round, shutdown order.
- **Correct when**: interrupted rounds are dropped, every other round is in the store
  whole and under the right names, whatever fails meanwhile, and a signal ends the
  process in order.

### Paging collectors - `internal/collectors/rolaip`, `internal/collectors/freeproxydb`
- **State**: one round: page, records seen, limits, report; one request: attempt, wait.
- **Hard**: retries inside pages inside rounds; limits met exactly at a boundary; page
  counts; empty or failed pages; cancellation at any wait.
- **Correct when**: a result counted complete is everything the server says it has;
  limits hold; no list within them is marked partial; the server's `Retry-After` is honoured; the round ends.

### FPL collector - `internal/collectors/fpl`
- **State**: a pool of fetch workers on an unbuffered channel, a cache per source (ETag,
  Last-Modified, result), the results slots, one budget.
- **Hard**: workers that leave on a done context while indices are still offered; slots
  nobody filled; 304 answers that repeat a result, truncated or not; a budget shared in
  order.
- **Correct when**: every round returns, every slot taken for the store is filled, a
  complete result is the whole list, the budget takes nothing away before it is spent.

### FOFA collector - `internal/collectors/fofa`
- **State**: queries in turn, what is left of their budget.
- **Hard**: queries that find the budget used up; a done context noticed by nobody.
- **Correct when**: neither of these hands an empty result over as complete.

### Web server - `internal/web/server.go`
- **State**: listener, server. Opens the TXT by path on each request.
- **Hard**: a reader while the TXT is replaced or removed; copies revalidated by
  modification times of one second.
- **Correct when**: a client gets one published list whole, and is told to keep a copy
  only if it is current.

### Configuration - `internal/config/config.go`
- **State**: none after `Load`. Defaults, range checks, the rule that bounds the sum of
  the FPL lists.
- **Hard**: defaults and checks that interact; limits that have to agree with those of
  another package.
- **Correct when**: what `Check` accepts is something the store can run with.

### Left out
- **Proxy model** (`internal/model`): string parsing without state. A proxy is a model
  value; two are equal exactly when their canonical URLs are.
- **Fetch client, logging, `cmd`, the `check` command**: set-up, output and flags.

## 2. Modules

| module | models | builds on |
|---|---|---|
| `PublishedList` | what the store promises about its two files (abstract) | |
| `ProxyStore` | the store, step by step, with faults | refines `PublishedList` |
| `StoreHistory` | `ProxyStore` with history variables | `ProxyStore` |
| `Recovery` | `ProxyStore` under fairness: does a recovery end | `ProxyStore` |
| `PublishedFiles` | `writeAtomic` on a disk that loses power, and a client of the web endpoint | |
| `AliveFilter` | one call of `Checker.Filter` | |
| `Service` | `runServe` and the collection loops on the store | `ProxyStore` |
| `PageFetch` | one page request with retries, shared by both paging collectors | |
| `RolaIP`, `FreeProxyDB` | one round of each | `PageFetch` |
| `FPLCollector` | round after round, with its pool and its cache | |
| `FOFACollector` | one round | |
| `Config` | defaults, checks, and the keys `Open` is given | |
| `Store_proofs` | theorems about the store, its history, its refinement, the service and the configuration | `Service`, `StoreHistory`, `Config`, `FoldLemmas` |
| the other `*_proofs` | theorems | the module they are named after |
| `FoldLemmas` | what a fold over a sequence computes, as lemmas | |

`MC*` modules give the constants their small values. In every module a definition
named `X_Y` is a deliberately faulty variant of `X`; the specification never uses
it. It documents which mistake in the code each property catches (see
`mutants` in `PROJECT.json`).

### ProxyStore, StoreHistory, Recovery
One mutex makes store calls sequential, so a single `phase` says how far the call in
progress has got: `down`, `quarantine`, `save`, `publish`, `ready`. Between two
phases the process may be killed.

| variable | code |
|---|---|
| `mem` | `Store.state`: `known` = keys of `Sources`, `urls` = their proxies, `pending` = `RecoveryPending` |
| `file` | the state file: absent, garbled, or a state |
| `list` | the TXT; `{}` when there is none (the code never writes an empty one) |
| `config` | expected sources, and whether an alive filter is set |
| `booting` | the call is `Open` |
| `reply` | what the last `Update` returned: accepted, published, error |
| `settled` | history: the last call that wrote has done all its writes |
| `completed`, `steady` | history, in `StoreHistory`: who came back complete since everybody was awaited, and who was configured at every start since |
| `turn`, `calm` | in `Recovery`: turns with each complete result of a source; history: faults have ceased |

| action | code |
|---|---|
| `OpenMissing`, `OpenUnusable`, `OpenUsable` | the three ways through `load` |
| `Quarantine`, `QuarantineFails` | `quarantine`, then `enterRecovery` |
| `IgnoreZero`, `Update` | `Update` up to the save |
| `SaveThenPublish`, `SaveInRecovery`, `SaveFails` | `saveStateLocked` |
| `PublishList`, `PublishNothing`, `PublishFails` | `publishLocked`, any filter outcome |
| `Kill`, `LoseState` | environment |

Decisions worth knowing:
- A failing write may fail before or *after* its rename (`store.go:335-343`), so
  `SaveFails` and `PublishFails` leave either content behind.
- `Update` calls the code refuses (unknown source, invalid proxy, more than
  `maxProxies`) change nothing and cannot come from the collectors, which use
  `Sources()` for their keys and `model.New` for their proxies. `SourceLimit` is the
  most one result may hold; `Config` shows that it is within `maxProxies`.
- `Open`'s path checks and `MkdirAll` leave both files alone and are not actions.
- Here crashes are process crashes: a completed rename stays. Power losses and directory
  syncs are in `PublishedFiles`.
- A proxy appears in a source's `urls` at most once (`canonicalURLs`), and the sum
  that `validateState` limits counts a proxy once per source (`Total`).

### PublishedFiles
`ProxyStore` takes a write for one step. This module opens it: `Create`, `Copy`, `Sync`,
`Rename`, `SyncDir` are the steps of `writeAtomic`, `WriteFails` its error paths. `dir` is
the directory processes see, `disk` what a power loss leaves of it. Names reach the disk
in order, when the directory is synced or whenever the system likes (`Flush`); data is
safe once synced. A file is its number in the order of creation, so "newer" is a
comparison; a state is the number of the first file it may be saved to. The client
opens the TXT (`Request`) and is answered from the opened file (`ServeContent`), perhaps
after the name has moved on. The rules of the recovery are left to `ProxyStore`: here a
call may always end without touching the TXT. A file system that reorders directory
writes, or a clock that is set back, is outside the model.

### Service
`main` is `runServe`; `loop[c]`, `round[c]`, `result[c]` and `cut[c]` are one collector's
goroutine: what `Collect` returned, the result being handed over, and whether the context
ended it. `holder` says whose `Update` holds the mutex. A store step of a loop is the
`ProxyStore` action itself, so this is a composition, not a re-model. What a round
delivers is chosen when it ends (`UseRound`) and handed over result by result (`Lock`,
`Unlock`), so a result can be compared with what the store has of it later. The mutex is
taken as given: `ProxyStore` is one call at a time. So are distinct keys, which `Open`
checks. A signal before `NotifyContext`, or a second one, kills the process: `Crash`.

### AliveFilter
One action per channel operation. An unbuffered send is `Dispatch`, a meeting of
dispatcher and worker. A dial under a cancelled context may fail whatever the
endpoint does.

### PageFetch, RolaIP, FreeProxyDB
`DurationLimit` (2^63) bounds a `time.Duration`; `Wrap` is Go's overflow. A RolaIP record is
the sequence of candidates it yields (http before socks5), possibly none; a
FreeProxyDB record is a proxy or `Invalid`. The server's list stands still during a
round; what a server may answer besides is nondeterministic: rate limits, errors, and for
RolaIP any `Answers`: the page asked for or another, with or without its records, and with
any claim about its list (`Claims`), true or not, well-formed or not. `Valid` and
`Accepted` are the code's checks of that; the first accepted claim is what the round goes
by (`claim`).

### FPLCollector, FOFACollector
`FPLCollector`: `Offer` is a send meeting a receive, `Abandon` the other case of that
`select`. `Line` is one iteration of `parseSource`, which tells apart invalid lines, lines
beyond the scanner's buffer, duplicates and the limit. A server may have any list each
time it answers and may send a validator or none; it answers 304 only to a conditional
request and only while the list is what the validator stands for. `fpl.go:60` returns
empty slots when the context is done, and relies on the check in `collectOnce`
(`app.go:216`), so that check (`UseRound`) is part of the model; so it is for FOFA
(`fofa.go:123`), where a done context may go unnoticed by the loop over the rows.

### Config
`ApplyDefaults`, the checks and `SourceNames` with the limits of the code as they are. What
leaves no number behind (the form of URLs, paths, names and keys; timeouts, jitter,
logging) is one Boolean, `valid`.

## 3. What TLC checks

| run | question | bounds | distinct states |
|---|---|---|---|
| `store` | both files through every fault, changing configurations, recovery; implements `PublishedList` | 2 sources, 2 proxies, 3 configurations | 171,384 |
| `recovery` | once faults cease, does a recovery end, in memory and on disk | 2 sources, 1 proxy | 11,320 |
| `published_files` | torn files, order on disk, stale copies | 5 files, 2 seconds | 3,455,270 |
| `alive_filter` | pool neither hangs nor panics nor errs | 3 URLs, pools of 0-2 | 31,693 |
| `service` | every round is in the store whole and under its names; cut rounds are dropped; orderly stop | 2 collectors with 2 and 1 results a round | 2,499,762 |
| `service_progress` | rounds end, signals stop the process | the same, without a lost state | 142,965 |
| `rolaip` | complete means every page claimed; limits; retries; ends | 3 pages of 2 records, page limit 2, 2 candidates, 6 counted, 9 claims, 2 retries | 118,178 |
| `freeproxydb` | the same, and no mark without a reason | 5 records, pages of 2, 1 retry | 105,190 |
| `fpl` | complete means whole, budget, slots, rounds return | 3 sources, 2 workers, budget of 3 | 55,982 |
| `fofa` | budget; complete means answered | 3 queries of 2, budget of 3 | 44,104 |
| `config` | what is accepted fits the store | boundary values, real limits | 10,704 |

Why the bounds are enough.
- `store`: the store treats sources and proxies uniformly, and each of its decisions
  depends on whether *some* source is pending, known, or has proxies; two of each give
  every combination of one in hand and one other, and the theorems below remove the
  bound for the safety properties. One source comes and goes, and may be all the state
  knows when it goes. There is no bound on crashes, restarts, failed writes or rounds.
- `published_files`: five files are two whole calls and one more write, begun after a
  crash that left something of either behind. Its four theorems hold for any number of files
  and seconds.
- `alive_filter`: three URLs and two workers give a busy worker, an idle one and an index
  still to be offered.
- `recovery`: every step of a recovery concerns one source that is awaited and whether
  another still is; a proxy more would add lists, not decisions.
- `service`: one collector has two results a round and the other one, so there is a rest
  of a round to lose and a loop to get in between. The theorems hold for any number.
- `rolaip`: page 1 has up to 4 candidates and page 2 up to 4 more. The page limit of 2 is
  the server's last page, one beyond it or one before; 2 distinct proxies are met exactly or
  passed; the limit of 6 counted candidates is not reached, met exactly at the end, met
  before the end, or passed by one within a record of two protocols. Claims
  understate and overstate the pages, or are not well-formed.
- `freeproxydb`: `max_candidates` is 1 and the record limit 4, with lists of up to 5 records,
  so each list ends before, at or after each limit.
- In both a `Retry-After` can overflow the duration (`DurationLimit` is 128) or come near.
- `fpl`, `fofa`: a budget of 3 for results of up to 2 can be left over, met exactly,
  and run out within a source or before one; two workers share three sources.
- `config`: each limit, one below, one above, and 0, which stands for "left out".

`alive_filter`, `rolaip`, `freeproxydb`, `fpl`, `fofa` and `config` end by design, so they do not
check for deadlock; `Returns`, `RoundEnds` and `RoundReturns` say that they end rightly. In
`published_files` there is no end: a client and a killed process can always go on.

Properties, by what they guard:
- **two files**: `ListFollowsState`, `SettledAgrees`, `ListKept`,
  `ImplementsPublishedList`;
- **a disk under them**: `NeverTorn`, `ListNotAhead`, `ReportedSurvives`;
- **readers**: `NeverTorn`, `StaleWithinSecond`;
- **recovery**: `RecoveryServesList`, `RecoveryWaitsForAll`, `RecoveryEnds`,
  `DeliveryEndsRecovery`;
- **nothing forgotten**: `SourceNotForgotten`, `Lineage`;
- **concurrency**: `RoundStored`, `CutRoundNotStored`, `OrderlyStop`, `StopsAfterSignal`,
  `ClosedAfterWorkers`, `ReturnsReachable`, `Returns`, `SlotsFilled`,
  `RoundReturns`;
- **collectors**: `CompleteIsWhole`, `LimitsHold`, `MarkedWithReason`, `BudgetHolds`, `AnswerKept`,
  `HonoursRetryAfter`, `InterruptedIsMarked`, `RoundEnds`;
- **configuration**: `AcceptedFitsStore`.

### Fairness
- `recovery`: the process is started again, a store call runs on, and every source comes
  back complete again and again, though perhaps always with nothing. The first two are the
  service manager and the Go scheduler; the last is an assumption about the outside, and a
  real one: a source whose rounds stay partial for ever keeps the recovery open. A complete
  zero result outside recovery changes nothing in the store, so fairness could not see it
  and would ask for more than it should: `turn` changes with it. Strong, because a source
  can only deliver when the mutex is free; `sync.Mutex` lets every waiter in eventually.
  Faults cease at some point (`calm`), after any number of them. `DeliveryEndsRecovery`
  assumes besides that proxies are delivered again and again, by whomever and in whatever
  result.
- `service_progress`: goroutines that can run do; timers fire; strong fairness only for
  taking the mutex. No fairness for `Start`, `Serve`, `Signal`, `Crash` or `Damage`,
  and writes may fail for ever. `service` states no fairness.
- `alive_filter`, `fpl`: goroutines run, and a dial or a request returns within its
  timeout. None for the cancellation.
- `rolaip`, `freeproxydb`: requests and timers end (`fetch.timeout`).

### Where code and documents part
One run is expected to be violated.

| run | the code | says otherwise |
|---|---|---|
| `oversized_state` | the store saves a sum of sources that it refuses to load | `docs/architecture.md:25-26` |

Reading the code against the documents for the models showed more, which no run is
spent on. Of the first three the exact property is checked, with the exception in it:
- A source configured during a recovery is not waited for: `RecoveryPending` is what was
  configured when the recovery began (`store.go:134`, `:159`; `docs/architecture.md:32-33`
  says all of the current configuration). `RecoveryWaitsForAll` speaks of the sources every
  start since then was configured with.
- When the save of the last awaited result fails, the recovery is over in memory only
  (`store.go:188-190`); complete zero results are then ignored (`:181-183`) and never repeat
  the save, so the old list stays until proxies come or a restart, whatever completes
  (`docs/architecture.md:32-33`, `store_test.go:53`). `RecoveryEnds` speaks of a store that
  is waiting in memory, `DeliveryEndsRecovery` of the rest.
- A client is told to keep a list that was replaced within the same second (`server.go:93`;
  `:92` says `no-cache`). `StaleWithinSecond` bounds it by that second.
- When everything the state knows is no longer configured, the proxies of the removed
  sources stay in the TXT (`store.go:125`; `docs/config.md:59` says they go).
- A large `Retry-After` overflows before it is capped, and is then waited for less than
  the cap or not at all (`rolaip.go:281`, `freeproxydb.go:232`; `docs/config.md:75-76`).
  `HonoursRetryAfter` asks for the full wait only where the product does not overflow.
- RolaIP's `totalPages` is taken at its word (`rolaip.go:114`), held against neither `total`
  nor `pageSize` (`:268-276`): a first answer with `total` 6, `pageSize` 3 and `totalPages` 1
  makes a complete result of 3. `CompleteIsWhole` is relative to that word.
- An empty first FreeProxyDB page passes for a complete empty result
  (`freeproxydb.go:102`), though an empty later page is an error (`:117`).
- During a recovery a complete zero result replaces what the source delivered earlier in
  it (`Receive`); the rule of `docs/config.md:58` holds outside recovery.
- A cancelled `Filter` returns less than what answers, and `publishLocked` publishes that
  (`store.go:233`).
- `Update` of an ordinary round returns `publishLocked`'s result, whose `Accepted` is false
  (`store.go:197`).
- FOFA asks the server for no more rows than the budget has left, so a query the budget
  cut short is not marked partial unless the server sends more (`fofa.go:84`, `:145`).
- FOFA's budget bounds a round, not what the state holds of its sources: 32 queries can
  have 10000 proxies each there. This is one way into `oversized_state`.
- A web path such as `/.x` or `//x` is accepted though `config.go:610` says it "must not
  contain dot segments"; an explicit `jitter_ratio: 0` or `request_interval: 0s` becomes
  the default; `total_max_candidates` below 1000 is refused together with the default FPL
  sources.
- `.proxycollector-*` files stay in the directory after a kill.
- `Open` validates the old list with a context nobody can cancel, before the web server
  listens (`store.go:137`).

## 4. What is proved

For every value of the constants that satisfies the named assumptions: finitely many
proxies, a configuration names at least one source, one result is within the limit
(`StoreAssumption`); the sources of a configuration are those of the collectors
(`ServiceAssumption`); a decoded configuration has the types of `config.go`, and the store's
limit is at least twice the largest FPL budget (`ConfigAssumption`: 100000 and 50000 in the
code); numbers that are natural or positive, as `Check` makes them, and
lists and answers made of proxies and unusable entries (`FilterAssumption`,
`PublishedFilesAssumption`, `PageFetchAssumption`, `RolaIPAssumption`,
`FreeProxyDBAssumption`, `FPLAssumption`, `FOFAAssumption`). All safety properties of the
passing runs are theorems; `PublishedIsOnDisk` and `NoIndexTwice` are parts of inductive
invariants and only proved.

`Store_proofs`, the store
- `TypeCorrect`, `OldListIsServed`, `SettledStoreAgrees`, `PublishedResultIsOnDisk`:
  the store's invariants. They follow from `Inv`. The properties alone are not
  inductive: `SettledAgrees` says nothing while a call is under way, so `PhaseInv`
  records what each phase may rely on (in `publish` the file *is* the memory and
  nothing is pending), and `RecoveryServesList` speaks of the file, so
  `MemoryServesList` says the same of the memory that is about to be saved.
- `ListAfterState`, `ListIsKept`: action properties, from `Inv` and one lemma about
  the steps that change the list (`ListStep`).
- `StoreImplementsPublishedList`: initial states map to initial states and each step to
  a step of `PublishedList` or a stutter. Needs `Lineage`: a save happens
  steps, failures or calls after memory changed, so one must know how memory relates
  to the file it is about to replace.
- `MemoryForgetsNothing` (`Lineage`), `NoSourceForgotten`.
- `WaitsForAll` (`RecoveryWaitsForAll`): for any sources and any changes of
  configuration. A save replaces the file by what memory has become since, so
  `AwaitedOrBack` says of both that whoever is not awaited any more has come back.

`Store_proofs`, the service
- `ServiceTypeCorrect`, `CutRoundsAreDropped`, `StopIsOrderly`: from `ServiceInv`, for any
  number of collectors and sources.
- `RoundsAreStored` (`RoundStored`): what a loop has handed over is in the store's memory
  when its round is through. `HandedOver` says so of every result up to the one at hand: an
  update puts it there before anything can fail, no failure takes it back, and other loops
  write other keys.
- `ServiceUsesStore`: the process's behaviours are the store's, so all theorems about
  `ProxyStore` hold of the running service.

`Store_proofs`, the configuration
- `AcceptedConfigurationFits` (`AcceptedFitsStore`), from `FitInv`: whatever the file says, the
  configuration the store is opened with is one that `Check` accepted, and then the largest
  result of each collector, the FPL lists together (`BudgetType`, `FPLFits`) and the keys
  (`AcceptedOpens`) are within what the store takes. For names of its own beside the store's,
  `Config` calls its `Spec` `ConfigSpec`, the store's limit `StoreLimit`.

`PublishedFiles_proofs`
- `NoTornFile`, `ListBehindState`, `WrittenSurvives`, `StaleForOneSecond`, from `FilesInv`:
  each step of `writeAtomic` knows what the steps before it did (`InWrite`), and the
  numbers of files order states and times (`Ordered`), which makes the list on disk
  comparable with the state on disk whatever a power loss took.

`AliveFilter_proofs`
- `ChannelClosesLast`, `HandedOutOnce`, `ExactlyTheReachable`, from `FilterInv`: only indices
  already offered are about, and only once (`HandedOut`); the channels close in order
  (`Closing`); without cancellation every endpoint that answers is somewhere between
  dispatcher and caller (`Lossless`).

`FoldLemmas`
- The collectors' loops over lists, pages and answers are folds, and what they compute
  takes an induction over the data. The library's induction theorems have an operator
  as a parameter and cannot be used, so the module derives what is needed from facts about
  finite sets: `Induction` and `InductionUpTo` speak of membership in a *set* of numbers.
  `FoldTable` shows that the function a fold is defined by (a `CHOOSE`) exists, `TableTrace`
  unrolls it into a *trace*: the values the loop variable has after 0, 1, ... n elements.
  A module that uses it states its own trace (`CandidateTrace`, `RecordTrace`, `ParseTrace`,
  `RowTrace`, `UsedTrace`) and then proves a loop invariant along it, as one would for the
  Go loop.

`FPLCollector_proofs`
- `NoSlotMissing` (`SlotsFilled`), from `SlotsInv`: without a done context a source that has
  been offered is filled or in a worker's hands (`Filling`); an index is in the hands of a
  worker that is busy with it, and a 304 brings back the source's own result (`Handing`).
- `UnmarkedListsAreWhole` (`CompleteIsWhole`) and `BudgetShared` (`BudgetHolds`), from
  `ListsInv`: a slot, and a cached result, without a mark is the list it was made from, now
  and when a 304 repeats it (`Kept`); what is left of the budget is the total less the
  slots merged so far, and a slot cut short has left nothing (`Shared`).

`RolaIP_proofs`, `FreeProxyDB_proofs`
- `WaitsAsAsked` (`HonoursRetryAfter`), from `BackoffInv`: a delay is what `RetryDelay` makes
  of the header at hand. `Wrap` is the identity below `DurationLimit`.
- `UnmarkedRoundIsWhole` (`CompleteIsWhole`), `LimitsKept` (`LimitsHold`) and
  `FailedRoundIsMarked` (`InterruptedIsMarked`, RolaIP), from `RoundInv`: while a round goes on
  it holds every valid proxy of the pages before (for RolaIP, whatever the answers claim: an
  accepted one has the records of the page asked for, `AcceptedFacts`) (`Reading`; this is where the two nested
  loops come in), and one that is over has all or says why not (`Ending`). For FreeProxyDB it
  is an arithmetical matter besides that the pages join without a gap and reach the end
  of the list (`PageAdds`, `PagesCover`).
- FreeProxyDB's `UnmarkedRoundIsWhole` assumes that the first page does not come without its
  records. The code has no check there (`freeproxydb.go:102`), and without the assumption
  the property is false: see section 3. `LimitsKept` needs no such thing.
- `MarksHaveReasons` (`MarkedWithReason`, FreeProxyDB), from `Counting`: the pages before are
  counted once each (`PageSpan`), so a limit is only met by a list that goes beyond it.

`FOFACollector_proofs`
- `BudgetShared` (`BudgetHolds`) and `CompleteAnswers` (`AnswerKept`), from `BudgetInv`: what the
  results hold and what is left add up to the budget, unless `Collect` dropped them, and
  a result cut short by it has left nothing (`Spending`); as long as the context lives every
  result so far has its query's name and answer (`Keeping`).

The inductive invariants are stated in the modules they are about, so that a bounded
instance can be checked for them too.

Only model-checked is liveness (`RecoveryEnds`, `DeliveryEndsRecovery`, `StopsAfterSignal`, `RoundEnds`,
`RoundReturns`, `Returns`), which is out of the prover's reach together with `ENABLED`.

## 5. Not modelled

- **Proxy model, fetch client, logging, `cmd`**: see "Left out" above. The `check` command
  prints what `Load` and `Check` (in `Config`) say.
- **Configuration**: YAML decoding and the syntax of URLs, paths and names (one Boolean).
- **Web server**: methods other than GET and HEAD, its own timeouts, and a `Serve` that
  fails later, which the code only logs.
- **Serve process**: the arithmetic of `nextDelay` (nothing depends on the length of a
  pause) and the order of deferred `Close` calls.
- **Servers that change their listing between two pages**: neither paging collector
  could notice.

What could still be added: a `Service` whose collectors are the collector modules instead
of a choice of results.
