# Verification of StockPilot

StockPilot is a stock analysis service: a FastAPI backend (`src/backend/app`) that
collects prices, disclosures and corporate actions from external providers, keeps
them in PostgreSQL, trains and serves prediction models, streams quotes to browsers,
and a Next.js front end (`src/apps/web`).  This directory holds TLA+ models of its
stateful parts, TLC configurations that check them on small instances, and theorems
about them that TLAPS checks for every value of their constants.

File names below are relative to `src/backend/app` unless they begin with `src/`.

- [1 Inventory](#1-inventory): the system's parts, their state, what is hard
- [2 Modules](#2-modules): what models what, and how
- [3 Runs](#3-runs): what TLC checks, bounds, fairness
- [4 Proofs](#4-proofs): what TLAPS proves, from what, and how
- [5 Findings](#5-findings): where the code does not do what the project says of it
- [6 Plan](#6-plan): what comes next
- [7 What is not modelled](#7-what-is-not-modelled)

To repeat everything, in this directory:

    tlc -workers 4 -config MCStreamingQuotes.cfg MCStreamingQuotes   # a run
    tlapm StreamingQuotesProofs.tla                                  # a proof module


## 1 Inventory

### How the parts interact

Every HTTP request runs on a thread of an API worker; there may be several workers.
WebSocket handlers and the realtime hubs run on the asyncio loop of a worker.  What
workers share is PostgreSQL, Redis (quote bus, OAuth tokens, rate limits) and a volume
of model artifacts.  A scheduler process runs the ingestion jobs on a thread pool.

    browser --WebSocket--> websocket/routes --> realtime/hub --> KIS WebSocket
                                                    |  (or polling: provider)
                                                    +--> bus (memory / Redis) --> browsers
    browser --HTTP--> web proxies --> api/routes --> services --> repositories --> PostgreSQL
                                                        |  +--> prediction/artifacts --> volume
                                                        +--> providers/toss --> Toss open API
                                                        |        (tokens and locks in Redis)
    scheduler/jobs --> services/ingestion --> pipeline/candles --> repositories
                                                        +--> corporate actions, quality reports

### Components

| component | state it keeps | operations | what is hard | what makes it correct |
|---|---|---|---|---|
| **Streaming quotes** (`realtime/hub.py`, `kis.py`, `websocket/routes.py`) | registered browsers per symbol; the source's subscriptions, event, action queue and connection | join, leave, subscribe, unsubscribe, connect, replay, send, back off, stop | a shared connection that dies and is rebuilt while browsers come and go; stale queued actions; late generator finalization | counters match handlers; KIS streams exactly what is subscribed, unless it rejects a message; a subscription gets there |
| **Model registry** (`prediction/artifacts.py`, `engine.py`, `services/model_registry.py`, `services/prediction.py`) | artifact directories, active pointers, rows of `model_versions` | stage, verify, activate, roll back, promote, predict | two stores without a common transaction; crashes between steps; overlapping promotions | one champion per scope; the pointer names a complete artifact, the champion's; a version that is served is registered |
| **Toss tokens and requests** (`providers/toss/auth.py`, `client.py`) | token in memory and in Redis, issue lock, retry state of a request | get, issue, invalidate, request with retries | several processes; the cache's two halves; every issue ends the token before | a token that works is not replaced; repeating ends; no lock is left behind |
| **Toss limiter** (`providers/toss/rate_limit.py`) | token bucket per group, observed rate | acquire, observe | waiting under a lock; rates below one | no more than the rate is sent |
| **Corporate actions** (`corporate_actions/`, `services/corporate_actions.py`, `repositories/corporate_action*.py`) | immutable revisions, evidence rows | ingest a batch, approve a candidate, adjust for charts, adjust for backtests | concurrent approvals and ingestions; bitemporal queries; replays | revisions never change or collide; nothing is used before it was known |
| **Polling quotes** (`realtime/hub.py`, `bus.py`, `websocket/routes.py`) | browsers per symbol, the round of the poll task, cached message, queues | register, read the cache, listen, poll, publish, send, leave | the cached quote and the queued ones take two ways; a browser that has left is noticed late; the Redis bus publishes in two commands | a quote never goes back while one worker publishes; slots are released |
| **Backtests** (`backtest/event_engine.py`, `engine.py`, `validation.py`, `services/backtest.py`) | cash, shares, pending order, trades of one run; stored runs | execute, signal, force the close, next fold, store | fills against bounded cash and volume at the bar after the signal; two engines for one meaning | an account without credit; both engines trade alike |
| **Candle pipeline and ingestion** (`pipeline/candles.py`, `services/ingestion.py`, `scheduler/jobs.py`) | stock, raw and cleaned candles, quality logs | fetch, validate, clean, aggregate, upsert row by row in one transaction | overlapping ingestions of a symbol; duplicated or invalid candles | every row and log of a response or none; no candle is changed silently |
| **Partitions** (`database/partitions.py`) | monthly partitions, the default partition | ensure the months to come, propose an archive | missed maintenance; candles that already lie in the default partition | a month's candles have a partition; nothing in use is proposed |
| **Data lifecycle** (`services/data_lifecycle.py`, `provider_audit.py`) | rows with a retention, status of the last run | clean up daily or on request | partial deletes, overlap, restarts | healthy means clean |
| **Reference alerts** (`services/alerts.py`, `alerts/repository.py`) | alerts, watchlist | create, disable, evaluate, watch | evaluations that overlap each other and an administrator | one trigger, final, reported once or lost with its evaluation |
| **API rate limiting** (`core/rate_limit.py`, `api/admin.py`) | windows per key, failed attempts | admit, evict, sweep, check an administrator's key | eviction, clocks of replicas, a check apart from its consumption | never more than the limit, never longer than told |
| **Candidate review** (`corporate_actions/dart_candidates.py`, `reconciliation.py`, `corporate-action-history.tsx`) | what a page shows and has selected | fetch in pages, group, preview, select, approve | companies file between any two requests | what is approved is what was shown |
| **Scores and AI reports** (`services/score.py`, `ai_reports/`, `services/ai_report.py`) | stored reports and predictions | look up, collect, six agents, write, check, store | each source and agent may fail, some facts are fetched twice | no warning is lost |
| **Portfolio** (`services/portfolio.py`, `repositories/sqlalchemy.py`) | the account's row and its holdings | read the broker, replace the holdings | overlapping synchronisations at READ COMMITTED | one snapshot |
| **Application and proxies** (`main.py`, `api/`, `core/`, `src/apps/web/lib/*-proxy.ts`, `middleware.ts`) | a request on its way | middleware, proxy, guards, service, answer | timeouts, restarts, bodies that never end | every request is answered, and truly |
| **Dashboard** (`src/apps/web/components/market-dashboard.tsx`) | symbol, lookups, history, socket, timer | search, navigate, connect, retry, go on and off line | late answers, late socket events, effects that run later | the feed is of the symbol shown |
| **Content, financials, disclosures, investor flow** | rows written by one request | fetch, upsert | provider failures | upserts are idempotent |
| **Indicators, patterns, metrics** | none | pure formulas | rounding, missing data | |
| **Migrations, scripts** | none at run time | | | |

The hazards, each at its line with the properties that would catch it, are in
`PROJECT.json`.


## 2 Modules

| module | what it is |
|---|---|
| `StreamingQuotes` | hub, KIS source and WebSocket route of one API process |
| `ModelRegistry` | artifact store, registry table, promotion, prediction |
| `TossClient` | request loop and token manager in several processes over one Redis |
| `Adjustment` | both views of the corporate actions known at a time, as pure operators |
| `CorporateActions`, `RevisionLedger` | approvals and ingestions of revisions, EXTENDS `Adjustment`; the abstract ledger that they implement |
| `Backtest`, `Account` | both engines, comparison and validation; the abstract account that the event engine implements |
| `RateLimit` | sliding windows in memory and on Redis, and the administrator's failed attempts |
| `TossLimiter` | the token bucket of one group of Toss requests |
| `PollingQuotes` | polling hub, both buses, WebSocket handlers |
| `ReferenceAlerts` | alerts, watchlist and overlapping evaluations |
| `CandleIngestion` | pipeline and transaction of overlapping ingestions |
| `DataRetention` | cleanups of the lifecycle and the audit service |
| `CandlePartitions` | monthly partitions, the default partition, the archive's proposal |
| `Dashboard` | lookups, history and the live feed of the page |
| `Gateway` | a request through middleware, proxy, application and back |
| `PortfolioSync` | overlapping synchronisations of an account |
| `AnalysisReport` | one AI report: facts, score, agents, signal, gate |
| `CandidateReview` | preview and approval of candidates while companies file |
| `MC...` | instances for TLC: values of the constants, symmetry.  `MCServices` has the eleven components that share a run, `MCTossProvider` tokens and limiter, `MCActionReview` revisions and their review |
| `StreamingQuotesProofs`, `ModelRegistryProofs` | theorems about the module they are named after |
| `CorporateActionsProofs` | theorems about `CorporateActions`, `Adjustment` and `CandidateReview` |
| `TossClientProofs` | theorems about `TossClient` and `TossLimiter` |
| `RequestProofs` | theorems about `Gateway`, `AnalysisReport`, `RateLimit` and `Backtest` |
| `LiveDataProofs` | theorems about `ReferenceAlerts`, `PollingQuotes` and `Dashboard` |
| `StorageProofs` | theorems about `DataRetention`, `CandlePartitions`, `PortfolioSync` and `CandleIngestion` |
| `DataLemmas` | what the proofs need of sums and of sorted sets of any size |

Each module has one action per operation, or per part of an operation between two points
where another actor can come in.  Operators named "Mutant" in the comment above them are
not used by any specification: they are plausible mistakes in the definition after them,
kept to show that the properties notice.

### StreamingQuotes

Everything runs on one asyncio loop.  The locks of hub and source are never held across
a suspension and the action queue is unbounded, so code between two awaits that really
suspend is one action.

| variable | code |
|---|---|
| `phase`, `sym`, `alive` | where a handler is in `hub.stream()`, its symbol, whether its browser is there |
| `registered` | `StreamingRealtimeQuoteHub._subscriptions` |
| `subscriptions`, `hasSubs`, `actions`, `connection` | the fields of `KISStreamingQuoteSource` |
| `run`, `replay` | the position of `_run` and the part of its snapshot still to send |
| `upstream`, `rejected` | what KIS streams on this connection, and the symbols whose last message on it KIS rejected (external) |

A handler registers (`Register`), looks the stock up in a thread if it is the first
(`Subscribe`, `ResolveFails`), and leaves in its `finally` block (`Unregister`), which also
runs late, from the loop's async-generator finalizer (`SendToGone`, `Finalize`).  `_run`
wakes, connects, copies the subscriptions and drains the queue in one step (`Connected`),
replays, and then sends queued actions until the connection is gone.  A connection stays
`closed`, but set, during the backoff: `subscribe` still queues then.  KIS follows each
message or rejects it (`Send`); the source only logs a rejection (`kis.py:393-400`), keeps the
symbol and sends nothing again until the next connection replays what it holds.

Left out: the contents of trades, the cached quote on the bus, the approval key.

### ModelRegistry

Threads of one process; the store's `RLock` (`holder`) makes each operation of it
exclusive, PostgreSQL's row locks are the threads in `pc = "commit"`.  `dir` and `intact`
are the directories under `staged/`, `pointer` the files `active/<scope>.json`, `row` the
table.  `littered`, `tainted` and `overlapped` are history variables: which directories a
crash or a failed clean-up left half written, and after what the two stores may disagree.
A training request stages, looks the version's row up (`Save`) and inserts it (`Insert`), two
statements between which another request may insert the same row: the later one then fails on
the primary key.  `StageFails` removes its directory or, since `stage` passes over an error of
the removal itself (`artifacts.py:87-95`), leaves it.  `PromoteCommit` has both the UPDATE of
the other champions, as found in its snapshot, and the partial unique index.  `StageStart` and
`StageWrite` are the two halves of `stage`; what lies between artifact and manifest shows only
when the process dies or the clean-up fails, and both look the same to the next `stage`.  Nothing in the service calls
`Rollback`; deployment may (`src/docs/architecture/ml-prediction.md:36`), at any time.

Left out: the numeric model and its metrics.  A version stands for its digest: the same
training data gives the same version.

### TossClient

Toss keeps one valid token per client (`valid`); `Issue` ends the one before.  `redis`,
`memory` and `lock` are the cache's two levels and the manager's lock of each process,
`issueLock` the lock on Redis.  Value and time to live are two reads, so an `AccessToken`
says from which token its lifetime comes.  A thread's `pc` walks through `get()`
(`GetValue`, `GetTtl`, `TakeLock`, `TakeIssueLock`, and after a second look `Issue`,
`Store`) and through the request (`Answered`, `Rejected`, `Forget`, `Unset`,
`RetryOrFail`).  Toss, the clock, Redis and the death of a worker are external actions.

Left out: payloads, the pauses between retries, and the limiter, which only delays.

### Adjustment and CorporateActions

`Adjustment` has `list_known` (`Known`), the history a page lists (`Listed`), the choice of the latest revision (`Latest`,
`Selected`), the view for charts (`AdjustBackward`) and the one for backtests (`Accepts`,
`AdjustForward`), for all candles as `AdjustedView` and `BacktestView`.  A price factor is a power of two, so products are sums.  The view for
charts scales candles before an event, the one for backtests those from the event on.

`CorporateActions` has the committed `rows` and `approvals` and the requests that write
them.  An approval fetches and reads the clock (`StartReview`: that is `known_at`), locks
the stock-master row and chooses a revision (`ChooseRevision`), and commits
(`CommitApproval`); an ingestion takes an answer of the source that is no larger than asked
for, in range and known by now (`Admits`), looks its keys up (`Contradicts`), and commits all
or nothing (`SaveBatch`).  Fetch and look-up of an ingestion are one step: what is fetched does not
depend on the database, and the look-ups are what matters.

`RevisionLedger` is what they promise together, without clock, lock, chosen number or look-up:
an approval is asked for (`Ask`) and recorded with the first free number (`Record`) or
dismissed, a batch is taken (`Take`) and stored whole (`Store`) or refused.  The mapping keeps
`rows`, `approvals` and `batch` as they are, shows the place of a request as idle, busy or failed
(`StatusOf`), and as what is asked for the evidence under review (`UnderReview`).  The property
is `KeepsALedger == Ledger!LedgerSpec`; it implies `RevisionsAreImmutable` and
`BatchesAreAtomic`, which are stated for themselves and proved, but not run.

Left out: the volume's rounding and the validation of single fields.

### MCServices

`Backtest`, `RateLimit`, `PollingQuotes`, `ReferenceAlerts`, `CandleIngestion`, `DataRetention`,
`CandlePartitions`, `Dashboard`, `Gateway`, `PortfolioSync` and `AnalysisReport` share no
variable, and no two of them give a name to different things.  `MCServices` extends these
eleven, whose properties it checks as they stand, and lets
`focus`, which never changes, choose the one that moves: a behaviour of the composition is
a behaviour of one component while the others rest in their initial states.  The reachable
states are therefore the sum of the components', not their product, and a property of a
component holds of the composition exactly if it holds of the component alone.  Where
components of the program do interact, the model that contains the interaction is one
module: hub, bus and route in `PollingQuotes`, pipeline and transaction in
`CandleIngestion`, page, DART and service in `CandidateReview`, proxies and application in
`Gateway`, score and agents in `AnalysisReport`.  `MCTossProvider` and `MCActionReview` put two components
side by side in the same way: tokens and limiter, which only delays a request, and revisions and
the review that hands a candidate to them.

### Backtest and Account

Money is counted in 1/10000, so that percentages of commission, tax and slippage stay
integers; prices and volumes of each bar and the strategy's signal are chosen by the
environment when the bar comes, which hides the future from the engine.  `Open` executes
the order that the bar before left (`ExecuteBuy`, `ExecuteSell`, or a rejection, bounded by
cash and by the participation in the volume), `Close` observes the signal, places the next
order, and on the last bar sells what is left (`ForceClose`).  `VectorTrades` is the
vectorized engine: the shift of the signals and the changes of the position.  Folds of a
validation start with fresh engines after a warm-up (`NextFold`, `Fold`), and a plain run is
stored (`Save`).  `Account` is the promise, three actions over cash and shares; the engine
implements it (`Ledger == INSTANCE Account WITH ...`, property `KeepsAnAccount`).

### RateLimit

`requests` are the stamps of each key's window: a time, and a number that tells the requests
of one moment apart, as the member of the sorted set does on Redis and the place in the deque
does in memory.  `order` is the memory table's recency, `operations` its counter for the sweep.  A Redis script is one step, but with a clock that
its replica read before the call, up to `Lag` behind.  The administrator's attempts are two
steps, `CheckAttempt` and its outcome, as in `api/admin.py`.  `granted` and `promised` are
history: when a key was admitted, and when a refusal told it to come back.

### TossLimiter

Time in ticks, tokens in fractions, so that every rate is an integer.  `Acquire` is one turn
of the loop under the lock: it refills, and takes a token or goes to sleep (`wake`).
`Observe` is an answer with its headers, which may come in another order than the requests
were sent, or lack them; `OpeningChanges` the ten minutes in which orders have a rate of
their own.  History: `budget` is what the last answer and the rate since allow; `acquired`
counts the requests that were let through, and `spans` keeps for each tick how many there had
been before it and the highest rate in force since.  `NoBurst` is the promise of a token bucket, for every span at once.

### PollingQuotes

A quote is the version of the market it was fetched at.  `StartRound`, `Fetch`, and one of
`PublishInMemory` or `SetCache` then `TellChannel` are the poller; `Connect`, `GetCached`,
`Listen`, `Forward` a handler; `Leave` the browser.  Memory queues have room for one message
and drop the older one.  A publication on Redis may fail between its two commands, and the
cached message expires.  The Redis bus is shared by all workers: `OtherWorkerPublishes` sets the
same key and tells the same channel a quote that another worker's poller fetched at any time
before (or its failure), and `foreign` counts that.

### ReferenceAlerts

An evaluation reads the active alerts, fetches a quote per stock, any of which may fail,
and then records alert by alert in transactions of their own (`Begin`, `Fetch`,
`StartRecording`, `Record`), while other evaluations do the same and administrators
create and disable.  What it has triggered (`triggered`) it returns after the whole loop
(`End`, counted in `alertReports`); an exception or the death of the process before that
(`EvaluationFails`) keeps what is committed and drops the list (`unreported`).  `FindWatched`
and `InsertWatched` are the two halves of `add_watchlist`, which the unique key decides.

### CandleIngestion

`Errors`, `Gaps`, `Cleaned` and `Aggregate` are the pipeline, as operators over sequences of
candles.  The transaction is row by row, as the session does it: a `Select` that loads, a
`WriteRow` when the next autoflush comes, of only the columns that differ from the loaded
ones; `Commit` or `Rollback`.  A row that another transaction has written blocks, and an
insert of a key that came to exist fails the session.  The tables are empty at first or hold
what an earlier run stored (`Earlier`), so that two sessions can both update a row that both
have read; the history `overtaken` has the rows in which the later UPDATE was computed from
columns that the other had changed meanwhile.

### DataRetention and CandlePartitions

`DataRetention` has days, rows with the day they were created on, the jobs of scheduler and
administrator (`BeginCleanup`, `Delete` of all tables of a service in one transaction,
`NoteSuccess` or `DeleteFails` afterwards under the service's lock), and restarts, which
forget the status.  `CandlePartitions` has months of two days, of which the second is the
20th, the job of every start and every 20th (`EnsureFuture`), and candles that go to their
partition or to the default one; PostgreSQL refuses a partition for rows that lie in the
default one (`Blocked`).

### Dashboard and Gateway

`Dashboard` has React's state, the refs of the lookups, the browser's history, and every
socket ever opened.  A socket that the page closes is `dropped` if it had not opened and
`closing` if it had, and is `closed` only with its close event: until then its open, message
and close events still arrive, and only the guard `Heard` (`stopped || socket !==
currentSocket`) keeps them from the state of the page.  The effect runs some
time after the state it depends on has changed (`RunEffect`), and the browser tells its
listeners of a connection some time after it has it (`Flip`, `TellOnline`, `TellOffline`).

`Gateway` has a request with the set of things wrong with it (`flawed`): every layer, in the
order of the code, refuses the first of them that it looks at (`WebChecks`,
`BackendChecks`, with the analysis key for the routes of `Protected`), the service returns, raises, or raises after it has changed the
stores (`Serve`, `Raise`, `RaiseLate`), and head and body of the answer are two steps, with
the proxy's timer over both (`TimeOut`).

### PortfolioSync, AnalysisReport, CandidateReview

`PortfolioSync` is `save_snapshot` statement by statement: the SELECT of the account's row,
its UPDATE or INSERT at the flush, the DELETE, which sees the rows committed when it starts
and waits for locked ones, the INSERTs with the commit.  `AnalysisReport` collects the facts
of six axes, of which each source may fail, computes the weighted score in integers,
runs the agents in their order, and refuses a draft that lacks a part (`Complete`); what is not a provider's or value error ends the report.
`warnings` and `charts` say what the risk and the chart agents read, `None` or nothing where
they failed, apart from the list of the missing that the code keeps.  Simplified are the flow
axis of a stock with known holdings, the news axis and the terms of severe risks in the score,
of which no property depends; a failing `repository.save` is left out.
`CandidateReview` fetches in requests (`ReadPage` of the list of disclosures, `ReadRows` of
each kind of action), groups by a hint without receipts (`Hint`), and lets an administrator
select and approve while reports and corrections arrive.  `approved` is history: what was
shown and what was fetched again.


## 3 Runs

| run | instance | what it shows |
|---|---|---|
| `streaming` | 2 browsers, 3 symbols, hub of 2 connections and 2 symbols, source of 2, 2 failures, fair | `TypeOK`, `IntentAgrees`, `SubscribedReachesUpstream`, `ReleasedLeavesUpstream` |
| `streaming_waiters` | 3 browsers, 3 symbols, hub of 3 connections and 2 symbols | finding: `WaitersAreSubscribed` is violated |
| `registry` | 3 versions of 2 scopes, 2 promotions, 2 predictions, 1 fault | `TypeOK`, `OneChampion`, `PointerIsComplete`, `PointerIsChampion`, `NoCircularWait`, `TrainingIsRegistered` |
| `registry_overlap` | 2 versions of a scope, 2 promotions, no fault | finding: `ServesChampion` is violated |
| `toss_tokens` | `MCTossProvider`: 3 threads of 2 workers, 1 retry, 4 tokens of which 2 end or age; or 2 senders of a bucket, rates from 0.5 to 4 a second, times 0..3 of half a second | `CacheIsCurrent`, `NeverSupersedes`; `NoBurst` |
| `toss_faults` | the same threads, 3 tokens of which 1 ends or ages, 1 fault | `TypeOK`, `SingleIssuer`, `HoldersGoOn` |
| `toss_retry` | 2 threads of 1 worker, 1 token ends | finding: `RetryOnceSuffices` is violated |
| `corporate_actions` | `MCActionReview`: 2 approvals, 2 ingestions, 2 candidates for one event, 3 reported revisions in batches of up to 2, times 0..2; or 1 administrator, up to 3 filings of 3 kinds of reports | `TypeOK`, `ApprovalsNeverCollide`, `BacktestsAreCausal`, `ViewsAgree`, `KeepsALedger`, `NoLookAhead`, `PastIsFinal`; `GroupsOnlyGrow` |
| `corporate_corrections` | the same approvals and ingestions | finding: `CorrectionsFailClosed` is violated |
| `services` | the eleven components of `MCServices`, in turn | `KeepsAnAccount`, `EnginesAgree`, `WindowIsExact`, `NeverGoesBack`, `GoneIsReleased`, `TriggersOnce`, `OnlyWholeBatches`, `CleaningIsExplained`, `HealthyMeansClean`, `PartitionsKeepUp`, `FeedIsCurrent`, `RefusedChangesNothing`, `EveryRequestIsAnswered`, `HoldingsAreOneSnapshot`, `WarningsAreHeeded`, `TypeOK` of all |
| `toss_remaining` | 1 sender of a bucket, times 0..5 | finding: `RemainingIsHonoured` is violated |
| `candidate_groups` | 1 administrator, up to 2 filings | finding: `ChangedGroupsAreRejected` is violated |

Each property is stated, with the code it is about, above its definition.

### Bounds and why they are enough

- *Streaming.*  Two symbols compete for the slots, a third is refused.  Two browsers, of one
  symbol or of two, are enough for every property of `streaming`: liveness follows one
  symbol, and the invariants are proved for any number.  The finding needs a third browser
  that frees no slot.  `MaxFaults = 2` allows a failure during the recovery from another
  (drop, then a failing connect or a failing lookup).  `MaxQueued = 1` only stops browsers
  from joining while two or more actions wait: leaving still queues, so the queue grows
  past the bound.
- *Registry.*  Two versions of one scope overlap, the third, of another scope, shows that
  scopes do not disturb each other.  One fault is enough to end a promotion between its
  stores, to leave a directory, or to damage an artifact; the proofs cover any number.
- *Toss.*  Three threads in two workers give two in one process and one elsewhere, which
  is what lock, memory and Redis distinguish.  `MaxTokens` exceeds the number of tokens
  that can end, so that issues beyond need would show.  With faults in play the retries
  are left out and with retries the faults: `RetryOrFail` touches no lock and no cache.
- *Corporate actions.*  The two candidates name one event with different effective times
  and opposite factors.  The feed has a split, the same revision with another factor and a
  cancellation that names a later time: a replay, a contradiction and a correction.  Three
  times are enough for an approval to read its clock, wait, and commit what is known at a
  time that is over, beside another that has not.
- *Toss limiter.*  Rates below one token a second (0.5), above the first (4) and between
  (2 while the market opens, 3 at first), and answers that leave none or two; two senders take tokens in
  turn while one of them sleeps.  The theorems are for any number, rate and time.
- *Candidate review.*  Pages of 2 where DART has 100, a preview of one page and an approval
  of two, as 100 and 200; a third filing lies on the second page, so that only the approval
  knows its name.  The reports are a bonus issue, its correction, whose numbers make no
  factor, and one that is no candidate.  The theorems are for any number.

- *Services.*  Every property is broken by one wrong definition within these bounds (the
  mutants of `PROJECT.json`), and:
  - `Backtest`: up to 5 bars, prices 2 and 3, volumes that allow nothing, less and more than
    the cash does; capital for some shares with rest; folds of at least 2 bars.
  - `RateLimit`: limit 2, window 3, a table with room for one of two keys, a sweep at every
    second operation, a lag of 1, times 0..4: a window passes once and more.
  - `PollingQuotes`: two browsers of one symbol, as many quotes as an order needs (2), one
    message in flight, one fault, one publication of another worker.
  - `ReferenceAlerts`: one alert, two evaluations and an administrator, one failure, of a
    quote or of an evaluation; the theorems are for any number.
  - `CandleIngestion`: two ingestions, responses of up to two of four candles: a day twice,
    one twin invalid; a later week; an unknown basis.  Tables that are empty, or hold one
    response of an earlier run, a candle of unknown basis: both ingestions then update the
    row they have both read.
  - `DataRetention`, `CandlePartitions`, `PortfolioSync`: two tables, a restart and a
    failure; ten days (five months); two synchronisations of three portfolios.  The theorems
    are for any number.
  - `Dashboard`: two symbols, two lookups, three sockets, one retry, two changes of the
    connection: two sockets that were replaced still have all their events to come.
  - `Gateway`: one request, since requests share nothing but a restart, which is in the
    model; one flaw and one restart.
  - `AnalysisReport`: facts from small sets that reach each side of the score's middle.

`MaxFaults`, `MaxFailures`, `MaxFlaws`, `MaxRestarts`, `MaxQueued`, `MaxTokens`, `MaxEnded`,
`MaxTime`, `MaxDay`, `MaxForeign`, `MaxRows`, `MaxRuns`, `MaxBars`, `MaxBatch`, `MaxLength`,
`MaxResponses`, `MaxVersion`, `MaxLookups`, `MaxSockets`, `MaxHistory`, `MaxFlips` and
`MaxFilings` are bounds of the models; the other constants are the program's parameters.

### Deadlock

Toss and corporate actions are checked for deadlock: a request can always begin or end.
The streaming runs and the registry runs say `CHECK_DEADLOCK FALSE`, because these systems
may really stop: once the source is stopped at shutdown, with its failures used up, and
the remaining handlers waiting for trades that no longer come from it; and once every
artifact is damaged or left half written, when each further request is answered with an
error and changes nothing.  `NoCircularWait` states for the registry what deadlock would
have: while a request is busy, some request can go on.  `MCServices` says it too: a report
that is stored, a request that is answered, or a page whose lookups and sockets are used up
by the bounds has nothing more to do.  So do the runs of the findings about `TossLimiter`, where
the bound of the clock may end a sender's sleep, and about `CandidateReview`, where an approval
may be the last thing to do; beside the tokens and the revisions both may rest for ever, and
deadlock is checked for these.

### Fairness

`streaming` assumes weak fairness of three things: the next step of each handler that has
one, of the source's `_run` task, and of its sender.  asyncio runs every ready task, and
finalizers run on the loop; lookup, approval key and connect have timeouts, so that they
answer or fail; a send to a connection that is dead raises, once the WebSocket library's
keepalive has given it up.  Nothing is assumed of browsers, nor that KIS follows any message:
both liveness properties except what KIS has rejected on the open connection.  Of failures there
are finitely many: over a network that fails for ever no subscription arrives, and the code
promises none.

`services` assumes the same of the poller and of the handlers of `PollingQuotes` (the event
loop runs both, and the provider's client has a timeout), for `GoneIsReleased`; and of the
web tier of `Gateway`: it forwards, and its timers fire (`EveryRequestIsAnswered`).  Nothing
is assumed of the back end, nor that a body is ever complete.


## 4 Proofs

All theorems hold for any number of browsers, symbols, threads, versions, scopes,
administrators, candidates, alerts, services and faults, under the assumption of the module
they are about (an `ASSUME`, or a named assumption in the theorem, which `MCServices` then
assumes of its instance).
Those assumptions are: the sets of clients and symbols are finite, special values are not
members, limits are natural numbers (a rate limit and its window positive, a clock's lag
shorter than the window; the rates of the Toss limiter are positive, as `max(0.1, ...)`
makes them; an approval fetches at least as far as a preview), a provider's candles have the columns of a stored one
(`IngestionAssumption`), and the factory's `min(realtime_max_symbols, 40)`
(`FactoryAssumption`).  TLC evaluates them in every run.  The bounds of the models
(`MaxTime`, `MaxFaults` and the like) are constants too, so that a theorem holds for any
value of them, and so of every finite course of the program.

| module | theorem | proves |
|---|---|---|
| `StreamingQuotesProofs` | `TypeCorrect` | `TypeOK` |
| | `IntentCorrect`, `UpstreamCorrect` | `IntentAgrees`, `UpstreamAgrees` |
| | `CountsCorrect`, `SourceWithinHubCorrect`, `NeverRefusedCorrect` | `CountsAreHandlers`, `SourceWithinHub`, `NeverRefusedBySource` |
| `ModelRegistryProofs` | `TypeCorrect`, `OneChampionCorrect`, `LeftoversCorrect` | `TypeOK`, `OneChampion`, `LeftoversAreExplained` |
| | `PointerCorrect`, `ServedCorrect` | `PointerIsComplete`, `PointerIsChampion` |
| | `TrainingRegisters` | `TrainingIsRegistered` |
| | `NobodyWaitsInACircle` | while a request is busy, the guard of some request's next step holds (`SomeoneMayGoOn`) |
| `CorporateActionsProofs` | `TypeCorrect`, `CollisionFree`, `EvidenceComplete` | `TypeOK`, `ApprovalsNeverCollide`, `RevisionsAreEvidenced` |
| | `ImmutableRevisions`, `AtomicBatches` | `RevisionsAreImmutable`, `BatchesAreAtomic` |
| | `NothingFromTheFuture`, `CausalBacktests`, `OneStory` | `NoLookAhead`, `BacktestsAreCausal`, `ViewsAgree` |
| | `ImplementsLedger` | `KeepsALedger` (the refinement of `RevisionLedger`) |
| | `PastIsFinalCorrect` | `PastIsFinal` |
| | `ReviewTypeCorrect`, `GroupsOnlyGrowCorrect` | `ReviewTypeOK`, `GroupsOnlyGrow` |
| `TossClientProofs` | `TypeCorrect`, `SingleIssuerCorrect` | `TypeOK`, `SingleIssuer` |
| | `CacheIsCurrentCorrect`, `NeverSupersedesCorrect` | `CacheIsCurrent`, `NeverSupersedes` |
| | `HoldersAreBusyCorrect` | who holds a lock of a process is at one of the steps after which it is released (`HoldersAreBusy`) |
| | `LimiterTypeCorrect`, `NoBurstCorrect` | `LimiterTypeOK`, `NoBurst` |
| `RequestProofs` | `WindowIsExactCorrect` | `WindowIsExact` |
| | `RefusedChangesNothingCorrect` | `RefusedChangesNothing` |
| | `WarningsAreHeededCorrect` | `WarningsAreHeeded` |
| | `EngineImplementsAccount`, `HoldsNothingBetweenRuns` | `KeepsAnAccount` (the refinement of `Account`), `BacktestInv` |
| | `EnginesAgreeCorrect` | `EnginesAgree` |
| `LiveDataProofs` | `AlertsTypeCorrect`, `TriggersOnceCorrect`, `OutcomeIsFinalCorrect` | the types, `TriggersOnce`, `OutcomeIsFinal` |
| | `NeverGoesBackCorrect` | `NeverGoesBack` |
| | `FeedIsCurrentCorrect` | `FeedIsCurrent` |
| `StorageProofs` | `HealthyMeansCleanCorrect` | `HealthyMeansClean` |
| | `PartitionsCorrect` | `PartitionsKeepUp` |
| | `PortfolioTypeCorrect`, `SnapshotCorrect` | the types, `HoldingsAreOneSnapshot` |
| | `WholeBatchesCorrect`, `CleaningIsExplainedCorrect` | `OnlyWholeBatches`, `CleaningIsExplained` |

Each component has the same three facts: the initial states satisfy its inductive invariant,
each step keeps it (one lemma per action, or per group of actions that touch the same part),
and it implies the property.  The theorems named `...Invariant` (`Invariance` in
`CorporateActionsProofs`) state that the inductive invariant holds always.

Some properties are proved and not run, since a run on one instance would add little to the proof:
`UpstreamAgrees`, `CountsAreHandlers`, `SourceWithinHub` and `NeverRefusedBySource` of the
streaming path, `LeftoversAreExplained` of the registry, `RevisionsAreEvidenced`,
`RevisionsAreImmutable` and `BatchesAreAtomic` of the corporate actions (`KeepsALedger`, which
is run, implies the last two), the types `LimiterTypeOK` and `ReviewTypeOK`, and `OutcomeIsFinal`
of the alerts.

**Streaming.**  `UpstreamAgrees` speaks of an empty queue only, so a step that empties the
queue could break it.  `IntentAgrees` says at every moment which of queue, replay and
upstream decides for a symbol: the youngest queued action, or, without one, what is
upstream or about to be replayed; a symbol whose message KIS has rejected on this connection
is excepted from both.  `LinkInv` adds where `_run` is when (`RunShape`: no
connection while it waits or connects, no replay left once the sender runs).  `HubInv` has
the counters, the source's table inside the hub's, the cap on symbols, and `OneResolver`:
while a first subscriber resolves, its symbol is not yet the source's and nobody else
resolves it.  From these follows by counting that the source is never full when the first
subscriber comes to it.  A slot that is freed twice breaks `TypeOK` already; one that is never
freed only `CountsAreHandlers`.

**Registry.**  `OneChampion` is inductive by itself, from the unique index.  `StoreInv` adds
to the properties of pointers and directories that the version a promotion works on is
registered, and that a trainer that fills a directory holds the store's lock; that a
complete directory never vanishes is a lemma (`ManifestStays`).  `Backed` (what a trainer
saves, and what the table knows, has a complete directory) and `Explained` (an incomplete one is
being filled, or is litter) give `LeftoversAreExplained`.  `ServeInv` follows the
promotions of a scope from transaction to activation: where none overlapped or failed,
the champion is the version of the promotion that is about to activate, and the
pointer's at all other times (`Agreement`).

That training which nothing disturbs leaves a registered artifact, whether or not it lost the
insertion to another request (`TrainingIsRegistered`), needs to know what a
second training of the same version may find in its directory: nothing, or a complete artifact
whose bytes are what the manifest says (`Undamaged`), because a half-filled one is behind
the store's lock.  `NobodyWaitsInACircle` is what `NoCircularWait` says with the guards of the
next steps written out instead of ENABLED.  Promotions wait for rows: for their own
version's while another is about to commit it, and for those of the champions they have seen.
`WaitInv` has where each request may be, that two promotions do not hold the same row
(`OwnRows`), what a promotion that is about to commit can have seen (`Challenges`), and that
of any committing promotions one waits for no other (`NoCircle`).

**Corporate actions.**  The invariant is `IInv == TypeOK /\ Numbered /\ ApprovalIsCurrent
/\ Evidenced`: revision numbers are unique and reviewed ones without a gap; an approval
that is about to insert still has the number after the highest, because only the holder of
the stock-master row adds to reviewed events; and action and evidence come together.
`ImportInv` says of an ingestion that what it will not insert is stored already.
`NoLookAhead` and `BacktestsAreCausal` rest on two lemmas about the operators of
`Adjustment` alone (`FutureIsInvisible`, `ViewIsCausal`).  `ViewsAgree` compares sums: the
revisions that the view for charts applies to a candle are those that the backtest view applies
and those after it, and `FiniteInv` (only finitely many rows are stored) lets them be summed
in two parts.

That they implement `RevisionLedger` (`ImplementsLedger`) is shown action by action.
`StartReview` is an `Ask`, a replay or a lost connection a `Dismiss`, `CommitApproval` a `Record`;
`ChooseRevision` of new evidence, which only takes the lock, and the clock are stutters.  What has
to be shown of `Record` is that the number chosen some steps ago is the first free one now
(`ChosenIsFirstFree`), and that the evidence is still not on record: both because only the holder
of the stock-master row adds to reviewed events (`ApprovalIsCurrent`).  `Ingest` is a `Take` or a
`Refuse`, `SaveBatch` a `Store` or a `Refuse`.  A `Store` adds the whole batch, the code only what
it had not found: `ImportInv` says that the rest is stored, and `BatchFits` that what the unique
constraint let through contradicts nothing.  A request that fails is an ingestion, since no
approval does (`ApprovalsNeverCollide`), so every `TryAgain` is a `Recover`.

`PastIsFinal` follows from two facts about a step.  An approval that is under way after it
was so before with the same reading of the clock, or reads the clock now (`ClockIsReadOnce`);
and a row that comes is of the feed, which reports no reviewed event, or known when the
approval that commits it had read its clock (`NewRowsAreFedOrReviewed`).

**Candidate review.**  The approved group has every receipt of the group that was shown,
although both are computed from fetches during which companies file.  `FetchIsSound` says
that what a fetch holds was filed, and which names it cannot know yet; `GroupsAreSound` the
same of what a page shows and has selected.  A hint depends on the name, so the argument has to be that
the approval knows every name the preview knew: it reads at least as many pages, and on each
whatever had been filed before it began (`NothingIsSkipped`, `FindsAgain`).  This is
where `PreviewLimit <= ApprovalLimit` is needed; with the limits exchanged TLC finds a group
that shrinks.

**Sums and sorting.**  A fold over a set adds in an order it chooses, and a sorted sequence is
chosen among the orders of its elements, so neither computes for the prover.  `DataLemmas` has
what follows for sets of any size.  A schema of induction would need an operator as its
parameter; each lemma takes instead a smallest set, or a least number, at which it fails
(`SmallestSet`, `LeastNumber`), and takes an element away from it.  So a sum does not depend on
the order (`SumOfRest`), it is the sum of the sums of its parts or groups (`SumOfParts`,
`SumOfGroups`), and a finite set of numbers has one increasing sequence (`SortExists`,
`OneOrder`).

**Ingestion.**  `OnlyWholeBatches` speaks of committed rows only.  `IngestionInv` adds for each
session (`SessionOK`): what it has read is there, as it has written it or committed; every row
of its response is there or still to be saved; every value it has written is from its response
or from a committed one, which holds of an UPDATE that keeps the columns it does not change as
well; and each row it has written is as a whole its response's, unless it has overtaken
another session there.  Rows are never deleted, so what others commit leaves a session sound
(`SessionStays`), and what an earlier run stored is whole to begin with (`EarlierIsWhole`).
`CleaningIsExplained` needs of the state only that a response is a sequence of candles; that
cleaning keeps each day with a valid candle is `CleanedKeeps`.  Without
an error the days of a response increase, so they are the sorted days, and each has one
candle (`SoundIsKept`); what cleaning returns never has an error (`KeptIsSound`); and a week
or month is one of the groups into which the candles fall (`GroupIsACandle`, `AggregateKeeps`).

**Toss tokens.**  `PlacesAgree` says which places of `get()` hold the lock of the process,
which is `SingleIssuer` within a process.  `TokensAreIssued` bounds every copy of a token by
the last one issued.  `FaultFree` has what holds as long as nothing has failed: the place of a
thread past the lock on Redis says that it holds that lock, so there is one such thread in all
processes; a thread that issues has looked again and found nothing usable, and nothing usable
comes to Redis before it stores its own; and a token that Toss accepts for long enough is on
Redis or on its way there.  Without the last clause `NeverSupersedes` fails after a `forget`:
the deletion compares values, so it removes only a token that Toss has ended already.
`HoldersAreBusy` has two halves: a lock is held by a thread of its own process
(`LocksAreLocal`), and a holder is where `PlacesAgree` says.

**Toss limiter.**  A bound on what was sent since a moment is not inductive: what is left in the
bucket can be sent at once.  `Accounted` counts it in: for every moment up to the last
refill, the tokens sent since and those still in the bucket are at most one second and the
time up to that refill of the highest rate since; for later moments nothing was sent.  An
answer only takes tokens away, and a rise of the rate raises the peak.

**Portfolio.**  That the holdings are one snapshot is not inductive: between DELETE and
INSERT of a second writer it says nothing of what the DELETE has seen.  `OneWriter` (the
lock of the account's row admits one synchronisation at a time) gives `DeletesEverything`:
what the statement saw when it began is still all there is when it ends.

**Alerts.**  `TriggersOnce` is inductive with `EvaluatesKnown`: an evaluation works on alerts
that exist and records those it has a quote of; that the row is locked and looked at again
before it is written does the rest.  An alert that is triggered is in the list of one
evaluation, in one report, or lost with the evaluation that had it (`ToldOnce`).
`OutcomeIsFinal` is an action property from the same invariant.

**Partitions.**  `StrayIsPast` (only months that have begun have candles in the default
partition) keeps the months to come free of refusals, and `EnsuredIsPlanned` (a run that
succeeded has left all its months) gives each its partition.

**Retention.**  Between the delete and its note the status is of another run, so the
invariant follows the cleanup: `DeletedIsClean` says that what a cleanup has deleted stays
away, because new rows are of today and `RunsArePast`.

**Backtests.**  Each step of the engine is a step of `Account` or a stutter.  Executing an
order is a `Trade` by arithmetic (`QuotientFits`: what the floor division allows, the cash
pays for), the forced sale a `Finish`, and a fold or an answer a `Reopen`.  `BacktestInv` says what
an engine starts from: a run that is over holds nothing, so that opening the next account
drops no shares.

That both engines agree needs what the event engine knows of the signals in the middle of a
run: before the open of a bar its trades are the orders of the bars before and the order that
waits is the one the last signal asks for (`BeforeOpen`); after it what is held is the position
of the vectorized engine at that bar (`BeforeClose`).  That the position up to a bar depends on
the signals before it only is a lemma (`PositionsAreKept`).

**Rate limit.**  That a window never exceeds its limit speaks of what was granted, and the code
counts what it has kept.  `Sound` relates the two for one window: its stamps are distinct
(`Numbered`), so one request more is one stamp more; in every span that reaches back no further
than a window, the window has kept at least as many requests as were granted, shifted by the
lag of the replicas' clocks (`Accounts`); and while a promise stands, the window is not full
or one of its requests will have left it by then (`Honours`).  The invariant had to be stated
for every span, not only for the one the property names: pruning with a reading that is behind
keeps more than the clock says, and pruning at the clock less.  Memory and Redis are then the
same argument with a lag of zero or not (`DecideSound`, `KeepsSound`), and an evicted or
cleared window starts again from nothing (`SoundCleared`).

**Gateway.**  `RefusedChangesNothing` must also hold of an answer that the proxy gives while
the back end goes on: `ChangesAreServed` says that stores change only with the service, whose
end is an answer outside 400..499 unless the route is a promotion.  That no except clause turns
an unexpected error into a refusal is a fact about the table of routes (`RoutesCatchNothing`,
`UnexpectedStatus`).

**Reports.**  `WarningsAreKnown` (after the risk agent, the warnings are the bundle's if it has
any) and `NothingIsMissing` (what an agent leaves behind, the warnings and the charts included,
is there, or it is on the list of the missing) are carried from step to step of the pipeline; `OverallType` has that a score is a
number, for all weights.

**Polling.**  `NeverGoesBack` is an action property.  Its invariant orders every copy of a quote:
cache, queue and browser are behind the market and behind what is about to be published, each
queue is in order (`InOrder`), what a browser shows is not after what its queue holds, and
nothing waits for a handler before it has shown the cached quote and listens (`QueuesAreFed`).
All of it holds while no other worker has published (`PollingAloneInv`), as the property says.

**Dashboard.**  `FeedIsCurrent` is inductive with the types and with `FeedRests` (an effect
without a stock has neither socket nor timer, and the socket an effect holds was not closed by
the page).  An event changes one socket, which is alive afterwards only if it is the effect's
own (`OneSocket`); a late event of another changes nothing else (`UnheardStep`).

**Only model-checked**, and why:

- liveness (`SubscribedReachesUpstream`, `ReleasedLeavesUpstream`, `GoneIsReleased`,
  `EveryRequestIsAnswered`): out of the prover's reach;
- what mentions ENABLED (`NoCircularWait`, `HoldersGoOn`): also out of its reach; what the code
  contributes to them, without ENABLED, is proved (`NobodyWaitsInACircle`, `HoldersAreBusyCorrect`);
- `TypeOK` of `MCServices`: the conjunction of the components' types in one instance.  The types
  that the invariants above need are proved with them.


## 5 Findings

1. **A browser waits for a symbol nobody subscribes** (`realtime/hub.py:226`, run
   `streaming_waiters`).  Only the first subscriber subscribes at the source.  When its stock lookup fails after a
   second browser has joined, the second stays registered, is never subscribed and never
   told, and so are all who join before every one of them has left.
2. **Inference serves the version that was demoted** (`services/model_registry.py:69`, run
   `registry_overlap`).  Two promotions of a scope may activate in the opposite order of
   their transactions.
3. **One automatic reissue is not enough** (`providers/toss/auth.py:86`, run `toss_retry`).
   A thread that has read the rejected token from Redis puts it back into the memory cache
   after another has deleted it; the repeated request sends it again and fails.
4. **A corrected history is accepted by a backtest** (`corporate_actions/engine.py:148`,
   run `corporate_corrections`).  A known correction or cancellation that names a later
   effective time is filtered out before revisions are counted, so the revision it replaces
   is applied.
5. **After an answer that says no request is left, one is sent at once**
   (`providers/toss/rate_limit.py:86`, run `toss_remaining`).  `observe` lowers the tokens
   but leaves the time they were counted at, so the next `acquire` adds what the rate allowed
   before the answer a second time.
6. **A group that changed since its preview is approved** (`services/corporate_actions.py:404`,
   run `candidate_groups`).  The approval fetches again and looks for the group by its hint,
   which does not depend on the receipts in it: a correction filed meanwhile joins the group,
   and the report it supersedes is approved.

Met while modelling, and not checked as properties:

- `approve` reads `known_at` from its clock (`services/corporate_actions.py:423`, `:438`) before
  the repository waits for the stock-master row, so an approval that waits commits a revision
  known at a time that is over, for which a backtest may have been computed without it.
  `src/docs/architecture/corporate-action-adjustments.md:114` says that `known_at` is the approval
  time, so that review cannot backdate knowledge.  What holds instead, and is proved, is
  `PastIsFinal`: the past is final once the approvals that had read their clocks by then are
  answered.
- The preview reads one page of DART's list (limit 100), the approval two (limit 200,
  `corporate_actions/dart_candidates.py:205`).  A candidate whose disclosure is on the second
  page has a name only for the approval, so its hint differs and the approval answers 409
  every time.
- `src/docs/api/error-envelope.md:3` promises the envelope for every error; FastAPI's own 404 and 405 and the
  refusals of the host and CORS middlewares come without the envelope.
- KIS may reject a subscription.  The source logs that and keeps the symbol
  (`realtime/kis.py:393-400`): until the next reconnect nothing is sent again, and the browser
  waits without being told.
- Two requests that are the first to predict with a new version both find no row of it and both
  insert it (`repositories/sqlalchemy.py:531-557`): the later one fails on the primary key and
  answers 500.  Asked again it succeeds (`TrainingIsRegistered`).
- A directory that `stage` cannot remove after a failure stays without a word
  (`prediction/artifacts.py:87-95`), and every later training of that version fails with
  `FileExistsError` (`LeftoversAreExplained`).
- `evaluate_active` returns what it has triggered after the loop (`services/alerts.py:88-117`),
  each trigger is committed in it.  When a later alert raises, or the process ends, nobody
  is told of those before it, then or later.  The scheduler's job drops the result in any case
  (`scheduler/jobs.py:90`).
- With the Redis bus and several workers each worker's poller publishes on its own, so a browser
  may be shown an older quote after a newer one; `NeverGoesBack` is claimed for one publisher.
- Two sessions that update the same candle write only the columns in which their response
  differs from what they have read (`repositories/sqlalchemy.py:75-107`), and the later one does
  not look again.  The row may then have columns of two responses, and was never reported as
  it stands; a raw row, which `src/docs/architecture/data-quality.md:3-5` has preserved as the
  provider sent it, may even have prices out of order.  With three responses in play cleaned
  rows mix as well.  `OnlyWholeBatches` claims whole rows where no session was overtaken, whole columns elsewhere.
- A promotion may answer 409 after the registry has committed (finding 2's gap);
  `RefusedChangesNothing` makes an exception of it.
- A limit below one request a second leaves room for less than one token
  (`providers/toss/rate_limit.py:58`, `:76`): `acquire` then sleeps and looks again for ever.
- Agents isolate provider and value errors only: a capability that no provider offers ends
  the report with a 500.
- A report whose text the gate refuses leaves its prediction stored.
- The scheduler is shut down without waiting: a job may run on while the process stops.
- Archive proposals count months in Korean time (`database/partitions.py:142`), the guide
  to them in UTC (`src/docs/architecture/candle-partition-archive.md:11`).


## 6 Plan

Done: all modules above and their proofs.  What would add most:

1. An abstract quote stream that `PollingQuotes` and `StreamingQuotes` implement.
2. Content, financials and disclosures: the find-then-insert of `repositories/sqlalchemy.py`
   is that of `CandleIngestion` with one row per key.
3. Proofs of the remaining types of the components of `MCServices`.


## 7 What is not modelled

- *Parsing and mapping of provider payloads* (`providers/toss/provider.py`, DART, KIS, news,
  financials): stateless conversions of external formats.
- *Indicators, patterns, metrics, and the technical and financial score*: floating-point
  formulas without state.
- *Ratios and dates in filings and exchange verification* (`corporate_actions/dart_mapping.py`,
  `exchange_verification.py`): text, and one remote lookup whose verdict is not kept.
- *Content, financials, disclosures, investor flow*: one request that fetches and stores row
  by row; two that overlap meet the same unique keys as ingestions do.
- *The analysis of a portfolio*: sums over a snapshot.
- *The other panels of the web application*: they fetch and show.
- *Migrations, deployment, scripts*: run once.
- *The volume's rounding* in adjustments and *the numeric model* in predictions: no property
  tells their values apart.
