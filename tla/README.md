# Specifications of lego-opt-data

TLA+ models of the option-data collector (`src/option/opt-data`) and of the
pipelines of its stock sibling (`src/stock/stock-data`), the TLC
configurations that check them on small instances, and TLAPS proofs of the
results that matter most. The code is the reference; every definition is
translated from it, and `PROJECT.json` (`map`) names the lines.

## 1. The system

`opt-data` collects US option data through an IB gateway and keeps it in Parquet
files under `data/raw` and `data/clean`. Nothing but files is shared between its
processes: the CLI, the APScheduler process, the dashboard and the streaming
process all start the same runners.

| Part (under `option/opt-data/src/opt_data`) | State | Operations | What is hard |
|---|---|---|---|
| Client id pool and session: `ib/client_id.py`, `ib/session.py`, `util/retry.py` | lock file per id, `_lock_path`, `client_id`, connection | claim, break an expired lock, connect with candidates and retries, reconnect, disconnect, crash | processes race on lock files; expiry of a live lock; nested retries |
| Intraday and close snapshots: `pipeline/snapshot.py`, `storage/writer.py`, `storage/layout.py` | partitions of `raw` and `clean` | capture, read-merge-deduplicate-overwrite per partition | overlapping runs, lost updates, a death in the middle of a write in place |
| Snapshot collection: `ib/snapshot.py`, `util/ratelimit.py`, `_capture_snapshot_rows` | tickers, open lines, semaphore, token bucket | three fetch modes, fallback exchanges | late and regressing data, failing cancellations, a token wait that blocks the event loop |
| Rollup and enrichment: `pipeline/rollup.py`, `pipeline/enrichment.py` | `daily_clean`, `daily_adjusted`, `enrichment` | select the close rows, add open interest | two multi-file writers, stale reads, writes that fail one by one, flags changed by Parquet |
| Streaming: `streaming/runner.py`, `selection.py`, `writer.py` | subscriptions, window, buffers | subscribe, rebalance, flush, shutdown | callbacks inside `qualifyContracts`, contracts the gateway does not know, failing writes |
| Backfill: `pipeline/backfill.py`, `util/queue.py`, commands `backfill` and `update` | queue file per day, three layers | plan, run, run_range, stop | crash in and around `save`, partial tasks, requeueing, two commands on one file |
| Scheduler: `pipeline/scheduler.py`, command `schedule` | APScheduler jobs, sets shared with the event listener | plan a day, run the jobs, simulate, re-initialise every day, exit when idle | misfires, one job failing inside another, events out of order |
| Discovery and universe: `ib/discovery.py`, `universe.py`, the precheck in `cli.py` | cache file per symbol and day, universe file | check, rebuild, load, fetch, save, add conids | stale or partial lists, two rebuilds at once, files rewritten in place |
| QA and quality reports: `pipeline/qa.py`, `quality/` | the metrics file of a day | counts against thresholds | run before the last job of the day |
| History: `pipeline/history.py`, `ib/history.py`, `scripts/weekend_history_backfill.py` | dated folders of JSON files; Parquet files appended to | full and incremental fetch, append what is newer | gaps after failed, dead or late runs |
| Stock fundamentals: `stock_data/pipeline/fundamentals.py` | state file, cache files, daily call counter | decide what is due, fetch within the budget, save | restarts, a budget that ends inside the universe |
| Stock bars and volatility: `daily_bars.py`, `volatility.py`, command `cleanup` | partition per day and symbol, merged file per month | snapshot, backfill, schedule, merge, delete | dying between rows, deletes after failed merges |
| Cleaning, corporate actions, configuration, calendar | none | functions of a row or a date | boundaries |
| MCP service, dashboard, observability, probes | audit log | queries, displays | |
| Stock pool and session | near copies of the option project's | | as above |

How they interact: `schedule` and `close-snapshot` check the contract lists and
the universe file before they begin; the scheduler's jobs call the snapshot, rollup and enrichment
runners; each runner opens an `IBSession`, which claims an id of the pool; the
snapshot runner calls the collector, which takes tokens of the bucket; rollup
reads what the snapshot runner wrote, enrichment rewrites what rollup wrote.

What makes each part correct: an id belongs to one session; no captured row is
lost; every contract asked for is answered and every market-data line closed; the
two daily views agree and keep the selection of the last rollup; the streamed
window follows the price and rows stay in order; no queued task is forgotten and
a processed symbol is whole; the runs of a day agree on the contracts; a day's
jobs run once and the exit code and the QA verdict tell the truth; histories and
stock partitions have no hole; the fundamentals stay within the budget and serve
every report. `PROJECT.json` lists the hazards behind these, each
at its line.

## 2. The modules

| Module | Models | Kind |
|---|---|---|
| `ClientIdLease` | what the lock files promise: leases broken only by a process that has seen a lock of that id older than the TTL | abstract specification |
| `ClientIdPool` | allocator and session, one file-system or gateway call per action | detailed; implements `ClientIdLease` |
| `ClientIdPoolProofs` | theorems about `ClientIdPool` | proofs |
| `IntradayStore` | `SnapshotRunner.run` seen from its partitions | detailed |
| `SnapshotCollect` | `_capture_snapshot_rows`, the fetchers, the bucket | detailed |
| `SnapshotCollectProofs` | theorems about `SnapshotCollect` | proofs |
| `DailyPipeline` | captures, `RollupRunner.run`, `EnrichmentRunner.run` over one set of daily files | composition of three runners through files |
| `DailyPipelineProofs` | theorems about `DailyPipeline` | proofs |
| `Streaming` | `StreamingRunner.run` for one underlying | detailed |
| `StreamingProofs` | theorems about `Streaming` | proofs |
| `Backfill` | `update`, `backfill`, `BackfillRunner`, `PersistentQueue` | detailed |
| `BackfillProofs` | theorems about `Backfill` | proofs |
| `Discovery` | `discover_contracts_for_symbol`, its cache files, the precheck, the universe file | detailed, several processes |
| `DiscoveryProofs` | theorems about `Discovery` | proofs |
| `ScheduleDay` | the command `schedule`, APScheduler and its listener, `qa` | detailed, several threads |
| `ScheduleDayProofs` | theorems about `ScheduleDay` | proofs |
| `DatedFiles` | days, the symbol whose turn it is, tables of dated files | what `OptionHistory` and `StockStore` extend |
| `OptionHistory` | `HistoryRunner` and the weekend backfill over the lists of discovery | two tools composed through files |
| `Fundamentals` | `FundamentalsRunner` with state file, cache and budget | detailed |
| `StockStore` | `DailyBarsRunner`, `VolatilityRunner`, the chained `schedule`, `cleanup` | commands composed through files |
| `StoreProofs` | theorems about `IntradayStore`, `OptionHistory`, `Fundamentals` and `StockStore` | proofs |
| `MC*` | the small instances for TLC | model values |

Definitions whose comment begins "Variant with a seeded bug" are no part of the
specifications. Each takes the place of the definition after it when the runs are
tested for being able to fail; `PROJECT.json` (`mutants`) pairs them with the
property that then breaks.

### ClientIdPool
`file[c]`/`age[c]` are the lock file of id `c`, its creator and age; `conn` is the
gateway's table of connected ids; per process `pc`, the candidate under trial, the
candidates left, and the fields of its `IBSession`. `_try_claim` is split where
other processes can come in between: `Probe` (exists?), `Stat` (expired?),
`Unlink`, `Create` (`O_CREAT|O_EXCL`). `ConnectOK`, `ConnectFails`, `Exhausted`,
`Dial`, `MarketDataType` and `AttemptFails` are the body of
`_connect_with_client_id` under `retry_with_backoff`. Two variables are history:
`raced` are the processes about to unlink a lock they found expired that somebody
else has removed since; `wronged` are the ids whose lock was removed under a live
claim, because it had expired itself or as the fresh successor of an expired one that
a process in `raced` had judged. No other unlink under a live claim is excused.
Crashes leave the lock file.

### IntradayStore
A run captures rows for one slot, then for each partition of raw, then of clean:
`ReadPartition` (read and merge), `OpenPartition` (truncate), `FinishPartition`.
A file maps (contract, slot) to the `asof_ts` of its row, by which the merge decides:
the time of the tick for an answer, the time of the slot for the error row of a
contract that failed or timed out before any tick (`Captured`). Slots are named by
their times and may be captured before them, since a label can be given by hand and
any time before the open resolves to the first slot. `latest` is history:
the newest row ever given to the file. `overlapped` and `crashed` are the files on
which the code gives no guarantee: two runs had them open at once, or a run died
inside the write; a file that cannot be read is treated as missing by the next merge.

### SnapshotCollect
One capture of a symbol. `Pick` walks the exchanges (filter, strike limit);
`Begin` is the semaphore, `holder` the task inside the blocking `acquire_token`,
`Request` the `reqMktData` in the same turn of the loop. `Poll`, `Woken` and
`TimedOut` are the exits of the streaming and snapshot modes with their different
handling of a failing `cancelMktData`; `BeginBatch`, `RequestBatch`, `BatchEnds` are
mode reqtickers. Ticks (`Deliver`) are handled only while the loop is free and may
take greeks away again. A contract that times out keeps what its ticker has, in a row
with the error "timeout" (`_build_row`). The bucket is brought up to date lazily, as in the code;
`load` is history, an ideal leaky bucket of the requests. Tokens are counted in
units of time, so the code's floats are exact here. What is left to do is a set that
is taken in the order of the list (`Leading`). A clock set back is left out.

### DailyPipeline
`snap` holds the rows of the clean snapshots, `daily`, `adjusted` and `log` the
three views; jobs run in threads with a `pc` of their own, so that a rollup and an
enrichment of one partition interleave between every read and write. `Stop` ends a
job between two steps or fails a write. `spoiled` is history: symbols two jobs
worked on at once, or whose job was stopped, until a complete rollup. A write is
atomic here, `IntradayStore` looks inside one.

### Streaming
`tickers` maps the label a subscription is filed under to the contract it is for;
they differ once `zip` has shifted (`Zip`). The event handlers (`OptionUpdate`,
`SpotUpdate`) run wherever the loop turns: in `ib.sleep` and, in the middle of a
rebalance, in `qualifyContracts`. `Drain`, `Write`, `WriteFails`, `FinalFlush`,
`Unsubscribe`, `Exit` are the flush and the shutdown.

### Backfill
The queue file (`file`, `exists`, `broken`) and the deque (`queue`) are separate, as
in the code. `Save` may be cut short by `Crash`, which leaves the first lines and
perhaps half of one; `Write` overwrites one layer. `Requeue` is the exception path
and the stop before a task. `StopInHistory` is the stop inside the loop over the
contracts before any row, which takes the task out of the queue (`TaskGone`) and
after which `run` goes on; `StopWithRows` the same with some rows. `cut` is history,
the tasks so taken out; it is kept apart from `dropped`, the tasks that came back
with no contracts or no rows. In mode snapshot `run` passes `timeout` and
`poll_interval` to a default `snapshot_fetcher` that accepts neither, so every task
with contracts fails; the model does the same. One process at a time.

### Discovery
`universe` and `list`/`state` are the files; `cut` and "torn" say that a write in
place has begun and not ended. A command with a precheck goes through `Resolve`
(a look-up of each missing conid), `UniverseRead`, `UniverseOpen`, `UniverseWrite`,
`Recheck` and `Rebuild`; then, like the commands without one, it asks for each
symbol: `LoadServes`, `LoadRaises`, `LoadMisses` are the cache, `Fetch`, `Compare`,
`Qualify`, `OpenCache`, `SaveCache` the rebuild. `Scoped` is the choice of expiries
and strikes. A command that must not rebuild, as backfill, raises. What a command
finds as reference price is its own; `history` finds none and passes no strike
limit (`Asked`). `excused` is history: symbols of which a list was rebuilt by two
processes at once, whose writer died, or whose list already had the whole chain,
which a comparison with a fresh chain may replace.

`None` can become the conid of a symbol: when the look-up returns nothing the
precheck writes it to the file, and `int()` raises in every later `load_universe`.
The model has this (`Readable`), so commands stop working in it as they do in the
code; nothing documented promises otherwise. `--force-refresh` always raises.

### ScheduleDay
The main thread (`StartLive`, `StartContinuous`, `DailyInit`, `Exit`), the
scheduler's thread (`Submit`, `TellSubmitted`, `NoteSubmitted`) and one worker per
job (`Begin`, `Effect`, `Return`, `Fail`, `TellEnded`, `NoteEnded`). `Tell...` is
the listener's test of the pending set, `Note...` its part under the lock; a job
begun later than its grace allows is missed. `Effect` is what a job leaves of a
day, seen from `qa`: slots, the daily rows with the strategy of the rollup, open
interest. `Evaluate` is the verdict of `qa.py` and `Qa` writes it. The job ids
name day, kind and time, as in the code. Jobs due in the same tick are submitted in
either order (`First`). Two assumptions of the model are stated as
such: no capture or rollup lasts until the enrichment of the next morning
(`Overnight`), and a capture or rollup that is late by all of its grace still begins
before that enrichment is due (`ScheduleAssumption`: minutes of grace against half
a day).

`qa.py` expects 14 slots where 15 are planned, and on a day with an early close the
coverage of 0.9 is out of reach, so such days fail; symbols without any row are not
counted. The model has a `TotalSlots` of its own for this.

### OptionHistory
A bar is its day and a request for n days is answered with the last n or fails.
`StartHistory`, `OpenFolder`, `FetchContract` are `HistoryRunner.run`: the folder of
the day is made before anything is fetched, and its name is what the next
incremental run counts its gap from. `StartWeekend`, `PickContracts`, `FetchBars`
are the weekend script with its two stages; `Newer` keeps what is newer than the
newest stored bar. The list comes from `lists`, the files of `Discovery`.
`tooShort` is history: days a full fetch with a small `--days` went past on purpose.

### Fundamentals
Whatever carries a date is kept as an age, so that behaviours have no last day.
`StartRun` loads and resets the state (`Loaded`, `Reset`); `NotDue`, `StopEarly`,
`Affordable`, `CacheHit` decide about a report, `Ask`, `Fails`, `Answer` are the
requests with their attempts and `LastAnswer` writes the cache; `NextSymbol` and
`Save` write the state after each symbol. `CrashInSave` and `CrashInCache` tear a
file. `spent`, `fetched` and `today` are history: `today.forgot` adds up what the
crashes of a day may have made the state file forget, the calls for one symbol with
the types of the command each (`SymbolCalls`), and `today.anew` counts how often the
count of the day may have begun anew: with a lost state file, and with a run for
another trade date than the last one's. A command has a trade date (`ago` days back):
the state file remembers that of the last run, and `Reset` keeps the count only while
it stays the same; cache files are per trade date too, and `Due` counts its days up to it.
Trade dates older than `cache_ttl_days` are left out, as is what a run that crashes
before its save rewrote of a cache file for a report not due (`NotDue`); a run ends on
the day it began.

### StockStore
`SnapshotBars` and `SnapshotVolatility` write one day; `StartBackfill`, `Fetch`,
`Write`, `SymbolDone`, `RunDone` a backfill, which goes on after the newest date
(`First`), alone or as the two halves of `schedule`. A write is in place: a command
that dies leaves between two files what it has (`WriteFile`) and in one a file that
cannot be read (`TearFile`, `damaged`), which counts as a date all the same, since
dates are taken from file names; `StartCleanup`, `MergeKey`,
`MergesDone`, `DeleteDir` the merge into months. A merged row keeps its columns
with the suffixes pandas gives them, since these decide whether the next merge
raises (`Clash`). `stepped` is history: days that a snapshot or a window went past,
or a cleanup took.

## 3. The runs

| Run | Shows | Instance |
|---|---|---|
| `client_ids` | a live claim is backed by its own lock file; one owner per id unless a lock was broken after a judgement by age; opening ends; the pool implements `ClientIdLease` | 2 processes, 2 ids, 2 candidates, 2 attempts, TTL 0 |
| `intraday_store` | nothing is lost from an intact file; clean is never ahead of raw; what a returned run wrote gives way only to a later stamp | 3 runs, slots at 2 and 4, captures at 1, 3 and 5, 1 contract, 1 symbol |
| `snapshot_collect` | one answer per contract; lines bounded and returned; rows are those of the first exchange with a usable contract; pacing; the capture ends | 5 contracts, 3 asked for, 2 at a time, bucket of 2, all modes |
| `daily_pipeline` | adjusted follows daily_clean; the selection survives; enrichment is logged | 2 contracts, 2 slots, 2 jobs, 3 starts, 2 captures |
| `streaming` | no leaked line; lines match the window; rows in order; the window follows the price | 5 strikes, 5 prices, 2 rows of each kind |
| `backfill` | no task forgotten but by a stop inside its history; processed symbols are whole; a failing symbol does not hold up the others | 3 symbols, 3 days, 2 faults, 1 plan, limit none or 1 |
| `discovery` | the runs of a day get one list; a checked list stays usable; the universe keeps its symbols | 2 processes, 2 listed symbols and 1 that is not, 3 strikes, 2 expiries, prices none, 101, 104, 2 starts, 1 crash |
| `schedule_day` | no job submitted twice; planning a day removes no other day's jobs; the exit code is right; a PASS is final | 2 days of 4 ticks, the second with an early close, 1 command, 1 fault, no grace for jobs and 1 tick for daily-init |
| `schedule_exit_idle` (violation) | `--exit-when-idle` may never exit | 1 day, jobs of kind snapshot |
| `option_history` | the folders of incremental runs join; appended files have old holes only | 2 contracts of one symbol, 4 days, 3 runs, 1 crash |
| `fundamentals` | the budget holds across restarts, and only another trade date begins a new count; a report is paid for once a day and trade date; every report is served | 2 symbols, 2 types, trade dates today and yesterday, budget 4, 2 attempts, 1 change of date or forced run, 1 fault |
| `stock_store` | no day is left out below the newest but one whose file was torn; what is deleted is merged | 1 symbol, 4 days, months of 2, 3 commands, 1 crash |

The violation run states what the help text of an option says. The listener of
`schedule` looks whether a job is pending before it takes the lock; the scheduler
thread tells it of a submission after the pool has the job. When the pool is faster,
the job's end is noted first, and the id that is then added to `running_job_ids`
stays there: the command never comes back. `ExitTellsTheTruth` holds all the same.

Each `TypeOK` is part of its module. Those of `DailyPipeline`, `Streaming`,
`Discovery` and `ScheduleDay` are run and proved, the others are proved. The names of
the three store models other than `IntradayStore` carry the module's
(`StockTypeOK`, `HistoryNext`, `FundamentalsSpec`, ...), since one module of proofs
extends all four.

Why the bounds are enough. Two processes make every race on one lock file, and a
second id gives the loop over the candidates somewhere to go; TTL 0 lets a lock
expire at any tick, and the types bound ages at the point where they no longer
matter. Three runs give an overlap of two with a third before or after; one
contract and one symbol suffice because merges do not mix keys, and partitions are
taken one after the other (the proofs cover any number); the captures fall before,
between and after the times of the two slots. In `snapshot_collect` the
semaphore and the bucket are both smaller than the number of contracts, so tasks
queue behind each. `daily_pipeline` has room for rollup, enrichment and another of
either in every order. In `streaming` the five strikes let windows be disjoint,
overlap and touch the end of the chain. In `backfill` two faults allow a failure
after a crash, and a plan may come before, between or after updates; updates are
not bounded. In `discovery` the prices choose different strikes of the one chain, so
that a second rebuild would differ, and one symbol of each kind (with conid, without,
not listed) goes through the precheck. Its processes, and the jobs and contracts of
`daily_pipeline`, are interchangeable, which `SYMMETRY` uses; all that these runs
check is safety. `schedule_day` has a tick before the open and
an enrichment that falls on the second day, so that a continuous command may plan
that day with a job of the first still queued; without grace a job that begins a
tick late is missed. In `option_history` a
gap may be shorter than, equal to and longer than a request, and a contract may be
listed or expire in between. The budget of `fundamentals` pays for one of its
symbols at a time and not for both, and the intervals let a type fall due on its own
and with the other; retries end it inside a symbol. One change of trade date, there or
back, with a fault before or after it, shows what either does to the count. In
`client_ids` no config has an id of its own; the theorems cover those that do. `stock_store` has a month that is merged, one that is not and a
third command that meets the result; a second symbol would add nothing that one
symbol's two views do not. Every bound (`MaxClock`, `MaxStarts`, `MaxRows`,
`MaxFaults`, `MaxPlans`, `MaxRuns`, `MaxCommands`, `MaxCrashes`, `MaxSpecial`) is named
in the module that declares it. `CHECK_DEADLOCK FALSE` stands where the system really
stops: all runs done, the capture returned, the session over, or the bound reached.

Fairness.
* `client_ids`: a process inside `connect` or `disconnect` goes on (ordinary code,
  calls with time-outs); nothing makes it open a session, and the gateway and the
  other processes do as they like.
* `snapshot_collect`: time passes, the loop runs what is ready (asyncio is first in
  first out), awaited calls return. Nothing makes data arrive.
* `streaming`: the loop and its calls go on, and a window check comes due again and
  again (once a second); strong fairness, since other checks fall between.
* `backfill`: a started command goes on, and the operator starts `update` for the
  day again and again (strong fairness, since a command must have ended first).
  `backfill` itself plans over the queue and would begin with the failing symbol
  each time, so the property holds because such commands are finitely many.
* `schedule_exit_idle`: time passes and the threads of the process are scheduled.
* `fundamentals`: a run goes on, and days go by while nothing runs (a day that runs
  without end would fill is not a regular one). Nobody has to start a run and no provider has to answer:
  `EveryoneServed` is about the behaviours in which one run a day meets a provider
  without trouble from some day on. A symbol that fails every day uses up the budget
  and starves those behind it, in the code as in the model, and so would intervals so short
  that what is due every day costs more than the budget: the instance's are not.

### Known divergences

Found while modelling, and in the models as the code has them. Four properties state
what a document says and the code does not do; no run checks them, and TLC shows how
each is violated when it is added to the `.cfg` of its module: `FreshLockKept`
(`ClientIdPool`), `NewestAnswerKept` (`IntradayStore`), `StopKeepsTask` (`Backfill`) and
`ResumeLeavesNoHole` (`StockStore`).

* A lock file is never refreshed, so a session older than the TTL loses its id to
  the next process although the lock directory is there to avoid duplicate ids
  (`config/opt-data.toml:14`); `wronged` excuses these ids.
* The test of the age and the unlink of a lock are two steps (`client_id.py:61-65`):
  of two processes that judge the same expired lock the slower removes the fresh lock
  of the faster (`FreshLockKept`); `wronged` excuses these ids too.
* An error row has the time of its slot (`pipeline/snapshot.py:608`), which may be
  still to come; `data-contract.md:50` and `:93` want the time of the capture, and the
  newest to win (`NewestAnswerKept`).
* A process that dies in a write costs the earlier rows of the partition, where
  `docs/adr/ADR-0001-storage.md:13` describes a temporary file and a rename;
  `crashed` excuses these files.
* Enriching a row loses its `delayed_fallback` flag, which
  `docs/architecture/data-contract.md:96` requires: the flags come back from Parquet
  as an array.
* `close-snapshot` captures slot 14, rollup prefers slot 13 (`config.py:202`,
  `data-contract.md:71`).
* A contract the gateway does not know shifts the labels of the streamed window, and
  a contract that stays loses its line (`PLAN.md:17` wants minimal changes).
* After the watchdog of `backfill` has fired, the next symbol is begun
  (`cli.py:286` says that execution is aborted), and a symbol it stops inside its
  history before any row is taken for one without data and leaves the queue
  (`backfill.py:336-341`, `StopKeepsTask`).
* A stock partition is written in place (`writer.py:26`) and counts as a date by its
  name (`scan.py:20-26`). A day whose file was torn is never fetched again although
  `PLAN.md:7` speaks of resuming (`ResumeLeavesNoHole`), and the cleanup of its month fails
  from then on.
* The daily count of `fundamentals` is kept for the trade date of the last run
  (`fundamentals.py:160-164`): another `--trade-date` on the same day has the whole
  budget again. A run that is killed forgets the calls since its last save.
* `history.py:120` speaks of a buffer of a day and adds none: the partial bar of the
  day of the last folder is not fetched again. `--incremental` says it fetches only
  missing days, but a contract that failed in a run whose folder exists is not
  asked for those days again; `FoldersJoin` is therefore about files that exist.
* The weekend backfill keeps the last bar as it was when it was fetched, and a file
  it cannot read is replaced by the newest request.
* A month's merged file that gets bars and volatility a second time has clashing
  column names; the merge raises from then on and the sources are kept for good.
  Writing a price row again drops the volatility columns it had.
* A volatility snapshot writes a row of empty values when nothing came, over a good
  one if there is one.

## 4. The theorems

Each safety property that a run checks is proved for every value of the constants, from the assumptions that these modules state about their constants and
from no others. The assumptions say that numbers are numbers and that a value which
stands for "none" is no proper value (`NoProc`, `NoRow`, `Spoiled`, `Nobody`); that
the lists of `Backfill` and `SnapshotCollect` repeat nothing; that strikes and jobs
are finite in number, and that the slots of a day end with the close; that a contract
belongs to a symbol of the universe and is listed no later than it expires, that a
command of `Fundamentals` has a symbol and a type; and, in
`ScheduleAssumption`, that ticks and graces lie as they do in a trading day (section 2).
TLC evaluates them in every run of the module.

Every proof has the same form: an inductive invariant that holds initially, that every
step keeps, and from which the properties follow. Each was checked by TLC on the
instance of section 3 before it was proved. What it says beyond the properties is why
the code works.

`ClientIdPoolProofs`
* `TypeCorrect`: `Spec => []TypeOK`, one lemma per group of actions.
* `ClaimsStayBacked`: `ClaimBacked` is inductive given the types. The steps that matter
  are those that touch a lock file: `Create` succeeds only where there is no file,
  so nobody else can have a claim there that is not wronged. `Unlink` must not take
  the lock of a live claim without its id being wronged: `Sighted` says that a process
  about to unlink faces an expired lock unless it is in `raced`
  (`SightedStep`, `SightsHold`); a process removes only the file of its own claim
  (`SoleClaim`), so no other claim loses its backing (`RemovingStep`). All other
  steps leave files alone and take no new claim (`QuietStep`).
* `ExclusiveIds`: two backed claims on one id would have two creators of one file.
* `PoolImplementsLease`: the pool implements `ClientIdLease`. A step either leaves
  all leases as they are (`LeaseKept`) or is exactly one of the steps of the
  abstract specification: a successful `Create` grants (`LeaseGranted`), giving up a
  claim with its lock returns (`LeaseReturned`), without it leaves (`LeaseLeft`), a
  `Stat` of an expired lock judges (`LeaseJudged`), and the unlink that follows breaks
  an id nobody holds or spoils a held one (`LeaseBroken`, `LeaseSpoiled`). The parts of
  a lease are kept one by one by the other steps (`OwnersKept`, `MarksKept`,
  `JudgementsKept`). That `Create` grants a *free* lease needs `ClaimBacked`
  before and after the step.

`BackfillProofs`
* `TypeCorrect`: with it the queue in memory and every queue file are sequences of
  symbols; `QueueProps` says what `Append`, `Head` and `Tail` do to the elements.
* `NoTaskForgotten`: `NothingForgotten` speaks of the file, and between a pop and the
  save that follows it the file has what the queue has no more. `QueueInv` adds that
  the file is then the queue and the task under way (`FileIsQueue`) and that what a
  save is about to write has every open task (`SaveCovers`). Tasks that a stop cut short
  inside their history are excepted by name (`cut`); `dropped` are only those that came
  back without contracts or rows.
* `ProcessedIsWhole`: `LayerInv` adds that a task under way is not settled and that
  its layers are written in order, so that the last one completes it.

`DailyPipelineProofs`
* `TypeCorrect`; `RecordsAgree`: `EnrichmentLogged`; `SelectionStands`:
  `SelectionKept`; `AdjustedAgrees`: `AdjustedMatches`.
* A job works for several steps on what it has read, so all three need to know what it
  holds. `AloneIsAlone`: two jobs with one partition open both know that they are not
  alone, and such a partition is spoiled. `Contents`: of a symbol that is not spoiled,
  `daily_clean` holds what the last complete rollup chose (`Chosen`) and the rows that
  count as enriched are those with a record since then (`Story`), but for a job
  between two of its writes; what such a job is about to write agrees with the
  files (`RollOK`, `EnrichOK`). `RowsHonest`: a row that counts as enriched has an open
  interest, so only a forced run enriches it again. `RecordsBounded`: the records of a
  contract and the enrichments that may still write one are together at most the jobs
  started. `GreatestExists` (among the slots of a contract there is a last one, so
  that the selection is defined) is a use of well-foundedness.

`DiscoveryProofs`
* `TypeCorrect`; `UniverseSurvives`: `UniverseKept`. The file is rewritten in place
  from what was read several steps before: `UniverseWhole` says that, while nothing
  has spoiled the file, one process at most is between reading and writing it, that
  it has read every listed symbol, and that a truncated file has a writer.
* `CheckStands`: `CheckedStaysUsable`, and `SameListForAll`: `OneListPerDay`, from
  `CacheOK`: a list that is being rewritten, unless it is excused, has one process at
  it and was not usable (`LoneWriter`), a list that a running process has checked is
  usable throughout its calls (`CheckedUsable`), and the one list that was handed out
  is the stored one (`ServedIsStored`).

`SnapshotCollectProofs`
* `TypeCorrect`; `PaceHolds`: `Pacing`, from `BucketOK` alone: the load of the ideal
  leaky bucket and the tokens that may be taken now fit the bucket together.
* `NoLineLeft`: `LinesReturned`; `EachAnswered`: `AnsweredOnce`. `Places` says what the phases of a capture leave to do and
  that a contract is in one place (to do, at the token bucket, waited for), `OneRowEach`
  that what has left these places has one row, of what its ticker held, and the rest none,
  `LinesOK` that the open lines are those waited for, as many as the semaphore allows,
  and those that could not be closed.
* `FirstUsableWins`: `FirstUsableExchange`, from `InTurn` (`TurnStep`): while an exchange
  is tried those before it had no usable contract, and what is asked for, or what the
  capture ended with, are its contracts within the limit.

`StreamingProofs`
* `TypeCorrect`; `EachLineIsKnown`: `NoLeakedLine`; `LinesFollowWindow`:
  `LinesMatchWindow`. `Keys` says that the labels under which subscriptions are filed
  are strikes of the window and never those that a rebalance is about to add, so no
  entry is overwritten and every line has one; `Match` that the labels are right while
  the gateway knows every contract. The lemmas on `Rank` and `Zip` say that counting
  the smaller elements orders a finite set without holes.
* `RowsArriveInOrder`: `RowsInOrder`. `InOrder` follows the rows of a kind: those stored,
  drained and buffered are together those received, unless a write of that kind failed;
  `Drained` says that rows are drained only for the write that follows.

`ScheduleDayProofs`
* `TypeCorrect`; `SubmittedOnce`: `NoJobTwice`; `JobsStay`: the action property
  `ScheduledJobsStay`. `Plans` says that what happened to a job happened to one the
  process has planned and that what is still stored was not touched; `DaysInOrder`
  that days are initialised one after the other, so that no plan comes again.
* `ExitIsHonest`: `ExitTellsTheTruth`, from `Heard`: a job that is pending no more has
  ended, and the listener's errors say whether any ended badly.
* `PassIsFinal`: `VerdictStands`, from `Watched`: once the enrichment of a day is due,
  no capture or rollup of that day runs or can begin. `ScheduleAssumption` and
  `Overnight` are what this rests on.

`StoreProofs`, about `IntradayStore`:
* `TypeCorrect`.
* `NoLostUpdate`: `NothingLost` is not inductive: a merge uses what the run read
  before. `FilesInv` adds that an intact file has at most one run in its
  read-to-write window (`SoleMerger`), that a torn file has a writer
  (`TornIsOwned`) and that what a run is about to write is the merge of the present
  content with its rows (`MergeIsFresh`).
* `CleanNeverAhead` and `ReturnIsDurable`: `RowsInv` says which files a run has
  still to do, that it finishes raw before it begins clean, and that what it has
  done is in `latest`, under a stamp no earlier than its own, be it the time of an
  answer or of a slot; with `NoLostUpdate` that is what the files hold.

`StoreProofs`, about `StockStore`:
* `StockTypeCorrect`: `Typed` adds to the types that rows are left to be written only
  while a symbol is filled. The lemma `MergedMonthOK` is about the operators of the
  merge: a merged month has only values of its columns, and it has every value of
  every partition it is made from, under the column's name or a suffixed one, however
  many merges came before (`RenamedColumns`, `JoinOK`).
* `NoHolesLeft`: `NoHoles`, from `Accounted` and `Counted`: every day before a date has
  a file or was gone past, and each file that is torn cost a crash. A backfill writes for several steps what it has fetched, so
  `FillOK` says that a day before one still to be written is to be written too, has
  been, or was gone past; `BeforeFirst` that everything before the day a backfill or
  a snapshot begins with is accounted for.
* `DeletedPartitionsAreMerged`: the action property `DeletedIsMerged`, from `CleanupOK`:
  while no merge of a cleanup has failed, an old partition whose values its month does
  not have still has its key in front of it. `StoreChanges` says that only
  `DeleteDir` takes a partition away.

`StoreProofs`, about `OptionHistory`:
* `HistoryTypeCorrect`; a bar of a file is of a day on which the contract was listed.
* `FoldersAlwaysJoin`: `FoldersJoin`. `AskedOK` says that, while the contracts of a symbol
  are fetched, every day since the folder before today's is asked for or was too far
  back for a full fetch; `OpenedAsked` derives it from the gap the runner counts.
* `HolesAreAlwaysOld`: `HolesAreOld`, from `FilesOK`: a day of a file is its first, follows
  another or begins a stretch as long as a request (`Solid`). An answer is solid
  (`RecentSolid`) and so is a solid file with what is newer appended
  (`AppendedSolid`); that a bar is never older than the listing is needed for it.
* `NewestOfDays`, `OldestOfDays`: a set of days that is not empty has a last and a first
  one, by well-foundedness.

`StoreProofs`, about `Fundamentals`:
* `FundamentalsTypeCorrect`; `FetchedOnce`: `OncePerDay`, from `OnceInv`: a report fetched
  today for a trade date is in the cache of that date, unless a run was forced.
* `BudgetHolds`: `BudgetKept`. Between two saves the file does not know what was sent.
  `BudgetInv` bounds it: what was spent is at most the calls in the file, those that
  crashes, lost files and changes of trade date may have forgotten (`Credit`), and those of the symbol under
  way (`Used`), which `UsedBound` bounds in turn by `SymbolCalls`. The calls in the file count only while it
  is of the trade date of the day's last run (`SavedCalls`). For any list of types
  the requests up to a place in it are one each and two more for each `info`,
  counted as a set (`RequestCount`), so that no sum and no induction over data is
  needed.

Only model-checked:
* the liveness properties (`OpeningEnds`, `CollectEnds`, `WindowFollows`,
  `OthersProceed`, `EveryoneServed`): liveness under fairness and `ENABLED` are beyond
  the prover;
* the properties the code does not have (`ExitsWhenIdle`, `FreshLockKept`, `NewestAnswerKept`,
  `StopKeepsTask`, `ResumeLeavesNoHole`), which TLC refutes.

## 5. Not modelled

* Values of quotes and greeks, cleaning rules: arithmetic on the
  columns of a row; the models see a row as its key, its age and the flags the
  properties are about.
* The MCP service and the quality reports: read-only queries and counts.
* Dashboard, observability, parsing of the configuration: displays and values.
* Scripts beside the weekend backfill: probes of the gateway whose results are read
  by a person, and checks of log files. `CacheManager` (compressed caches) is only
  used by one of them, a benchmark.
* The self-check and the log scan that `schedule` may run: they read logs.
* `retry_with_backoff` for coroutines: nothing that is modelled uses it.
* Corporate actions of the stock project (a CSV copied into partitions) and its
  copies of pool and session, which have roles of their own and the same protocol.
* Two commands of the stock project, or two history runs, at once: the code has no
  protection there and promises nothing.

## 6. Plan

Done: the parts above, in the order pool, store, daily files, streaming,
collection, backfill, schedule, discovery, stock pipelines, histories. Next:
1. An abstract specification of the daily files (one atomic rollup, one atomic
   enrichment) that `DailyPipeline` without overlap implements, and of the queue (a
   set of open tasks) that `Backfill` implements. Both refinements follow from
   the invariants that are proved and belong in the same proof modules.
2. `Discovery` and `ScheduleDay` composed: a precheck while the day's jobs run.
3. The stock project's pool against `ClientIdPool`.
