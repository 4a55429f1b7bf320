# digithings: TLA+ models, model checking and proofs

digithings is a monorepo of Python services (`digisearch`, `digigraph`,
`digiquant`, `digikey`, ...) and TypeScript front ends (`apps/`, `clients/`).
Most of it is request handling around model providers, vector stores and market
data.  The part with real control state of its own is the **webset** subsystem
of digisearch (`digisearch/src/digisearch/websets/`): a stored collection that
background tasks fill, that requests extend and cancel at any time, that must
survive restarts, and that reports to other systems through webhooks with
retries.  This project models that subsystem in depth: its runs, its items, its
webhooks and the driver around them.  Beside it stand smaller models of the
other places where the code keeps state that several actors change: the
digisearch monitors, digiquant's overlay jobs and notifications, digichat's run
lock, digigraph's circuit breaker and rate limiter.

All source paths below are relative to `src/`; `events.py`, `store.py`,
`driver.py`, `service.py`, `runner.py` are those of the websets package.

## 1. Inventory

### Websets

| part | state | operations | talks to | modelled in |
|---|---|---|---|---|
| `service.py` | the scheduler seam | create, add_search, cancel, trigger_monitor, enrichments, webhooks | store; schedules tasks | all webset modules |
| `store.py` | SQLite: websets, searches, items, enrichments, events, webhooks, webhook_deliveries, bridge_handoffs | one or more short statements per method; one connection per thread, WAL | everybody | all webset modules |
| `runner.py` | `_PassState` of a run; `WEBSET_TASKS` | load, drive searches, process items, settle, finalize, fail; backfill | store, web search, model client, events | `WebsetRun`, `WebsetItems` |
| `events.py` | none | append an event, fan it out; re-deliver a ledger row | store, receivers over HTTPS | `WebsetDelivery` |
| `driver.py` | one supervisor per process and its reference count, tick anchors | install window, startup resume, monitor tick, re-delivery pass, teardown | store, service, runner, events | `WebsetDriver`; the re-delivery pass in `WebsetDelivery` |

What makes it hard:

* **Interleaving.** Run tasks, backfills, request threads, the tick, the
  re-delivery pass and a second process share one SQLite file.  Store methods
  that read, check and then write are not one transaction; tasks write whole
  item rows from copies they loaded long ago.
* **Crash and restart.** Tasks are volatile; the rows decide what is resumed.
  Several protocols are "write a row, then append an event, then POST it".
* **Loss and repetition.** A POST may have reached the receiver although no
  answer was stored; resumed runs append the same events again.
* **Progress.** A webset must end as idle, failed or cancelled, an item as
  verified or rejected, a failed delivery as delivered or exhausted.

Correct means: statuses follow the documented lifecycle, events tell the truth
and are not missing, no task is forgotten, verdicts and fields are settled once,
deliveries are counted exactly, settled rows are left alone, and a session that
is being served always finds the driver installed.

### The other modelled parts

| part | state | operations | what is hard | correct means |
|---|---|---|---|---|
| digisearch monitors (`monitors/`) | stored runs, which are the dedup memory; the delivery secret | a turn: recall, dedup, persist, deliver, hand off | overlapping turns; persist comes before deliver; missing secret | what the memory holds back has been offered to the receiver |
| digiquant overlay jobs (`dashboard/overlay/`) | one `job_runs` row per workspace and day | insert, claim, execute, finish, fail | several cron workers, workers that die, requests whose response is lost | one graph run per key; final rows stay; claims have an owner |
| digiquant notifier (`notify/dispatch.py`) | claims and log | claim, send, record, release | three callers of the same pass, unclear sends | at most one mail per message; no slot used for nothing |
| digichat run lock (`lib/chat-run-lock.ts`) | two bounded maps with expiry | acquire, release on several paths | entries that expire or are evicted under an open run, releases that come twice or never | one run per session while its entry stands; ids not replayed |
| digigraph circuit breaker | state, failure count, clock | enter, leave | calls that outlive the state they began in | opens, stays shut for its time, and opens again |
| digigraph rate limiter | deque per bucket, order of the dictionary | check, sweep | a sweep that stops early and forgets buckets | quota holds, no idle bucket is left behind |

### Not modelled

`PROJECT.json` lists every part with its status and the reason, and every hazard
with the source line where it bites and the properties aimed at it.  The rest
are request handlers and wrappers around providers (indexes, ingestion, web
search, digillm, digifetch, digivoice), pure helpers (digibase), a store behind
HTTP with one statement per request (digivault), agent loops whose control flow
is a library graph (digigraph orchestrator), numerical pipelines over market
data (most of digiquant), front ends, packages, deployment files and text.
By lines these are nearly everything: of some 230,000 lines of implementation
the models translate about 3,500, a third of the files they touch.  Floating
point pipelines, prompts, rendering and thin CRUD handlers have no interleaving
or state machine a model could say something about, so the share of the whole
repository stays small however far this project goes.  Candidates with state of
their own that are left for later: digikey's token blocklist and the digibot
heartbeat scheduler.

## 2. Modules

| module | what it is |
|---|---|
| `WebsetRun`, `MCWebsetRun`, `WebsetRunProofs` | the life of one webset: run task, requests, crash and resume |
| `WebsetItems`, `MCWebsetItems`, `WebsetItemsProofs`, `WebsetFieldsProofs` | its items: the per-item pipeline beside backfills |
| `DeliveryLedger` | abstract specification: what the delivery ledger promises |
| `WebsetDelivery`, `MCWebsetDelivery`, `WebsetDeliveryProofs` | fan-out, ledger and re-delivery pass; implements `DeliveryLedger` |
| `WebsetDriver` | the install window: sessions, supervisor, scheduler seam, run tasks |
| `MonitorWatch` | turns of one watch over the stored runs |
| `MCServing`, `ServingProofs` | instance of the driver and of the watch; proofs about both |
| `OverlayJobs` | claims of overlay jobs by cron workers |
| `NotifyClaims` | claims of notifications by passes |
| `MCDigiquantDay`, `DigiquantDayProofs` | instance of both; proofs about both |
| `ChatRunLock`, `CircuitBreaker`, `RateLimiter` | guards in front of requests |
| `MCGuards`, `GuardsProofs` | instance of the three; proofs about them |
| `PlaceLemmas` | least and greatest place of a sequence, and `RemoveAt`, for the proofs |

The instances that hold several protocols have a variable `part`, chosen once:
a behaviour is one of a single protocol, so that state spaces add up and do not
multiply.  The protocols share no state in the code either.

### WebsetRun

One webset with its search generations.

| variable | code |
|---|---|
| `webset`, `search` | `websets.status`, `searches.status` |
| `unsettled` | whether a stored item is `pending`, or a verified one lacks a field: all that `_settlement_blockers` wants to know of items |
| `events` | the terminal rows of the events table, with their generation |
| `pc`, `queue`, `driven`, `phase`, `tries`, `cur`, `variant`, `recalled`, `gens`, `flip` | where the run task stands in `_drive`, `_finalize`, `_drive_newcomers` or `_fail`, and the locals that matter there; `pc = "off"` when `WEBSET_TASKS` has no live task |
| `call`, `victims` | where each request thread stands in `add_search` or `cancel_webset` |
| `crashes`, `faults` | how much of the bounds is used |

One store statement (or transaction) is one step.  `settle_search` is therefore
`SettleSearch` (read and check) and `WriteSearch`; `set_webset_idle` is
`SetIdle`, `RereadIdle`, `WriteIdle`; `cancel_webset` is `CancelWebset` and then
either `CancelFlip` (one write transaction) or `CancelList` and `CancelSettle`
(the searches are listed before the connection's first write opens a
transaction).  `_finalize` re-enters the drive loop for searches added
meanwhile: `phase` says who is waiting for the loop to end.  `Fail` to
`WriteFailed` follow `_fail` in its order.  `StoreFault` makes the next store
call of the task raise: in the pass this leads to `_fail`, in `_fail` and in the
load the task ends with a log line.  `CrashAndResume` drops task and requests
and schedules what `list_incomplete_websets` selects.

Abstractions: `get_webset` reads three tables in three statements and is one
step; search and verification outcomes are choices; `TryVariant` may stop after
the first variant, because the verified count is not modelled; a fault inside
the handling of one item is contained there and only leaves the item
unsettled; enrichments and items are in `WebsetItems`; `ScheduleRun` is one step
(its race is in `WebsetDriver`); `create_webset` has finished before the model
starts; `SettleSearch` has no branch for a search already at
its target status, which the re-read in front of it excludes; the single server
process is assumed to be resumed after a crash.

### WebsetItems

The items of one webset, seen by a run and by the backfills of enrichments that
are attached while it works.  `row` is what the store has, `mem` what the run
has loaded, `copy` what each backfill has loaded; `task` is where
`_process_candidate` stands for each item, and `todo` what it has still to
enrich.  A store call is a step, as is the answer of the model.  `SaveItem`
writes the whole row from a copy, which is the point of the module: a task that
loaded earlier overwrites what another has stored since.

A store fault leaves the copy in memory ahead of the row, as in the code, where
`_verify` and `_extract` change the item first and save it afterwards.

Abstractions: `skipped` fields count as unresolved; a backfill's copy keeps only
the items it will write; cancelling, settling a search and flipping a status are
one step (their races are in `WebsetRun`); each backfill works without a permit
(`service.py:28-32` speaks of the "same semaphore", but every backfill builds a
runner and a semaphore of its own).  `overlapped` is history: a task has loaded
while another was alive.  Crashes and faults share the bound `MaxMishaps`.

### WebsetDelivery and DeliveryLedger

`WebsetDelivery` has the events table, the registered webhooks and the ledger
row of every (webhook, event) target; one record per appending thread for its
place in `append_event` / `deliver_webhook`, and one per process for the
re-delivery pass.  A POST is a step of its own with outcome success, retryable
or final.  `next_attempt_at` is reduced to what the selector reads: NULL, in the
future, reached.  `Crash(p)` kills the threads and the pass of one process; a
pass that the stop event abandons between two rows is the case in which nothing
is in flight.  `FanoutFault` and `UpdateFault` are store faults, contained where
the code contains them.  The order in which one fan-out visits its webhooks is
left open.

`fanned`, `rounds`, `lostRounds`, `acked`, `unrecorded` are history: no guard
reads them.  They say what the receivers saw.

`DeliveryLedger` knows nothing of threads: a row is created once with the first
outcome, a pending row is retried at most `MaxAttempts` times with every retry
counted once, delivered and exhausted rows never change, and no row stays
pending for ever.

Left out: bodies, signatures, secrets and their rotation; the branches that
exhaust a row because its webhook or event was deleted or deactivated, which no
operation of the service produces.

### WebsetDriver

`webset_task_lifespan` invocations ("sessions": the HTTP lifespan, or one per
MCP client) share one supervisor.  `lock` and `queue` are `_install_lock`,
`active`, `current` the module globals `_active`, `_supervisor`; `session`
says how far an invocation is, `super` how far the supervisor it started is, and
`order` what that has been told.  `seam` is `service._scheduler`, `task` the run
tasks that are alive, `entry` is `WEBSET_TASKS`.

Coroutines switch only where they `await`; request threads and the tick's
worker thread (`Callers`) interleave with them at every read and write of the
seam and of the registry, since the routes are plain functions run by a thread
pool and the tick uses `asyncio.to_thread`.  `CancelEntry` and `CancelExit` are
cancellations of an invocation at each of its waits.  `QueryRaises` is a startup
query that fails with something `_resume_incomplete_websets` does not catch.

Abstractions: a session is entered once (`Sessions` bounds how many there are);
a pass is two steps, the last moment at which it still sees a new search and its
end; requests begin while a session is served but may outlive it; when the tick
finds a monitor due is left open; `Slots` bounds the tasks alive at a time; one
event loop and one process; backfills and the re-delivery loop are elsewhere.
`missed` is history: websets whose driving the code has knowingly given up.

### MonitorWatch

One watch with a webhook or e-mail delivery.  The web is a version per URL; a
turn takes its place in the order of runs (`started_at`) when it starts and
fills it when it stores.  `log` has the stored runs as far back as the memory
reaches and the places of turns under way, so that a turn that started early
and stores late is sorted before a later one, as `ORDER BY started_at` has it.
`attempted` and `lost` are history.

Abstractions: near-duplicate titles, research and poll mode, edits of the watch
and `is_due` are left out; all targets of a delivery are one step; the hand-off
to a webset is a caller's `AddSearch` in `WebsetRun`.

### OverlayJobs and NotifyClaims

`OverlayJobs` has the `job_runs` rows and cron workers that dispatch and, when
told to, execute.  Every request to PostgREST is a step; `RequestFails` lets it
fail with or without its effect, and a worker may `Die` anywhere.  `mine` is the
batch of claims a worker takes before it runs the first one.  Targets of the
cron are always private workspaces without pins or budgets, so
`require_overlay_legacy_book_safe` refuses each run and "succeeded" cannot be
reached that way; the status is kept because `execute_overlay` has it.

`NotifyClaims` has claims and log of one workspace and day, and passes that look
at due messages.  A send is accepted, refused, or ends in a transport error
(`unclear`), in which case the claim stays without a log row.  `is_suppressed`
is always false in the code and is left out.

### ChatRunLock, CircuitBreaker, RateLimiter

`ChatRunLock` has the two `BoundedTTLMap`s: for each key the lifetime left of its
entry and the keys that are older, which is the insertion order a `Map` evicts by.
Expired entries are dropped when they expire, since every `get` and `set` evicts
first.  The ways in which a request ends are actions: response read to its end,
stream cancelled with a read pending, no upstream token (which forgets the id),
an exception nobody catches.  `lost` is history: keys whose entry has gone under
an open run.

`CircuitBreaker` keeps the clock as the wait that is left and counts failures up
to `Threshold`.  Exceptions that are no `Exception` are left out.  The calls it
guards have timeouts of up to 600 s and the breaker recovers in 30 s, so calls
that end long after it has opened (`stale`) are the ordinary case.

In `RateLimiter` `check` is one step (it has no await), times are ages, and an
age beyond the window is as good as `Window + 1`.  The ordered dict of deques is a
sequence of (bucket, ages); moving a bucket to the end takes it out and appends it.  How an address is mapped to
its bucket is left out.

## 3. Runs

| run | expected | question and bounds |
|---|---|---|
| `run_safety` | pass | 3 generations, 2 request threads, 1 crash, 1 store fault: a running webset has a live task, `failed` is announced first, `webset.idle` events are true, the idle flip is earned |
| `run_webset_settles` | pass | 3 generations, 2 threads, 1 crash, fairness: every webset ends; a lone search ends; idle is announced while the server stays up and no later generation fails; a failed pass is announced |
| `items_safety` | pass | 2 items, 2 generations, 1 enrichment attached late and removed, no mishap: verified items are announced, `item.enriched` is true, fields are settled once, a resting idle webset is complete, all as far as no two tasks overlapped |
| `items_recovery` | pass | 1 item, 1 crash or fault at any point, fairness: a verdict is never undone, announced once, tasks end, no item stays pending |
| `items_overlap` | violation | `IdleIsFullySettled`: completeness without the proviso about overlapping tasks |
| `delivery_one_loop` | pass | 1 process, 2 threads, 2 events, 1 crash, 1 fault: the table implements `DeliveryLedger` |
| `delivery_single_appender` | pass | 1 thread, 2 webhooks: a receiver that said success is contacted again only after its answer was lost |
| `delivery_two_loops` | pass | 2 processes, fairness: ok rows are true and failed rows settle even with two loops |
| `serving` | pass | 2 sessions, a request and the tick, 1 webset, 2 tasks, fairness: a served session has its driver, the last reference leaves nothing behind, an incomplete webset is driven; 2 turns of a watch over 1 page with 2 versions: what the memory absorbs has been offered |
| `double_drive` | violation | `OneDriver`: 1 session, 2 requests |
| `digiquant_day` | pass | 2 jobs and 2 workers; 2 messages and 2 passes; 2 mishaps each: claims, single runs, single sends, progress of claimed jobs |
| `guards` | pass | 3 requests over 2 sessions and 2 run ids; 3 callers of a breaker; 3 buckets of a limiter |

Why the bounds are enough.

* *Runs of a webset.* Three generations are what it takes for one to be driven,
  one to arrive as a newcomer and one to exhaust the second flip attempt
  (`FinalizeAttempts = 2`, as in the code).  Two threads are one adding while the
  other cancels.  Two variants (four in the code) tell "first" from "later" and
  "some failed" from "all failed".  One crash and one fault reach each step once.
* *Items.* Item tasks share the permits and the definitions, nothing else.
  `items_safety` has two permits for its two items: a permit only holds a step
  back, so this allows every interleaving that one permit would, and more.  The
  other two runs have one item.  Two generations are a run and a refresh; the
  backfill opens one of its own.  The proofs hold for any number of items,
  permits and mishaps.
* *Delivery.* `MaxAttempts` of 2 or 3 (five) and `CallAttempts` of 1 or 2 (three)
  keep a first, a middle and a last rung; `Batch = 1` lets a row wait while
  another is handled.
* *Driver.* Two sessions are a holder of the lock and one that waits, a first
  entry and a second, a last exit and an entry behind it.  Two task slots let a
  run of an earlier request be replaced.  The proofs hold for any finite number.
* *Watch.* `SeenRuns = 2` (ten): one stored run inside the memory, one about to
  leave it.  Two versions let an older observation come after a newer one.
* *Guards.* `MaxKeys = 1` evicts with every second session; a run on one session
  alone sees no eviction and only expiry.  The breaker needs a call from before
  it opened, one that probes and one more; `SweepInterval = 3` lets a sweep meet
  a bucket in use in front of an idle one, if there were such an order.
* *Digiquant.* Two workers and two jobs give batches of two, claimed by different
  workers; two mishaps are a death and a lost response.

Deadlock checking is off where the bounded system legitimately stops: crashes
and generations run out, sessions are used once.  `digiquant_day` and `guards`
check it.  Symmetry is used in `run_safety` and `items_safety`, which have no
liveness property.

Fairness.  Runs and backfills (`RunStep`, `BackfillStep`): the event loop keeps
running them and every `await` ends, since calls to providers have timeouts.
`RequestStep`, `CallerStep`: a thread that has begun goes on; nothing obliges
anyone to begin.  Sessions and supervisors: coroutines that can go on do; nobody
has to enter, leave or cancel.  The delivery loop repeats its pass every
`WEBSET_REDELIVERY_SECONDS`; `ReachNextAttempt`, `EntriesAge` and
`RecoveryTick`: time passes.  `BreakerStep`: calls end, and some caller comes by.
`OverlayStep`: a started worker goes on.  All of it is weak fairness, and none is
assumed of crashes, faults, outcomes or choices.

Every property of a passing run has a mutant in `PROJECT.json`: a small change
to a modelled operation (written beside it in the module and named as such)
under which the run fails.

## 4. Proofs

### WebsetRunProofs

For every number of generations, variants, attempts, request threads, crashes
and faults (`BoundsAssumption` only says they are numbers, with at least one
search, variant and attempt):

* `TypeCorrect`: `TypeOK`.
* `LiveTask`: a running webset has a live run task unless a store fault struck.
* `FailureIsAnnouncedFirst`: `failed` is never stored before a
  `webset.failed` event.
* `IdleEventsAreTrue`: `webset.idle` names a generation that did settle, on a
  webset that has left `running`.
* `IdleFlipIsEarned` (an action property): the flip to idle leaves no item
  unsettled and no search of the run unfinished.

None of these is inductive alone.  `IInv` adds four parts.  `Known`: the
searches in the task's locals have been stored, and inside a pass the current
one counts as driven.  `NotRunningAgain`: who relies on the webset being, or
no longer being, running: a cancel without a flip, the announcement of idle, and
`_fail`, whose queue still runs as long as the webset does.  `Announcing`: the
generations about to be announced as idle have settled, and `_fail` has appended
an event before it touches the status.  `Earned`: what `set_webset_idle` saw
between its check and its write is still true of the searches this run drove,
although new ones may have arrived.  There is one
lemma per conjunct, with one step per action, and `Inductive` and `Invariance`
combine them; TLC checked `IInv` on the bounds of `run_safety` first.

### WebsetItemsProofs

For every set of items and enrichments and every bound:

* `AnnouncedOnce`: `CreatedOnce`.  `item.created` names verified items, and no
  item under two generations.
* `VerdictStays`: `VerdictIsFinal`, although tasks write whole rows.

The strengthening says what each copy may differ in from its row.  `MemAgrees`:
the copy of the run is the row, or a verdict ahead of a pending row whose save
raised.  `TaskAgrees`: an item about to be announced is verified and has no
event.  `CopyAgrees`: a backfill only ever writes items that were verified when
it loaded them, so that the row it replaces has the same verdict.

* `Announcing`: `VerifiedIsAnnounced`.  `AInv` adds that, while nothing has
  failed, the run's copies have the verdicts of their rows: no row becomes
  verified by a later save, only by `Judge`, whose task goes on to the event.

### WebsetFieldsProofs

Fields have no such argument when two tasks hold copies, as `items_overlap`
shows.  As long as that has not happened (`~overlapped`), for every set of items
and enrichments, any crashes, faults and requests:

* `FieldsStay`: `FieldIsFinal`.  `FInv` says that whoever has loaded is alone
  (`RunHolds`, `BackfillHolds`), that its copy has every field its row has
  (`Kept`), perhaps more of them after a save that raised, and that a task fills
  only what its copy lacks (`TodoMissing`).
* `EnrichedTells`: `EnrichedIsTrue`.  The event is decided on the copy;
  `SavedSince` says that copy and row agree by then, because an item is queued
  only while something is missing (`Pending`, `WorkPending`), so that its task
  has saved it at least once, which also makes up for a save lost before.
* `IdleRestsComplete`: `RestingIdleIsComplete`, without crash, fault or overlap
  (`Undisturbed`).  `RInv` is the account of who owes what.  The run's copy is the
  table, and every field it does not know of has a backfill that has not loaded
  yet (`RunInStep`, `Waiting`); a run or backfill that may end over an idle
  webset has swept before (`RunSweeps`, `BackfillSweeps`), which is what makes a
  backfill that finds the webset idle safe to skip the run; and when nobody is
  at work an idle webset lacks only fields somebody waits to fill
  (`NothingOwed`).

### WebsetDeliveryProofs

For any numbers of processes, threads, webhooks, events, crashes and faults:

* `TypeCorrect`: `TypeInv`, which is `TypeOK` with its conjuncts in the form the
  provers can use.
* `OkIsTrue`: an ok row was answered with success.  The strengthening says that
  a thread or pass that carries a success has seen one.

Under `OneLoop` (at most one process has a re-delivery loop, the deployment in
which only the HTTP server or only the MCP server runs):

* `SnapshotsStayFresh`, `RoundsStayAccounted`, `SettledRowsAreLeftAlone`.
* `LedgerRefinement`: `Spec` implements `DeliveryLedger`'s `Spec` under the
  mapping `StatusOf`.  Every step maps to a record, a retry or a stutter; it
  needs the freshness of the snapshot, because `redeliver_webhook` computes the
  row from it.

Under `OneLoop` and `OneAppender` (besides, a single thread that appends events,
as in `delivery_single_appender`):

* `RepeatsFollowLosses`: `RepeatOnlyAfterLoss`.  `KeptInv` says where an answer
  with success is: stored, carried to its row by a fan-out or the pass, or lost
  and on record.  A fan-out that is about to record still finds no row
  (`FirstContact`), so that its insert cannot miss.  With two appenders this
  fails: threads that append one event again may both see no row and POST it.

### ServingProofs

The install window, for any finite set of sessions and any websets, requests and
tasks:

* `WindowInvariant`: `DInv`, which has the type invariant as its first part.
* `ServedSessionsHaveDriver`: `SessionsHaveDriver`.
* `LastReferenceCleansUp`: `ClosedWindowIsEmpty`.

The count is never below the number of sessions inside, but may be above it: a
cancelled exit keeps its reference.  `LockInv` says what the lock's holder is
doing and that with a free lock and no reference no supervisor is current;
`AliveInv` that a supervisor is alive only as the current one or the one the
holder waits for, and that the seam is behind exactly the one between its
install and its teardown; `TaskInv` that tasks live in groups that are alive
and that no thread holds a scheduler that was never installed.

The watch, for any pages, versions, turns and length of the memory:

* `WatchInvariant`: `MInv`, types and places of the log included.
* `NothingAbsorbedUndelivered`: `AbsorbedIsDelivered`.

The property is about the log alone and is not inductive: `Store` copies into the
log what the turn holds.  `TurnIsSettled` says that what a turn found and does
not hold as new has been delivered, is being delivered, or was lost with a turn
that died; the log inherits it, and a turn that computes its news from the log
inherits it back.  `SettledStays` is the lemma both need.

### DigiquantDayProofs

For any number of jobs and workers, messages and passes, deaths and failed
requests:

* `SoleHolder` and `GraphOnce`: a job is in one worker's hands, the graph has
  not run for it before it got there, and so it runs once.
* `SettledIsFinal`, `OrphansStay`, `RunningRowsAreHeld`.
* `OneHand` (the invariant), `NoDoubleSend`, `LogOfSends`, `SlotsAreUsed`.

Both arguments are that of the conditional write: what is in a hand is claimed,
is in no other hand, and has not come as far as its row might suggest.

### GuardsProofs

The run lock, for any sessions, ids, requests, lifetimes and size of the maps:

* `LockInvariant` (`CInv`), `SessionsRunAlone` (`OneRunPerSession`) and
  `RunIdsRunOnce` (`IdOpenOnce`).  The strengthening accounts for entries: an
  open run has the entry of its session and that of its id, or they are in
  `lost`.  A second run can start only where an entry is missing.
* `MapsStayBounded`: neither map exceeds `MAX_KEYS`.  It needs that the entries
  of a map are in a total order, so that a full map has exactly one entry with
  none older (`OldestExists`) and the eviction makes room.

The breaker, for any number of callers, threshold and recovery time:
`BreakerInvariant`, `CountTellsState`, and `EarlyCloseByOldCall`
(`EarlyCloseIsStale`), whose strengthening is that every call under way while the
recovery time runs began before the breaker opened.

The limiter, for any buckets, quota, window and interval of sweeps:

* `LimiterInvariant` (`LInv`) and `QuotaIsKept` (`QuotaHolds`).  `LInv` says that
  each bucket has one place, that its times and the places themselves are in
  order, and that what was let through within the window is the tail of the
  bucket's deque; a sweep may forget a bucket only when that tail is empty.
* `SweepsAreComplete` (`SweepIsComplete`): a sweep that stops at the first bucket
  in use leaves no idle one behind it, because places are in the order of their
  last times.

### Only model-checked

Every invariant and every action property that a passing run checks is stated by
a theorem.  Liveness under fairness is beyond the prover and stays with TLC:
`WebsetSettles`, `LoneSearchSettles`, `IdleIsAnnouncedUnlessCrashed`,
`FailureIsAnnouncedUnlessCrashed`, `TasksEnd`, `PendingItemsSettle`,
`FailedRowsSettle`, `IncompleteIsDriven`, `ClaimedJobSettles`,
`SessionComesFree`, `OpenEnds`.
With two re-delivery loops `OkIsTrue` is all that is proved of the ledger.

The inductive invariants were checked with TLC on the instances of section 3
before they were proved.  No proof uses an assumption besides those the modules
state of their constants and, for the ledger, `OneLoop` and `OneAppender`, which
are hypotheses of the theorems and hold in the deployments named above.

## 5. Where the code and its documents disagree

Two of these are runs of their own (`findings` in `PROJECT.json`).

1. **A backfill beside a run loses a field** (`items_overlap`).  Both hold a copy
   of the item, and the later whole-row save removes what the other has stored;
   the run has done its settling by then, and the webset becomes idle with an
   incomplete item.  `store.py:571` relies on "the runner is the only writer".
2. **One webset can be driven twice** (`double_drive`).  Two threads pass the
   check of `schedule_webset_task` before either has entered its task.

The others are properties stated in the MC modules and violated there.  To
reproduce one, add its name to the cfg of the run.

3. `SearchesSettle` (`MCWebsetRun`, `run_webset_settles`).  A search inserted
   after the run's last look for newcomers and before its task is done is handed
   to `schedule_webset_task`, which returns the dying task.  Nobody drives it
   until the next request or restart.
4. `FailureIsAnnounced` (`MCWebsetRun`, `run_webset_settles`).  After a crash in
   `_fail` between the failed settle and its event nothing is running: the
   resumed run flips the webset to idle and no `webset.failed` is ever appended,
   the very crash the comment in `_fail` says is covered.
5. `IdleIsAnnounced` (`MCWebsetRun`, `run_webset_settles`).  After a crash
   between the flip and the emission startup resume does not select the webset.
6. `TerminalIsSticky` (`MCWebsetRun`, `run_safety`): checks and writes of
   `settle_search`, `set_webset_status` and `cancel_webset` are not atomic.
7. `CancelStopsRecall` (`MCWebsetRun`, `run_safety`): on a sticky-idle webset
   the runner's cancel flag is never set.
8. `NoWorkOnCancelled` (`MCWebsetRun`, `run_safety`): a cancelled webset can be
   given a search that nothing settles and every startup selects again.
9. `NeverDoublePosted` (`MCWebsetDelivery`, `delivery_one_loop`): a receiver
   gets an event twice when the process dies between its answer and the row.
10. `SingleProbe` (`MCGuards`, `guards`): `circuit_breaker.py` speaks of a single
    probe, but `HALF_OPEN` rejects nobody.
11. `LastExitTearsDown` (`MCServing`, `serving`): an exit that is cancelled while
    it waits for the install lock never gives its reference back, and the driver
    outlives the last session (`driver.py:417`).
12. `ShutdownCancelsAll` (`MCServing`, `serving`): a thread that has read the
    seam schedules its run after `cancel_all`; the teardown waits for a whole
    pass (`driver.py:147`).
13. `LatestObservationWins` (`MCServing`, `serving`): runs are ordered by the
    time they started, not the time they recalled, so that an older version of a
    page can decide what counts as seen (`monitors/store.py:345`).

Behaviours of the models without a property of their own:

* A pass whose recall failed and which is cancelled before `_fail` reads the
  webset appends `webset.failed` to the cancelled webset; when the failing
  generation is cancelled inside `_fail`, the run ends with no terminal event,
  also for generations that had settled before (this is why
  `IdleIsAnnouncedUnlessCrashed` excuses a later failed or cancelled one).
* Two processes' re-delivery passes may POST one row at the same time, since the
  in-flight set is local to a pass; the ledger theorems assume one loop.
* A crash between `save_item(verified)` and its event loses `item.created`: the
  item is not pending any more and is not verified again.
* An enrichment attached while a run is past its load blocks the idle flip; the
  run knows nothing of it, finds no newcomer and ends as failed.
* Removing a definition while a backfill works on it leaves the generation the
  backfill has opened running until the next run; startup resume schedules runs
  and never a backfill.
* An overlay job whose worker died stays `running` for the day (`OrphansStay`).
* `chat-run-lock.ts:24` says a request that failed before it produced a turn must
  not block a retry of the same send; only the missing upstream token forgets
  the run id, while the other early answers of `route.ts` (lines 535, 649 and
  692 for instance) release plainly and leave the id behind as done.
* Ten failed runs in a row empty the memory of a watch, and every page is
  reported again.

## 6. Plan

1. Two processes over one database: a second `WEBSET_TASKS`, both resuming the
   same websets, on top of `WebsetDriver`.
2. The tick with its anchors, pause and cadence, now left open in `BeginTick`.
3. The composition of run and delivery over one events table: which events a
   crash between append and fan-out loses.
4. `create_webset` and a crash inside it; rotation of webhook secrets.
5. Proofs: what of the ledger theorems survives two loops (rows that are
   settled stay so, the count of attempts never exceeds its bound), and of
   `RepeatsFollowLosses` several appenders.
6. digikey's blocklist and the digibot heartbeat scheduler.
