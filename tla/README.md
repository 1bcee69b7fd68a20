# Formal models of the AI load testing platform

TLA+ specifications of the platform's services and of the pages that hold state,
the TLC runs that check them on small instances and the TLAPS proofs that hold for
every instance. The reference is the source at this commit; every definition that
stands for code is listed, with its lines, in `PROJECT.json` under `map`.

    tlc -workers 2 -config BackendOneReplica.cfg MCBackendPipeline
    tlc -workers 2 -config Services.cfg MCServices
    tlapm BackendPipeline_proofs.tla

## 1. The system

A user submits a load test over REST; services hand it on through RabbitMQ and
record what happens in one PostgreSQL table, `test_results`.

    client -> api-service -> [ai-requests] -> ai-service -> [backend-tests] -> worker-backend (k6)
                         \------- script known or given ---/ [client-tests] -> worker-client (Puppeteer)
    workers -> [test-results] -> results-service -> PostgreSQL, analyser-service, WebSocket clients
    api-service -> (cancel-fanout exchange) -> the cancel queue of every worker replica
    api-service, workers -> HTTP callbacks /pending /running /fail /cancel -> results-service

| Component | State | Operations | Hard part |
| --- | --- | --- | --- |
| api-service | publisher channel | `POST /tests`, `POST /tests/:id/cancel` | callback sent without await, publication that fails half way, cancel in two steps |
| ai-service | messages in hand | generate or reuse a script, count the call, forward | retries after counting, publication without confirm |
| worker-backend | `runningTests`, `cancelledTests`, channel, the growing output of k6 | take a test, run k6, publish, retry, dead-letter; cancel consumer; windows and log lines on the way | handlers that outlive their channel, redelivery, cancel racing with start and exit, reads that overlap |
| worker-client | `runningBrowsers`, `cancelledTests`, browser pool | the same with browsers | pool at its cap, browsers closed under a run, a flag that outlives its test |
| results-service: store | `test_results`, `test_scripts` | status callbacks, result upsert, sweeps, script edits | writers that arrive late, twice or in any order |
| results-service: consumer | the result in hand | look up the run to compare with, analyse, save, announce | twelve seconds between lookup and save, baselines set meanwhile |
| results-service: scheduler | `schedules`, `activeTasks` per replica | register, fire under an advisory lock, CRUD, run now | replicas firing the same minute, registries that only one replica updates |
| results-service: accounts | users, sessions, teams, organisations, quotas | login, rotation, membership, limits | checks separate from the writes they guard |
| results-service: AI routes | the team's calls of the day, provider settings | count, ask, check the answer | calls paid for and not made, settings cached elsewhere, answers of any shape |
| results-service: start | the schema | migrations under an advisory lock | a crash between a migration and its record, replicas that start together |
| recorder-service | sessions, browsers, finished recordings | start, stop, auto-stop, delete, shutdown; capture, correlate | four ways to end one session, requests and responses interleaved |
| ui | what each page shows | chat, FlowBuilder, result page | answers that arrive when the page shows something else |
| analyser-service, shared, tracing | (none that survives a call) | analysis, helpers | pure functions |

What makes each part correct: no accepted test is lost; a test is not run more
often than faults explain; a cancel reaches its test and nothing else; a row ends
in a terminal status; a schedule fires as often as it should and its tasks can be
stopped; limits hold; every session is ended once; a result is compared with the
right run; an answer is put where it belongs. `PROJECT.json` lists under `hazards`
the lines at which each of these can break, and `components` says for every part
what is modelled.

## 2. Modules

| Module | What it is |
| --- | --- |
| `TestStore` | a row of `test_results`, one operator per SQL statement that writes its status |
| `TestLifecycle` | abstract specification: what the store promises about the life of a test |
| `BackendPipeline` | api-service, RabbitMQ, worker-backend, results-service and the store, for the tests that go straight to `backend-tests` |
| `MCBackendPipeline` | the same for TLC: replicas are interchangeable |
| `BackendClaims` | three statements of comments and documents that the code does not keep |
| `BackendPipeline_proofs` | theorems about `BackendPipeline`: its types and maps, its writes to the store, its deliveries |
| `Scheduler`, `MCScheduler`, `SchedulerClaims` | schedules, cron tasks, firings and the requests that change them |
| `Scheduler_proofs` | theorems about `Scheduler` |
| `ClientWorker`, `MCClientWorker` | worker-client: deliveries, the browser pool, runs, cancels, shutdown |
| `ClientWorker_proofs` | theorems about `ClientWorker`: its browsers, its deliveries |
| `TeamMembership`, `Sessions`, `TeamQuotas`, `MCAccounts` | who administers a team, who is logged in, what a team may still do |
| `Accounts_proofs` | theorems about the three |
| `ScriptPipeline` | where the script of a test comes from, through ai-service, and what edits do to it |
| `AiCalls`, `AiRoutes` | which provider a call goes to; what a route counts, asks and answers |
| `Verdicts`, `VerdictClaims` | what a result is compared with, its verdict, and baselines |
| `Recorder`, `Capture` | the life of a recording; the flow made of what it captured |
| `Chat`, `ResultView` | the chat page; the result page and what reaches it |
| `LoadPlan` | from the load a user asks for to the scenarios of the script |
| `LiveMetrics`, `RunLog` | windows read from k6's growing output; its log in batches |
| `Migrations` | bringing the schema up to date |
| `MCServices` | the twelve from `ScriptPipeline` on, for TLC |
| `Scripts_proofs` | theorems about `ScriptPipeline` |
| `Services_proofs` | theorems about `Recorder`, `Chat`, `AiCalls`, `Migrations` and `LoadPlan` |
| `Results_proofs` | theorems about `LiveMetrics`, `RunLog`, `ResultView` and `AiRoutes` |
| `Verdicts_proofs` | theorems about `Verdicts` and `Capture` |

`MCAccounts` and `MCServices` put components side by side that share no state: a
variable `part`, chosen at the beginning, says which of them the behaviour is about,
and the others keep their initial state. A run of such a module checks each
component as a run of its own would; the view `OfPart` lets TLC compare states by the
variables of their part. Values are shared between parts where that
saves symmetry (the slots of `AiCalls` are the conversations of `Chat` and the users
of `Verdicts`). The assumptions of these components are definitions
(`AiCallsAssumption`), which the MC module assumes together.

### BackendPipeline and the code

`row` is the table; `request` and `cancelReq` how far `POST /tests` and the cancel
route of a test got; `pendingCall` and `runningCalls` the HTTP calls that were sent
and not awaited. `ready` and `fresh` are the broker's messages, persisted and not
yet persisted: a publisher confirm is the move from `fresh` to `ready`. A message
is a queue, a test and its `x-retry-count`.

`handler[<<r, s>>]` is one invocation of `handleTestMessage` on replica `r`; `s` is
a slot, because a replica has several invocations under way: up to
`WORKER_CONCURRENCY` deliveries, and those of an earlier connection. `pc` names the
next await:

| `pc` | next in the code (worker-backend `index.ts`, `runner.ts`) |
| --- | --- |
| `received` | the status query, 277 |
| `checked` | writing and inspecting the script, then `spawn`, runner 101-143 |
| `k6` | k6's `close` or `error` event, runner 207-256 |
| `exited`, `caught` | `wasStopped`, 312; the catch block, 354 |
| `saving`, `confirming`, `acking` | `saveScript` and `sendToQueue`; `waitForConfirms`; `ack`, 326-353 |
| `stopping`, `stoppingInCatch`, `ackingInCatch` | `notifyCancelled` and the ack after it, 320 and 359-361 |
| `failing`, `retrying` | `notifyFailed`, `handleRetry`, 366-367 |
| `rejected` | the promise is rejected and nobody handles it |

`live` says that the delivery still belongs to an open channel. When the connection
closes it becomes FALSE, the broker gives the delivery back (`GiveBack`), and the
old invocation goes on: its `sendToQueue` and `ack` throw. An error in the try
block is caught; one in the catch block, or outside of it, ends the process
(`Die`), with its k6 children, maps and other handlers. `procs` and `cancelled` are
`runningTests` and `cancelledTests`. `ReceiveCancel` is the cancel consumer: the
flag is raised only when `runningTests` has the test.

A redelivery or a retry is a message like any other. `consumer` is the consumer of
results-service (prefetch 1) and `lateSaves` a `handleResult` whose channel closed
while it ran. `Sweep` is the stale sweep: its thresholds are settings and its clocks
are columns that do not follow the worker, so it may hit any pending or running
row.

Abstracted: scripts, metrics (only whether a run made a request and whether a
row has metrics), log lines, live metrics, the timing of SIGTERM and SIGKILL (k6
may exit at any time for any reason), the analysis, webhooks. A row that belongs
to a team (`Owned`) differs from one that does not, because `notifyCancelled` names
no project and the store then refuses it.

### Scheduler and the code

`stored` is the `schedules` table, `registry` is `activeTasks`, `started` counts the
cron tasks of a schedule that were created and not stopped, whether or not
`activeTasks` still holds them. `window` is the UTC minute; at its beginning every
started task is `due` and fires at some moment of it. `firing` is one execution of
`triggerSchedule`: it claims the window (`Claim`), posts the test (`Post`) and
records the run (`Record`). The advisory lock is held exactly while a firing is
`posting` or `recording`. `executing` is node-cron's `noOverlap`. `request` has one
entry per administrator: each await of the routes is a step, so requests of two of
them interleave. `Restart` is a crash and `startScheduler`.

### ClientWorker and the code

`job[j]` is an invocation of the consumer of worker-client, `pc` its next await;
`running` is `runningBrowsers`, `flag` is `cancelledTests`, the pool is
`browserPool.ts` with its idle browsers, its count and its waiters. A browser that is
closed stays connected until its process is gone, which is when the pool can still
hand it on. The kill timer, a cancel, a crash of Chrome, of the channel or of the
process, and the drain of a shutdown come at any time.

### The components of MCAccounts

- `TeamMembership`: `req` is a request and its next statement, `locked` the member rows
  its transaction has. `SELECT ... FOR UPDATE` is `Begin`, which fixes in `left` the rows
  that are there, one `LockRow` for each of them, and `Locked`: under READ COMMITTED a
  statement that waits does not see the rows inserted meanwhile, and skips those
  deleted. `missed` says that a member was added while such a statement waited.
- `Sessions`: `session` are the rows of the tokens; `over` the tokens a client knows
  to be over.
- `TeamQuotas`: `test` is what the rows of a team's tests say, `job` the requests
  between reading a limit, counting and writing. A `/pending` may come after the test's
  `/fail` found no row (it inserts an active one), or never (`"lost"`). `RunningArrives`
  makes an ended row active again, as `/running` does for a retried attempt, a
  redelivery or a late call; those tests are in `revived`.

### The components of MCServices

- `ScriptPipeline`: `request` is how far `POST /tests` got, `job` a message in the
  hands of ai-service, `work` the worker's queue, `scriptRow` the row of the cache;
  `edit` is the transaction of `PUT /scripts/:id`, one statement a step. `fresh` is what
  ai-service sent and the broker has not written yet (its channel has no confirms),
  which a restart of the broker (`BrokerCrash`) drops; `lost` are the tests whose
  message was acknowledged by then.
- `Recorder`: `session` and `completed` are the two maps of recorder-service, `rec`
  and `callback` the state of the FlowBuilder page, `recAsked` its requests. `callback`
  is whose function `window.__recordingDone` is: that of the page there is, or that of
  one which has been left and never took it back. A start that fails after the browser
  was launched leaves the browser open.
- `Capture`: `net` is what the browser sent and got, `captured` the exchanges,
  `steps` the flow, its holes and extractions.
- `AiCalls`: `row` the settings, `cache` what a service keeps of them, `call` a call
  with the providers it has left.
- `AiRoutes`: a route is the sequence of its checks, in the order of its code; `ask`
  is a request and where it is.
- `Chat`: `cards` are the entries with a button, `chatAsked` the requests not yet
  answered, with what the page showed when they were sent.
- `LoadPlan`: `computeJourneys`, `buildK6Options` and the rules the generator gives
  the AI, as operators, over all small plans. `script` has, for each number of first
  steps that some users make, the levels of their scenario and its pool of VUs.
  A description of a backend test may state a load (`Stated`): the prompt then has the
  AI write that one and ignore the parameters (`Described`). A script from the cache gets
  the options of the parameters (`Inject`), or, if it is a flow or its options are not
  found, keeps the load it was written for (`Keep`).
- `LiveMetrics`: `read` is one call of `readAndPost` between its two awaits.
- `RunLog`: the two line buffers and the batcher with its timer.
- `ResultView`: `row` is the sequence of versions of the row, of which a read may
  see an old one; `events` what the broadcast has not delivered yet. `/running`
  is announced whether or not there was a row to update.
- `Migrations`: `schema` is a set of objects, each migration the objects it needs,
  makes and drops. `Places` and `Further` are one replica at a time: what the others
  are compared with.
- `Verdicts`: `handling` is the result in the hands of `handleResult`, with what it
  looked up; `setting` are requests for a baseline between their statements.
  `chosen` is what users may rely on: the last baseline that was set, unknown while
  one is being set, and `contested` for good once two requests overlapped.

## 3. Runs

| Run | Instance | What it shows |
| --- | --- | --- |
| `backend_one_replica` | 1 test, 1 replica, 2 slots, no retry, 1 fault of four kinds | `NothingLost`, `ProcsAlive`, `NoStaleCancelFlag` |
| `backend_two_replicas` | 1 test, 2 replicas, 1 retry, 1 crash or failed query | `CopiesBounded`, `CancelledOnlyOnRequest`, `Lifecycle` |
| `backend_liveness` | 1 test, 1 replica, 2 slots, 1 lost connection, fair | `WorkDrains`, `Settles` |
| `scheduler` | 1 schedule, 2 replicas, 2 administrators, 1 minute, 1 restart | `OneClaim`, `NoLeakedTask` |
| `client_worker` | 1 test, 2 deliveries, 2 browsers, 1 retry, 1 fault of five kinds, fair | `BrowsersExclusive`, `NoOrphanBrowser`, `CancelHitsItsOwn`, `FlagOutlivesTest`, `NothingLost`, `TestsEnd` |
| `accounts` | 2 requests at a time on 2 members, 2 tokens, 1 team with 2 tests | `TopRemains`, `LocksReleased`, `RefusedForGood`, `UseIsRemembered`, `WithinLimits`, `LimitsAsAsked` |
| `services` | see the table below | one property or two for each component |
| `no_start_after_cancel`, `handler_never_rejects`, `dead_is_not_running`, `fires_once`, `baseline_of_every_kind` | the smallest instance with the behaviour | a documented claim that the code breaks, see 5 |

| Property of `services` | Bounds | What it says |
| --- | --- | --- |
| `Accounted`, `ComparedOnce` | 1 test, 2 slots, 1 retry, 1 lost connection, crash or restart of the broker | an accepted test is in a queue, on its way to one, in somebody's hands or over, unless the broker dropped what was sent without a confirm; a retry does not ask for the comparison again |
| `ArchivesWhatItOverwrites` | 1 editor, 1 test that stores a script meanwhile | a version is never lost between the copy and the overwrite |
| `RecordingKeptOnce` | 1 recording, 2 requests at a time | finished once, whoever stops it, and held until deleted, expired or restarted |
| `WiredToItsSource` | 3 requests, a cap of 2 steps | a variable is used where the browser sent the value and extracted where it came from |
| `StartsAndServes` | 2 replicas, 1 crash, empty and old databases | no statement fails, and nobody serves half a schema |
| `FreshSetting` | 2 calls, 1 change, 1 failed fetch | no call uses a provider that was replaced too long ago |
| `SoundAnswers` | 2 requests, an allowance of 1 | calls are counted first, and what reaches the page can be used |
| `EditsOfItself` | 2 conversations, 2 scripts, 1 request of a kind | a script is only saved over the script it was made from |
| `LoadAsAsked` | 3 steps, 3 numbers of VUs, 4 percents, 5 profiles, descriptions with and without a load | when the load is that of the parameters: the users of a flow are where they should be, and no more of them than were counted |
| `OutputCounted` | 2 lines, 2 reads and the last one; 4 lines in batches of 2 | a measurement is in one window, a log line is shown once |
| `StaleHeals` | 3 writes, 2 requests | a page that shows an old status is going to learn better |
| `BaselineCounts` | 3 tests of two kinds, 2 users, 2 events | one baseline, the one that was set last; results compared with it; bad verdicts announced |

`NothingLost` is the central property of the pipeline: an accepted test that nobody
cancelled is in a queue, in the hands of a handler, has a result that is stored or
on its way, or is a dead letter. The one exception the code has is in the formula:
a retry or a dead letter is published without waiting for its confirm
(`LostUnconfirmed`), so a broker crash at that moment takes it. A result is never
lost this way.

`Accounted` says the same of the way through ai-service, whose channel has no confirms
at all (`processor.ts` 86, 106, 117, 133, 139): the message it sends is safe only when
the broker has written it. A lost connection or a crash of ai-service loses none, as
the message it was made from is not acknowledged yet or the other one has arrived; a
restart of the broker does, and that is the exception in the formula
(`LostUnconfirmed`). `ComparedOnce` counts the comparisons an AI is asked for; the
calls counted against the quota are those of `TeamQuotas`.

Three properties of the accounts and of the load have exceptions, because the code has
them:

- `TopRemains` says nothing once somebody was made a member while a PUT or DELETE
  waited for its locks (`missed`). The new row is not among those it locks, so two
  requests that see each other's top member may go on side by side and leave none. The
  instance of the run has too few users and requests for that; the theorem, which holds
  for any number of them, needs the exception.
- `WithinLimits` does not count tests that had ended and were set running again
  (`revived`): nobody counts at that moment, and their place may have been given away.
  It also exempts requests that overlap between count and row, and a lowered limit.
- `LoadAsAsked` is about scripts whose load is that of the parameters. It exempts a
  script written for a description that states a load (`generator.ts` 220-222: the AI is
  told to use exactly that, and nobody counts it) and one kept with the load of an
  earlier test, a flow from the cache or a script in which `replaceK6Options` finds no
  options to replace (`options.ts` 145-148, 169).

`NoStartAfterCancel` is broken in nine steps: submit, dispatch, the row, delivery,
status check, cancel, its signal, the signal consumed and forgotten as `runningTests`
has no entry yet, and then the start of k6, which nothing will stop.

`CopiesBounded` counts executions: without faults a test exists once, and each
fault at most doubles it. `ProcsAlive` and `NoStaleCancelFlag` are about two maps
keyed by test id that two handlers of the same test share after a reconnection.
`Lifecycle` says that the whole pipeline implements `TestLifecycle`.

**Bounds.** One test is enough: tests share nothing but slots of a replica, and no
guard compares two tests. What interacts is two executions of one test, and that takes
two slots or two replicas. `MaxRetries` is 3 in the code; 0 and 1 reach both branches
of `handleRetry` and the properties do not count retries. One fault separates every
two steps once; the interplay of several faults is left to the proofs, which have no
bound. In `scheduler`, one minute is enough for the lock, whose key is a minute; that
an execution is skipped while the last one of the task is under way needs two and is
explored by `fires_once`. `accounts` has 0.6 million states and `services` 0.7
million, the largest part of them `ScriptPipeline`'s. In the other runs, two requests
at a time are what check-then-act needs to go wrong, and three tests what tells a
baseline from the latest run. What bounds a behaviour (`MaxAsked`, `MaxFaults`,
`MaxEvents`, ..) is named and is a guard of the actions it bounds.

**Deadlock** is not checked: clients need not submit anything, faults are bounded
and minutes run out, so every instance has states in which nothing more happens.

**Fairness** (`FairSpec`) is on what an event loop, the broker or a timer does by
itself: an accepted request goes on, messages are delivered and persisted, k6 ends
(runner 201-205 kills it after `K6_MAX_DURATION_MS`), handlers proceed,
`connectWithBackoff` never gives up, the sweep runs each minute; in `ClientWorker`
also the kill timer and the end of a browser's process. There is none on
clients, on faults, or on `ConfirmFails`: amqplib may leave a confirm pending for
ever when its connection closes. Fairness of `HandlerStep` is weak and joint, so no
particular outcome of a run is promised.

## 4. Proofs

About `BackendPipeline`'s `Spec`, for all finite sets of tests, replicas and slots
and all values of the other constants (assumption: `ConstantsAssumption`):

- `TypeCorrect`: `Spec => []TypeOK`. `TypeOK` is inductive; the proof has a lemma
  for each component and one step for each of its actions. Finiteness of `Slots`
  and `Replicas` is needed because deliveries given back are counted.
- `CancelFlagsCorrect`: `Spec => [](ProcsAlive /\ NoStaleCancelFlag)`. The two are
  inductive only together: a flag is raised where `runningTests` has an entry, and
  `ProcsAlive` says that a run stands behind the entry. The crucial steps are those
  that let a run leave `k6`, `exited` or `caught` while another handler may have
  the same test.
- `ImplementsLifecycle`: `Spec => Lifecycle`. `OneStatement` shows that each step
  leaves the table alone or writes it with one statement of the store, and
  `StatementIsLifecycleStep` that each statement is a step of `TestLifecycle`.
- `CancelledOnlyOnRequestCorrect`: `Spec => []CancelledOnlyOnRequest`. The property
  is not inductive; `RequestInv` adds that a signal in a cancel queue, a flag in
  `cancelledTests` and a handler about to call `notifyCancelled` all stand for a
  request.

- `CopiesBoundedCorrect`: `Spec => []CopiesBounded`. `Fits` adds that a test has no
  copy before it is dispatched. `Copies` sums over the retry counts by recursion; its
  equation has one solution (`CountsUnique`: two would differ first somewhere), so each
  change of a bag is proved by giving the new sum (`CopiesEnqueue`, `CopiesDequeue`,
  `CopiesAdded`). `StepCopies` says what a step does: nothing more, one more by the
  dispatch of that very test, or at most twice as many by a lost connection, whose
  deliveries return while the retries their handlers had written may arrive too.

About `Scheduler`'s `Spec`, for any number of replicas, schedules and
administrators, and any number of minutes and crashes (assumption:
`SchedulerAssumption`):

- `SchedulerTypeCorrect` and `NoLeakedTaskCorrect`: `Spec => [](TypeOK /\
  NoLeakedTask)`. The two are inductive only together: `registerSchedule` stops a
  task, that is, lowers its count in `started`, because `activeTasks` has it, and only
  `NoLeakedTask` says that the count is then 1. `RemoveKeeps` and `RegisterKeeps`
  carry the argument; the steps of a request only have to show that they call them.
- `OneClaimCorrect`: `Spec => []OneClaim`. `Exclusive` says without cardinalities
  that two firings which hold the lock of a window are one. Only `Claim` lets a
  firing through the lock (`NobodyEnters` covers the other steps), and it looks at
  every replica before.

- `NothingLostCorrect`: `Spec => []NothingLost`. `NothingLost` counts a result that the
  broker has not persisted yet, and a broker restart would take that one. What is
  inductive (`DeliveryInv`) counts only what survives every single fault: a persisted
  message, a delivery in hand, one the broker has to give back, a stored result, a dead
  letter, or `LostUnconfirmed`; for results it also says which step of a handler
  stands for one.

About `ClientWorker`'s `Spec`, for any tests, replicas and handlers, any retry limit,
concurrency and cap of the pool (assumption: `ConstantsAssumption`):

- `TypeCorrect`: `Spec => []TypeOK`.
- `ExclusiveCorrect`, `NoOrphanCorrect`, `CancelHitsCorrect`: `[]BrowsersExclusive`,
  `[]NoOrphanBrowser`, `[]CancelHitsItsOwn`. One invariant, `BrowserInv`: a run that
  holds a browser, an entry of `runningBrowsers`, an entry of the pool and a waiter of
  the pool are tied to each other. None of the three is inductive alone: a browser
  goes back to the pool because the run says it has it, and a cancel closes what
  `runningBrowsers` says.
- `ClientNothingLost`: `[]NothingLost`, with the invariant of deliveries of the backend.
- `FlagCorrect`: `[]FlagOutlivesTest`. `QuietInv` says what a behaviour without
  faults cannot contain (deliveries given back, closed channels), `OnceInv` that a
  test has then one message or one handler that goes on with it.

About `MCAccounts`' `Spec`, for any users, groups, tokens, teams and limits (assumption:
`Assumptions`, what the code requires of its settings; the touch interval is below
the idle timeout):

- `TypeCorrect`, `TopCorrect` (`[]TopRemains`), `LocksCorrect` (`[]LocksReleased`): as
  long as no row was missed, every member's row is locked by a request that has
  returned from its SELECT, or is still to be locked by one that has not; two requests
  never hold the same row, so only one is past its SELECT, and who is about to lower
  the last top role has seen another member with it, whose row is locked too. A
  founding request is the only one that works without a lock, on a group that has
  nobody yet.
- `RefusedCorrect` (`[]RefusedForGood`): the row of a token that is over is never found
  again by a rotation, an extension or a touch, not even by one that read it before.
- `UseCorrect` (`[]UseIsRemembered`): what a request did not write is younger than the
  touch interval.
- `LimitsCorrect` (`[]WithinLimits`): the tests submitted or active and not revived, of
  requests that did not overlap, fit the limit they were checked against. A revived
  test stays in `revived` until it ends, and who counts finds it among the active ones,
  so nothing but a counted test adds to those that are not revived.
- `AskedCorrect` (`[]LimitsAsAsked`): an update that is alone writes what it read and
  what it was asked.

About `MCServices`' `Spec` (assumptions: `Assumptions` and, for `SchemaCorrect`,
`SchemaAssumption`). In each of the four modules,
`Frame` shows that a step of the whole is a step of the component of its part, or
leaves its variables alone:

- `RecordingCorrect`: `Spec => []RecordingKeptOnce`. `RecordingKept` and
  `RecordingSound` say for one recording which of session, browser, closing and
  completed go together: `finishing` is set by the one who takes the session out of
  the map, before its first await. `RecordingMoves` gives what one step may do to a
  recording, and the invariant is proved of those moves.
- `EditsCorrect`: `Spec => []EditsOfItself`. `ChatInv` says that every card, every
  request under way and every saved conversation that names a script is an edit
  of that script; the button reads the card, never the page.
- `FreshCorrect`: `Spec => []FreshSetting`. `CallsInv` relates three ages: a setting
  read from the rows was in force no longer ago than the fetch has taken, one in the
  cache no longer ago than the cache says plus one fetch. That is below the window
  only because a fresh entry is younger than `PROVIDER_CACHE_MS`; the theorem needs it
  to be positive (`AiCallsAssumption`), as the code's constant is.
- `SchemaCorrect`: `Spec => []StartsAndServes`. The migrations and the old databases
  are concrete, so `SchemaAssumption` is evaluated by TLC and not proved: `Places` are
  the statements and schemas that one replica at a time can be at, however often it is
  ended and started again; they are closed under its steps, no statement fails at one,
  and the last has the whole schema. What is proved is that any number of replicas stay
  within them: `InTurn` says that who has left `connected` has the lock, that the
  versions recorded are the first n, and that what the holder has to do is the rest,
  which needs that it read the versions after it had the lock.
- `AccountedCorrect`: `Spec => []Accounted`. Inductive is `AccountedInv`: the test is
  in a queue, ended or lost, or with a live handler that has more than the
  acknowledgement left, or what was sent for it is on its way. A handler sends, buries
  or retries before it acknowledges, so the acknowledgement takes nothing away; a
  restart of the broker takes what is on its way, and the test is then redelivered,
  where the message it was made from was still unacknowledged, or `lost`.
- `ComparedCorrect`: `Spec => []ComparedOnce`. `OneSource`: of a test only one request,
  message or unacknowledged delivery can still start a comparison; a retry cannot, as it
  carries the outcome. `WithinBudget` adds the comparisons made, those a handler left
  behind by its connection is about to make, and those still coming: every fault pays
  for one delivery that returns and one handler left behind.
- `ArchiveCorrect`: `Spec => []ArchivesWhatItOverwrites`. `EditInv`: at most one edit
  holds the row, the row is there, and its copy is the row's text.
- `OutputCorrect`: `Spec => []OutputCounted`. `LogInv`: a line of the log is in one
  place, the batcher, one batch under way or the viewers, and is kept. `LiveInv`: unless
  reads overlapped there is one reader, it reads from the offset, and the partial line
  is the first half of the line at an odd offset. `WholeLines` then counts every line
  once.
- `HealsCorrect`: `Spec => []StaleHeals`. `ViewInv`: unless the row was rewritten, all
  its versions but the last are not over and have no metrics; what the page was told or
  shows is one of them; missing metrics are asked for or were refused.
- `AnswersCorrect`: `Spec => []SoundAnswers`. `AskInv`: calls made and requests that
  still owe one are at most the calls counted. `StepsAre` expands the eleven routes;
  `AcceptedIsUsable`, `ValidIsUsable` and `CheckedIs` are about the checks of an answer.
- `BaselineCorrect`: `Spec => []BaselineCounts`. None of its three parts is inductive:
  `TypeSound` adds that, unless requests overlapped, one user at a time works on a type
  and it has no baseline from the clearing to the marking; `ChoiceSound` that the run to
  be marked keeps its type and its result; `HandlingSound` that a verdict saved and not
  yet announced is still the row's. `PreviousIsBaseline` shows that the lookup, which
  sorts all candidates, finds the baseline; that there is a latest candidate
  (`Greatest`) is where the order of sets by inclusion stands in for induction.
- `WiredCorrect`: `Spec => []WiredToItsSource`. `CaptureInv`: a request carries a token
  of an earlier one, and each hole has its token and its extraction (`Wired`).
  `StepOfExchange` shows what the substitution rests on: the step an index of the AI is
  taken for is that of the exchange it numbers, as kept exchanges have growing numbers
  (`NthGrows`) and all of them are kept where the index is not translated (`AllKept`).
- `LoadCorrect`: `Spec => []LoadAsAsked`, for any percents, steps and VUs. The fold that
  adds up is shown to be the number of units of what it adds (`SumIs`), so sums are
  compared as cardinalities. `Telescopes`: the users who leave at or after a step are
  its percent. `SplitSound`: the VUs cut off by rounding are, in all, no more than the
  steps that lose some (`LeftOverIs`), so that one more for each of those with most cut
  off (`SoManyLead`) gives everyone away and no step is off by more than one for each
  journey. `HighestCounted` compares the highest load with what the quota counted,
  where the parameters decide the load (`MeantFor`, `Excepted`).

Where an argument is an induction over data, as for sums, the proof takes a least
counterexample, by the well-foundedness of the order of the naturals or of the inclusion
of finite sets, and contradicts it.

Checked by TLC only:

- the liveness properties (`WorkDrains`, `Settles`, `TestsEnd`): fairness is out of the
  prover's reach.
- `MCServices.TypeOK`: each proof has the types it needs in its own invariant.

## 5. Where the code departs from its documents

- `no_start_after_cancel`: `docs/code-analysis/module-worker-backend.md` relies on
  the status check before execution. A cancel that lands after the check, and whose signal
  is consumed before the k6 process is registered, stops nothing.
- `handler_never_rejects`: the comment at worker-backend `index.ts` 374. The status
  query, the acks outside the inner try and `handleRetry` can throw.
- `dead_is_not_running`: `docs/PATTERNS/rabbitmq-consumer-dlq.md` 42. A late
  `/running` undoes the mark, and only the stale sweep repairs it.
- `fires_once`: scheduler.ts 23 and `docs/ARCHITECTURE.md` 224. The lock is held for
  the length of one firing, not of the minute.

- `baseline_of_every_kind`: `docs/api.md` 728. The run to compare with is looked up
  by the type of the metrics, the rows have the type of the test, so flows and
  client-side tests are never compared with their own baseline.

More are visible in the models and have no run:

- The "last admin" protection (`docs/ARCHITECTURE.md` 105) does not hold when members
  are added while a request waits for its locks (`TopRemains`, `missed`): A asks to
  leave and locks A's row; a demotion of C waits for it; C and D are made admins; A
  leaves; the demotion goes on with no row locked and sees D; a demotion of D sees C
  and commits first; nobody is left.
- A team's tests that run can be more than its limit without any race between requests:
  `/running` sets an ended row running (`results.ts` 115), also for the retry of an
  attempt that had released its place (`TeamQuotas.RunningArrives`).
- The row is marked failed on every failed attempt, not on the last (`NotifyFailed`
  precedes `Retry`). `removeSchedule` only stops the task of the replica that served
  the request; the others fire a deleted schedule until they restart.
- The page takes a 404 for an expired recording ("Session expired from cache",
  `FlowBuilder.tsx` 260 and 424); recorder-service also answers 404 while it finishes
  one (`index.ts` 196, 225), and the poll then gives the steps up (`Recorder.Ended`).
- A flow from the cache keeps the load it was written for, whatever VUs the new test
  asks for (`scripts.ts` 87; `docs/ARCHITECTURE.md` 13): `LoadAsAsked` makes an
  exception of it. A load that a description states is not counted at all, and is
  replaced by the parameters when the script is used again (`LoadPlan.Inject`). A peak
  that is not given counts as the VUs for the quota (`quotas.ts` 50) and as ten times
  the VUs in the script (`options.ts` 40).
- The trend narrative is refused at the limit and never counted (`ai.ts` 79-88;
  `docs/AI-FEATURES.md` 420), and thresholds and a diagnosis are paid for before it is
  clear whether there is anything to ask: `PaidFor` names both. `getAiCapability`
  reads the platform's setting where a team may have its own (`AiCalls.AskRoute`).
- A baseline whose second statement fails leaves its URL without one
  (`Verdicts.SetFails`).
- A page that is told of an end asks no more, so it keeps that status if the row is
  written again and the event is lost (`ResultView.Rewritten`).

## 6. Not modelled, and what is left

- Lists, reports, comparisons, exports: they read and change nothing.
- Workspaces, webhooks' and presets' forms, the audit log, log sources: one statement
  a request, on rows that nothing else uses.
- The screencast and the inputs of the viewer tab; Redis' fan-out of the broadcast.
- Malformed messages, and the other consumers' handling of them.
- That a channel error without a closed connection is never repaired
  (`queue.ts` 37): the models let publishes fail for as long as they like.
- Prompts, redaction, URL checks, parsing of k6's summary, PDF reports, tracing, the
  other pages, deployment files. They are text, layout or configuration, and no
  property above depends on them.

Proof to add: the refinement of the client pipeline.
