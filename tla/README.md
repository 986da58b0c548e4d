# A verification project for the background job runner

TLA+ models of the job runner in this repository, the TLC configurations that
check them on small instances, and proofs, checked by TLAPS, of what holds on
every instance. The models are written from the code; paths below are relative
to the repository.

- [The system](#the-system)
- [Modules](#modules)
- [How the models correspond to the code](#how-the-models-correspond-to-the-code)
- [Runs](#runs)
- [Fairness](#fairness)
- [Proofs](#proofs)
- [Where the code and its documents disagree](#where-the-code-and-its-documents-disagree)
- [Not modelled](#not-modelled)
- [Plan](#plan)

## The system

Users submit jobs ("tasks") on lanes. A Fastify process stores them in
PostgreSQL, executes them with in-process workers and tells browsers what
happens over server-sent events.

| Component | Where | State | Operations | What makes it correct |
|---|---|---|---|---|
| Task store | `backend/src/engine/repository.ts`, `backend/db/migrations/` | tables `tasks` and `task_events`, the partial unique index | guarded update with its event (`transition`), `claim`, two sweeps, `heartbeat`, reads | a guard that no longer holds writes nothing; a row is owned exactly while it runs |
| Handle allocation | `engine/handles.ts`, `allocateHandle` | advisory lock per user and lane | `allocateHandleAndInsert` | `lane-N` names at most one active task; a submission is never refused by a lost race |
| Runner | `engine/runner.ts` | `inFlight` (task id to controller), `ticking`, `stopped`, timers | `start`, `stop`, `tick`, `runOne`, `beat`, `reap`, `abort` | slots are not oversold and come back; late results of lost rows change nothing; abandoned work is executed again |
| Orchestration API | `engine/orchestration-engine.ts` | none of its own | `submit`, `collect`, `cancel`, `retry` and reads | a retired task never comes back; exactly one of competing requests wins |
| Event bus and stream | `engine/events.ts`, `GET /events` in `modules/task/task.routes.ts` | listeners; per connection a buffer and the ids already delivered | `publish`, `subscribe`, replay then live | nothing a client asked for is left out |
| Process lifecycle | `plugins/engine.ts`, `index.ts` | the process | start on ready, drain before close | work survives a crash or a shutdown |
| Browser feed | `frontend/src/lib/hooks/useTaskEvents.tsx` | the `EventSource` with its last id, a debounce timer | connect, reconnect, invalidate | what happens while disconnected is seen on the pages in the end |
| Workers | `engine/workers/registry.ts`, `workers/` | per job: a deadline, the hop of a redirect chain, a response body, a timer | validate parameters, sleep, scrape | a deadline and a size cap bound every scrape; nothing is left open; the slot comes back |
| Credentials | `modules/apikey`, `modules/auth`, `modules/user`, `plugins/auth.ts` | tables `users` and `api_keys`, the session cookie | sign up, in and out; create, list, revoke and verify keys | an answer is about who asked; what is revoked is gone |
| Task pages | `app/(app)/dashboard`, `components/task` | the query cache; a dialog, a mutation | list, stats, one task with its history; cancel, retry, collect | a page shows what the table says; an action reaches the task it was meant for |
| Session in the tab | `AuthAware`, `TopBar`, `app/login`, `app/(app)/keys` | cache entries of the user and of the keys, redirects under way | guard pages, sign in and out, manage keys | nobody sees another user's keys; signed out stays signed out |
| The rest of the frontend | `frontend/src` | snackbar queue, theme | rendering, the submission form | |

How they interact. Routes call the engine facade, which calls the runner and the
store. The runner polls the store; every state change is one transaction that
updates a row under a guard and inserts an event. After the commit the event
goes to the in-process bus and from there to the open streams. Several processes
may share one database (the configuration allows it with the boot sweep off);
they coordinate only through rows: status, `runnerId`, `leaseUntil`.

What is hard about it: every handler awaits the database between its steps, so
anything may happen in between; what was read before an await is used after it;
a process may crash, stall or shut down at any await; answers of the database
may be late or lost; leases and timeouts race the work they guard; numbers are
reused while late results of their former holders are still on their way. In the
browser the same holds for a cache that is filled by requests which overtake
each other, while the session they are sent under changes. The
hazards are listed, each at its line, in `PROJECT.json`.

## Modules

| Module | What it is |
|---|---|
| `TaskLifecycle` | The abstract specification: what a caller can see of a task's life. A task is accepted under a number no active task holds, started, put back, finished, reopened, collected or cancelled. |
| `TaskStore` | The `tasks` table as a value: rows, the index predicate, the patch of every statement, the WHERE clauses of the statements that touch many rows. |
| `HandleNumbers` | The number the allocation query computes. |
| `Engine` | Runner processes and API requests over the table. The core of the project. |
| `EngineProperties` | What is expected of `Engine`: invariants, action properties, the refinement mapping to `TaskLifecycle`, fairness, liveness. |
| `MCEngine` | Symmetry for the engine runs. |
| `HandleAllocation` | The allocation transaction statement by statement under READ COMMITTED, with its retry loop; also a refinement of `TaskLifecycle`. |
| `EventStream` | Event rows, commits, publication, and one client of `GET /events` that loses its connection. |
| `LeaseTiming` | The lease of one claimed row against the heartbeat that renews it, under a clock. |
| `Attempt` | One attempt under the same clock: `runOne` with its backstop, and the handler it races, a mock's sleep or a scrape. Extends `LeaseTiming` and implements it. |
| `TaskScreens` | A browser that watches tasks: the stream, the query cache, the dashboard and the page of one task with its actions, over `TaskLifecycle`. |
| `Accounts` | One tab, the session cookie and the server: who is signed in, which page shows, and the API keys. |
| `MCAccounts` | Symmetry for the run of `Accounts`. |
| `EngineProofs` | Theorems about `Engine`: types, rows, handles, `inFlight`. |
| `EngineBounds` | More theorems about `Engine`: slots, budgets, and which process may take a row from which. |
| `EngineRefinement` | `Engine` implements `TaskLifecycle`. |
| `HandleAllocationProofs` | Theorems about `HandleAllocation`. |
| `EventStreamProofs` | Theorems about `EventStream`. |
| `AttemptProofs` | The lease of `LeaseTiming` is held; theorems about `Attempt`, and that it implements `LeaseTiming`. |
| `TaskScreensProofs` | What the pages show is so. |
| `AccountsProofs` | Theorems about `Accounts`. |

`Engine` takes a submission as one step; `HandleAllocation` takes that step
apart, and both implement the same `TaskLifecycle`, where it is `Accept`.
`Engine` leaves events out, because nothing the engine decides depends on them;
`EventStream` leaves tasks out for the same reason. `TaskScreens` takes
everything outside its browser from `TaskLifecycle`: what the engine and the
allocation are shown to implement is what the pages are shown to follow.
`Engine` lets no lease lapse while its process beats; `LeaseTiming` says what
that takes of the configured times, and `Attempt` that `runOne` and its handlers
leave the heartbeat its part. In the other direction, `Engine` lets a worker
return anything at any time, and `Attempt` takes two workers apart.

In every module an operator placed right before a similar one is a mutated form
of it (a dropped guard, a forgotten column). No definition uses them. They are
put in the place of the original to see that the properties notice.

## How the models correspond to the code

### Engine

State:

- `rows`: the table. Timestamps are abstracted to what statements compare them
  with: `due` is `runAfter <= now()`, `lease` is `leaseUntil` being NULL, in the
  future or in the past. `createdAt` is the order of the task numbers. All tasks
  belong to one user and, but for `Unserved`, one lane: nothing in the claim
  loop looks at either. `isSeed` rows, which no statement of the engine touches,
  are left out.
- `run[t][k]`: the call of `runOne` for the `k`-th attempt at `t`. Its `pc` is
  the await it is at: `replying` (the claim has committed, `tick` has not
  resumed), `starting` (`recordStarted`), `working` (the race of worker and
  timeout), `settling` (the outcome's transaction), `closing` (about to enter
  `finally`). `aborted` is the signal of its controller, `timedOut` the local
  variable, `caught` whether it is in the catch block. An attempt number is
  used once, because a claim increments `attempts` and nothing resets it.
- `inFlight[r][t]`: the map of process `r`, from task id to the attempt whose
  controller it holds.
- `phase[r]`: the life of a process. A restart is another runner id, as in the
  code, where a process draws a random one.
- `req[c]`: the `cancel` or `retry` a client waits for, at which process it
  runs, and the `attempts` it has read.
- `allowance`, `recovered`, `mishaps`: history. The first counts the executions
  the submission and manual retries granted a task, the second how often a sweep
  or a lost answer of the database put it back; the third bounds stalls and
  faults.

Steps. One action per stretch of code between two awaits, so every interleaving
of handlers is a behaviour:

| Code | Actions |
|---|---|
| `start` | `Boot`: the sweep commits before any timer exists |
| `stop` | `Stop` (timers off, everything in flight aborted), `Drained` |
| process exit, crash | `End` |
| `tick` | `Claim` (slots counted, claim committed), `ClaimLost` (it commits, but the reply is lost and the catch logs it), `Deliver` (controllers registered, runs started) |
| `runOne` | `CallWorker`, `NoWorker`, `WorkerReturns`, `Timeout`, `Settle`, `StartFails`, `SettleFails`, `Finally` |
| `beat`, `reap` | `Beat`, `Reap` |
| time | `LeaseLapses`, `LeaseStarves`, `BackoffElapses` |
| `submit`, `collect` | `Submit`, `Collect` |
| `cancel` | `BeginCancel` (the lookup), `CancelQueued`, `CancelRunning`, `CancelFailed`, `Abort`, `Refuse` |
| `retry` | `BeginRetry` (the lookup), `WriteRetry` |
| a request's statement fails | `RequestFails` |

Abstractions a reader should know of:

- The slots are counted and the claim commits in one step, and `beat` and `reap`
  read `inFlight` in the step of their statement. In between only entries of the
  same process change: runs that end, which can only free slots or shorten the
  list, and a claim that is delivered.
- `SKIP LOCKED` leaves out rows that another transaction is writing. As every
  transaction is one step here, leaving such a row out is the claim before or
  after that transaction.
- A claim that finds nothing and a sweep that finds nothing are stuttering.
- `Collect` is one step: what its lookup read is only used to word the error.
- A lease lapses only when the process that owns the row does not beat for it
  (it is gone, it is draining, or the entry is lost), except in `LeaseStarves`,
  a stall, which is bounded. The configuration asks for a heartbeat well below
  the lease.
- A worker may return anything at any time, or never.

### HandleAllocation

Each submission goes through `Begin` (which fixes `createdAt`), `LockLane`,
`Pick` (the WITH part of the INSERT, on the statement's snapshot of what is
committed), `Insert` (which waits for an uncommitted row with the same index
entry, and fails with 23505 in `LoseRace` on a committed one) and `Commit`.
`Fail` is any other database error, which the loop does not retry. `Retire`
stands for collect or cancel of an accepted task. `useLaneLock` is chosen once:
production always takes the lock, one test of the repository turns it off.

### EventStream

An event takes its id from the sequence at its INSERT (`Insert`), its
transaction ends (`Commit`, `Abort`), and the process publishes it
(`Publish`). The request subscribes and buffers (`Connect`), reads the replay
(`Query`), and, with no await in between, writes the replay, the buffer without
what the replay had, and goes live (`Reply`). `Receive` moves the client's
cursor to the id of the frame, as `Last-Event-ID` does. `Disconnect` loses what
is on its way; `Crash` also rolls back open transactions and leaves committed
events unpublished. Events are of one user; their contents are left out.

The client starts with a cursor of `FirstCursors`: 0 asks for everything there
is, and `MAX_SAFE_INTEGER`, which the browser sends and which the model takes for
one past the last id, for what comes from its first connection on (`listening`,
`owed`). The rows of a replay in ascending order, its cut at the limit, and the
buffer without what the replay had are described by ranks (`Rank`, `Ascending`,
`Without`), so that they can be proved about.

Two histories separate the promise the code keeps (`NothingLeftOut`) from the
one its description makes (`ReceivesWhatItMissed`). `overtaken` names the events
that some later id was taken beside, while they were open or unpublished.
`skipped` names the rows a replay left out at its limit, and what settled while a
client that has never received a frame had no connection, or was lost with it.

### LeaseTiming and Attempt

Times are what is left of them: until the lease lapses, the heartbeat's timer
fires, the statement under way has its effect, the backstop or a deadline
fires, a lookup answers, a sleep ends. `Tick` passes a unit of time and is not
enabled past anything that is due, so timers fire when they are due, in any
order among those due at once. No clock has to be bounded.

| Code | Actions |
|---|---|
| claim, `tick`, `beat`, `heartbeat` | `Claimed`, `Deliver` (`Called`), `Beat`, `Renew` |
| `runOne` | `Start` (the backstop armed, the handler called), `StartFails`, `TimeOut`, `Settle`; what a handler's promise does to the race is `Ends` |
| `abort` | `Cancel` |
| `mock-worker.ts` | `Wake`; the abort of a sleep is in `TimeOut` and `Cancel` |
| `guardUrl` | `Guard` up to the lookup, `Resolve` after it |
| `follow`, `scrape` | `Fetch`, `Drop` (the body of an answer that will not be read is cancelled), `Redirect`, `Reject`, `Accept`, `Finish` |
| `readCapped` | `Chunk` |
| `classifyThrown` | `Interrupted` |

A URL is a kind of address, a name to look up, or one of the ways `guardUrl`
refuses it before that; what a redirect names is any of them. A page is a number
of bytes. A handler that finishes and what `runOne` makes of it are one step,
because no timer can fire in between. A lookup answers within `MaxLookup` or
never: `guardUrl` passes it no signal. A request or a body that does not come is
ended by the deadline. The body of a redirect or of an answer with an error
status is open from the answer on, in `Drop`, until `follow` or `scrape` cancels
it. What is extracted from a page, and the texts of errors, are left out.

### TaskScreens

The tasks change by `Change`, any step of `TaskLifecycle`, and each change sends
an event to a stream that is open. `stream` and `timer` are what
`useTaskEvents` keeps; `cache` holds, per query, the data, whether it is
invalid, whether the last request failed, and where a fetch stands: a request is
`sent`, takes its answer from the table in `Read`, and arrives in `Load`, with
anything in between. `act` is the action the user takes on the task of the page.

| Code | Actions |
|---|---|
| `useTaskEvents` | `Open`, `StreamLost`, `Deliver`, `Flush`; the cleanup is in `SignOut` |
| generated hooks over the query client | `FetchOnMount`, `Read`, `Load`, `FetchFails`, `Retry` |
| pages | `SignIn`, `SignOut`, `Navigate` |
| `TaskActions` | `OpenConfirm`, `CloseConfirm`, `SendAct`, `ShowConflict`, `Refresh` |
| the routes behind them | `ServeAct`, `RefuseAct`, `LoseAct` |
| `applyUpdate` | `ApplyUpdate` |

The query library (TanStack Query 5) is not in the repository; the model has
what the code leans on. A fetch that is asked for while one is under way
joins it if it is the first and restarts it otherwise; a query nobody observes is
only marked; a page that goes cancels its reads; data older than `staleTime` is
fetched again at the next mount only. Eviction after `gcTime` is left out, which
only adds first loads. One action is under way at a time, as the disabled
buttons have it, also where a page was left and opened again meanwhile. `missed`
is history: it marks an entry whose first load was under way when the cache was
told to refetch, and which may therefore be older than the last event.

### Accounts

`cookie` is the session the browser would send, `me` and `list` the cache
entries of `GET /auth/me` and `GET /keys`, each with the fetch under way: asked,
answered, applied. Mutations go through the same three steps. The effects of
`LoginPage` (`LeaveLogin`), `AuthAware` (`TurnAway`) and `onSession` (`Land`) are
actions of their own, since a router transition leaves time for answers in
between; what mounts and unmounts with a page is in `Render`, a part of every
step that changes a page or the user. Submissions of the form do not wait
for each other: the button waits for the mutation of its mode, but `switchMode`
(`login/page.tsx:102-108`) and a remount begin with fresh ones, and the
`onSession` of a submission outlives its form. Each has its own request,
answer and landing (`SubmitForm`, `ServeSignIn`, `ApplySignIn`, `Land`). A
sign-out takes nothing from the server, which keeps no sessions: the answer
takes the cookie away (`SignOutSettles`). `Reload` is the hard navigation of
`api-client.ts` on a 401. Every request may fail on either way. `keys` stands for
the pages behind `AuthAware`; the links between them and the public home page
are `Visit`.

Two simplifications. `ApplySignOut` clears the cache and mounts the login page at
once; `router.replace` is a transition, during which the page that is still
mounted renders the last result it had, so `SignedOutStaysOut` says nothing of
that window. And one `create` and one `revoke` are under way at a time, also
across remounts of the keys page, where the code would give each mount its own.

`outlived` is history: a sign-out failed while the browser had a session, or an
answer signed somebody in over another user whom the tab knew of or, on the home
page, was about to hear of (`Supplants`). Overlapping submissions are how the
second comes about. In such a tab the cache may hold what belongs to the earlier
user: `onSession` replaces the user and nothing else. `ListIsOwn` leaves these
out and the [list](#where-the-code-and-its-documents-disagree) of disagreements
tells them.

## Runs

| Run | Instance | States | Shows |
|---|---|---|---|
| `engine_single` | 2 tasks, 2 lives of one process, 1 slot, 1 client that cancels or retries, crashes, graceful shutdowns, a lane without worker | 422 thousand | `UniqueActiveHandle`, `SlotsNotOversold`, refinement of `TaskLifecycle` |
| `engine_recovery` | 1 task, 2 processes that share the table, 2 slots, 2 attempts, 3 claims, cancel, crashes, one stall or database fault | 478 thousand | `OwnershipMatchesStatus`, `ErrorMatchesStatus`, `NoGhostEntry`, `BudgetRespected`, `SweepsSpareTheLiving`, `RetiredForever`, `RivalsAreRecovered` |
| `engine_liveness` | 1 task, 2 processes, 1 slot each, cancel, crashes, one stall or fault, up to 4 claims | 83 thousand | `EveryTaskSettles`, `SlotsComeBack` |
| `allocation` | 3 submissions at once, with and without the lock | 28 thousand | `UniqueAmongActive`, `LockSparesRetries`, `AttemptsSuffice`, `NumbersAreConsecutive`, refinement, `EveryCallReturns` |
| `event_stream` | 3 events, a client that asks for everything or for what comes, a replay of at most 2 rows, 2 losses of connection or process | 66 thousand | `NothingLeftOut`, `HandoverSendsOnce`, `EventsArrive` |
| `attempt` | one attempt of either lane; lease 8, heartbeat 3, statements up to 2, backstop 6, deadlines 1 to 3, lookups 2 or never, sleeps up to 7 | 326 thousand | `LeaseHeld`, `BackstopIsLastResort`, `NothingLeftBehind`, `RequestsAreWanted`, refinement of `TimingSpec`, `SlotComesFree` |
| `task_screens` | 2 tasks and 1 number, one page visited, the list, the stats, the history, or the task with its probe, 1 execution of the shown task, 1 event on its way | 176 thousand | `QuietMeansFresh`, `ReclaimedIsTrue`, `ActionsAddressShown`, `PageCatchesUp` |
| `accounts` | 2 users, 1 key, 2 submissions of the form, 2 mutations under way at once | 951 thousand | `ListIsOwn`, `RevokedIsGone`, `SignedOutStaysOut` |

Four more runs (`engine_retry_budget`, `engine_lease`, `event_stream_overtaken`,
`session_expiry`) each check one statement of a document that the code does not
keep; see [below](#where-the-code-and-its-documents-disagree).

Why the bounds are enough. Rows interact through handle numbers and slots only,
and two tasks for one slot, with numbers freed and reused, show every such
conflict; what happens to one row is independent of the others, so the runs
about recovery have one task and spend their states on processes. Two
processes are enough for a row to be lost to another one and to be won back.
Three claims let a stale run of an attempt meet a later attempt, also in the
same process, and let a task use up its budget of two and be swept once more.
`SweepsSpareTheLiving` was run with four claims and a budget of three as well
(382 thousand states, without cancel).
Shutdowns are in `engine_single`; with them and a third claim, `engine_recovery`
has more states than a check should take, and a process that drains is, to the
other one, a process that no longer beats. `MaxMishaps` is 1: what is won back after one stall or fault is in the
state of a fresh claim but for history. `MaxClaims` is 4 for liveness so that the
bound on claims is never what stops a task: at most two attempts are budgeted,
one crash per process and one stall add the others. One slot per process keeps
a task from being claimed again by a process that still runs an older attempt at
it; with two slots such repetitions use up the claims the bound leaves. The safety runs may end in
a state where it does stop one, and processes may all be dead, so deadlock is
not checked for the engine; in the other models every submission returns and
every event is written, and then the model ends. Three submissions let one lose
two races. Three events and a replay of two rows let a replay be cut, and two
losses let a client lose one connection before its first frame and one after.

In `attempt` the times keep the order of the shipped ones (heartbeat well below
lease, deadline and lookup below the backstop, a sleep of the backstop's
length and longer) and are small. The backstop is below the lease only to keep
the instance small; a handler stuck in a lookup outlives both.
`task_screens` follows one group of queries per behaviour: queries do not affect
each other, except that the probe is keyed by the row of its task. A second
task is enough to take the number of the first, and runners leave it alone
(`Worked`), so that it is accepted and cancelled only; a second event on its way
adds a timer that starts over, which is the same state. `accounts` has two users to
tell answers apart and two submissions of the form, so that one follows
another's session or overlaps it; sign-outs, expiries, requests and their
failures are unbounded. Mutations have one bound together, `MaxAtOnce`, which is no
guard of the code: two submissions at once, or a create, a revocation or a
sign-out beside each other or beside a submission, each of them beside both
queries. Without it the run has 3.7 million states and
takes longer than a check should; it ended without an error. A third submission would be needed to leave an answer
about one user under way on the home page while two more sign in; `ListsAreOwn`
covers it. Without `Supplants`, two submissions are enough for TLC to
find one user's keys under another's name.

`BudgetRespected` compares `attempts` with a history variable. A sweep may grant
an execution beyond `maxAttempts`, because a reclaimed row is claimed again
whatever its attempts; the code has no other bound, and the property says that
nothing else grants more: submissions and manual retries grant
`config.maxAttempts` (`allowance`), each sweep one, and a lost answer of the
database one (`recovered`). Its run has no retries, which take another budget and
more claims; for them the theorem `BudgetsHold` speaks, and what a stale retry
grants is the subject of `engine_retry_budget`.

`RivalsAreRecovered` is about the guard of `settle`, which compares the owner and
not the attempt: an older attempt of the process that owns the row can settle
it. The property bounds how many such attempts there are by what made
them. With two processes, two slots and three claims an attempt can be swept,
its process claim the task again, and the older attempt settle last.

## Fairness

`EngineProperties!Fairness` assumes that the timers of a process that is up
fire (`Claim`, `Reap`; each is re-armed by `setInterval` whatever the last call
did), that the database answers (`Deliver`, `CallWorker`, `NoWorker`, `Settle`,
the requests' statements), that the timeout of a job fires (`Timeout`, a
`setTimeout`), that code without an await runs on (`Finally`), and that time
passes (`LeaseLapses`, `BackoffElapses`). All of it is weak: each of these stays
enabled until it happens. Nothing is assumed of workers, who may hang for ever,
of clients, of heartbeats, or of dead processes being replaced; that some
process stays up is a premise of `EveryTaskSettles`.

`HandleAllocation!FairSpec` assumes that each submission, as long as it can do a
step, does one. A wait for the lock or for an index entry is a step that is not
enabled; that it ends is what `EveryCallReturns` shows.

`Attempt!Spec` assumes that something happens as long as something can: `Tick`
is not enabled while a timer, a statement or a bounded lookup is due, so time
goes on only when it has had its turn. Nothing makes a lookup answer that never
does, nor a cancel come.

`TaskScreens!FairSpec` assumes that a stream is opened again, frames arrive, the
debounce timer fires, and a query that is to be fetched is asked, read and
loaded. The last is, per query, weak fairness of the three together, since a
fetch may be restarted between any two; it may fail instead, which
`PageCatchesUp` allows, and be retried for ever. Nothing is assumed of tasks, nor
of users, except that they press the Refresh button of the alert only while
nothing is being fetched: pressed for ever during a fetch, it would restart it
for ever. A stream that is lost again and again meets the conclusion of
`PageCatchesUp`, which is about streams that stay open.

`Accounts!FairSpec` assumes that every request, each submission of the form by
itself, is answered or fails, and strong
fairness of the two effects that redirect: an effect runs after the render that
calls for it, even if a later answer would not. It is used by `session_expiry`
only, where without it the tab might just never redirect.

`EventStream!FairSpec` assumes that transactions end, replies and frames
arrive, and the browser reconnects. Losses are bounded by `MaxDrops`, so in the
end a connection holds.

## Proofs

| Theorem | Statement |
|---|---|
| `EngineProofs!TypeCorrect` | `Spec => []TypeOK` |
| `EngineProofs!RetiredRowsStay` | `Spec => RetiredForever` |
| `EngineProofs!OwnersMatch` | `Spec => []OwnershipMatchesStatus` |
| `EngineProofs!ErrorsMatch` | `Spec => []ErrorMatchesStatus` |
| `EngineProofs!HandlesAreUnique` | `Spec => []UniqueActiveHandle` |
| `EngineProofs!NoEntryIsLeft` | `Spec => []NoGhostEntry` |
| `EngineRefinement!EngineRefines` | `Spec => ImplementsLifecycle` |
| `HandleAllocationProofs!TypeCorrect` | `Spec => []TypeOK` |
| `HandleAllocationProofs!UniqueNumbers` | `Spec => []UniqueAmongActive` |
| `HandleAllocationProofs!NoRetryUnderLock` | `Spec => []LockSparesRetries` |
| `HandleAllocationProofs!RetriesSuffice` | `Spec => []AttemptsSuffice` |
| `HandleAllocationProofs!NumbersInARow` | `Spec => []NumbersAreConsecutive` |
| `HandleAllocationProofs!AllocationRefines` | `Spec => ImplementsLifecycle` |
| `HandleAllocationProofs!NoCircularWaits` | `Spec => []WaitsEnd` |
| `HandleAllocationProofs!SerialLookups` | `SerialSpec => []LookupFindsHolder` |
| `EngineBounds!SlotsAreNotOversold` | `Spec => []SlotsNotOversold` |
| `EngineBounds!BudgetsHold` | `Spec => []BudgetRespected` |
| `EngineBounds!RetriesGrantNoMore` | `Spec => [][RetryIsBounded]_vars` |
| `EngineBounds!TheLivingAreSpared` | `Spec => SweepsSpareTheLiving` |
| `EngineBounds!RivalsRecovered` | `Spec => []RivalsAreRecovered` |
| `EngineBounds!OnlyRecoveredAreSettledByAnother` | `Spec`: a run that settles an attempt other than its own does so on a task with `recovered` above 0 |
| `AttemptProofs!LeaseIsHeld` | `TimingSpec => []LeaseHeld` |
| `AttemptProofs!AttemptTyped` | `Spec => []TypeOK` |
| `AttemptProofs!AttemptLeavesNothing` | `Spec => []NothingLeftBehind` |
| `AttemptProofs!AttemptRequestsWanted` | `Spec => []RequestsAreWanted` |
| `AttemptProofs!BackstopLast` | `Spec => []BackstopIsLastResort` |
| `AttemptProofs!AttemptKeepsTiming` | `Spec => TimingSpec` |
| `AttemptProofs!AttemptHoldsLease` | `Spec => []LeaseHeld` |
| `EventStreamProofs!TypeCorrect` | `Spec => []TypeOK` |
| `EventStreamProofs!HandoverIsOnce` | `Spec => HandoverSendsOnce` |
| `EventStreamProofs!NothingIsLeftOut` | `Spec => []NothingLeftOut` |
| `EventStreamProofs!ShortBlipLosesNothing` | `Spec => []BlipLosesNothing`, if `FirstCursors = {0}` and `MaxEvent <= ReplayLimit` |
| `TaskScreensProofs!TypeCorrect` | `Spec => []TypeOK` |
| `TaskScreensProofs!QuietPagesAreFresh` | `Spec => []QuietMeansFresh` |
| `TaskScreensProofs!ReclaimedHandlesAre` | `Spec => []ReclaimedIsTrue` |
| `TaskScreensProofs!ShownIsAddressed` | `Spec => []ActionsAddressShown` |
| `AccountsProofs!AccountsTyped` | `Spec => []TypeOK` |
| `AccountsProofs!RevokedKeysGone` | `Spec => []RevokedIsGone` |
| `AccountsProofs!SignedOutStays` | `Spec => []SignedOutStaysOut` |
| `AccountsProofs!ListsAreOwn` | `Spec => []ListIsOwn` |

They hold for any number of tasks, processes, clients, claims and mishaps, any
concurrency and any budget; any times, sizes and redirects; any number of events
and lost connections, and any limit of the replay; any users, keys and
pages. The assumptions are the ones on the constants that
the modules name: `StoreAssumption` (tasks and handles are numbers, no process
is called NULL), `EngineAssumption` (positive concurrency, budget and bounds,
Boolean switches), `AllocationAssumption` (finitely many submissions, positive numbers and
attempts), `TimingAssumption` (the heartbeat and
two statements fit into the lease), `AttemptAssumption` (the longest deadline and
the longest lookup that answers fit below the backstop), `ScreensAssumption`
(room for an event on its way), `StreamAssumption` (a first cursor of 0 or past the last
id, a positive limit of the replay) and `AccountsAssumption` (names are not markers).

The argument about the engine has three layers.

1. Types. `TypeOK` alone is not inductive: `Settle` writes the outcome a run
   carries into the row, so a run that settles must have one. `Typed` adds that.
2. Rows. `StepKinds` sorts the actions by what they do to the table: a step
   claims rows, sweeps running rows, renews leases, submits one, or runs one
   guarded statement on one row. `StepsFollow` turns that into a relation per
   row, `MayBecome`, which says what a row may turn into. From there on no proof
   looks at processes or requests again: `RowsSound` (owner and lease exactly
   while running, error and status agree, an absent row is blank) is preserved by `MayBecome`; a
   retired row may only become itself; and an active row keeps its number,
   so only a submission can give out one, and it looks at `HandlesInUse`.
3. Runs. `NoGhostEntry` is not inductive: a claim and a `finally` must not meet
   on one attempt number. `RunsSound` adds that an attempt number above the
   row's `attempts` has never been used, so that a claim always starts a fresh
   run, and that the map has an entry only for attempts of its own process.

`EngineBounds` stands on these. Every step relieves processes or is a claim
(`StepsRelieve`): only a claim makes runs and, later, entries of `inFlight`.

- Slots: a claim takes the oldest rows that fit (`OldestFit`, which rests on
  finite sets having a largest member), and until it is delivered nothing else
  is taken on, so `Busy` never outgrows the concurrency.
- Budgets: `BudgetInv` counts what a row may still come to. A run read its
  `maxAttempts` when it was claimed, a retry its `attempts` when it was looked up, and both
  may be stale when they are used; so the invariant adds to the row's worth the
  runs that may yet requeue it (`Pending`), and says that what a retry has seen
  is not ahead of the row (`SeenInv`). A claim spends what a queued row is worth,
  a settle what a pending run is, and a sweep or a retry is granted what it adds.
- Rivals: `SpareInv` counts the unsettled runs of a row but the one it is at, and
  that one too once the row has been given back. A claim adds none, because the
  run it starts is the one the row is then at. A run that settles its own attempt
  is gone when the row is given back; one that settles another's leaves that one
  in its place. Only a sweep or a lost answer gives a row back from a run that
  goes on, and `recovered` counts these. That a run settles a
  later attempt only of a task that was recovered follows at once.
- Sweeps: while nothing stalls, a row that its process looks after has a lease
  in the future (`AttendedInv`), and a process that has not started has nothing
  to look after (`UnbornInv`). `WayBack` lists how a running row comes back to the
  queue, and both sweeps are ruled out.
- Retries: `SeenInv` again. The new budget counts from attempts that are not
  ahead of the row's, so a retry may grant less than a fresh budget, which is what
  `engine_retry_budget` shows, and never more (`RetriesGrantNoMore`).

The refinement uses the first two layers: each kind of step maps to one step of
`TaskLifecycle` or changes nothing a caller sees. `Start` and `PutBack` take
sets of tasks because a claim and a sweep do.

For the allocation, `TypeOK` carries the fact that a number is held exactly
from its pick on; `UniqueNumbers` needs that two index entries for one number
never coexist, whether committed or not, and `NoRetryUnderLock` that whoever is
between the lock and the commit holds the lock, so that the number it picked is
still free at its insert. Without the lock somebody may lose, but every loss is
paid for by somebody else: `LossesAreEarned` says that as many other submissions
have committed as tries were lost, and that a picked number is refused only if
one more has committed since the try began, so that with as many attempts as
submissions nobody gives up (`RetriesSuffice`). `NoGaps` says that until a task
is retired the numbers in use are the first ones and everything below a picked
number is among them (`NumbersInARow`).
The lock and the index cannot block each other (`NoCircularWaits`): whoever holds the lock
is the only one with an entry in progress, and without the lock only those wait who
have no entry yet. `SerialLookups` is about the behaviours in which a transaction begins only while
no other is open on the lane, as when a client waits for each answer. There the
open transaction is the one that began last, so a row that is committed is later
than whatever had its number before (`LatestHolds`), and a lookup by handle finds
the holder. It delimits what is said of `LookupFindsHolder`
[below](#where-the-code-and-its-documents-disagree).

For the lease, `Covered` says in each phase that what is left covers the way to
the next renewal: right after the claim, the rest of the delivery, a whole
heartbeat and a statement; in `inFlight`, the rest of the heartbeat and a
statement; during a renewal, the statement. The first line is where the second
`Delay` of the assumption comes from: a beat that fires just before the claim is
delivered does not renew it.

For an attempt, no promise is inductive by itself. What is left behind is: a
body is open only in the reading or the dropping of it, a timer or listener only in the sleep
(`Registered`). The backstop needs arithmetic between clocks that run down
together (`Race`): a sleep and the backstop were set in one step, so they differ
by what they were set to; a scrape has, until its deadline, the distance from
deadline to backstop to spare, and after it can only be in the lookup that was
under way then. `AttemptKeepsTiming` maps each action to one of `LeaseTiming` or
to a stutter, and the lease follows from `LeaseIsHeld`.

For the pages, the invariant is about one query at a time. When the browser has
heard of every change and passed it on (`Informed`), an entry's data, or the
answer on its way to it, is the present answer, unless the entry is marked
(`Current`); an invalidation leaves every entry marked or being fetched anew
(`Doubted`); and what is fetched again is marked for as long (`Reasoned`), so
that cancelling the fetch does not lose the mark. The two properties about handles rest on
an order: who holds a number only ever becomes newer, so an old answer about it
is a lower bound.

Their types are not inductive either: a fetch is under way only for a query that
the page observes, and an entry is marked only if it has been loaded. `Typed`
adds the shape of entries and answers, and that every action which makes a fetch
or a mark does so for such an entry.

For the event stream, the sequences come first. `Rank` counts the members of a
set up to one of them; ranks grow with the members and are all taken
(`RankTaken`), so `Ascending` lists each member once and in order, `Without`
keeps the order of what it keeps, and a query returns the oldest rows
(`QueryRows`). These are facts about cardinalities and need no induction.

- `ConnectionOK` says what each phase has collected, and that neither the replay
  nor the buffer has an event twice; `Reply` takes from the buffer what the
  replay had, so it sends each once (`HandoverIsOnce`).
- `WritersInOrder`: an id that was not overtaken was out of its writer's hands
  before the next id was taken, so what becomes due is later than anything
  due so far.
- `ClientOK` and `FramesInOrder`: what is due is received or still coming, on
  this connection or by the next replay; what has been received leaves out nothing
  due before the cursor, and no frame runs ahead of an earlier event that is due.
  That is why a lost connection loses nothing: the next replay starts at the
  last frame received, and what is due and not received is above it.

`StreamInv` is the conjunction, and in a live stream it is `NothingLeftOut`.
`ShortBlipLosesNothing` adds that a client which starts from 0 and whose replays
reach everything has nothing skipped (`NothingSkipped`). That is not the browser
that ships, whose first cursor is `MAX_SAFE_INTEGER`: with another first cursor
the comment of `useTaskEvents.tsx` quoted below would hold, but for events
written side by side.

For accounts: after a sign-out neither the cookie, the cache nor an answer under
way names a user (`OutInv`); dialogs and callbacks belong to a page that shows
(`PageInv`); answers that have come were given after what the page was told
(`GoneInv`); and, while no session outlived the tab's idea of it, the cookie, the
cached user and the answer about the user agree wherever two of them exist, and
with nobody known to be signed in nothing that is under way finds a session
(`OwnInv`).

Only model-checked: liveness, that is `EveryTaskSettles`, `SlotsComeBack`,
`EveryCallReturns`, `EventsArrive`, `SlotComesFree` and `PageCatchesUp`, because
TLAPS does not reason about fairness and ENABLED in the version used. Every other
property of a passing run is the statement of a theorem. Of `EveryCallReturns`,
`NoCircularWaits` proves the part that needs no fairness.

## Where the code and its documents disagree

Four runs end in a counterexample each.

| Run | The document says | The run shows |
|---|---|---|
| `engine_retry_budget` | `engine/types.ts:285`: retry gives "a fresh attempt budget" | The new budget is computed from `attempts` read before the update. If another retry was granted and used up in between, the second retry grants no attempt beyond the one a claim always makes. |
| `engine_lease` | `README.md:103`: the lease of a claim is "refreshed by a heartbeat while the job runs" | `finally` deletes `inFlight` by task id. An attempt that times out is settled, and the answer to that transaction is slower than the backoff (or a manual retry, which has none): the same process claims the task again, and then the old attempt enters its `finally` and removes the new attempt's controller. The lease is not renewed from then on, a cancel does not reach the worker, and the slot counts as free. |
| `event_stream_overtaken` | `task.routes.ts:301-303`: a reconnecting client "receives exactly what it missed" | An event that commits after a later id was delivered is below the cursor of the next replay. |
| `session_expiry` | `api-client.ts:38-39`: "a session that expires mid-use should land the caller on /login" | The session expires while `me` is cached, and `me` is fetched again (the network was away, or the page was left and opened). The 401 stands in the entry beside the old data. `AuthAware` goes by the error and redirects to `/login`; `LoginPage` goes by the data and redirects to `/dashboard`; and so on, as long as nobody signs out or the requests get the same answer. A refetch on each mount keeps the error in place. |

Seven more are definitions of the modules which TLC refutes within seconds when they
are given as INVARIANT or PROPERTY on the instance named; no run is kept for
them.

| Definition | The document says | What happens |
|---|---|---|
| `EngineProperties!CancelStopsWorker`, on `engine_lease.cfg` with `Requests = {"cancel"}` | `engine/types.ts:278`: cancel "actually stops its worker if one is running here" | A task that is cancelled after its claim has committed and before `tick` has resumed has no controller yet. It is cancelled in the table, and then handed to a worker with a signal nobody aborts. |
| `EngineProperties!DrainFinishesJobs`, on `engine_lease.cfg` with `Mishaps = {"stop"}` | `README.md:106`: "On shutdown in-flight jobs finish first" | `stop` aborts them. A worker that returns a result during the drain has it thrown away, and the row stays `running` until a sweep. The comment on `stop` itself says so. |
| `EngineProperties!RunsOnceAtATime`, on `engine_lease.cfg` with `MaxClaims = 3` | `README.md:109`: a job can run twice "if a process dies after the work completes" | No process dies. Once the `finally` of an older attempt has removed the controller of a newer one, as in `engine_lease`, the lease lapses, the process reaps its own row and claims it again while the newer attempt's worker is still running. With more claims another process may be the one: the guard of `settle` is on the process, not on the attempt, so an older attempt of the owner can put the row back in the queue from under a newer one. |
| `HandleAllocation!LookupFindsHolder`, on `allocation.cfg` | `task.routes.ts:164`: a handle "Resolves to the active task holding that number" | `createdAt` is the start of the transaction. A submission that waited for the lock is older than the one it waited for; once that one is retired and its number reused, the lookup finds the retired task. |
| `EventStream!BlipLosesNothing`, on `event_stream.cfg` with `FirstCursors = {4}` and `ReplayLimit = 3` | `useTaskEvents.tsx:89-90`: "nothing missed during a blip is lost" | A connection lost before its first frame leaves no `Last-Event-ID`, and the next one starts past the end again. The pages recover all the same, as `task_screens` shows, because every stream that opens refetches; the toasts do not. |
| `TaskScreens!ActsOnShownTask`, on `task_screens.cfg` | `task-handle.ts:20-24` with `[id]/page.tsx:44-45`: an active row is "still the task its own handle addresses" and "needs no probe" | The row is a cached one. Another client retires the task, a newer one takes the number, and until the page has refetched, its buttons cancel, retry or collect the newer task. |
| `Attempt!PrivateIsRefused`, on `attempt.cfg` | `web-scrape/index.ts:55`: "Private and internal hosts are refused"; `url-guard.ts:75`: "One private answer rejects"; `url-guard.ts:87`: what cannot be parsed is taken for loopback, "so an address we cannot read is never fetched" | `RELAXABLE` (`url-guard.ts:14-18`, used at `:79`) lets loopback, private and unique-local addresses through, in a name's answers and as literals, and with loopback what cannot be parsed. `RequestsAreWanted` is therefore about the kinds the code refuses: link-local and unspecified. |

In `Engine` the lookup by handle takes the order of the tasks for the order of
`createdAt`; the difference is the subject of `LookupFindsHolder`.

Smaller things the models showed, where no document says otherwise or the
comment is about something else:

- A sign-out whose request fails clears the cache and keeps the cookie: the
  login page asks who is signed in and goes back to the dashboard
  (`TopBar.tsx:44-49` says that the local session is over either way).
- Switching the mode of the form while a submission is under way allows a second
  one. The first answer signs one user in and the keys page loads that user's
  keys; the second changes the cookie and the user shown, and the keys of the
  first stay listed under that name until the list is a minute old: `onSession`
  refreshes the user only. Any sign-in over a user the tab knows does the same.
- A key created while the list was being loaded for the first time is missing
  from it until the next refetch, because that refetch joins the load.
- A revocation whose answer finds the dialog open for another key closes it.
- An event that arrives during the first load of a query joins that load, and
  the page may stay behind until the next event.
- `mock-worker.ts:17` lets a job sleep exactly as long as the default
  `ENGINE_JOB_TIMEOUT_MS`, so that such a job may end either way.

## Not modelled

- Reads that only answer a caller: stats, lanes, and pagination and filters of
  the lists.
- Parameters, results and error texts; parameter validation in the registry;
  what is extracted from a page.
- Requests that carry an API key, and the record of a key's last use: one
  statement each, and which key is accepted is decided by one row.
- Tokens, password hashing and CORS, which are the libraries'; other tabs of the
  browser, which share the cookie; the browser's back button.
- The submission form, whose only state is what has been typed; the snackbar
  queue; themes, tables and layout.
- Several processes behind one event stream: the bus is in-process, so a client
  connected to another process learns of an event by replay only.
- Rows seeded for the demo account, which the claim and the sweeps leave out and
  a retry does not.
- HTTP plumbing, and generated code beside the queries and mutations named in
  the map.

## Plan

Done: the table, the runner, the API, the allocation, the event stream with the
limit of its replay, the lease under a clock, the workers, the browser's task
pages over the lifecycle, accounts and keys; the refinements; and the proofs of
every safety property the runs check.

Next, in this order:

1. The premises of the liveness properties that are safety: which action is
   enabled for as long as a task is queued or running or a slot taken, as
   `NoCircularWaits` does it for submissions, stated without ENABLED as a guard that holds.
2. The toasts over the stream, whose gap after a blip the pages do not have.
3. Pure functions against reference definitions: backoff with its cap and
   jitter, parameter coercion, handle parsing, pages.
