-------------------------------- MODULE Engine --------------------------------
(***************************************************************************)
(* The task engine: runner processes that claim rows of the tasks table,   *)
(* execute them and write the outcome (runner.ts), and the requests of the *)
(* API that submit, collect, cancel and retry tasks in the same processes  *)
(* (orchestration-engine.ts).                                              *)
(*                                                                         *)
(* Every statement or transaction on the database is one step.  A handler  *)
(* that awaits the database is several steps: what it read before an await *)
(* is kept in `run` or `req` and may be stale when it is used.  Processes  *)
(* crash, shut down and are replaced; replies arrive late; leases lapse.   *)
(*                                                                         *)
(* An operator right before the one it resembles is a mutated form of it,  *)
(* named for the mistake it makes; no other definition uses it.            *)
(***************************************************************************)
EXTENDS TaskStore

CONSTANTS
  Clients,        \* concurrent API requests
  Requests,       \* what they ask for, beside submit and collect
  Concurrency,    \* EngineConfig.concurrency
  MaxAttempts,    \* EngineConfig.maxAttempts
  BootSweep,      \* EngineConfig.bootSweep
  SingleProcess,  \* a process starts only after the one before it has ended
  Unserved,       \* tasks of a lane that has no worker in these processes
  Mishaps,        \* the kinds of trouble that may happen, see MishapKinds
  MaxMishaps,     \* bound on stalls and database faults together
  MaxClaims       \* bound on the claims of one task

MishapKinds == {"crash", "stop", "stall", "dbfault"}

ASSUME EngineAssumption ==
  /\ Requests \subseteq {"cancel", "retry"}
  /\ Concurrency \in Nat \ {0}
  /\ MaxAttempts \in Nat \ {0}
  /\ BootSweep \in BOOLEAN
  /\ SingleProcess \in BOOLEAN
  /\ Unserved \subseteq Tasks
  /\ Mishaps \subseteq MishapKinds
  /\ MaxMishaps \in Nat
  /\ MaxClaims \in Nat \ {0}

VARIABLES
  rows,       \* the tasks table
  run,        \* run[t][k]: runOne for the k-th attempt at t
  inFlight,   \* inFlight[r][t]: the attempt whose controller r holds, 0 if none
  phase,      \* life of each runner process
  req,        \* the API request each client is waiting for
  allowance,  \* history: the executions a submission and retries granted a task
  recovered,  \* history: how often a sweep or a lost answer put it back
  mishaps     \* stalls and faults so far

vars == <<rows, run, inFlight, phase, req, allowance, recovered, mishaps>>

Attempts == 1 .. MaxClaims
Outcomes == {"ready", "retryable", "permanent"}

\* A run's pc: the claim's reply is on its way; recordStarted is awaited; the
\* worker races the timeout; the outcome's transaction is awaited; it has
\* answered, or there was nothing to write, and `finally` is next.
LivePCs == {"replying", "starting", "working", "settling", "closing"}

\* A run that has still to write its outcome.
Unsettled == LivePCs \ {"closing"}

Run ==
  [pc: {"none"} \cup LivePCs, runner: Runners \cup {NoRunner}, max: Nat,
   outcome: {"none"} \cup Outcomes, aborted: BOOLEAN, timedOut: BOOLEAN,
   caught: BOOLEAN]

NoRun ==
  [pc |-> "none", runner |-> NoRunner, max |-> 0, outcome |-> "none",
   aborted |-> FALSE, timedOut |-> FALSE, caught |-> FALSE]

ClaimedRun(r, max) == [NoRun EXCEPT !.pc = "replying", !.runner = r, !.max = max]

Phases == {"unborn", "up", "stopping", "stopped", "dead"}
Alive(r) == phase[r] \in {"up", "stopping", "stopped"}

Steps == {"tryQueued", "tryRunning", "tryFailed", "abort", "refuse", "retry"}

NoRequest == [step |-> "idle", task |-> 0, at |-> NoRunner, seen |-> 0]

OpenRequest == [step: Steps, task: Tasks, at: Runners, seen: Nat]

Request == OpenRequest \cup {NoRequest}

TypeOK ==
  /\ rows \in [Tasks -> Row]
  /\ run \in [Tasks -> [Attempts -> Run]]
  /\ inFlight \in [Runners -> [Tasks -> {0} \cup Attempts]]
  /\ phase \in [Runners -> Phases]
  /\ req \in [Clients -> Request]
  /\ allowance \in [Tasks -> Nat]
  /\ recovered \in [Tasks -> Nat]
  /\ mishaps \in Nat

Init ==
  /\ rows = [t \in Tasks |-> NoRow]
  /\ run = [t \in Tasks |-> [k \in Attempts |-> NoRun]]
  /\ inFlight = [r \in Runners |-> [t \in Tasks |-> 0]]
  /\ phase = [r \in Runners |-> "unborn"]
  /\ req = [c \in Clients |-> NoRequest]
  /\ allowance = [t \in Tasks |-> 0]
  /\ recovered = [t \in Tasks |-> 0]
  /\ mishaps = 0

InFlight(r) == {t \in Tasks : inFlight[r][t] # 0}

\* The attempts at t that r has claimed and not heard of.
Replying(r, t) ==
  {k \in Attempts : run[t][k].pc = "replying" /\ run[t][k].runner = r}

\* A tick of r is awaiting its claim: `ticking` is set.
Ticking(r) == \E t \in Tasks : Replying(r, t) # {}

\* A worker r is executing for task t, whatever inFlight says.
Executing(t, k) == run[t][k].pc \in {"starting", "working"}

RunStep(t, k, from, to) ==
  /\ run[t][k].pc = from
  /\ run' = [run EXCEPT ![t][k].pc = to]

Reclaim(S) ==
  /\ rows' = RequeueAll(rows, S)
  /\ recovered' = [t \in Tasks |->
                     IF t \in S THEN recovered[t] + 1 ELSE recovered[t]]

Mishap(kind) ==
  /\ kind \in Mishaps
  /\ mishaps < MaxMishaps
  /\ mishaps' = mishaps + 1

-----------------------------------------------------------------------------
(* Processes. *)

\* start(): the boot sweep commits before any timer is installed.
Boot(r) ==
  /\ phase[r] = "unborn"
  /\ SingleProcess => \A q \in Runners : ~Alive(q)
  /\ phase' = [phase EXCEPT ![r] = "up"]
  /\ IF BootSweep THEN Reclaim(Orphans(rows, r)) ELSE UNCHANGED <<rows, recovered>>
  /\ UNCHANGED <<run, inFlight, req, allowance, mishaps>>

\* stop(): no more ticks or timers, and everything in flight is aborted.
Stop(r) ==
  /\ "stop" \in Mishaps
  /\ phase[r] = "up"
  /\ phase' = [phase EXCEPT ![r] = "stopping"]
  /\ run' = [t \in Tasks |-> [k \in Attempts |->
               IF inFlight[r][t] = k THEN [run[t][k] EXCEPT !.aborted = TRUE]
                                     ELSE run[t][k]]]
  /\ UNCHANGED <<rows, inFlight, req, allowance, recovered, mishaps>>

\* stop() returns: nothing is in flight, or the drain deadline has passed.
Drained(r) ==
  /\ phase[r] = "stopping"
  /\ phase' = [phase EXCEPT ![r] = "stopped"]
  /\ inFlight' = [inFlight EXCEPT ![r] = [t \in Tasks |-> 0]]
  /\ UNCHANGED <<rows, run, req, allowance, recovered, mishaps>>

\* The process ends, and with it everything it kept in memory.
End(r) ==
  /\ \/ "crash" \in Mishaps /\ Alive(r)
     \/ phase[r] = "stopped"
  /\ phase' = [phase EXCEPT ![r] = "dead"]
  /\ run' = [t \in Tasks |-> [k \in Attempts |->
               IF run[t][k].runner = r THEN NoRun ELSE run[t][k]]]
  /\ inFlight' = [inFlight EXCEPT ![r] = [t \in Tasks |-> 0]]
  /\ req' = [c \in Clients |-> IF req[c].at = r THEN NoRequest ELSE req[c]]
  /\ UNCHANGED <<rows, allowance, recovered, mishaps>>

-----------------------------------------------------------------------------
(* The claim loop. *)

\* The rows a claim of r takes: as many as r has slots for when it sends it.
Batch(r) ==
  OldestWithin({t \in Claimable(rows) : rows[t].attempts < MaxClaims},
               Cardinality(InFlight(r)), Concurrency)

ClaimRows(r) ==
  /\ phase[r] = "up"
  /\ ~Ticking(r)
  /\ Batch(r) # {}
  /\ rows' = [t \in Tasks |->
                IF t \in Batch(r) THEN ClaimedBy(rows[t], r) ELSE rows[t]]

\* tick() up to its await: slots are counted and the claim commits.  Between
\* the count and the commit only runs of r may end, which frees slots.
Claim(r) ==
  /\ ClaimRows(r)
  /\ run' = [t \in Tasks |-> [k \in Attempts |->
               IF t \in Batch(r) /\ k = rows[t].attempts + 1
               THEN ClaimedRun(r, rows[t].maxAttempts)
               ELSE run[t][k]]]
  /\ UNCHANGED <<inFlight, phase, req, allowance, recovered, mishaps>>

\* The claim commits and its reply is lost: tick() rejects, and nobody runs
\* the rows until their lease has lapsed.
ClaimLost(r) ==
  /\ Mishap("dbfault")
  /\ ClaimRows(r)
  /\ UNCHANGED <<run, inFlight, phase, req, allowance, recovered>>

\* The rest of tick(): the reply registers a controller for every row and
\* calls runOne.  It does not look at `stopped` again.
Deliver(r) ==
  /\ Alive(r)
  /\ Ticking(r)
  /\ run' = [t \in Tasks |-> [k \in Attempts |->
               IF k \in Replying(r, t)
               THEN [run[t][k] EXCEPT !.pc = "starting"] ELSE run[t][k]]]
  /\ inFlight' = [inFlight EXCEPT ![r] = [t \in Tasks |->
                    IF Replying(r, t) = {} THEN inFlight[r][t]
                    ELSE CHOOSE k \in Attempts : k \in Replying(r, t)]]
  /\ UNCHANGED <<rows, phase, req, allowance, recovered, mishaps>>

-----------------------------------------------------------------------------
(* runOne. *)

\* recordStarted has answered.  An aborted run still calls the worker, with
\* a signal that is already aborted.
CallWorker(t, k) ==
  /\ t \notin Unserved
  /\ RunStep(t, k, "starting", "working")
  /\ UNCHANGED <<rows, inFlight, phase, req, allowance, recovered, mishaps>>

\* recordStarted has answered, and the registry does not know the lane.
NoWorker(t, k) ==
  /\ t \in Unserved
  /\ run[t][k].pc = "starting"
  /\ run' = [run EXCEPT ![t][k] =
               [@ EXCEPT !.pc = "settling", !.outcome = "permanent"]]
  /\ UNCHANGED <<rows, inFlight, phase, req, allowance, recovered, mishaps>>

\* The worker wins the race.  If its signal was aborted nothing is written.
\* `thrown` says it rejected: the outcome is then settled in the catch block.
WorkerReturns(t, k, outcome, thrown) ==
  /\ run[t][k].pc = "working"
  /\ thrown => outcome = "retryable"
  /\ run' = [run EXCEPT ![t][k] =
               IF @.aborted THEN [@ EXCEPT !.pc = "closing"]
               ELSE [@ EXCEPT !.pc = "settling", !.outcome = outcome,
                              !.caught = thrown]]
  /\ UNCHANGED <<rows, inFlight, phase, req, allowance, recovered, mishaps>>

TimeoutOnlyAborts(t, k) ==
  /\ run[t][k].pc = "working"
  /\ run' = [run EXCEPT ![t][k].aborted = TRUE]
  /\ UNCHANGED <<rows, inFlight, phase, req, allowance, recovered, mishaps>>

\* jobTimeoutMs passes first.  The worker may run on; nobody listens to it.
\* The race is lost by a rejection, and the failure recorded in the catch
\* block, unless the worker answers the abort before that.
Timeout(t, k) ==
  /\ run[t][k].pc = "working"
  /\ \E thrown \in BOOLEAN :
       run' = [run EXCEPT ![t][k] =
                 [@ EXCEPT !.pc = "settling", !.outcome = "retryable",
                           !.aborted = TRUE, !.timedOut = TRUE,
                           !.caught = thrown]]
  /\ UNCHANGED <<rows, inFlight, phase, req, allowance, recovered, mishaps>>

\* TaskGuard of fail() and succeed(): the row is still running, and mine.
OwnsNothing(row, u) == TRUE
Owns(row, u) == row.status = "running" /\ row.owner = u.runner

\* The attempt and the budget are those the claim returned.
BudgetLeftOrSpent(u, k) == k <= u.max
BudgetLeft(u, k) == k < u.max

\* The row after the transaction of settle(), fail() or failTimeout().
SettledRow(t, k) ==
  LET row == rows[t]
      u == run[t][k]
  IN IF ~Owns(row, u) THEN row
     ELSE IF u.outcome = "ready" THEN Succeeded(row)
     ELSE IF u.outcome = "retryable" /\ BudgetLeft(u, k) THEN RetryScheduled(row)
     ELSE Failed(row, u.outcome)

Settle(t, k) ==
  /\ RunStep(t, k, "settling", "closing")
  /\ rows' = [rows EXCEPT ![t] = SettledRow(t, k)]
  /\ UNCHANGED <<inFlight, phase, req, allowance, recovered, mishaps>>

\* What the catch block makes of a failed query: one more try, unless it was
\* already that try or the run was aborted from outside.
AfterFault(u) ==
  IF u.caught \/ (u.aborted /\ ~u.timedOut)
  THEN [u EXCEPT !.pc = "closing"]
  ELSE [u EXCEPT !.pc = "settling", !.outcome = "retryable", !.caught = TRUE]

\* The event of recordStarted could not be written.
StartFails(t, k) ==
  /\ Mishap("dbfault")
  /\ run[t][k].pc = "starting"
  /\ run' = [run EXCEPT ![t][k] = AfterFault(@)]
  /\ UNCHANGED <<rows, inFlight, phase, req, allowance, recovered>>

\* The outcome's transaction fails, or it commits and the answer is lost.  In
\* the second case the outcome may be settled once more, on a later attempt.
SettleFails(t, k) ==
  /\ Mishap("dbfault")
  /\ run[t][k].pc = "settling"
  /\ run' = [run EXCEPT ![t][k] = AfterFault(@)]
  /\ \/ UNCHANGED <<rows, recovered>>
     \/ /\ rows' = [rows EXCEPT ![t] = SettledRow(t, k)]
        /\ recovered' = [recovered EXCEPT ![t] = @ + 1]
  /\ UNCHANGED <<inFlight, phase, req, allowance>>

FinallyUnlessAborted(t, k) ==
  /\ run[t][k].pc = "closing"
  /\ run' = [run EXCEPT ![t][k] = NoRun]
  /\ inFlight' = IF run[t][k].aborted THEN inFlight
                 ELSE [inFlight EXCEPT ![run[t][k].runner][t] = 0]
  /\ UNCHANGED <<rows, phase, req, allowance, recovered, mishaps>>

\* The finally block deletes whatever controller the task id is mapped to.
Finally(t, k) ==
  /\ run[t][k].pc = "closing"
  /\ run' = [run EXCEPT ![t][k] = NoRun]
  /\ inFlight' = [inFlight EXCEPT ![run[t][k].runner][t] = 0]
  /\ UNCHANGED <<rows, phase, req, allowance, recovered, mishaps>>

-----------------------------------------------------------------------------
(* Leases and the passing of time. *)

\* The process that owns the row still beats for it, or is about to.
Attended(t) ==
  /\ rows[t].status = "running"
  /\ LET r == rows[t].owner IN
       /\ phase[r] = "up"
       /\ inFlight[r][t] # 0 \/ Replying(r, t) # {}

LeaseLapses(t) ==
  /\ rows[t].status = "running"
  /\ rows[t].lease = "held"
  /\ ~Attended(t)
  /\ rows' = [rows EXCEPT ![t].lease = "lapsed"]
  /\ UNCHANGED <<run, inFlight, phase, req, allowance, recovered, mishaps>>

\* A process that is up stalls, or cannot reach the database, for leaseMs.
LeaseStarves(t) ==
  /\ Mishap("stall")
  /\ rows[t].lease = "held"
  /\ Attended(t)
  /\ rows' = [rows EXCEPT ![t].lease = "lapsed"]
  /\ UNCHANGED <<run, inFlight, phase, req, allowance, recovered>>

\* beat(): by task id, so for whatever attempt of it r now owns.
Beat(r) ==
  /\ phase[r] = "up"
  /\ rows' = [t \in Tasks |->
                IF /\ t \in InFlight(r)
                   /\ rows[t].status = "running" /\ rows[t].owner = r
                THEN [rows[t] EXCEPT !.lease = "held"] ELSE rows[t]]
  /\ UNCHANGED <<run, inFlight, phase, req, allowance, recovered, mishaps>>

\* reap(): any lapsed row but those r has in flight, its own included.
Reap(r) ==
  /\ phase[r] = "up"
  /\ LapsedExcept(rows, InFlight(r)) # {}
  /\ Reclaim(LapsedExcept(rows, InFlight(r)))
  /\ UNCHANGED <<run, inFlight, phase, req, allowance, mishaps>>

BackoffElapses(t) ==
  /\ rows[t].status = "queued"
  /\ ~rows[t].due
  /\ rows' = [rows EXCEPT ![t].due = TRUE]
  /\ UNCHANGED <<run, inFlight, phase, req, allowance, recovered, mishaps>>

-----------------------------------------------------------------------------
(* The API. *)

\* allocateHandleAndInsert, as one step: HandleAllocation.tla takes it apart.
Submit(t, h) ==
  /\ \E r \in Runners : phase[r] = "up"
  /\ rows[t].status = "absent"
  /\ \A u \in Tasks : u < t => rows[u].status # "absent"
  /\ IsNextHandle(h, HandlesInUse(rows))
  /\ rows' = [rows EXCEPT ![t] = NewRow(h, MaxAttempts)]
  /\ allowance' = [allowance EXCEPT ![t] = MaxAttempts]
  /\ UNCHANGED <<run, inFlight, phase, req, recovered, mishaps>>

\* collect(): what find() read is only used to word the conflict.
Collect(t) ==
  /\ \E r \in Runners : phase[r] = "up"
  /\ rows[t].status = "ready"
  /\ ~rows[t].collected
  /\ rows' = [rows EXCEPT ![t] = Collected(@)]
  /\ UNCHANGED <<run, inFlight, phase, req, allowance, recovered, mishaps>>

\* cancel() or retry() has resolved the handle to task t at process r.
Begin(c, t, r, step, seen) ==
  /\ req[c].step = "idle"
  /\ phase[r] = "up"
  /\ FoundByHandle(rows, t)
  /\ req' = [req EXCEPT ![c] = [step |-> step, task |-> t, at |-> r, seen |-> seen]]
  /\ UNCHANGED <<rows, run, inFlight, phase, allowance, recovered, mishaps>>

BeginCancel(c, t, r) ==
  /\ "cancel" \in Requests
  /\ Begin(c, t, r, "tryQueued", 0)

\* The bound on MaxClaims keeps a task from being retried for ever.
BeginRetry(c, t, r) ==
  /\ "retry" \in Requests
  /\ rows[t].attempts + MaxAttempts <= MaxClaims
  /\ Begin(c, t, r, "retry", rows[t].attempts)

\* One of the three guarded updates of cancel(), tried in this order.
TryCancel(c, step, from, otherwise) ==
  LET t == req[c].task IN
  /\ req[c].step = step
  /\ IF rows[t].status = from
     THEN /\ rows' = [rows EXCEPT ![t] = Cancelled(@)]
          /\ req' = [req EXCEPT ![c] = IF from = "running"
                                       THEN [@ EXCEPT !.step = "abort"]
                                       ELSE NoRequest]
     ELSE /\ req' = [req EXCEPT ![c].step = otherwise]
          /\ UNCHANGED rows
  /\ UNCHANGED <<run, inFlight, phase, allowance, recovered, mishaps>>

CancelQueued(c) == TryCancel(c, "tryQueued", "queued", "tryRunning")
CancelRunning(c) == TryCancel(c, "tryRunning", "running", "tryFailed")
CancelFailed(c) == TryCancel(c, "tryFailed", "failed", "refuse")

\* abort(): the controller this process holds for the task, if it holds one.
Abort(c) ==
  LET t == req[c].task
      k == inFlight[req[c].at][t]
  IN /\ req[c].step = "abort"
     /\ run' = IF k = 0 THEN run ELSE [run EXCEPT ![t][k].aborted = TRUE]
     /\ req' = [req EXCEPT ![c] = NoRequest]
     /\ UNCHANGED <<rows, inFlight, phase, allowance, recovered, mishaps>>

\* ConflictError: none of the three updates matched.
Refuse(c) ==
  /\ req[c].step = "refuse"
  /\ req' = [req EXCEPT ![c] = NoRequest]
  /\ UNCHANGED <<rows, run, inFlight, phase, allowance, recovered, mishaps>>

\* A statement of the request fails, or commits and the answer is lost: then a
\* cancelled task is not aborted.
RequestFails(c) ==
  /\ Mishap("dbfault")
  /\ req[c].step # "idle"
  /\ req' = [req EXCEPT ![c] = NoRequest]
  /\ UNCHANGED <<rows, run, inFlight, phase, allowance, recovered>>

\* retry(): the new budget counts from the attempts find() read.
WriteRetry(c) ==
  LET t == req[c].task IN
  /\ req[c].step = "retry"
  /\ IF rows[t].status = "failed"
     THEN /\ rows' = [rows EXCEPT ![t] =
                        RetryRequested(@, req[c].seen + MaxAttempts)]
          /\ allowance' = [allowance EXCEPT ![t] = @ + MaxAttempts]
     ELSE UNCHANGED <<rows, allowance>>
  /\ req' = [req EXCEPT ![c] = NoRequest]
  /\ UNCHANGED <<run, inFlight, phase, recovered, mishaps>>

-----------------------------------------------------------------------------
RunnerStep(r) ==
  Boot(r) \/ Stop(r) \/ Drained(r) \/ End(r) \/ Claim(r) \/ ClaimLost(r)
    \/ Deliver(r) \/ Beat(r) \/ Reap(r)

RunOne(t, k) ==
  \/ CallWorker(t, k) \/ NoWorker(t, k) \/ Timeout(t, k)
  \/ \E outcome \in Outcomes, thrown \in BOOLEAN :
       WorkerReturns(t, k, outcome, thrown)
  \/ Settle(t, k) \/ StartFails(t, k) \/ SettleFails(t, k) \/ Finally(t, k)

TimeStep(t) == LeaseLapses(t) \/ LeaseStarves(t) \/ BackoffElapses(t)

RequestStep(c) ==
  \/ \E t \in Tasks, r \in Runners : BeginCancel(c, t, r) \/ BeginRetry(c, t, r)
  \/ CancelQueued(c) \/ CancelRunning(c) \/ CancelFailed(c)
  \/ Abort(c) \/ Refuse(c) \/ RequestFails(c) \/ WriteRetry(c)

Next ==
  \/ \E r \in Runners : RunnerStep(r)
  \/ \E t \in Tasks, k \in Attempts : RunOne(t, k)
  \/ \E t \in Tasks : TimeStep(t) \/ Collect(t)
  \/ \E t \in Tasks, h \in Handles : Submit(t, h)
  \/ \E c \in Clients : RequestStep(c)

Spec == Init /\ [][Next]_vars

=============================================================================
