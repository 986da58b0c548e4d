--------------------------- MODULE EngineProperties ---------------------------
(***************************************************************************)
(* What the engine is expected to get right, and the scheduling under      *)
(* which it gets anything done.                                            *)
(***************************************************************************)
EXTENDS Engine

-----------------------------------------------------------------------------
(* Safety. *)

\* A row has an owner and a lease exactly while it is running: a patch that
\* leaves `running` and forgets a column would let a stale run settle the row
\* of another attempt, or a lease that nobody holds be reaped.
OwnershipMatchesStatus ==
  \A t \in Tasks :
    /\ (rows[t].status = "running") <=> (rows[t].owner # NoRunner)
    /\ (rows[t].status = "running") <=> (rows[t].lease # "none")

\* lane-N names at most one active task, whatever runs, fails, is retried,
\* cancelled or recovered in between.
UniqueActiveHandle ==
  \A t, u \in Tasks :
    Active(rows[t]) /\ Active(rows[u]) /\ rows[t].handle = rows[u].handle => t = u

\* What a task's error column says agrees with how it ended, so an operator
\* can tell "retry may help" from "this will never work".
ErrorMatchesStatus ==
  \A t \in Tasks :
    /\ rows[t].status = "failed" => rows[t].error # "none"
    /\ rows[t].status = "ready" => rows[t].error = "none"
    /\ rows[t].error = "permanent" => rows[t].status \in {"failed", "cancelled"}

\* Every entry of inFlight belongs to a run of that process that has still to
\* go through its finally block.  An entry without one would take a slot and
\* keep its lease renewed for ever.
NoGhostEntry ==
  \A r \in Runners, t \in Tasks :
    inFlight[r][t] # 0 =>
      LET u == run[t][inFlight[r][t]] IN
        u.runner = r /\ u.pc \in LivePCs \ {"replying"}

\* The tasks a process has in flight or has just claimed fit its pool.
SlotsNotOversold ==
  \A r \in Runners :
    Cardinality({t \in Tasks : inFlight[r][t] # 0 \/ Replying(r, t) # {}})
      <= Concurrency

\* A task is not executed more often than its submission, its manual retries,
\* the sweeps that took it back from a dead or stalled runner and the lost
\* answers of the database allow.
BudgetRespected ==
  \A t \in Tasks : rows[t].attempts <= allowance[t] + recovered[t]

\* The attempts at t under way that are not the one its row is at, of any
\* process, that of the row's owner included.
Rivals(t) ==
  {k \in Attempts : run[t][k].pc \in Unsettled /\ k # rows[t].attempts}

\* settle() compares the row's status and its owner, not its attempts: a run
\* of the process that owns the row may settle an attempt that is not its own.
\* The runs that could are as few as the sweeps and the lost answers that took
\* the task from one: no claim, retry, refusal or late outcome makes another.
RivalsAreRecovered ==
  \A t \in Tasks : Cardinality(Rivals(t)) <= recovered[t]

\* A process that is up holds the controller of a worker of task t.
Holds(r, t) ==
  /\ phase[r] = "up"
  /\ inFlight[r][t] # 0
  /\ Executing(t, inFlight[r][t])

\* A collected or cancelled task is history: no late result, failure, sweep,
\* claim or request writes its row again.
RetiredForever ==
  [][\A t \in Tasks : Retired(rows[t]) => rows'[t] = rows[t]]_vars

\* As long as nothing stalls and the database answers, a sweep takes no row
\* from a process that is up and holds a worker for it, however many claim,
\* crash, time out and recover: only a run of that process gives it back.  A
\* boot sweep keeps to this where a process starts after its predecessor ended.
SweepsSpareTheLiving ==
  [][mishaps' = 0 /\ (BootSweep => SingleProcess) =>
       \A t \in Tasks, r \in Runners :
         Holds(r, t) /\ rows[t].owner = r /\ rows'[t].status = "queued" =>
           \E k \in Attempts :
             /\ run[t][k].runner = r
             /\ run[t][k].pc = "settling" /\ run'[t][k].pc # "settling"]_vars

-----------------------------------------------------------------------------
(* The engine implements the lifecycle it promises. *)

StageOf(row) ==
  IF row.status = "absent" THEN "unknown"
  ELSE IF row.status = "ready" /\ row.collected THEN "collected"
  ELSE row.status

Lifecycle ==
  INSTANCE TaskLifecycle WITH
    stage <- [t \in Tasks |-> StageOf(rows[t])],
    number <- [t \in Tasks |-> rows[t].handle],
    executions <- [t \in Tasks |-> rows[t].attempts]

\* Every step of the engine is a step of the lifecycle or leaves it alone.
ImplementsLifecycle == Lifecycle!Spec

-----------------------------------------------------------------------------
(* Liveness. *)

\* The timers of a process that is up fire, the database answers, the race
\* with jobTimeoutMs ends, and time passes.  Nothing is assumed of workers,
\* of clients, or of processes being restarted.
Fairness ==
  /\ \A r \in Runners : WF_vars(Claim(r)) /\ WF_vars(Deliver(r)) /\ WF_vars(Reap(r))
  /\ \A t \in Tasks, k \in Attempts :
       /\ WF_vars(CallWorker(t, k)) /\ WF_vars(NoWorker(t, k))
       /\ WF_vars(Timeout(t, k))
       /\ WF_vars(Settle(t, k)) /\ WF_vars(Finally(t, k))
  /\ \A t \in Tasks : WF_vars(LeaseLapses(t)) /\ WF_vars(BackoffElapses(t))
  /\ \A c \in Clients :
       /\ WF_vars(CancelQueued(c)) /\ WF_vars(CancelRunning(c))
       /\ WF_vars(CancelFailed(c)) /\ WF_vars(Abort(c)) /\ WF_vars(Refuse(c))

FairSpec == Spec /\ Fairness

SomeProcessStaysUp == \E r \in Runners : <>[](phase[r] = "up")

\* While some process stays up, no accepted task is queued or running for
\* ever: not after a crash, a stall, a lost claim, a hung worker or a database
\* fault.
EveryTaskSettles ==
  SomeProcessStaysUp =>
    \A t \in Tasks :
      (rows[t].status \in {"queued", "running"}) ~>
        (rows[t].status \in {"ready", "failed", "cancelled"})

\* A slot is never lost: whatever occupies it leaves inFlight again, even a
\* worker that ignores its signal.
SlotsComeBack ==
  \A r \in Runners, t \in Tasks : (inFlight[r][t] # 0) ~> (inFlight[r][t] = 0)

-----------------------------------------------------------------------------
(* What the documentation says of the engine. *)

\* types.ts:278: cancel "actually stops its worker if one is running here".
CancelStopsWorker ==
  \A t \in Tasks, k \in Attempts :
    rows[t].status = "cancelled" /\ Executing(t, k) /\ ~run[t][k].aborted =>
      \E c \in Clients : req[c].step = "abort" /\ req[c].task = t

\* README.md:109: a job can run twice "if a process dies after the work
\* completes".  Where none dies and nothing stalls, it does not.
RunsOnceAtATime ==
  mishaps = 0 =>
    \A t \in Tasks, k, j \in Attempts :
      run[t][k].pc = "working" /\ run[t][j].pc = "working" => k = j

\* README.md:103: the lease of a claim is "refreshed by a heartbeat while
\* the job runs".  The process that executes the attempt a row is at has the
\* task in its map, which is what beat() goes by.
LeaseRefreshedWhileRunning ==
  \A t \in Tasks, k \in Attempts :
    /\ run[t][k].pc = "working" /\ rows[t].attempts = k
    /\ rows[t].status = "running" /\ rows[t].owner = run[t][k].runner
    /\ phase[rows[t].owner] = "up"
    => inFlight[rows[t].owner][t] # 0

\* types.ts:285: retry requeues a failed task "with a fresh attempt budget".
RetryGrantsFreshBudget ==
  [][\A t \in Tasks :
       rows[t].status = "failed" /\ rows'[t].status = "queued" =>
         rows'[t].maxAttempts - rows'[t].attempts = MaxAttempts]_vars

\* README.md:106: on shutdown "in-flight jobs finish first".  What a worker
\* returns while its process drains is not thrown away.
DrainFinishesJobs ==
  [][\A r \in Runners, t \in Tasks, k \in Attempts :
       /\ phase[r] = "stopping"
       /\ run[t][k].runner = r
       /\ run[t][k].pc = "working" /\ run'[t][k].pc = "closing"
       => ~(rows[t].status = "running" /\ rows[t].owner = r)]_vars

=============================================================================
