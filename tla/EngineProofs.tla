----------------------------- MODULE EngineProofs -----------------------------
(***************************************************************************)
(* What holds of the engine for any number of tasks, processes, clients    *)
(* and claims, any concurrency and any attempt budget.                     *)
(***************************************************************************)
EXTENDS EngineProperties, TLAPS

-----------------------------------------------------------------------------
(* Rows. *)

\* Every statement of the engine makes a row of a row.
LEMMA StatementsMakeRows ==
  ASSUME NEW row \in Row
  PROVE  /\ NoRow \in Row
         /\ \A n \in Nat : NewRow(n, MaxAttempts) \in Row
         /\ \A r \in Runners : ClaimedBy(row, r) \in Row
         /\ Requeued(row) \in Row
         /\ RetryScheduled(row) \in Row
         /\ Failed(row, "retryable") \in Row
         /\ Failed(row, "permanent") \in Row
         /\ Succeeded(row) \in Row
         /\ Cancelled(row) \in Row
         /\ \A n \in Nat : RetryRequested(row, n) \in Row
         /\ Collected(row) \in Row
<1> USE DEF Row, Statuses, Errors, Leases
<1>1. NoRow \in Row /\ \A n \in Nat : NewRow(n, MaxAttempts) \in Row
  BY EngineAssumption DEF NoRow, NewRow
<1>2. ASSUME NEW r \in Runners PROVE ClaimedBy(row, r) \in Row
  <2>1. row.attempts + 1 \in Nat
    OBVIOUS
  <2> QED BY <2>1 DEF ClaimedBy
<1>6. Requeued(row) \in Row
  BY DEF Requeued
<1>3. RetryScheduled(row) \in Row /\ Succeeded(row) \in Row
  BY DEF RetryScheduled, Succeeded
<1>4. Failed(row, "retryable") \in Row /\ Failed(row, "permanent") \in Row
  BY DEF Failed
<1>5. Cancelled(row) \in Row /\ Collected(row) \in Row
  BY DEF Cancelled, Collected
<1>7. ASSUME NEW n \in Nat PROVE RetryRequested(row, n) \in Row
  BY DEF RetryRequested
<1> QED BY <1>1, <1>2, <1>3, <1>4, <1>5, <1>6, <1>7

\* So do a heartbeat, a lapsed lease and a backoff that has elapsed.
LEMMA TimeMakesRows ==
  ASSUME NEW row \in Row
  PROVE  /\ [row EXCEPT !.lease = "held"] \in Row
         /\ [row EXCEPT !.lease = "lapsed"] \in Row
         /\ [row EXCEPT !.due = TRUE] \in Row
<1>1. [row EXCEPT !.lease = "held"] \in Row
  BY DEF Row, Leases
<1>2. [row EXCEPT !.lease = "lapsed"] \in Row
  BY DEF Row, Leases
<1>3. [row EXCEPT !.due = TRUE] \in Row
  BY DEF Row
<1> QED BY <1>1, <1>2, <1>3

\* A sweep puts rows in the place of rows.
LEMMA SweepMakesRows ==
  ASSUME rows \in [Tasks -> Row], NEW S
  PROVE  RequeueAll(rows, S) \in [Tasks -> Row]
<1>1. ASSUME NEW t \in Tasks PROVE Requeued(rows[t]) \in Row
  BY DEF Requeued, Row, Statuses, Errors, Leases
<1> QED BY <1>1 DEF RequeueAll

-----------------------------------------------------------------------------
(* Types. *)

\* TypeOK, and what a run about to be settled has to have: an outcome.
Typed ==
  /\ TypeOK
  /\ \A t \in Tasks, k \in Attempts :
       run[t][k].pc = "settling" => run[t][k].outcome \in Outcomes

\* Every step of a run makes a run of a run.
LEMMA StepsMakeRuns ==
  ASSUME NEW u \in Run
  PROVE  /\ NoRun \in Run
         /\ [u EXCEPT !.aborted = TRUE] \in Run
         /\ \A pc \in LivePCs : [u EXCEPT !.pc = pc] \in Run
         /\ \A pc \in LivePCs, o \in Outcomes :
              /\ [u EXCEPT !.pc = pc, !.outcome = o] \in Run
              /\ \A c \in BOOLEAN :
                   [u EXCEPT !.pc = pc, !.outcome = o, !.aborted = TRUE,
                             !.timedOut = TRUE, !.caught = c] \in Run
              /\ \A c \in BOOLEAN :
                   [u EXCEPT !.pc = pc, !.outcome = o, !.caught = c] \in Run
<1> USE DEF Run
<1>1. NoRun \in Run
  BY DEF NoRun
<1>2. [u EXCEPT !.aborted = TRUE] \in Run
  OBVIOUS
<1>3. \A pc \in LivePCs : [u EXCEPT !.pc = pc] \in Run
  OBVIOUS
<1>4. ASSUME NEW pc \in LivePCs, NEW o \in Outcomes
      PROVE  [u EXCEPT !.pc = pc, !.outcome = o] \in Run
  OBVIOUS
<1>5. ASSUME NEW pc \in LivePCs, NEW o \in Outcomes, NEW c \in BOOLEAN
      PROVE  [u EXCEPT !.pc = pc, !.outcome = o, !.aborted = TRUE,
                       !.timedOut = TRUE, !.caught = c] \in Run
  OBVIOUS
<1>6. ASSUME NEW pc \in LivePCs, NEW o \in Outcomes, NEW c \in BOOLEAN
      PROVE  [u EXCEPT !.pc = pc, !.outcome = o, !.caught = c] \in Run
  OBVIOUS
<1> HIDE DEF Run
<1> QED BY <1>1, <1>2, <1>3, <1>4, <1>5, <1>6

\* The processes keep their types: what they keep in memory and what their
\* claims and sweeps write.
LEMMA RunnerKeepsTypes ==
  ASSUME Typed, NEW r \in Runners, RunnerStep(r)
  PROVE  Typed'
<1> USE EngineAssumption, StoreAssumption DEF Typed, TypeOK
<1>1. CASE Boot(r)
  <2>1. /\ rows' \in [Tasks -> Row]
        /\ recovered' \in [Tasks -> Nat]
    BY <1>1, SweepMakesRows DEF Boot, Reclaim
  <2> QED BY <1>1, <2>1 DEF Boot, Phases
<1>2. CASE Stop(r)
  <2>1. run' \in [Tasks -> [Attempts -> Run]]
    BY <1>2, StepsMakeRuns DEF Stop
  <2>2. \A t \in Tasks, k \in Attempts :
          run'[t][k].pc = run[t][k].pc /\ run'[t][k].outcome = run[t][k].outcome
    BY <1>2 DEF Stop, Run
  <2> QED BY <1>2, <2>1, <2>2 DEF Stop, Phases
<1>3. CASE Drained(r)
  BY <1>3 DEF Drained, Phases
<1>4. CASE End(r)
  <2>1. run' \in [Tasks -> [Attempts -> Run]]
    BY <1>4, StepsMakeRuns DEF End
  <2>2. req' \in [Clients -> Request]
    BY <1>4 DEF End, Request
  <2>3. \A t \in Tasks, k \in Attempts :
          run'[t][k] = run[t][k] \/ run'[t][k].pc = "none"
    BY <1>4 DEF End, NoRun
  <2> QED BY <1>4, <2>1, <2>2, <2>3 DEF End, Phases
<1>9. ASSUME ClaimRows(r) PROVE rows' \in [Tasks -> Row]
  <2>1. \A t \in Tasks : ClaimedBy(rows[t], r) \in Row
    BY StatementsMakeRows
  <2> QED BY <1>9, <2>1 DEF ClaimRows
<1>10. CASE ClaimLost(r)
  BY <1>9, <1>10 DEF ClaimLost, Mishap
<1>5. CASE Claim(r)
  <2>1. rows' \in [Tasks -> Row]
    BY <1>5, <1>9 DEF Claim
  <2>2. \A t \in Tasks : ClaimedRun(r, rows[t].maxAttempts) \in Run
    BY DEF ClaimedRun, NoRun, Run, LivePCs, Row
  <2>3. run' \in [Tasks -> [Attempts -> Run]]
    BY <1>5, <2>2 DEF Claim
  <2>4. \A t \in Tasks, k \in Attempts :
          run'[t][k] = run[t][k] \/ run'[t][k].pc = "replying"
    BY <1>5 DEF Claim, ClaimedRun, NoRun
  <2> QED BY <1>5, <2>1, <2>3, <2>4 DEF Claim
<1>6. CASE Deliver(r)
  <2>1. run' \in [Tasks -> [Attempts -> Run]]
    <3>1. ASSUME NEW t \in Tasks, NEW k \in Attempts
          PROVE  [run[t][k] EXCEPT !.pc = "starting"] \in Run
      <4>1. run[t][k] \in Run /\ "starting" \in LivePCs
        BY DEF LivePCs
      <4> QED BY ONLY <4>1, StepsMakeRuns
    <3> QED BY <1>6, <3>1 DEF Deliver
  <2>2. \A t \in Tasks : Replying(r, t) # {} =>
          (CHOOSE k \in Attempts : k \in Replying(r, t)) \in Attempts
    BY DEF Replying
  <2>3. inFlight' \in [Runners -> [Tasks -> {0} \cup Attempts]]
    BY <1>6, <2>2 DEF Deliver
  <2>4. \A t \in Tasks, k \in Attempts :
          run'[t][k] = run[t][k] \/ run'[t][k].pc = "starting"
    BY <1>6 DEF Deliver, Run
  <2> QED BY <1>6, <2>1, <2>3, <2>4 DEF Deliver
<1>7. CASE Beat(r)
  <2>1. \A t \in Tasks : [rows[t] EXCEPT !.lease = "held"] \in Row
    BY TimeMakesRows
  <2> QED BY <1>7, <2>1 DEF Beat
<1>8. CASE Reap(r)
  BY <1>8, SweepMakesRows DEF Reap, Reclaim
<1> QED
  BY <1>1, <1>2, <1>3, <1>4, <1>5, <1>6, <1>7, <1>8, <1>10 DEF RunnerStep

\* A run keeps its types, and is settled with an outcome.
LEMMA RunKeepsTypes ==
  ASSUME Typed, NEW t \in Tasks, NEW k \in Attempts, RunOne(t, k)
  PROVE  Typed'
<1> USE EngineAssumption, StoreAssumption DEF Typed, TypeOK
<1>1. run[t][k] \in Run /\ rows[t] \in Row
  OBVIOUS
<1>2. /\ LivePCs = {"replying", "starting", "working", "settling", "closing"}
      /\ Outcomes = {"ready", "retryable", "permanent"}
  BY DEF LivePCs, Outcomes
<1>3. ASSUME NEW to \in LivePCs, NEW from \in LivePCs, RunStep(t, k, from, to),
             to # "settling"
      PROVE  /\ run' \in [Tasks -> [Attempts -> Run]]
             /\ \A u \in Tasks, j \in Attempts :
                  run'[u][j].pc = "settling" => run'[u][j].outcome \in Outcomes
  <2>1. [run[t][k] EXCEPT !.pc = to] \in Run
    BY <1>1, StepsMakeRuns
  <2> QED BY <1>3, <2>1 DEF RunStep, Run
<1>4. CASE CallWorker(t, k)
  BY <1>2, <1>3, <1>4 DEF CallWorker
<1>5. CASE NoWorker(t, k)
  <2>1. [run[t][k] EXCEPT !.pc = "settling", !.outcome = "permanent"] \in Run
    BY <1>1, <1>2, StepsMakeRuns
  <2>2. run' \in [Tasks -> [Attempts -> Run]]
    BY <1>5, <2>1 DEF NoWorker
  <2>3. \A u \in Tasks, j \in Attempts :
          run'[u][j].pc = "settling" => run'[u][j].outcome \in Outcomes
    BY <1>2, <1>5 DEF NoWorker, Run
  <2> QED BY <1>5, <2>2, <2>3 DEF NoWorker
<1>6. ASSUME NEW o \in Outcomes, NEW thrown \in BOOLEAN, WorkerReturns(t, k, o, thrown)
      PROVE  Typed'
  <2>1. /\ [run[t][k] EXCEPT !.pc = "closing"] \in Run
        /\ [run[t][k] EXCEPT !.pc = "settling", !.outcome = o, !.caught = thrown] \in Run
    BY <1>1, <1>2, StepsMakeRuns
  <2> QED BY <1>2, <1>6, <2>1 DEF WorkerReturns, Run
<1>7. CASE Timeout(t, k)
  <2>4. PICK thrown \in BOOLEAN :
          run' = [run EXCEPT ![t][k] =
                    [@ EXCEPT !.pc = "settling", !.outcome = "retryable",
                              !.aborted = TRUE, !.timedOut = TRUE, !.caught = thrown]]
    BY <1>7 DEF Timeout
  <2>1. [run[t][k] EXCEPT !.pc = "settling", !.outcome = "retryable", !.aborted = TRUE,
                          !.timedOut = TRUE, !.caught = thrown] \in Run
    BY <1>1, <1>2, StepsMakeRuns
  <2>2. run' \in [Tasks -> [Attempts -> Run]]
    BY <2>1, <2>4
  <2>3. \A u \in Tasks, j \in Attempts :
          run'[u][j].pc = "settling" => run'[u][j].outcome \in Outcomes
    BY <1>2, <2>4 DEF Run
  <2> QED BY <1>7, <2>2, <2>3 DEF Timeout
<1>8. ASSUME run[t][k].pc = "settling"
      PROVE  [rows EXCEPT ![t] = SettledRow(t, k)] \in [Tasks -> Row]
  <2>1. SettledRow(t, k) \in Row
    BY <1>1, <1>2, <1>8, StatementsMakeRows DEF SettledRow
  <2> QED BY <2>1
<1>9. CASE Settle(t, k)
  BY <1>2, <1>3, <1>8, <1>9 DEF Settle, RunStep
<1>10. ASSUME run' = [run EXCEPT ![t][k] = AfterFault(@)]
       PROVE  /\ run' \in [Tasks -> [Attempts -> Run]]
              /\ \A u \in Tasks, j \in Attempts :
                   run'[u][j].pc = "settling" => run'[u][j].outcome \in Outcomes
  <2>1. /\ [run[t][k] EXCEPT !.pc = "closing"] \in Run
        /\ [run[t][k] EXCEPT !.pc = "settling", !.outcome = "retryable",
                             !.caught = TRUE] \in Run
    BY <1>1, <1>2, StepsMakeRuns
  <2> QED BY <1>2, <1>10, <2>1 DEF AfterFault, Run
<1>11. CASE StartFails(t, k)
  BY <1>10, <1>11 DEF StartFails, Mishap
<1>12. CASE SettleFails(t, k)
  <2>1. recovered[t] + 1 \in Nat
    OBVIOUS
  <2> QED BY <1>8, <1>10, <1>12, <2>1 DEF SettleFails, Mishap
<1>13. CASE Finally(t, k)
  <2>1. run' \in [Tasks -> [Attempts -> Run]]
    BY <1>1, <1>13, StepsMakeRuns DEF Finally
  <2>2. \A u \in Tasks, j \in Attempts :
          run'[u][j].pc = "settling" => run'[u][j].outcome \in Outcomes
    BY <1>13 DEF Finally, NoRun
  <2>3. inFlight' \in [Runners -> [Tasks -> {0} \cup Attempts]]
    BY <1>13 DEF Finally
  <2> QED BY <1>13, <2>1, <2>2, <2>3 DEF Finally
<1> QED
  BY <1>4, <1>5, <1>6, <1>7, <1>9, <1>11, <1>12, <1>13 DEF RunOne

\* Time and the requests of the API keep the types.
LEMMA RequestKeepsTypes ==
  ASSUME Typed,
         \/ \E t \in Tasks : TimeStep(t) \/ Collect(t)
         \/ \E t \in Tasks, h \in Handles : Submit(t, h)
         \/ \E c \in Clients : RequestStep(c)
  PROVE  Typed'
<1> USE EngineAssumption, StoreAssumption DEF Typed, TypeOK
<1>1. ASSUME NEW t \in Tasks, TimeStep(t) PROVE Typed'
  <2>1. /\ [rows[t] EXCEPT !.lease = "lapsed"] \in Row
        /\ [rows[t] EXCEPT !.due = TRUE] \in Row
    BY TimeMakesRows
  <2>2. CASE LeaseLapses(t)
    BY <2>1, <2>2 DEF LeaseLapses
  <2>3. CASE LeaseStarves(t)
    BY <2>1, <2>3 DEF LeaseStarves, Mishap
  <2>4. CASE BackoffElapses(t)
    BY <2>1, <2>4 DEF BackoffElapses
  <2> QED BY <1>1, <2>2, <2>3, <2>4 DEF TimeStep
<1>2. ASSUME NEW t \in Tasks, Collect(t) PROVE Typed'
  BY <1>2, StatementsMakeRows DEF Collect
<1>3. ASSUME NEW t \in Tasks, NEW h \in Handles, Submit(t, h) PROVE Typed'
  <2>1. NewRow(h, MaxAttempts) \in Row
    BY StatementsMakeRows
  <2> QED BY <1>3, <2>1 DEF Submit
<1>4. ASSUME NEW c \in Clients, NEW t \in Tasks, NEW r \in Runners,
             BeginCancel(c, t, r) \/ BeginRetry(c, t, r)
      PROVE  Typed'
  <2>1. rows[t].attempts \in Nat
    BY DEF Row
  <2>2. req' \in [Clients -> Request]
    BY <1>4, <2>1 DEF BeginCancel, BeginRetry, Begin, Request, OpenRequest, Steps
  <2> QED BY <1>4, <2>2 DEF BeginCancel, BeginRetry, Begin
<1>5. ASSUME NEW c \in Clients, req[c].step # "idle"
      PROVE  req[c] \in OpenRequest /\ req[c].task \in Tasks /\ req[c].seen \in Nat
  BY <1>5 DEF Request, NoRequest, OpenRequest
<1>6. ASSUME NEW c \in Clients, NEW step \in Steps, NEW from, NEW next \in Steps,
             TryCancel(c, step, from, next)
      PROVE  Typed'
  <2>1. req[c] \in OpenRequest /\ req[c].task \in Tasks
    BY <1>5, <1>6 DEF TryCancel, Steps
  <2>2. [req[c] EXCEPT !.step = next] \in Request
    BY <2>1 DEF OpenRequest, Request
  <2>3. [req[c] EXCEPT !.step = "abort"] \in Request
    BY <2>1 DEF OpenRequest, Request, Steps
  <2>4. req' \in [Clients -> Request]
    BY <1>6, <2>2, <2>3 DEF TryCancel, Request
  <2>5. rows' \in [Tasks -> Row]
    <3>1. Cancelled(rows[req[c].task]) \in Row
      BY <2>1, StatementsMakeRows
    <3> QED BY <1>6, <2>1, <3>1 DEF TryCancel
  <2> QED BY <1>6, <2>4, <2>5 DEF TryCancel
<1>7. ASSUME NEW c \in Clients, CancelQueued(c) \/ CancelRunning(c) \/ CancelFailed(c)
      PROVE  Typed'
  BY <1>6, <1>7 DEF CancelQueued, CancelRunning, CancelFailed, Steps
<1>8. ASSUME NEW c \in Clients, Abort(c) PROVE Typed'
  <2> DEFINE t == req[c].task
             k == inFlight[req[c].at][t]
  <2>1. t \in Tasks /\ req[c].at \in Runners
    BY <1>5, <1>8 DEF Abort, OpenRequest
  <2>2. k \in {0} \cup Attempts
    <3>1. inFlight \in [Runners -> [Tasks -> {0} \cup Attempts]]
      OBVIOUS
    <3> QED BY ONLY <2>1, <3>1
  <2>3. req' \in [Clients -> Request]
    BY <1>8 DEF Abort, Request
  <2>4. UNCHANGED <<rows, inFlight, phase, allowance, recovered, mishaps>>
    BY <1>8 DEF Abort
  <2>5. CASE k = 0
    <3>1. UNCHANGED run
      BY <1>8, <2>5 DEF Abort
    <3> QED BY <2>3, <2>4, <3>1
  <2>6. CASE k \in Attempts
    <3>0. k # 0
      BY ONLY <2>6, EngineAssumption DEF Attempts
    <3>1. run' = [run EXCEPT ![t][k].aborted = TRUE]
      BY <1>8, <3>0 DEF Abort
    <3> HIDE DEF t, k
    <3>2. [run[t][k] EXCEPT !.aborted = TRUE] \in Run
      <4>1. run[t][k] \in Run
        BY <2>1, <2>6
      <4> QED BY ONLY <4>1, StepsMakeRuns
    <3>3. run' \in [Tasks -> [Attempts -> Run]]
      BY <2>1, <2>6, <3>1, <3>2
    <3>4. \A u \in Tasks, j \in Attempts :
            run'[u][j].pc = run[u][j].pc /\ run'[u][j].outcome = run[u][j].outcome
      BY <2>1, <2>6, <3>1 DEF Run
    <3> QED BY <2>3, <2>4, <3>3, <3>4
  <2> QED BY <2>2, <2>5, <2>6
<1>9. ASSUME NEW c \in Clients, Refuse(c) \/ RequestFails(c) PROVE Typed'
  <2>1. req' \in [Clients -> Request] /\ mishaps' \in Nat
    BY <1>9 DEF Refuse, RequestFails, Mishap, Request
  <2> QED BY <1>9, <2>1 DEF Refuse, RequestFails
<1>10. ASSUME NEW c \in Clients, WriteRetry(c) PROVE Typed'
  <2>1. req[c].task \in Tasks /\ req[c].seen + MaxAttempts \in Nat
    BY <1>5, <1>10 DEF WriteRetry
  <2>2. rows' \in [Tasks -> Row]
    <3>1. RetryRequested(rows[req[c].task], req[c].seen + MaxAttempts) \in Row
      BY <2>1, StatementsMakeRows
    <3> QED BY <1>10, <2>1, <3>1 DEF WriteRetry
  <2>3. allowance' \in [Tasks -> Nat]
    BY <1>10, <2>1 DEF WriteRetry
  <2> QED BY <1>10, <2>2, <2>3 DEF WriteRetry, Request
<1> QED
  BY <1>1, <1>2, <1>3, <1>4, <1>7, <1>8, <1>9, <1>10 DEF RequestStep

\* Nothing the engine does takes a variable out of its type.
LEMMA TypedPreserved == Typed /\ [Next]_vars => Typed'
<1>1. ASSUME Typed, UNCHANGED vars PROVE Typed'
  BY <1>1 DEF Typed, TypeOK, vars
<1> QED
  BY <1>1, RunnerKeepsTypes, RunKeepsTypes, RequestKeepsTypes DEF Next

LEMMA InitTyped == Init => Typed
  BY StatementsMakeRows, EngineAssumption
  DEF Init, Typed, TypeOK, Run, NoRun, Request, Phases, Row, NoRow, Statuses,
      Errors, Leases

\* Typed is an invariant.
LEMMA AlwaysTyped == Spec => []Typed
  BY InitTyped, TypedPreserved, PTL DEF Spec

\* The variables keep their types for any number of tasks, processes and
\* clients: a controller is registered for an attempt that exists, a request
\* that waits has a task and a process.
THEOREM TypeCorrect == Spec => []TypeOK
<1>1. Typed => TypeOK
  BY DEF Typed
<1> QED BY <1>1, AlwaysTyped, PTL

-----------------------------------------------------------------------------
(* What may become of a row. *)

\* The statements of the engine on a row that exists, each with the status
\* its guard requires.
MayBecome(row, new) ==
  \/ new = row
  \/ row.status = "queued" /\ \E r \in Runners : new = ClaimedBy(row, r)
  \/ row.status = "queued" /\ new = [row EXCEPT !.due = TRUE]
  \/ /\ row.status = "running"
     /\ \/ new = Requeued(row) \/ new = RetryScheduled(row)
        \/ new = Failed(row, "retryable") \/ new = Failed(row, "permanent")
        \/ new = Succeeded(row)
        \/ new = [row EXCEPT !.lease = "held"]
        \/ new = [row EXCEPT !.lease = "lapsed"]
  \/ row.status = "failed" /\ \E n \in Nat : new = RetryRequested(row, n)
  \/ row.status \in {"queued", "running", "failed"} /\ new = Cancelled(row)
  \/ row.status = "ready" /\ ~row.collected /\ new = Collected(row)

RowsFollow == \A t \in Tasks : MayBecome(rows[t], rows'[t])

\* The outcome of a run is one of these statements on a running row, or none.
LEMMA SettledFollows ==
  ASSUME Typed, NEW t \in Tasks, NEW k \in Attempts, run[t][k].pc = "settling"
  PROVE  MayBecome(rows[t], SettledRow(t, k))
<1>1. run[t][k].outcome \in {"ready", "retryable", "permanent"}
  BY DEF Typed, Outcomes
<1> QED BY <1>1 DEF SettledRow, Owns, MayBecome

\* The kinds of steps there are, by what they do to the table: a claim, a
\* sweep and a heartbeat write many rows, everything else at most one.
SweepStep ==
  \E S \in SUBSET Tasks : (\A t \in S : rows[t].status = "running") /\ Reclaim(S)

OneRowStep ==
  \E t \in Tasks :
    rows' = [rows EXCEPT ![t] = rows'[t]] /\ MayBecome(rows[t], rows'[t])

RowStep ==
  \/ UNCHANGED rows
  \/ \E r \in Runners : ClaimRows(r) \/ Beat(r)
  \/ SweepStep
  \/ OneRowStep
  \/ \E t \in Tasks, h \in Handles : Submit(t, h)

LEMMA StepKinds ==
  ASSUME Typed, [Next]_vars
  PROVE  RowStep
<1> USE DEF Typed, TypeOK, RowStep
<1>3. ASSUME NEW r \in Runners, RunnerStep(r) PROVE RowStep
  BY <1>3
  DEF RunnerStep, Boot, Orphans, Reap, LapsedExcept, SweepStep, Stop, Drained, End,
      Claim, ClaimLost, Deliver
<1>4. ASSUME NEW t \in Tasks, NEW new, MayBecome(rows[t], new),
             rows' = [rows EXCEPT ![t] = new]
      PROVE  RowStep
  BY <1>4 DEF OneRowStep
<1>5. ASSUME NEW t \in Tasks, NEW k \in Attempts, RunOne(t, k) PROVE RowStep
  <2>1. CASE Settle(t, k)
    BY <1>4, <2>1, SettledFollows DEF Settle, RunStep
  <2>2. CASE SettleFails(t, k)
    BY <1>4, <2>2, SettledFollows DEF SettleFails
  <2>3. CASE UNCHANGED rows
    BY <2>3
  <2> QED
    BY <1>5, <2>1, <2>2, <2>3
    DEF RunOne, CallWorker, NoWorker, Timeout, WorkerReturns, StartFails, Finally
<1>6. ASSUME NEW t \in Tasks, TimeStep(t) PROVE RowStep
  <2>1. CASE LeaseLapses(t)
    BY <1>4, <2>1 DEF LeaseLapses, MayBecome
  <2>2. CASE LeaseStarves(t)
    BY <1>4, <2>2 DEF LeaseStarves, Attended, MayBecome
  <2>3. CASE BackoffElapses(t)
    BY <1>4, <2>3 DEF BackoffElapses, MayBecome
  <2> QED BY <1>6, <2>1, <2>2, <2>3 DEF TimeStep
<1>7. ASSUME NEW t \in Tasks, Collect(t) PROVE RowStep
  BY <1>4, <1>7 DEF Collect, MayBecome
<1>8. ASSUME NEW c \in Clients, RequestStep(c) PROVE RowStep
  <2>1. ASSUME NEW step, NEW from \in {"queued", "running", "failed"}, NEW next,
               TryCancel(c, step, from, next), req[c].task \in Tasks
        PROVE  RowStep
    BY <1>4, <2>1 DEF TryCancel, MayBecome
  <2>2. req[c].step # "idle" => req[c].task \in Tasks /\ req[c].seen \in Nat
    BY DEF Request, OpenRequest, NoRequest
  <2>3. CASE CancelQueued(c) \/ CancelRunning(c) \/ CancelFailed(c)
    BY <2>1, <2>2, <2>3 DEF CancelQueued, CancelRunning, CancelFailed, TryCancel
  <2>4. CASE WriteRetry(c)
    <3>1. req[c].seen + MaxAttempts \in Nat
      BY <2>2, <2>4, EngineAssumption DEF WriteRetry
    <3> QED BY <1>4, <2>2, <2>4, <3>1 DEF WriteRetry, MayBecome
  <2>5. CASE UNCHANGED rows
    BY <2>5
  <2> QED
    BY <1>8, <2>3, <2>4, <2>5
    DEF RequestStep, BeginCancel, BeginRetry, Begin, Abort, Refuse, RequestFails
<1>9. CASE UNCHANGED vars
  BY <1>9 DEF vars
<1> QED BY <1>3, <1>5, <1>6, <1>7, <1>8, <1>9 DEF Next

\* No process, no run, no client writes a row in any other way.
LEMMA StepsFollow ==
  ASSUME Typed, [Next]_vars
  PROVE  (\E t \in Tasks, h \in Handles : Submit(t, h)) \/ RowsFollow
<1> USE DEF Typed, TypeOK, RowsFollow
<1>1. CASE UNCHANGED rows
  BY <1>1 DEF MayBecome
<1>2. CASE SweepStep
  BY <1>2 DEF SweepStep, Reclaim, RequeueAll, MayBecome
<1>3. ASSUME NEW r \in Runners, ClaimRows(r) PROVE RowsFollow
  <2>1. \A t \in Batch(r) : rows[t].status = "queued"
    BY DEF Batch, OldestWithin, Claimable
  <2>2. rows' = [t \in Tasks |->
                  IF t \in Batch(r) THEN ClaimedBy(rows[t], r) ELSE rows[t]]
    BY <1>3 DEF ClaimRows
  <2> QED BY <2>1, <2>2 DEF MayBecome
<1>4. ASSUME NEW r \in Runners, Beat(r) PROVE RowsFollow
  BY <1>4 DEF Beat, MayBecome
<1>5. CASE OneRowStep
  BY <1>5 DEF OneRowStep, MayBecome
<1> QED BY <1>1, <1>2, <1>3, <1>4, <1>5, StepKinds DEF RowStep

-----------------------------------------------------------------------------
(* Retired tasks. *)

\* A collected or cancelled task is never written again, by a late result, a
\* sweep, a claim, a heartbeat or a request that was under way.
THEOREM RetiredRowsStay == Spec => RetiredForever
<1>1. ASSUME NEW row \in Row, NEW new, MayBecome(row, new), Retired(row)
      PROVE  new = row
  BY <1>1 DEF MayBecome, Retired, Active, Row
<1>2. ASSUME Typed, [Next]_vars
      PROVE  \A t \in Tasks : Retired(rows[t]) => rows'[t] = rows[t]
  <2>1. CASE RowsFollow
    BY <1>1, <1>2, <2>1 DEF RowsFollow, Typed, TypeOK
  <2>2. ASSUME NEW t \in Tasks, NEW h \in Handles, Submit(t, h)
        PROVE  \A u \in Tasks : Retired(rows[u]) => rows'[u] = rows[u]
    BY <1>2, <2>2 DEF Submit, Retired, Typed, TypeOK
  <2> QED BY <1>2, <2>1, <2>2, StepsFollow
<1> QED BY <1>2, AlwaysTyped, PTL DEF Spec, RetiredForever

-----------------------------------------------------------------------------
(* Owners, leases and errors. *)

\* The conjuncts of OwnershipMatchesStatus and ErrorMatchesStatus for one row,
\* and that only a ready row is marked collected.
OwnedWhileRunning(row) ==
  /\ row.status = "running" <=> row.owner # NoRunner
  /\ row.status = "running" <=> row.lease # "none"

ErrorTold(row) ==
  /\ row.status = "failed" => row.error # "none"
  /\ row.status = "ready" => row.error = "none"
  /\ row.error = "permanent" => row.status \in {"failed", "cancelled"}

CollectedWhenReady(row) == row.collected => row.status = "ready"

RowSound(row) == OwnedWhileRunning(row) /\ ErrorTold(row) /\ CollectedWhenReady(row)

RowsSound == \A t \in Tasks : RowSound(rows[t])

\* Every statement sets or clears owner, lease and error with the status.
LEMMA StatementsAreSound ==
  ASSUME NEW row \in Row, NEW new, MayBecome(row, new), RowSound(row)
  PROVE  RowSound(new)
<1> USE StoreAssumption
    DEF RowSound, OwnedWhileRunning, ErrorTold, CollectedWhenReady, Row, Statuses,
        Errors, Leases
<1>1. CASE new = row
  BY <1>1
<1>2. ASSUME NEW r \in Runners, row.status = "queued", new = ClaimedBy(row, r)
      PROVE  RowSound(new)
  BY <1>2 DEF ClaimedBy
<1>3. CASE row.status = "queued" /\ new = [row EXCEPT !.due = TRUE]
  BY <1>3
<1>4. CASE row.status = "running" /\ (new = Requeued(row) \/ new = RetryScheduled(row))
  BY <1>4 DEF Requeued, RetryScheduled
<1>5. ASSUME NEW e \in {"retryable", "permanent"}, row.status = "running",
             new = Failed(row, e)
      PROVE  RowSound(new)
  BY <1>5 DEF Failed
<1>6. CASE row.status = "running" /\ new = Succeeded(row)
  BY <1>6 DEF Succeeded
<1>7. CASE /\ row.status = "running"
           /\ \/ new = [row EXCEPT !.lease = "held"]
              \/ new = [row EXCEPT !.lease = "lapsed"]
  BY <1>7
<1>8. ASSUME NEW n \in Nat, row.status = "failed", new = RetryRequested(row, n)
      PROVE  RowSound(new)
  BY <1>8 DEF RetryRequested
<1>9. CASE row.status \in {"queued", "running", "failed"} /\ new = Cancelled(row)
  BY <1>9 DEF Cancelled
<1>10. CASE row.status = "ready" /\ new = Collected(row)
  BY <1>10 DEF Collected
<1> QED
  BY <1>1, <1>2, <1>3, <1>4, <1>5, <1>6, <1>7, <1>8, <1>9, <1>10 DEF MayBecome

LEMMA RowsStaySound ==
  ASSUME Typed, RowsSound, [Next]_vars
  PROVE  RowsSound'
<1>1. CASE RowsFollow
  BY <1>1, StatementsAreSound DEF RowsFollow, RowsSound, Typed, TypeOK
<1>2. ASSUME NEW t \in Tasks, NEW h \in Handles, Submit(t, h) PROVE RowsSound'
  BY <1>2 DEF Submit, NewRow, NoRow, RowsSound, RowSound, OwnedWhileRunning, ErrorTold,
              CollectedWhenReady, Typed, TypeOK
<1> QED BY <1>1, <1>2, StepsFollow

\* RowsSound is an invariant.
LEMMA AlwaysSound == Spec => []RowsSound
<1>1. Init => RowsSound
  BY DEF Init, NoRow, RowsSound, RowSound, OwnedWhileRunning, ErrorTold, CollectedWhenReady
<1> QED BY <1>1, RowsStaySound, AlwaysTyped, PTL DEF Spec

\* A row has an owner and a lease exactly while it is running, in every
\* deployment: no statement leaves `running` and forgets a column.
THEOREM OwnersMatch == Spec => []OwnershipMatchesStatus
<1>1. RowsSound => OwnershipMatchesStatus
  BY DEF RowsSound, RowSound, OwnedWhileRunning, OwnershipMatchesStatus
<1> QED BY <1>1, AlwaysSound, PTL

\* A failed row always tells whether retrying may help, a ready one never has
\* an error, and what cannot succeed is not queued again unless asked for.
THEOREM ErrorsMatch == Spec => []ErrorMatchesStatus
<1>1. RowsSound => ErrorMatchesStatus
  BY DEF RowsSound, RowSound, ErrorTold, ErrorMatchesStatus
<1> QED BY <1>1, AlwaysSound, PTL

-----------------------------------------------------------------------------
(* Handles. *)

\* A task keeps its number, and becomes active only by being submitted.
LEMMA StatementsKeepHandles ==
  ASSUME NEW row \in Row, NEW new, MayBecome(row, new)
  PROVE  Active(new) => Active(row) /\ new.handle = row.handle
<1> USE DEF Row, Active
<1>1. CASE row.status \in {"queued", "running", "failed"}
  BY <1>1
  DEF MayBecome, ClaimedBy, Requeued, RetryScheduled, Failed, Succeeded, Cancelled,
      RetryRequested
<1>2. CASE row.status \notin {"queued", "running", "failed"}
  BY <1>2 DEF MayBecome, Collected
<1> QED BY <1>1, <1>2

\* lane-N names at most one active task, for any number of tasks, processes,
\* failures, retries and recoveries.
THEOREM HandlesAreUnique == Spec => []UniqueActiveHandle
<1>1. Init => UniqueActiveHandle
  BY DEF Init, UniqueActiveHandle, Active, NoRow
<1>2. ASSUME Typed, UniqueActiveHandle, [Next]_vars PROVE UniqueActiveHandle'
  <2>1. CASE RowsFollow
    <3>1. \A t \in Tasks :
            Active(rows'[t]) => Active(rows[t]) /\ rows'[t].handle = rows[t].handle
      BY <1>2, <2>1, StatementsKeepHandles DEF RowsFollow, Typed, TypeOK
    <3> QED BY <1>2, <3>1 DEF UniqueActiveHandle
  <2>2. ASSUME NEW t \in Tasks, NEW h \in Handles, Submit(t, h)
        PROVE  UniqueActiveHandle'
    <3>1. \A u \in Tasks : Active(rows[u]) => rows[u].handle # h
      BY <2>2 DEF Submit, IsNextHandle, HandlesInUse
    <3>2. /\ rows'[t].handle = h
          /\ \A u \in Tasks \ {t} : rows'[u] = rows[u]
      BY <1>2, <2>2 DEF Submit, NewRow, NoRow, Typed, TypeOK
    <3> QED BY <1>2, <3>1, <3>2 DEF UniqueActiveHandle
  <2> QED BY <1>2, <2>1, <2>2, StepsFollow
<1> QED BY <1>1, <1>2, AlwaysTyped, PTL DEF Spec

-----------------------------------------------------------------------------
(* What a process has in flight. *)

\* NoGhostEntry with what makes it inductive: a run is always of a process
\* and of an attempt its row has counted, so a claim never starts a run in
\* the place of one that is still going on.
RunsSound ==
  /\ NoGhostEntry
  /\ \A t \in Tasks : rows[t].status = "absent" => rows[t].attempts = 0
  /\ \A t \in Tasks, k \in Attempts :
       run[t][k].pc # "none" =>
         k <= rows[t].attempts /\ run[t][k].runner \in Runners

\* The attempts of a row never decrease, and a row that exists stays.
RowsGrow ==
  \A t \in Tasks :
    /\ rows'[t].attempts >= rows[t].attempts
    /\ rows'[t].status = "absent" => rows[t].status = "absent" /\ rows'[t] = rows[t]

LEMMA StatementsGrow ==
  ASSUME NEW row \in Row, NEW new, MayBecome(row, new)
  PROVE  /\ new.attempts >= row.attempts
         /\ new.status = "absent" => row.status = "absent" /\ new = row
<1> USE DEF Row
<1>1. CASE new = row
  BY <1>1
<1>2. ASSUME NEW r \in Runners, new = ClaimedBy(row, r)
      PROVE  new.attempts >= row.attempts /\ new.status # "absent"
  BY <1>2 DEF ClaimedBy
<1>3. CASE row.status = "queued" /\ new = [row EXCEPT !.due = TRUE]
  BY <1>3
<1>4. ASSUME new = Requeued(row) PROVE new.attempts = row.attempts /\ new.status = "queued"
  BY <1>4 DEF Requeued
<1>9. ASSUME new = RetryScheduled(row)
      PROVE  new.attempts = row.attempts /\ new.status = "queued"
  BY <1>9 DEF RetryScheduled
<1>10. ASSUME new = Succeeded(row) PROVE new.attempts = row.attempts /\ new.status = "ready"
  BY <1>10 DEF Succeeded
<1>11. ASSUME NEW e, new = Failed(row, e)
       PROVE  new.attempts = row.attempts /\ new.status = "failed"
  BY <1>11 DEF Failed
<1>12. row.attempts \in Nat /\ row.attempts >= row.attempts
  OBVIOUS
<1>5. CASE /\ row.status = "running"
           /\ \/ new = [row EXCEPT !.lease = "held"]
              \/ new = [row EXCEPT !.lease = "lapsed"]
  BY <1>5
<1>6. ASSUME NEW n \in Nat, new = RetryRequested(row, n)
      PROVE  new.attempts >= row.attempts /\ new.status # "absent"
  BY <1>6 DEF RetryRequested
<1>7. CASE new = Cancelled(row)
  BY <1>7 DEF Cancelled
<1>8. CASE row.status = "ready" /\ new = Collected(row)
  BY <1>8 DEF Collected
<1> QED
  BY <1>1, <1>2, <1>3, <1>4, <1>5, <1>6, <1>7, <1>8, <1>9, <1>10, <1>11, <1>12
  DEF MayBecome

LEMMA RowsAlwaysGrow ==
  ASSUME Typed, RunsSound, [Next]_vars
  PROVE  RowsGrow
<1>1. CASE RowsFollow
  BY <1>1, StatementsGrow DEF RowsFollow, RowsGrow, Typed, TypeOK
<1>2. ASSUME NEW t \in Tasks, NEW h \in Handles, Submit(t, h) PROVE RowsGrow
  <2>1. /\ rows'[t].attempts = 0 /\ rows'[t].status = "queued"
        /\ rows[t].attempts = 0
        /\ \A u \in Tasks \ {t} : rows'[u] = rows[u]
    BY <1>2 DEF Submit, NewRow, NoRow, RunsSound, Typed, TypeOK
  <2>2. \A u \in Tasks : rows[u].attempts \in Nat
    BY DEF Typed, TypeOK, Row
  <2> QED BY <2>1, <2>2 DEF RowsGrow
<1> QED BY <1>1, <1>2, StepsFollow

\* A step that leaves inFlight alone, begins and ends no run and moves none
\* back to the claim's reply keeps RunsSound.
QuietOnRuns ==
  /\ UNCHANGED inFlight
  /\ \A t \in Tasks, k \in Attempts :
       /\ run'[t][k].runner = run[t][k].runner
       /\ \/ run'[t][k].pc = run[t][k].pc
          \/ run[t][k].pc # "none" /\ run'[t][k].pc \in LivePCs \ {"replying"}

LEMMA QuietStepsAreSound ==
  ASSUME Typed, Typed', RunsSound, RowsGrow, QuietOnRuns
  PROVE  RunsSound'
<1>1. \A t \in Tasks : /\ rows[t].attempts \in Nat /\ rows'[t].attempts \in Nat
                       /\ rows'[t].attempts >= rows[t].attempts
  BY DEF Typed, TypeOK, Row, RowsGrow
<1>2. NoGhostEntry'
  <2> SUFFICES ASSUME NEW r \in Runners, NEW t \in Tasks, inFlight[r][t] # 0
               PROVE  /\ run'[t][inFlight[r][t]].runner = r
                      /\ run'[t][inFlight[r][t]].pc \in LivePCs \ {"replying"}
    BY DEF NoGhostEntry, QuietOnRuns
  <2>1. inFlight[r][t] \in Attempts
    BY DEF Typed, TypeOK
  <2>2. /\ run[t][inFlight[r][t]].runner = r
        /\ run[t][inFlight[r][t]].pc \in LivePCs \ {"replying"}
    BY DEF RunsSound, NoGhostEntry
  <2> QED BY <2>1, <2>2 DEF QuietOnRuns
<1>3. \A t \in Tasks, k \in Attempts :
        run'[t][k].pc # "none" =>
          k <= rows'[t].attempts /\ run'[t][k].runner \in Runners
  BY <1>1 DEF RunsSound, QuietOnRuns, Attempts
<1>4. \A t \in Tasks : rows'[t].status = "absent" => rows'[t].attempts = 0
  BY DEF RunsSound, RowsGrow
<1> QED BY <1>2, <1>3, <1>4 DEF RunsSound

\* Claims start runs in places that no run has had before, replies register
\* them, and a process that ends or stops waiting forgets them all.
LEMMA RunnerStepIsSound ==
  ASSUME Typed, Typed', RunsSound, RowsGrow, NEW r \in Runners, RunnerStep(r)
  PROVE  RunsSound'
<1> USE DEF Typed, TypeOK
<1>0. /\ \A t \in Tasks : rows'[t].status = "absent" => rows'[t].attempts = 0
      /\ \A t \in Tasks : /\ rows[t].attempts \in Nat /\ rows'[t].attempts \in Nat
                          /\ rows'[t].attempts >= rows[t].attempts
  BY DEF RunsSound, RowsGrow, Row
<1>1. CASE UNCHANGED <<run, inFlight>>
  BY <1>1, QuietStepsAreSound DEF QuietOnRuns
<1>2. CASE Stop(r)
  <2>1. QuietOnRuns
    BY <1>2 DEF Stop, QuietOnRuns, Run
  <2> QED BY <2>1, QuietStepsAreSound
<1>3. CASE Drained(r)
  <2>1. \A q \in Runners, t \in Tasks : inFlight'[q][t] \in {0, inFlight[q][t]}
    BY <1>3 DEF Drained
  <2>2. UNCHANGED <<run, rows>>
    BY <1>3 DEF Drained
  <2> QED BY <2>1, <2>2 DEF RunsSound, NoGhostEntry
<1>4. CASE End(r)
  <2>1. \A t \in Tasks, k \in Attempts :
          run'[t][k] = IF run[t][k].runner = r THEN NoRun ELSE run[t][k]
    BY <1>4 DEF End
  <2>2. \A q \in Runners, t \in Tasks :
          inFlight'[q][t] = IF q = r THEN 0 ELSE inFlight[q][t]
    BY <1>4 DEF End
  <2>3. NoGhostEntry'
    <3> SUFFICES ASSUME NEW q \in Runners, NEW t \in Tasks, inFlight'[q][t] # 0
                 PROVE  /\ run'[t][inFlight'[q][t]].runner = q
                        /\ run'[t][inFlight'[q][t]].pc \in LivePCs \ {"replying"}
      BY DEF NoGhostEntry
    <3>1. q # r /\ inFlight'[q][t] = inFlight[q][t] /\ inFlight[q][t] \in Attempts
      BY <2>2
    <3>2. /\ run[t][inFlight[q][t]].runner = q
          /\ run[t][inFlight[q][t]].pc \in LivePCs \ {"replying"}
      BY <3>1 DEF RunsSound, NoGhostEntry
    <3> QED BY <2>1, <3>1, <3>2
  <2>4. UNCHANGED rows
    BY <1>4 DEF End
  <2>5. ASSUME NEW t \in Tasks, NEW k \in Attempts, run'[t][k].pc # "none"
        PROVE  k <= rows'[t].attempts /\ run'[t][k].runner \in Runners
    <3>1. run'[t][k] = run[t][k]
      BY <2>1, <2>5 DEF NoRun
    <3> QED BY <2>4, <2>5, <3>1 DEF RunsSound
  <2> QED BY <1>0, <2>3, <2>5 DEF RunsSound
<1>5. CASE Claim(r)
  <2>1. \A t \in Tasks, k \in Attempts :
          \/ run'[t][k] = run[t][k]
          \/ /\ k = rows[t].attempts + 1 /\ k = rows'[t].attempts
             /\ run'[t][k].pc = "replying" /\ run'[t][k].runner = r
    <3>1. /\ rows' = [t \in Tasks |->
                        IF t \in Batch(r) THEN ClaimedBy(rows[t], r) ELSE rows[t]]
          /\ run' = [t \in Tasks |-> [k \in Attempts |->
                       IF t \in Batch(r) /\ k = rows[t].attempts + 1
                       THEN ClaimedRun(r, rows[t].maxAttempts) ELSE run[t][k]]]
      BY <1>5 DEF Claim, ClaimRows
    <3>2. \A t \in Tasks : ClaimedBy(rows[t], r).attempts = rows[t].attempts + 1
      BY DEF ClaimedBy, Row
    <3> QED BY <3>1, <3>2 DEF ClaimedRun, NoRun
  <2>2. UNCHANGED inFlight
    BY <1>5 DEF Claim
  <2>3. NoGhostEntry'
    <3> SUFFICES ASSUME NEW q \in Runners, NEW t \in Tasks, inFlight[q][t] # 0
                 PROVE  /\ run'[t][inFlight[q][t]].runner = q
                        /\ run'[t][inFlight[q][t]].pc \in LivePCs \ {"replying"}
      BY <2>2 DEF NoGhostEntry
    <3> DEFINE k == inFlight[q][t]
    <3>1. /\ k \in Attempts
          /\ run[t][k].runner = q /\ run[t][k].pc \in LivePCs \ {"replying"}
      BY DEF RunsSound, NoGhostEntry
    <3>2. k <= rows[t].attempts
      BY <3>1 DEF RunsSound, LivePCs
    <3>3. k # rows[t].attempts + 1
      BY <1>0, <3>1, <3>2 DEF Attempts
    <3> QED BY <2>1, <3>1, <3>3
  <2>4. ASSUME NEW t \in Tasks, NEW k \in Attempts, run'[t][k].pc # "none"
        PROVE  k <= rows'[t].attempts /\ run'[t][k].runner \in Runners
    <3>1. CASE run'[t][k] = run[t][k]
      <4>1. k <= rows[t].attempts /\ run[t][k].runner \in Runners
        BY <2>4, <3>1 DEF RunsSound
      <4> QED BY <1>0, <3>1, <4>1 DEF Attempts
    <3>2. CASE k = rows'[t].attempts /\ run'[t][k].runner = r
      BY <1>0, <3>2
    <3> QED BY <2>1, <3>1, <3>2
  <2> QED BY <1>0, <2>3, <2>4 DEF RunsSound
<1>6. CASE Deliver(r)
  <2>1. \A t \in Tasks, k \in Attempts :
          \/ run'[t][k] = run[t][k] /\ k \notin Replying(r, t)
          \/ /\ k \in Replying(r, t)
             /\ run'[t][k].pc = "starting" /\ run'[t][k].runner = r
    BY <1>6 DEF Deliver, Replying, Run
  <2>2. \A q \in Runners, t \in Tasks :
          \/ inFlight'[q][t] = inFlight[q][t]
          \/ q = r /\ inFlight'[q][t] \in Replying(r, t)
    BY <1>6 DEF Deliver, Replying
  <2>3. NoGhostEntry'
    <3> SUFFICES ASSUME NEW q \in Runners, NEW t \in Tasks, inFlight'[q][t] # 0
                 PROVE  /\ run'[t][inFlight'[q][t]].runner = q
                        /\ run'[t][inFlight'[q][t]].pc \in LivePCs \ {"replying"}
      BY DEF NoGhostEntry
    <3>1. inFlight'[q][t] \in Attempts
      OBVIOUS
    <3>2. CASE inFlight'[q][t] = inFlight[q][t]
      <4>1. /\ run[t][inFlight[q][t]].runner = q
            /\ run[t][inFlight[q][t]].pc \in LivePCs \ {"replying"}
        BY <3>2 DEF RunsSound, NoGhostEntry
      <4> QED BY <2>1, <3>1, <3>2, <4>1 DEF Replying
    <3>3. CASE q = r /\ inFlight'[q][t] \in Replying(r, t)
      BY <2>1, <3>1, <3>3 DEF LivePCs
    <3> QED BY <2>2, <3>2, <3>3
  <2>4. UNCHANGED rows
    BY <1>6 DEF Deliver
  <2>5. ASSUME NEW t \in Tasks, NEW k \in Attempts, run'[t][k].pc # "none"
        PROVE  k <= rows[t].attempts /\ run'[t][k].runner \in Runners
    <3>1. CASE run'[t][k] = run[t][k]
      BY <2>5, <3>1 DEF RunsSound
    <3>2. CASE k \in Replying(r, t) /\ run'[t][k].runner = r
      BY <3>2 DEF RunsSound, Replying
    <3> QED BY <2>1, <3>1, <3>2
  <2> QED BY <2>3, <2>4, <2>5 DEF RunsSound
<1> QED
  BY <1>1, <1>2, <1>3, <1>4, <1>5, <1>6 DEF RunnerStep, Boot, ClaimLost, Beat, Reap

\* The steps of a run keep it the run it is, until its finally block removes
\* it together with the one entry that can point to it.
LEMMA RunOneIsSound ==
  ASSUME Typed, Typed', RunsSound, RowsGrow, NEW t \in Tasks, NEW k \in Attempts,
         RunOne(t, k)
  PROVE  RunsSound'
<1> USE DEF Typed, TypeOK
<1>1. ASSUME NEW u, run[t][k].pc # "none", UNCHANGED inFlight,
             run' = [run EXCEPT ![t][k] = u],
             u.runner = run[t][k].runner, u.pc \in LivePCs \ {"replying"}
      PROVE  RunsSound'
  <2>1. \A v \in Tasks, j \in Attempts :
          run'[v][j] = IF v = t /\ j = k THEN u ELSE run[v][j]
    BY <1>1
  <2>2. QuietOnRuns
    BY <1>1, <2>1 DEF QuietOnRuns
  <2> QED BY <2>2, QuietStepsAreSound
<1>2. run[t][k] \in Run /\ LivePCs = {"replying", "starting", "working", "settling", "closing"}
  BY DEF LivePCs
<1>3. CASE CallWorker(t, k) \/ Settle(t, k)
  <2>1. PICK to \in {"working", "closing"} : run' = [run EXCEPT ![t][k].pc = to]
    BY <1>3 DEF CallWorker, Settle, RunStep
  <2> DEFINE u == [run[t][k] EXCEPT !.pc = to]
  <2>2. run' = [run EXCEPT ![t][k] = u]
    BY <2>1
  <2>3. u.runner = run[t][k].runner /\ u.pc = to
    BY <1>2 DEF Run
  <2>4. run[t][k].pc # "none" /\ UNCHANGED inFlight
    BY <1>3 DEF CallWorker, Settle, RunStep
  <2> HIDE DEF u
  <2> QED BY <1>1, <1>2, <2>1, <2>2, <2>3, <2>4
<1>4. CASE NoWorker(t, k)
  <2> DEFINE u == [run[t][k] EXCEPT !.pc = "settling", !.outcome = "permanent"]
  <2>1. run' = [run EXCEPT ![t][k] = u] /\ run[t][k].pc # "none" /\ UNCHANGED inFlight
    BY <1>4 DEF NoWorker
  <2>2. u.runner = run[t][k].runner /\ u.pc = "settling"
    BY <1>2 DEF Run
  <2> HIDE DEF u
  <2> QED BY <1>1, <1>2, <2>1, <2>2
<1>8. CASE Timeout(t, k)
  <2>3. PICK thrown \in BOOLEAN :
          run' = [run EXCEPT ![t][k] =
                    [@ EXCEPT !.pc = "settling", !.outcome = "retryable",
                              !.aborted = TRUE, !.timedOut = TRUE, !.caught = thrown]]
    BY <1>8 DEF Timeout
  <2> DEFINE u == [run[t][k] EXCEPT !.pc = "settling", !.outcome = "retryable",
                                    !.aborted = TRUE, !.timedOut = TRUE,
                                    !.caught = thrown]
  <2>1. run' = [run EXCEPT ![t][k] = u] /\ run[t][k].pc # "none" /\ UNCHANGED inFlight
    BY <1>8, <2>3 DEF Timeout
  <2>2. u.runner = run[t][k].runner /\ u.pc = "settling"
    BY <1>2 DEF Run
  <2> HIDE DEF u
  <2> QED BY <1>1, <1>2, <2>1, <2>2
<1>5. ASSUME NEW o \in Outcomes, NEW thrown \in BOOLEAN, WorkerReturns(t, k, o, thrown)
      PROVE  RunsSound'
  <2> DEFINE u == IF run[t][k].aborted
                  THEN [run[t][k] EXCEPT !.pc = "closing"]
                  ELSE [run[t][k] EXCEPT !.pc = "settling", !.outcome = o,
                                         !.caught = thrown]
  <2>1. run' = [run EXCEPT ![t][k] = u] /\ run[t][k].pc # "none" /\ UNCHANGED inFlight
    BY <1>5 DEF WorkerReturns
  <2>2. u.runner = run[t][k].runner /\ u.pc \in {"closing", "settling"}
    BY <1>2 DEF Run
  <2> HIDE DEF u
  <2> QED BY <1>1, <1>2, <2>1, <2>2
<1>6. CASE StartFails(t, k) \/ SettleFails(t, k)
  <2>1. /\ AfterFault(run[t][k]).runner = run[t][k].runner
        /\ AfterFault(run[t][k]).pc \in {"closing", "settling"}
    BY <1>2 DEF AfterFault, Run
  <2>2. /\ run' = [run EXCEPT ![t][k] = AfterFault(run[t][k])]
        /\ run[t][k].pc # "none" /\ UNCHANGED inFlight
    BY <1>6 DEF StartFails, SettleFails
  <2> QED BY <1>1, <1>2, <2>1, <2>2
<1>7. CASE Finally(t, k)
  <2>1. \A u \in Tasks, j \in Attempts :
          run'[u][j] = IF u = t /\ j = k THEN NoRun ELSE run[u][j]
    BY <1>7 DEF Finally
  <2>2. \A q \in Runners, u \in Tasks :
          inFlight'[q][u] = IF q = run[t][k].runner /\ u = t THEN 0 ELSE inFlight[q][u]
    BY <1>7 DEF Finally
  <2>3. NoGhostEntry'
    <3> SUFFICES ASSUME NEW q \in Runners, NEW u \in Tasks, inFlight'[q][u] # 0
                 PROVE  /\ run'[u][inFlight'[q][u]].runner = q
                        /\ run'[u][inFlight'[q][u]].pc \in LivePCs \ {"replying"}
      BY DEF NoGhostEntry
    <3>1. /\ inFlight'[q][u] = inFlight[q][u] /\ inFlight[q][u] \in Attempts
          /\ ~(q = run[t][k].runner /\ u = t)
      BY <2>2
    <3>2. /\ run[u][inFlight[q][u]].runner = q
          /\ run[u][inFlight[q][u]].pc \in LivePCs \ {"replying"}
      BY <3>1 DEF RunsSound, NoGhostEntry
    <3> QED BY <2>1, <3>1, <3>2
  <2>4. UNCHANGED rows
    BY <1>7 DEF Finally
  <2>5. ASSUME NEW u \in Tasks, NEW j \in Attempts, run'[u][j].pc # "none"
        PROVE  j <= rows[u].attempts /\ run'[u][j].runner \in Runners
    <3>1. run'[u][j] = run[u][j]
      BY <2>1, <2>5 DEF NoRun
    <3> QED BY <2>5, <3>1 DEF RunsSound
  <2> QED BY <2>3, <2>4, <2>5 DEF RunsSound
<1> QED BY <1>3, <1>4, <1>5, <1>6, <1>7, <1>8 DEF RunOne

LEMMA RunsStaySound ==
  ASSUME Typed, Typed', RunsSound, [Next]_vars
  PROVE  RunsSound'
<1>1. RowsGrow
  BY RowsAlwaysGrow
<1>2. CASE UNCHANGED <<run, inFlight>>
  BY <1>1, <1>2, QuietStepsAreSound DEF QuietOnRuns
<1>3. ASSUME NEW c \in Clients, Abort(c) PROVE RunsSound'
  <2> DEFINE t == req[c].task
             k == inFlight[req[c].at][t]
  <2>1. /\ UNCHANGED inFlight
        /\ UNCHANGED run \/ run' = [run EXCEPT ![t][k].aborted = TRUE]
    BY <1>3 DEF Abort
  <2> HIDE DEF t, k
  <2>2. ASSUME NEW u \in Tasks, NEW j \in Attempts
        PROVE  run'[u][j].runner = run[u][j].runner /\ run'[u][j].pc = run[u][j].pc
    <3>1. run[u][j] \in Run /\ run \in [Tasks -> [Attempts -> Run]]
      BY DEF Typed, TypeOK
    <3>2. CASE UNCHANGED run
      BY <3>2
    <3>3. CASE run' = [run EXCEPT ![t][k].aborted = TRUE]
      <4>1. CASE u = t /\ j = k
        <5>1. run'[u][j] = [run[u][j] EXCEPT !.aborted = TRUE]
          BY <3>1, <3>3, <4>1
        <5> QED BY <3>1, <5>1 DEF Run
      <4>2. CASE u = t /\ j # k
        BY <3>1, <3>3, <4>2
      <4>3. CASE u # t
        BY <3>1, <3>3, <4>3
      <4> QED BY <4>1, <4>2, <4>3
    <3> QED BY <2>1, <3>2, <3>3
  <2>3. QuietOnRuns
    BY <2>1, <2>2 DEF QuietOnRuns
  <2> QED BY <1>1, <2>3, QuietStepsAreSound
<1>4. ASSUME NEW c \in Clients, RequestStep(c) PROVE RunsSound'
  BY <1>2, <1>3, <1>4
  DEF RequestStep, BeginCancel, BeginRetry, Begin, CancelQueued, CancelRunning,
      CancelFailed, TryCancel, Refuse, RequestFails, WriteRetry
<1>5. ASSUME NEW t \in Tasks, TimeStep(t) \/ Collect(t) \/ \E h \in Handles : Submit(t, h)
      PROVE  RunsSound'
  BY <1>2, <1>5 DEF TimeStep, LeaseLapses, LeaseStarves, BackoffElapses, Collect, Submit
<1>6. CASE UNCHANGED vars
  BY <1>2, <1>6 DEF vars
<1> QED BY <1>1, <1>4, <1>5, <1>6, RunnerStepIsSound, RunOneIsSound DEF Next

\* RunsSound is an invariant.
LEMMA AlwaysRunsSound == Spec => []RunsSound
<1>1. Init => RunsSound
  BY DEF Init, RunsSound, NoGhostEntry, NoRow, NoRun
<1> QED BY <1>1, RunsStaySound, AlwaysTyped, PTL DEF Spec

\* Whatever a process holds a controller for is a run of its own that has
\* still to go through its finally block, for any number of processes and
\* claims: no entry is left behind to take a slot and renew a lease for ever.
THEOREM NoEntryIsLeft == Spec => []NoGhostEntry
<1>1. RunsSound => NoGhostEntry
  BY DEF RunsSound
<1> QED BY <1>1, AlwaysRunsSound, PTL

=============================================================================
