--------------------------- MODULE EngineRefinement ---------------------------
(***************************************************************************)
(* The engine implements TaskLifecycle: with all its processes, leases,    *)
(* crashes, late results and half-done requests, a caller sees a task      *)
(* accepted, executed, put back, finished, reopened and retired, and       *)
(* nothing else.                                                           *)
(***************************************************************************)
EXTENDS EngineProofs

-----------------------------------------------------------------------------
(* What a caller sees of a row. *)

SameToCallers(row, new) ==
  /\ StageOf(new) = StageOf(row)
  /\ new.handle = row.handle
  /\ new.attempts = row.attempts

MovesTo(row, new, stage) ==
  /\ StageOf(new) = stage
  /\ new.handle = row.handle
  /\ new.attempts = row.attempts

\* Each statement seen as a move from one stage to another.
LEMMA StatementsMove ==
  ASSUME NEW row \in Row, RowSound(row), NEW new, MayBecome(row, new)
  PROVE  \/ SameToCallers(row, new)
         \/ /\ StageOf(row) = "queued"
            /\ \E r \in Runners : new = ClaimedBy(row, r)
         \/ StageOf(row) = "running" /\ MovesTo(row, new, "queued")
         \/ StageOf(row) = "running" /\ MovesTo(row, new, "ready")
         \/ StageOf(row) = "running" /\ MovesTo(row, new, "failed")
         \/ StageOf(row) = "failed" /\ MovesTo(row, new, "queued")
         \/ StageOf(row) = "ready" /\ MovesTo(row, new, "collected")
         \/ /\ StageOf(row) \in {"queued", "running", "failed"}
            /\ MovesTo(row, new, "cancelled")
<1> USE DEF Row, StageOf, SameToCallers, MovesTo, RowSound, CollectedWhenReady
<1>1. CASE new = row
  BY <1>1
<1>2. ASSUME NEW r \in Runners, row.status = "queued", new = ClaimedBy(row, r)
      PROVE  StageOf(row) = "queued"
  BY <1>2
<1>3. CASE row.status = "queued" /\ new = [row EXCEPT !.due = TRUE]
  BY <1>3
<1>4. CASE row.status = "running" /\ new = Requeued(row)
  BY <1>4 DEF Requeued
<1>5. CASE row.status = "running" /\ new = RetryScheduled(row)
  BY <1>5 DEF RetryScheduled
<1>6. ASSUME NEW e, row.status = "running", new = Failed(row, e)
      PROVE  StageOf(row) = "running" /\ MovesTo(row, new, "failed")
  BY <1>6 DEF Failed
<1>7. CASE row.status = "running" /\ new = Succeeded(row)
  BY <1>7 DEF Succeeded
<1>8. CASE /\ row.status = "running"
           /\ \/ new = [row EXCEPT !.lease = "held"]
              \/ new = [row EXCEPT !.lease = "lapsed"]
  BY <1>8
<1>9. ASSUME NEW n \in Nat, row.status = "failed", new = RetryRequested(row, n)
      PROVE  StageOf(row) = "failed" /\ MovesTo(row, new, "queued")
  BY <1>9 DEF RetryRequested
<1>10. CASE row.status \in {"queued", "running", "failed"} /\ new = Cancelled(row)
  BY <1>10 DEF Cancelled
<1>11. CASE row.status = "ready" /\ ~row.collected /\ new = Collected(row)
  BY <1>11 DEF Collected
<1> QED
  BY <1>1, <1>2, <1>3, <1>4, <1>5, <1>6, <1>7, <1>8, <1>9, <1>10, <1>11
  DEF MayBecome

\* A claim moves a queued row to running and counts an execution.
LEMMA ClaimMoves ==
  ASSUME NEW row \in Row, RowSound(row), NEW r \in Runners, row.status = "queued"
  PROVE  /\ StageOf(row) = "queued"
         /\ StageOf(ClaimedBy(row, r)) = "running"
         /\ ClaimedBy(row, r).handle = row.handle
         /\ ClaimedBy(row, r).attempts = row.attempts + 1
  BY DEF StageOf, ClaimedBy, Row

-----------------------------------------------------------------------------
(* Each kind of step is a step of the lifecycle. *)

\* A step that shows nothing to callers is a stutter.
LEMMA HiddenStep ==
  ASSUME \A t \in Tasks : SameToCallers(rows[t], rows'[t])
  PROVE  UNCHANGED Lifecycle!vars
  BY DEF SameToCallers, Lifecycle!vars

\* The rows of a claim start together.
LEMMA ClaimRefines ==
  ASSUME Typed, RowsSound, NEW r \in Runners, ClaimRows(r)
  PROVE  Lifecycle!Next
<1> DEFINE C == Batch(r)
<1>1. C \in SUBSET Tasks /\ \A t \in C : rows[t].status = "queued"
  BY DEF Batch, OldestWithin, Claimable
<1>2. rows' = [t \in Tasks |-> IF t \in C THEN ClaimedBy(rows[t], r) ELSE rows[t]]
  BY DEF ClaimRows
<1> HIDE DEF C
<1>3. \A t \in C : /\ StageOf(rows[t]) = "queued" /\ StageOf(rows'[t]) = "running"
                   /\ rows'[t].handle = rows[t].handle
                   /\ rows'[t].attempts = rows[t].attempts + 1
  BY <1>1, <1>2, ClaimMoves DEF Typed, TypeOK, RowsSound
<1>4. \A t \in Tasks \ C : rows'[t] = rows[t]
  BY <1>2
<1>5. PICK S \in SUBSET Tasks : S = C
  BY <1>1
<1>6. Lifecycle!Start(S)
  BY <1>3, <1>4, <1>5 DEF Lifecycle!Start, Lifecycle!Move
<1> QED BY <1>6 DEF Lifecycle!Next

\* The rows of a sweep are put back together.
LEMMA SweepRefines ==
  ASSUME Typed, RowsSound, SweepStep
  PROVE  Lifecycle!Next
<1>1. PICK S \in SUBSET Tasks : (\A t \in S : rows[t].status = "running") /\ Reclaim(S)
  BY DEF SweepStep
<1>2. \A t \in S : /\ StageOf(rows[t]) = "running" /\ StageOf(rows'[t]) = "queued"
                   /\ rows'[t].handle = rows[t].handle
                   /\ rows'[t].attempts = rows[t].attempts
  BY <1>1 DEF Reclaim, RequeueAll, Requeued, StageOf, Typed, TypeOK, Row
<1>3. \A t \in Tasks \ S : rows'[t] = rows[t]
  BY <1>1 DEF Reclaim, RequeueAll
<1>4. Lifecycle!PutBack(S)
  BY <1>2, <1>3 DEF Lifecycle!PutBack, Lifecycle!Move
<1> QED BY <1>4 DEF Lifecycle!Next

\* A heartbeat shows nothing.
LEMMA BeatRefines ==
  ASSUME Typed, NEW r \in Runners, Beat(r)
  PROVE  UNCHANGED Lifecycle!vars
<1>1. \A t \in Tasks : SameToCallers(rows[t], [rows[t] EXCEPT !.lease = "held"])
  BY DEF SameToCallers, StageOf, Typed, TypeOK, Row
<1>2. \A t \in Tasks : SameToCallers(rows[t], rows[t])
  BY DEF SameToCallers
<1>3. \A t \in Tasks : SameToCallers(rows[t], rows'[t])
  BY <1>1, <1>2 DEF Beat
<1> QED BY <1>3, HiddenStep

\* A submission accepts the task under a number that is free.
LEMMA SubmitRefines ==
  ASSUME Typed, RowsSound, RunsSound, NEW t \in Tasks, NEW h \in Handles, Submit(t, h)
  PROVE  Lifecycle!Next
<1>1. /\ StageOf(rows[t]) = "unknown" /\ rows[t].attempts = 0
      /\ StageOf(rows'[t]) = "queued" /\ rows'[t].attempts = 0
      /\ rows'[t].handle = h
      /\ \A u \in Tasks \ {t} : rows'[u] = rows[u]
  BY DEF Submit, NewRow, NoRow, StageOf, RunsSound, Typed, TypeOK
<1>2. \A u \in Tasks : StageOf(rows[u]) \in Lifecycle!ActiveStages => rows[u].handle # h
  BY DEF Submit, IsNextHandle, HandlesInUse, Active, StageOf, Lifecycle!ActiveStages
<1>3. Lifecycle!Accept(t, h)
  BY <1>1, <1>2 DEF Lifecycle!Accept, Lifecycle!Move
<1> QED BY <1>3 DEF Lifecycle!Next

\* A statement on one row is a step of that task, or shows nothing.
LEMMA OneRowRefines ==
  ASSUME Typed, RowsSound, OneRowStep
  PROVE  [Lifecycle!Next]_(Lifecycle!vars)
<1>1. PICK t \in Tasks :
        rows' = [rows EXCEPT ![t] = rows'[t]] /\ MayBecome(rows[t], rows'[t])
  BY DEF OneRowStep
<1>2. rows[t] \in Row /\ RowSound(rows[t])
  BY DEF Typed, TypeOK, RowsSound
<1>3. \A u \in Tasks \ {t} : rows'[u] = rows[u]
  BY <1>1 DEF Typed, TypeOK
<1>4. CASE SameToCallers(rows[t], rows'[t])
  BY <1>3, <1>4, HiddenStep DEF SameToCallers
<1>5. ASSUME NEW r \in Runners, StageOf(rows[t]) = "queued", rows'[t] = ClaimedBy(rows[t], r)
      PROVE  Lifecycle!Next
  <2>1. rows[t].status = "queued"
    BY <1>5 DEF StageOf
  <2>2. Lifecycle!Start({t})
    BY <1>2, <1>3, <1>5, <2>1, ClaimMoves DEF Lifecycle!Start, Lifecycle!Move
  <2> QED BY <2>2 DEF Lifecycle!Next
<1>6. CASE StageOf(rows[t]) = "running" /\ MovesTo(rows[t], rows'[t], "queued")
  <2>1. Lifecycle!PutBack({t})
    BY <1>3, <1>6 DEF MovesTo, Lifecycle!PutBack, Lifecycle!Move
  <2> QED BY <2>1 DEF Lifecycle!Next
<1>7. CASE \/ StageOf(rows[t]) = "running" /\ MovesTo(rows[t], rows'[t], "ready")
           \/ StageOf(rows[t]) = "running" /\ MovesTo(rows[t], rows'[t], "failed")
  <2>1. Lifecycle!Finish(t)
    BY <1>3, <1>7 DEF MovesTo, Lifecycle!Finish, Lifecycle!Move
  <2> QED BY <2>1 DEF Lifecycle!Next
<1>8. CASE StageOf(rows[t]) = "failed" /\ MovesTo(rows[t], rows'[t], "queued")
  <2>1. Lifecycle!Reopen(t)
    BY <1>3, <1>8 DEF MovesTo, Lifecycle!Reopen, Lifecycle!Move
  <2> QED BY <2>1 DEF Lifecycle!Next
<1>9. CASE StageOf(rows[t]) = "ready" /\ MovesTo(rows[t], rows'[t], "collected")
  <2>1. Lifecycle!Collect(t)
    BY <1>3, <1>9 DEF MovesTo, Lifecycle!Collect, Lifecycle!Move
  <2> QED BY <2>1 DEF Lifecycle!Next
<1>10. CASE /\ StageOf(rows[t]) \in {"queued", "running", "failed"}
            /\ MovesTo(rows[t], rows'[t], "cancelled")
  <2>1. Lifecycle!Cancel(t)
    BY <1>3, <1>10 DEF MovesTo, Lifecycle!Cancel, Lifecycle!Move
  <2> QED BY <2>1 DEF Lifecycle!Next
<1> QED
  BY <1>1, <1>2, <1>4, <1>5, <1>6, <1>7, <1>8, <1>9, <1>10, StatementsMove

-----------------------------------------------------------------------------
\* Every behaviour of the engine is a behaviour of the lifecycle, for any
\* number of tasks, processes and clients, whatever crashes or comes late.
THEOREM EngineRefines == Spec => ImplementsLifecycle
<1>1. Init => Lifecycle!Init
  BY DEF Init, NoRow, StageOf, Lifecycle!Init
<1>2. ASSUME Typed, RowsSound, RunsSound, [Next]_vars
      PROVE  [Lifecycle!Next]_(Lifecycle!vars)
  <2>1. CASE UNCHANGED rows
    BY <2>1 DEF Lifecycle!vars
  <2> QED
    BY <1>2, <2>1, StepKinds, ClaimRefines, BeatRefines, SweepRefines, SubmitRefines,
       OneRowRefines
    DEF RowStep
<1> QED
  BY <1>1, <1>2, AlwaysTyped, AlwaysSound, AlwaysRunsSound, PTL
  DEF Spec, ImplementsLifecycle, Lifecycle!Spec

=============================================================================
