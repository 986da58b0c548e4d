------------------------------ MODULE TaskStore ------------------------------
(***************************************************************************)
(* The `tasks` table as a value, and the statements repository.ts and its  *)
(* callers run on one row of it.  A statement is an operator from the row  *)
(* before to the row after; its WHERE clause is the guard of the action    *)
(* that uses it.  Timestamps are abstracted to what the statements compare *)
(* them with: `runAfter` to whether it has passed, `leaseUntil` to whether *)
(* it is NULL, in the future or in the past.  Params, results and the text *)
(* of errors are left out.                                                 *)
(*                                                                         *)
(* An operator right before the one it resembles is a mutated form of it,  *)
(* named for the mistake it makes; no other definition uses it.            *)
(***************************************************************************)
EXTENDS HandleNumbers, FiniteSets

CONSTANTS
  Tasks,        \* tasks of one user on one lane, numbered in "createdAt" order
  Handles,      \* the handle numbers an allocation may arrive at
  Runners,      \* runner ids: one per life of a process
  NoRunner      \* SQL NULL in "runnerId"

ASSUME StoreAssumption ==
  /\ Tasks \subseteq Nat
  /\ Handles \subseteq Nat \ {0}
  /\ NoRunner \notin Runners

Statuses == {"absent", "queued", "running", "ready", "failed", "cancelled"}
Errors == {"none", "retryable", "permanent"}
Leases == {"none", "held", "lapsed"}

Row ==
  [status: Statuses, handle: Nat, attempts: Nat, maxAttempts: Nat,
   error: Errors, due: BOOLEAN, lease: Leases,
   owner: Runners \cup {NoRunner}, collected: BOOLEAN]

NoRow ==
  [status |-> "absent", handle |-> 0, attempts |-> 0, maxAttempts |-> 0,
   error |-> "none", due |-> FALSE, lease |-> "none",
   owner |-> NoRunner, collected |-> FALSE]

-----------------------------------------------------------------------------
(* The partial unique index, and the number the allocation query computes. *)

\* The predicate of tasks_active_handle_uniq.
Active(row) ==
  \/ row.status \in {"queued", "running", "failed"}
  \/ row.status = "ready" /\ ~row.collected

Retired(row) == row.status # "absent" /\ ~Active(row)

HandlesQueuedOrRunning(rows) ==
  {rows[t].handle : t \in {u \in Tasks : rows[u].status \in {"queued", "running"}}}

HandlesInUse(rows) ==
  {rows[t].handle : t \in {u \in Tasks : Active(rows[u])}}

NewRow(handle, max) ==
  [NoRow EXCEPT !.status = "queued", !.handle = handle,
                !.maxAttempts = max, !.due = TRUE]

-----------------------------------------------------------------------------
(* Patches. *)

ClaimedBy(row, runner) ==
  [row EXCEPT !.status = "running", !.attempts = @ + 1,
              !.owner = runner, !.lease = "held"]

\* Both recovery sweeps write the same columns.
Requeued(row) ==
  [row EXCEPT !.status = "queued", !.owner = NoRunner,
              !.lease = "none", !.due = TRUE]

RetryScheduledStillOwned(row) ==
  [row EXCEPT !.status = "queued", !.error = "retryable",
              !.lease = "none", !.due = FALSE]

\* fail() when the error is retryable and the budget is not spent.
RetryScheduled(row) ==
  [row EXCEPT !.status = "queued", !.error = "retryable",
              !.owner = NoRunner, !.lease = "none", !.due = FALSE]

FailedUntyped(row, error) ==
  [row EXCEPT !.status = "failed", !.error = "exhausted",
              !.owner = NoRunner, !.lease = "none"]

\* fail() otherwise: an exhausted error stays retryable.
Failed(row, error) ==
  [row EXCEPT !.status = "failed", !.error = error,
              !.owner = NoRunner, !.lease = "none"]

SucceededKeepingError(row) ==
  [row EXCEPT !.status = "ready", !.owner = NoRunner, !.lease = "none"]

Succeeded(row) ==
  [row EXCEPT !.status = "ready", !.error = "none",
              !.owner = NoRunner, !.lease = "none"]

\* The patch leaves "runAfter" and the error alone.
Cancelled(row) ==
  [row EXCEPT !.status = "cancelled", !.owner = NoRunner, !.lease = "none"]

RetryRequestedFromZero(row, max) ==
  [row EXCEPT !.status = "queued", !.error = "none", !.due = TRUE,
              !.owner = NoRunner, !.lease = "none", !.attempts = 0]

\* retry() extends the budget and leaves `attempts` alone.
RetryRequested(row, max) ==
  [row EXCEPT !.status = "queued", !.error = "none", !.due = TRUE,
              !.owner = NoRunner, !.lease = "none", !.maxAttempts = max]

Collected(row) == [row EXCEPT !.collected = TRUE]

-----------------------------------------------------------------------------
(* Reads. *)

\* findByHandle: of the rows that ever had the number, the latest.
FoundByHandle(rows, t) ==
  /\ rows[t].status # "absent"
  /\ \A u \in Tasks : u > t => rows[u].handle # rows[t].handle

-----------------------------------------------------------------------------
(* WHERE clauses of the statements that touch many rows. *)

ClaimableAnyDue(rows) == {t \in Tasks : rows[t].status # "absent" /\ rows[t].due}

\* The claim's subquery, without its LIMIT.
Claimable(rows) == {t \in Tasks : rows[t].status = "queued" /\ rows[t].due}

OldestOf(S, taken, limit) ==
  {t \in S : Cardinality({u \in S : u < t}) < limit}

\* ORDER BY "createdAt" LIMIT (limit - taken).
OldestWithin(S, taken, limit) ==
  {t \in S : Cardinality({u \in S : u < t}) + taken < limit}

Orphans(rows, runner) ==
  {t \in Tasks : rows[t].status = "running" /\ rows[t].owner # runner}

RunningExcept(rows, excluded) ==
  {t \in Tasks : rows[t].status = "running" /\ t \notin excluded}

LapsedExcept(rows, excluded) ==
  {t \in Tasks : /\ rows[t].status = "running"
                 /\ rows[t].lease = "lapsed"
                 /\ t \notin excluded}

RequeueAll(rows, S) ==
  [t \in Tasks |-> IF t \in S THEN Requeued(rows[t]) ELSE rows[t]]

=============================================================================
