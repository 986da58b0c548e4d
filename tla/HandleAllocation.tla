--------------------------- MODULE HandleAllocation ---------------------------
(***************************************************************************)
(* Concurrent submissions on one lane of one user: the allocation          *)
(* transaction of repository.ts under READ COMMITTED, the retry loop of    *)
(* handles.ts around it, and the partial unique index under both.          *)
(*                                                                         *)
(* A transaction begins, which fixes "createdAt"; takes the lane's         *)
(* advisory lock unless that is turned off; reads the numbers in use from  *)
(* what is committed; inserts, which waits while an uncommitted row holds  *)
(* the same index entry and fails when a committed one does; and commits.  *)
(* Meanwhile accepted tasks are collected or cancelled.                    *)
(*                                                                         *)
(* An operator right before the one it resembles is a mutated form of it,  *)
(* named for the mistake it makes; no other definition uses it.            *)
(***************************************************************************)
EXTENDS HandleNumbers, FiniteSets

CONSTANTS
  Submissions,            \* each is one call of allocateHandleAndInsert
  Handles,                \* the numbers an allocation may arrive at
  MaxAllocationAttempts,  \* MAX_ALLOCATION_ATTEMPTS
  Nobody                  \* the lock is free

ASSUME AllocationAssumption ==
  /\ IsFiniteSet(Submissions)
  /\ Handles \subseteq Nat \ {0}
  /\ MaxAllocationAttempts \in Nat \ {0}
  /\ Nobody \notin Submissions

VARIABLES
  pc,       \* how far each submission is
  number,   \* the number its current transaction picked, 0 if none
  tries,    \* transactions begun
  born      \* now() of its current transaction, as a rank; 0 before
VARIABLES
  lock,     \* who holds the advisory lock of the lane
  clock,    \* transactions begun by anybody
  useLaneLock  \* AllocateOptions.useLaneLock, on unless a test turns it off

vars == <<pc, number, tries, born, lock, clock, useLaneLock>>

\* "accepted" and "retired" are committed rows; "picked" and "inserted" belong
\* to an open transaction, and only the latter is in the index.
PCs == {"calling", "begun", "locked", "picked", "inserted",
        "accepted", "retired", "conflict", "error"}

TypeOK ==
  /\ pc \in [Submissions -> PCs]
  /\ number \in [Submissions -> {0} \cup Handles]
  /\ tries \in [Submissions -> 0 .. MaxAllocationAttempts]
  /\ born \in [Submissions -> Nat]
  /\ lock \in Submissions \cup {Nobody}
  /\ clock \in Nat
  /\ useLaneLock \in BOOLEAN
  /\ \A s \in Submissions :
       /\ number[s] # 0 <=> pc[s] \in {"picked", "inserted", "accepted", "retired"}
       /\ pc[s] = "calling" => tries[s] < MaxAllocationAttempts

Init ==
  /\ pc = [s \in Submissions |-> "calling"]
  /\ number = [s \in Submissions |-> 0]
  /\ tries = [s \in Submissions |-> 0]
  /\ born = [s \in Submissions |-> 0]
  /\ lock = Nobody
  /\ clock = 0
  /\ useLaneLock \in BOOLEAN

Goto(s, from, to) == pc[s] = from /\ pc' = [pc EXCEPT ![s] = to]

ReleaseNothing(s) == lock
Release(s) == IF lock = s THEN Nobody ELSE lock

\* What a statement that starts now sees.
Committed(n) == {s \in Submissions : pc[s] = "accepted" /\ number[s] = n}
InUse == {number[s] : s \in {u \in Submissions : pc[u] = "accepted"}}

\* Index entries of transactions that are still open.
Uncommitted(n) == {s \in Submissions : pc[s] = "inserted" /\ number[s] = n}

Begin(s) ==
  /\ Goto(s, "calling", "begun")
  /\ tries' = [tries EXCEPT ![s] = @ + 1]
  /\ clock' = clock + 1
  /\ born' = [born EXCEPT ![s] = clock + 1]
  /\ UNCHANGED <<number, lock, useLaneLock>>

LockNothing(s) ==
  /\ Goto(s, "begun", "locked")
  /\ UNCHANGED <<number, tries, born, lock, clock, useLaneLock>>

LockLane(s) ==
  /\ Goto(s, "begun", "locked")
  /\ IF useLaneLock THEN lock = Nobody /\ lock' = s ELSE UNCHANGED lock
  /\ UNCHANGED <<number, tries, born, clock, useLaneLock>>

PickAnyFree(s, n) ==
  /\ n \notin InUse
  /\ Goto(s, "locked", "picked")
  /\ number' = [number EXCEPT ![s] = n]
  /\ UNCHANGED <<tries, born, lock, clock, useLaneLock>>

\* The WITH part of the INSERT, on the snapshot of the statement.
Pick(s, n) ==
  /\ IsNextHandle(n, InUse)
  /\ Goto(s, "locked", "picked")
  /\ number' = [number EXCEPT ![s] = n]
  /\ UNCHANGED <<tries, born, lock, clock, useLaneLock>>

InsertUnchecked(s) ==
  /\ Goto(s, "picked", "inserted")
  /\ UNCHANGED <<number, tries, born, lock, clock, useLaneLock>>

\* The row goes into the index; it waits for an open transaction's entry.
Insert(s) ==
  /\ Committed(number[s]) = {}
  /\ Uncommitted(number[s]) = {}
  /\ Goto(s, "picked", "inserted")
  /\ UNCHANGED <<number, tries, born, lock, clock, useLaneLock>>

GiveUpAtOnce(s) == "conflict"
AfterConflict(s) ==
  IF tries[s] < MaxAllocationAttempts THEN "calling" ELSE "conflict"

\* 23505: the transaction rolls back, and the loop tries again or gives up.
LoseRace(s) ==
  /\ Committed(number[s]) # {}
  /\ Goto(s, "picked", AfterConflict(s))
  /\ number' = [number EXCEPT ![s] = 0]
  /\ lock' = Release(s)
  /\ UNCHANGED <<tries, born, clock, useLaneLock>>

\* The `accepted` event is inserted and the transaction commits.
Commit(s) ==
  /\ Goto(s, "inserted", "accepted")
  /\ lock' = Release(s)
  /\ UNCHANGED <<number, tries, born, clock, useLaneLock>>

FailKeepingNumber(s) ==
  /\ pc[s] \in {"begun", "locked", "picked", "inserted"}
  /\ pc' = [pc EXCEPT ![s] = "error"]
  /\ lock' = Release(s)
  /\ UNCHANGED <<number, tries, born, clock, useLaneLock>>

\* The connection or a statement fails: not a conflict, so not retried.
Fail(s) ==
  /\ pc[s] \in {"begun", "locked", "picked", "inserted"}
  /\ pc' = [pc EXCEPT ![s] = "error"]
  /\ number' = [number EXCEPT ![s] = 0]
  /\ lock' = Release(s)
  /\ UNCHANGED <<tries, born, clock, useLaneLock>>

\* A task is cancelled, or ready and collected.
Retire(s) ==
  /\ Goto(s, "accepted", "retired")
  /\ UNCHANGED <<number, tries, born, lock, clock, useLaneLock>>

Allocate(s) ==
  \/ Begin(s) \/ LockLane(s) \/ Insert(s) \/ LoseRace(s) \/ Commit(s)
  \/ \E n \in Handles : Pick(s, n)

Next == \E s \in Submissions : Allocate(s) \/ Fail(s) \/ Retire(s)

Spec == Init /\ [][Next]_vars

\* The database answers every statement.  A lock or an index entry that is
\* waited for is granted in some order: a submission may be overtaken, but
\* only by one that then finishes.
FairSpec == Spec /\ \A s \in Submissions : WF_vars(Allocate(s))

-----------------------------------------------------------------------------
Open(s) == pc[s] \in {"begun", "locked", "picked", "inserted"}
Finished(s) == pc[s] \in {"accepted", "retired", "conflict", "error"}

\* No two active tasks hold one number, though the queries that picked the
\* numbers may have read the same snapshot.
UniqueAmongActive ==
  \A s, u \in Submissions :
    pc[s] = "accepted" /\ pc[u] = "accepted" /\ number[s] = number[u] => s = u

\* handles.ts:13: with the lock in play nobody ever needs a second attempt,
\* whatever is retired or fails meanwhile.
LockSparesRetries == useLaneLock => \A s \in Submissions : tries[s] <= 1

\* Without the lock a submission loses at most once to each other one, so as
\* many attempts as there are concurrent submissions always suffice.
AttemptsSuffice ==
  Cardinality(Submissions) <= MaxAllocationAttempts =>
    \A s \in Submissions : pc[s] # "conflict"

\* Until something is retired the numbers run from 1 without a gap, whoever
\* loses, retries or fails.
NumbersAreConsecutive ==
  (\A s \in Submissions : pc[s] # "retired") =>
    InUse = 1 .. Cardinality({s \in Submissions : pc[s] = "accepted"})

\* The lock and the index never leave submissions waiting for each other.
EveryCallReturns == \A s \in Submissions : (pc[s] = "calling") ~> Finished(s)

\* Committing is the one step that accepts a task, and it does so under a
\* number that no active task holds.
Lifecycle ==
  INSTANCE TaskLifecycle WITH
    Tasks <- Submissions,
    stage <- [s \in Submissions |->
                IF pc[s] = "accepted" THEN "queued"
                ELSE IF pc[s] = "retired" THEN "cancelled" ELSE "unknown"],
    number <- [s \in Submissions |->
                 IF pc[s] \in {"accepted", "retired"} THEN number[s] ELSE 0],
    executions <- [s \in Submissions |-> 0]

ImplementsLifecycle == Lifecycle!Spec

-----------------------------------------------------------------------------
\* findByHandle: the row with the latest "createdAt" among those that ever
\* had the number.
FoundByHandle(n) ==
  {s \in Submissions :
     /\ pc[s] \in {"accepted", "retired"} /\ number[s] = n
     /\ \A u \in Submissions :
          pc[u] \in {"accepted", "retired"} /\ number[u] = n => born[u] <= born[s]}

\* task.routes.ts:164: a handle resolves to the active task that holds it.
LookupFindsHolder ==
  useLaneLock =>
    \A n \in Handles : Committed(n) # {} => FoundByHandle(n) = Committed(n)

=============================================================================
