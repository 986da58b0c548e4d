---------------------------- MODULE TaskLifecycle ----------------------------
(***************************************************************************)
(* What the engine promises its callers about a task, with no runner,      *)
(* lease, process or request in sight: a task is accepted under a number   *)
(* no other active task of its user and lane holds, it is executed some    *)
(* number of times, and once it is retired, collected or cancelled, it     *)
(* never changes again.  Engine.tla is shown to implement it.              *)
(***************************************************************************)
EXTENDS Naturals

CONSTANTS Tasks, Handles

VARIABLES
  stage,       \* where each task is in its life
  number,      \* the handle number it was accepted under, 0 before
  executions   \* how many times its execution was started

vars == <<stage, number, executions>>

ActiveStages == {"queued", "running", "ready", "failed"}

Init ==
  /\ stage = [t \in Tasks |-> "unknown"]
  /\ number = [t \in Tasks |-> 0]
  /\ executions = [t \in Tasks |-> 0]

\* The tasks in S go from one stage to another together.
Move(S, from, to) ==
  /\ \A t \in S : stage[t] = from
  /\ stage' = [t \in Tasks |-> IF t \in S THEN to ELSE stage[t]]

Accept(t, n) ==
  /\ \A u \in Tasks : ~(stage[u] \in ActiveStages /\ number[u] = n)
  /\ Move({t}, "unknown", "queued")
  /\ number' = [number EXCEPT ![t] = n]
  /\ UNCHANGED executions

\* A claim takes several tasks at once.
Start(S) ==
  /\ Move(S, "queued", "running")
  /\ executions' = [t \in Tasks |->
                      IF t \in S THEN executions[t] + 1 ELSE executions[t]]
  /\ UNCHANGED number

\* A failed attempt is rescheduled, or a sweep gives back abandoned work.
PutBack(S) ==
  /\ Move(S, "running", "queued")
  /\ UNCHANGED <<number, executions>>

Finish(t) ==
  /\ Move({t}, "running", "ready") \/ Move({t}, "running", "failed")
  /\ UNCHANGED <<number, executions>>

Reopen(t) ==
  /\ Move({t}, "failed", "queued")
  /\ UNCHANGED <<number, executions>>

Collect(t) ==
  /\ Move({t}, "ready", "collected")
  /\ UNCHANGED <<number, executions>>

Cancel(t) ==
  /\ \E from \in {"queued", "running", "failed"} : Move({t}, from, "cancelled")
  /\ UNCHANGED <<number, executions>>

Next ==
  \/ \E t \in Tasks, n \in Handles : Accept(t, n)
  \/ \E S \in SUBSET Tasks : Start(S) \/ PutBack(S)
  \/ \E t \in Tasks : Finish(t) \/ Reopen(t) \/ Collect(t) \/ Cancel(t)

Spec == Init /\ [][Next]_vars

=============================================================================
