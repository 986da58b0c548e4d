----------------------------- MODULE EngineBounds ----------------------------
(***************************************************************************)
(* How much a process takes on, how often a task is executed, and which    *)
(* process may take a row from which, for any number of tasks, processes   *)
(* and mishaps, any concurrency and any attempt budget.                    *)
(***************************************************************************)
EXTENDS EngineProofs, FiniteSetTheorems, WellFoundedInduction

-----------------------------------------------------------------------------
(* Counting. *)

\* A finite set of numbers has a largest one: strict inclusion among the sets
\* of larger ones is well founded.
LEMMA Largest ==
  ASSUME NEW D \in SUBSET Nat, IsFiniteSet(D), D # {}
  PROVE  \E m \in D : \A e \in D : e <= m
<1> DEFINE above(d) == {e \in D : e > d}
           Above == {above(d) : d \in D}
<1>1. Above \subseteq FiniteSubsetsOf(D) /\ Above # {}
  <2>1. ASSUME NEW d \in D PROVE above(d) \in SUBSET D /\ IsFiniteSet(above(d))
    BY FS_Subset
  <2> QED
    BY <2>1 DEF FiniteSubsetsOf
<1>2. PICK X \in Above : \A Y \in Above : ~ (<<Y, X>> \in StrictSubsetOrdering(D))
  BY <1>1, WFMin, FS_StrictSubsetOrderingWellFounded
<1>3. PICK m \in D : X = above(m)
  BY <1>2
<1>4. ASSUME NEW e \in D, e > m PROVE FALSE
  <2>1. m \in Nat /\ e \in Nat /\ D \subseteq Nat
    OBVIOUS
  <2>3. above(e) \subseteq above(m)
    <3>1. ASSUME NEW d \in D, d > e PROVE d > m
      <4>1. d \in Nat
        BY <2>1
      <4> QED
        BY <1>4, <2>1, <3>1, <4>1
    <3> QED
      BY <3>1
  <2>4. e \in above(m) /\ e \notin above(e)
    BY <1>4, <2>1
  <2>2. <<above(e), X>> \in StrictSubsetOrdering(D)
    BY <1>3, <2>3, <2>4 DEF StrictSubsetOrdering
  <2> QED
    BY <1>2, <2>2
<1>5. \A e \in D : e <= m
  BY <1>4
<1> QED
  BY <1>5

\* And a set of numbers a smallest.
LEMMA Smallest ==
  ASSUME NEW D \in SUBSET Nat, D # {}
  PROVE  \E m \in D : \A e \in D : m <= e
<1>1. PICK n \in D : TRUE
  OBVIOUS
<1> DEFINE upTo(d) == 0 .. d
           UpTo == {upTo(d) : d \in D}
<1>2. UpTo \subseteq FiniteSubsetsOf(Nat) /\ UpTo # {}
  <2>1. ASSUME NEW d \in D PROVE upTo(d) \in SUBSET Nat /\ IsFiniteSet(upTo(d))
    <3>1. 0 \in Int /\ d \in Int
      OBVIOUS
    <3> QED
      BY <3>1, FS_Interval
  <2> QED
    BY <2>1 DEF FiniteSubsetsOf
<1>3. PICK X \in UpTo : \A Y \in UpTo : ~ (<<Y, X>> \in StrictSubsetOrdering(Nat))
  BY <1>2, WFMin, FS_StrictSubsetOrderingWellFounded
<1>4. PICK m \in D : X = upTo(m)
  BY <1>3
<1>5. ASSUME NEW e \in D, e < m PROVE FALSE
  <2>1. upTo(e) \subseteq upTo(m) /\ m \in upTo(m) /\ m \notin upTo(e)
    BY <1>5
  <2>2. <<upTo(e), X>> \in StrictSubsetOrdering(Nat)
    BY <1>4, <2>1 DEF StrictSubsetOrdering
  <2> QED
    BY <1>3, <2>2
<1>6. \A e \in D : m <= e
  BY <1>5
<1> QED
  BY <1>6

\* A set whose finite parts are bounded is finite.
LEMMA BoundedIsFinite ==
  ASSUME NEW S, NEW n \in Nat,
         \A D \in SUBSET S : IsFiniteSet(D) => Cardinality(D) <= n
  PROVE  IsFiniteSet(S) /\ Cardinality(S) <= n
<1> SUFFICES ASSUME ~IsFiniteSet(S) PROVE FALSE
  OBVIOUS
<1> DEFINE Size(D) == IsFiniteSet(D) /\ D \in SUBSET S
           Sizes == {Cardinality(D) : D \in {E \in SUBSET S : IsFiniteSet(E)}}
           Missing == Nat \ Sizes
<1>1. n + 1 \in Missing
  <2>1. ASSUME NEW D \in SUBSET S, IsFiniteSet(D), Cardinality(D) = n + 1 PROVE FALSE
    BY <2>1
  <2> QED
    BY <2>1
<1>2. PICK m \in Missing : \A e \in Missing : m <= e
  <2> HIDE DEF Missing
  <2> QED
    BY <1>1, Smallest DEF Missing
<1>3. m # 0
  BY FS_EmptySet, <1>2
<1>4. m - 1 \in Nat /\ m - 1 \notin Missing
  BY <1>2, <1>3
<1>5. PICK D \in SUBSET S : IsFiniteSet(D) /\ Cardinality(D) = m - 1
  BY <1>4
<1>6. PICK x \in S : x \notin D
  BY <1>5
<1>7. IsFiniteSet(D \cup {x}) /\ Cardinality(D \cup {x}) = m
  BY <1>4, <1>5, <1>6, FS_AddElement
<1> QED
  BY <1>2, <1>6, <1>7

\* ORDER BY ... LIMIT takes no more rows than there is room for.
LEMMA OldestFit ==
  ASSUME NEW S \in SUBSET Nat, NEW taken \in Nat, NEW limit \in Nat, taken <= limit
  PROVE  /\ IsFiniteSet(OldestWithin(S, taken, limit))
         /\ Cardinality(OldestWithin(S, taken, limit)) + taken <= limit
<1> DEFINE C == OldestWithin(S, taken, limit)
<1>1. ASSUME NEW D \in SUBSET C, IsFiniteSet(D) PROVE Cardinality(D) <= limit - taken
  <2>1. D \in SUBSET Nat /\ D \in SUBSET S
    BY DEF OldestWithin
  <2>2. CASE D = {}
    BY <2>2, FS_EmptySet
  <2>3. CASE D # {}
    <3>1. PICK m \in D : \A e \in D : e <= m
      BY <1>1, <2>1, <2>3, Largest
    <3> DEFINE B == {u \in S : u < m}
    <3>2. IsFiniteSet(B) /\ Cardinality(B) \in Nat
      <4>0. m \in Nat /\ S \subseteq Nat
        BY <2>1, <3>1
      <4>1. ASSUME NEW u \in B PROVE u \in Nat /\ u <= m
        <5>1. u \in Nat /\ u < m
          BY <4>0, <4>1
        <5> QED
          BY <4>0, <5>1
      <4> QED
        BY <4>0, <4>1, FS_BoundedSetOfNaturals, FS_CardinalityType
    <3>3. Cardinality(B) + taken < limit
      BY <3>1 DEF OldestWithin
    <3>4. D \ {m} \in SUBSET B
      BY <2>1, <3>1
    <3>5. Cardinality(D \ {m}) <= Cardinality(B) /\ Cardinality(D \ {m}) = Cardinality(D) - 1
      BY <1>1, <3>1, <3>2, <3>4, FS_Subset, FS_RemoveElement
    <3>6. Cardinality(D) \in Nat
      BY <1>1, FS_CardinalityType
    <3> HIDE DEF B
    <3> QED
      BY <3>2, <3>3, <3>5, <3>6
  <2> QED
    BY <2>2, <2>3
<1>2. limit - taken \in Nat
  OBVIOUS
<1> HIDE DEF C
<1>3. IsFiniteSet(C) /\ Cardinality(C) <= limit - taken
  BY <1>1, <1>2, BoundedIsFinite
<1>4. Cardinality(C) \in Nat
  BY <1>3, FS_CardinalityType
<1> QED
  BY <1>3, <1>4 DEF C

-----------------------------------------------------------------------------
(* Slots. *)

\* The tasks a process has in flight, or has claimed and not heard of.
Busy(r) == {t \in Tasks : inFlight[r][t] # 0 \/ Replying(r, t) # {}}

SlotsInv ==
  \A r \in Runners : IsFiniteSet(Busy(r)) /\ Cardinality(Busy(r)) <= Concurrency

\* A step that only hears of claims, ends runs and forgets.
Relieves ==
  /\ \A t \in Tasks, r \in Runners :
       /\ inFlight'[r][t] # 0 => inFlight[r][t] # 0 \/ Replying(r, t) # {}
       /\ \A k \in Attempts :
            run'[t][k].pc = "replying" /\ run'[t][k].runner = r =>
              run[t][k].pc = "replying" /\ run[t][k].runner = r
  /\ \A t \in Tasks, k \in Attempts :
       run'[t][k].pc \in Unsettled =>
         run[t][k].pc \in Unsettled /\ run'[t][k].max = run[t][k].max

LEMMA ReliefKeepsSlots ==
  ASSUME SlotsInv, Relieves
  PROVE  SlotsInv'
<1> SUFFICES ASSUME NEW r \in Runners
             PROVE  IsFiniteSet(Busy(r)') /\ Cardinality(Busy(r)') <= Concurrency
  BY DEF SlotsInv
<1>1. Busy(r)' \in SUBSET Busy(r)
  BY DEF Busy, Relieves, Replying
<1>2. IsFiniteSet(Busy(r)) /\ Cardinality(Busy(r)) <= Concurrency
  BY DEF SlotsInv
<1>3. Cardinality(Busy(r)) \in Nat /\ Cardinality(Busy(r)') \in Nat
  BY <1>1, <1>2, FS_Subset, FS_CardinalityType
<1> QED
  BY <1>1, <1>2, <1>3, FS_Subset, EngineAssumption

LEMMA ClaimKeepsSlots ==
  ASSUME Typed, SlotsInv, NEW r \in Runners, Claim(r)
  PROVE  SlotsInv'
<1> DEFINE S == {t \in Claimable(rows) : rows[t].attempts < MaxClaims}
           C == Batch(r)
<1>1. /\ run' = [t \in Tasks |-> [k \in Attempts |->
                   IF t \in C /\ k = rows[t].attempts + 1
                   THEN ClaimedRun(r, rows[t].maxAttempts) ELSE run[t][k]]]
      /\ UNCHANGED inFlight
      /\ ~Ticking(r)
  BY DEF Claim, ClaimRows
<1>2. Busy(r) = InFlight(r)
  BY <1>1 DEF Busy, InFlight, Ticking
<1>3. IsFiniteSet(C) /\ Cardinality(C) + Cardinality(InFlight(r)) <= Concurrency
  <2>1. S \in SUBSET Nat
    BY StoreAssumption DEF Claimable
  <2>2. Cardinality(InFlight(r)) \in Nat /\ Cardinality(InFlight(r)) <= Concurrency
    BY <1>2, FS_CardinalityType DEF SlotsInv
  <2> HIDE DEF S
  <2> QED
    BY <2>1, <2>2, OldestFit, EngineAssumption DEF Batch, S
<1>4. C \in SUBSET Tasks
  BY DEF Batch, OldestWithin, Claimable
<1> HIDE DEF C, S
<1>5. \A t \in Tasks, k \in Attempts :
        \/ run'[t][k] = run[t][k]
        \/ t \in C /\ run'[t][k].runner = r
  BY <1>1 DEF ClaimedRun, NoRun
<1>6. ASSUME NEW q \in Runners
      PROVE  IsFiniteSet(Busy(q)') /\ Cardinality(Busy(q)') <= Concurrency
  <2>1. CASE q = r
    <3>1. Busy(r)' \in SUBSET (InFlight(r) \cup C)
      BY <1>1, <1>2, <1>5 DEF Busy, Replying, InFlight
    <3>2. IsFiniteSet(InFlight(r)) /\ Cardinality(InFlight(r)) \in Nat /\ Cardinality(C) \in Nat
      BY <1>2, <1>3, FS_CardinalityType DEF SlotsInv
    <3>3. /\ IsFiniteSet(InFlight(r) \cup C)
          /\ Cardinality(InFlight(r) \cup C) =
               Cardinality(InFlight(r)) + Cardinality(C) - Cardinality(InFlight(r) \cap C)
      BY <1>3, <3>2, FS_Union
    <3>4. Cardinality(InFlight(r) \cap C) \in Nat
      BY <3>2, FS_Intersection, FS_CardinalityType
    <3>5. IsFiniteSet(Busy(r)') /\ Cardinality(Busy(r)') <= Cardinality(InFlight(r) \cup C)
      BY <3>1, <3>3, FS_Subset
    <3>6. Cardinality(Busy(r)') \in Nat
      BY <3>5, FS_CardinalityType
    <3> QED
      BY <1>3, <2>1, <3>2, <3>3, <3>4, <3>5, <3>6, EngineAssumption
  <2>2. CASE q # r
    <3>1. Busy(q)' \in SUBSET Busy(q)
      BY <1>1, <1>5, <2>2 DEF Busy, Replying
    <3>2. IsFiniteSet(Busy(q)) /\ Cardinality(Busy(q)) <= Concurrency
      BY DEF SlotsInv
    <3>3. Cardinality(Busy(q)) \in Nat /\ Cardinality(Busy(q)') \in Nat
      BY <3>1, <3>2, FS_Subset, FS_CardinalityType
    <3> QED
      BY <3>1, <3>2, <3>3, FS_Subset, EngineAssumption
  <2> QED
    BY <2>1, <2>2
<1> QED
  BY <1>6 DEF SlotsInv

\* A step of a run takes it on towards its outcome or beyond.
LEMMA RunRelieves ==
  ASSUME Typed, NEW t \in Tasks, NEW k \in Attempts, RunOne(t, k)
  PROVE  Relieves
<1> USE DEF Typed, TypeOK
<1>1. ASSUME NEW u, run' = [run EXCEPT ![t][k] = u], u.pc # "replying",
             u.pc \in Unsettled =>
               run[t][k].pc \in Unsettled /\ u.max = run[t][k].max,
             \A r \in Runners, v \in Tasks : inFlight'[r][v] # 0 => inFlight[r][v] # 0
      PROVE  Relieves
  <2>1. \A v \in Tasks, j \in Attempts :
          run'[v][j] = IF v = t /\ j = k THEN u ELSE run[v][j]
    BY <1>1
  <2> QED
    BY <1>1, <2>1 DEF Relieves
<1>2. run[t][k] \in Run
  OBVIOUS
<1> USE DEF Unsettled, LivePCs
<1>3. CASE CallWorker(t, k) \/ Settle(t, k)
  <2>1. PICK to \in {"working", "closing"} :
          /\ run' = [run EXCEPT ![t][k].pc = to]
          /\ run[t][k].pc \in {"starting", "settling"}
    BY <1>3 DEF CallWorker, Settle, RunStep
  <2> DEFINE u == [run[t][k] EXCEPT !.pc = to]
  <2>2. /\ run' = [run EXCEPT ![t][k] = u] /\ u.pc # "replying"
        /\ u.max = run[t][k].max /\ UNCHANGED inFlight
    BY <1>2, <1>3, <2>1 DEF Run, CallWorker, Settle
  <2> HIDE DEF u
  <2> QED
    BY <1>1, <2>1, <2>2
<1>4. CASE NoWorker(t, k)
  <2> DEFINE u == [run[t][k] EXCEPT !.pc = "settling", !.outcome = "permanent"]
  <2>1. /\ run' = [run EXCEPT ![t][k] = u] /\ u.pc # "replying"
        /\ u.max = run[t][k].max /\ UNCHANGED inFlight
    BY <1>2, <1>4 DEF NoWorker, Run
  <2> HIDE DEF u
  <2> QED
    BY <1>1, <1>4, <2>1 DEF NoWorker
<1>5. CASE Timeout(t, k)
  <2>1. PICK thrown \in BOOLEAN :
          run' = [run EXCEPT ![t][k] =
                    [@ EXCEPT !.pc = "settling", !.outcome = "retryable",
                              !.aborted = TRUE, !.timedOut = TRUE, !.caught = thrown]]
    BY <1>5 DEF Timeout
  <2> DEFINE u == [run[t][k] EXCEPT !.pc = "settling", !.outcome = "retryable",
                                    !.aborted = TRUE, !.timedOut = TRUE,
                                    !.caught = thrown]
  <2>2. /\ run' = [run EXCEPT ![t][k] = u] /\ u.pc # "replying"
        /\ u.max = run[t][k].max /\ UNCHANGED inFlight
    BY <1>2, <1>5, <2>1 DEF Timeout, Run
  <2> HIDE DEF u
  <2> QED
    BY <1>1, <1>5, <2>2 DEF Timeout
<1>6. ASSUME NEW outcome \in Outcomes, NEW thrown \in BOOLEAN,
             WorkerReturns(t, k, outcome, thrown)
      PROVE  Relieves
  <2> DEFINE u == IF run[t][k].aborted THEN [run[t][k] EXCEPT !.pc = "closing"]
                  ELSE [run[t][k] EXCEPT !.pc = "settling", !.outcome = outcome,
                                         !.caught = thrown]
  <2>1. /\ run' = [run EXCEPT ![t][k] = u] /\ u.pc # "replying"
        /\ u.max = run[t][k].max /\ UNCHANGED inFlight
    BY <1>2, <1>6 DEF WorkerReturns, Run
  <2> HIDE DEF u
  <2> QED
    BY <1>1, <1>6, <2>1 DEF WorkerReturns
<1>7. CASE StartFails(t, k) \/ SettleFails(t, k)
  <2> DEFINE u == AfterFault(run[t][k])
  <2>1. run' = [run EXCEPT ![t][k] = u] /\ UNCHANGED inFlight
    BY <1>7 DEF StartFails, SettleFails
  <2>2. u.pc # "replying" /\ u.max = run[t][k].max
    BY <1>2 DEF AfterFault, Run
  <2> HIDE DEF u
  <2> QED
    BY <1>1, <1>7, <2>1, <2>2 DEF StartFails, SettleFails
<1>8. CASE Finally(t, k)
  <2>1. run' = [run EXCEPT ![t][k] = NoRun] /\ NoRun.pc = "none"
    BY <1>8 DEF Finally, NoRun
  <2>2. \A r \in Runners, v \in Tasks : inFlight'[r][v] # 0 => inFlight[r][v] # 0
    BY <1>8 DEF Finally
  <2> QED
    BY <1>1, <2>1, <2>2
<1> QED
  BY <1>3, <1>4, <1>5, <1>6, <1>7, <1>8 DEF RunOne

LEMMA RunnerRelieves ==
  ASSUME Typed, NEW r \in Runners, RunnerStep(r)
  PROVE  Relieves \/ Claim(r)
<1> USE DEF Typed, TypeOK
<1>1. CASE UNCHANGED <<run, inFlight>>
  BY <1>1 DEF Relieves
<1>2. CASE Stop(r)
  <2>1. \A t \in Tasks, k \in Attempts :
          /\ run'[t][k].pc = run[t][k].pc /\ run'[t][k].runner = run[t][k].runner
          /\ run'[t][k].max = run[t][k].max
    BY <1>2 DEF Stop, Run
  <2> QED
    BY <1>2, <2>1 DEF Relieves, Stop
<1>3. CASE Drained(r) \/ End(r)
  <2>1. ASSUME NEW q \in Runners, NEW t \in Tasks, inFlight'[q][t] # 0
        PROVE  inFlight[q][t] # 0
    <3>1. inFlight' = [inFlight EXCEPT ![r] = [v \in Tasks |-> 0]]
      BY <1>3 DEF Drained, End
    <3> QED
      BY <2>1, <3>1
  <2>2. ASSUME NEW t \in Tasks, NEW k \in Attempts
        PROVE  run'[t][k] = run[t][k] \/ run'[t][k].pc = "none"
    <3>1. CASE Drained(r)
      BY <3>1 DEF Drained
    <3>2. CASE End(r)
      BY <3>2 DEF End, NoRun
    <3> QED
      BY <1>3, <3>1, <3>2
  <2> QED
    BY <2>1, <2>2 DEF Relieves, Unsettled, LivePCs
<1>4. CASE Deliver(r)
  <2>1. ASSUME NEW t \in Tasks, NEW k \in Attempts
        PROVE  \/ run'[t][k] = run[t][k]
               \/ /\ run'[t][k].pc = "starting" /\ run[t][k].pc = "replying"
                  /\ run'[t][k].max = run[t][k].max
    <3>1. CASE k \in Replying(r, t)
      <4>1. run'[t][k] = [run[t][k] EXCEPT !.pc = "starting"] /\ run[t][k] \in Run
        BY <1>4, <3>1 DEF Deliver
      <4> QED
        BY <3>1, <4>1 DEF Replying, Run
    <3>2. CASE k \notin Replying(r, t)
      BY <1>4, <3>2 DEF Deliver
    <3> QED
      BY <3>1, <3>2
  <2>2. ASSUME NEW q \in Runners, NEW t \in Tasks, inFlight'[q][t] # inFlight[q][t]
        PROVE  Replying(q, t) # {}
    <3> DEFINE reply(v) == CHOOSE k \in Attempts : k \in Replying(r, v)
    <3>1. inFlight' = [inFlight EXCEPT ![r] =
                         [v \in Tasks |-> IF Replying(r, v) = {} THEN inFlight[r][v]
                                          ELSE reply(v)]]
      BY <1>4 DEF Deliver
    <3> HIDE DEF reply
    <3> QED
      BY <2>2, <3>1
  <2>3. ASSUME NEW q \in Runners, NEW t \in Tasks, NEW k \in Attempts
        PROVE  /\ run'[t][k].pc = "replying" /\ run'[t][k].runner = q =>
                    run[t][k].pc = "replying" /\ run[t][k].runner = q
               /\ run'[t][k].pc \in Unsettled =>
                    run[t][k].pc \in Unsettled /\ run'[t][k].max = run[t][k].max
    BY <2>1 DEF Unsettled, LivePCs
  <2> QED
    BY <2>2, <2>3 DEF Relieves
<1> QED
  BY <1>1, <1>2, <1>3, <1>4 DEF RunnerStep, Boot, ClaimLost, Beat, Reap

\* Only a claim makes work for a process.
LEMMA StepsRelieve ==
  ASSUME Typed, [Next]_vars
  PROVE  Relieves \/ \E r \in Runners : Claim(r)
<1>1. ASSUME UNCHANGED <<run, inFlight>> PROVE Relieves
  BY <1>1 DEF Relieves
<1>2. ASSUME NEW c \in Clients, Abort(c) PROVE Relieves
  <2> DEFINE t == req[c].task
             k == inFlight[req[c].at][t]
  <2>1. /\ UNCHANGED inFlight
        /\ UNCHANGED run \/ run' = [run EXCEPT ![t][k].aborted = TRUE]
    BY <1>2 DEF Abort
  <2> HIDE DEF t, k
  <2>2. ASSUME NEW u \in Tasks, NEW j \in Attempts
        PROVE  /\ run'[u][j].runner = run[u][j].runner /\ run'[u][j].pc = run[u][j].pc
               /\ run'[u][j].max = run[u][j].max
    <3>1. run[u][j] \in Run /\ run \in [Tasks -> [Attempts -> Run]]
      BY DEF Typed, TypeOK
    <3>2. run'[u][j] \in {run[u][j], [run[u][j] EXCEPT !.aborted = TRUE]}
      BY <2>1, <3>1
    <3> QED
      BY <3>1, <3>2 DEF Run
  <2> QED
    BY <2>1, <2>2 DEF Relieves
<1>3. ASSUME NEW c \in Clients, RequestStep(c) PROVE Relieves
  <2>1. Abort(c) \/ UNCHANGED <<run, inFlight>>
    BY <1>3
    DEF RequestStep, BeginCancel, BeginRetry, Begin, CancelQueued, CancelRunning,
        CancelFailed, TryCancel, Refuse, RequestFails, WriteRetry
  <2> QED
    BY <1>1, <1>2, <2>1
<1>4. ASSUME NEW t \in Tasks, TimeStep(t) \/ Collect(t) \/ \E h \in Handles : Submit(t, h)
      PROVE  Relieves
  <2>1. UNCHANGED <<run, inFlight>>
    BY <1>4 DEF TimeStep, LeaseLapses, LeaseStarves, BackoffElapses, Collect, Submit
  <2> QED
    BY <1>1, <2>1
<1>5. ASSUME NEW t \in Tasks, NEW k \in Attempts, RunOne(t, k) PROVE Relieves
  BY <1>5, RunRelieves
<1>6. CASE UNCHANGED vars
  BY <1>1, <1>6 DEF vars
<1> QED
  BY <1>3, <1>4, <1>5, <1>6, RunnerRelieves DEF Next

LEMMA SlotsKept ==
  ASSUME Typed, SlotsInv, [Next]_vars
  PROVE  SlotsInv'
BY StepsRelieve, ReliefKeepsSlots, ClaimKeepsSlots

\* A process never takes on more tasks than its concurrency, counting what the
\* claim under way will bring: runs that end beside it only make room.
THEOREM SlotsAreNotOversold == Spec => []SlotsNotOversold
<1>1. Init => SlotsInv
  <2> SUFFICES ASSUME Init, NEW r \in Runners
               PROVE  IsFiniteSet(Busy(r)) /\ Cardinality(Busy(r)) <= Concurrency
    BY DEF SlotsInv
  <2>1. Busy(r) = {}
    BY DEF Init, Busy, Replying, NoRun
  <2> QED
    BY <2>1, FS_EmptySet, EngineAssumption
<1>2. SlotsInv => SlotsNotOversold
  BY DEF SlotsInv, SlotsNotOversold, Busy
<1> QED
  BY <1>1, <1>2, SlotsKept, AlwaysTyped, PTL DEF Spec

-----------------------------------------------------------------------------
(* Sweeps. *)

\* A process has nothing to do before it starts.
UnbornInv == \A r \in Runners : phase[r] = "unborn" => Busy(r) = {}

\* Nothing has stalled, and a boot sweep runs while no other process does.
Orderly == mishaps = 0 /\ (BootSweep => SingleProcess)

\* While nothing stalls, a row that is looked after has a lease in the future.
AttendedInv == Orderly => \A t \in Tasks : Attended(t) => rows[t].lease = "held"

\* Processes start once, and are counted as up only while they are.
LEMMA PhasesMove ==
  ASSUME Typed, [Next]_vars, NEW r \in Runners
  PROVE  /\ phase'[r] = "unborn" => phase[r] = "unborn"
         /\ phase'[r] = "up" => phase[r] \in {"unborn", "up"}
<1> USE DEF Typed, TypeOK
<1>1. ASSUME NEW q \in Runners, Boot(q) \/ Stop(q) \/ Drained(q) \/ End(q)
      PROVE  /\ phase'[r] = "unborn" => phase[r] = "unborn"
             /\ phase'[r] = "up" => phase[r] \in {"unborn", "up"}
  BY <1>1 DEF Boot, Stop, Drained, End
<1>2. ASSUME NEW q \in Runners, RunnerStep(q)
      PROVE  Boot(q) \/ Stop(q) \/ Drained(q) \/ End(q) \/ UNCHANGED phase
  BY <1>2 DEF RunnerStep, Claim, ClaimLost, Deliver, Beat, Reap
<1>3. ASSUME NEW u \in Tasks, NEW k \in Attempts, RunOne(u, k) PROVE UNCHANGED phase
  BY <1>3 DEF RunOne, CallWorker, NoWorker, Timeout, WorkerReturns, Settle, StartFails,
              SettleFails, Finally
<1>4. ASSUME NEW u \in Tasks, TimeStep(u) \/ Collect(u) \/ \E h \in Handles : Submit(u, h)
      PROVE  UNCHANGED phase
  BY <1>4 DEF TimeStep, LeaseLapses, LeaseStarves, BackoffElapses, Collect, Submit
<1>5. ASSUME NEW c \in Clients, RequestStep(c) PROVE UNCHANGED phase
  BY <1>5
  DEF RequestStep, BeginCancel, BeginRetry, Begin, CancelQueued, CancelRunning,
      CancelFailed, TryCancel, Abort, Refuse, RequestFails, WriteRetry
<1> QED
  BY <1>1, <1>2, <1>3, <1>4, <1>5 DEF Next, vars

LEMMA UnbornStayIdle ==
  ASSUME Typed, UnbornInv, [Next]_vars
  PROVE  UnbornInv'
<1> USE DEF Typed, TypeOK
<1>1. \A r \in Runners : phase'[r] = "unborn" => phase[r] = "unborn"
  BY PhasesMove
<1>2. CASE Relieves
  <2>1. \A r \in Runners : Busy(r)' \subseteq Busy(r)
    BY <1>2 DEF Busy, Relieves, Replying
  <2> QED
    BY <1>1, <2>1 DEF UnbornInv
<1>3. ASSUME NEW r \in Runners, Claim(r) PROVE UnbornInv'
  <2>1. phase[r] = "up" /\ UNCHANGED inFlight
    BY <1>3 DEF Claim, ClaimRows
  <2>2. \A t \in Tasks, k \in Attempts :
          run'[t][k] = run[t][k] \/ run'[t][k].runner = r
    BY <1>3 DEF Claim, ClaimedRun, NoRun
  <2>3. \A q \in Runners : q # r => Busy(q)' \subseteq Busy(q)
    BY <2>1, <2>2 DEF Busy, Replying
  <2> QED
    BY <1>1, <2>1, <2>3 DEF UnbornInv
<1> QED
  BY <1>2, <1>3, StepsRelieve

\* What a step does to the lease of a row that is running after it, when no
\* mishap happens.
LeaseFollows(t) ==
  \/ rows'[t].lease = "held"
  \/ /\ ~Attended(t) /\ rows[t].status = "running"
     /\ rows'[t].owner = rows[t].owner
     /\ UNCHANGED <<inFlight, phase, run>>
  \/ rows'[t].status = "running" => rows'[t] = rows[t]

LEMMA LeasesFollow ==
  ASSUME Typed, [Next]_vars, mishaps' = mishaps, NEW t \in Tasks
  PROVE  LeaseFollows(t)
<1> USE DEF Typed, TypeOK, LeaseFollows
<1>1. CASE UNCHANGED rows
  BY <1>1
<1>2. ASSUME NEW r \in Runners, RunnerStep(r) PROVE LeaseFollows(t)
  <2>1. CASE ClaimRows(r)
    <3>1. rows' = [u \in Tasks |->
                    IF u \in Batch(r) THEN ClaimedBy(rows[u], r) ELSE rows[u]]
      BY <2>1 DEF ClaimRows
    <3>2. ClaimedBy(rows[t], r).lease = "held"
      BY DEF ClaimedBy, Row
    <3> QED
      BY <3>1, <3>2
  <2>2. CASE Beat(r)
    <3>1. [rows[t] EXCEPT !.lease = "held"].lease = "held"
      BY DEF Row
    <3> QED
      BY <2>2, <3>1 DEF Beat
  <2>3. ASSUME NEW S, Reclaim(S) PROVE LeaseFollows(t)
    <3>1. Requeued(rows[t]).status # "running"
      BY DEF Requeued, Row
    <3> QED
      BY <2>3, <3>1 DEF Reclaim, RequeueAll
  <2> QED
    BY <1>1, <1>2, <2>1, <2>2, <2>3
    DEF RunnerStep, Boot, Stop, Drained, End, Claim, ClaimLost, Deliver, Reap
<1>3. ASSUME NEW u \in Tasks, NEW new, rows' = [rows EXCEPT ![u] = new],
             new.status = "running" => new = rows[u]
      PROVE  LeaseFollows(t)
  BY <1>3
<1>4. ASSUME NEW u \in Tasks, NEW k \in Attempts, RunOne(u, k) PROVE LeaseFollows(t)
  <2>1. SettledRow(u, k).status = "running" => SettledRow(u, k) = rows[u]
    BY DEF SettledRow, Succeeded, RetryScheduled, Failed, Row
  <2> QED
    BY <1>1, <1>3, <1>4, <2>1
    DEF RunOne, CallWorker, NoWorker, Timeout, WorkerReturns, Settle, StartFails,
        SettleFails, Finally
<1>5. ASSUME NEW u \in Tasks, TimeStep(u) PROVE LeaseFollows(t)
  <2>1. mishaps \in Nat
    OBVIOUS
  <2>2. CASE LeaseLapses(u)
    <3>1. [rows[u] EXCEPT !.lease = "lapsed"].owner = rows[u].owner
      BY DEF Row
    <3> QED
      BY <2>2, <3>1 DEF LeaseLapses
  <2>3. CASE BackoffElapses(u)
    <3>1. [rows[u] EXCEPT !.due = TRUE].status = "queued"
      BY <2>3 DEF BackoffElapses, Row
    <3> QED
      BY <1>3, <2>3, <3>1 DEF BackoffElapses
  <2> QED
    BY <1>5, <2>1, <2>2, <2>3 DEF TimeStep, LeaseStarves, Mishap
<1>6. ASSUME NEW u \in Tasks, Collect(u) \/ \E h \in Handles : Submit(u, h)
      PROVE  LeaseFollows(t)
  <2>1. \A h \in Handles : NewRow(h, MaxAttempts).status = "queued"
    BY DEF NewRow, NoRow
  <2>2. Collect(u) => Collected(rows[u]).status = "ready"
    BY DEF Collect, Collected, Row
  <2> QED
    BY <1>3, <1>6, <2>1, <2>2 DEF Collect, Submit
<1>7. ASSUME NEW c \in Clients, RequestStep(c) PROVE LeaseFollows(t)
  <2>1. \A u \in Tasks, n \in Nat :
          /\ Cancelled(rows[u]).status = "cancelled"
          /\ RetryRequested(rows[u], n).status = "queued"
    BY DEF Cancelled, RetryRequested, Row
  <2>2. req[c].step # "idle" => req[c].task \in Tasks /\ req[c].seen + MaxAttempts \in Nat
    BY EngineAssumption DEF Request, OpenRequest, NoRequest
  <2>3. CASE CancelQueued(c) \/ CancelRunning(c) \/ CancelFailed(c)
    BY <1>1, <1>3, <2>1, <2>2, <2>3 DEF CancelQueued, CancelRunning, CancelFailed, TryCancel
  <2>4. CASE WriteRetry(c)
    BY <1>1, <1>3, <2>1, <2>2, <2>4 DEF WriteRetry
  <2> QED
    BY <1>1, <1>7, <2>3, <2>4
    DEF RequestStep, BeginCancel, BeginRetry, Begin, Abort, Refuse, RequestFails
<1> QED
  BY <1>1, <1>2, <1>4, <1>5, <1>6, <1>7 DEF Next, vars

\* Stalls and faults are counted and never forgotten.
LEMMA MishapsAdd ==
  ASSUME Typed, [Next]_vars
  PROVE  mishaps' = mishaps \/ mishaps' # 0
<1> DEFINE Adds == mishaps' = mishaps \/ mishaps' # 0
<1>1. mishaps \in Nat
  BY DEF Typed, TypeOK
<1>2. ASSUME NEW r \in Runners, RunnerStep(r) PROVE Adds
  <2>1. ClaimLost(r) \/ UNCHANGED mishaps
    BY <1>2 DEF RunnerStep, Boot, Stop, Drained, End, Claim, Deliver, Beat, Reap
  <2> QED
    BY <1>1, <2>1 DEF ClaimLost, Mishap
<1>3. ASSUME NEW u \in Tasks, NEW k \in Attempts, RunOne(u, k) PROVE Adds
  <2>1. StartFails(u, k) \/ SettleFails(u, k) \/ UNCHANGED mishaps
    BY <1>3 DEF RunOne, CallWorker, NoWorker, Timeout, WorkerReturns, Settle, Finally
  <2> QED
    BY <1>1, <2>1 DEF StartFails, SettleFails, Mishap
<1>4. ASSUME NEW u \in Tasks, TimeStep(u) \/ Collect(u) \/ \E h \in Handles : Submit(u, h)
      PROVE  Adds
  BY <1>1, <1>4
  DEF TimeStep, LeaseLapses, LeaseStarves, BackoffElapses, Collect, Submit, Mishap
<1>5. ASSUME NEW c \in Clients, RequestStep(c) PROVE Adds
  <2>1. RequestFails(c) \/ UNCHANGED mishaps
    BY <1>5
    DEF RequestStep, BeginCancel, BeginRetry, Begin, CancelQueued, CancelRunning,
        CancelFailed, TryCancel, Abort, Refuse, WriteRetry
  <2> QED
    BY <1>1, <2>1 DEF RequestFails, Mishap
<1> QED
  BY <1>2, <1>3, <1>4, <1>5 DEF Next, vars

LEMMA AttendedKept ==
  ASSUME Typed, RowsSound, RowsSound', UnbornInv, AttendedInv, [Next]_vars
  PROVE  AttendedInv'
<1> USE DEF Typed, TypeOK
<1> SUFFICES ASSUME Orderly', NEW t \in Tasks, Attended(t)', rows'[t].lease # "held"
             PROVE  FALSE
  BY DEF AttendedInv
<1>1. mishaps' = mishaps /\ Orderly
  BY MishapsAdd DEF Orderly
<1>2. PICK r : r = rows'[t].owner
  OBVIOUS
<1>3. /\ rows'[t].status = "running" /\ phase'[r] = "up"
      /\ \/ inFlight'[r][t] # 0
         \/ \E k \in Attempts : run'[t][k].pc = "replying" /\ run'[t][k].runner = r
  BY <1>2 DEF Attended, Replying
<1>4. /\ rows[t].status = "running" /\ rows[t].owner = r /\ r \in Runners
      /\ ~Attended(t)
  <2>1. CASE rows'[t] = rows[t]
    <3>1. rows[t].status = "running" /\ rows[t].owner = r /\ rows[t].lease # "held"
      BY <1>2, <1>3, <2>1
    <3> QED
      BY <1>1, <3>1 DEF AttendedInv, RowsSound, RowSound, OwnedWhileRunning, Row
  <2>2. CASE rows'[t] # rows[t]
    <3>1. ~Attended(t) /\ rows[t].status = "running" /\ rows'[t].owner = rows[t].owner
      BY <1>1, <1>3, <2>2, LeasesFollow DEF LeaseFollows
    <3> QED
      BY <1>2, <3>1 DEF RowsSound, RowSound, OwnedWhileRunning, Row
  <2> QED
    BY <2>1, <2>2
<1>5. \/ inFlight[r][t] # 0
      \/ \E k \in Attempts : run[t][k].pc = "replying" /\ run[t][k].runner = r
  <2>1. CASE Relieves
    BY <1>3, <1>4, <2>1 DEF Relieves, Replying
  <2>2. ASSUME NEW q \in Runners, Claim(q)
        PROVE  UNCHANGED inFlight /\ \A k \in Attempts : run'[t][k] = run[t][k]
    BY <1>4, <2>2 DEF Claim, ClaimRows, Batch, OldestWithin, Claimable
  <2> QED
    BY <1>3, <2>1, <2>2, StepsRelieve
<1>6. inFlight[r][t] # 0 \/ Replying(r, t) # {}
  BY <1>5 DEF Replying
<1>7. phase[r] = "up"
  BY <1>3, <1>4, <1>6, PhasesMove DEF UnbornInv, Busy
<1> QED
  BY <1>4, <1>6, <1>7 DEF Attended

\* How a running row comes back to the queue.
LEMMA WayBack ==
  ASSUME Typed, [Next]_vars, NEW t \in Tasks,
         rows[t].status = "running", rows'[t].status = "queued"
  PROVE  \/ BootSweep /\ \E q \in Runners : Boot(q)
         \/ rows[t].lease = "lapsed"
         \/ mishaps' # 0
         \/ \E k \in Attempts :
              /\ run[t][k].runner = rows[t].owner
              /\ run[t][k].pc = "settling" /\ run'[t][k].pc # "settling"
<1> USE DEF Typed, TypeOK
<1> DEFINE Goal == \/ BootSweep /\ \E q \in Runners : Boot(q)
                   \/ rows[t].lease = "lapsed"
                   \/ mishaps' # 0
                   \/ \E k \in Attempts :
                        /\ run[t][k].runner = rows[t].owner
                        /\ run[t][k].pc = "settling" /\ run'[t][k].pc # "settling"
<1>1. rows'[t] # rows[t]
  OBVIOUS
<1>2. ASSUME NEW r \in Runners, RunnerStep(r) PROVE Goal
  <2>1. CASE ClaimRows(r)
    BY <1>1, <2>1 DEF ClaimRows, Batch, OldestWithin, Claimable
  <2>2. CASE Beat(r)
    <3>1. [rows[t] EXCEPT !.lease = "held"].status = "running"
      BY DEF Row
    <3> QED
      BY <1>1, <2>2, <3>1 DEF Beat
  <2>3. CASE Reap(r)
    BY <1>1, <2>3 DEF Reap, Reclaim, RequeueAll, LapsedExcept
  <2>4. CASE Boot(r)
    BY <1>1, <2>4 DEF Boot
  <2> QED
    BY <1>1, <1>2, <2>1, <2>2, <2>3, <2>4
    DEF RunnerStep, Stop, Drained, End, Claim, ClaimLost, Deliver
<1>3. ASSUME NEW u \in Tasks, NEW k \in Attempts, RunOne(u, k) PROVE Goal
  <2>1. CASE Settle(u, k)
    <3>1. u = t
      BY <1>1, <2>1 DEF Settle
    <3>2. /\ run[t][k].pc = "settling" /\ run'[t][k].pc = "closing"
          /\ rows'[t] = SettledRow(t, k)
      BY <2>1, <3>1 DEF Settle, RunStep, Run
    <3>3. run[t][k].runner = rows[t].owner
      BY <1>1, <3>2 DEF SettledRow, Owns
    <3> QED
      BY <3>2, <3>3
  <2>2. CASE SettleFails(u, k)
    BY <2>2 DEF SettleFails, Mishap
  <2> QED
    BY <1>1, <1>3, <2>1, <2>2
    DEF RunOne, CallWorker, NoWorker, Timeout, WorkerReturns, StartFails, Finally
<1>4. ASSUME NEW u \in Tasks, NEW new, rows' = [rows EXCEPT ![u] = new],
             rows[u].status # "running" \/ new.status # "queued"
      PROVE  FALSE
  BY <1>1, <1>4
<1>5. ASSUME NEW u \in Tasks, TimeStep(u) PROVE Goal
  <2>1. [rows[u] EXCEPT !.lease = "lapsed"].status = rows[u].status
    BY DEF Row
  <2>2. CASE LeaseLapses(u)
    BY <1>4, <2>1, <2>2 DEF LeaseLapses
  <2> QED
    BY <1>4, <1>5, <2>2 DEF TimeStep, LeaseStarves, Mishap, BackoffElapses
<1>6. ASSUME NEW u \in Tasks, Collect(u) \/ \E h \in Handles : Submit(u, h) PROVE Goal
  BY <1>4, <1>6 DEF Collect, Submit
<1>7. ASSUME NEW c \in Clients, RequestStep(c) PROVE Goal
  <2>1. \A u \in Tasks : Cancelled(rows[u]).status = "cancelled"
    BY DEF Cancelled, Row
  <2>2. req[c].step # "idle" => req[c].task \in Tasks
    BY DEF Request, OpenRequest, NoRequest
  <2>3. CASE CancelQueued(c) \/ CancelRunning(c) \/ CancelFailed(c)
    BY <1>1, <1>4, <2>1, <2>2, <2>3 DEF CancelQueued, CancelRunning, CancelFailed, TryCancel
  <2>4. CASE WriteRetry(c)
    BY <1>1, <1>4, <2>2, <2>4 DEF WriteRetry
  <2> QED
    BY <1>1, <1>7, <2>3, <2>4
    DEF RequestStep, BeginCancel, BeginRetry, Begin, Abort, Refuse, RequestFails
<1> QED
  BY <1>1, <1>2, <1>3, <1>5, <1>6, <1>7 DEF Next, vars

SweepSpares ==
  Orderly' =>
    \A t \in Tasks, r \in Runners :
      Holds(r, t) /\ rows[t].owner = r /\ rows'[t].status = "queued" =>
        \E k \in Attempts :
          /\ run[t][k].runner = r
          /\ run[t][k].pc = "settling" /\ run'[t][k].pc # "settling"

\* While nothing stalls, no sweep takes a row from a process that is up and
\* holds a worker for it, however many processes share the table: the lease of
\* a row that is looked after never lapses.
THEOREM TheLivingAreSpared == Spec => SweepsSpareTheLiving
<1>1. Init => UnbornInv /\ AttendedInv
  BY DEF Init, UnbornInv, AttendedInv, Attended, Busy, Replying, NoRun, NoRow
<1>2. ASSUME Typed, RowsSound, UnbornInv, AttendedInv, [Next]_vars PROVE SweepSpares
  <2> SUFFICES ASSUME Orderly', NEW t \in Tasks, NEW r \in Runners, Holds(r, t),
                      rows[t].owner = r, rows'[t].status = "queued"
               PROVE  \E k \in Attempts :
                        /\ run[t][k].runner = r
                        /\ run[t][k].pc = "settling" /\ run'[t][k].pc # "settling"
    BY DEF SweepSpares
  <2>1. rows[t].status = "running"
    BY <1>2, StoreAssumption DEF RowsSound, RowSound, OwnedWhileRunning
  <2>2. mishaps' = 0 /\ Orderly
    BY <1>2, MishapsAdd DEF Orderly
  <2>3. rows[t].lease = "held"
    BY <1>2, <2>1, <2>2 DEF AttendedInv, Attended, Holds
  <2>4. ~(BootSweep /\ \E q \in Runners : Boot(q))
    BY <2>2 DEF Orderly, Boot, Alive, Holds
  <2> QED
    BY <1>2, <2>1, <2>2, <2>3, <2>4, WayBack
<1>3. SweepSpares => [mishaps' = 0 /\ (BootSweep => SingleProcess) =>
        \A t \in Tasks, r \in Runners :
          Holds(r, t) /\ rows[t].owner = r /\ rows'[t].status = "queued" =>
            \E k \in Attempts :
              /\ run[t][k].runner = r
              /\ run[t][k].pc = "settling" /\ run'[t][k].pc # "settling"]_vars
  BY DEF SweepSpares, Orderly
<1> QED
  BY <1>1, <1>2, <1>3, UnbornStayIdle, AttendedKept, AlwaysTyped, AlwaysSound, PTL
  DEF Spec, SweepsSpareTheLiving

-----------------------------------------------------------------------------
(* Budgets. *)

\* The attempts a row may come to with the budget it has.
Peak(row) ==
  IF row.attempts >= row.maxAttempts THEN row.attempts ELSE row.maxAttempts - 1

\* And one more if it is about to be claimed again.
Worth(row) == Peak(row) + (IF row.status = "queued" THEN 1 ELSE 0)

\* The runs of t that may yet put it back in the queue: each read its budget
\* when it was claimed.
Pending(t) == {k \in Attempts : run[t][k].pc \in Unsettled /\ k < run[t][k].max}

\* The executions a task has been granted so far.
Granted(t) == allowance[t] + recovered[t]

\* BudgetRespected with what makes it inductive.
BudgetInv ==
  \A t \in Tasks : Worth(rows[t]) + Cardinality(Pending(t)) <= Granted(t)

\* A retry counts from attempts that are not ahead of the row's.
SeenInv ==
  \A c \in Clients :
    req[c].step = "retry" => req[c].seen <= rows[req[c].task].attempts

LEMMA AttemptsAreFinite ==
  ASSUME NEW D \in SUBSET Attempts
  PROVE  IsFiniteSet(D) /\ Cardinality(D) \in Nat
<1>1. IsFiniteSet(Attempts)
  BY EngineAssumption, FS_Interval DEF Attempts
<1> QED
  BY <1>1, FS_Subset, FS_CardinalityType

\* What a statement adds to the worth of a row.
LEMMA WorthOfRows ==
  ASSUME NEW row \in Row
  PROVE  /\ Worth(row) \in Int /\ row.attempts <= Peak(row) /\ Peak(row) <= Worth(row)
         /\ Worth([row EXCEPT !.lease = "held"]) = Worth(row)
         /\ Worth([row EXCEPT !.lease = "lapsed"]) = Worth(row)
         /\ Worth([row EXCEPT !.due = TRUE]) = Worth(row)
         /\ Worth(Collected(row)) = Worth(row)
         /\ Worth(Cancelled(row)) <= Worth(row)
         /\ Worth(Succeeded(row)) <= Worth(row)
         /\ \A e : Worth(Failed(row, e)) <= Worth(row)
         /\ Worth(Requeued(row)) <= Worth(row) + 1
         /\ Worth(RetryScheduled(row)) <= Worth(row) + 1
         /\ row.status = "queued" => \A r : Worth(ClaimedBy(row, r)) <= Worth(row)
<1> USE DEF Row
<1>1. row.attempts \in Nat /\ row.maxAttempts \in Nat
  OBVIOUS
<1>2. ASSUME NEW new, new.attempts = row.attempts, new.maxAttempts = row.maxAttempts
      PROVE  /\ Worth(new) <= Worth(row) + 1
             /\ new.status = row.status => Worth(new) = Worth(row)
             /\ new.status # "queued" => Worth(new) <= Worth(row)
  BY <1>1, <1>2 DEF Worth, Peak
<1>3. Worth(row) \in Int /\ row.attempts <= Peak(row) /\ Peak(row) <= Worth(row)
  BY <1>1 DEF Worth, Peak
<1>4. /\ Worth([row EXCEPT !.lease = "held"]) = Worth(row)
      /\ Worth([row EXCEPT !.lease = "lapsed"]) = Worth(row)
      /\ Worth([row EXCEPT !.due = TRUE]) = Worth(row)
  BY <1>2
<1>5. Worth(Collected(row)) = Worth(row) /\ Worth(Cancelled(row)) <= Worth(row)
  BY <1>2 DEF Collected, Cancelled
<1>6. Worth(Succeeded(row)) <= Worth(row)
  BY <1>2 DEF Succeeded
<1>7. \A e : Worth(Failed(row, e)) <= Worth(row)
  BY <1>2 DEF Failed
<1>8. Worth(Requeued(row)) <= Worth(row) + 1
  BY <1>2 DEF Requeued
<1>9. Worth(RetryScheduled(row)) <= Worth(row) + 1
  BY <1>2 DEF RetryScheduled
<1>10. ASSUME row.status = "queued", NEW r PROVE Worth(ClaimedBy(row, r)) <= Worth(row)
  <2>1. /\ ClaimedBy(row, r).attempts = row.attempts + 1
        /\ ClaimedBy(row, r).maxAttempts = row.maxAttempts
        /\ ClaimedBy(row, r).status = "running"
    BY DEF ClaimedBy
  <2> QED
    BY <1>1, <1>10, <2>1 DEF Worth, Peak
<1> QED
  BY <1>3, <1>4, <1>5, <1>6, <1>7, <1>8, <1>9, <1>10

\* A step changes the budget of t by no more than it is granted, or than a run
\* that writes its outcome gives up.
Affords(t) ==
  \/ Worth(rows'[t]) - Worth(rows[t]) <= Granted(t)' - Granted(t)
  \/ /\ Worth(rows'[t]) <= Worth(rows[t]) + 1 /\ Granted(t)' = Granted(t)
     /\ \E k \in Attempts :
          /\ run[t][k].pc \in Unsettled /\ k < run[t][k].max
          /\ run'[t][k].pc \notin Unsettled

LEMMA ReliefKeepsBudget ==
  ASSUME Typed, Typed', BudgetInv, Relieves, \A t \in Tasks : Affords(t)
  PROVE  BudgetInv'
<1> USE DEF Granted
<1> SUFFICES ASSUME NEW t \in Tasks
             PROVE  Worth(rows'[t]) + Cardinality(Pending(t)') <= Granted(t)'
  BY DEF BudgetInv
<1> DEFINE P == Pending(t)
           Q == Pending(t)'
<1>1. Q \in SUBSET P /\ P \in SUBSET Attempts /\ Q \in SUBSET Attempts
  BY DEF Pending, Relieves
<1>2. /\ IsFiniteSet(P) /\ Cardinality(P) \in Nat
      /\ Cardinality(Q) \in Nat /\ Cardinality(Q) <= Cardinality(P)
  BY <1>1, AttemptsAreFinite, FS_Subset
<1>3. /\ Worth(rows[t]) \in Int /\ Worth(rows'[t]) \in Int
      /\ Granted(t) \in Nat /\ Granted(t)' \in Nat
  <2>1. /\ allowance[t] \in Nat /\ allowance'[t] \in Nat
        /\ recovered[t] \in Nat /\ recovered'[t] \in Nat
        /\ rows[t] \in Row /\ rows'[t] \in Row
    BY DEF Typed, TypeOK
  <2>2. Worth(rows[t]) \in Int /\ Worth(rows'[t]) \in Int
    BY <2>1, WorthOfRows
  <2> QED
    BY <2>1, <2>2
<1>4. Worth(rows[t]) + Cardinality(P) <= Granted(t)
  BY DEF BudgetInv
<1>5. ASSUME NEW k \in Attempts, run[t][k].pc \in Unsettled, k < run[t][k].max,
             run'[t][k].pc \notin Unsettled
      PROVE  Cardinality(Q) <= Cardinality(P) - 1
  <2>1. k \in P /\ Q \in SUBSET (P \ {k})
    BY <1>1, <1>5 DEF Pending
  <2>2. IsFiniteSet(P \ {k}) /\ Cardinality(P \ {k}) = Cardinality(P) - 1
    BY <1>2, <2>1, FS_RemoveElement
  <2> QED
    BY <2>1, <2>2, FS_Subset
<1> HIDE DEF P, Q
<1>6. Affords(t)
  OBVIOUS
<1>7. CASE Worth(rows'[t]) - Worth(rows[t]) <= Granted(t)' - Granted(t)
  <2> QED
    BY <1>2, <1>3, <1>4, <1>7 DEF P, Q
<1>8. CASE ~(Worth(rows'[t]) - Worth(rows[t]) <= Granted(t)' - Granted(t))
  <2>1. Cardinality(Q) <= Cardinality(P) - 1
    BY <1>5, <1>6, <1>8 DEF Affords
  <2>2. Worth(rows'[t]) <= Worth(rows[t]) + 1 /\ Granted(t)' = Granted(t)
    BY <1>6, <1>8 DEF Affords
  <2>3. Worth(rows'[t]) + Cardinality(Q) <= Granted(t)'
    BY <1>2, <1>3, <1>4, <2>1, <2>2
  <2> QED
    BY <2>3 DEF Q
<1> QED
  BY <1>7, <1>8

\* A claim spends what the row was worth, on a run that is pending only while
\* the budget has more.
LEMMA ClaimKeepsBudget ==
  ASSUME Typed, RunsSound, BudgetInv, NEW r \in Runners, Claim(r)
  PROVE  BudgetInv'
<1> USE DEF Typed, TypeOK, Granted
<1> DEFINE C == Batch(r)
<1>1. /\ rows' = [t \in Tasks |-> IF t \in C THEN ClaimedBy(rows[t], r) ELSE rows[t]]
      /\ run' = [t \in Tasks |-> [k \in Attempts |->
                   IF t \in C /\ k = rows[t].attempts + 1
                   THEN ClaimedRun(r, rows[t].maxAttempts) ELSE run[t][k]]]
      /\ UNCHANGED <<allowance, recovered>>
  BY DEF Claim, ClaimRows
<1>2. \A t \in C : rows[t].status = "queued" /\ rows[t].attempts < MaxClaims
  BY DEF Batch, OldestWithin, Claimable
<1> HIDE DEF C
<1> SUFFICES ASSUME NEW t \in Tasks
             PROVE  Worth(rows'[t]) + Cardinality(Pending(t)') <= Granted(t)'
  BY DEF BudgetInv
<1>3. Worth(rows[t]) + Cardinality(Pending(t)) <= Granted(t)
  BY DEF BudgetInv
<1>4. CASE t \notin C
  <2>1. rows'[t] = rows[t] /\ Pending(t)' = Pending(t)
    BY <1>1, <1>4 DEF Pending
  <2> QED
    BY <1>1, <1>3, <2>1
<1>5. CASE t \in C
  <2> DEFINE n == rows[t].attempts
             m == rows[t].maxAttempts
             P == Pending(t)
             Q == Pending(t)'
  <2>1. n \in Nat /\ m \in Nat /\ rows[t] \in Row /\ Granted(t) \in Nat
    BY DEF Row
  <2>2. rows'[t] = ClaimedBy(rows[t], r)
    BY <1>1, <1>5
  <2>3. /\ rows'[t].attempts = n + 1 /\ rows'[t].maxAttempts = m
        /\ rows'[t].status = "running"
    BY <2>2 DEF ClaimedBy, Row
  <2>4. ClaimedRun(r, m).max = m
    BY DEF ClaimedRun, NoRun
  <2>5. Q \in SUBSET (P \cup {n + 1}) /\ (n + 1 >= m => Q \in SUBSET P)
    <3>1. ASSUME NEW k \in Q PROVE k \in P \/ (k = n + 1 /\ n + 1 < m)
      BY <1>1, <1>5, <2>1, <2>4 DEF Pending
    <3> QED
      BY <2>1, <3>1
  <2>6. P \in SUBSET Attempts /\ n + 1 \in Attempts
    BY <1>2, <1>5, <2>1, EngineAssumption DEF Pending, Attempts
  <2>7. /\ IsFiniteSet(P) /\ Cardinality(P) \in Nat
        /\ IsFiniteSet(P \cup {n + 1})
        /\ Cardinality(P \cup {n + 1}) \in Nat
        /\ Cardinality(P \cup {n + 1}) <= Cardinality(P) + 1
    <3>1. IsFiniteSet(P) /\ Cardinality(P) \in Nat
      BY <2>6, AttemptsAreFinite
    <3>2. /\ IsFiniteSet(P \cup {n + 1})
          /\ Cardinality(P \cup {n + 1}) =
               IF n + 1 \in P THEN Cardinality(P) ELSE Cardinality(P) + 1
      BY <3>1, FS_AddElement
    <3> QED
      BY <3>1, <3>2
  <2> HIDE DEF P, Q
  <2>8. /\ Cardinality(Q) \in Nat /\ Cardinality(Q) <= Cardinality(P) + 1
        /\ n + 1 >= m => Cardinality(Q) <= Cardinality(P)
    <3>1. IsFiniteSet(Q) /\ Cardinality(Q) <= Cardinality(P \cup {n + 1})
      BY <2>5, <2>7, FS_Subset
    <3>2. Cardinality(Q) \in Nat
      BY <3>1, FS_CardinalityType
    <3>3. n + 1 >= m => Cardinality(Q) <= Cardinality(P)
      BY <2>5, <2>7, FS_Subset
    <3> QED
      BY <2>7, <3>1, <3>2, <3>3
  <2>9. Worth(rows[t]) = (IF n >= m THEN n ELSE m - 1) + 1
    BY <1>2, <1>5 DEF Worth, Peak
  <2>10. Worth(rows'[t]) = (IF n + 1 >= m THEN n + 1 ELSE m - 1) + 0
    BY <2>3 DEF Worth, Peak
  <2>11. Worth(rows[t]) + Cardinality(P) <= Granted(t)
    BY <1>3 DEF P
  <2> HIDE DEF n, m
  <2>12. Worth(rows'[t]) + Cardinality(Q) <= Granted(t)
    BY <2>1, <2>7, <2>8, <2>9, <2>10, <2>11
  <2> QED
    BY <1>1, <2>12 DEF Q
<1> QED
  BY <1>4, <1>5

LEMMA SubmitKeepsBudget ==
  ASSUME Typed, RunsSound, BudgetInv, NEW u \in Tasks, NEW h \in Handles, Submit(u, h)
  PROVE  BudgetInv'
<1> USE DEF Typed, TypeOK, Granted
<1> SUFFICES ASSUME NEW t \in Tasks
             PROVE  Worth(rows'[t]) + Cardinality(Pending(t)') <= Granted(t)'
  BY DEF BudgetInv
<1>1. Pending(t)' = Pending(t)
  BY DEF Submit, Pending
<1>2. CASE t # u
  <2>1. rows'[t] = rows[t] /\ allowance'[t] = allowance[t] /\ recovered' = recovered
    BY <1>2 DEF Submit
  <2> QED
    BY <1>1, <2>1 DEF BudgetInv
<1>3. CASE t = u
  <2>1. Pending(t) = {}
    <3>1. rows[t].attempts = 0
      BY <1>3 DEF Submit, RunsSound
    <3>2. ASSUME NEW k \in Attempts, run[t][k].pc \in Unsettled PROVE FALSE
      <4>1. k <= 0
        BY <3>1, <3>2 DEF RunsSound, Unsettled, LivePCs
      <4> QED
        BY <4>1 DEF Attempts
    <3> QED
      BY <3>2 DEF Pending
  <2>2. Worth(NewRow(h, MaxAttempts)) = MaxAttempts
    BY EngineAssumption DEF NewRow, NoRow, Worth, Peak
  <2>3. /\ rows'[t] = NewRow(h, MaxAttempts) /\ allowance'[t] = MaxAttempts
        /\ recovered' = recovered
    BY <1>3 DEF Submit
  <2> QED
    BY <1>1, <2>1, <2>2, <2>3, FS_EmptySet, EngineAssumption
<1> QED
  BY <1>2, <1>3

\* retry() may shorten a budget, but asks for no more than it is granted.
LEMMA RetryIsPaidFor ==
  ASSUME NEW row \in Row, NEW seen \in Nat, seen <= row.attempts, row.status # "queued"
  PROVE  Worth(RetryRequested(row, seen + MaxAttempts)) <= Worth(row) + MaxAttempts
<1> USE EngineAssumption DEF Row
<1> DEFINE new == RetryRequested(row, seen + MaxAttempts)
<1>1. row.attempts \in Nat /\ row.maxAttempts \in Nat
  OBVIOUS
<1>2. /\ new.attempts = row.attempts /\ new.maxAttempts = seen + MaxAttempts
      /\ new.status = "queued"
  BY DEF RetryRequested
<1> HIDE DEF new
<1>3. Worth(new) = Peak(new) + 1 /\ Worth(row) = Peak(row)
  BY <1>1, <1>2 DEF Worth, Peak
<1>4. row.attempts <= Peak(row) /\ Peak(row) \in Int
  BY <1>1 DEF Peak
<1>5. Peak(new) \in Int /\ Peak(new) + 1 <= row.attempts + MaxAttempts
  BY <1>1, <1>2 DEF Peak
<1>6. Worth(new) <= Worth(row) + MaxAttempts
  BY <1>1, <1>3, <1>4, <1>5
<1> QED
  BY <1>6 DEF new

\* What every step but a claim and a submission does to the budgets.
LEMMA StepsAfford ==
  ASSUME Typed, SeenInv, [Next]_vars
  PROVE  \/ \E r \in Runners : Claim(r)
         \/ \E t \in Tasks, h \in Handles : Submit(t, h)
         \/ \A t \in Tasks : Affords(t)
<1> USE DEF Typed, TypeOK, Granted
<1> DEFINE Fine == \A t \in Tasks : Affords(t)
<1>1. \A t \in Tasks : allowance[t] \in Nat /\ recovered[t] \in Nat /\ Worth(rows[t]) \in Int /\ rows[t] \in Row
  BY WorthOfRows
<1>2. ASSUME UNCHANGED <<rows, allowance, recovered>> PROVE Fine
  BY <1>1, <1>2 DEF Affords
<1>3. ASSUME NEW S, Reclaim(S), UNCHANGED allowance PROVE Fine
  <2> SUFFICES ASSUME NEW t \in Tasks PROVE Affords(t)
    OBVIOUS
  <2>1. CASE t \in S
    <3>1. rows'[t] = Requeued(rows[t]) /\ Granted(t)' = Granted(t) + 1
      BY <1>3, <2>1 DEF Reclaim, RequeueAll
    <3>2. Worth(Requeued(rows[t])) <= Worth(rows[t]) + 1 /\ Requeued(rows[t]) \in Row
      BY <1>1, WorthOfRows, StatementsMakeRows
    <3>3. Worth(Requeued(rows[t])) \in Int
      BY <3>2, WorthOfRows
    <3> QED
      BY <1>1, <3>1, <3>2, <3>3 DEF Affords
  <2>2. CASE t \notin S
    <3>1. rows'[t] = rows[t] /\ Granted(t)' = Granted(t)
      BY <1>3, <2>2 DEF Reclaim, RequeueAll
    <3> QED
      BY <1>1, <3>1 DEF Affords
  <2> QED
    BY <2>1, <2>2
<1>4. ASSUME NEW r \in Runners, RunnerStep(r) PROVE Claim(r) \/ Fine
  <2>1. CASE Beat(r)
    <3> SUFFICES ASSUME NEW t \in Tasks PROVE Affords(t)
      OBVIOUS
    <3>1. Worth(rows'[t]) = Worth(rows[t]) /\ Granted(t)' = Granted(t)
      BY <1>1, <2>1, WorthOfRows DEF Beat
    <3> QED
      BY <1>1, <3>1 DEF Affords
  <2>2. CASE Boot(r) \/ Reap(r)
    BY <1>2, <1>3, <2>2 DEF Boot, Reap
  <2>3. CASE Stop(r) \/ Drained(r) \/ End(r) \/ Deliver(r)
    <3>1. UNCHANGED <<rows, allowance, recovered>>
      BY <2>3 DEF Stop, Drained, End, Deliver
    <3> QED
      BY <1>2, <3>1
  <2>4. CASE ClaimLost(r)
    <3> SUFFICES ASSUME NEW t \in Tasks PROVE Affords(t)
      OBVIOUS
    <3>1. Granted(t)' = Granted(t)
      BY <2>4 DEF ClaimLost
    <3>2. rows'[t] = IF t \in Batch(r) THEN ClaimedBy(rows[t], r) ELSE rows[t]
      BY <2>4 DEF ClaimLost, ClaimRows
    <3>3. t \in Batch(r) => rows[t].status = "queued"
      BY DEF Batch, OldestWithin, Claimable
    <3>4. Worth(rows'[t]) <= Worth(rows[t])
      <4>1. CASE t \in Batch(r)
        <5>1. \A q : Worth(ClaimedBy(rows[t], q)) <= Worth(rows[t])
          BY <1>1, <3>3, <4>1, WorthOfRows
        <5> QED
          BY <3>2, <4>1, <5>1
      <4>2. CASE t \notin Batch(r)
        BY <1>1, <3>2, <4>2
      <4> QED
        BY <4>1, <4>2
    <3>5. Worth(rows'[t]) \in Int
      <4>1. ClaimedBy(rows[t], r) \in Row
        BY <1>1, StatementsMakeRows
      <4> QED
        BY <1>1, <3>2, <4>1, WorthOfRows
    <3> QED
      BY <1>1, <3>1, <3>4, <3>5 DEF Affords
  <2> QED
    BY <1>4, <2>1, <2>2, <2>3, <2>4 DEF RunnerStep
<1>5. ASSUME NEW u \in Tasks, NEW new \in Row, rows' = [rows EXCEPT ![u] = new],
             UNCHANGED <<allowance, recovered>>, Worth(new) <= Worth(rows[u])
      PROVE  Fine
  <2> SUFFICES ASSUME NEW t \in Tasks PROVE Affords(t)
    OBVIOUS
  <2>1. Worth(new) \in Int
    BY <1>5, WorthOfRows
  <2>2. rows'[t] = IF t = u THEN new ELSE rows[t]
    BY <1>5
  <2>3. Worth(rows'[t]) <= Worth(rows[t]) /\ Worth(rows'[t]) \in Int
    BY <1>1, <1>5, <2>1, <2>2
  <2> QED
    BY <1>1, <1>5, <2>3 DEF Affords
<1>6. ASSUME NEW u \in Tasks, NEW k \in Attempts, RunOne(u, k) PROVE Fine
  <2> DEFINE new == SettledRow(u, k)
             v == run[u][k]
  <2>1. ASSUME v.pc = "settling"
        PROVE  /\ new \in Row /\ Worth(new) \in Int /\ Worth(new) <= Worth(rows[u]) + 1
               /\ Worth(new) <= Worth(rows[u]) \/ k < v.max
    <3>1. v.outcome \in {"ready", "retryable", "permanent"}
      BY <2>1 DEF Outcomes
    <3>2. new \in {rows[u], Succeeded(rows[u]), RetryScheduled(rows[u]),
                   Failed(rows[u], "retryable"), Failed(rows[u], "permanent")}
      BY <3>1 DEF SettledRow
    <3>3. new \in Row
      BY <1>1, <3>2, StatementsMakeRows
    <3>4. \A o : /\ Worth(Succeeded(rows[u])) <= Worth(rows[u])
                 /\ Worth(RetryScheduled(rows[u])) <= Worth(rows[u]) + 1
                 /\ Worth(Failed(rows[u], o)) <= Worth(rows[u])
      BY <1>1, WorthOfRows
    <3>5. \/ new = RetryScheduled(rows[u]) /\ k < v.max
          \/ new \in {rows[u], Succeeded(rows[u]), Failed(rows[u], v.outcome)}
      BY DEF SettledRow, BudgetLeft
    <3>6. Worth(new) \in Int
      BY <3>3, WorthOfRows
    <3>7. CASE new = RetryScheduled(rows[u]) /\ k < v.max
      BY <3>3, <3>4, <3>6, <3>7
    <3>8. CASE new \in {rows[u], Succeeded(rows[u]), Failed(rows[u], v.outcome)}
      <4>1. Worth(new) <= Worth(rows[u])
        BY <1>1, <3>4, <3>8
      <4> QED
        BY <1>1, <3>3, <3>6, <4>1
    <3> QED
      BY <3>5, <3>7, <3>8
  <2> HIDE DEF new
  <2>2. CASE Settle(u, k)
    <3> SUFFICES ASSUME NEW t \in Tasks PROVE Affords(t)
      OBVIOUS
    <3>1. /\ rows' = [rows EXCEPT ![u] = new] /\ UNCHANGED <<allowance, recovered>>
          /\ v.pc = "settling" /\ run'[u][k].pc = "closing"
      BY <2>2 DEF Settle, RunStep, Run, new
    <3>2. CASE Worth(new) <= Worth(rows[u])
      BY <1>5, <2>1, <3>1, <3>2
    <3>3. CASE k < v.max /\ t = u
      <4>1. Worth(rows'[t]) <= Worth(rows[t]) + 1
        BY <2>1, <3>1, <3>3
      <4> QED
        BY <3>1, <3>3, <4>1 DEF Affords, Unsettled, LivePCs
    <3>4. CASE t # u
      <4>1. rows'[t] = rows[t] /\ Granted(t)' = Granted(t)
        BY <3>1, <3>4
      <4> QED
        BY <1>1, <4>1 DEF Affords
    <3> QED
      BY <2>1, <3>1, <3>2, <3>3, <3>4
  <2>3. CASE SettleFails(u, k)
    <3> SUFFICES ASSUME NEW t \in Tasks PROVE Affords(t)
      OBVIOUS
    <3>1. v.pc = "settling"
      BY <2>3 DEF SettleFails
    <3>2. CASE UNCHANGED <<rows, allowance, recovered>>
      BY <1>2, <3>2
    <3>3. CASE /\ rows' = [rows EXCEPT ![u] = new]
               /\ recovered' = [recovered EXCEPT ![u] = @ + 1]
               /\ UNCHANGED allowance
      <4>1. CASE t = u
        <5>1. rows'[t] = new /\ Granted(t)' = Granted(t) + 1
          BY <3>3, <4>1
        <5> QED
          BY <1>1, <2>1, <3>1, <4>1, <5>1 DEF Affords
      <4>2. CASE t # u
        <5>1. rows'[t] = rows[t] /\ Granted(t)' = Granted(t)
          BY <3>3, <4>2
        <5> QED
          BY <1>1, <5>1 DEF Affords
      <4> QED
        BY <4>1, <4>2
    <3> QED
      BY <2>3, <3>2, <3>3 DEF SettleFails, new
  <2>4. CASE UNCHANGED <<rows, allowance, recovered>>
    BY <1>2, <2>4
  <2> QED
    BY <1>6, <2>2, <2>3, <2>4
    DEF RunOne, CallWorker, NoWorker, Timeout, WorkerReturns, StartFails, Finally
<1>7. ASSUME NEW u \in Tasks, TimeStep(u) \/ Collect(u) PROVE Fine
  <2>1. /\ [rows[u] EXCEPT !.lease = "lapsed"] \in Row /\ [rows[u] EXCEPT !.due = TRUE] \in Row
        /\ Collected(rows[u]) \in Row
    BY <1>1, TimeMakesRows, StatementsMakeRows
  <2>2. PICK new \in {[rows[u] EXCEPT !.lease = "lapsed"], [rows[u] EXCEPT !.due = TRUE],
                      Collected(rows[u])} :
          rows' = [rows EXCEPT ![u] = new] /\ UNCHANGED <<allowance, recovered>>
    BY <1>7 DEF TimeStep, LeaseLapses, LeaseStarves, BackoffElapses, Collect
  <2>3. new \in Row
    BY <2>1, <2>2
  <2>4. Worth(new) = Worth(rows[u])
    BY <1>1, <2>2, WorthOfRows
  <2>5. Worth(new) <= Worth(rows[u])
    BY <1>1, <2>4
  <2> QED
    BY <1>5, <2>2, <2>3, <2>5
<1>8. ASSUME NEW c \in Clients, RequestStep(c) PROVE Fine
  <2>1. req[c].step # "idle" => req[c].task \in Tasks /\ req[c].seen \in Nat
    BY DEF Request, OpenRequest, NoRequest
  <2>2. CASE CancelQueued(c) \/ CancelRunning(c) \/ CancelFailed(c)
    <3>1. req[c].task \in Tasks
      BY <2>1, <2>2 DEF CancelQueued, CancelRunning, CancelFailed, TryCancel
    <3>2. /\ UNCHANGED rows \/ rows' = [rows EXCEPT ![req[c].task] = Cancelled(rows[req[c].task])]
          /\ UNCHANGED <<allowance, recovered>>
      BY <2>2 DEF CancelQueued, CancelRunning, CancelFailed, TryCancel
    <3>3. /\ Cancelled(rows[req[c].task]) \in Row
          /\ Worth(Cancelled(rows[req[c].task])) <= Worth(rows[req[c].task])
      BY <1>1, <3>1, StatementsMakeRows, WorthOfRows
    <3> QED
      BY <1>2, <1>5, <3>1, <3>2, <3>3
  <2>3. CASE WriteRetry(c)
    <3> DEFINE u == req[c].task
               new == RetryRequested(rows[u], req[c].seen + MaxAttempts)
    <3>1. u \in Tasks /\ req[c].seen \in Nat /\ req[c].seen <= rows[u].attempts
      BY <2>1, <2>3 DEF WriteRetry, SeenInv
    <3>2. CASE UNCHANGED <<rows, allowance, recovered>>
      BY <1>2, <3>2
    <3>3. CASE /\ UNCHANGED recovered
               /\ rows[u].status = "failed" /\ rows' = [rows EXCEPT ![u] = new]
               /\ allowance' = [allowance EXCEPT ![u] = @ + MaxAttempts]
      <4>1. Worth(new) <= Worth(rows[u]) + MaxAttempts
        BY <1>1, <3>1, <3>3, RetryIsPaidFor
      <4>2. new \in Row
        <5>1. req[c].seen + MaxAttempts \in Nat
          BY <3>1, EngineAssumption
        <5> QED
          BY <1>1, <3>1, <5>1, StatementsMakeRows
      <4>3. Worth(new) \in Int
        BY <4>2, WorthOfRows
      <4> HIDE DEF u, new
      <4> SUFFICES ASSUME NEW t \in Tasks PROVE Affords(t)
        OBVIOUS
      <4>4. CASE t = u
        <5>0. MaxAttempts \in Nat
          BY EngineAssumption
        <5>2. rows'[t] = new /\ allowance'[t] = allowance[t] + MaxAttempts
          BY <3>3, <4>4
        <5>1. rows'[t] = new /\ Granted(t)' = Granted(t) + MaxAttempts
          BY <1>1, <3>3, <5>0, <5>2
        <5> QED
          BY <1>1, <4>1, <4>3, <4>4, <5>1, EngineAssumption DEF Affords
      <4>5. CASE t # u
        <5>1. rows'[t] = rows[t] /\ Granted(t)' = Granted(t)
          BY <3>3, <4>5
        <5> QED
          BY <1>1, <5>1 DEF Affords
      <4> QED
        BY <4>4, <4>5
    <3> QED
      BY <2>3, <3>2, <3>3 DEF WriteRetry
  <2>4. CASE UNCHANGED <<rows, allowance, recovered>>
    BY <1>2, <2>4
  <2> QED
    BY <1>8, <2>2, <2>3, <2>4
    DEF RequestStep, BeginCancel, BeginRetry, Begin, Abort, Refuse, RequestFails
<1>9. CASE UNCHANGED vars
  BY <1>2, <1>9 DEF vars
<1> QED
  BY <1>4, <1>6, <1>7, <1>8, <1>9 DEF Next

\* What a retry read is not ahead of the row: attempts are only ever added.
LEMMA SeenKept ==
  ASSUME Typed, Typed', RunsSound, SeenInv, [Next]_vars
  PROVE  SeenInv'
<1> USE DEF Typed, TypeOK
<1>1. SUFFICES ASSUME NEW c \in Clients, req'[c].step = "retry"
               PROVE  req'[c].seen <= rows'[req'[c].task].attempts
  BY DEF SeenInv
<1>2. /\ req'[c].task \in Tasks /\ req'[c].seen \in Nat
      /\ rows[req'[c].task].attempts \in Nat /\ rows'[req'[c].task].attempts \in Nat
  BY <1>1 DEF Request, OpenRequest, NoRequest, Row
<1>3. rows'[req'[c].task].attempts >= rows[req'[c].task].attempts
  BY <1>2, RowsAlwaysGrow DEF RowsGrow
<1>4. req'[c].seen <= rows[req'[c].task].attempts
  <2> DEFINE Seen == req'[c].seen <= rows[req'[c].task].attempts
  <2>1. ASSUME req'[c] = req[c] PROVE Seen
    BY <1>1, <2>1 DEF SeenInv
  <2>2. ASSUME NEW d \in Clients, RequestStep(d) PROVE Seen
    <3>1. ASSUME NEW t \in Tasks, NEW r \in Runners, BeginCancel(d, t, r) \/ BeginRetry(d, t, r)
          PROVE  Seen
      BY <1>1, <1>2, <2>1, <3>1 DEF BeginCancel, BeginRetry, Begin
    <3>2. CASE CancelQueued(d) \/ CancelRunning(d) \/ CancelFailed(d)
      <4>1. PICK n \in {NoRequest} \cup
                       {[req[d] EXCEPT !.step = s] :
                          s \in {"abort", "tryRunning", "tryFailed", "refuse"}} :
              req' = [req EXCEPT ![d] = n]
        BY <3>2 DEF CancelQueued, CancelRunning, CancelFailed, TryCancel
      <4>2. req[d] \in Request
        OBVIOUS
      <4>3. n.step # "retry"
        BY <4>1, <4>2 DEF NoRequest, Request, OpenRequest
      <4> QED
        BY <1>1, <2>1, <4>1, <4>3
    <3>3. CASE Abort(d) \/ Refuse(d) \/ RequestFails(d) \/ WriteRetry(d)
      <4>1. req' = [req EXCEPT ![d] = NoRequest] /\ NoRequest.step # "retry"
        BY <3>3 DEF Abort, Refuse, RequestFails, WriteRetry, NoRequest
      <4> QED
        BY <1>1, <2>1, <4>1
    <3> QED
      BY <2>2, <3>1, <3>2, <3>3 DEF RequestStep
  <2>3. ASSUME NEW r \in Runners, RunnerStep(r) PROVE Seen
    <3>1. CASE End(r)
      <4>1. NoRequest.step # "retry"
        BY DEF NoRequest
      <4> QED
        BY <1>1, <2>1, <3>1, <4>1 DEF End
    <3> QED
      BY <2>1, <2>3, <3>1
      DEF RunnerStep, Boot, Stop, Drained, Claim, ClaimLost, Deliver, Beat, Reap
  <2>4. ASSUME NEW u \in Tasks, NEW k \in Attempts, RunOne(u, k) PROVE Seen
    <3>1. UNCHANGED req
      BY <2>4 DEF RunOne, CallWorker, NoWorker, Timeout, WorkerReturns, Settle, StartFails,
                  SettleFails, Finally
    <3> QED
      BY <2>1, <3>1
  <2>5. ASSUME NEW u \in Tasks, TimeStep(u) \/ Collect(u) \/ \E h \in Handles : Submit(u, h)
        PROVE  Seen
    <3>1. UNCHANGED req
      BY <2>5 DEF TimeStep, LeaseLapses, LeaseStarves, BackoffElapses, Collect, Submit
    <3> QED
      BY <2>1, <3>1
  <2>6. CASE UNCHANGED vars
    BY <2>1, <2>6 DEF vars
  <2> QED
    BY <2>2, <2>3, <2>4, <2>5, <2>6 DEF Next
<1> QED
  BY <1>2, <1>3, <1>4

\* No task is executed more often than its submission, its retries, the sweeps
\* and the lost answers have granted: pending runs cannot requeue it beyond
\* that, however stale the budget they and a retry have read.
THEOREM BudgetsHold == Spec => []BudgetRespected
<1> USE DEF Granted
<1>1. ASSUME Init PROVE BudgetInv /\ SeenInv
  <2>1. \A t \in Tasks : Pending(t) = {} /\ Worth(rows[t]) = 0 /\ Granted(t) = 0
    BY <1>1 DEF Init, Pending, Unsettled, LivePCs, NoRun, NoRow, Worth, Peak
  <2>2. SeenInv
    BY <1>1 DEF Init, SeenInv, NoRequest
  <2> QED
    BY <2>1, <2>2, FS_EmptySet DEF BudgetInv
<1>2. ASSUME Typed, Typed', RunsSound, BudgetInv, SeenInv, [Next]_vars PROVE BudgetInv'
  <2>1. ASSUME NEW r \in Runners, Claim(r) PROVE BudgetInv'
    BY <1>2, <2>1, ClaimKeepsBudget
  <2>2. ASSUME NEW t \in Tasks, NEW h \in Handles, Submit(t, h) PROVE BudgetInv'
    BY <1>2, <2>2, SubmitKeepsBudget
  <2>3. CASE Relieves /\ \A t \in Tasks : Affords(t)
    BY <1>2, <2>3, ReliefKeepsBudget
  <2> QED
    BY <1>2, <2>1, <2>2, <2>3, StepsRelieve, StepsAfford
<1>3. ASSUME Typed, BudgetInv PROVE BudgetRespected
  <2> SUFFICES ASSUME NEW t \in Tasks PROVE rows[t].attempts <= allowance[t] + recovered[t]
    BY DEF BudgetRespected
  <2>1. Cardinality(Pending(t)) \in Nat
    BY AttemptsAreFinite DEF Pending
  <2>2. /\ rows[t].attempts \in Nat /\ Granted(t) \in Nat /\ Worth(rows[t]) \in Int
        /\ rows[t].attempts <= Worth(rows[t])
    <3>1. rows[t] \in Row /\ Granted(t) \in Nat
      BY <1>3 DEF Typed, TypeOK
    <3>2. rows[t].attempts \in Nat /\ rows[t].maxAttempts \in Nat
      BY <3>1 DEF Row
    <3> QED
      BY <3>1, <3>2 DEF Worth, Peak
  <2> QED
    BY <1>3, <2>1, <2>2 DEF BudgetInv
<1> QED
  BY <1>1, <1>2, <1>3, SeenKept, AlwaysTyped, AlwaysRunsSound, PTL DEF Spec

-----------------------------------------------------------------------------
(* Rivals. *)

\* The attempts at t that have still to write their outcome.
Live(t) == {k \in Attempts : run[t][k].pc \in Unsettled}

\* The row is out of the hands of a claim, or was never given back from one.
Held(row) == row.status \in {"running", "cancelled"}

\* RivalsAreRecovered with what makes it inductive: once a row has been given
\* back, the run it was at is a rival of the next.
Spare(t) == IF Held(rows[t]) THEN Rivals(t) ELSE Live(t)

SpareInv == \A t \in Tasks : Cardinality(Spare(t)) <= recovered[t]

\* What a step does to them: none is added, or one in return for a recovery or
\* for another that writes its outcome.
Eases(t) ==
  \/ Spare(t)' \subseteq Spare(t) /\ recovered'[t] >= recovered[t]
  \/ \E k \in Attempts :
       Spare(t)' \subseteq Spare(t) \cup {k} /\ recovered'[t] = recovered[t] + 1
  \/ \E j \in Spare(t), k \in Attempts :
       Spare(t)' \subseteq (Spare(t) \ {j}) \cup {k} /\ recovered'[t] >= recovered[t]

LEMMA EasingKeepsSpare ==
  ASSUME Typed, Typed', SpareInv, NEW t \in Tasks, Eases(t)
  PROVE  Cardinality(Spare(t)') <= recovered'[t]
<1> DEFINE S == Spare(t)
           T == Spare(t)'
<1>1. S \in SUBSET Attempts /\ T \in SUBSET Attempts
  BY DEF Spare, Rivals, Live
<1>2. /\ IsFiniteSet(S) /\ Cardinality(S) \in Nat
      /\ IsFiniteSet(T) /\ Cardinality(T) \in Nat
  BY <1>1, AttemptsAreFinite
<1>3. recovered[t] \in Nat /\ recovered'[t] \in Nat /\ Cardinality(S) <= recovered[t]
  BY DEF Typed, TypeOK, SpareInv
<1>4. ASSUME NEW D, D \subseteq S, NEW k, T \subseteq D \cup {k}
      PROVE  Cardinality(T) <= Cardinality(D) + 1 /\ Cardinality(D) \in Nat
  <2>1. IsFiniteSet(D) /\ Cardinality(D) \in Nat
    BY <1>2, <1>4, FS_Subset, FS_CardinalityType
  <2>2. /\ IsFiniteSet(D \cup {k})
        /\ Cardinality(D \cup {k}) = IF k \in D THEN Cardinality(D) ELSE Cardinality(D) + 1
    BY <2>1, FS_AddElement
  <2>3. Cardinality(T) <= Cardinality(D \cup {k})
    BY <1>4, <2>2, FS_Subset
  <2> QED
    BY <1>2, <2>1, <2>2, <2>3
<1> SUFFICES Cardinality(T) <= recovered'[t]
  OBVIOUS
<1>7. Eases(t)
  OBVIOUS
<1> HIDE DEF S, T
<1>8. CASE T \subseteq S /\ recovered'[t] >= recovered[t]
  <2>1. Cardinality(T) <= Cardinality(S)
    BY <1>2, <1>8, FS_Subset
  <2> QED
    BY <1>2, <1>3, <1>8, <2>1
<1>9. ASSUME NEW k \in Attempts, T \subseteq S \cup {k}, recovered'[t] = recovered[t] + 1
      PROVE  Cardinality(T) <= recovered'[t]
  <2>1. Cardinality(T) <= Cardinality(S) + 1
    BY <1>4, <1>9
  <2> QED
    BY <1>2, <1>3, <1>9, <2>1
<1>10. ASSUME NEW j \in S, NEW k \in Attempts, T \subseteq (S \ {j}) \cup {k},
              recovered'[t] >= recovered[t]
       PROVE  Cardinality(T) <= recovered'[t]
  <2>1. Cardinality(S \ {j}) = Cardinality(S) - 1
    BY <1>2, <1>10, FS_RemoveElement
  <2>2. Cardinality(T) <= Cardinality(S \ {j}) + 1
    BY <1>4, <1>10
  <2> QED
    BY <1>2, <1>3, <1>10, <2>1, <2>2
<1> QED
  BY <1>7, <1>8, <1>9, <1>10 DEF Eases, S, T

\* Recoveries are counted and never forgotten.
LEMMA RecoveriesAdd ==
  ASSUME Typed, [Next]_vars, NEW t \in Tasks
  PROVE  recovered'[t] >= recovered[t]
<1> USE DEF Typed, TypeOK
<1>1. ASSUME recovered' = recovered PROVE recovered'[t] >= recovered[t]
  BY <1>1
<1>2. ASSUME NEW S, Reclaim(S) PROVE recovered'[t] >= recovered[t]
  BY <1>2 DEF Reclaim
<1>3. ASSUME NEW r \in Runners, RunnerStep(r) PROVE recovered'[t] >= recovered[t]
  BY <1>1, <1>2, <1>3
  DEF RunnerStep, Boot, Stop, Drained, End, Claim, ClaimLost, Deliver, Beat, Reap
<1>4. ASSUME NEW u \in Tasks, NEW k \in Attempts, RunOne(u, k)
      PROVE  recovered'[t] >= recovered[t]
  <2>1. CASE recovered' = [recovered EXCEPT ![u] = @ + 1]
    BY <2>1
  <2> QED
    BY <1>1, <1>4, <2>1
    DEF RunOne, CallWorker, NoWorker, Timeout, WorkerReturns, Settle, StartFails,
        SettleFails, Finally
<1>5. ASSUME NEW u \in Tasks, TimeStep(u) \/ Collect(u) \/ \E h \in Handles : Submit(u, h)
      PROVE  recovered'[t] >= recovered[t]
  BY <1>1, <1>5 DEF TimeStep, LeaseLapses, LeaseStarves, BackoffElapses, Collect, Submit
<1>6. ASSUME NEW c \in Clients, RequestStep(c) PROVE recovered'[t] >= recovered[t]
  BY <1>1, <1>6
  DEF RequestStep, BeginCancel, BeginRetry, Begin, CancelQueued, CancelRunning,
      CancelFailed, TryCancel, Abort, Refuse, RequestFails, WriteRetry
<1>7. CASE UNCHANGED vars
  BY <1>1, <1>7 DEF vars
<1> QED
  BY <1>3, <1>4, <1>5, <1>6, <1>7 DEF Next

\* How a running row is given back: by a sweep, with an answer that was lost,
\* or by a run that has written its outcome.
LEMMA GivenBack ==
  ASSUME Typed, [Next]_vars, NEW t \in Tasks,
         rows[t].status = "running", ~Held(rows'[t])
  PROVE  \/ recovered'[t] = recovered[t] + 1
         \/ \E k \in Attempts : run[t][k].pc = "settling" /\ run'[t][k].pc = "closing"
<1> USE DEF Typed, TypeOK
<1> DEFINE Goal == \/ recovered'[t] = recovered[t] + 1
                   \/ \E k \in Attempts :
                        run[t][k].pc = "settling" /\ run'[t][k].pc = "closing"
<1>1. rows'[t] # rows[t] /\ rows'[t].status \notin {"running", "cancelled"}
  BY DEF Held
<1>2. ASSUME NEW S, Reclaim(S) PROVE Goal
  BY <1>1, <1>2 DEF Reclaim, RequeueAll
<1>3. ASSUME NEW r \in Runners, RunnerStep(r) PROVE Goal
  <2>1. CASE ClaimRows(r)
    BY <1>1, <2>1 DEF ClaimRows, Batch, OldestWithin, Claimable
  <2>2. CASE Beat(r)
    <3>1. [rows[t] EXCEPT !.lease = "held"].status = "running"
      BY DEF Row
    <3> QED
      BY <1>1, <2>2, <3>1 DEF Beat
  <2> QED
    BY <1>1, <1>2, <1>3, <2>1, <2>2
    DEF RunnerStep, Boot, Stop, Drained, End, Claim, ClaimLost, Deliver, Reap
<1>4. ASSUME NEW u \in Tasks, NEW k \in Attempts, RunOne(u, k) PROVE Goal
  <2>1. CASE Settle(u, k)
    <3>1. u = t
      BY <1>1, <2>1 DEF Settle
    <3>2. run[t][k].pc = "settling" /\ run'[t][k].pc = "closing"
      BY <2>1, <3>1 DEF Settle, RunStep, Run
    <3> QED
      BY <3>2
  <2>2. CASE SettleFails(u, k)
    <3>1. /\ rows' = [rows EXCEPT ![u] = SettledRow(u, k)]
          /\ recovered' = [recovered EXCEPT ![u] = @ + 1]
      BY <1>1, <2>2 DEF SettleFails
    <3>2. u = t
      BY <1>1, <3>1
    <3> QED
      BY <3>1, <3>2
  <2> QED
    BY <1>1, <1>4, <2>1, <2>2
    DEF RunOne, CallWorker, NoWorker, Timeout, WorkerReturns, StartFails, Finally
<1>5. ASSUME NEW u \in Tasks, NEW new, rows' = [rows EXCEPT ![u] = new],
             rows[u].status # "running" \/ new.status \in {"running", "cancelled"}
      PROVE  FALSE
  BY <1>1, <1>5
<1>6. ASSUME NEW u \in Tasks, TimeStep(u) PROVE FALSE
  <2>1. [rows[u] EXCEPT !.lease = "lapsed"].status = rows[u].status
    BY DEF Row
  <2>2. CASE LeaseLapses(u)
    BY <1>5, <2>1, <2>2 DEF LeaseLapses
  <2>3. CASE LeaseStarves(u)
    BY <1>5, <2>1, <2>3 DEF LeaseStarves, Attended
  <2> QED
    BY <1>5, <1>6, <2>2, <2>3 DEF TimeStep, BackoffElapses
<1>7. ASSUME NEW u \in Tasks, Collect(u) \/ \E h \in Handles : Submit(u, h) PROVE FALSE
  BY <1>5, <1>7 DEF Collect, Submit
<1>8. ASSUME NEW c \in Clients, RequestStep(c) PROVE FALSE
  <2>1. \A u \in Tasks : Cancelled(rows[u]).status = "cancelled"
    BY DEF Cancelled, Row
  <2>2. req[c].step # "idle" => req[c].task \in Tasks
    BY DEF Request, OpenRequest, NoRequest
  <2>3. CASE CancelQueued(c) \/ CancelRunning(c) \/ CancelFailed(c)
    BY <1>1, <1>5, <2>1, <2>2, <2>3 DEF CancelQueued, CancelRunning, CancelFailed, TryCancel
  <2>4. CASE WriteRetry(c)
    BY <1>1, <1>5, <2>2, <2>4 DEF WriteRetry
  <2> QED
    BY <1>1, <1>8, <2>3, <2>4
    DEF RequestStep, BeginCancel, BeginRetry, Begin, Abort, Refuse, RequestFails
<1> QED
  BY <1>1, <1>3, <1>4, <1>6, <1>7, <1>8 DEF Next, vars

\* A row that is running or cancelled is at the same attempt after the step.
LEMMA HeldKeepsAttempt ==
  ASSUME Typed, [Next]_vars, NEW t \in Tasks, Held(rows[t])
  PROVE  /\ rows'[t].attempts = rows[t].attempts
         /\ rows[t].status = "cancelled" => Held(rows'[t])
<1>1. rows[t] \in Row
  BY DEF Typed, TypeOK
<1>2. CASE RowsFollow
  <2>1. MayBecome(rows[t], rows'[t])
    BY <1>2 DEF RowsFollow
  <2>2. CASE rows'[t] = rows[t]
    BY <2>2
  <2>3. CASE rows[t].status = "running" /\ rows'[t] # rows[t]
    <3>1. rows'[t] \in {Requeued(rows[t]), RetryScheduled(rows[t]), Succeeded(rows[t]),
                        Failed(rows[t], "retryable"), Failed(rows[t], "permanent"),
                        Cancelled(rows[t]), [rows[t] EXCEPT !.lease = "held"],
                        [rows[t] EXCEPT !.lease = "lapsed"]}
      BY <2>1, <2>3 DEF MayBecome
    <3> QED
      BY <1>1, <2>3, <3>1
      DEF Requeued, RetryScheduled, Succeeded, Failed, Cancelled, Row
  <2> QED
    BY <2>1, <2>2, <2>3 DEF MayBecome, Held
<1>3. ASSUME NEW u \in Tasks, NEW h \in Handles, Submit(u, h) PROVE rows'[t] = rows[t]
  BY <1>3 DEF Submit, Held, Typed, TypeOK
<1> QED
  BY <1>2, <1>3, StepsFollow

LEMMA StepsEase ==
  ASSUME Typed, Typed', RunsSound, [Next]_vars, NEW t \in Tasks
  PROVE  Eases(t)
<1> USE DEF Typed, TypeOK
<1>1. recovered'[t] >= recovered[t]
  BY RecoveriesAdd
<1>2. CASE Relieves
  <2>1. Live(t)' \subseteq Live(t)
    BY <1>2 DEF Live, Relieves
  <2>2. CASE ~Held(rows[t])
    BY <1>1, <2>1, <2>2 DEF Eases, Spare, Rivals, Live
  <2>3. CASE Held(rows[t]) /\ Held(rows'[t])
    <3>1. Rivals(t)' \subseteq Rivals(t)
      BY <2>1, <2>3, HeldKeepsAttempt DEF Rivals, Live
    <3> QED
      BY <1>1, <2>3, <3>1 DEF Eases, Spare
  <2>4. CASE Held(rows[t]) /\ ~Held(rows'[t])
    <3> DEFINE n == rows[t].attempts
    <3>1. Spare(t) = Live(t) \ {n} /\ Spare(t)' = Live(t)'
      BY <2>4 DEF Spare, Rivals, Live
    <3>2. CASE n \notin Live(t)
      BY <1>1, <2>1, <3>1, <3>2 DEF Eases
    <3>3. CASE n \in Live(t)
      <4>1. n \in Attempts /\ Spare(t)' \subseteq Spare(t) \cup {n}
        BY <2>1, <3>1, <3>3 DEF Live
      <4>2. rows[t].status = "running"
        BY <2>4, HeldKeepsAttempt DEF Held
      <4>3. ASSUME NEW k \in Attempts, run[t][k].pc = "settling",
                   run'[t][k].pc = "closing"
            PROVE  Eases(t)
        <5>1. k \in Live(t) /\ k \notin Live(t)'
          BY <4>3 DEF Live, Unsettled, LivePCs
        <5>2. CASE k = n
          <6>1. Spare(t)' \subseteq Spare(t)
            BY <2>1, <3>1, <5>1, <5>2
          <6> QED
            BY <1>1, <6>1 DEF Eases
        <5>3. CASE k # n
          <6>1. k \in Spare(t) /\ Spare(t)' \subseteq (Spare(t) \ {k}) \cup {n}
            BY <2>1, <3>1, <5>1, <5>3
          <6> QED
            BY <1>1, <4>1, <6>1 DEF Eases
        <5> QED
          BY <5>2, <5>3
      <4>4. CASE recovered'[t] = recovered[t] + 1
        BY <4>1, <4>4 DEF Eases
      <4> QED
        BY <2>4, <4>2, <4>3, <4>4, GivenBack
    <3> QED
      BY <3>2, <3>3
  <2> QED
    BY <2>2, <2>3, <2>4
<1>3. ASSUME NEW r \in Runners, Claim(r) PROVE Eases(t)
  <2>1. /\ rows' = [u \in Tasks |->
                     IF u \in Batch(r) THEN ClaimedBy(rows[u], r) ELSE rows[u]]
        /\ run' = [u \in Tasks |-> [k \in Attempts |->
                    IF u \in Batch(r) /\ k = rows[u].attempts + 1
                    THEN ClaimedRun(r, rows[u].maxAttempts) ELSE run[u][k]]]
    BY <1>3 DEF Claim, ClaimRows
  <2>2. CASE t \notin Batch(r)
    <3>1. rows'[t] = rows[t] /\ \A k \in Attempts : run'[t][k] = run[t][k]
      BY <2>1, <2>2
    <3> QED
      BY <1>1, <3>1 DEF Eases, Spare, Rivals, Live
  <2>3. CASE t \in Batch(r)
    <3>1. rows[t].status = "queued" /\ rows[t].attempts \in Nat
      BY <2>3 DEF Batch, OldestWithin, Claimable, Row
    <3>2. /\ rows'[t].status = "running" /\ rows'[t].attempts = rows[t].attempts + 1
          /\ \A k \in Attempts : k # rows[t].attempts + 1 => run'[t][k] = run[t][k]
      BY <2>1, <2>3 DEF ClaimedBy, Row
    <3>3. Spare(t)' = Rivals(t)' /\ Spare(t) = Live(t)
      BY <3>1, <3>2 DEF Spare, Held
    <3>4. Rivals(t)' \subseteq Live(t)
      BY <3>2 DEF Rivals, Live
    <3> QED
      BY <1>1, <3>3, <3>4 DEF Eases
  <2> QED
    BY <2>2, <2>3
<1> QED
  BY <1>2, <1>3, StepsRelieve

LEMMA AlwaysSpare == Spec => []SpareInv
<1>1. ASSUME Init PROVE SpareInv
  <2>1. \A t \in Tasks : Spare(t) = {} /\ recovered[t] = 0
    BY <1>1 DEF Init, Spare, Rivals, Live, NoRun, Unsettled, LivePCs
  <2> QED
    BY <2>1, FS_EmptySet DEF SpareInv
<1>2. ASSUME Typed, Typed', RunsSound, SpareInv, [Next]_vars PROVE SpareInv'
  <2>1. ASSUME NEW t \in Tasks PROVE Cardinality(Spare(t)') <= recovered'[t]
    BY <1>2, EasingKeepsSpare, StepsEase
  <2> QED
    BY <2>1 DEF SpareInv
<1> QED
  BY <1>1, <1>2, AlwaysTyped, AlwaysRunsSound, PTL DEF Spec

LEMMA SpareMeansRivals ==
  ASSUME Typed, SpareInv
  PROVE  RivalsAreRecovered
<1> SUFFICES ASSUME NEW t \in Tasks PROVE Cardinality(Rivals(t)) <= recovered[t]
  BY DEF RivalsAreRecovered
<1>1. Rivals(t) \subseteq Spare(t) /\ Spare(t) \in SUBSET Attempts
  BY DEF Spare, Rivals, Live
<1>2. IsFiniteSet(Spare(t)) /\ Cardinality(Spare(t)) \in Nat
  BY <1>1, AttemptsAreFinite
<1>3. Cardinality(Rivals(t)) <= Cardinality(Spare(t)) /\ Cardinality(Rivals(t)) \in Nat
  BY <1>1, <1>2, FS_Subset, FS_CardinalityType
<1>4. Cardinality(Spare(t)) <= recovered[t] /\ recovered[t] \in Nat
  BY DEF SpareInv, Typed, TypeOK
<1> QED
  BY <1>2, <1>3, <1>4

\* However many processes claim, stall, recover, retry and cancel, a task has
\* no more runs that could settle an attempt not their own than a sweep or a
\* lost answer has taken it from a run.
THEOREM RivalsRecovered == Spec => []RivalsAreRecovered
BY AlwaysSpare, SpareMeansRivals, AlwaysTyped, PTL

\* Attempt k writes its outcome while the row is at another.
SettlesAnother(t, k) ==
  /\ run[t][k].pc = "settling" /\ run'[t][k] # run[t][k]
  /\ rows'[t] # rows[t] /\ k # rows[t].attempts

\* settle() does not compare attempts, so a run may settle a later attempt of
\* its own process; but only of a task that a sweep or a lost answer has taken
\* from a run before.
THEOREM OnlyRecoveredAreSettledByAnother ==
  Spec => [][\A t \in Tasks, k \in Attempts : SettlesAnother(t, k) => recovered[t] > 0]_vars
<1>1. ASSUME Typed, RivalsAreRecovered, NEW t \in Tasks, NEW k \in Attempts,
             SettlesAnother(t, k)
      PROVE  recovered[t] > 0
  <2>1. k \in Rivals(t)
    BY <1>1 DEF SettlesAnother, Rivals, Unsettled, LivePCs
  <2>2. IsFiniteSet(Rivals(t)) /\ Cardinality(Rivals(t)) \in Nat
    BY AttemptsAreFinite DEF Rivals
  <2>3. Cardinality(Rivals(t)) # 0
    BY <2>1, <2>2, FS_EmptySet
  <2>4. Cardinality(Rivals(t)) <= recovered[t] /\ recovered[t] \in Nat
    BY <1>1 DEF RivalsAreRecovered, Typed, TypeOK
  <2> QED
    BY <2>2, <2>3, <2>4
<1>2. ASSUME Typed, RivalsAreRecovered
      PROVE  [\A t \in Tasks, k \in Attempts :
                SettlesAnother(t, k) => recovered[t] > 0]_vars
  BY <1>1, <1>2
<1> QED
  BY <1>2, RivalsRecovered, AlwaysTyped, PTL

-----------------------------------------------------------------------------
(* Retries. *)

\* What the step leaves a task it retries.
RetryIsBounded ==
  \A t \in Tasks :
    rows[t].status = "failed" /\ rows'[t].status = "queued" =>
      rows'[t].maxAttempts - rows'[t].attempts <= MaxAttempts

\* types.ts:285 promises a fresh budget with a retry.  The run
\* `engine_retry_budget` shows that it can be less, as retry() counts from the
\* attempts it read before; more than a fresh budget it never grants, however
\* long ago that was.
THEOREM RetriesGrantNoMore == Spec => [][RetryIsBounded]_vars
<1>1. Init => SeenInv
  BY DEF Init, SeenInv, NoRequest
<1>2. ASSUME Typed, SeenInv, [Next]_vars PROVE RetryIsBounded
  <2> USE DEF Typed, TypeOK
  <2> SUFFICES ASSUME NEW t \in Tasks,
                      rows[t].status = "failed", rows'[t].status = "queued"
               PROVE  rows'[t].maxAttempts - rows'[t].attempts <= MaxAttempts
    BY DEF RetryIsBounded
  <2> DEFINE Goal == rows'[t].maxAttempts - rows'[t].attempts <= MaxAttempts
  <2>1. rows'[t] # rows[t]
    OBVIOUS
  <2>2. ASSUME NEW r \in Runners, RunnerStep(r) PROVE Goal
    <3>1. CASE ClaimRows(r)
      BY <2>1, <3>1 DEF ClaimRows, Batch, OldestWithin, Claimable
    <3>2. CASE Beat(r)
      BY <2>1, <3>2 DEF Beat
    <3>3. CASE Reap(r)
      BY <2>1, <3>3 DEF Reap, Reclaim, RequeueAll, LapsedExcept
    <3>4. CASE Boot(r)
      BY <2>1, <3>4 DEF Boot, Reclaim, RequeueAll, Orphans
    <3> QED
      BY <2>1, <2>2, <3>1, <3>2, <3>3, <3>4
      DEF RunnerStep, Stop, Drained, End, Claim, ClaimLost, Deliver
  <2>3. ASSUME NEW u \in Tasks, NEW k \in Attempts, RunOne(u, k) PROVE Goal
    <3>1. CASE Settle(u, k)
      BY <2>1, <3>1 DEF Settle, SettledRow, Owns
    <3>2. CASE SettleFails(u, k)
      <4>1. rows' = [rows EXCEPT ![u] = SettledRow(u, k)]
        BY <2>1, <3>2 DEF SettleFails
      <4>2. u = t /\ rows'[t] = SettledRow(t, k)
        BY <2>1, <4>1
      <4> QED
        BY <2>1, <4>2 DEF SettledRow, Owns
    <3> QED
      BY <2>1, <2>3, <3>1, <3>2
      DEF RunOne, CallWorker, NoWorker, Timeout, WorkerReturns, StartFails, Finally
  <2>4. ASSUME NEW u \in Tasks, NEW new, rows' = [rows EXCEPT ![u] = new],
               rows[u].status # "failed" \/ new.status # "queued"
        PROVE  FALSE
    BY <2>1, <2>4
  <2>5. ASSUME NEW u \in Tasks, TimeStep(u) PROVE Goal
    <3>1. /\ [rows[u] EXCEPT !.lease = "lapsed"].status = rows[u].status
          /\ [rows[u] EXCEPT !.due = TRUE].status = rows[u].status
      BY DEF Row
    <3> QED
      BY <2>4, <2>5, <3>1 DEF TimeStep, LeaseLapses, LeaseStarves, BackoffElapses
  <2>6. ASSUME NEW u \in Tasks, Collect(u) \/ \E h \in Handles : Submit(u, h) PROVE Goal
    BY <2>4, <2>6 DEF Collect, Submit
  <2>7. ASSUME NEW c \in Clients, RequestStep(c) PROVE Goal
    <3>1. req[c].step # "idle" => req[c].task \in Tasks /\ req[c].seen \in Nat
      <4>1. req[c] \in Request
        BY <1>2
      <4> QED
        BY <4>1 DEF Request, OpenRequest, NoRequest
    <3>2. CASE CancelQueued(c) \/ CancelRunning(c) \/ CancelFailed(c)
      <4>1. \A u \in Tasks : Cancelled(rows[u]).status = "cancelled"
        BY DEF Cancelled, Row
      <4> QED
        BY <2>1, <2>4, <3>1, <3>2, <4>1 DEF CancelQueued, CancelRunning, CancelFailed, TryCancel
    <3>3. CASE WriteRetry(c)
      <4> DEFINE u == req[c].task
                 new == RetryRequested(rows[u], req[c].seen + MaxAttempts)
      <4>a. req[c].step = "retry" /\ rows' = [rows EXCEPT ![u] = new]
        BY <2>1, <3>3 DEF WriteRetry
      <4>b. u \in Tasks
        BY <3>1, <4>a
      <4> HIDE DEF u, new
      <4>c. u = t /\ rows'[t] = new
        BY <2>1, <4>a, <4>b
      <4>1. /\ req[c].step = "retry" /\ req[c].task = t
            /\ rows'[t] = RetryRequested(rows[t], req[c].seen + MaxAttempts)
        BY <4>a, <4>c DEF u, new
      <4>2. /\ rows'[t].maxAttempts = req[c].seen + MaxAttempts
            /\ rows'[t].attempts = rows[t].attempts
        BY <4>1 DEF RetryRequested, Row
      <4>3. req[c].seen \in Nat /\ rows[t].attempts \in Nat
        BY <1>2, <3>1, <4>1 DEF Row
      <4>4. req[c].seen <= rows[t].attempts
        BY <1>2, <4>1 DEF SeenInv
      <4> QED
        BY <4>2, <4>3, <4>4, EngineAssumption
    <3> QED
      BY <2>1, <2>7, <3>2, <3>3
      DEF RequestStep, BeginCancel, BeginRetry, Begin, Abort, Refuse, RequestFails
  <2>8. CASE UNCHANGED vars
    BY <2>1, <2>8 DEF vars
  <2> QED
    BY <1>2, <2>2, <2>3, <2>5, <2>6, <2>7, <2>8 DEF Next
<1> QED
  BY <1>1, <1>2, SeenKept, AlwaysTyped, AlwaysRunsSound, PTL DEF Spec

=============================================================================
