------------------------ MODULE HandleAllocationProofs ------------------------
(***************************************************************************)
(* What holds of handle allocation for any number of submissions, with and *)
(* without the advisory lock.                                              *)
(***************************************************************************)
EXTENDS HandleAllocation, FiniteSetTheorems, TLAPS

-----------------------------------------------------------------------------
(* Types. *)

\* Every step keeps the variables in their types, and a submission has a
\* number exactly from the query that picks it until its transaction rolls
\* back.
LEMMA TypePreserved == TypeOK /\ [Next]_vars => TypeOK'
<1> SUFFICES ASSUME TypeOK, [Next]_vars PROVE TypeOK'
  OBVIOUS
<1> USE AllocationAssumption DEF TypeOK, PCs
<1>1. ASSUME NEW s \in Submissions, Begin(s) PROVE TypeOK'
  <2>1. tries[s] + 1 \in 0 .. MaxAllocationAttempts
    BY <1>1 DEF Begin, Goto
  <2> QED BY <1>1, <2>1 DEF Begin, Goto
<1>2. ASSUME NEW s \in Submissions, LockLane(s) PROVE TypeOK'
  BY <1>2 DEF LockLane, Goto
<1>3. ASSUME NEW s \in Submissions, NEW n \in Handles, Pick(s, n) PROVE TypeOK'
  BY <1>3 DEF Pick, Goto
<1>4. ASSUME NEW s \in Submissions, Insert(s) PROVE TypeOK'
  BY <1>4 DEF Insert, Goto
<1>5. ASSUME NEW s \in Submissions, LoseRace(s) PROVE TypeOK'
  BY <1>5 DEF LoseRace, Goto, AfterConflict, Release
<1>6. ASSUME NEW s \in Submissions, Commit(s) PROVE TypeOK'
  BY <1>6 DEF Commit, Goto, Release
<1>7. ASSUME NEW s \in Submissions, Fail(s) PROVE TypeOK'
  BY <1>7 DEF Fail, Release
<1>8. ASSUME NEW s \in Submissions, Retire(s) PROVE TypeOK'
  BY <1>8 DEF Retire, Goto
<1>9. CASE UNCHANGED vars
  BY <1>9 DEF vars
<1> QED
  BY <1>1, <1>2, <1>3, <1>4, <1>5, <1>6, <1>7, <1>8, <1>9 DEF Next, Allocate


\* Spec => []TypeOK, for any number of submissions and any bound on the
\* attempts: the retry loop begins no transaction beyond the bound.
THEOREM TypeCorrect == Spec => []TypeOK
<1>1. Init => TypeOK
  BY AllocationAssumption DEF Init, TypeOK, PCs
<1> QED BY <1>1, TypePreserved, PTL DEF Spec

-----------------------------------------------------------------------------
(* One number, one active task. *)

\* Two submissions whose rows are in the index, committed or not, never have
\* the same number: a row enters the index only when no other is there.
InIndex(s) == pc[s] \in {"inserted", "accepted"}
IndexIsUnique ==
  \A s, u \in Submissions : InIndex(s) /\ InIndex(u) /\ number[s] = number[u] => s = u

\* Only Insert puts a row into the index, and it found no row with the number.
LEMMA IndexPreserved == TypeOK /\ IndexIsUnique /\ [Next]_vars => IndexIsUnique'
<1> SUFFICES ASSUME TypeOK, IndexIsUnique, [Next]_vars PROVE IndexIsUnique'
  OBVIOUS
<1> USE DEF IndexIsUnique, InIndex, TypeOK
<1>1. ASSUME NEW s \in Submissions, Begin(s) PROVE IndexIsUnique'
  BY <1>1 DEF Begin, Goto
<1>2. ASSUME NEW s \in Submissions, LockLane(s) PROVE IndexIsUnique'
  BY <1>2 DEF LockLane, Goto
<1>3. ASSUME NEW s \in Submissions, NEW n \in Handles, Pick(s, n) PROVE IndexIsUnique'
  BY <1>3 DEF Pick, Goto
<1>4. ASSUME NEW s \in Submissions, Insert(s) PROVE IndexIsUnique'
  <2>1. \A u \in Submissions : InIndex(u) => number[u] # number[s]
    BY <1>4 DEF Insert, Committed, Uncommitted
  <2> QED BY <1>4, <2>1 DEF Insert, Goto
<1>5. ASSUME NEW s \in Submissions, LoseRace(s) PROVE IndexIsUnique'
  BY <1>5 DEF LoseRace, Goto, AfterConflict
<1>6. ASSUME NEW s \in Submissions, Commit(s) PROVE IndexIsUnique'
  BY <1>6 DEF Commit, Goto
<1>7. ASSUME NEW s \in Submissions, Fail(s) PROVE IndexIsUnique'
  BY <1>7 DEF Fail
<1>8. ASSUME NEW s \in Submissions, Retire(s) PROVE IndexIsUnique'
  BY <1>8 DEF Retire, Goto
<1>9. CASE UNCHANGED vars
  BY <1>9 DEF vars
<1> QED
  BY <1>1, <1>2, <1>3, <1>4, <1>5, <1>6, <1>7, <1>8, <1>9 DEF Next, Allocate

\* However many submissions read the same numbers in use, and whether or not
\* the lock is taken, no two active tasks get the same number.
THEOREM UniqueNumbers == Spec => []UniqueAmongActive
<1>1. Init => IndexIsUnique
  BY DEF Init, IndexIsUnique, InIndex
<1>2. IndexIsUnique => UniqueAmongActive
  BY DEF IndexIsUnique, InIndex, UniqueAmongActive
<1> QED BY <1>1, <1>2, IndexPreserved, TypeCorrect, PTL DEF Spec

-----------------------------------------------------------------------------
(* With the lock nobody retries. *)

\* With the lock on, an open transaction past the lock holds it, what it
\* picked is still free, and only a first attempt has yet to begin.
HoldsLane(s) == pc[s] \in {"locked", "picked", "inserted"}
LaneIsLocked ==
  useLaneLock =>
    \A s \in Submissions :
      /\ HoldsLane(s) <=> lock = s
      /\ tries[s] <= 1
      /\ pc[s] = "calling" => tries[s] = 0
      /\ pc[s] = "picked" => Committed(number[s]) = {}

\* While one submission holds the lock no other can commit, so LoseRace is
\* never enabled: the index never has to refuse a number.
LEMMA LanePreserved == TypeOK /\ LaneIsLocked /\ [Next]_vars => LaneIsLocked'
<1> SUFFICES ASSUME TypeOK, LaneIsLocked, [Next]_vars, useLaneLock'
             PROVE  LaneIsLocked'
  BY DEF LaneIsLocked
<1>0. useLaneLock
  BY DEF Next, Allocate, vars, Begin, LockLane, Pick, Insert, LoseRace, Commit,
         Fail, Retire
<1>a. Nobody \notin Submissions
  BY AllocationAssumption
<1> USE <1>0, <1>a DEF LaneIsLocked, HoldsLane, TypeOK, Committed
<1>1. ASSUME NEW s \in Submissions, Begin(s) PROVE LaneIsLocked'
  BY <1>1 DEF Begin, Goto
<1>2. ASSUME NEW s \in Submissions, LockLane(s) PROVE LaneIsLocked'
  BY <1>2 DEF LockLane, Goto
<1>3. ASSUME NEW s \in Submissions, NEW n \in Handles, Pick(s, n) PROVE LaneIsLocked'
  BY <1>3 DEF Pick, Goto, IsNextHandle, InUse
<1>4. ASSUME NEW s \in Submissions, Insert(s) PROVE LaneIsLocked'
  BY <1>4 DEF Insert, Goto
<1>5. ASSUME NEW s \in Submissions, LoseRace(s) PROVE LaneIsLocked'
  BY <1>5 DEF LoseRace, Goto
<1>6. ASSUME NEW s \in Submissions, Commit(s) PROVE LaneIsLocked'
  BY <1>6 DEF Commit, Goto, Release
<1>7. ASSUME NEW s \in Submissions, Fail(s) PROVE LaneIsLocked'
  BY <1>7 DEF Fail, Release
<1>8. ASSUME NEW s \in Submissions, Retire(s) PROVE LaneIsLocked'
  BY <1>8 DEF Retire, Goto
<1>9. CASE UNCHANGED vars
  BY <1>9 DEF vars
<1> QED
  BY <1>1, <1>2, <1>3, <1>4, <1>5, <1>6, <1>7, <1>8, <1>9 DEF Next, Allocate

\* handles.ts:13: with the lock in play no submission begins a second
\* transaction, whatever is retired or fails beside it.
THEOREM NoRetryUnderLock == Spec => []LockSparesRetries
<1>1. Init => LaneIsLocked
  BY AllocationAssumption DEF Init, LaneIsLocked, HoldsLane
<1>2. LaneIsLocked => LockSparesRetries
  BY DEF LaneIsLocked, LockSparesRetries
<1> QED BY <1>1, <1>2, LanePreserved, TypeCorrect, PTL DEF Spec

-----------------------------------------------------------------------------
(* Without the lock some submissions lose, but not too often. *)

\* The other submissions that have committed by now.
Others(s) == {u \in Submissions \ {s} : pc[u] \in {"accepted", "retired"}}

\* Every transaction of s that has lost was overtaken by another submission
\* that committed after the last: there are as many of them as lost tries, and
\* the number s has picked is refused only if one more has committed since.
LossesAreEarned ==
  /\ \A s \in Submissions :
       /\ pc[s] = "calling" => Cardinality(Others(s)) >= tries[s]
       /\ pc[s] \in {"begun", "locked", "picked"} =>
            Cardinality(Others(s)) + 1 >= tries[s]
       /\ pc[s] = "picked" /\ Committed(number[s]) # {} =>
            Cardinality(Others(s)) >= tries[s]
  /\ AttemptsSuffice

LEMMA OthersCount ==
  ASSUME NEW s \in Submissions, NEW D \in SUBSET (Submissions \ {s})
  PROVE  /\ IsFiniteSet(D) /\ Cardinality(D) \in Nat
         /\ Cardinality(D) < Cardinality(Submissions)
<1>1. /\ IsFiniteSet(Submissions \ {s})
      /\ Cardinality(Submissions \ {s}) = Cardinality(Submissions) - 1
  BY AllocationAssumption, FS_RemoveElement
<1>2. IsFiniteSet(D) /\ Cardinality(D) <= Cardinality(Submissions \ {s})
  BY <1>1, FS_Subset
<1>3. Cardinality(D) \in Nat /\ Cardinality(Submissions) \in Nat
  BY <1>2, AllocationAssumption, FS_CardinalityType
<1> QED
  BY <1>1, <1>2, <1>3

\* A step in which nobody commits leaves the counts alone; a commit adds one
\* to the count of everybody else.
LEMMA LossesPreserved == TypeOK /\ LossesAreEarned /\ [Next]_vars => LossesAreEarned'
<1> SUFFICES ASSUME TypeOK, LossesAreEarned, [Next]_vars PROVE LossesAreEarned'
  OBVIOUS
<1> USE DEF TypeOK
<1> DEFINE Counted(t) ==
      /\ pc[t] = "calling" => Cardinality(Others(t)) >= tries[t]
      /\ pc[t] \in {"begun", "locked", "picked"} =>
           Cardinality(Others(t)) + 1 >= tries[t]
      /\ pc[t] = "picked" /\ Committed(number[t]) # {} =>
           Cardinality(Others(t)) >= tries[t]
<1>1. ASSUME NEW s \in Submissions, Commit(s) PROVE LossesAreEarned'
  <2>1. /\ pc[s] = "inserted" /\ pc' = [pc EXCEPT ![s] = "accepted"]
        /\ UNCHANGED <<number, tries>>
    BY <1>1 DEF Commit, Goto
  <2>2. ASSUME NEW t \in Submissions, t # s PROVE Counted(t)'
    <3>1. Others(t)' = Others(t) \cup {s} /\ s \notin Others(t)
      BY <2>1, <2>2 DEF Others
    <3>2. IsFiniteSet(Others(t)) /\ Cardinality(Others(t)) \in Nat
      BY OthersCount DEF Others
    <3>3. Cardinality(Others(t)') = Cardinality(Others(t)) + 1
      BY <3>1, <3>2, FS_AddElement
    <3>4. pc'[t] = pc[t] /\ tries'[t] = tries[t] /\ tries[t] \in Nat
      BY <2>1, <2>2, AllocationAssumption
    <3>5. Counted(t)
      BY DEF LossesAreEarned
    <3>6. pc'[t] \in {"calling", "begun", "locked", "picked"} =>
            Cardinality(Others(t)') >= tries'[t]
      BY <3>2, <3>3, <3>4, <3>5
    <3> QED
      BY <3>2, <3>3, <3>4, <3>6
  <2>3. Counted(s)'
    BY <2>1
  <2>4. AttemptsSuffice'
    BY <2>1 DEF LossesAreEarned, AttemptsSuffice
  <2> QED
    BY <2>2, <2>3, <2>4 DEF LossesAreEarned
<1>2. ASSUME NEW s \in Submissions, Retire(s) PROVE LossesAreEarned'
  <2>1. /\ pc[s] = "accepted" /\ pc' = [pc EXCEPT ![s] = "retired"]
        /\ UNCHANGED <<number, tries>>
    BY <1>2 DEF Retire, Goto
  <2>2. \A t \in Submissions : Others(t)' = Others(t) /\ Committed(number[t])' \subseteq Committed(number[t])
    BY <2>1 DEF Others, Committed
  <2>3. \A t \in Submissions : t # s => pc'[t] = pc[t]
    BY <2>1
  <2> QED
    BY <2>1, <2>2, <2>3 DEF LossesAreEarned, AttemptsSuffice
<1>3. ASSUME NEW s \in Submissions,
             \/ Begin(s) \/ LockLane(s) \/ Insert(s) \/ LoseRace(s) \/ Fail(s)
             \/ \E n \in Handles : Pick(s, n)
      PROVE  LossesAreEarned'
  <2>1. \A t \in Submissions \ {s} :
          pc'[t] = pc[t] /\ number'[t] = number[t] /\ tries'[t] = tries[t]
    BY <1>3 DEF Begin, LockLane, Insert, LoseRace, Fail, Pick, Goto
  <2>2. pc[s] \notin {"accepted", "retired"} /\ pc'[s] \notin {"accepted", "retired"}
    BY <1>3 DEF Begin, LockLane, Insert, LoseRace, AfterConflict, Fail, Pick, Goto
  <2>3. \A t \in Submissions : Others(t)' = Others(t)
    BY <2>1, <2>2 DEF Others
  <2>4. \A t \in Submissions \ {s} : Committed(number[t])' = Committed(number[t])
    BY <2>1, <2>2 DEF Committed
  <2>5. \A t \in Submissions \ {s} : Counted(t)'
    BY <2>1, <2>3, <2>4 DEF LossesAreEarned
  <2>6. Cardinality(Others(s)) \in Nat /\ Cardinality(Others(s)) < Cardinality(Submissions)
    BY OthersCount DEF Others
  <2>7. tries[s] \in Nat /\ tries[s] <= MaxAllocationAttempts
    BY AllocationAssumption
  <2>8. Counted(s)' /\ (Cardinality(Submissions) <= MaxAllocationAttempts => pc'[s] # "conflict")
    <3>1. CASE Begin(s)
      BY <2>3, <2>6, <2>7, <3>1 DEF Begin, Goto, LossesAreEarned
    <3>2. CASE LockLane(s) \/ Insert(s) \/ Fail(s)
      BY <2>3, <3>2 DEF LockLane, Insert, Fail, Goto, LossesAreEarned
    <3>3. ASSUME NEW n \in Handles, Pick(s, n)
          PROVE  Counted(s)' /\ pc'[s] # "conflict"
      <4>1. /\ pc[s] = "locked" /\ pc'[s] = "picked" /\ number'[s] = n
            /\ tries' = tries
        BY <3>3 DEF Pick, Goto
      <4>2. Committed(n) = {}
        BY <3>3 DEF Pick, IsNextHandle, InUse, Committed
      <4>3. Committed(number[s])' = {}
        BY <2>1, <2>2, <4>1, <4>2 DEF Committed
      <4> QED
        BY <2>3, <4>1, <4>3 DEF LossesAreEarned
    <3>4. CASE LoseRace(s)
      <4>1. /\ pc[s] = "picked" /\ Committed(number[s]) # {}
            /\ pc'[s] = AfterConflict(s) /\ tries' = tries
        BY <3>4 DEF LoseRace, Goto
      <4>2. Cardinality(Others(s)) >= tries[s]
        BY <4>1 DEF LossesAreEarned
      <4>3. CASE tries[s] < MaxAllocationAttempts
        BY <2>3, <4>1, <4>2, <4>3 DEF AfterConflict
      <4>4. CASE ~(tries[s] < MaxAllocationAttempts)
        <5>1. Cardinality(Submissions) \in Nat
          BY AllocationAssumption, FS_CardinalityType
        <5>2. ~(Cardinality(Submissions) <= MaxAllocationAttempts)
          BY <2>6, <2>7, <4>2, <4>4, <5>1, AllocationAssumption
        <5> QED
          BY <4>1, <4>4, <5>2 DEF AfterConflict
      <4> QED
        BY <4>3, <4>4
    <3> QED
      BY <1>3, <3>1, <3>2, <3>3, <3>4
  <2>9. AttemptsSuffice'
    BY <2>1, <2>8 DEF LossesAreEarned, AttemptsSuffice
  <2> QED
    BY <2>5, <2>8, <2>9 DEF LossesAreEarned
<1>4. CASE UNCHANGED vars
  BY <1>4 DEF vars, LossesAreEarned, Others, Committed, AttemptsSuffice
<1> QED
  BY <1>1, <1>2, <1>3, <1>4 DEF Next, Allocate

\* handles.ts:47-48: the loop stays because correctness must not depend on the
\* lock.  With as many attempts as there are submissions it never gives up.
THEOREM RetriesSuffice == Spec => []AttemptsSuffice
<1>1. Init => LossesAreEarned
  <2> SUFFICES ASSUME Init PROVE LossesAreEarned
    OBVIOUS
  <2>1. \A s \in Submissions : Cardinality(Others(s)) \in Nat
    BY OthersCount DEF Others
  <2> QED
    BY <2>1 DEF Init, LossesAreEarned, AttemptsSuffice
<1>2. LossesAreEarned => AttemptsSuffice
  BY DEF LossesAreEarned
<1> QED
  BY <1>1, <1>2, LossesPreserved, TypeCorrect, PTL DEF Spec

-----------------------------------------------------------------------------
(* No gaps. *)

Accepted == {s \in Submissions : pc[s] = "accepted"}

\* Until something is retired the numbers in use are the first ones, and
\* whatever is below a number that was picked is among them.
NoGaps ==
  (\A s \in Submissions : pc[s] # "retired") =>
    /\ InUse = 1 .. Cardinality(Accepted)
    /\ \A s \in Submissions :
         pc[s] \in {"picked", "inserted"} => 1 .. (number[s] - 1) \subseteq InUse

\* Numbers in use are only added until then, and what a commit adds is neither
\* one of them nor beyond the next.
LEMMA GapsPreserved ==
  TypeOK /\ IndexIsUnique /\ NoGaps /\ [Next]_vars => NoGaps'
<1> SUFFICES ASSUME TypeOK, IndexIsUnique, NoGaps, [Next]_vars,
                    \A s \in Submissions : pc'[s] # "retired"
             PROVE  NoGaps'
  BY DEF NoGaps
<1> USE DEF TypeOK
<1>1. ASSUME NEW s \in Submissions, Next PROVE pc[s] # "retired"
  BY <1>1
  DEF Next, Allocate, Begin, LockLane, Insert, LoseRace, Commit, Pick, Fail, Retire, Goto
<1>2. /\ InUse = 1 .. Cardinality(Accepted)
      /\ \A s \in Submissions :
           pc[s] \in {"picked", "inserted"} => 1 .. (number[s] - 1) \subseteq InUse
  BY <1>1 DEF NoGaps, vars
<1>3. IsFiniteSet(Accepted) /\ Cardinality(Accepted) \in Nat
  BY AllocationAssumption, FS_Subset, FS_CardinalityType DEF Accepted
<1>4. ASSUME NEW s \in Submissions, Commit(s) PROVE NoGaps'
  <2>1. /\ pc[s] = "inserted" /\ pc' = [pc EXCEPT ![s] = "accepted"]
        /\ UNCHANGED number
    BY <1>4 DEF Commit, Goto
  <2>2. Accepted' = Accepted \cup {s} /\ s \notin Accepted
    BY <2>1 DEF Accepted
  <2>3. Cardinality(Accepted') = Cardinality(Accepted) + 1
    BY <1>3, <2>2, FS_AddElement
  <2>4. InUse' = InUse \cup {number[s]}
    BY <2>1 DEF InUse
  <2>5. number[s] \notin InUse
    BY <2>1 DEF IndexIsUnique, InIndex, InUse
  <2>6. number[s] \in Nat /\ number[s] # 0
    BY <2>1, AllocationAssumption
  <2>7. number[s] = Cardinality(Accepted) + 1
    <3> DEFINE N == Cardinality(Accepted)
               m == number[s]
    <3>1. m \in Nat /\ m # 0 /\ N \in Nat /\ m \notin 1 .. N /\ 1 .. (m - 1) \subseteq 1 .. N
      BY <1>2, <1>3, <2>1, <2>5, <2>6
    <3> HIDE DEF N, m
    <3>2. m > N
      BY <3>1
    <3>3. ASSUME m - 1 > N PROVE FALSE
      <4>1. m - 1 \in 1 .. (m - 1)
        BY <3>1, <3>3
      <4> QED
        BY <3>1, <3>3, <4>1
    <3>4. m = N + 1
      BY <3>1, <3>2, <3>3
    <3> QED
      BY <3>4 DEF N, m
  <2>8. InUse' = 1 .. Cardinality(Accepted')
    BY <1>2, <1>3, <2>3, <2>4, <2>7
  <2>9. \A t \in Submissions :
          pc'[t] \in {"picked", "inserted"} => 1 .. (number'[t] - 1) \subseteq InUse'
    BY <1>2, <2>1, <2>4
  <2> QED
    BY <2>8, <2>9 DEF NoGaps
<1>5. ASSUME NEW s \in Submissions,
             \/ Begin(s) \/ LockLane(s) \/ Insert(s) \/ LoseRace(s) \/ Fail(s)
             \/ \E n \in Handles : Pick(s, n)
      PROVE  NoGaps'
  <2>1. \A t \in Submissions \ {s} : pc'[t] = pc[t] /\ number'[t] = number[t]
    BY <1>5 DEF Begin, LockLane, Insert, LoseRace, Fail, Pick, Goto
  <2>2. pc[s] # "accepted" /\ pc'[s] # "accepted"
    BY <1>5 DEF Begin, LockLane, Insert, LoseRace, AfterConflict, Fail, Pick, Goto
  <2>3. Accepted' = Accepted /\ InUse' = InUse
    BY <2>1, <2>2 DEF Accepted, InUse
  <2>4. pc'[s] \in {"picked", "inserted"} => 1 .. (number'[s] - 1) \subseteq InUse
    <3>1. ASSUME NEW n \in Handles, Pick(s, n) PROVE 1 .. (number'[s] - 1) \subseteq InUse
      BY <3>1 DEF Pick, IsNextHandle
    <3>2. CASE Insert(s)
      BY <1>2, <3>2 DEF Insert, Goto
    <3> QED
      BY <1>5, <3>1, <3>2 DEF Begin, LockLane, LoseRace, AfterConflict, Fail, Goto
  <2> QED
    BY <1>2, <2>1, <2>3, <2>4 DEF NoGaps
<1>6. ASSUME NEW s \in Submissions, Retire(s) PROVE NoGaps'
  BY <1>6 DEF Retire, Goto
<1>7. CASE UNCHANGED vars
  <2>1. InUse' = InUse /\ Accepted' = Accepted /\ UNCHANGED <<pc, number>>
    BY <1>7 DEF vars, InUse, Accepted
  <2> QED
    BY <1>2, <2>1 DEF NoGaps
<1> QED
  BY <1>4, <1>5, <1>6, <1>7 DEF Next, Allocate

\* Whoever loses, retries or fails, the first numbers are given out in a row.
THEOREM NumbersInARow == Spec => []NumbersAreConsecutive
<1>1. Init => IndexIsUnique /\ NoGaps
  <2> SUFFICES ASSUME Init PROVE NoGaps /\ IndexIsUnique
    OBVIOUS
  <2>1. Accepted = {} /\ InUse = {}
    BY DEF Init, Accepted, InUse
  <2>2. 1 .. Cardinality(Accepted) = {}
    BY <2>1, FS_EmptySet
  <2> QED
    BY <2>1, <2>2 DEF Init, NoGaps, IndexIsUnique, InIndex
<1>2. NoGaps => NumbersAreConsecutive
  BY DEF NoGaps, NumbersAreConsecutive, Accepted
<1> QED
  BY <1>1, <1>2, IndexPreserved, GapsPreserved, TypeCorrect, PTL DEF Spec

-----------------------------------------------------------------------------
(* Allocation implements the lifecycle. *)

\* A step of an allocation accepts a task, retires one, or shows nothing.
LEMMA StepRefines ==
  TypeOK /\ IndexIsUnique /\ [Next]_vars => [Lifecycle!Next]_(Lifecycle!vars)
<1> SUFFICES ASSUME TypeOK, IndexIsUnique, [Next]_vars
             PROVE  [Lifecycle!Next]_(Lifecycle!vars)
  OBVIOUS
<1> USE DEF TypeOK
<1>1. ASSUME NEW s \in Submissions,
             \/ Begin(s) \/ LockLane(s) \/ Insert(s) \/ LoseRace(s) \/ Fail(s)
             \/ \E n \in Handles : Pick(s, n)
      PROVE  UNCHANGED Lifecycle!vars
  BY <1>1 DEF Begin, LockLane, Insert, LoseRace, Fail, Pick, Goto, AfterConflict,
              Lifecycle!vars
<1>2. ASSUME NEW s \in Submissions, Commit(s) PROVE Lifecycle!Next
  <2>1. PICK n \in Handles : n = number[s]
    BY <1>2 DEF Commit, Goto
  <2>2. Lifecycle!Accept(s, n)
    BY <1>2, <2>1 DEF Commit, Goto, IndexIsUnique, InIndex, Lifecycle!Accept,
                      Lifecycle!Move, Lifecycle!ActiveStages
  <2> QED BY <2>2 DEF Lifecycle!Next
<1>3. ASSUME NEW s \in Submissions, Retire(s) PROVE Lifecycle!Next
  <2>1. Lifecycle!Cancel(s)
    BY <1>3 DEF Retire, Goto, Lifecycle!Cancel, Lifecycle!Move
  <2> QED BY <2>1 DEF Lifecycle!Next
<1>4. CASE UNCHANGED vars
  BY <1>4 DEF vars, Lifecycle!vars
<1> QED BY <1>1, <1>2, <1>3, <1>4 DEF Next, Allocate

\* The allocation transaction with its lock, its retries and its index is an
\* implementation of "accept the task under a number no active task holds".
THEOREM AllocationRefines == Spec => ImplementsLifecycle
<1>1. Init => Lifecycle!Init
  BY DEF Init, Lifecycle!Init
<1>2. Init => IndexIsUnique
  BY DEF Init, IndexIsUnique, InIndex
<1> QED
  BY <1>1, <1>2, IndexPreserved, StepRefines, TypeCorrect, PTL
  DEF Spec, ImplementsLifecycle, Lifecycle!Spec

-----------------------------------------------------------------------------
(* Where the lookup by handle can be trusted. *)

\* A transaction begins only while no other is open on the lane, as when a
\* client waits for each submission to be answered before the next.
Alone ==
  \A s, u \in Submissions : Begin(s) => ~Open(u)

SerialSpec == Init /\ [][Next /\ Alone]_vars

\* The submission has left a row behind.
Kept(s) == pc[s] \in {"accepted", "retired"}

\* The open transaction began last of all, and the task that holds a number
\* began after every earlier holder of it.
LatestHolds ==
  /\ \A s \in Submissions : born[s] <= clock
  /\ \A s, u \in Submissions :
       Open(s) /\ u # s => ~Open(u) /\ born[s] = clock /\ (Kept(u) => born[u] < clock)
  /\ \A s, u \in Submissions :
       pc[s] = "accepted" /\ Kept(u) /\ u # s /\ number[s] = number[u] => born[u] < born[s]

\* A row is committed by the transaction that began last, so it is later than
\* whatever had its number before.
LEMMA LatestPreserved ==
  TypeOK /\ IndexIsUnique /\ LatestHolds /\ [Next /\ Alone]_vars => LatestHolds'
<1> SUFFICES ASSUME TypeOK, IndexIsUnique, LatestHolds, [Next /\ Alone]_vars
             PROVE  LatestHolds'
  OBVIOUS
<1> USE DEF TypeOK, LatestHolds, Open, Kept
<1>1. ASSUME NEW s \in Submissions, Begin(s), Alone PROVE LatestHolds'
  <2>1. /\ pc[s] = "calling" /\ pc' = [pc EXCEPT ![s] = "begun"]
        /\ born' = [born EXCEPT ![s] = clock + 1] /\ clock' = clock + 1
        /\ number' = number
    BY <1>1 DEF Begin, Goto
  <2>2. \A u \in Submissions : ~Open(u)
    BY <1>1 DEF Alone
  <2>3. \A u \in Submissions : born[u] \in Nat /\ clock \in Nat
    OBVIOUS
  <2> QED BY <2>1, <2>2, <2>3
<1>2. ASSUME NEW s \in Submissions, Commit(s) PROVE LatestHolds'
  <2>1. /\ pc[s] = "inserted" /\ pc' = [pc EXCEPT ![s] = "accepted"]
        /\ UNCHANGED <<number, born, clock>>
    BY <1>2 DEF Commit, Goto
  <2>2. \A u \in Submissions : pc[u] = "accepted" /\ u # s => number[u] # number[s]
    BY <2>1 DEF IndexIsUnique, InIndex
  <2> QED BY <2>1, <2>2
<1>3. ASSUME NEW s \in Submissions, Retire(s) PROVE LatestHolds'
  BY <1>3 DEF Retire, Goto
<1>4. ASSUME NEW s \in Submissions,
             \/ LockLane(s) \/ Insert(s) \/ LoseRace(s) \/ Fail(s)
             \/ \E n \in Handles : Pick(s, n)
      PROVE  LatestHolds'
  <2>1. \A t \in Submissions \ {s} : pc'[t] = pc[t] /\ number'[t] = number[t]
    BY <1>4 DEF LockLane, Insert, LoseRace, Fail, Pick, Goto
  <2>2. UNCHANGED <<born, clock>>
    BY <1>4 DEF LockLane, Insert, LoseRace, Fail, Pick, Goto
  <2>3. Open(s) /\ pc'[s] \notin {"accepted", "retired"}
    BY <1>4 DEF LockLane, Insert, LoseRace, AfterConflict, Fail, Pick, Goto
  <2> QED BY <2>1, <2>2, <2>3
<1>5. CASE UNCHANGED vars
  BY <1>5 DEF vars
<1> QED
  BY <1>1, <1>2, <1>3, <1>4, <1>5 DEF Next, Allocate

\* task.routes.ts:164: with or without the lock, a handle resolves to the
\* active task that holds it as long as the submissions of a lane do not
\* overlap.  When they do it may not, as one that waited for the lock began
\* before the one it waited for.
THEOREM SerialLookups == SerialSpec => []LookupFindsHolder
<1>1. Init => TypeOK /\ IndexIsUnique /\ LatestHolds
  BY AllocationAssumption
  DEF Init, TypeOK, PCs, IndexIsUnique, InIndex, LatestHolds, Open, Kept
<1>2. [Next /\ Alone]_vars => [Next]_vars
  OBVIOUS
<1>3. TypeOK /\ IndexIsUnique /\ LatestHolds => LookupFindsHolder
  <2> SUFFICES ASSUME TypeOK, IndexIsUnique, LatestHolds,
                      NEW n \in Handles, NEW s \in Committed(n)
               PROVE  FoundByHandle(n) = Committed(n)
    BY DEF LookupFindsHolder
  <2>1. s \in Submissions /\ pc[s] = "accepted" /\ number[s] = n
    BY DEF Committed
  <2>2. Committed(n) = {s}
    BY <2>1 DEF Committed, IndexIsUnique, InIndex
  <2>3. \A u \in Submissions : Kept(u) /\ number[u] = n /\ u # s => born[u] < born[s]
    BY <2>1 DEF LatestHolds
  <2>4. \A u \in Submissions : born[u] \in Nat
    BY DEF TypeOK
  <2>5. s \in FoundByHandle(n)
    BY <2>1, <2>3, <2>4 DEF FoundByHandle, Kept
  <2>6. \A u \in FoundByHandle(n) : u = s
    BY <2>1, <2>3, <2>4 DEF FoundByHandle, Kept
  <2> QED BY <2>2, <2>5, <2>6
<1> QED
  BY <1>1, <1>2, <1>3, TypePreserved, IndexPreserved, LatestPreserved, PTL DEF SerialSpec

-----------------------------------------------------------------------------
(* Nobody waits in a circle. *)

\* The two waits of a transaction: for the lane's advisory lock, and in its
\* INSERT for an open transaction with the same index entry.
WaitsFor(s, u) ==
  \/ pc[s] = "begun" /\ useLaneLock /\ lock = u
  \/ /\ pc[s] = "picked" /\ Committed(number[s]) = {}
     /\ u \in Uncommitted(number[s])

Waits(s) == \E u \in Submissions : WaitsFor(s, u)

\* Whoever waits, waits only for open transactions that do not wait.
WaitsEnd ==
  \A s, u \in Submissions : WaitsFor(s, u) => Open(u) /\ ~Waits(u)

\* repository.ts:72: a submission takes the lock before it can wait in the
\* index, and while it holds the lock no other has an uncommitted entry; with
\* the lock off only the index is waited for, by those who have no entry yet.
\* So whoever is waited for can go on at once, which is the part of
\* EveryCallReturns that does not rest on fairness.
THEOREM NoCircularWaits == Spec => []WaitsEnd
<1>1. Init => LaneIsLocked
  BY AllocationAssumption DEF Init, LaneIsLocked, HoldsLane
<1>2. ASSUME LaneIsLocked PROVE WaitsEnd
  <2> SUFFICES ASSUME NEW s \in Submissions, NEW u \in Submissions, WaitsFor(s, u)
               PROVE  Open(u) /\ ~Waits(u)
    BY DEF WaitsEnd
  <2>1. ASSUME pc[u] = "inserted" PROVE Open(u) /\ ~Waits(u)
    BY <2>1 DEF Open, Waits, WaitsFor
  <2>2. CASE useLaneLock /\ lock = u
    <3>1. HoldsLane(u)
      BY <1>2, <2>2 DEF LaneIsLocked
    <3>2. ASSUME NEW v \in Submissions, WaitsFor(u, v) PROVE FALSE
      <4>1. pc[u] = "picked" /\ pc[v] = "inserted"
        BY <3>1, <3>2 DEF WaitsFor, HoldsLane, Uncommitted
      <4>2. lock = v
        BY <1>2, <2>2, <4>1 DEF LaneIsLocked, HoldsLane
      <4> QED
        BY <2>2, <4>1, <4>2
    <3> QED
      BY <3>1, <3>2 DEF Open, HoldsLane, Waits
  <2>3. CASE u \in Uncommitted(number[s])
    BY <2>1, <2>3 DEF Uncommitted
  <2> QED
    BY <2>2, <2>3 DEF WaitsFor
<1> QED
  BY <1>1, <1>2, LanePreserved, TypeCorrect, PTL DEF Spec

=============================================================================
