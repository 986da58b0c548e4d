--------------------------- MODULE AttemptProofs ---------------------------
(***************************************************************************)
(* What an attempt promises, for every timeout, budget and size that keeps *)
(* the proportions of AttemptAssumption.                                   *)
(***************************************************************************)
EXTENDS Attempt, TLAPS

-----------------------------------------------------------------------------
(* The lease of a task at work, for every lease, heartbeat and delay. *)

\* What is left of the lease covers the way to the next renewal.
Covered ==
  /\ phase = "claimed" => lease > within + Heartbeat + Delay
  /\ phase = "listed" => lease > due + Delay
  /\ phase = "renewing" => lease > within

LeaseInv == TimingTypeOK /\ Covered

LEMMA ClaimGrantsLease == Claimed => LeaseInv
  BY TimingAssumption DEF Claimed, LeaseInv, TimingTypeOK, Phases, Covered

LEMMA LeaseStepPreserves ==
  LeaseInv /\ [Deliver \/ Beat \/ Renew \/ Pass]_leaseVars => LeaseInv'
<1> SUFFICES ASSUME LeaseInv, [Deliver \/ Beat \/ Renew \/ Pass]_leaseVars
             PROVE LeaseInv'
  OBVIOUS
<1> USE TimingAssumption DEF LeaseInv, TimingTypeOK, Phases, Covered
<1>1. CASE Deliver
  BY <1>1 DEF Deliver
<1>2. CASE Beat
  BY <1>2 DEF Beat
<1>3. CASE Renew
  BY <1>3 DEF Renew
<1>4. CASE Pass
  BY <1>4 DEF Pass, Less
<1>5. CASE UNCHANGED leaseVars
  BY <1>5 DEF leaseVars
<1> QED
  BY <1>1, <1>2, <1>3, <1>4, <1>5

\* However the claim falls between two heartbeats, and whatever statements
\* take up to the delay, the lease of a task a live process works on never
\* lapses.
THEOREM LeaseIsHeld == TimingSpec => []LeaseHeld
<1>1. LeaseInv => LeaseHeld
  BY TimingAssumption DEF LeaseInv, TimingTypeOK, Phases, Covered, LeaseHeld
<1> QED
  BY <1>1, ClaimGrantsLease, LeaseStepPreserves, PTL DEF TimingSpec

-----------------------------------------------------------------------------
(* The attempt. *)

\* Only a body that is read or dropped is open, and only a mock asleep has a timer
\* or a listener.
Registered ==
  /\ open => pc \in {"dropping", "reading"}
  /\ armed # {} => pc = "sleeping"

\* What a handler waits for is still wanted.  A name is the only URL that is
\* looked up, so the one it is fetched by.
Wanted ==
  /\ RequestsAreWanted
  /\ pc = "resolving" => url = "name"

\* A sleep and the backstop were set together and run down together.
SleepAhead ==
  /\ pc = "sleeping"
  /\ sleep + JobTimeout <= MaxSleep + timer

\* A scrape has the time from its deadline to the backstop for the lookup that
\* was under way when the deadline passed.
LookupAhead ==
  /\ pc \in {"guard", "resolving", "fetching", "dropping", "reading"}
  /\ deadline > 0 => timer >= deadline + (JobTimeout - MaxTimeout)
  /\ deadline = 0 =>
       IF pc # "resolving" THEN timer >= JobTimeout - MaxTimeout
       ELSE lookup # Never => timer + MaxLookup >= lookup + (JobTimeout - MaxTimeout)

\* While the runner races a handler, how the two stand to each other.
Race ==
  job = "racing" =>
    /\ timer <= JobTimeout /\ outcome = "none"
    /\ IF lane = "mock" THEN SleepAhead ELSE LookupAhead

\* Before the race there is no handler; after a timeout it is over or stuck.
Around ==
  /\ job \in {"claimed", "starting"} => pc = "idle" /\ outcome = "none"
  /\ (job = "claimed") = (phase = "claimed")
  /\ job # "racing" => timer = Off
  /\ outcome = "timeout" =>
       IF lane = "mock" THEN pc = "done" /\ sleep + JobTimeout <= MaxSleep
       ELSE pc = "resolving" /\ lookup = Never

AttemptInv == TypeOK /\ Registered /\ Wanted /\ Race /\ Around

-----------------------------------------------------------------------------
LEMMA Constants ==
  /\ JobTimeout \in Nat \ {0} /\ MinTimeout \in Nat \ {0} /\ MaxTimeout \in Nat \ {0}
  /\ MaxLookup \in Nat \ {0} /\ MaxSleep \in Nat \ {0} /\ MaxBytes \in Nat \ {0}
  /\ MinTimeout <= MaxTimeout /\ MaxTimeout + MaxLookup < JobTimeout
  BY AttemptAssumption

\* A guarded URL ends the attempt, is fetched, or is looked up.
LEMMA GuardStep ==
  ASSUME TypeOK, Guard
  PROVE  /\ pc = "guard"
         /\ \/ Ends("permanent") /\ UNCHANGED lookup
            \/ url \in AddressKinds /\ Reachable({url}) /\ Fetch /\ UNCHANGED lookup
            \/ /\ url = "name" /\ pc' = "resolving" /\ lookup' \in {MaxLookup, Never}
               /\ UNCHANGED runnerVars
         /\ UNCHANGED <<leaseVars, lane, deadline, hop, url, open, bytes, sleep, armed>>
<1>1. CASE url \in Refused
  BY <1>1 DEF Guard, Refused, AddressKinds
<1>2. CASE url \in AddressKinds
  BY <1>2 DEF Guard, Refused, AddressKinds
<1>3. CASE url = "name"
  BY <1>3 DEF Guard, Refused, AddressKinds
<1> QED
  BY <1>1, <1>2, <1>3 DEF TypeOK, Urls

TimerTypeOK == await \in 0 .. Delay /\ timer \in 0 .. Off

RunnerTypeOK ==
  /\ job \in {"claimed", "starting", "racing", "settling", "gone"}
  /\ aborted \in BOOLEAN
  /\ outcome \in {"none", "ready", "retryable", "permanent", "timeout"}

CountTypeOK ==
  /\ deadline \in 0 .. MaxTimeout
  /\ hop \in 0 .. MaxRedirects
  /\ lookup \in 0 .. Never
  /\ bytes \in 0 .. MaxBytes
  /\ sleep \in 0 .. MaxSleep

HandlerTypeOK ==
  /\ lane \in {"mock", "web-scrape"}
  /\ pc \in {"idle", "guard", "resolving", "fetching", "dropping", "reading",
            "sleeping", "done"}
  /\ url \in Urls
  /\ open \in BOOLEAN
  /\ armed \subseteq {"timer", "listener"}

LEMMA TypeParts ==
  TypeOK <=> TimingTypeOK /\ TimerTypeOK /\ RunnerTypeOK /\ CountTypeOK /\ HandlerTypeOK
  BY DEF TypeOK, TimerTypeOK, RunnerTypeOK, CountTypeOK, HandlerTypeOK

LEMMA TimingTypePreserved ==
  ASSUME TypeOK, [Next]_vars
  PROVE  TimingTypeOK'
<1> USE TimingAssumption DEF TypeOK, TimingTypeOK, Phases,
         leaseVars, runnerVars, handlerVars
<1>1. CASE Called
  BY <1>1 DEF Called, Deliver
<1>2. CASE Start
  BY <1>2 DEF Start
<1>3. CASE StartFails
  BY <1>3 DEF StartFails
<1>4. CASE TimeOut
  BY <1>4 DEF TimeOut, Interruptible, Released
<1>5. CASE Cancel
  BY <1>5 DEF Cancel, Interruptible, Released
<1>6. CASE Settle
  BY <1>6 DEF Settle
<1>7. CASE Wake
  BY <1>7 DEF Wake, Ends
<1>8. CASE Guard
  BY <1>8, GuardStep DEF Ends, Fetch, Signalled
<1>9. CASE Resolve
  BY <1>9 DEF Resolve, Ends, Fetch, Signalled, Reachable
<1>10. CASE Interrupted
  BY <1>10 DEF Interrupted, Ends, Released
<1>11. CASE Drop
  BY <1>11 DEF Drop
<1>12. CASE Redirect
  BY <1>12 DEF Redirect, Ends
<1>13. CASE Reject
  BY <1>13 DEF Reject, Ends
<1>14. CASE Accept
  BY <1>14 DEF Accept, Ends
<1>15. CASE Chunk
  BY <1>15 DEF Chunk, Ends
<1>16. CASE Finish
  BY <1>16 DEF Finish, Ends
<1>17. CASE BeatForTask
  BY <1>17 DEF BeatForTask, Beat
<1>18. CASE RenewForTask
  BY <1>18 DEF RenewForTask, Renew
<1>19. CASE Tick
  BY <1>19 DEF Tick, Pass, Less
<1>20. CASE UNCHANGED vars
  BY <1>20 DEF vars
<1> QED
  BY <1>1, <1>2, <1>3, <1>4, <1>5, <1>6, <1>7, <1>8, <1>9, <1>10,
     <1>11, <1>12, <1>13, <1>14, <1>15, <1>16, <1>17, <1>18, <1>19, <1>20 DEF Next

LEMMA TimerTypePreserved ==
  ASSUME TypeOK, [Next]_vars
  PROVE  TimerTypeOK'
<1> USE TimingAssumption, Constants DEF TypeOK, TimerTypeOK, Off,
         leaseVars, runnerVars, handlerVars
<1>1. CASE Called
  BY <1>1 DEF Called, Deliver
<1>2. CASE Start
  BY <1>2 DEF Start
<1>3. CASE StartFails
  BY <1>3 DEF StartFails
<1>4. CASE TimeOut
  BY <1>4 DEF TimeOut, Interruptible, Released
<1>5. CASE Cancel
  BY <1>5 DEF Cancel, Interruptible, Released
<1>6. CASE Settle
  BY <1>6 DEF Settle
<1>7. CASE Wake
  BY <1>7 DEF Wake, Ends
<1>8. CASE Guard
  BY <1>8, GuardStep DEF Ends, Fetch, Signalled
<1>9. CASE Resolve
  BY <1>9 DEF Resolve, Ends, Fetch, Signalled, Reachable
<1>10. CASE Interrupted
  BY <1>10 DEF Interrupted, Ends, Released
<1>11. CASE Drop
  BY <1>11 DEF Drop
<1>12. CASE Redirect
  BY <1>12 DEF Redirect, Ends
<1>13. CASE Reject
  BY <1>13 DEF Reject, Ends
<1>14. CASE Accept
  BY <1>14 DEF Accept, Ends
<1>15. CASE Chunk
  BY <1>15 DEF Chunk, Ends
<1>16. CASE Finish
  BY <1>16 DEF Finish, Ends
<1>17. CASE BeatForTask
  BY <1>17 DEF BeatForTask, Beat
<1>18. CASE RenewForTask
  BY <1>18 DEF RenewForTask, Renew
<1>19. CASE Tick
  BY <1>19 DEF Tick, Pass, Less
<1>20. CASE UNCHANGED vars
  BY <1>20 DEF vars
<1> QED
  BY <1>1, <1>2, <1>3, <1>4, <1>5, <1>6, <1>7, <1>8, <1>9, <1>10,
     <1>11, <1>12, <1>13, <1>14, <1>15, <1>16, <1>17, <1>18, <1>19, <1>20 DEF Next

LEMMA RunnerTypePreserved ==
  ASSUME TypeOK, [Next]_vars
  PROVE  RunnerTypeOK'
<1> USE DEF TypeOK, RunnerTypeOK,
         leaseVars, runnerVars, handlerVars
<1>1. CASE Called
  BY <1>1 DEF Called, Deliver
<1>2. CASE Start
  BY <1>2 DEF Start
<1>3. CASE StartFails
  BY <1>3 DEF StartFails
<1>4. CASE TimeOut
  BY <1>4 DEF TimeOut, Interruptible, Released
<1>5. CASE Cancel
  BY <1>5 DEF Cancel, Interruptible, Released
<1>6. CASE Settle
  BY <1>6 DEF Settle
<1>7. CASE Wake
  BY <1>7 DEF Wake, Ends
<1>8. CASE Guard
  BY <1>8, GuardStep DEF Ends, Fetch, Signalled
<1>9. CASE Resolve
  BY <1>9 DEF Resolve, Ends, Fetch, Signalled, Reachable
<1>10. CASE Interrupted
  BY <1>10 DEF Interrupted, Ends, Released
<1>11. CASE Drop
  BY <1>11 DEF Drop
<1>12. CASE Redirect
  BY <1>12 DEF Redirect, Ends
<1>13. CASE Reject
  BY <1>13 DEF Reject, Ends
<1>14. CASE Accept
  BY <1>14 DEF Accept, Ends
<1>15. CASE Chunk
  BY <1>15 DEF Chunk, Ends
<1>16. CASE Finish
  BY <1>16 DEF Finish, Ends
<1>17. CASE BeatForTask
  BY <1>17 DEF BeatForTask, Beat
<1>18. CASE RenewForTask
  BY <1>18 DEF RenewForTask, Renew
<1>19. CASE Tick
  BY <1>19 DEF Tick, Pass, Less
<1>20. CASE UNCHANGED vars
  BY <1>20 DEF vars
<1> QED
  BY <1>1, <1>2, <1>3, <1>4, <1>5, <1>6, <1>7, <1>8, <1>9, <1>10,
     <1>11, <1>12, <1>13, <1>14, <1>15, <1>16, <1>17, <1>18, <1>19, <1>20 DEF Next

LEMMA CountTypePreserved ==
  ASSUME TypeOK, [Next]_vars
  PROVE  CountTypeOK'
<1> USE Constants DEF TypeOK, CountTypeOK, Never, MaxRedirects,
         leaseVars, runnerVars, handlerVars
<1>1. CASE Called
  BY <1>1 DEF Called, Deliver
<1>2. CASE Start
  BY <1>2 DEF Start
<1>3. CASE StartFails
  BY <1>3 DEF StartFails
<1>4. CASE TimeOut
  BY <1>4 DEF TimeOut, Interruptible, Released
<1>5. CASE Cancel
  BY <1>5 DEF Cancel, Interruptible, Released
<1>6. CASE Settle
  BY <1>6 DEF Settle
<1>7. CASE Wake
  BY <1>7 DEF Wake, Ends
<1>8. CASE Guard
  BY <1>8, GuardStep DEF Ends, Fetch, Signalled
<1>9. CASE Resolve
  BY <1>9 DEF Resolve, Ends, Fetch, Signalled, Reachable
<1>10. CASE Interrupted
  BY <1>10 DEF Interrupted, Ends, Released
<1>11. CASE Drop
  BY <1>11 DEF Drop
<1>12. CASE Redirect
  BY <1>12 DEF Redirect, Ends
<1>13. CASE Reject
  BY <1>13 DEF Reject, Ends
<1>14. CASE Accept
  BY <1>14 DEF Accept, Ends
<1>15. CASE Chunk
  BY <1>15 DEF Chunk, Ends
<1>16. CASE Finish
  BY <1>16 DEF Finish, Ends
<1>17. CASE BeatForTask
  BY <1>17 DEF BeatForTask, Beat
<1>18. CASE RenewForTask
  BY <1>18 DEF RenewForTask, Renew
<1>19. CASE Tick
  BY <1>19 DEF Tick, Pass, Less
<1>20. CASE UNCHANGED vars
  BY <1>20 DEF vars
<1> QED
  BY <1>1, <1>2, <1>3, <1>4, <1>5, <1>6, <1>7, <1>8, <1>9, <1>10,
     <1>11, <1>12, <1>13, <1>14, <1>15, <1>16, <1>17, <1>18, <1>19, <1>20 DEF Next

LEMMA HandlerTypePreserved ==
  ASSUME TypeOK, [Next]_vars
  PROVE  HandlerTypeOK'
<1> USE DEF TypeOK, HandlerTypeOK, Urls,
         leaseVars, runnerVars, handlerVars
<1>1. CASE Called
  BY <1>1 DEF Called, Deliver
<1>2. CASE Start
  BY <1>2 DEF Start
<1>3. CASE StartFails
  BY <1>3 DEF StartFails
<1>4. CASE TimeOut
  BY <1>4 DEF TimeOut, Interruptible, Released
<1>5. CASE Cancel
  BY <1>5 DEF Cancel, Interruptible, Released
<1>6. CASE Settle
  BY <1>6 DEF Settle
<1>7. CASE Wake
  BY <1>7 DEF Wake, Ends
<1>8. CASE Guard
  BY <1>8, GuardStep DEF Ends, Fetch, Signalled
<1>9. CASE Resolve
  BY <1>9 DEF Resolve, Ends, Fetch, Signalled, Reachable
<1>10. CASE Interrupted
  BY <1>10 DEF Interrupted, Ends, Released
<1>11. CASE Drop
  BY <1>11 DEF Drop
<1>12. CASE Redirect
  BY <1>12 DEF Redirect, Ends
<1>13. CASE Reject
  BY <1>13 DEF Reject, Ends
<1>14. CASE Accept
  BY <1>14 DEF Accept, Ends
<1>15. CASE Chunk
  BY <1>15 DEF Chunk, Ends
<1>16. CASE Finish
  BY <1>16 DEF Finish, Ends
<1>17. CASE BeatForTask
  BY <1>17 DEF BeatForTask, Beat
<1>18. CASE RenewForTask
  BY <1>18 DEF RenewForTask, Renew
<1>19. CASE Tick
  BY <1>19 DEF Tick, Pass, Less
<1>20. CASE UNCHANGED vars
  BY <1>20 DEF vars
<1> QED
  BY <1>1, <1>2, <1>3, <1>4, <1>5, <1>6, <1>7, <1>8, <1>9, <1>10,
     <1>11, <1>12, <1>13, <1>14, <1>15, <1>16, <1>17, <1>18, <1>19, <1>20 DEF Next

LEMMA RegisteredPreserved ==
  ASSUME TypeOK, Registered, Around, [Next]_vars
  PROVE  Registered'
<1> USE DEF TypeOK, Registered, Around,
         leaseVars, runnerVars, handlerVars
<1>1. CASE Called
  BY <1>1 DEF Called, Deliver
<1>2. CASE Start
  BY <1>2 DEF Start
<1>3. CASE StartFails
  BY <1>3 DEF StartFails
<1>4. CASE TimeOut
  BY <1>4 DEF TimeOut, Interruptible, Released
<1>5. CASE Cancel
  BY <1>5 DEF Cancel, Interruptible, Released
<1>6. CASE Settle
  BY <1>6 DEF Settle
<1>7. CASE Wake
  BY <1>7 DEF Wake, Ends
<1>8. CASE Guard
  BY <1>8, GuardStep DEF Ends, Fetch, Signalled
<1>9. CASE Resolve
  BY <1>9 DEF Resolve, Ends, Fetch, Signalled, Reachable
<1>10. CASE Interrupted
  BY <1>10 DEF Interrupted, Ends, Released
<1>11. CASE Drop
  BY <1>11 DEF Drop
<1>12. CASE Redirect
  BY <1>12 DEF Redirect, Ends
<1>13. CASE Reject
  BY <1>13 DEF Reject, Ends
<1>14. CASE Accept
  BY <1>14 DEF Accept, Ends
<1>15. CASE Chunk
  BY <1>15 DEF Chunk, Ends
<1>16. CASE Finish
  BY <1>16 DEF Finish, Ends
<1>17. CASE BeatForTask
  BY <1>17 DEF BeatForTask, Beat
<1>18. CASE RenewForTask
  BY <1>18 DEF RenewForTask, Renew
<1>19. CASE Tick
  BY <1>19 DEF Tick, Pass, Less
<1>20. CASE UNCHANGED vars
  BY <1>20 DEF vars
<1> QED
  BY <1>1, <1>2, <1>3, <1>4, <1>5, <1>6, <1>7, <1>8, <1>9, <1>10,
     <1>11, <1>12, <1>13, <1>14, <1>15, <1>16, <1>17, <1>18, <1>19, <1>20 DEF Next

LEMMA WantedPreserved ==
  ASSUME TypeOK, Wanted, [Next]_vars
  PROVE  Wanted'
<1> USE DEF TypeOK, Wanted, RequestsAreWanted, Interruptible,
         leaseVars, runnerVars, handlerVars
<1>1. CASE Called
  BY <1>1 DEF Called, Deliver
<1>2. CASE Start
  BY <1>2 DEF Start
<1>3. CASE StartFails
  BY <1>3 DEF StartFails
<1>4. CASE TimeOut
  BY <1>4 DEF TimeOut, Interruptible, Released
<1>5. CASE Cancel
  BY <1>5 DEF Cancel, Interruptible, Released
<1>6. CASE Settle
  BY <1>6 DEF Settle
<1>7. CASE Wake
  BY <1>7 DEF Wake, Ends
<1>8. CASE Guard
  BY <1>8, GuardStep DEF Ends, Fetch, Signalled
<1>9. CASE Resolve
  BY <1>9 DEF Resolve, Ends, Fetch, Signalled, Reachable
<1>10. CASE Interrupted
  BY <1>10 DEF Interrupted, Ends, Released
<1>11. CASE Drop
  BY <1>11 DEF Drop
<1>12. CASE Redirect
  BY <1>12 DEF Redirect, Ends
<1>13. CASE Reject
  BY <1>13 DEF Reject, Ends
<1>14. CASE Accept
  BY <1>14 DEF Accept, Ends
<1>15. CASE Chunk
  BY <1>15 DEF Chunk, Ends
<1>16. CASE Finish
  BY <1>16 DEF Finish, Ends
<1>17. CASE BeatForTask
  BY <1>17 DEF BeatForTask, Beat
<1>18. CASE RenewForTask
  BY <1>18 DEF RenewForTask, Renew
<1>19. CASE Tick
  BY <1>19 DEF Tick, Pass, Less
<1>20. CASE UNCHANGED vars
  BY <1>20 DEF vars
<1> QED
  BY <1>1, <1>2, <1>3, <1>4, <1>5, <1>6, <1>7, <1>8, <1>9, <1>10,
     <1>11, <1>12, <1>13, <1>14, <1>15, <1>16, <1>17, <1>18, <1>19, <1>20 DEF Next

LEMMA RacePreserved ==
  ASSUME TypeOK, Race, Around, [Next]_vars
  PROVE  Race'
<1> USE Constants DEF TypeOK, Off, Never, Race, Around, SleepAhead, LookupAhead,
         leaseVars, runnerVars, handlerVars
<1>1. CASE Called
  BY <1>1 DEF Called, Deliver
<1>2. CASE Start
  BY <1>2 DEF Start
<1>3. CASE StartFails
  BY <1>3 DEF StartFails
<1>4. CASE TimeOut
  BY <1>4 DEF TimeOut, Interruptible, Released
<1>5. CASE Cancel
  BY <1>5 DEF Cancel, Interruptible, Released
<1>6. CASE Settle
  BY <1>6 DEF Settle
<1>7. CASE Wake
  BY <1>7 DEF Wake, Ends
<1>8. CASE Guard
  BY <1>8, GuardStep DEF Ends, Fetch, Signalled
<1>9. CASE Resolve
  BY <1>9 DEF Resolve, Ends, Fetch, Signalled, Reachable
<1>10. CASE Interrupted
  BY <1>10 DEF Interrupted, Ends, Released
<1>11. CASE Drop
  BY <1>11 DEF Drop
<1>12. CASE Redirect
  BY <1>12 DEF Redirect, Ends
<1>13. CASE Reject
  BY <1>13 DEF Reject, Ends
<1>14. CASE Accept
  BY <1>14 DEF Accept, Ends
<1>15. CASE Chunk
  BY <1>15 DEF Chunk, Ends
<1>16. CASE Finish
  BY <1>16 DEF Finish, Ends
<1>17. CASE BeatForTask
  BY <1>17 DEF BeatForTask, Beat
<1>18. CASE RenewForTask
  BY <1>18 DEF RenewForTask, Renew
<1>19. CASE Tick
  BY <1>19 DEF Tick, Pass, Less
<1>20. CASE UNCHANGED vars
  BY <1>20 DEF vars
<1> QED
  BY <1>1, <1>2, <1>3, <1>4, <1>5, <1>6, <1>7, <1>8, <1>9, <1>10,
     <1>11, <1>12, <1>13, <1>14, <1>15, <1>16, <1>17, <1>18, <1>19, <1>20 DEF Next

LEMMA AroundPreserved ==
  ASSUME TypeOK, Race, Around, [Next]_vars
  PROVE  Around'
<1> USE Constants DEF TypeOK, TimingTypeOK, Phases, Off, Never, Race, Around, SleepAhead, LookupAhead,
         leaseVars, runnerVars, handlerVars
<1>1. CASE Called
  BY <1>1 DEF Called, Deliver
<1>2. CASE Start
  BY <1>2 DEF Start
<1>3. CASE StartFails
  BY <1>3 DEF StartFails
<1>4. CASE TimeOut
  BY <1>4 DEF TimeOut, Interruptible, Released
<1>5. CASE Cancel
  BY <1>5 DEF Cancel, Interruptible, Released
<1>6. CASE Settle
  BY <1>6 DEF Settle
<1>7. CASE Wake
  BY <1>7 DEF Wake, Ends
<1>8. CASE Guard
  BY <1>8, GuardStep DEF Ends, Fetch, Signalled
<1>9. CASE Resolve
  BY <1>9 DEF Resolve, Ends, Fetch, Signalled, Reachable
<1>10. CASE Interrupted
  BY <1>10 DEF Interrupted, Ends, Released
<1>11. CASE Drop
  BY <1>11 DEF Drop
<1>12. CASE Redirect
  BY <1>12 DEF Redirect, Ends
<1>13. CASE Reject
  BY <1>13 DEF Reject, Ends
<1>14. CASE Accept
  BY <1>14 DEF Accept, Ends
<1>15. CASE Chunk
  BY <1>15 DEF Chunk, Ends
<1>16. CASE Finish
  BY <1>16 DEF Finish, Ends
<1>17. CASE BeatForTask
  BY <1>17 DEF BeatForTask, Beat
<1>18. CASE RenewForTask
  BY <1>18 DEF RenewForTask, Renew
<1>19. CASE Tick
  BY <1>19 DEF Tick, Pass, Less
<1>20. CASE UNCHANGED vars
  BY <1>20 DEF vars
<1> QED
  BY <1>1, <1>2, <1>3, <1>4, <1>5, <1>6, <1>7, <1>8, <1>9, <1>10,
     <1>11, <1>12, <1>13, <1>14, <1>15, <1>16, <1>17, <1>18, <1>19, <1>20 DEF Next

-----------------------------------------------------------------------------
LEMMA Initially == Init => AttemptInv
<1> SUFFICES ASSUME Init PROVE AttemptInv
  OBVIOUS
<1> USE TimingAssumption, Constants DEF Init, Claimed
<1>1. TimingTypeOK
  BY DEF TimingTypeOK, Phases
<1>2. TimerTypeOK
  BY DEF TimerTypeOK, Off
<1>3. RunnerTypeOK
  BY DEF RunnerTypeOK
<1>4. CountTypeOK
  BY DEF CountTypeOK, Never, MaxRedirects
<1>5. HandlerTypeOK
  BY DEF HandlerTypeOK
<1>6. Registered /\ Wanted /\ Race /\ Around
  BY DEF Registered, Wanted, RequestsAreWanted, Interruptible, Race, Around
<1> QED
  BY <1>1, <1>2, <1>3, <1>4, <1>5, <1>6, TypeParts DEF AttemptInv

LEMMA Invariance == Spec => []AttemptInv
<1>1. AttemptInv /\ [Next]_vars => AttemptInv'
  BY TypeParts, TimingTypePreserved, TimerTypePreserved, RunnerTypePreserved,
     CountTypePreserved, HandlerTypePreserved, RegisteredPreserved, WantedPreserved,
     RacePreserved, AroundPreserved, PTL DEF AttemptInv
<1> QED
  BY Initially, <1>1, PTL DEF Spec

\* Every step keeps to the ranges the variables are declared with, the count
\* of kept bytes and the round of the redirects among them.
THEOREM AttemptTyped == Spec => []TypeOK
<1>1. AttemptInv => TypeOK
  BY DEF AttemptInv
<1> QED
  BY Invariance, <1>1, PTL

\* A handler that is through has drained its body and cleared its timer and its
\* listener, whether it finished, failed, or was told to stop.
THEOREM AttemptLeavesNothing == Spec => []NothingLeftBehind
<1>1. AttemptInv => NothingLeftBehind
  BY DEF AttemptInv, Registered, NothingLeftBehind
<1> QED
  BY Invariance, <1>1, PTL

\* An aborted handler waits for nothing that a signal could have interrupted, and
\* only guarded URLs are fetched.
THEOREM AttemptRequestsWanted == Spec => []RequestsAreWanted
<1>1. AttemptInv => RequestsAreWanted
  BY DEF AttemptInv, Wanted
<1> QED
  BY Invariance, <1>1, PTL

\* With timeouts in the order of the shipped ones, the backstop only ends a
\* scrape stuck in its lookup, or a sleep of its own length.
THEOREM BackstopLast == Spec => []BackstopIsLastResort
<1>1. AttemptInv => BackstopIsLastResort
  BY DEF AttemptInv, Around, BackstopIsLastResort
<1> QED
  BY Invariance, <1>1, PTL

-----------------------------------------------------------------------------
LEMMA LeaseStep == [Next]_vars => [Deliver \/ Beat \/ Renew \/ Pass]_leaseVars
<1> SUFFICES ASSUME [Next]_vars
             PROVE  Deliver \/ Beat \/ Renew \/ Pass \/ UNCHANGED leaseVars
  OBVIOUS
<1>1. CASE Called
  BY <1>1 DEF Called
<1>2. CASE BeatForTask
  BY <1>2 DEF BeatForTask
<1>3. CASE RenewForTask
  BY <1>3 DEF RenewForTask
<1>4. CASE Tick
  BY <1>4 DEF Tick
<1>5. CASE Start \/ StartFails \/ TimeOut \/ Cancel \/ Settle
  BY <1>5 DEF Start, StartFails, TimeOut, Cancel, Settle
<1>6. CASE Wake \/ Guard \/ Resolve \/ Interrupted \/ Drop \/ Redirect
  BY <1>6 DEF Wake, Guard, Resolve, Interrupted, Drop, Redirect
<1>7. CASE Reject \/ Accept \/ Chunk \/ Finish
  BY <1>7 DEF Reject, Accept, Chunk, Finish
<1>8. CASE UNCHANGED vars
  BY <1>8 DEF vars
<1> QED
  BY <1>1, <1>2, <1>3, <1>4, <1>5, <1>6, <1>7, <1>8 DEF Next

\* Whatever the handler does, the attempt leaves the heartbeat to what it is in
\* LeaseTiming.
THEOREM AttemptKeepsTiming == Spec => TimingSpec
<1>1. Init => Claimed
  BY DEF Init
<1> QED
  BY <1>1, LeaseStep, PTL DEF Spec, TimingSpec

\* So no attempt loses its lease while its process works on it.
THEOREM AttemptHoldsLease == Spec => []LeaseHeld
  BY AttemptKeepsTiming, LeaseIsHeld, PTL

=============================================================================
