---------------------------- MODULE LeaseTiming ----------------------------
(***************************************************************************)
(* The lease of one claimed row against the clock: the claim grants it,    *)
(* the runner's heartbeat renews it for every task in `inFlight`.  Times   *)
(* are what is left of them, so the model needs no bound on the clock.     *)
(*                                                                         *)
(* An operator right before the one it resembles is a mutated form of it,  *)
(* named for the mistake it makes; no other definition uses it.            *)
(***************************************************************************)
EXTENDS Naturals

CONSTANTS
  Lease,      \* ENGINE_LEASE_MS
  Heartbeat,  \* ENGINE_HEARTBEAT_MS, and how late its timer may fire
  Delay       \* what a statement and its reply may take together

\* env.ts asks for a heartbeat "comfortably below" the lease.  Comfortably is
\* two statements: the claim whose reply is awaited and the renewal itself.
ASSUME TimingAssumption ==
  /\ Lease \in Nat /\ Heartbeat \in Nat \ {0} /\ Delay \in Nat
  /\ Heartbeat + Delay + Delay < Lease

VARIABLES
  lease,   \* until the lease lapses, 0 once it has
  due,     \* until the heartbeat's timer fires
  phase,   \* "claimed" until the task is in `inFlight`, then "listed", and
           \* "renewing" while a renewal is under way
  within   \* until the statement under way has its effect at the latest

leaseVars == <<lease, due, phase, within>>

Phases == {"claimed", "listed", "renewing"}

TimingTypeOK ==
  /\ lease \in 0 .. Lease
  /\ due \in 0 .. Heartbeat
  /\ phase \in Phases
  /\ within \in 0 .. Delay

\* The claim has just committed, anywhere between two heartbeats.
Claimed ==
  /\ lease = Lease
  /\ due \in 0 .. Heartbeat
  /\ phase = "claimed"
  /\ within = Delay

\* tick() resumes and puts the task into `inFlight`.
Deliver ==
  /\ phase = "claimed"
  /\ phase' = "listed"
  /\ within' = 0
  /\ UNCHANGED <<lease, due>>

\* The interval fires.  A task not in `inFlight` yet is not renewed; a renewal
\* still under way covers the one this beat would send.
Beat ==
  /\ due = 0
  /\ due' = Heartbeat
  /\ IF phase = "listed" THEN phase' = "renewing" /\ within' = Delay
     ELSE UNCHANGED <<phase, within>>
  /\ UNCHANGED lease

RenewNothing ==
  /\ phase = "renewing"
  /\ phase' = "listed"
  /\ within' = 0
  /\ UNCHANGED <<lease, due>>

\* "leaseUntil" = now() + leaseMs, when the statement runs.
Renew ==
  /\ phase = "renewing"
  /\ phase' = "listed"
  /\ within' = 0
  /\ lease' = Lease
  /\ UNCHANGED due

Less(n) == IF n > 0 THEN n - 1 ELSE 0

\* A millisecond passes, but never past what is due.
Pass ==
  /\ due > 0
  /\ phase # "listed" => within > 0
  /\ lease' = Less(lease)
  /\ due' = Less(due)
  /\ within' = Less(within)
  /\ UNCHANGED phase

\* A process that beats on time, on a database that answers in time, never
\* loses the lease of a task it works on to another process: what the engine
\* model takes for granted in LeaseLapses.
LeaseHeld == lease > 0

TimingSpec == Claimed /\ [][Deliver \/ Beat \/ Renew \/ Pass]_leaseVars

=============================================================================
