------------------------------ MODULE Attempt ------------------------------
(***************************************************************************)
(* One attempt under one clock: the lease of the row (LeaseTiming), the    *)
(* runner's runOne with its backstop timer, and the handler it races, which *)
(* is the sleep of mock-worker.ts or the fetch of web-scrape/index.ts.     *)
(*                                                                         *)
(* The runner calls the handler and the handler's promise settles the race; *)
(* both happen between two timer callbacks, so a handler that finishes and *)
(* the runner's answer to it are one step.                                 *)
(*                                                                         *)
(* An operator right before the one it resembles is a mutated form of it,  *)
(* named for the mistake it makes; no other definition uses it.            *)
(***************************************************************************)
EXTENDS LeaseTiming, FiniteSets

CONSTANTS
  JobTimeout,  \* ENGINE_JOB_TIMEOUT_MS
  MinTimeout,  \* MIN_TIMEOUT_MS of a scrape
  MaxTimeout,  \* MAX_TIMEOUT_MS of a scrape
  MaxLookup,   \* how long a name lookup that answers takes
  MaxSleep,    \* DURATION_CAP_MS
  MaxBytes     \* MAX_BYTES, in the units of a chunk

\* The largest budget a submission may ask for, and the lookup that outlives
\* it, fit into the runner's timeout: 30 s into ENGINE_JOB_TIMEOUT_MS.
ASSUME AttemptAssumption ==
  /\ {JobTimeout, MinTimeout, MaxTimeout, MaxLookup, MaxSleep, MaxBytes} \subseteq Nat \ {0}
  /\ MinTimeout <= MaxTimeout
  /\ MaxTimeout + MaxLookup < JobTimeout

MaxRedirects == 3

VARIABLES
  job,       \* where runOne is
  await,     \* until the statement it awaits is answered at the latest
  timer,     \* until the backstop fires, Off while it is not armed
  aborted,   \* ctx.signal
  outcome,   \* what runOne is writing about the attempt
  lane,      \* whose handler it is
  pc,        \* where the handler is
  deadline,  \* until AbortSignal.timeout fires
  hop, url,  \* the round of follow() and the address it is at
  lookup,    \* until the lookup answers, Never when it does not
  open,      \* the response has a body nobody finished or cancelled
  bytes,     \* what readCapped has kept of it
  sleep,     \* until the mock's timer fires
  armed      \* what the mock's sleep has registered

runnerVars == <<job, await, timer, aborted, outcome>>
handlerVars == <<lane, pc, deadline, hop, url, lookup, open, bytes, sleep, armed>>
vars == <<leaseVars, runnerVars, handlerVars>>

Off == JobTimeout + 1
Never == MaxLookup + 1

AddressKinds ==
  {"public", "loopback", "private", "unique-local", "link-local", "unspecified"}

\* Every address a host resolves to has to be of a kind that is let through:
\* a public one, or one of RELAXABLE.
Reachable(kinds) ==
  kinds \subseteq {"public", "loopback", "private", "unique-local"}

\* A URL is a kind of address, a name to look up, or nothing to fetch.
Refused == {"unreadable", "other scheme", "no host", "private name"}
Urls == AddressKinds \cup Refused \cup {"name"}

TypeOK ==
  /\ TimingTypeOK
  /\ job \in {"claimed", "starting", "racing", "settling", "gone"}
  /\ await \in 0 .. Delay
  /\ timer \in 0 .. Off
  /\ aborted \in BOOLEAN
  /\ outcome \in {"none", "ready", "retryable", "permanent", "timeout"}
  /\ lane \in {"mock", "web-scrape"}
  /\ pc \in {"idle", "guard", "resolving", "fetching", "dropping", "reading",
            "sleeping", "done"}
  /\ deadline \in 0 .. MaxTimeout
  /\ hop \in 0 .. MaxRedirects
  /\ url \in Urls
  /\ lookup \in 0 .. Never
  /\ open \in BOOLEAN
  /\ bytes \in 0 .. MaxBytes
  /\ sleep \in 0 .. MaxSleep
  /\ armed \subseteq {"timer", "listener"}

Init ==
  /\ Claimed
  /\ job = "claimed" /\ await = 0 /\ timer = Off /\ aborted = FALSE /\ outcome = "none"
  /\ lane \in {"mock", "web-scrape"}
  /\ pc = "idle" /\ deadline = 0 /\ hop = 0 /\ url \in Urls /\ lookup = 0
  /\ open = FALSE /\ bytes = 0 /\ sleep = 0 /\ armed = {}

-----------------------------------------------------------------------------
(* The race *)

\* The handler's promise settles.  A runner that still waits for it writes
\* what it says, or nothing at all once the task has been aborted.
Ends(result) ==
  /\ pc' = "done"
  /\ IF job # "racing" THEN UNCHANGED runnerVars
     ELSE /\ timer' = Off
          /\ IF aborted
             THEN job' = "gone" /\ UNCHANGED <<await, outcome>>
             ELSE job' = "settling" /\ await' = Delay /\ outcome' = result
          /\ UNCHANGED aborted

\* What each signal interrupts: a request, the reading of its body, a sleep.
Interruptible == pc \in {"fetching", "reading", "sleeping"}

\* Aborting a fetch errors its body; onAbort clears the timer, and its
\* listener was registered once.
Released == open' = FALSE /\ armed' = {}

\* AbortSignal.any: the runner's abort, or the scrape's own deadline.
SignalOfDeadline == deadline = 0
Signalled == aborted \/ deadline = 0

-----------------------------------------------------------------------------
(* The runner *)

\* tick() has the row and calls runOne, which first records the start.
Called ==
  /\ Deliver
  /\ job' = "starting" /\ await' = Delay
  /\ UNCHANGED <<timer, aborted, outcome, handlerVars>>

\* The event is written: the backstop is armed and the handler called, which
\* for a scrape makes the deadline of all its hops, for a mock the timer of its
\* sleep.  An abort before that is seen by the sleep, not by the lookup.
Start ==
  /\ job = "starting"
  /\ IF lane = "mock" /\ aborted
     THEN /\ pc' = "done" /\ job' = "gone" /\ await' = 0
          /\ UNCHANGED <<timer, deadline, sleep, armed>>
     ELSE /\ job' = "racing" /\ await' = 0 /\ timer' = JobTimeout
          /\ IF lane = "mock"
             THEN /\ pc' = "sleeping" /\ sleep' \in 0 .. MaxSleep
                  /\ armed' = {"timer", "listener"}
                  /\ UNCHANGED deadline
             ELSE /\ pc' = "guard" /\ deadline' \in MinTimeout .. MaxTimeout
                  /\ UNCHANGED <<sleep, armed>>
  /\ UNCHANGED <<aborted, outcome, leaseVars, lane, hop, url, lookup, open, bytes>>

\* recordStarted throws: the attempt fails before there was a handler.
StartFails ==
  /\ job = "starting"
  /\ IF aborted THEN job' = "gone" /\ await' = 0 /\ UNCHANGED outcome
     ELSE job' = "settling" /\ await' = Delay /\ outcome' = "retryable"
  /\ UNCHANGED <<timer, aborted, leaseVars, handlerVars>>

TimeOutByAbort ==
  /\ job = "racing" /\ timer = 0
  /\ timer' = Off /\ aborted' = TRUE
  /\ IF Interruptible
     THEN pc' = "done" /\ Released /\ job' = "settling" /\ await' = Delay
          /\ outcome' = "timeout"
     ELSE UNCHANGED <<pc, open, armed, job, await, outcome>>
  /\ UNCHANGED <<leaseVars, lane, deadline, hop, url, lookup, bytes, sleep>>

\* The backstop: the handler is told to stop, and the race is over whether it
\* does or not.
TimeOut ==
  /\ job = "racing" /\ timer = 0
  /\ timer' = Off /\ aborted' = TRUE
  /\ job' = "settling" /\ await' = Delay /\ outcome' = "timeout"
  /\ IF Interruptible THEN pc' = "done" /\ Released
     ELSE UNCHANGED <<pc, open, armed>>
  /\ UNCHANGED <<leaseVars, lane, deadline, hop, url, lookup, bytes, sleep>>

\* abort(): the task was cancelled, and a runner whose handler gives up writes
\* nothing.
Cancel ==
  /\ job \in {"starting", "racing", "settling"} /\ ~aborted
  /\ aborted' = TRUE
  /\ IF Interruptible
     THEN pc' = "done" /\ Released /\ job' = "gone" /\ timer' = Off
     ELSE UNCHANGED <<pc, open, armed, job, timer>>
  /\ UNCHANGED <<leaseVars, await, outcome, lane, deadline, hop, url, lookup, bytes, sleep>>

\* The transition is written, or its statement fails; the `finally` takes the
\* task out of `inFlight` either way.
Settle ==
  /\ job = "settling"
  /\ job' = "gone" /\ await' = 0
  /\ UNCHANGED <<timer, aborted, outcome, leaseVars, handlerVars>>

-----------------------------------------------------------------------------
(* The handlers *)

\* The mock's timer fires first: the listener goes with it.
Wake ==
  /\ pc = "sleeping" /\ sleep = 0
  /\ armed' = {}
  /\ \E result \in {"ready", "retryable"} : Ends(result)
  /\ UNCHANGED <<leaseVars, lane, deadline, hop, url, lookup, open, bytes, sleep>>

\* fetch() with a signal that has fired rejects before it sends anything.
Fetch ==
  IF Signalled THEN Ends("retryable")
  ELSE pc' = "fetching" /\ UNCHANGED runnerVars

\* guardUrl up to the lookup, on the URL of this hop.
Guard ==
  /\ pc = "guard"
  /\ CASE url \in Refused -> Ends("permanent") /\ UNCHANGED lookup
       [] url \in AddressKinds ->
            /\ IF Reachable({url}) THEN Fetch ELSE Ends("permanent")
            /\ UNCHANGED lookup
       [] url = "name" ->
            /\ pc' = "resolving" /\ lookup' \in {MaxLookup, Never}
            /\ UNCHANGED runnerVars
  /\ UNCHANGED <<leaseVars, lane, deadline, hop, url, open, bytes, sleep, armed>>

\* The lookup, which no signal reaches, fails, finds nothing, or finds
\* addresses that are let through or not.
Resolve ==
  /\ pc = "resolving" /\ lookup # Never
  /\ \/ Ends("retryable")
     \/ \E kinds \in SUBSET AddressKinds \ {{}} :
          IF Reachable(kinds) THEN Fetch ELSE Ends("permanent")
  /\ lookup' = 0
  /\ UNCHANGED <<leaseVars, lane, deadline, hop, url, open, bytes, sleep, armed>>

\* The request fails on the way, or the deadline passes: classifyThrown calls
\* every such error retryable.
Interrupted ==
  /\ pc \in {"fetching", "reading"}
  /\ Ends("retryable") /\ Released
  /\ UNCHANGED <<leaseVars, lane, deadline, hop, url, lookup, bytes, sleep>>

\* An answer that is no page: its body, if it has one, is cancelled, which no
\* signal interrupts any more, before anything is made of the answer.
Drop ==
  /\ pc = "fetching"
  /\ pc' = "dropping" /\ open' \in BOOLEAN
  /\ UNCHANGED <<leaseVars, runnerVars, lane, deadline, hop, url, lookup, bytes,
                 sleep, armed>>

RedirectOnFreshBudget ==
  /\ pc = "dropping" /\ open' = FALSE
  /\ \/ /\ hop < MaxRedirects
        /\ hop' = hop + 1 /\ url' \in Urls \ {"unreadable"} /\ pc' = "guard"
        /\ deadline' = MaxTimeout
        /\ UNCHANGED runnerVars
     \/ Ends("permanent") /\ UNCHANGED <<hop, url, deadline>>
  /\ UNCHANGED <<leaseVars, lane, lookup, bytes, sleep, armed>>

\* It was a redirect: the next round guards the location it named.
Redirect ==
  /\ pc = "dropping" /\ open' = FALSE
  /\ \/ /\ hop < MaxRedirects
        /\ hop' = hop + 1 /\ url' \in Urls \ {"unreadable"} /\ pc' = "guard"
        /\ UNCHANGED runnerVars
     \/ Ends("permanent") /\ UNCHANGED <<hop, url>>
  /\ UNCHANGED <<leaseVars, lane, deadline, lookup, bytes, sleep, armed>>

RejectKeepingBody ==
  /\ pc = "dropping"
  /\ \E result \in {"retryable", "permanent"} : Ends(result)
  /\ UNCHANGED <<leaseVars, lane, deadline, hop, url, lookup, open, bytes, sleep, armed>>

\* rejectResponse: busy and broken servers are worth a retry, other statuses
\* and other content are not.
Reject ==
  /\ pc = "dropping" /\ open' = FALSE
  /\ \E result \in {"retryable", "permanent"} : Ends(result)
  /\ UNCHANGED <<leaseVars, lane, deadline, hop, url, lookup, bytes, sleep, armed>>

\* A page: its body is read, if it has one.
Accept ==
  /\ pc = "fetching"
  /\ \/ pc' = "reading" /\ open' = TRUE /\ UNCHANGED runnerVars
     \/ Ends("ready") /\ UNCHANGED open
  /\ UNCHANGED <<leaseVars, lane, deadline, hop, url, lookup, bytes, sleep, armed>>

ChunkThenCap ==
  /\ pc = "reading"
  /\ IF bytes > MaxBytes
     THEN Ends("permanent") /\ open' = FALSE /\ UNCHANGED bytes
     ELSE /\ \E size \in 1 .. MaxBytes : bytes' = bytes + size
          /\ UNCHANGED <<open, pc, runnerVars>>
  /\ UNCHANGED <<leaseVars, lane, deadline, hop, url, lookup, sleep, armed>>

\* A round of readCapped: a chunk is kept, or is too much and the body dropped.
Chunk ==
  /\ pc = "reading"
  /\ \E size \in 1 .. MaxBytes :
       IF bytes + size > MaxBytes
       THEN Ends("permanent") /\ open' = FALSE /\ UNCHANGED bytes
       ELSE bytes' = bytes + size /\ UNCHANGED <<open, pc, runnerVars>>
  /\ UNCHANGED <<leaseVars, lane, deadline, hop, url, lookup, sleep, armed>>

\* The body ends: the page is parsed and reported.
Finish ==
  /\ pc = "reading"
  /\ Ends("ready") /\ open' = FALSE
  /\ UNCHANGED <<leaseVars, lane, deadline, hop, url, lookup, bytes, sleep, armed>>

-----------------------------------------------------------------------------
(* The clock *)

BeatForHandlers ==
  /\ IF job = "settling"
     THEN due = 0 /\ due' = Heartbeat /\ UNCHANGED <<lease, phase, within>>
     ELSE Beat
  /\ UNCHANGED <<runnerVars, handlerVars>>

\* Timers and statements of the lease go on until runOne is through with the
\* task, its last transition included.
BeatForTask ==
  /\ job # "gone" /\ Beat
  /\ UNCHANGED <<runnerVars, handlerVars>>

RenewForTask ==
  /\ job # "gone" /\ Renew
  /\ UNCHANGED <<runnerVars, handlerVars>>

\* A millisecond, if nothing was due before it.
Tick ==
  /\ job \in {"starting", "settling"} => await > 0
  /\ timer > 0
  /\ pc \notin {"guard", "dropping"}
  /\ pc \in {"fetching", "reading"} => deadline > 0
  /\ pc = "sleeping" => sleep > 0
  /\ pc = "resolving" => lookup > 0
  /\ IF job = "gone" THEN UNCHANGED leaseVars ELSE Pass
  /\ await' = Less(await)
  /\ timer' = IF timer = Off THEN Off ELSE timer - 1
  /\ deadline' = Less(deadline)
  /\ lookup' = IF lookup = Never THEN Never ELSE Less(lookup)
  /\ sleep' = Less(sleep)
  /\ UNCHANGED <<job, aborted, outcome, lane, pc, hop, url, open, bytes, armed>>

Next ==
  \/ Called \/ Start \/ StartFails \/ TimeOut \/ Cancel \/ Settle
  \/ Wake \/ Guard \/ Resolve \/ Interrupted \/ Drop \/ Redirect \/ Reject \/ Accept
  \/ Chunk \/ Finish
  \/ BeatForTask \/ RenewForTask \/ Tick

\* Timers fire and statements are answered in time, so time goes on.
Spec == Init /\ [][Next]_vars /\ WF_vars(Next)

-----------------------------------------------------------------------------
(* What an attempt promises *)

\* The runner's backstop is no scrape's deadline: one deadline bounds all the
\* hops and the reading, so the runner only ever gives up on a lookup that
\* does not answer, or on a sleep as long as its own timeout.
BackstopIsLastResort ==
  outcome = "timeout" =>
    IF lane = "mock" THEN sleep + JobTimeout <= MaxSleep ELSE lookup = Never

\* A handler that is through has no response body left undrained, that of a
\* redirect or of a rejected answer included, and no timer or listener
\* registered, however it came to its end.
NothingLeftBehind == pc = "done" => ~open /\ armed = {}

\* Nobody waits for what was not to be asked for.  A handler the runner has
\* aborted sends no request, reads no page and sleeps no more, also when the
\* abort found it in a lookup and the row has meanwhile gone to another attempt;
\* and whatever a redirect says, a request is only sent to an address of a kind
\* guardUrl lets through, private ones among them, or to a name.
RequestsAreWanted ==
  /\ aborted => ~Interruptible
  /\ pc \in {"fetching", "reading"} =>
       \/ url = "name"
       \/ url \in AddressKinds /\ Reachable({url})

\* web-scrape/index.ts:55 promises that "private and internal hosts are
\* refused"; url-guard.ts:14 lets three kinds of them through.
PrivateIsRefused ==
  pc \in {"fetching", "reading"} => url \notin {"loopback", "private", "unique-local"}

\* The slot comes free: the runner gets through with every task it was handed,
\* though the handler may be stuck where no signal reaches it.
SlotComesFree == <>(job = "gone")

=============================================================================
