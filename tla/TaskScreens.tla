---------------------------- MODULE TaskScreens ----------------------------
(***************************************************************************)
(* One browser signed in to the dashboard: what its screens show of the    *)
(* tasks, how task events keep that up to date (useTaskEvents.tsx over the *)
(* query cache), and the actions of the detail page of one task, which     *)
(* address it by its handle.                                               *)
(*                                                                         *)
(* Everyone else (runners, other tabs, API keys) is TaskLifecycle.  Of the *)
(* query library the model has what the code leans on: a query reads the   *)
(* server some time after it is sent and is loaded some time after that;   *)
(* invalidating restarts a read that is under way unless it is the first,  *)
(* which it joins; a query nobody observes is only marked.                 *)
(*                                                                         *)
(* An operator right before the one it resembles is a mutated form of it,  *)
(* named for the mistake it makes; no other definition uses it.            *)
(***************************************************************************)
EXTENDS Naturals, FiniteSets

CONSTANTS
  Tasks, Handles,   \* as in TaskLifecycle; tasks are numbered in creation order
  Shown,            \* the task whose detail page the user visits
  Followed,         \* sets of queries, one of which the instance follows
  Worked,           \* bound on the tasks that runners execute
  MaxExecutions,    \* bound on the executions of each of them
  MaxUnheard        \* bound on the events on their way to the browser

ASSUME ScreensAssumption ==
  /\ Tasks \subseteq Nat /\ IsFiniteSet(Tasks) /\ Shown \in Tasks
  /\ Handles \subseteq Nat \ {0}
  /\ Followed \subseteq SUBSET {"list", "stats", "task", "history", "holder"}
  /\ \A Q \in Followed : "holder" \in Q => "task" \in Q
  /\ Worked \subseteq Tasks
  /\ MaxExecutions \in Nat /\ MaxUnheard \in Nat \ {0}

VARIABLES
  stage, number, executions,   \* the tasks, as in TaskLifecycle
  unheard,   \* events committed that the browser has yet to receive
  stream,    \* the status of the EventSource
  timer,     \* flushTimer is set
  screen,    \* the page on display
  Queries,   \* the queries followed: they are independent of one another
  cache,     \* the query cache
  act        \* the action the user takes on the shown task

tasks == <<stage, number, executions>>
feed == <<unheard, stream, timer>>
vars == <<tasks, feed, screen, Queries, cache, act>>

Lifecycle == INSTANCE TaskLifecycle

Accepted == {t \in Tasks : stage[t] # "unknown"}
Retired == {"collected", "cancelled"}

\* holdsHandle, on the stage of a row.
HoldsHandle(s) == s \in {"queued", "running", "failed", "ready"}

CanCancel(s) == s \in {"queued", "running", "failed"}
CanRetry(s) == s = "failed"
CanCollect(s) == s = "ready"

\* find by handle: the newest task that was accepted under the number.
Holder(n) ==
  CHOOSE t \in {u \in Accepted : number[u] = n} :
    \A u \in Accepted : number[u] = n => u <= t

-----------------------------------------------------------------------------
(* The queries of the generated client, each named for what it keeps in the *)
(* cache: what its request finds at the server, and what is compared of it. *)

\* useListTasks.
ListAnswer == [t \in Accepted |-> stage[t]]

\* useTaskStats.
StatsAnswer ==
  [s \in Lifecycle!ActiveStages \cup Retired |->
     Cardinality({t \in Accepted : stage[t] = s})]

\* useGetTaskById.
TaskAnswer == stage[Shown]

\* useGetTaskHistoryById: of the timeline, what tells two states of it apart here.
HistoryAnswer == <<stage[Shown], executions[Shown]>>

\* useGetTask, by handle.
HolderAnswer == Holder(number[Shown])

Answer(q) ==
  CASE q = "list" -> ListAnswer
    [] q = "stats" -> StatsAnswer
    [] q = "task" -> TaskAnswer
    [] q = "history" -> HistoryAnswer
    [] q = "holder" -> HolderAnswer

\* `data` and `read` are empty or hold one answer.  `missed`: history, the
\* first load was under way when the cache was told to refetch.
NoEntry ==
  [data |-> <<>>, invalid |-> FALSE, failed |-> FALSE, phase |-> "idle",
   read |-> <<>>, missed |-> FALSE]

Loaded(q) == q \in Queries /\ cache[q].data # <<>>

\* The queries of each page; the probe has no key before its task is loaded.
ObservedOn(page) ==
  {q \in Queries : \/ page = "dashboard" /\ q \in {"list", "stats"}
                   \/ page = "detail" /\ q \in {"task", "history"}
                   \/ page = "detail" /\ q = "holder" /\ Loaded("task")}

\* probeEnabled.
Active == {q \in ObservedOn(screen) :
             q = "holder" => ~HoldsHandle(cache["task"].data[1])}

Sent(e) == [e EXCEPT !.phase = "sent", !.read = <<>>, !.missed = FALSE]

RefetchJoining(e) ==
  IF e.phase # "idle" THEN [e EXCEPT !.invalid = TRUE] ELSE Sent([e EXCEPT !.invalid = TRUE])

\* refetchQueries on an active query.
Refetched(e) ==
  IF e.phase # "idle" /\ e.data = <<>> THEN [e EXCEPT !.missed = TRUE]
  ELSE Sent([e EXCEPT !.invalid = e.data # <<>>])

InvalidateMounted(c) ==
  [q \in Queries |-> IF q \in Active THEN Refetched(c[q]) ELSE c[q]]

\* invalidateQueries({ predicate: isTaskQuery }): every query here is one.
InvalidateTaskQueries(c) ==
  [q \in Queries |->
     IF q \in Active THEN Refetched(c[q])
     ELSE [c[q] EXCEPT !.invalid = c[q].data # <<>>,
                       !.missed = @ \/ c[q].phase # "idle"]]

\* A page that goes away cancels its reads, which leaves what was there.
Unobserved(e) == [e EXCEPT !.phase = "idle", !.read = <<>>, !.missed = e.data # <<>> /\ @]

TypeOK ==
  /\ stage \in [Tasks -> {"unknown"} \cup Lifecycle!ActiveStages \cup Retired]
  /\ unheard \in 0 .. MaxUnheard
  /\ stream \in {"closed", "connecting", "open", "error"}
  /\ timer \in BOOLEAN
  /\ screen \in {"away", "dashboard", "detail"}
  /\ \A q \in Queries :
       /\ cache[q].phase \in {"idle", "sent", "back"}
       /\ (cache[q].read # <<>>) = (cache[q].phase = "back")
       /\ cache[q].invalid => Loaded(q)
       /\ cache[q].phase # "idle" => q \in ObservedOn(screen)
  /\ act.phase \in {"none", "confirm", "sent", "done", "refused", "conflict"}
  /\ stream = "closed" <=> screen = "away"
  /\ screen = "away" => ~timer /\ unheard = 0

NoAct == [kind |-> "none", phase |-> "none", on |-> 0, to |-> "none"]

Init ==
  /\ Lifecycle!Init
  /\ unheard = 0
  /\ stream = "closed"
  /\ timer = FALSE
  /\ screen = "away"
  /\ Queries \in Followed
  /\ cache = [q \in Queries |-> NoEntry]
  /\ act = NoAct

-----------------------------------------------------------------------------
(* The tasks, and the events their changes send to this user's streams. *)

Changed == {t \in Tasks : stage'[t] # stage[t]}

Announce ==
  /\ unheard' = IF stream = "open" THEN unheard + Cardinality(Changed) ELSE 0
  /\ unheard' <= MaxUnheard

\* Someone else's doing, or the engine's.  Tasks are accepted in the order
\* they are created in, so the newest is the last accepted under a number.
Change ==
  /\ Lifecycle!Next
  /\ Changed # {}
  /\ \A t \in Changed, u \in Tasks :
       u < t /\ stage[t] = "unknown" => stage[u] # "unknown"
  /\ \A t \in Tasks : executions'[t] <= IF t \in Worked THEN MaxExecutions ELSE 0
  /\ Announce
  /\ UNCHANGED <<stream, timer, screen, cache, act, Queries>>

-----------------------------------------------------------------------------
(* useTaskEvents. *)

OpenQuietly ==
  /\ stream \in {"connecting", "error"}
  /\ stream' = "open"
  /\ unheard' \in {0, 1}
  /\ UNCHANGED <<tasks, timer, screen, cache, act, Queries>>

\* onOpen.  One frame may follow: published while the stream connected, or
\* replayed after a Last-Event-ID.
Open ==
  /\ stream \in {"connecting", "error"}
  /\ stream' = "open"
  /\ unheard' \in {0, 1}
  /\ timer' = TRUE
  /\ UNCHANGED <<tasks, screen, cache, act, Queries>>

\* onError: the connection is lost with what it carried, or the process died.
StreamLost ==
  /\ stream = "open"
  /\ stream' = "error"
  /\ unheard' = 0
  /\ UNCHANGED <<tasks, timer, screen, cache, act, Queries>>

\* onTaskEvent: a frame arrives and the trailing timer starts over.
Deliver ==
  /\ stream = "open" /\ unheard > 0
  /\ unheard' = unheard - 1
  /\ timer' = TRUE
  /\ UNCHANGED <<tasks, stream, screen, cache, act, Queries>>

\* The debounce has run out.
Flush ==
  /\ timer
  /\ timer' = FALSE
  /\ cache' = InvalidateTaskQueries(cache)
  /\ UNCHANGED <<tasks, unheard, stream, screen, act, Queries>>

-----------------------------------------------------------------------------
(* The query cache. *)

\* An observer mounts, or is enabled, and finds nothing or something invalid.
FetchOnMount(q) ==
  /\ q \in Active
  /\ cache[q].phase = "idle" /\ ~cache[q].failed
  /\ ~Loaded(q) \/ cache[q].invalid
  /\ cache' = [cache EXCEPT ![q] = Sent(@)]
  /\ UNCHANGED <<tasks, feed, screen, act, Queries>>

\* A request takes its answer from the table.
Read(q) ==
  /\ cache[q].phase = "sent"
  /\ cache' = [cache EXCEPT ![q].phase = "back", ![q].read = <<Answer(q)>>]
  /\ UNCHANGED <<tasks, feed, screen, act, Queries>>

\* The answer arrives.
Load(q) ==
  /\ cache[q].phase = "back"
  /\ cache' = [cache EXCEPT ![q] = [NoEntry EXCEPT !.data = cache[q].read,
                                                   !.missed = cache[q].missed]]
  /\ UNCHANGED <<tasks, feed, screen, act, Queries>>

Fetching(q) == FetchOnMount(q) \/ Read(q) \/ Load(q)

\* Both tries fail; the page says so and keeps what it had.
FetchFails(q) ==
  /\ cache[q].phase # "idle"
  /\ cache' = [cache EXCEPT ![q] = [Unobserved(@) EXCEPT !.failed = TRUE]]
  /\ UNCHANGED <<tasks, feed, screen, act, Queries>>

\* ErrorState's Retry button.
Retry(q) ==
  /\ q \in Active
  /\ cache[q].failed /\ cache[q].phase = "idle"
  /\ cache' = [cache EXCEPT ![q] = Sent(@)]
  /\ UNCHANGED <<tasks, feed, screen, act, Queries>>

-----------------------------------------------------------------------------
(* Pages. *)

\* AuthAware lets the pages and the stream in.
SignIn ==
  /\ screen = "away"
  /\ screen' = "dashboard"
  /\ stream' = "connecting"
  /\ UNCHANGED <<tasks, unheard, timer, cache, act, Queries>>

SignOutKeepingTimer ==
  /\ screen # "away"
  /\ screen' = "away"
  /\ stream' = "closed"
  /\ unheard' = 0
  /\ cache' = [q \in Queries |-> NoEntry]
  /\ act' = IF act.phase = "confirm" THEN NoAct ELSE act
  /\ UNCHANGED <<tasks, timer, Queries>>

\* Sign out: the cache is dropped and the effect of useTaskEvents cleaned up.
SignOut ==
  /\ screen # "away"
  /\ screen' = "away"
  /\ stream' = "closed"
  /\ timer' = FALSE
  /\ unheard' = 0
  /\ cache' = [q \in Queries |-> NoEntry]
  /\ act' = IF act.phase = "confirm" THEN NoAct ELSE act
  /\ UNCHANGED <<tasks, Queries>>

\* A mutation under way outlives the page; its dialog and its alert do not.
Navigate(page) ==
  /\ screen # "away" /\ page # screen
  /\ page = "detail" => Shown \in Accepted
  /\ screen' = page
  /\ cache' = [q \in Queries |->
                 IF q \in ObservedOn(screen) THEN Unobserved(cache[q]) ELSE cache[q]]
  /\ act' = IF act.phase \in {"sent", "done", "refused"} THEN act ELSE NoAct
  /\ UNCHANGED <<tasks, feed, Queries>>

-----------------------------------------------------------------------------
(* The detail page's actions. *)

OwnershipOfAny ==
  CASE HoldsHandle(cache["task"].data[1]) -> "owned"
    [] Loaded("holder") -> "reclaimed"
    [] OTHER -> "unverified"

\* handleOwnership; the probe of an accepted task's handle is never a 404.
Ownership ==
  CASE HoldsHandle(cache["task"].data[1]) -> "owned"
    [] ~HoldsHandle(cache["task"].data[1]) /\ Loaded("holder") ->
         IF cache["holder"].data[1] = Shown THEN "owned" ELSE "reclaimed"
    [] OTHER -> "unverified"

ShownStage == cache["task"].data[1]

\* The page renders TaskActions.
Actionable ==
  /\ screen = "detail" /\ Loaded("task") /\ ~cache["task"].failed
  /\ Ownership = "owned"
  /\ CanCollect(ShownStage) \/ CanRetry(ShownStage) \/ CanCancel(ShownStage)

\* The Cancel button opens a dialog; a click also clears an old conflict.
OpenConfirm ==
  /\ act.phase \in {"none", "conflict"}
  /\ Actionable /\ CanCancel(ShownStage)
  /\ act' = [NoAct EXCEPT !.kind = "cancel", !.phase = "confirm"]
  /\ UNCHANGED <<tasks, feed, screen, cache, Queries>>

\* "Keep it", or the buttons and their dialog are no longer rendered.
CloseConfirm ==
  /\ act.phase = "confirm"
  /\ act' = NoAct
  /\ UNCHANGED <<tasks, feed, screen, cache, Queries>>

\* mutate(): the dialog stays up whatever the row behind it turns into.
SendAct(kind) ==
  /\ Actionable
  /\ \/ kind = "cancel" /\ act.phase = "confirm"
     \/ kind = "retry" /\ act.phase \in {"none", "conflict"} /\ CanRetry(ShownStage)
     \/ kind = "collect" /\ act.phase \in {"none", "conflict"} /\ CanCollect(ShownStage)
  /\ act' = [NoAct EXCEPT !.kind = kind, !.phase = "sent"]
  /\ UNCHANGED <<tasks, feed, screen, cache, Queries>>

\* The server applies it to whom the handle addresses now.
ServeAct ==
  LET t == Holder(number[Shown])
  IN /\ act.phase = "sent"
     /\ \/ act.kind = "cancel" /\ Lifecycle!Cancel(t)
        \/ act.kind = "retry" /\ Lifecycle!Reopen(t)
        \/ act.kind = "collect" /\ Lifecycle!Collect(t)
     /\ act' = [NoAct EXCEPT !.phase = "done", !.on = t, !.to = stage'[t]]
     /\ Announce
     /\ UNCHANGED <<stream, timer, screen, cache, Queries>>

\* 409: the task is in no state for it.
RefuseAct ==
  LET s == stage[Holder(number[Shown])]
  IN /\ act.phase = "sent"
     /\ \/ act.kind = "cancel" /\ ~CanCancel(s)
        \/ act.kind = "retry" /\ ~CanRetry(s)
        \/ act.kind = "collect" /\ ~CanCollect(s)
     /\ act' = [NoAct EXCEPT !.phase = "refused"]
     /\ UNCHANGED <<tasks, feed, screen, cache, Queries>>

\* The request or its answer is lost: an error is toasted, nothing else.
LoseAct ==
  /\ act.phase \in {"sent", "done", "refused"}
  /\ act' = NoAct
  /\ UNCHANGED <<tasks, feed, screen, cache, Queries>>

\* applyUpdate: the row in the answer is shown, and everything is refetched.
ApplyUpdate ==
  /\ act.phase = "done"
  /\ act' = NoAct
  /\ cache' =
       LET set == IF act.on = Shown
                  THEN [cache EXCEPT !["task"].data = <<act.to>>,
                                     !["task"].invalid = FALSE,
                                     !["task"].failed = FALSE]
                  ELSE cache
       IN InvalidateTaskQueries(set)
  /\ UNCHANGED <<tasks, feed, screen, Queries>>

\* The 409 is shown on the page.
ShowConflict ==
  /\ act.phase = "refused"
  /\ act' = IF screen = "detail" THEN [act EXCEPT !.phase = "conflict"] ELSE NoAct
  /\ UNCHANGED <<tasks, feed, screen, cache, Queries>>

\* The alert's Refresh button; the alert stays.  The user presses it again only
\* once the page is at rest: restarts of a read are Flush's part.
Refresh ==
  /\ act.phase = "conflict"
  /\ \A q \in Active : cache[q].phase = "idle"
  /\ cache' = InvalidateTaskQueries(cache)
  /\ UNCHANGED <<tasks, feed, screen, act, Queries>>

-----------------------------------------------------------------------------
Act ==
  \/ OpenConfirm \/ CloseConfirm
  \/ \E kind \in {"cancel", "retry", "collect"} : SendAct(kind)
  \/ ServeAct \/ RefuseAct \/ LoseAct \/ ApplyUpdate \/ ShowConflict \/ Refresh

Next ==
  \/ Change
  \/ Open \/ StreamLost \/ Deliver \/ Flush
  \/ \E q \in Queries :
       Fetching(q) \/ FetchFails(q) \/ Retry(q)
  \/ SignIn \/ SignOut \/ \E page \in {"dashboard", "detail"} : Navigate(page)
  \/ Act

Spec == Init /\ [][Next]_vars

\* The browser gets on with its stream and with each of its requests; users and
\* tasks may do nothing.
FairSpec ==
  /\ Spec
  /\ WF_vars(Open \/ Deliver \/ Flush)
  /\ \A q \in UNION Followed : WF_vars(q \in Queries /\ Fetching(q))

-----------------------------------------------------------------------------
\* Nothing the browser knows of will make it look at the server again.
Quiet(q) == unheard = 0 /\ ~timer /\ cache[q].phase = "idle" /\ ~cache[q].invalid

\* While the stream is open, what a page would show without another request
\* is what the table says, unless its last request failed or an event fell
\* into its first load: on any order of changes, frames, reads that were
\* overtaken, late answers to actions, lost streams and navigation.
QuietMeansFresh ==
  stream = "open" =>
    \A q \in Queries :
      Loaded(q) /\ Quiet(q) /\ ~cache[q].failed /\ ~cache[q].missed =>
        cache[q].data = <<Answer(q)>>

\* The page says that the handle belongs to a newer task only if it does.
ReclaimedIsTrue ==
  screen = "detail" /\ Loaded("task") /\ Ownership = "reclaimed" =>
    Holder(number[Shown]) > Shown

\* Once nothing is on its way, the page offers actions only while its task is
\* the one that its handle addresses, whoever retired it and reused the number.
ActionsAddressShown ==
  /\ stream = "open" /\ "task" \in Queries
  /\ \A q \in Queries : Quiet(q) /\ ~cache[q].failed /\ ~cache[q].missed
  /\ Actionable
  => Holder(number[Shown]) = Shown

CaughtUp ==
  \A q \in Active :
    cache[q].data = <<Answer(q)>> \/ cache[q].failed \/ cache[q].missed

\* While the stream stays open, what a page shows is in the end what the table
\* says, or its request failed, or an event fell into its first load.
PageCatchesUp ==
  (stream = "open") ~> (CaughtUp \/ stream # "open")

-----------------------------------------------------------------------------
\* task-handle.ts:20-24 and [id]/page.tsx:44-45: a task whose row is active "is
\* still the task its own handle addresses", so "an active task needs no
\* probe" before an action is sent to its handle.
ActsOnShownTask ==
  [][act.phase = "sent" /\ act'.phase = "done" => act'.on = Shown]_vars

=============================================================================
