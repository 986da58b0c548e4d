------------------------- MODULE TaskScreensProofs -------------------------
(***************************************************************************)
(* What the pages show is what the table says once nothing is on its way,  *)
(* for any tasks, numbers and pages, and any of the queries.               *)
(***************************************************************************)
EXTENDS TaskScreens, FiniteSetTheorems, TLAPS

Fields == {"data", "invalid", "failed", "phase", "read", "missed"}

EntryOK(e) ==
  /\ e = [f \in Fields |-> e[f]]
  /\ e.invalid \in BOOLEAN /\ e.failed \in BOOLEAN /\ e.missed \in BOOLEAN
  /\ e.phase \in {"idle", "sent", "back"}

CacheOK(c) == DOMAIN c = Queries /\ c = [q \in Queries |-> c[q]] /\ \A q \in Queries : EntryOK(c[q])

\* Something is fetched again only for a reason that outlives the fetch.
Reasoned(e) == e.phase # "idle" /\ e.data # <<>> => e.invalid \/ e.failed

\* No answer the entry has or gets is taken for the present one.
Doubted(e) ==
  /\ e.phase = "idle" /\ e.data # <<>> => e.invalid
  /\ e.phase = "back" => e.missed

\* The answers the entry has, and the one it is about to get, are current.
Current(e, answer) ==
  /\ e.phase = "back" /\ ~e.missed => e.read = <<answer>>
  /\ e.phase = "idle" /\ e.data # <<>> /\ ~e.invalid /\ ~e.failed /\ ~e.missed =>
       e.data = <<answer>>

\* The browser has heard of every change, and has passed it on to the cache.
Informed == stream = "open" /\ unheard = 0 /\ ~timer

BaseOK ==
  /\ stage = [t \in Tasks |-> stage[t]]
  /\ unheard \in Nat
  /\ timer \in BOOLEAN
  /\ CacheOK(cache)

ScreensInv ==
  /\ BaseOK
  /\ \A q \in Queries : Reasoned(cache[q])
  /\ Informed => \A q \in Queries : Current(cache[q], Answer(q))

-----------------------------------------------------------------------------
(* The operators on one entry. *)

LEMMA SentEntry ==
  ASSUME NEW e, EntryOK(e)
  PROVE  /\ EntryOK(Sent(e)) /\ Sent(e).phase = "sent"
         /\ Sent(e).data = e.data /\ Sent(e).invalid = e.invalid /\ Sent(e).failed = e.failed
  BY DEF Fields, EntryOK, Sent

LEMMA UnobservedEntry ==
  ASSUME NEW e, EntryOK(e)
  PROVE  /\ EntryOK(Unobserved(e)) /\ Unobserved(e).phase = "idle"
         /\ Unobserved(e).data = e.data /\ Unobserved(e).invalid = e.invalid
         /\ Unobserved(e).failed = e.failed
         /\ e.data # <<>> => Unobserved(e).missed = e.missed
  BY DEF Fields, EntryOK, Unobserved

LEMMA RefetchedEntry ==
  ASSUME NEW e, EntryOK(e)
  PROVE  EntryOK(Refetched(e)) /\ Reasoned(Refetched(e)) /\ Doubted(Refetched(e))
  BY DEF Fields, EntryOK, Sent, Refetched, Reasoned, Doubted

\* Whatever the pages observe, an invalidation leaves no entry that passes for
\* current.
LEMMA InvalidateDoubts ==
  ASSUME NEW c, CacheOK(c)
  PROVE  /\ CacheOK(InvalidateTaskQueries(c))
         /\ \A q \in Queries : /\ Reasoned(InvalidateTaskQueries(c)[q])
                               /\ Doubted(InvalidateTaskQueries(c)[q])
<1> DEFINE marked(e) == [e EXCEPT !.invalid = e.data # <<>>,
                                  !.missed = @ \/ e.phase # "idle"]
           d == InvalidateTaskQueries(c)
<1>1. ASSUME NEW e, EntryOK(e)
      PROVE  EntryOK(marked(e)) /\ Reasoned(marked(e)) /\ Doubted(marked(e))
  BY <1>1 DEF Fields, EntryOK, Reasoned, Doubted
<1>2. d = [q \in Queries |-> IF q \in Active THEN Refetched(c[q]) ELSE marked(c[q])]
  BY DEF InvalidateTaskQueries
<1> HIDE DEF marked, d
<1>3. ASSUME NEW q \in Queries
      PROVE  EntryOK(d[q]) /\ Reasoned(d[q]) /\ Doubted(d[q])
  BY <1>1, <1>2, RefetchedEntry DEF CacheOK
<1>4. CacheOK(d)
  BY <1>2, <1>3 DEF CacheOK
<1> QED
  BY <1>3, <1>4 DEF d

LEMMA DoubtedIsCurrent ==
  ASSUME NEW e, NEW answer, EntryOK(e), Doubted(e)
  PROVE  Current(e, answer)
  BY DEF EntryOK, Doubted, Current

LEMMA AnswerKept ==
  ASSUME NEW q, UNCHANGED <<tasks, Queries>>
  PROVE  Answer(q)' = Answer(q)
  BY DEF tasks, Answer, ListAnswer, StatsAnswer, TaskAnswer, HistoryAnswer, HolderAnswer,
         Holder, Accepted, Retired, Lifecycle!ActiveStages

\* A change of the tasks leaves an open stream with news.
LEMMA ChangeIsHeard ==
  ASSUME Announce, stage = [t \in Tasks |-> stage[t]], unheard \in Nat, UNCHANGED stream,
         stage' = [t \in Tasks |-> stage'[t]]
  PROVE  /\ unheard' \in Nat
         /\ stream = "open" /\ unheard' = 0 => unheard = 0 /\ Changed = {} /\ stage' = stage
<1>1. IsFiniteSet(Changed)
  BY ScreensAssumption, FS_Subset DEF Changed
<1>2. Cardinality(Changed) \in Nat /\ (Cardinality(Changed) = 0 <=> Changed = {})
  BY <1>1, FS_CardinalityType, FS_EmptySet
<1>3. Changed = {} => \A t \in Tasks : stage'[t] = stage[t]
  BY DEF Changed
<1>4. Changed = {} => stage' = stage
  BY <1>3
<1> QED
  BY <1>2, <1>4 DEF Announce

\* An entry that takes the place of another keeps the cache in order.
LEMMA EntryReplaced ==
  ASSUME NEW q \in Queries, NEW e, CacheOK(cache), EntryOK(e),
         cache' = [cache EXCEPT ![q] = e], UNCHANGED Queries
  PROVE  /\ CacheOK(cache)' /\ cache'[q] = e
         /\ \A p \in Queries : p # q => cache'[p] = cache[p]
  BY DEF CacheOK, EntryOK

\* One entry changes, and nothing that it is compared with.
LEMMA EntryStep ==
  ASSUME ScreensInv, NEW q \in Queries, NEW e, EntryOK(e), Reasoned(e),
         Informed => Current(e, Answer(q)),
         cache' = [cache EXCEPT ![q] = e],
         UNCHANGED <<tasks, feed, Queries>>
  PROVE  ScreensInv'
<1>1. BaseOK'
  BY EntryReplaced DEF ScreensInv, BaseOK, tasks, feed
<1>2. \A p \in Queries' : Reasoned(cache'[p])
  BY EntryReplaced DEF ScreensInv, BaseOK
<1>3. Informed' => Informed
  BY DEF Informed, feed
<1>4. ASSUME Informed, NEW p \in Queries PROVE Current(cache'[p], Answer(p)')
  BY <1>4, EntryReplaced, AnswerKept DEF ScreensInv, BaseOK
<1> QED
  BY <1>1, <1>2, <1>3, <1>4 DEF ScreensInv

\* Everything is invalidated, after which nothing passes for current.
LEMMA InvalidationStep ==
  ASSUME BaseOK, NEW c, CacheOK(c), cache' = InvalidateTaskQueries(c),
         UNCHANGED <<tasks, unheard, stream, Queries>>, timer' \in BOOLEAN
  PROVE  ScreensInv'
<1>1. CacheOK(cache)' /\ \A q \in Queries : Reasoned(cache'[q]) /\ Doubted(cache'[q])
  BY InvalidateDoubts DEF CacheOK, EntryOK, Fields
<1>2. \A q \in Queries : Current(cache'[q], Answer(q)')
  BY <1>1, DoubtedIsCurrent DEF CacheOK
<1> QED
  BY <1>1, <1>2 DEF ScreensInv, BaseOK, tasks

\* The cache stays as it is, and nobody is informed who was not.
LEMMA CacheStays ==
  ASSUME ScreensInv, UNCHANGED <<cache, Queries>>,
         stage' = [t \in Tasks |-> stage'[t]], unheard' \in Nat, timer' \in BOOLEAN,
         Informed' => Informed /\ UNCHANGED tasks
  PROVE  ScreensInv'
<1>1. BaseOK'
  BY DEF ScreensInv, BaseOK, CacheOK, EntryOK, Fields
<1>2. \A q \in Queries' : Reasoned(cache'[q])
  BY DEF ScreensInv
<1>3. ASSUME Informed', NEW q \in Queries PROVE Current(cache'[q], Answer(q)')
  BY <1>3, AnswerKept DEF ScreensInv
<1> QED
  BY <1>1, <1>2, <1>3 DEF ScreensInv

-----------------------------------------------------------------------------
LEMMA EmptyEntry == EntryOK(NoEntry) /\ Reasoned(NoEntry)
  BY DEF NoEntry, EntryOK, Fields, Reasoned

LEMMA EmptyCache ==
  ASSUME cache = [q \in Queries |-> NoEntry]
  PROVE  CacheOK(cache) /\ \A q \in Queries : Reasoned(cache[q])
  BY EmptyEntry DEF CacheOK

LEMMA ScreensInitially == Init => ScreensInv
<1> SUFFICES ASSUME Init PROVE ScreensInv
  OBVIOUS
<1>1. CacheOK(cache) /\ \A q \in Queries : Reasoned(cache[q])
  BY EmptyCache DEF Init
<1>2. stage = [t \in Tasks |-> stage[t]]
  BY DEF Init, Lifecycle!Init
<1>3. unheard \in Nat /\ timer \in BOOLEAN /\ ~Informed
  BY DEF Init, Informed
<1> QED
  BY <1>1, <1>2, <1>3 DEF ScreensInv, BaseOK

\* Steps of the life cycle keep `stage` a function of the tasks.
LEMMA LifecycleStep ==
  ASSUME Lifecycle!Next \/ \E t : Lifecycle!Cancel(t) \/ Lifecycle!Reopen(t) \/ Lifecycle!Collect(t)
  PROVE  stage' = [t \in Tasks |-> stage'[t]]
  BY DEF Lifecycle!Next, Lifecycle!Accept, Lifecycle!Start, Lifecycle!PutBack, Lifecycle!Finish,
         Lifecycle!Reopen, Lifecycle!Collect, Lifecycle!Cancel, Lifecycle!Move

LEMMA ChangePreserves ==
  ASSUME ScreensInv, Change PROVE ScreensInv'
<1>1. stage' = [t \in Tasks |-> stage'[t]]
  BY LifecycleStep DEF Change
<1>2. unheard' \in Nat /\ ~Informed'
  BY <1>1, ChangeIsHeard DEF Change, ScreensInv, BaseOK, Informed
<1> QED
  BY <1>1, <1>2, CacheStays DEF Change, ScreensInv, BaseOK

LEMMA ServeActPreserves ==
  ASSUME ScreensInv, ServeAct PROVE ScreensInv'
<1>1. stage' = [t \in Tasks |-> stage'[t]]
  BY LifecycleStep DEF ServeAct
<1>2. UNCHANGED <<number, executions>>
  BY DEF ServeAct, Lifecycle!Cancel, Lifecycle!Reopen, Lifecycle!Collect
<1>3. unheard' \in Nat /\ (Informed' => Informed /\ UNCHANGED tasks)
  BY <1>1, <1>2, ChangeIsHeard DEF ServeAct, ScreensInv, BaseOK, Informed, tasks
<1> QED
  BY <1>1, <1>3, CacheStays DEF ServeAct, ScreensInv, BaseOK

LEMMA StreamPreserves ==
  ASSUME ScreensInv, Open \/ StreamLost \/ Deliver \/ SignIn PROVE ScreensInv'
<1>1. UNCHANGED <<cache, Queries, tasks>>
  BY DEF Open, StreamLost, Deliver, SignIn
<1>2. unheard' \in Nat
  BY DEF Open, StreamLost, Deliver, SignIn, ScreensInv, BaseOK
<1>3. timer' \in BOOLEAN /\ ~Informed'
  BY DEF Open, StreamLost, Deliver, SignIn, ScreensInv, BaseOK, Informed
<1> QED
  BY <1>1, <1>2, <1>3, CacheStays DEF ScreensInv, BaseOK, tasks

LEMMA FetchPreserves ==
  ASSUME ScreensInv, NEW q \in Queries,
         Fetching(q) \/ FetchFails(q) \/ Retry(q)
  PROVE  ScreensInv'
<1> DEFINE e == cache[q]
<1>1. EntryOK(e) /\ Reasoned(e) /\ (Informed => Current(e, Answer(q)))
  BY DEF ScreensInv, BaseOK, CacheOK
<1>2. CASE FetchOnMount(q) \/ Retry(q)
  <2>1. EntryOK(Sent(e)) /\ Reasoned(Sent(e)) /\ Current(Sent(e), Answer(q))
    BY <1>1, <1>2, SentEntry DEF FetchOnMount, Retry, Loaded, Reasoned, Current
  <2> QED
    BY <1>2, <2>1, EntryStep DEF FetchOnMount, Retry
<1>3. CASE Read(q)
  <2> DEFINE r == [e EXCEPT !.phase = "back", !.read = <<Answer(q)>>]
  <2>1. EntryOK(r) /\ Reasoned(r) /\ Current(r, Answer(q))
    BY <1>1, <1>3 DEF Read, EntryOK, Fields, Reasoned, Current
  <2>2. cache' = [cache EXCEPT ![q] = r]
    BY <1>3 DEF Read, ScreensInv, BaseOK, CacheOK
  <2> QED
    BY <1>3, <2>1, <2>2, EntryStep DEF Read
<1>4. CASE Load(q)
  <2> DEFINE l == [NoEntry EXCEPT !.data = e.read, !.missed = e.missed]
  <2>1. EntryOK(l) /\ Reasoned(l) /\ (Informed => Current(l, Answer(q)))
    BY <1>1, <1>4 DEF Load, NoEntry, EntryOK, Fields, Reasoned, Current
  <2> QED
    BY <1>4, <2>1, EntryStep DEF Load
<1>5. CASE FetchFails(q)
  <2> DEFINE u == Unobserved(e)
             f == [u EXCEPT !.failed = TRUE]
  <2>1. EntryOK(u) /\ u.phase = "idle"
    BY <1>1, UnobservedEntry
  <2> HIDE DEF u
  <2>2. EntryOK(f) /\ f.phase = "idle" /\ f.failed = TRUE
    BY <2>1 DEF EntryOK, Fields
  <2>3. Reasoned(f) /\ Current(f, Answer(q))
    BY <2>2 DEF Reasoned, Current
  <2> QED
    BY <1>5, <2>2, <2>3, EntryStep DEF FetchFails, u
<1> QED
  BY <1>2, <1>3, <1>4, <1>5 DEF Fetching

LEMMA NavigatePreserves ==
  ASSUME ScreensInv, NEW page, Navigate(page) PROVE ScreensInv'
<1>1. ASSUME NEW q \in Queries
      PROVE  /\ EntryOK(cache'[q]) /\ Reasoned(cache'[q])
             /\ Informed => Current(cache'[q], Answer(q))
  <2>1. EntryOK(cache[q]) /\ Reasoned(cache[q]) /\ (Informed => Current(cache[q], Answer(q)))
    BY DEF ScreensInv, BaseOK, CacheOK
  <2>2. cache'[q] \in {cache[q], Unobserved(cache[q])}
    BY DEF Navigate
  <2>3. EntryOK(Unobserved(cache[q])) /\ Reasoned(Unobserved(cache[q]))
    BY <2>1, UnobservedEntry DEF Reasoned
  <2>4. Informed => Current(Unobserved(cache[q]), Answer(q))
    BY <2>1, UnobservedEntry DEF Reasoned, Current
  <2> QED
    BY <2>1, <2>2, <2>3, <2>4
<1>2. CacheOK(cache)'
  BY <1>1 DEF Navigate, CacheOK, EntryOK, Fields
<1>3. BaseOK'
  BY <1>2 DEF Navigate, ScreensInv, BaseOK, tasks, feed
<1>4. ASSUME Informed', NEW q \in Queries' PROVE Current(cache'[q], Answer(q)')
  BY <1>1, <1>4, AnswerKept DEF Navigate, Informed, feed
<1> QED
  BY <1>1, <1>3, <1>4 DEF ScreensInv, Navigate

LEMMA SignOutPreserves ==
  ASSUME ScreensInv, SignOut PROVE ScreensInv'
<1>1. CacheOK(cache)' /\ \A q \in Queries' : Reasoned(cache'[q])
  <2>1. EntryOK(NoEntry) /\ Reasoned(NoEntry)
    BY EmptyEntry
  <2>2. cache' = [q \in Queries |-> NoEntry] /\ UNCHANGED Queries
    BY DEF SignOut
  <2>3. \A q \in Queries' : EntryOK(cache'[q]) /\ Reasoned(cache'[q])
    BY <2>1, <2>2
  <2> QED
    BY <2>2, <2>3 DEF CacheOK, EntryOK, Fields
<1>2. ~Informed' /\ unheard' \in Nat /\ timer' \in BOOLEAN
  BY DEF SignOut, Informed
<1>3. stage' = [t \in Tasks |-> stage'[t]]
  BY DEF SignOut, tasks, ScreensInv, BaseOK
<1> QED
  BY <1>1, <1>2, <1>3 DEF ScreensInv, BaseOK

\* applyUpdate puts a row into the cache.
LEMMA ShownCacheOK ==
  ASSUME CacheOK(cache)
  PROVE  CacheOK([cache EXCEPT !["task"].data = <<act.to>>, !["task"].invalid = FALSE,
                               !["task"].failed = FALSE])
<1> DEFINE set == [cache EXCEPT !["task"].data = <<act.to>>, !["task"].invalid = FALSE,
                                !["task"].failed = FALSE]
<1>1. ASSUME NEW q \in Queries PROVE EntryOK(set[q])
  <2> DEFINE shown == [cache[q] EXCEPT !.data = <<act.to>>, !.invalid = FALSE,
                                       !.failed = FALSE]
  <2>1. EntryOK(cache[q])
    BY DEF CacheOK
  <2>2. EntryOK(shown)
    BY <2>1 DEF EntryOK, Fields
  <2>3. CASE q # "task"
    BY <2>1, <2>3 DEF CacheOK
  <2>4. CASE q = "task"
    BY <2>2, <2>4 DEF CacheOK
  <2> QED
    BY <2>3, <2>4
<1> QED
  BY <1>1 DEF CacheOK

LEMMA InvalidationPreserves ==
  ASSUME ScreensInv, Flush \/ ApplyUpdate \/ Refresh PROVE ScreensInv'
<1>1. CASE Flush \/ Refresh
  BY <1>1, InvalidationStep DEF Flush, Refresh, ScreensInv, BaseOK, feed
<1>2. CASE ApplyUpdate
  <2> DEFINE set == [cache EXCEPT !["task"].data = <<act.to>>,
                                  !["task"].invalid = FALSE,
                                  !["task"].failed = FALSE]
  <2>1. CacheOK(cache)
    BY DEF ScreensInv, BaseOK
  <2>2. CacheOK(set)
    BY <2>1, ShownCacheOK
  <2>3. cache' \in {InvalidateTaskQueries(set), InvalidateTaskQueries(cache)}
    BY <1>2 DEF ApplyUpdate
  <2> QED
    BY <1>2, <2>1, <2>2, <2>3, InvalidationStep DEF ApplyUpdate, ScreensInv, BaseOK, feed
<1> QED
  BY <1>1, <1>2

LEMMA OtherActsPreserve ==
  ASSUME ScreensInv,
         \/ OpenConfirm \/ CloseConfirm \/ \E kind \in {"cancel", "retry", "collect"} : SendAct(kind)
         \/ RefuseAct \/ LoseAct \/ ShowConflict \/ UNCHANGED vars
  PROVE  ScreensInv'
<1>1. UNCHANGED <<cache, Queries, tasks, feed>>
  BY DEF OpenConfirm, CloseConfirm, SendAct, RefuseAct, LoseAct, ShowConflict, vars
<1> QED
  BY <1>1, CacheStays DEF ScreensInv, BaseOK, Informed, tasks, feed

LEMMA ScreensInvariance == Spec => []ScreensInv
<1>1. ScreensInv /\ [Next]_vars => ScreensInv'
  BY ChangePreserves, ServeActPreserves, StreamPreserves, FetchPreserves, NavigatePreserves,
     SignOutPreserves, InvalidationPreserves, OtherActsPreserve DEF Next, Act
<1> QED
  BY ScreensInitially, <1>1, PTL DEF Spec

\* On any order of changes, frames, overtaken reads, late answers to actions,
\* lost streams and navigation: what an open stream has nothing more to say of
\* is shown as the table has it.
THEOREM QuietPagesAreFresh == Spec => []QuietMeansFresh
<1>1. ScreensInv => QuietMeansFresh
  BY DEF ScreensInv, BaseOK, QuietMeansFresh, Quiet, Loaded, Informed, Current
<1> QED
  BY ScreensInvariance, <1>1, PTL

-----------------------------------------------------------------------------
(* Whom a handle addresses. *)

\* Every step of the life cycle: tasks stay accepted under their numbers, no
\* retired one becomes active, and what is accepted is one task and its number
\* free.
Progress ==
  /\ stage' = [t \in Tasks |-> stage'[t]] /\ number' = [t \in Tasks |-> number'[t]]
  /\ \A t \in Tasks : stage[t] # "unknown" =>
       /\ stage'[t] # "unknown" /\ number'[t] = number[t]
       /\ HoldsHandle(stage'[t]) => HoldsHandle(stage[t])
  /\ \A t \in Tasks : stage[t] = "unknown" /\ stage'[t] # "unknown" =>
       /\ \A u \in Tasks : HoldsHandle(stage[u]) => number[u] # number'[t]
       /\ \A u \in Tasks : u # t /\ stage[u] = "unknown" => stage'[u] = "unknown"

\* Tasks are accepted in the order of their numbers as tasks.
InOrder == \A t, u \in Tasks : u < t /\ stage[t] # "unknown" => stage[u] # "unknown"

\* h is the newest task accepted under the number of t.
Newest(h, t) ==
  /\ h \in Accepted /\ number[h] = number[t]
  /\ \A u \in Accepted : number[u] = number[t] => u <= h

LineageInv ==
  /\ stage = [t \in Tasks |-> stage[t]] /\ number = [t \in Tasks |-> number[t]]
  /\ InOrder
  /\ \A t \in Accepted : \E h \in Accepted : Newest(h, t)
  /\ \A t \in Accepted : HoldsHandle(stage[t]) => Newest(t, t)

\* A holder the browser was told of is no older than the task of its page.
Told(answer) ==
  answer # <<>> =>
    /\ Shown \in Accepted
    /\ answer[1] \in Accepted /\ answer[1] >= Shown
    /\ number[answer[1]] = number[Shown]

HolderInv ==
  /\ screen = "detail" => Shown \in Accepted
  /\ "holder" \in Queries =>
       /\ cache["holder"].phase # "idle" => Shown \in Accepted
       /\ Told(cache["holder"].data) /\ Told(cache["holder"].read)

LEMMA HolderIsNewest ==
  ASSUME LineageInv, NEW t \in Accepted
  PROVE  Newest(Holder(number[t]), t)
<1> DEFINE P(h) == /\ h \in {u \in Accepted : number[u] = number[t]}
                   /\ \A u \in Accepted : number[u] = number[t] => u <= h
<1>1. \E h : P(h)
  BY DEF LineageInv, Newest
<1>2. P(CHOOSE h : P(h))
  BY <1>1
<1>3. Holder(number[t]) = CHOOSE h : P(h)
  BY DEF Holder
<1> QED
  BY <1>2, <1>3 DEF Newest

LEMMA HolderOfActive ==
  ASSUME LineageInv, NEW t \in Accepted, HoldsHandle(stage[t])
  PROVE  Holder(number[t]) = t
<1> DEFINE h == Holder(number[t])
<1>1. Newest(h, t) /\ Newest(t, t)
  BY HolderIsNewest DEF LineageInv
<1> HIDE DEF h
<1>2. h \in Nat /\ t \in Nat /\ h <= t /\ t <= h
  BY <1>1, ScreensAssumption DEF Newest, Accepted
<1>3. h = t
  BY <1>2
<1> QED
  BY <1>3 DEF h

LEMMA LifecycleProgress ==
  ASSUME LineageInv,
         Lifecycle!Next \/ \E t : Lifecycle!Cancel(t) \/ Lifecycle!Reopen(t) \/ Lifecycle!Collect(t)
  PROVE  Progress
<1> USE DEF LineageInv, Progress, HoldsHandle
<1>1. ASSUME NEW t \in Tasks, NEW n \in Handles, Lifecycle!Accept(t, n) PROVE Progress
  BY <1>1 DEF Lifecycle!Accept, Lifecycle!Move, Lifecycle!ActiveStages
<1>2. ASSUME NEW S \in SUBSET Tasks, Lifecycle!Start(S) \/ Lifecycle!PutBack(S) PROVE Progress
  BY <1>2 DEF Lifecycle!Start, Lifecycle!PutBack, Lifecycle!Move
<1>3. ASSUME NEW t, Lifecycle!Finish(t) PROVE Progress
  BY <1>3 DEF Lifecycle!Finish, Lifecycle!Move
<1>4. ASSUME NEW t, Lifecycle!Cancel(t) PROVE Progress
  BY <1>4 DEF Lifecycle!Cancel, Lifecycle!Move
<1>5. ASSUME NEW t, Lifecycle!Reopen(t) \/ Lifecycle!Collect(t) PROVE Progress
  BY <1>5 DEF Lifecycle!Reopen, Lifecycle!Collect, Lifecycle!Move
<1> QED
  BY <1>1, <1>2, <1>3, <1>4, <1>5 DEF Lifecycle!Next

\* A task that is accepted is the newest of all.
LEMMA LineagePreserved ==
  ASSUME LineageInv, Progress,
         \A t \in Changed, u \in Tasks :
           u < t /\ stage[t] = "unknown" => stage[u] # "unknown"
  PROVE  LineageInv'
<1>1. InOrder'
  BY DEF LineageInv, InOrder, Progress, Changed
<1>2. ASSUME NEW t \in Accepted, NEW n \in Tasks, n \notin Accepted, n \in Accepted'
      PROVE  t < n
  BY <1>2, ScreensAssumption DEF LineageInv, InOrder, Accepted
<1>3. \A t \in Accepted : t \in Accepted' /\ number'[t] = number[t]
  BY DEF Progress, Accepted
<1>4. ASSUME NEW n \in Accepted', n \notin Accepted
      PROVE  Newest(n, n)'
  <2>1. \A u \in Accepted' : u # n => u \in Accepted
    BY <1>4 DEF Progress, Accepted
  <2>2. \A u \in Accepted' : u <= n
    BY <1>2, <1>4, <2>1, ScreensAssumption DEF Accepted
  <2> QED
    BY <1>4, <2>2 DEF Newest, Accepted
<1>5. ASSUME NEW t \in Accepted, NEW h, Newest(h, t),
             \A n \in Accepted' : n \notin Accepted => number'[n] # number[t]
      PROVE  Newest(h, t)'
  BY <1>3, <1>5 DEF Newest
<1>6. ASSUME NEW t \in Accepted' PROVE \E h \in Accepted' : Newest(h, t)'
  <2>1. CASE \E n \in Accepted' : n \notin Accepted /\ number'[n] = number'[t]
    BY <1>4, <2>1 DEF Newest
  <2>2. CASE t \in Accepted /\ \A n \in Accepted' : n \notin Accepted => number'[n] # number[t]
    BY <1>5, <2>2 DEF LineageInv, Newest
  <2> QED
    BY <1>3, <2>1, <2>2
<1>7. ASSUME NEW t \in Accepted', HoldsHandle(stage'[t]) PROVE Newest(t, t)'
  <2>1. CASE t \notin Accepted
    BY <1>4, <2>1
  <2>2. CASE t \in Accepted
    <3>1. HoldsHandle(stage[t]) /\ Newest(t, t)
      BY <1>7, <2>2 DEF Progress, Accepted, LineageInv
    <3>2. \A n \in Accepted' : n \notin Accepted => number'[n] # number[t]
      BY <2>2, <3>1 DEF Progress, Accepted
    <3> QED
      BY <1>5, <2>2, <3>1, <3>2
  <2> QED
    BY <2>1, <2>2
<1> QED
  BY <1>1, <1>6, <1>7 DEF LineageInv, Progress

LEMMA RefetchedHolder ==
  ASSUME NEW e, EntryOK(e)
  PROVE  /\ Refetched(e).data = e.data
         /\ Refetched(e).read \in {e.read, <<>>}
  BY DEF EntryOK, Fields, Refetched, Sent

\* An invalidation asks again, but learns nothing.
LEMMA InvalidatedHolder ==
  ASSUME NEW c, CacheOK(c), "holder" \in Queries
  PROVE  LET d == InvalidateTaskQueries(c)["holder"]
         IN  /\ d.data = c["holder"].data /\ d.read \in {c["holder"].read, <<>>}
             /\ d.phase # "idle" => c["holder"].phase # "idle" \/ screen = "detail"
<1> DEFINE e == c["holder"]
           marked == [e EXCEPT !.invalid = e.data # <<>>,
                               !.missed = @ \/ e.phase # "idle"]
<1>1. EntryOK(e)
  BY DEF CacheOK
<1>2. CASE "holder" \in Active
  <2>1. InvalidateTaskQueries(c)["holder"] = Refetched(e) /\ screen = "detail"
    BY <1>2 DEF InvalidateTaskQueries, Active, ObservedOn
  <2> QED
    BY <1>1, <2>1, RefetchedHolder
<1>3. CASE "holder" \notin Active
  <2>1. InvalidateTaskQueries(c)["holder"] = marked
    BY <1>3 DEF InvalidateTaskQueries
  <2>2. marked.data = e.data /\ marked.read = e.read /\ marked.phase = e.phase
    BY <1>1 DEF EntryOK, Fields
  <2> QED
    BY <2>1, <2>2
<1> QED
  BY <1>2, <1>3

\* The tasks go on; nobody has been told of it yet.
LEMMA HolderOutlivesProgress ==
  ASSUME HolderInv, Progress, UNCHANGED <<cache, screen, Queries>>
  PROVE  HolderInv'
<1>1. \A t \in Accepted : t \in Accepted' /\ number'[t] = number[t]
  BY DEF Progress, Accepted
<1>2. ASSUME NEW answer, Told(answer) PROVE Told(answer)'
  BY <1>1, <1>2 DEF Told
<1>3. "holder" \in Queries =>
        Told(cache["holder"].data)' /\ Told(cache["holder"].read)'
  BY <1>2 DEF HolderInv
<1> QED
  BY <1>1, <1>3 DEF HolderInv

\* What happens to the entry of the probe while the tasks stay as they are.
HolderStep(e, f) ==
  /\ f.data \in {<<>>, e.data, e.read}
  /\ \/ f.read \in {<<>>, e.read}
     \/ e.phase = "sent" /\ f.read = <<HolderAnswer>>
  /\ f.phase # "idle" => e.phase # "idle" \/ screen = "detail"

LEMMA HolderStepPreserves ==
  ASSUME HolderInv, LineageInv, UNCHANGED <<tasks, Queries>>,
         screen' = "detail" => Shown \in Accepted,
         "holder" \in Queries => HolderStep(cache["holder"], cache'["holder"])
  PROVE  HolderInv'
<1>1. UNCHANGED <<Accepted, number>>
  BY DEF tasks, Accepted
<1>2. Told(<<>>)
  BY DEF Told
<1>3. Shown \in Accepted => Told(<<HolderAnswer>>)
  <2> SUFFICES ASSUME Shown \in Accepted PROVE Told(<<HolderAnswer>>)
    OBVIOUS
  <2>1. Newest(HolderAnswer, Shown)
    BY HolderIsNewest DEF HolderAnswer
  <2> HIDE DEF HolderAnswer
  <2>2. HolderAnswer \in Nat /\ Shown \in Nat /\ Shown <= HolderAnswer
    BY <2>1, ScreensAssumption DEF Newest, Accepted
  <2> QED
    BY <2>1, <2>2 DEF Told, Newest
<1>4. CASE "holder" \in Queries
  <2> DEFINE e == cache["holder"]
             f == cache'["holder"]
  <2>1. Told(e.data) /\ Told(e.read) /\ (e.phase # "idle" => Shown \in Accepted)
    BY <1>4 DEF HolderInv
  <2>2. HolderStep(e, f)
    BY <1>4
  <2>3. Told(f.data) /\ Told(f.read)
    BY <1>2, <1>3, <2>1, <2>2 DEF HolderStep
  <2>4. f.phase # "idle" => Shown \in Accepted
    BY <2>1, <2>2 DEF HolderStep, HolderInv
  <2>5. Told(cache["holder"].data)' /\ Told(cache["holder"].read)'
    BY <1>1, <2>3 DEF Told
  <2> QED
    BY <1>1, <2>4, <2>5 DEF HolderInv
<1>5. CASE "holder" \notin Queries
  BY <1>1, <1>5 DEF HolderInv
<1> QED
  BY <1>4, <1>5

LEMMA HolderFetch ==
  ASSUME BaseOK, HolderInv, LineageInv, NEW q \in Queries,
         Fetching(q) \/ FetchFails(q) \/ Retry(q)
  PROVE  HolderInv'
<1> DEFINE e == cache["holder"]
<1>1. UNCHANGED <<tasks, Queries, screen>>
  BY DEF Fetching, FetchOnMount, Read, Load, FetchFails, Retry
<1>2. ASSUME q # "holder", "holder" \in Queries PROVE cache'["holder"] = e
  BY <1>2 DEF Fetching, FetchOnMount, Read, Load, FetchFails, Retry, BaseOK, CacheOK
<1>3. ASSUME q = "holder" PROVE HolderStep(e, cache'["holder"])
  <2>1. EntryOK(e) /\ "holder" \in DOMAIN cache
    BY <1>3 DEF BaseOK, CacheOK
  <2>2. CASE FetchOnMount(q) \/ Retry(q)
    BY <1>3, <2>1, <2>2 DEF FetchOnMount, Retry, Active, ObservedOn, HolderStep, Sent,
                            EntryOK, Fields
  <2>3. CASE Read(q)
    BY <1>3, <2>1, <2>3 DEF Read, HolderStep, Answer, EntryOK, Fields
  <2>4. CASE Load(q)
    BY <1>3, <2>1, <2>4 DEF Load, NoEntry, HolderStep, EntryOK, Fields
  <2>5. CASE FetchFails(q)
    BY <1>3, <2>1, <2>5 DEF FetchFails, Unobserved, HolderStep, EntryOK, Fields
  <2> QED
    BY <2>2, <2>3, <2>4, <2>5 DEF Fetching
<1>4. ASSUME "holder" \in Queries, cache'["holder"] = e PROVE HolderStep(e, cache'["holder"])
  BY <1>4 DEF HolderStep
<1> QED
  BY <1>1, <1>2, <1>3, <1>4, HolderStepPreserves DEF HolderInv

LEMMA HolderInvalidated ==
  ASSUME BaseOK, HolderInv, LineageInv, Flush \/ ApplyUpdate \/ Refresh
  PROVE  HolderInv'
<1> DEFINE set == [cache EXCEPT !["task"].data = <<act.to>>,
                                !["task"].invalid = FALSE,
                                !["task"].failed = FALSE]
<1>1. UNCHANGED <<tasks, Queries, screen>>
  BY DEF Flush, ApplyUpdate, Refresh
<1>2. \E c \in {cache, set} : cache' = InvalidateTaskQueries(c)
  BY DEF Flush, ApplyUpdate, Refresh
<1>3. ASSUME "holder" \in Queries PROVE set["holder"] = cache["holder"]
  BY <1>3 DEF BaseOK, CacheOK
<1>4. CacheOK(cache) /\ CacheOK(set)
  BY ShownCacheOK DEF BaseOK
<1> HIDE DEF set
<1>5. ASSUME "holder" \in Queries PROVE HolderStep(cache["holder"], cache'["holder"])
  BY <1>2, <1>3, <1>4, <1>5, InvalidatedHolder DEF HolderStep
<1> QED
  BY <1>1, <1>5, HolderStepPreserves DEF HolderInv

LEMMA HolderOnPages ==
  ASSUME BaseOK, HolderInv, LineageInv,
         SignIn \/ SignOut \/ \E page \in {"dashboard", "detail"} : Navigate(page)
  PROVE  HolderInv'
<1>1. UNCHANGED <<tasks, Queries>> /\ (screen' = "detail" => Shown \in Accepted)
  BY DEF SignIn, SignOut, Navigate
<1>2. ASSUME "holder" \in Queries
      PROVE  cache'["holder"] \in {cache["holder"], NoEntry, Unobserved(cache["holder"])}
  BY <1>2 DEF SignIn, SignOut, Navigate
<1>3. ASSUME "holder" \in Queries, NEW f,
             f \in {cache["holder"], NoEntry, Unobserved(cache["holder"])}
      PROVE  HolderStep(cache["holder"], f)
  <2>1. EntryOK(cache["holder"])
    BY <1>3 DEF BaseOK, CacheOK
  <2>2. HolderStep(cache["holder"], cache["holder"]) /\ HolderStep(cache["holder"], NoEntry)
    BY DEF NoEntry, HolderStep
  <2>3. HolderStep(cache["holder"], Unobserved(cache["holder"]))
    BY <2>1 DEF EntryOK, Fields, Unobserved, HolderStep
  <2> QED
    BY <1>3, <2>2, <2>3
<1> QED
  BY <1>1, <1>2, <1>3, HolderStepPreserves

LEMMA HolderElsewhere ==
  ASSUME HolderInv, LineageInv, UNCHANGED <<tasks, Queries, cache, screen>>
  PROVE  HolderInv'
<1>1. HolderStep(cache["holder"], cache'["holder"])
  BY DEF HolderStep
<1> QED
  BY <1>1, HolderStepPreserves DEF HolderInv

AddressInv == ScreensInv /\ LineageInv /\ HolderInv

LEMMA AddressInitially == Init => AddressInv
<1> SUFFICES ASSUME Init PROVE AddressInv
  OBVIOUS
<1>1. LineageInv
  BY DEF Init, Lifecycle!Init, LineageInv, InOrder, Accepted
<1>2. HolderInv
  BY DEF Init, NoEntry, HolderInv, Told
<1> QED
  BY <1>1, <1>2, ScreensInitially DEF AddressInv

LEMMA TasksMove ==
  ASSUME AddressInv, Change \/ ServeAct
  PROVE  LineageInv' /\ HolderInv'
<1>1. Progress
  BY LifecycleProgress DEF Change, ServeAct, AddressInv
<1>2. CASE Change
  BY <1>1, <1>2, LineagePreserved, HolderOutlivesProgress DEF Change, AddressInv
<1>3. CASE ServeAct
  <2>1. \A t \in Tasks : stage[t] = "unknown" => stage'[t] = "unknown"
    BY <1>3 DEF ServeAct, Lifecycle!Cancel, Lifecycle!Reopen, Lifecycle!Collect, Lifecycle!Move
  <2>2. \A t \in Changed : stage[t] # "unknown"
    BY <2>1 DEF Changed
  <2> QED
    BY <1>1, <1>3, <2>2, LineagePreserved, HolderOutlivesProgress DEF ServeAct, AddressInv
<1> QED
  BY <1>2, <1>3

LEMMA LineageStays ==
  ASSUME LineageInv, UNCHANGED tasks
  PROVE  LineageInv'
  BY DEF LineageInv, tasks, InOrder, Newest, Accepted

LEMMA AddressInvariance == Spec => []AddressInv
<1>1. ASSUME AddressInv, [Next]_vars PROVE LineageInv' /\ HolderInv'
  <2>0. BaseOK /\ LineageInv /\ HolderInv
    BY <1>1 DEF AddressInv, ScreensInv
  <2>1. CASE Change \/ ServeAct
    BY <1>1, <2>1, TasksMove
  <2>2. CASE \E q \in Queries : Fetching(q) \/ FetchFails(q) \/ Retry(q)
    <3>1. UNCHANGED tasks
      BY <2>2 DEF Fetching, FetchOnMount, Read, Load, FetchFails, Retry
    <3> QED
      BY <2>0, <2>2, <3>1, HolderFetch, LineageStays
  <2>3. CASE Flush \/ ApplyUpdate \/ Refresh
    <3>1. UNCHANGED tasks
      BY <2>3 DEF Flush, ApplyUpdate, Refresh
    <3> QED
      BY <2>0, <2>3, <3>1, HolderInvalidated, LineageStays
  <2>4. CASE SignIn \/ SignOut \/ \E page \in {"dashboard", "detail"} : Navigate(page)
    <3>1. UNCHANGED tasks
      BY <2>4 DEF SignIn, SignOut, Navigate
    <3> QED
      BY <2>0, <2>4, <3>1, HolderOnPages, LineageStays
  <2>5. CASE Open \/ StreamLost \/ Deliver \/ UNCHANGED vars
    <3>1. UNCHANGED <<tasks, Queries, cache, screen>>
      BY <2>5 DEF Open, StreamLost, Deliver, vars
    <3> QED
      BY <2>0, <3>1, HolderElsewhere, LineageStays
  <2>6. CASE \/ OpenConfirm \/ CloseConfirm \/ RefuseAct \/ LoseAct \/ ShowConflict
             \/ \E kind \in {"cancel", "retry", "collect"} : SendAct(kind)
    <3>1. UNCHANGED <<tasks, Queries, cache, screen>>
      BY <2>6 DEF OpenConfirm, CloseConfirm, RefuseAct, LoseAct, ShowConflict, SendAct
    <3> QED
      BY <2>0, <3>1, HolderElsewhere, LineageStays
  <2> QED
    BY <1>1, <2>1, <2>2, <2>3, <2>4, <2>5, <2>6 DEF Next, Act
<1>2. LineageInv /\ HolderInv /\ ScreensInv /\ [Next]_vars => LineageInv' /\ HolderInv'
  BY <1>1 DEF AddressInv
<1>3. Init => LineageInv /\ HolderInv
  BY AddressInitially DEF AddressInv
<1>4. AddressInv <=> LineageInv /\ HolderInv /\ ScreensInv
  BY DEF AddressInv
<1> QED
  BY <1>2, <1>3, <1>4, ScreensInvariance, PTL DEF Spec

\* The page never says falsely that a newer task holds the handle: what the
\* probe answered once stays a bound, however late it is shown.
THEOREM ReclaimedHandlesAre == Spec => []ReclaimedIsTrue
<1>1. ASSUME AddressInv PROVE ReclaimedIsTrue
  <2> SUFFICES ASSUME screen = "detail", Loaded("task"), Ownership = "reclaimed"
               PROVE  Holder(number[Shown]) > Shown
    BY DEF ReclaimedIsTrue
  <2> DEFINE told == cache["holder"].data[1]
             h == Holder(number[Shown])
  <2>1. Loaded("holder") /\ told # Shown
    BY DEF Ownership
  <2>2. told \in Accepted /\ told >= Shown /\ number[told] = number[Shown] /\ Shown \in Accepted
    BY <1>1, <2>1 DEF AddressInv, HolderInv, Told, Loaded
  <2>3. Newest(h, Shown)
    BY <1>1, <2>2, HolderIsNewest DEF AddressInv
  <2> HIDE DEF told, h
  <2>4. h >= told /\ h \in Nat /\ told \in Nat /\ Shown \in Nat
    BY <2>2, <2>3, ScreensAssumption DEF Newest, Accepted
  <2>5. h > Shown
    BY <2>1, <2>2, <2>4 DEF told
  <2> QED
    BY <2>5 DEF h
<1> QED
  BY <1>1, AddressInvariance, PTL

\* Once nothing is on its way, a page with buttons is the page of the task that
\* they would act on.
THEOREM ShownIsAddressed == Spec => []ActionsAddressShown
<1>1. ASSUME AddressInv PROVE ActionsAddressShown
  <2> SUFFICES ASSUME stream = "open", "task" \in Queries,
                      \A q \in Queries : Quiet(q) /\ ~cache[q].failed /\ ~cache[q].missed,
                      Actionable
               PROVE  Holder(number[Shown]) = Shown
    BY DEF ActionsAddressShown
  <2>1. \A q \in Queries : Loaded(q) => cache[q].data = <<Answer(q)>>
    BY <1>1 DEF AddressInv, ScreensInv, BaseOK, Quiet, Loaded, Informed, Current
  <2>2. Shown \in Accepted /\ Loaded("task") /\ Ownership = "owned"
    BY <1>1 DEF Actionable, AddressInv, HolderInv
  <2>3. cache["task"].data[1] = stage[Shown]
    BY <2>1, <2>2 DEF Answer, TaskAnswer
  <2>4. CASE HoldsHandle(stage[Shown])
    BY <1>1, <2>2, <2>4, HolderOfActive DEF AddressInv
  <2>5. CASE ~HoldsHandle(stage[Shown])
    <3>1. Loaded("holder") /\ cache["holder"].data[1] = Shown
      BY <2>2, <2>3, <2>5 DEF Ownership
    <3>2. cache["holder"].data = <<HolderAnswer>>
      BY <2>1, <3>1 DEF Loaded, Answer
    <3> QED
      BY <3>1, <3>2 DEF HolderAnswer
  <2> QED
    BY <2>4, <2>5
<1> QED
  BY <1>1, AddressInvariance, PTL

-----------------------------------------------------------------------------
(* What the browser keeps is what its pages can have asked for. *)

\* An answer that is back was read, what is marked stale is there, and what is
\* under way is what a page on display asks for.
EntryTyped(q, c) ==
  /\ (c[q].read # <<>>) = (c[q].phase = "back")
  /\ c[q].invalid => c[q].data # <<>>
  /\ c[q].phase # "idle" => q \in ObservedOn(screen)

Stages == {"unknown"} \cup Lifecycle!ActiveStages \cup Retired

UnheardTyped == unheard \in 0 .. MaxUnheard

StreamTyped ==
  /\ timer \in BOOLEAN
  /\ stream \in {"closed", "connecting", "open", "error"}
  /\ screen \in {"away", "dashboard", "detail"}
  /\ stream = "closed" <=> screen = "away"
  /\ screen = "away" => ~timer /\ unheard = 0

ActTyped ==
  /\ act = [kind |-> act.kind, phase |-> act.phase, on |-> act.on, to |-> act.to]
  /\ act.phase \in {"none", "confirm", "sent", "done", "refused", "conflict"}

Typed ==
  /\ stage \in [Tasks -> Stages]
  /\ UnheardTyped /\ StreamTyped /\ ActTyped
  /\ CacheOK(cache) /\ \A q \in Queries : EntryTyped(q, cache)

LEMMA TypedIsTypeOK == Typed => TypeOK
  BY DEF Typed, UnheardTyped, StreamTyped, ActTyped, EntryTyped, CacheOK, EntryOK, Loaded, Stages, TypeOK

\* Every step of the life cycle leads from stage to stage.
LEMMA LifecycleTyped ==
  ASSUME stage \in [Tasks -> Stages],
         Lifecycle!Next \/ \E t : Lifecycle!Cancel(t) \/ Lifecycle!Reopen(t) \/ Lifecycle!Collect(t)
  PROVE  stage' \in [Tasks -> Stages]
<1>1. ASSUME NEW S, NEW from, NEW to \in Stages, Lifecycle!Move(S, from, to)
      PROVE  stage' \in [Tasks -> Stages]
  BY <1>1 DEF Lifecycle!Move
<1>2. {"queued", "running", "ready", "failed", "collected", "cancelled"} \subseteq Stages
  BY DEF Stages, Lifecycle!ActiveStages, Retired
<1> QED
  BY <1>1, <1>2 DEF Lifecycle!Next, Lifecycle!Accept, Lifecycle!Start, Lifecycle!PutBack,
     Lifecycle!Finish, Lifecycle!Reopen, Lifecycle!Collect, Lifecycle!Cancel

\* What an invalidation sends is observed; the rest it marks.
LEMMA InvalidateTyped ==
  ASSUME NEW c, CacheOK(c), \A q \in Queries : EntryTyped(q, c)
  PROVE  LET d == InvalidateTaskQueries(c)
         IN  \A q \in Queries : EntryTyped(q, d) /\ d[q].data = c[q].data
<1> SUFFICES ASSUME NEW q \in Queries
             PROVE  LET d == InvalidateTaskQueries(c)
                    IN  EntryTyped(q, d) /\ d[q].data = c[q].data
  OBVIOUS
<1> DEFINE e == c[q]
           marked == [e EXCEPT !.invalid = e.data # <<>>, !.missed = @ \/ e.phase # "idle"]
           d == InvalidateTaskQueries(c)
<1>1. EntryOK(e) /\ EntryTyped(q, c)
  BY DEF CacheOK
<1>2. CASE q \in Active
  <2>1. d[q] = Refetched(e) /\ q \in ObservedOn(screen)
    BY <1>2 DEF InvalidateTaskQueries, Active
  <2>2. /\ Refetched(e).data = e.data
        /\ Refetched(e).invalid => e.data # <<>>
        /\ (Refetched(e).read # <<>>) = (Refetched(e).phase = "back")
    BY <1>1 DEF EntryTyped, EntryOK, Fields, Refetched, Sent
  <2> QED
    BY <2>1, <2>2 DEF EntryTyped
<1>3. CASE q \notin Active
  <2>1. d[q] = marked
    BY <1>3 DEF InvalidateTaskQueries
  <2>2. /\ marked.data = e.data /\ marked.phase = e.phase /\ marked.read = e.read
        /\ marked.invalid = (e.data # <<>>)
    BY <1>1 DEF EntryOK, Fields
  <2> HIDE DEF marked
  <2> QED
    BY <1>1, <2>1, <2>2 DEF EntryTyped
<1> QED
  BY <1>2, <1>3

\* A page asks for no less once more is loaded.
LEMMA StillObserved ==
  ASSUME UNCHANGED <<Queries, screen>>, NEW q \in ObservedOn(screen),
         Loaded("task") => Loaded("task")'
  PROVE  q \in ObservedOn(screen)'
  BY DEF ObservedOn

\* One entry changes and keeps what it was loaded with, or more.
LEMMA EntryTypedStep ==
  ASSUME Typed, NEW q \in Queries, NEW e, EntryOK(e),
         (e.read # <<>>) = (e.phase = "back"), e.invalid => e.data # <<>>,
         e.phase # "idle" => q \in ObservedOn(screen),
         cache[q].data # <<>> => e.data # <<>>,
         cache' = [cache EXCEPT ![q] = e],
         UNCHANGED <<tasks, feed, screen, act, Queries>>
  PROVE  Typed'
<1>1. CacheOK(cache)' /\ cache'[q] = e /\ \A p \in Queries : p # q => cache'[p] = cache[p]
  BY EntryReplaced DEF Typed
<1>2. Loaded("task") => Loaded("task")'
  BY <1>1 DEF Loaded
<1>3. \A p \in ObservedOn(screen) : p \in ObservedOn(screen)'
  BY <1>2, StillObserved
<1>4. \A p \in Queries : EntryTyped(p, cache)'
  BY <1>1, <1>3 DEF Typed, EntryTyped
<1>5. UnheardTyped' /\ StreamTyped' /\ ActTyped' /\ stage' \in [Tasks -> Stages]'
  BY DEF Typed, UnheardTyped, StreamTyped, ActTyped, feed, tasks, Stages, Lifecycle!ActiveStages, Retired
<1> QED
  BY <1>1, <1>4, <1>5 DEF Typed

LEMMA FetchTyped ==
  ASSUME Typed, NEW q \in Queries, Fetching(q) \/ FetchFails(q) \/ Retry(q)
  PROVE  Typed'
<1> DEFINE e == cache[q]
<1>1. EntryOK(e) /\ EntryTyped(q, cache) /\ DOMAIN cache = Queries
  BY DEF Typed, CacheOK
<1>2. CASE FetchOnMount(q) \/ Retry(q)
  <2>1. q \in ObservedOn(screen) /\ Sent(e).read = <<>>
    BY <1>1, <1>2 DEF FetchOnMount, Retry, Active, Sent, EntryOK, Fields
  <2> QED
    BY <1>1, <1>2, <2>1, SentEntry, EntryTypedStep DEF FetchOnMount, Retry, EntryTyped
<1>3. CASE Read(q)
  <2> DEFINE r == [e EXCEPT !.phase = "back", !.read = <<Answer(q)>>]
  <2>1. /\ EntryOK(r) /\ r.phase = "back" /\ r.read # <<>> /\ r.data = e.data
        /\ r.invalid = e.invalid
    BY <1>1 DEF EntryOK, Fields
  <2>2. cache' = [cache EXCEPT ![q] = r]
    BY <1>1, <1>3 DEF Read
  <2> HIDE DEF r
  <2> QED
    BY <1>1, <1>3, <2>1, <2>2, EntryTypedStep DEF Read, EntryTyped
<1>4. CASE Load(q)
  <2> DEFINE l == [NoEntry EXCEPT !.data = e.read, !.missed = e.missed]
  <2>1. /\ EntryOK(l) /\ l.phase = "idle" /\ l.read = <<>> /\ l.data # <<>> /\ ~l.invalid
    BY <1>1, <1>4 DEF Load, EntryTyped, NoEntry, EntryOK, Fields
  <2>2. cache' = [cache EXCEPT ![q] = l]
    BY <1>4 DEF Load
  <2> HIDE DEF l
  <2> QED
    BY <1>4, <2>1, <2>2, EntryTypedStep DEF Load
<1>5. CASE FetchFails(q)
  <2> DEFINE u == Unobserved(e)
             f == [u EXCEPT !.failed = TRUE]
  <2>1. EntryOK(u) /\ u.phase = "idle" /\ u.data = e.data /\ u.invalid = e.invalid /\ u.read = <<>>
    BY <1>1, UnobservedEntry DEF Unobserved, EntryOK, Fields
  <2> HIDE DEF u
  <2>2. EntryOK(f) /\ f.phase = "idle" /\ f.data = e.data /\ f.invalid = e.invalid /\ f.read = <<>>
    BY <2>1 DEF EntryOK, Fields
  <2>3. cache' = [cache EXCEPT ![q] = f]
    BY <1>5 DEF FetchFails, u
  <2> HIDE DEF f
  <2> QED
    BY <1>1, <1>5, <2>2, <2>3, EntryTypedStep DEF FetchFails, EntryTyped
<1> QED
  BY <1>2, <1>3, <1>4, <1>5 DEF Fetching

\* Tasks, the stream or the action change, and the cache does not.
LEMMA CacheStaysTyped ==
  ASSUME Typed, UNCHANGED <<cache, Queries, screen>>,
         stage' \in [Tasks -> Stages], UnheardTyped', StreamTyped', ActTyped'
  PROVE  Typed'
<1>1. \A p \in ObservedOn(screen) : p \in ObservedOn(screen)'
  BY StillObserved DEF Loaded
<1>2. \A p \in Queries' : EntryTyped(p, cache)'
  BY <1>1 DEF Typed, EntryTyped
<1>3. CacheOK(cache)'
  BY DEF Typed, CacheOK, EntryOK, Fields
<1>4. Stages' = Stages
  BY DEF Stages, Lifecycle!ActiveStages, Retired
<1> QED
  BY <1>2, <1>3, <1>4 DEF Typed

LEMMA TasksTyped ==
  ASSUME Typed, Change \/ ServeAct PROVE Typed'
<1>1. stage' \in [Tasks -> Stages]
  BY LifecycleTyped DEF Change, ServeAct, Typed
<1>2. stage = [t \in Tasks |-> stage[t]] /\ stage' = [t \in Tasks |-> stage'[t]] /\ unheard \in Nat
  BY <1>1 DEF Typed, UnheardTyped
<1>3. Announce /\ UNCHANGED <<stream, timer, screen, cache, Queries>>
  BY DEF Change, ServeAct
<1>4. unheard' \in 0 .. MaxUnheard /\ (stream # "open" => unheard' = 0)
  <2>1. unheard' \in Nat
    BY <1>2, <1>3, ChangeIsHeard
  <2> QED
    BY <1>3, <2>1, ScreensAssumption DEF Announce
<1>5. UnheardTyped' /\ StreamTyped'
  BY <1>3, <1>4 DEF Typed, UnheardTyped, StreamTyped
<1>6. ActTyped'
  BY DEF Change, ServeAct, NoAct, Typed, ActTyped
<1> QED
  BY <1>1, <1>3, <1>5, <1>6, CacheStaysTyped

LEMMA StreamStepTyped ==
  ASSUME Typed, Open \/ StreamLost \/ Deliver PROVE Typed'
<1>1. UNCHANGED <<cache, Queries, screen, tasks, act>>
  BY DEF Open, StreamLost, Deliver
<1>2. UnheardTyped'
  BY ScreensAssumption DEF Open, StreamLost, Deliver, Typed, UnheardTyped
<1>3. timer' \in BOOLEAN
  BY DEF Open, StreamLost, Deliver, Typed, StreamTyped
<1>4. screen # "away" /\ stream' \in {"connecting", "open", "error"}
  BY <1>1 DEF Open, StreamLost, Deliver, Typed, StreamTyped
<1>5. StreamTyped'
  BY <1>1, <1>3, <1>4 DEF Typed, StreamTyped
<1> QED
  BY <1>1, <1>2, <1>5, CacheStaysTyped DEF Typed, ActTyped, tasks

LEMMA InvalidationTyped ==
  ASSUME Typed, Flush \/ ApplyUpdate \/ Refresh PROVE Typed'
<1> DEFINE set == [cache EXCEPT !["task"].data = <<act.to>>, !["task"].invalid = FALSE,
                                !["task"].failed = FALSE]
<1>1. PICK c \in {cache, set} : cache' = InvalidateTaskQueries(c)
  BY DEF Flush, ApplyUpdate, Refresh
<1>2. CacheOK(cache) /\ CacheOK(set)
  BY ShownCacheOK DEF Typed
<1>3. ASSUME NEW q \in Queries
      PROVE  EntryTyped(q, set) /\ (cache[q].data # <<>> => set[q].data # <<>>)
  <2>1. EntryOK(cache[q]) /\ EntryTyped(q, cache) /\ DOMAIN cache = Queries
    BY DEF Typed, CacheOK
  <2>2. CASE q = "task"
    <3> DEFINE shown == [cache[q] EXCEPT !.data = <<act.to>>, !.invalid = FALSE,
                                         !.failed = FALSE]
    <3>1. set[q] = shown
      BY <2>1, <2>2
    <3>2. /\ shown.data # <<>> /\ ~shown.invalid
          /\ shown.phase = cache[q].phase /\ shown.read = cache[q].read
      BY <2>1 DEF EntryOK, Fields
    <3> HIDE DEF shown, set
    <3> QED
      BY <2>1, <3>1, <3>2 DEF EntryTyped
  <2>3. CASE q # "task"
    <3>1. set[q] = cache[q]
      BY <2>1, <2>3
    <3> HIDE DEF set
    <3> QED
      BY <2>1, <3>1 DEF EntryTyped
  <2> QED
    BY <2>2, <2>3
<1> HIDE DEF set
<1>4. /\ CacheOK(c) /\ \A q \in Queries : EntryTyped(q, c)
      /\ \A q \in Queries : cache[q].data # <<>> => c[q].data # <<>>
  BY <1>2, <1>3 DEF Typed
<1>5. UNCHANGED <<tasks, unheard, stream, screen, Queries>>
  BY DEF Flush, ApplyUpdate, Refresh, feed
<1>6. \A q \in Queries : EntryTyped(q, cache') /\ cache'[q].data = c[q].data
  BY <1>1, <1>4, InvalidateTyped
<1>7. Loaded("task") => Loaded("task")'
  BY <1>4, <1>5, <1>6 DEF Loaded
<1>8. \A q \in Queries' : EntryTyped(q, cache)'
  BY <1>5, <1>6, <1>7, StillObserved DEF EntryTyped
<1>9. CacheOK(cache)'
  BY <1>1, <1>4, <1>5, InvalidateDoubts DEF CacheOK, EntryOK, Fields
<1>10. UnheardTyped' /\ StreamTyped'
  <2>1. CASE timer' = FALSE
    BY <1>5, <2>1 DEF Typed, UnheardTyped, StreamTyped
  <2>2. CASE timer' = timer
    BY <1>5, <2>2 DEF Typed, UnheardTyped, StreamTyped
  <2> QED
    BY <2>1, <2>2 DEF Flush, ApplyUpdate, Refresh, feed
<1>11. ActTyped'
  BY DEF Flush, ApplyUpdate, Refresh, NoAct, Typed, ActTyped
<1>12. stage' \in [Tasks -> Stages]'
  BY <1>5 DEF Typed, tasks, Stages, Lifecycle!ActiveStages, Retired
<1> QED
  BY <1>8, <1>9, <1>10, <1>11, <1>12 DEF Typed

\* Whoever leaves a page takes nothing along that was under way.
LEMMA PagesTyped ==
  ASSUME Typed, SignIn \/ SignOut \/ \E page \in {"dashboard", "detail"} : Navigate(page)
  PROVE  Typed'
<1>1. UNCHANGED <<tasks, Queries>>
  BY DEF SignIn, SignOut, Navigate
<1>2. UnheardTyped'
  BY ScreensAssumption DEF SignIn, SignOut, Navigate, Typed, UnheardTyped, feed
<1>8. StreamTyped'
  <2>1. CASE SignIn
    BY <2>1 DEF SignIn, Typed, StreamTyped
  <2>2. CASE SignOut
    BY <2>2 DEF SignOut, StreamTyped
  <2>3. CASE \E page \in {"dashboard", "detail"} : Navigate(page)
    BY <2>3 DEF Navigate, Typed, StreamTyped, feed
  <2> QED
    BY <2>1, <2>2, <2>3
<1>3. ActTyped'
  BY DEF SignIn, SignOut, Navigate, NoAct, Typed, ActTyped
<1>4. stage' \in [Tasks -> Stages]'
  BY <1>1 DEF Typed, tasks, Stages, Lifecycle!ActiveStages, Retired
<1>5. ASSUME NEW q \in Queries
      PROVE  /\ EntryOK(cache'[q]) /\ cache'[q].phase = "idle" /\ cache'[q].read = <<>>
             /\ cache'[q].invalid => cache'[q].data # <<>>
  <2>1. EntryOK(cache[q]) /\ EntryTyped(q, cache) /\ cache[q].phase \in {"idle", "sent", "back"}
    BY DEF Typed, CacheOK, EntryOK
  <2>2. CASE q \notin ObservedOn(screen) /\ cache'[q] = cache[q]
    BY <2>1, <2>2 DEF EntryTyped
  <2>3. CASE cache'[q] = Unobserved(cache[q])
    <3>1. Unobserved(cache[q]).read = <<>>
      BY <2>1 DEF Unobserved, EntryOK, Fields
    <3> QED
      BY <2>1, <2>3, <3>1, UnobservedEntry DEF EntryTyped
  <2>4. CASE cache'[q] = NoEntry
    BY <2>4, EmptyEntry DEF NoEntry
  <2>5. SignIn => q \notin ObservedOn(screen)
    BY DEF SignIn, ObservedOn
  <2> QED
    BY <2>2, <2>3, <2>4, <2>5 DEF SignIn, SignOut, Navigate
<1>6. \A q \in Queries' : EntryTyped(q, cache)'
  BY <1>1, <1>5 DEF EntryTyped
<1>7. CacheOK(cache)'
  BY <1>1, <1>5 DEF SignIn, SignOut, Navigate, Typed, CacheOK, EntryOK, Fields
<1> QED
  BY <1>2, <1>3, <1>4, <1>6, <1>7, <1>8 DEF Typed

LEMMA ActsTyped ==
  ASSUME Typed,
         \/ OpenConfirm \/ CloseConfirm \/ \E kind \in {"cancel", "retry", "collect"} : SendAct(kind)
         \/ RefuseAct \/ LoseAct \/ ShowConflict \/ UNCHANGED vars
  PROVE  Typed'
<1>1. UNCHANGED <<tasks, feed, screen, cache, Queries>>
  BY DEF OpenConfirm, CloseConfirm, SendAct, RefuseAct, LoseAct, ShowConflict, vars
<1>2. ActTyped'
  <2>1. CASE ShowConflict
    BY <2>1 DEF ShowConflict, NoAct, Typed, ActTyped
  <2>2. CASE OpenConfirm \/ RefuseAct
    BY <2>2 DEF OpenConfirm, RefuseAct, NoAct, ActTyped
  <2>4. CASE CloseConfirm \/ LoseAct
    BY <2>4 DEF CloseConfirm, LoseAct, NoAct, ActTyped
  <2>3. CASE \E kind \in {"cancel", "retry", "collect"} : SendAct(kind)
    BY <2>3 DEF SendAct, NoAct, ActTyped
  <2> QED
    BY <2>1, <2>2, <2>3, <2>4 DEF vars, Typed, ActTyped
<1> QED
  BY <1>1, <1>2, CacheStaysTyped DEF Typed, UnheardTyped, StreamTyped, tasks, feed

LEMMA TypedInitially == Init => Typed
<1> SUFFICES ASSUME Init PROVE Typed
  OBVIOUS
<1>1. stage \in [Tasks -> Stages]
  BY DEF Init, Lifecycle!Init, Stages
<1>2. UnheardTyped
  BY ScreensAssumption DEF Init, UnheardTyped
<1>5. StreamTyped
  BY DEF Init, StreamTyped
<1>4. ActTyped
  BY DEF Init, ActTyped, NoAct
<1>3. CacheOK(cache) /\ \A q \in Queries : EntryTyped(q, cache)
  BY EmptyCache DEF Init, EntryTyped, NoEntry
<1> QED
  BY <1>1, <1>2, <1>3, <1>4, <1>5 DEF Typed

\* Reads are under way for the page on display only, an answer that is back was
\* read, nothing is stale that was never loaded, and a browser that is signed
\* out has no stream, no timer and no event on its way.
THEOREM TypeCorrect == Spec => []TypeOK
<1>1. Typed /\ [Next]_vars => Typed'
  BY TasksTyped, StreamStepTyped, FetchTyped, InvalidationTyped, PagesTyped, ActsTyped DEF Next, Act
<1> QED
  BY TypedInitially, <1>1, TypedIsTypeOK, PTL DEF Spec

=============================================================================
