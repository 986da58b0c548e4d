------------------------------ MODULE EventStream ------------------------------
(***************************************************************************)
(* How one user's task events reach one client: event rows written by      *)
(* concurrent transactions (repository.ts), the in-process bus they are    *)
(* published on after the commit (runner.ts, events.ts), and GET /events   *)
(* (task.routes.ts), which replays from a cursor and then goes live.       *)
(*                                                                         *)
(* An event's id is taken from a sequence by its INSERT, so ids are in the *)
(* order of the inserts, not of the commits or of the publications.  The   *)
(* client reconnects with the id of the last frame it received.            *)
(*                                                                         *)
(* An operator right before the one it resembles is a mutated form of it,  *)
(* named for the mistake it makes; no other definition uses it.            *)
(***************************************************************************)
EXTENDS Naturals, Sequences, FiniteSets

CONSTANTS
  MaxEvent,     \* bound on the ids taken from the sequence
  FirstCursors, \* the `since` a client may have: 0 for all, or past the end
  ReplayLimit,  \* DEFAULT_EVENT_LIMIT
  MaxDrops      \* bound on lost connections and crashes together

ASSUME StreamAssumption ==
  /\ MaxEvent \in Nat
  /\ FirstCursors \subseteq {0, MaxEvent + 1}
  /\ ReplayLimit \in Nat \ {0}
  /\ MaxDrops \in Nat

Events == 1 .. MaxEvent

VARIABLES
  state,      \* how far the transaction of each event is
  overtaken,  \* history: events that a later id was taken beside
  listening,  \* history: the client asks for events from now on
  owed,       \* history: events the client has asked to be told of
  received,   \* history: events the client was told of
  cursor      \* what the client's next request asks to start after
VARIABLES
  skipped,    \* history: events the cursor or the limit of a replay passed over
  conn,       \* the request: closed, replaying, queried or live
  buffered,   \* what the subscription has collected before going live
  replayed,   \* the rows the replay query found
  sent,       \* the frames written to this connection
  got,        \* how many of them have arrived
  drops       \* connections lost so far

writerVars == <<state, overtaken, owed>>
clientVars == <<listening, received, cursor>>
connVars == <<skipped, conn, buffered, replayed, sent, got>>
vars == <<writerVars, clientVars, connVars, drops>>

Committed == {e \in Events : state[e] \in {"committed", "published", "lost"}}
InProgress == {e \in Events : state[e] \in {"open", "committed"}}

\* The events that are committed and of which no process still has news.
Settled == {e \in Events : state[e] \in {"published", "lost"}}

Frames(s) == {s[i] : i \in DOMAIN s}

\* The members of a set of numbers in ascending order, and the elements of a
\* sequence that are not in a set, in theirs; by ranks, not by recursion.
Rank(e, S) == Cardinality({d \in S : d <= e})
Ascending(S) == [n \in 1 .. Cardinality(S) |-> CHOOSE e \in S : Rank(e, S) = n]
Without(s, S) ==
  LET kept == Ascending({i \in DOMAIN s : s[i] \notin S})
  IN [n \in DOMAIN kept |-> s[kept[n]]]

\* Number.MAX_SAFE_INTEGER, until a frame replaces it.
PastEnd == cursor > MaxEvent

TypeOK ==
  /\ state \in [Events -> {"none", "open", "committed", "published", "lost", "aborted"}]
  /\ overtaken \subseteq Events
  /\ owed \subseteq Events
  /\ skipped \subseteq Events
  /\ listening \in BOOLEAN
  /\ received \subseteq Committed
  /\ cursor \in 0 .. MaxEvent + 1
  /\ conn \in {"closed", "replaying", "queried", "live"}
  /\ Frames(buffered) \cup Frames(replayed) \cup Frames(sent) \subseteq Committed
  /\ got \in 0 .. Len(sent)
  /\ drops \in 0 .. MaxDrops

Init ==
  /\ state = [e \in Events |-> "none"]
  /\ overtaken = {}
  /\ owed = {}
  /\ cursor \in FirstCursors
  /\ listening = (cursor = 0)
  /\ received = {}
  /\ skipped = {}
  /\ conn = "closed"
  /\ buffered = <<>>
  /\ replayed = <<>>
  /\ sent = <<>>
  /\ got = 0
  /\ drops = 0

-----------------------------------------------------------------------------
(* The writers. *)

\* insertEvent, in a transaction of its own or of transition().
Insert(e) ==
  /\ state[e] = "none"
  /\ \A d \in Events : d < e => state[d] # "none"
  /\ state' = [state EXCEPT ![e] = "open"]
  /\ overtaken' = overtaken \cup InProgress
  /\ owed' = IF listening THEN owed \cup {e} ELSE owed
  /\ UNCHANGED <<clientVars, connVars, drops>>

\* The transaction ends; its writer has yet to hear of it.
Ends(e, to) ==
  /\ state[e] = "open"
  /\ state' = [state EXCEPT ![e] = to]
  /\ UNCHANGED <<overtaken, owed, clientVars, connVars, drops>>

Commit(e) == Ends(e, "committed")
Abort(e) == Ends(e, "aborted")

PublishToLive(e) ==
  /\ state[e] = "committed"
  /\ state' = [state EXCEPT ![e] = "published"]
  /\ sent' = IF conn = "live" THEN Append(sent, e) ELSE sent
  /\ skipped' = IF conn = "closed" /\ PastEnd THEN skipped \cup {e} ELSE skipped
  /\ UNCHANGED <<overtaken, owed, clientVars, conn, buffered, replayed, got, drops>>

\* publish(), and the subscriber it calls before it returns.
Publish(e) ==
  /\ state[e] = "committed"
  /\ state' = [state EXCEPT ![e] = "published"]
  /\ sent' = IF conn = "live" THEN Append(sent, e) ELSE sent
  /\ buffered' = IF conn \in {"replaying", "queried"} THEN Append(buffered, e)
                 ELSE buffered
  /\ skipped' = IF conn = "closed" /\ PastEnd THEN skipped \cup {e} ELSE skipped
  /\ UNCHANGED <<overtaken, owed, clientVars, conn, replayed, got, drops>>

-----------------------------------------------------------------------------
(* The request. *)

\* readCursor, and the subscription before the replay.  A client that starts
\* past the end asks for nothing older than its first connection.
Connect ==
  /\ conn = "closed"
  /\ conn' = "replaying"
  /\ listening' = TRUE
  /\ UNCHANGED <<writerVars, received, cursor, skipped, buffered, replayed, sent, got, drops>>

\* eventsSince(cursor) runs: the oldest rows after the cursor, up to a limit.
Query ==
  LET rows == {e \in Committed : e > cursor}
      oldest == {e \in rows : Rank(e, rows) <= ReplayLimit}
  IN /\ conn = "replaying"
     /\ conn' = "queried"
     /\ replayed' = Ascending(oldest)
     /\ skipped' = skipped \cup (rows \ oldest)
     /\ UNCHANGED <<writerVars, clientVars, buffered, sent, got, drops>>

ReplyDroppingBuffer ==
  /\ conn = "queried"
  /\ conn' = "live"
  /\ sent' = sent \o replayed
  /\ buffered' = <<>>
  /\ replayed' = <<>>
  /\ UNCHANGED <<writerVars, clientVars, skipped, got, drops>>

ReplyTwice ==
  /\ conn = "queried"
  /\ conn' = "live"
  /\ sent' = sent \o replayed \o buffered
  /\ buffered' = <<>>
  /\ replayed' = <<>>
  /\ UNCHANGED <<writerVars, clientVars, skipped, got, drops>>

\* The rest of the handler has no await: replay, flush, go live, forget.
Reply ==
  /\ conn = "queried"
  /\ conn' = "live"
  /\ sent' = sent \o replayed \o Without(buffered, Frames(replayed))
  /\ buffered' = <<>>
  /\ replayed' = <<>>
  /\ UNCHANGED <<writerVars, clientVars, skipped, got, drops>>

\* The client receives a frame, whose id becomes its Last-Event-ID.
Receive ==
  /\ got < Len(sent)
  /\ got' = got + 1
  /\ received' = received \cup {sent[got + 1]}
  /\ cursor' = sent[got + 1]
  /\ UNCHANGED <<writerVars, listening, skipped, conn, buffered, replayed, sent, drops>>

ForgetFrames ==
  /\ conn' = "closed"
  /\ buffered' = <<>>
  /\ replayed' = <<>>
  /\ sent' = <<>>
  /\ UNCHANGED <<skipped, got>>

\* onClose: the subscription ends, and frames on their way are lost.  Who has
\* not received one cannot ask for what it waited for again.
Forget ==
  /\ conn' = "closed"
  /\ buffered' = <<>>
  /\ replayed' = <<>>
  /\ sent' = <<>>
  /\ got' = 0
  /\ skipped' = IF PastEnd THEN skipped \cup (owed \cap Settled') ELSE skipped

Disconnect ==
  /\ conn # "closed"
  /\ drops < MaxDrops
  /\ drops' = drops + 1
  /\ UNCHANGED <<writerVars, clientVars>>
  /\ Forget

\* The process dies: its transactions roll back, and what it had committed
\* and not yet published never will be.
Crash ==
  /\ drops < MaxDrops
  /\ drops' = drops + 1
  /\ state' = [e \in Events |-> IF state[e] = "open" THEN "aborted"
                                ELSE IF state[e] = "committed" THEN "lost"
                                ELSE state[e]]
  /\ UNCHANGED <<overtaken, owed, clientVars>>
  /\ Forget

-----------------------------------------------------------------------------
Next ==
  \/ \E e \in Events : Insert(e) \/ Commit(e) \/ Abort(e) \/ Publish(e)
  \/ Connect \/ Query \/ Reply \/ Receive \/ Disconnect \/ Crash

Spec == Init /\ [][Next]_vars

\* Transactions end, the database answers, frames arrive, and the client
\* connects again whenever its connection is lost.
FairSpec ==
  /\ Spec
  /\ \A e \in Events : WF_vars(Commit(e) \/ Abort(e)) /\ WF_vars(Publish(e))
  /\ WF_vars(Connect) /\ WF_vars(Query) /\ WF_vars(Reply) /\ WF_vars(Receive)

-----------------------------------------------------------------------------
\* What the client has been told, or will be if the connection holds.
Told == received \cup Frames(sent)

\* A stream that is live has left nothing out of what its client asked for,
\* through any number of lost connections and crashes, save events that were
\* being written side by side, that a replay cut off at its limit, or that a
\* client lost which had not received a frame to reconnect with.
NothingLeftOut ==
  conn = "live" => (owed \cap Settled) \ (overtaken \cup skipped) \subseteq Told

\* Going live sends no frame twice, whatever was published while the replay
\* was read.
HandoverSendsOnce ==
  [][conn # "live" /\ conn' = "live" =>
       \A i, j \in DOMAIN sent' : sent'[i] = sent'[j] => i = j]_vars

\* Once connections stop being lost, the client hears of every such event.
EventsArrive ==
  \A e \in Events :
    (e \in owed \cap Settled /\ e \notin overtaken) ~> (e \in received \cup skipped)

\* task.routes.ts:301-303: a client that reconnects with the last id it saw
\* "receives exactly what it missed".
ReceivesWhatItMissed == conn = "live" => owed \cap Settled \subseteq Told

\* useTaskEvents.tsx:89-90: starting past the end suppresses only the replay;
\* "nothing missed during a blip is lost".
BlipLosesNothing ==
  conn = "live" /\ drops > 0 => (owed \cap Settled) \ overtaken \subseteq Told

=============================================================================
