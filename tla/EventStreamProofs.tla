--------------------------- MODULE EventStreamProofs ---------------------------
(***************************************************************************)
(* A live stream has left nothing out, and going live repeats nothing, for *)
(* any number of events, any limit of the replay and any number of lost    *)
(* connections.                                                            *)
(***************************************************************************)
EXTENDS EventStream, FiniteSetTheorems, TLAPS

\* What the client must have heard of once its stream is live.
Due == (owed \cap Settled) \ (overtaken \cup skipped)

\* What its next replay, or the one under way, asks for.
Asked == {e \in Events : cursor < e}

\* What is on its way to the client, on this connection or by the next replay.
Coming ==
  Frames(sent) \cup Frames(replayed) \cup Frames(buffered)
    \cup (IF conn \in {"closed", "replaying"} THEN Asked ELSE {})

\* No frame runs ahead of an earlier event of D, unless that is known otherwise.
InOrder(s, D, known) ==
  \A j \in DOMAIN s : \A e \in D :
    e < s[j] => e \in known \/ \E i \in DOMAIN s : i < j /\ s[i] = e

Once(s) == \A i, j \in DOMAIN s : s[i] = s[j] => i = j

\* An id that was not overtaken was out of its writer's hands before the next
\* id was taken.
WritersInOrder ==
  \A e, f \in Events :
    e < f /\ state[f] # "none" /\ e \notin overtaken =>
      state[e] \in {"published", "lost", "aborted"}

\* What each phase of the connection has collected.
ConnectionOK ==
  /\ sent \in Seq(Events) /\ replayed \in Seq(Events) /\ buffered \in Seq(Events)
  /\ conn # "live" => sent = <<>>
  /\ conn # "queried" => replayed = <<>>
  /\ conn \in {"closed", "live"} => buffered = <<>>
  /\ Once(replayed) /\ Once(buffered)
  /\ \A i \in DOMAIN buffered : state[buffered[i]] = "published"

\* What the client has received is closed downwards, and its cursor is in it.
ClientOK ==
  /\ \A i \in DOMAIN sent : i <= got => sent[i] \in received
  /\ cursor = 0 \/ PastEnd \/ cursor \in received
  /\ \A f \in received, e \in Due : e < f => e \in received
  /\ conn = "closed" /\ PastEnd => owed \cap Settled \subseteq skipped

\* So is what it will have received, frame by frame.
FramesInOrder ==
  /\ InOrder(sent, Due, received)
  /\ InOrder(replayed, Due, received)
  /\ InOrder(buffered, Due, received \cup Frames(replayed)
                              \cup (IF conn = "replaying" THEN Asked ELSE {}))

StreamInv ==
  /\ WritersInOrder
  /\ ClientOK
  /\ FramesInOrder
  /\ Due \subseteq received \cup Coming

-----------------------------------------------------------------------------
(* Ranks and what is built from them. *)

LEMMA RankRange ==
  ASSUME NEW S \in SUBSET Nat, IsFiniteSet(S), NEW e \in S
  PROVE  Rank(e, S) \in 1 .. Cardinality(S)
<1> DEFINE below == {d \in S : d <= e}
<1>1. IsFiniteSet(below) /\ Cardinality(below) <= Cardinality(S)
  BY FS_Subset
<1>2. Cardinality(below) \in Nat /\ Cardinality(S) \in Nat
  BY <1>1, FS_CardinalityType
<1>3. e \in below
  OBVIOUS
<1>4. Cardinality(below) # 0
  BY <1>1, <1>3, FS_EmptySet
<1> QED
  BY <1>1, <1>2, <1>4 DEF Rank

LEMMA RankGrows ==
  ASSUME NEW S \in SUBSET Nat, IsFiniteSet(S), NEW e \in S, NEW f \in S, e < f
  PROVE  Rank(e, S) < Rank(f, S)
<1> DEFINE low == {d \in S : d <= e}
           high == {d \in S : d <= f}
<1>1. low \in SUBSET high /\ f \in high /\ f \notin low
  <2>1. e \in Nat /\ f \in Nat
    OBVIOUS
  <2>2. ASSUME NEW d \in S, d <= e PROVE d <= f
    <3>1. d \in Nat
      OBVIOUS
    <3> QED
      BY <2>1, <2>2, <3>1
  <2>3. low \in SUBSET high
    BY <2>2
  <2> QED
    BY <2>1, <2>3
<1>2. IsFiniteSet(high)
  BY FS_Subset
<1>3. Cardinality(low) \in Nat /\ Cardinality(high) \in Nat
  BY <1>1, <1>2, FS_Subset, FS_CardinalityType
<1>4. Cardinality(low) <= Cardinality(high) /\ Cardinality(low) # Cardinality(high)
  BY <1>1, <1>2, FS_Subset
<1> QED
  BY <1>3, <1>4 DEF Rank

\* Every rank is somebody's: there are as many of them as elements.
LEMMA RankTaken ==
  ASSUME NEW S \in SUBSET Nat, IsFiniteSet(S), NEW n \in 1 .. Cardinality(S)
  PROVE  \E e \in S : Rank(e, S) = n
<1> DEFINE r == [e \in S |-> Rank(e, S)]
           T == 1 .. Cardinality(S)
<1>1. Cardinality(S) \in Nat
  BY FS_CardinalityType
<1>2. IsFiniteSet(T) /\ Cardinality(T) = Cardinality(S)
  BY <1>1, FS_Interval
<1>3. r \in [S -> T]
  BY RankRange
<1>4. \A e, f \in S : e # f => r[e] # r[f]
  <2> SUFFICES ASSUME NEW e \in S, NEW f \in S, e # f PROVE Rank(e, S) # Rank(f, S)
    OBVIOUS
  <2>1. e < f \/ f < e
    OBVIOUS
  <2>2. Rank(e, S) \in Nat /\ Rank(f, S) \in Nat
    BY RankRange
  <2> QED
    BY <2>1, <2>2, RankGrows
<1>5. r \in Injection(S, T)
  BY <1>3, <1>4 DEF Injection, IsInjective
<1>6. r \in Surjection(S, T)
  BY <1>2, <1>5, FS_Injection
<1> QED
  BY <1>6 DEF Surjection

LEMMA AscendingSet ==
  ASSUME NEW S \in SUBSET Nat, IsFiniteSet(S)
  PROVE  /\ Ascending(S) \in Seq(S)
         /\ DOMAIN Ascending(S) = 1 .. Cardinality(S)
         /\ \A e \in S : \E i \in DOMAIN Ascending(S) : Ascending(S)[i] = e
         /\ \A i, j \in DOMAIN Ascending(S) : i < j => Ascending(S)[i] < Ascending(S)[j]
<1> DEFINE s == Ascending(S)
<1>1. Cardinality(S) \in Nat /\ DOMAIN s = 1 .. Cardinality(S)
  BY FS_CardinalityType DEF Ascending
<1>2. ASSUME NEW n \in DOMAIN s PROVE s[n] \in S /\ Rank(s[n], S) = n
  BY <1>1, <1>2, RankTaken DEF Ascending
<1>3. s \in Seq(S)
  BY <1>1, <1>2 DEF Ascending
<1>4. ASSUME NEW e \in S, NEW f \in S, Rank(e, S) = Rank(f, S) PROVE e = f
  <2>1. Rank(e, S) \in Nat /\ e \in Nat /\ f \in Nat
    BY RankRange
  <2> QED
    BY <1>4, <2>1, RankGrows
<1>5. ASSUME NEW e \in S PROVE Rank(e, S) \in DOMAIN s /\ s[Rank(e, S)] = e
  BY <1>1, <1>2, <1>4, RankRange
<1>6. ASSUME NEW i \in DOMAIN s, NEW j \in DOMAIN s, i < j PROVE s[i] < s[j]
  <2>1. s[i] \in S /\ s[j] \in S /\ Rank(s[i], S) = i /\ Rank(s[j], S) = j
    BY <1>2
  <2>2. i \in Nat /\ j \in Nat /\ s[i] \in Nat /\ s[j] \in Nat
    <3> HIDE DEF s
    <3>1. i \in Nat /\ j \in Nat
      BY <1>1
    <3>2. s[i] \in Nat /\ s[j] \in Nat
      BY <2>1
    <3> QED
      BY <3>1, <3>2
  <2>3. s[i] # s[j]
    BY <1>6, <2>1, <2>2
  <2>4. ~ s[j] < s[i]
    BY <1>6, <2>1, <2>2, RankGrows
  <2> QED
    BY <2>2, <2>3, <2>4
<1> QED
  BY <1>1, <1>3, <1>5, <1>6

\* What is left of a sequence is in its order.
LEMMA WithoutSet ==
  ASSUME NEW T, NEW s \in Seq(T), NEW S
  PROVE  /\ Without(s, S) \in Seq(T)
         /\ \A m \in DOMAIN Without(s, S) :
              \E j \in DOMAIN s :
                /\ s[j] \notin S /\ Without(s, S)[m] = s[j]
                /\ \A i \in DOMAIN s : i < j /\ s[i] \notin S =>
                     \E n \in DOMAIN Without(s, S) : n < m /\ Without(s, S)[n] = s[i]
         /\ Frames(s) \subseteq S \cup Frames(Without(s, S))
         /\ Once(s) => Once(Without(s, S))
<1> DEFINE I == {i \in DOMAIN s : s[i] \notin S}
           kept == Ascending(I)
           w == Without(s, S)
<1>1. DOMAIN s = 1 .. Len(s) /\ Len(s) \in Nat
  OBVIOUS
<1>2. I \in SUBSET Nat /\ IsFiniteSet(I)
  <2>1. IsFiniteSet(1 .. Len(s))
    BY <1>1, FS_Interval
  <2>2. I \in SUBSET (1 .. Len(s))
    BY <1>1
  <2> QED
    BY <2>1, <2>2, FS_Subset
<1>3. /\ kept \in Seq(I) /\ Cardinality(I) \in Nat
      /\ DOMAIN kept = 1 .. Cardinality(I)
  BY <1>2, AscendingSet, FS_CardinalityType
<1>4. \A e \in I : \E i \in DOMAIN kept : kept[i] = e
  BY <1>2, AscendingSet
<1>5. \A i, j \in DOMAIN kept : i < j => kept[i] < kept[j]
  BY <1>2, AscendingSet
<1>6. w = [n \in DOMAIN kept |-> s[kept[n]]]
  BY DEF Without
<1> HIDE DEF kept, w
<1>7. \A n \in DOMAIN kept : n \in Nat /\ kept[n] \in I /\ kept[n] \in Nat
  BY <1>1, <1>3
<1>8. DOMAIN w = DOMAIN kept /\ \A n \in DOMAIN w : w[n] \in T
  BY <1>6, <1>7
<1>9. w \in Seq(T)
  <2> HIDE DEF I
  <2>1. w \in [1 .. Cardinality(I) -> T]
    BY <1>3, <1>6, <1>8
  <2> QED
    BY <1>3, <2>1
<1>10. ASSUME NEW i \in DOMAIN kept, NEW j \in DOMAIN kept, kept[i] < kept[j]
       PROVE  i < j
  <2>1. i \in Nat /\ j \in Nat /\ kept[i] \in Nat /\ kept[j] \in Nat
    BY <1>7
  <2>2. CASE j < i
    <3>1. kept[j] < kept[i]
      BY <1>5, <2>2
    <3> QED
      BY <1>10, <2>1, <3>1
  <2>3. CASE i = j
    BY <1>10, <2>1, <2>3
  <2> QED
    BY <2>1, <2>2, <2>3
<1>11. ASSUME NEW m \in DOMAIN w
      PROVE  \E j \in DOMAIN s :
               /\ s[j] \notin S /\ w[m] = s[j]
               /\ \A i \in DOMAIN s : i < j /\ s[i] \notin S =>
                    \E n \in DOMAIN w : n < m /\ w[n] = s[i]
  <2>1. kept[m] \in I /\ w[m] = s[kept[m]]
    BY <1>6, <1>7, <1>8
  <2>2. ASSUME NEW i \in DOMAIN s, i < kept[m], s[i] \notin S
        PROVE  \E n \in DOMAIN w : n < m /\ w[n] = s[i]
    <3>1. PICK n \in DOMAIN kept : kept[n] = i
      BY <1>4, <2>2
    <3>2. n < m
      BY <1>8, <1>10, <2>2, <3>1
    <3> QED
      BY <1>6, <1>8, <3>1, <3>2
  <2> QED
    BY <2>1, <2>2
<1>12. ASSUME NEW j \in DOMAIN s, s[j] \notin S
       PROVE  \E m \in DOMAIN w : w[m] = s[j]
  BY <1>4, <1>6, <1>8, <1>12
<1>13. Frames(s) \subseteq S \cup Frames(w)
  BY <1>12 DEF Frames
<1>14. ASSUME Once(s), NEW i \in DOMAIN w, NEW j \in DOMAIN w, w[i] = w[j]
       PROVE  i = j
  <2>1. kept[i] \in I /\ kept[j] \in I /\ s[kept[i]] = s[kept[j]]
    BY <1>6, <1>7, <1>8, <1>14
  <2>2. kept[i] = kept[j] /\ i \in Nat /\ j \in Nat /\ kept[i] \in Nat
    BY <1>7, <1>8, <1>14, <2>1 DEF Once
  <2>3. i < j \/ j < i \/ i = j
    BY <2>2
  <2>4. ASSUME i < j PROVE FALSE
    BY <1>5, <1>8, <2>2, <2>4
  <2>5. ASSUME j < i PROVE FALSE
    BY <1>5, <1>8, <2>2, <2>5
  <2> QED
    BY <2>3, <2>4, <2>5
<1> QED
  BY <1>9, <1>11, <1>13, <1>14 DEF w, Once

LEMMA ConcatFrames ==
  ASSUME NEW T, NEW s \in Seq(T), NEW t \in Seq(T)
  PROVE  /\ s \o t \in Seq(T)
         /\ Frames(s \o t) = Frames(s) \cup Frames(t)
<1>1. /\ s \o t \in Seq(T) /\ Len(s \o t) = Len(s) + Len(t)
      /\ \A i \in 1 .. Len(s) : (s \o t)[i] = s[i]
      /\ \A i \in 1 .. Len(t) : (s \o t)[Len(s) + i] = t[i]
  OBVIOUS
<1>2. /\ DOMAIN s = 1 .. Len(s) /\ DOMAIN t = 1 .. Len(t)
      /\ DOMAIN (s \o t) = 1 .. Len(s) + Len(t)
      /\ Len(s) \in Nat /\ Len(t) \in Nat
  BY <1>1
<1>3. ASSUME NEW i \in DOMAIN (s \o t)
      PROVE  (s \o t)[i] \in Frames(s) \cup Frames(t)
  <2>1. CASE i <= Len(s)
    BY <1>1, <1>2, <2>1 DEF Frames
  <2>2. CASE i > Len(s)
    <3>1. i - Len(s) \in 1 .. Len(t) /\ i = Len(s) + (i - Len(s))
      BY <1>2, <2>2
    <3> QED
      BY <1>1, <1>2, <3>1 DEF Frames
  <2> QED
    BY <1>2, <2>1, <2>2
<1>4. ASSUME NEW i \in DOMAIN s PROVE s[i] \in Frames(s \o t)
  <2>1. i \in DOMAIN (s \o t) /\ (s \o t)[i] = s[i]
    BY <1>1, <1>2
  <2> QED
    BY <2>1 DEF Frames
<1>5. ASSUME NEW i \in DOMAIN t PROVE t[i] \in Frames(s \o t)
  <2>1. Len(s) + i \in DOMAIN (s \o t) /\ (s \o t)[Len(s) + i] = t[i]
    BY <1>1, <1>2
  <2> QED
    BY <2>1 DEF Frames
<1> QED
  BY <1>1, <1>3, <1>4, <1>5 DEF Frames

LEMMA AppendFrames ==
  ASSUME NEW T, NEW s \in Seq(T), NEW e \in T
  PROVE  /\ Append(s, e) \in Seq(T) /\ Len(Append(s, e)) = Len(s) + 1
         /\ Frames(Append(s, e)) = Frames(s) \cup {e}
         /\ \A i \in DOMAIN s : i \in DOMAIN Append(s, e) /\ Append(s, e)[i] = s[i]
         /\ \A i \in DOMAIN Append(s, e) : i \in DOMAIN s \/ i = Len(s) + 1
         /\ Append(s, e)[Len(s) + 1] = e
<1>1. /\ Append(s, e) \in Seq(T) /\ Len(Append(s, e)) = Len(s) + 1
      /\ \A i \in 1 .. Len(s) : Append(s, e)[i] = s[i]
      /\ Append(s, e)[Len(s) + 1] = e
  OBVIOUS
<1>2. /\ DOMAIN s = 1 .. Len(s) /\ DOMAIN Append(s, e) = 1 .. Len(s) + 1
      /\ Len(s) \in Nat
  BY <1>1
<1>3. /\ \A i \in DOMAIN s : i \in DOMAIN Append(s, e) /\ Append(s, e)[i] = s[i]
      /\ \A i \in DOMAIN Append(s, e) : i \in DOMAIN s \/ i = Len(s) + 1
      /\ Len(s) + 1 \in DOMAIN Append(s, e)
  BY <1>1, <1>2
<1> QED
  BY <1>1, <1>3 DEF Frames

-----------------------------------------------------------------------------
(* Types, and what each phase has collected. *)

Over == {"published", "lost", "aborted"}

\* A transaction only moves on, and what is over stays as it is.
LEMMA StateMovesOn ==
  ASSUME TypeOK, [Next]_vars, NEW e \in Events
  PROVE  /\ state[e] \in Over => state'[e] = state[e]
         /\ state[e] = "committed" => state'[e] \in {"committed", "published", "lost"}
         /\ e \in Committed => e \in Committed'
         /\ state[e] # "none" => state'[e] # "none"
<1> USE DEF TypeOK, Over, Committed
<1>1. CASE \E d \in Events : Insert(d) \/ Commit(d) \/ Abort(d) \/ Publish(d)
  BY <1>1 DEF Insert, Commit, Abort, Ends, Publish
<1>2. CASE Crash
  BY <1>2 DEF Crash
<1>3. CASE UNCHANGED state
  BY <1>3
<1> QED
  BY <1>1, <1>2, <1>3
     DEF Next, Connect, Query, Reply, Receive, Disconnect, vars, writerVars

LEMMA EventsAreFinite == Events \in SUBSET Nat /\ IsFiniteSet(Events)
  BY StreamAssumption, FS_Interval DEF Events

\* The rows of a replay, in order and within the limit.
LEMMA QueryRows ==
  ASSUME TypeOK, Query
  PROVE  LET rows == {e \in Committed : e > cursor}
         IN /\ replayed' \in Seq(Events) /\ Frames(replayed') \subseteq rows
            /\ Once(replayed')
            /\ rows \subseteq Frames(replayed') \cup skipped'
            /\ \A j \in DOMAIN replayed', e \in rows : e < replayed'[j] =>
                 \E i \in DOMAIN replayed' : i < j /\ replayed'[i] = e
<1> DEFINE rows == {e \in Committed : e > cursor}
           oldest == {e \in rows : Rank(e, rows) <= ReplayLimit}
<1>1. rows \in SUBSET Nat /\ IsFiniteSet(rows) /\ rows \subseteq Events
  <2>1. rows \in SUBSET Events
    BY DEF Committed
  <2> QED
    BY <2>1, EventsAreFinite, FS_Subset
<1>2. oldest \in SUBSET Nat /\ IsFiniteSet(oldest) /\ oldest \subseteq rows
  <2>1. oldest \in SUBSET rows
    OBVIOUS
  <2> QED
    BY <1>1, <2>1, FS_Subset
<1>3. replayed' = Ascending(oldest) /\ skipped' = skipped \cup (rows \ oldest)
  BY DEF Query
<1>4. /\ replayed' \in Seq(oldest)
      /\ \A e \in oldest : \E i \in DOMAIN replayed' : replayed'[i] = e
      /\ DOMAIN replayed' \subseteq Nat
  <2>1. Cardinality(oldest) \in Nat
    BY <1>2, FS_CardinalityType
  <2> HIDE DEF oldest
  <2> QED
    BY <1>2, <1>3, <2>1, AscendingSet
<1>5. \A i, j \in DOMAIN replayed' : i < j => replayed'[i] < replayed'[j]
  BY <1>2, <1>3, AscendingSet
<1>6. ASSUME NEW e \in rows, NEW f \in oldest, e < f PROVE e \in oldest
  <2>1. Rank(e, rows) < Rank(f, rows) /\ Rank(f, rows) <= ReplayLimit
    BY <1>1, <1>6, RankGrows
  <2>2. Rank(e, rows) \in Nat /\ Rank(f, rows) \in Nat /\ ReplayLimit \in Nat
    <3> HIDE DEF rows
    <3>1. Cardinality(rows) \in Nat
      BY <1>1, FS_CardinalityType
    <3>2. f \in rows
      OBVIOUS
    <3> QED
      BY <1>1, <3>1, <3>2, RankRange, StreamAssumption
  <2> QED
    BY <2>1, <2>2
<1> HIDE DEF rows, oldest
<1>7. \A i \in DOMAIN replayed' : replayed'[i] \in oldest /\ replayed'[i] \in Nat /\ i \in Nat
  <2>1. \A i \in DOMAIN replayed' : replayed'[i] \in oldest
    BY <1>4
  <2> QED
    BY <1>2, <1>4, <2>1
<1>8. replayed' \in Seq(Events)
  <2>1. oldest \subseteq Events
    BY <1>1, <1>2
  <2>2. replayed' \in [1 .. Len(replayed') -> Events] /\ Len(replayed') \in Nat
    BY <1>4, <2>1
  <2> QED
    BY <2>2
<1>9. Frames(replayed') = oldest
  BY <1>4, <1>7 DEF Frames
<1>10. ASSUME NEW i \in DOMAIN replayed', NEW j \in DOMAIN replayed',
              replayed'[i] = replayed'[j]
       PROVE  i = j
  <2>1. i < j \/ j < i \/ i = j
    BY <1>7
  <2>2. ASSUME i < j PROVE FALSE
    BY <1>5, <1>7, <1>10, <2>2
  <2>3. ASSUME j < i PROVE FALSE
    BY <1>5, <1>7, <1>10, <2>3
  <2> QED
    BY <2>1, <2>2, <2>3
<1>11. ASSUME NEW j \in DOMAIN replayed', NEW e \in rows, e < replayed'[j]
       PROVE  \E i \in DOMAIN replayed' : i < j /\ replayed'[i] = e
  <2>1. PICK i \in DOMAIN replayed' : replayed'[i] = e
    BY <1>4, <1>6, <1>7, <1>11
  <2>2. i \in Nat /\ j \in Nat /\ e \in Nat /\ replayed'[j] \in Nat
    BY <1>7, <2>1
  <2>3. ASSUME j < i PROVE FALSE
    <3>1. replayed'[j] < replayed'[i]
      BY <1>5, <2>3
    <3> QED
      BY <1>11, <2>1, <2>2, <3>1
  <2>4. i # j
    BY <1>11, <2>1, <2>2
  <2> QED
    BY <2>1, <2>2, <2>3, <2>4
<1> QED
  BY <1>2, <1>3, <1>8, <1>9, <1>10, <1>11 DEF Once, rows

TypedInv == TypeOK /\ ConnectionOK

LEMMA TypedPreserved == TypedInv /\ [Next]_vars => TypedInv'
<1> SUFFICES ASSUME TypedInv, [Next]_vars PROVE TypedInv'
  OBVIOUS
<1> USE StreamAssumption
<1>1. TypeOK /\ ConnectionOK
  BY DEF TypedInv
<1>2. Committed \subseteq Committed'
  <2>1. \A e \in Committed : e \in Events
    BY DEF Committed
  <2> QED
    BY <1>1, <2>1, StateMovesOn
<1>3. /\ Frames(buffered) \subseteq Committed /\ Frames(replayed) \subseteq Committed
      /\ Frames(sent) \subseteq Committed /\ Committed \subseteq Events
      /\ received \subseteq Committed /\ Len(sent) \in Nat
  BY <1>1 DEF TypeOK, ConnectionOK, Committed
<1>4. ASSUME NEW e \in Events, Insert(e) \/ Commit(e) \/ Abort(e) PROVE TypedInv'
  <2>1. ConnectionOK'
    <3>1. \A i \in DOMAIN buffered : state'[buffered[i]] = "published"
      <4>1. \A i \in DOMAIN buffered : buffered[i] \in Events /\ state[buffered[i]] = "published"
        BY <1>1 DEF ConnectionOK
      <4> QED
        BY <1>1, <4>1, StateMovesOn DEF Over
    <3> QED
      BY <1>1, <1>4, <3>1 DEF ConnectionOK, Insert, Commit, Abort, Ends, connVars, Once
  <2>2. TypeOK'
    <3>1. UNCHANGED <<listening, received, cursor, conn, buffered, replayed, sent, got, drops>>
      BY <1>4 DEF Insert, Commit, Abort, Ends, clientVars, connVars
    <3>2. /\ state' \in [Events -> {"none", "open", "committed", "published", "lost", "aborted"}]
          /\ overtaken' \subseteq Events /\ owed' \subseteq Events /\ skipped' \subseteq Events
      BY <1>1, <1>4 DEF TypeOK, Insert, Commit, Abort, Ends, InProgress, connVars
    <3> QED
      BY <1>1, <1>2, <1>3, <3>1, <3>2 DEF TypeOK, Frames
  <2> QED
    BY <2>1, <2>2 DEF TypedInv
<1>5. ASSUME NEW e \in Events, Publish(e) PROVE TypedInv'
  <2>1. /\ state[e] = "committed" /\ state' = [state EXCEPT ![e] = "published"]
        /\ sent' = IF conn = "live" THEN Append(sent, e) ELSE sent
        /\ buffered' = IF conn \in {"replaying", "queried"} THEN Append(buffered, e)
                       ELSE buffered
        /\ skipped' \subseteq skipped \cup {e}
        /\ UNCHANGED <<overtaken, owed, clientVars, conn, replayed, got, drops>>
    BY <1>5 DEF Publish
  <2>2. e \in Committed' /\ state'[e] = "published"
    BY <1>1, <2>1 DEF Committed, TypeOK
  <2>3. /\ sent' \in Seq(Events) /\ Frames(sent') \subseteq Committed'
        /\ got \in 0 .. Len(sent')
    <3>1. CASE conn = "live"
      BY <1>1, <1>2, <1>3, <2>1, <2>2, <3>1, AppendFrames DEF ConnectionOK, TypeOK
    <3>2. CASE conn # "live"
      BY <1>1, <1>2, <1>3, <2>1, <3>2 DEF ConnectionOK, TypeOK
    <3> QED
      BY <3>1, <3>2
  <2>4. /\ buffered' \in Seq(Events) /\ Frames(buffered') \subseteq Committed'
        /\ Once(buffered')
        /\ \A i \in DOMAIN buffered' : state'[buffered'[i]] = "published"
    <3>1. \A i \in DOMAIN buffered : /\ buffered[i] \in Events
                                     /\ state[buffered[i]] = "published"
                                     /\ state'[buffered[i]] = "published" /\ buffered[i] # e
      BY <1>1, <2>1 DEF ConnectionOK, TypeOK
    <3>2. CASE conn \in {"replaying", "queried"}
      <4>1. buffered' = Append(buffered, e) /\ buffered \in Seq(Events)
        BY <1>1, <2>1, <3>2 DEF ConnectionOK
      <4>2. Len(buffered) \in Nat
        BY <4>1
      <4>3. /\ buffered' \in Seq(Events) /\ Frames(buffered') = Frames(buffered) \cup {e}
            /\ \A i \in DOMAIN buffered : buffered'[i] = buffered[i]
            /\ \A i \in DOMAIN buffered' : i \in DOMAIN buffered \/ i = Len(buffered) + 1
            /\ buffered'[Len(buffered) + 1] = e
        BY <4>1, AppendFrames
      <4>4. \A i \in DOMAIN buffered' : state'[buffered'[i]] = "published"
        BY <2>2, <3>1, <4>3
      <4>5. Once(buffered')
        BY <1>1, <3>1, <4>3 DEF ConnectionOK, Once
      <4> QED
        BY <1>2, <1>3, <2>2, <4>3, <4>4, <4>5
    <3>3. CASE conn \notin {"replaying", "queried"}
      BY <1>1, <1>2, <1>3, <2>1, <3>1, <3>3 DEF ConnectionOK
    <3> QED
      BY <3>2, <3>3
  <2>5. ConnectionOK'
    BY <1>1, <2>1, <2>3, <2>4 DEF ConnectionOK, Once
  <2>6. TypeOK'
    <3>1. state' \in [Events -> {"none", "open", "committed", "published", "lost", "aborted"}]
      BY <1>1, <2>1 DEF TypeOK
    <3>2. Frames(replayed') \subseteq Committed'
      BY <1>2, <1>3, <2>1 DEF Frames
    <3> QED
      BY <1>1, <1>2, <1>3, <2>1, <2>3, <2>4, <3>1, <3>2 DEF TypeOK, clientVars
  <2> QED
    BY <2>5, <2>6 DEF TypedInv
<1>6. ASSUME Connect PROVE TypedInv'
  BY <1>1, <1>6
     DEF Connect, TypedInv, TypeOK, ConnectionOK, Once, Frames, Committed, writerVars
<1>7. ASSUME Query PROVE TypedInv'
  <2>1. /\ conn = "replaying" /\ conn' = "queried"
        /\ skipped' \subseteq skipped \cup Committed
        /\ UNCHANGED <<writerVars, clientVars, buffered, sent, got, drops>>
    BY <1>7 DEF Query
  <2>2. replayed' \in Seq(Events) /\ Frames(replayed') \subseteq Committed /\ Once(replayed')
    BY <1>1, <1>7, QueryRows
  <2>3. ConnectionOK'
    BY <1>1, <2>1, <2>2 DEF ConnectionOK, Once, writerVars
  <2>4. TypeOK'
    <3>1. Frames(buffered)' \subseteq Committed' /\ Frames(sent)' \subseteq Committed'
      BY <1>2, <1>3, <2>1 DEF Frames
    <3> QED
      BY <1>1, <1>2, <1>3, <2>1, <2>2, <3>1 DEF TypeOK, writerVars, clientVars
  <2> QED
    BY <2>3, <2>4 DEF TypedInv
<1>8. ASSUME Reply PROVE TypedInv'
  <2>1. /\ conn = "queried" /\ conn' = "live" /\ buffered' = <<>> /\ replayed' = <<>>
        /\ sent' = sent \o replayed \o Without(buffered, Frames(replayed))
        /\ UNCHANGED <<writerVars, clientVars, skipped, got, drops>>
    BY <1>8 DEF Reply
  <2>2. Without(buffered, Frames(replayed)) \in Seq(Events)
    BY <1>1, WithoutSet DEF ConnectionOK
  <2>3. Frames(Without(buffered, Frames(replayed))) \subseteq Frames(buffered)
    <3>1. \A m \in DOMAIN Without(buffered, Frames(replayed)) :
            \E j \in DOMAIN buffered : Without(buffered, Frames(replayed))[m] = buffered[j]
      BY <1>1, WithoutSet DEF ConnectionOK
    <3> QED
      BY <3>1 DEF Frames
  <2>4. sent = <<>> /\ sent \o replayed \in Seq(Events)
    BY <1>1, <2>1 DEF ConnectionOK
  <2>5. /\ sent' \in Seq(Events)
        /\ Frames(sent') = Frames(sent) \cup Frames(replayed)
                             \cup Frames(Without(buffered, Frames(replayed)))
    <3>1. Frames(sent \o replayed) = Frames(sent) \cup Frames(replayed)
      BY <1>1, ConcatFrames DEF ConnectionOK
    <3>2. sent' = (sent \o replayed) \o Without(buffered, Frames(replayed))
      BY <2>1
    <3> HIDE DEF Frames
    <3> QED
      BY <2>2, <2>4, <3>1, <3>2, ConcatFrames
  <2>6. got \in 0 .. Len(sent')
    BY <1>1, <2>4, <2>5 DEF TypeOK
  <2>7. ConnectionOK'
    BY <2>1, <2>5 DEF ConnectionOK, Once
  <2>8. TypeOK'
    <3>1. Frames(buffered') = {} /\ Frames(replayed') = {}
      BY <2>1 DEF Frames
    <3> QED
      BY <1>1, <1>2, <1>3, <2>1, <2>3, <2>5, <2>6, <3>1 DEF TypeOK, writerVars, clientVars
  <2> QED
    BY <2>7, <2>8 DEF TypedInv
<1>9. ASSUME Receive PROVE TypedInv'
  <2>1. /\ got < Len(sent) /\ got' = got + 1
        /\ received' = received \cup {sent[got + 1]} /\ cursor' = sent[got + 1]
        /\ UNCHANGED <<writerVars, listening, skipped, conn, buffered, replayed, sent, drops>>
    BY <1>9 DEF Receive
  <2>2. got + 1 \in DOMAIN sent /\ got' \in 0 .. Len(sent)
    BY <1>1, <1>3, <2>1 DEF TypeOK, ConnectionOK
  <2>3. sent[got + 1] \in Committed
    BY <1>3, <2>2 DEF Frames
  <2>4. cursor' \in 0 .. MaxEvent + 1
    <3>1. sent[got + 1] \in 1 .. MaxEvent
      BY <1>3, <2>3 DEF Events
    <3> QED
      BY <2>1, <3>1
  <2>5. TypeOK'
    BY <1>1, <1>2, <1>3, <2>1, <2>2, <2>3, <2>4 DEF TypeOK, Frames, writerVars
  <2>6. ConnectionOK'
    BY <1>1, <2>1 DEF ConnectionOK, Once, writerVars
  <2> QED
    BY <2>5, <2>6 DEF TypedInv
<1>10. ASSUME Disconnect \/ Crash PROVE TypedInv'
  <2>1. /\ conn' = "closed" /\ buffered' = <<>> /\ replayed' = <<>> /\ sent' = <<>>
        /\ got' = 0 /\ skipped' \subseteq skipped \cup owed
        /\ drops < MaxDrops /\ drops' = drops + 1
        /\ UNCHANGED <<overtaken, owed, clientVars>>
    BY <1>10 DEF Disconnect, Crash, Forget, writerVars
  <2>2. state' \in [Events -> {"none", "open", "committed", "published", "lost", "aborted"}]
    BY <1>1, <1>10 DEF TypeOK, Disconnect, Crash, writerVars
  <2>3. ConnectionOK'
    BY <2>1 DEF ConnectionOK, Once
  <2>4. TypeOK'
    BY <1>1, <1>2, <1>3, <2>1, <2>2 DEF TypeOK, Frames, clientVars
  <2> QED
    BY <2>3, <2>4 DEF TypedInv
<1>11. CASE UNCHANGED vars
  BY <1>1, <1>11
     DEF TypedInv, TypeOK, ConnectionOK, Once, Frames, Committed,
         vars, writerVars, clientVars, connVars
<1> QED
  BY <1>4, <1>5, <1>6, <1>7, <1>8, <1>9, <1>10, <1>11 DEF Next

LEMMA TypedAlways == Spec => []TypedInv
<1>1. Init => TypedInv
  <2> SUFFICES ASSUME Init PROVE TypedInv
    OBVIOUS
  <2>1. cursor \in 0 .. MaxEvent + 1 /\ 0 \in 0 .. MaxDrops
    BY StreamAssumption DEF Init
  <2>2. Frames(<<>>) = {}
    BY DEF Frames
  <2> QED
    BY <2>1, <2>2 DEF Init, TypedInv, TypeOK, ConnectionOK, Once
<1> QED
  BY <1>1, TypedPreserved, PTL DEF Spec

\* Rows, frames and cursors are what they should be: whatever is on its way to
\* the client was committed.
THEOREM TypeCorrect == Spec => []TypeOK
<1>1. TypedInv => TypeOK
  BY DEF TypedInv
<1> QED
  BY <1>1, TypedAlways, PTL

-----------------------------------------------------------------------------
(* The handover. *)

LEMMA ConcatOnce ==
  ASSUME NEW T, NEW s \in Seq(T), NEW t \in Seq(T), Once(s), Once(t),
         \A j \in DOMAIN t : t[j] \notin Frames(s)
  PROVE  Once(s \o t)
<1>1. /\ Len(s) \in Nat /\ Len(t) \in Nat
      /\ DOMAIN s = 1 .. Len(s) /\ DOMAIN t = 1 .. Len(t)
      /\ DOMAIN (s \o t) = 1 .. Len(s) + Len(t)
      /\ \A i \in 1 .. Len(s) : (s \o t)[i] = s[i]
      /\ \A i \in 1 .. Len(t) : (s \o t)[Len(s) + i] = t[i]
  OBVIOUS
<1>2. ASSUME NEW i \in DOMAIN (s \o t), i > Len(s)
      PROVE  /\ i - Len(s) \in DOMAIN t /\ i = Len(s) + (i - Len(s))
             /\ (s \o t)[i] = t[i - Len(s)]
  <2>1. i - Len(s) \in 1 .. Len(t) /\ i = Len(s) + (i - Len(s))
    BY <1>1, <1>2
  <2> QED
    BY <1>1, <2>1
<1>3. ASSUME NEW i \in DOMAIN (s \o t), ~ i > Len(s)
      PROVE  i \in DOMAIN s /\ (s \o t)[i] = s[i] /\ (s \o t)[i] \in Frames(s)
  BY <1>1, <1>3 DEF Frames
<1> SUFFICES ASSUME NEW i \in DOMAIN (s \o t), NEW j \in DOMAIN (s \o t),
                    (s \o t)[i] = (s \o t)[j]
             PROVE  i = j
  BY DEF Once
<1>4. CASE i > Len(s) /\ j > Len(s)
  <2>1. i - Len(s) = j - Len(s)
    BY <1>2, <1>4 DEF Once
  <2> QED
    BY <1>2, <1>4, <2>1
<1>5. CASE ~ i > Len(s) /\ ~ j > Len(s)
  BY <1>3, <1>5 DEF Once
<1>6. CASE i > Len(s) /\ ~ j > Len(s)
  BY <1>2, <1>3, <1>6
<1>7. CASE ~ i > Len(s) /\ j > Len(s)
  BY <1>2, <1>3, <1>7
<1> QED
  BY <1>4, <1>5, <1>6, <1>7

\* What was buffered and replayed is sent once.
LEMMA ReplySendsOnce ==
  ASSUME TypedInv, Reply
  PROVE  Once(sent')
<1> DEFINE w == Without(buffered, Frames(replayed))
<1>1. /\ sent = <<>> /\ replayed \in Seq(Events) /\ buffered \in Seq(Events)
      /\ Once(replayed) /\ Once(buffered)
  BY DEF TypedInv, ConnectionOK, Reply
<1>2. /\ w \in Seq(Events) /\ Once(w)
      /\ \A m \in DOMAIN w : \E j \in DOMAIN buffered :
           buffered[j] \notin Frames(replayed) /\ w[m] = buffered[j]
  BY <1>1, WithoutSet
<1>3. sent' = sent \o replayed \o w
  BY DEF Reply
<1> HIDE DEF w
<1>4. sent' = replayed \o w
  BY <1>1, <1>3
<1>5. \A m \in DOMAIN w : w[m] \notin Frames(replayed)
  BY <1>2
<1> QED
  BY <1>1, <1>2, <1>4, <1>5, ConcatOnce

\* Whatever is published while the replay is read, it is sent once.
THEOREM HandoverIsOnce == Spec => HandoverSendsOnce
<1>1. TypedInv /\ [Next]_vars =>
        [conn # "live" /\ conn' = "live" =>
           \A i, j \in DOMAIN sent' : sent'[i] = sent'[j] => i = j]_vars
  <2> SUFFICES ASSUME TypedInv, Next, conn # "live", conn' = "live"
               PROVE  \A i, j \in DOMAIN sent' : sent'[i] = sent'[j] => i = j
    OBVIOUS
  <2>1. Reply
    BY DEF Next, Insert, Commit, Abort, Ends, Publish, Connect, Query, Receive,
           Disconnect, Crash, Forget, connVars
  <2> QED
    BY <2>1, ReplySendsOnce DEF Once
<1> QED
  BY <1>1, TypedAlways, PTL DEF Spec, HandoverSendsOnce

-----------------------------------------------------------------------------
(* Nothing is left out. *)

LEMMA WritersPreserved ==
  TypeOK /\ WritersInOrder /\ [Next]_vars => WritersInOrder'
<1> SUFFICES ASSUME TypeOK, WritersInOrder, [Next]_vars,
                    NEW e \in Events, NEW f \in Events,
                    e < f, state'[f] # "none", e \notin overtaken'
             PROVE  state'[e] \in Over
  BY DEF WritersInOrder, Events, Over
<1>1. overtaken \subseteq overtaken'
  BY DEF Next, Insert, Commit, Abort, Ends, Publish, Connect, Query, Reply, Receive,
         Disconnect, Crash, vars, writerVars
<1>2. CASE state[f] # "none"
  BY <1>1, <1>2, StateMovesOn DEF WritersInOrder, Over
<1>3. CASE state[f] = "none"
  <2>1. Insert(f)
    BY <1>3 DEF Next, TypeOK, Insert, Commit, Abort, Ends, Publish, Connect, Query, Reply,
                Receive, Disconnect, Crash, vars, writerVars
  <2>2. state[e] # "none" /\ e \notin InProgress
    BY <2>1 DEF Insert
  <2>3. state[e] \in Over
    BY <2>2 DEF TypeOK, InProgress, Over
  <2> QED
    BY <2>3, StateMovesOn
<1> QED
  BY <1>2, <1>3

\* What becomes due is later than everything the client could have heard of.
LEMMA NewlyDue ==
  ASSUME TypeOK, WritersInOrder, [Next]_vars, NEW e \in Due', e \notin Due
  PROVE  /\ state[e] = "committed" /\ e \in Events
         /\ \A f \in Committed : ~ (e < f)
         /\ Crash \/ Publish(e)
<1>1. overtaken \subseteq overtaken' /\ skipped \subseteq skipped'
  BY DEF Next, Insert, Commit, Abort, Ends, Publish, Connect, Query, Reply, Receive,
         Disconnect, Crash, Forget, vars, writerVars, connVars
<1>2. e \in owed' /\ e \in Events /\ state'[e] \in {"published", "lost"}
  BY DEF Due, Settled
<1>3. e \notin overtaken /\ e \notin skipped
  BY <1>1 DEF Due
<1>4. e \in owed
  <2>1. ASSUME Insert(e) PROVE FALSE
    BY <1>2, <2>1 DEF TypeOK, Insert
  <2> QED
    BY <1>2, <2>1 DEF Next, Insert, Commit, Abort, Ends, Publish, Connect, Query, Reply,
                      Receive, Disconnect, Crash, vars, writerVars
<1>5. state[e] \notin {"published", "lost"}
  BY <1>2, <1>3, <1>4 DEF Due, Settled
<1>6. state[e] = "committed" /\ (Crash \/ Publish(e))
  BY <1>2, <1>5 DEF TypeOK, Next, Insert, Commit, Abort, Ends, Publish, Connect, Query, Reply,
         Receive, Disconnect, Crash, vars, writerVars
<1>7. \A f \in Committed : ~ (e < f)
  BY <1>2, <1>3, <1>6 DEF WritersInOrder, Committed
<1> QED
  BY <1>2, <1>6, <1>7

LEMMA InOrderKept ==
  ASSUME NEW s, NEW D, NEW E, NEW known, NEW more,
         InOrder(s, D, known), known \subseteq more,
         \A e \in E : e \in D \/ \A j \in DOMAIN s : ~ (e < s[j])
  PROVE  InOrder(s, E, more)
  BY DEF InOrder

LEMMA EmptyInOrder ==
  ASSUME NEW D, NEW known
  PROVE  InOrder(<<>>, D, known)
  BY DEF InOrder

LEMMA AppendInOrder ==
  ASSUME NEW T, NEW s \in Seq(T), NEW e \in T, NEW D, NEW known,
         InOrder(s, D, known),
         \A d \in D : d < e => d \in known \cup Frames(s)
  PROVE  InOrder(Append(s, e), D, known)
<1>1. Len(s) \in Nat /\ DOMAIN s = 1 .. Len(s)
  OBVIOUS
<1>2. /\ \A i \in DOMAIN s : i \in DOMAIN Append(s, e) /\ Append(s, e)[i] = s[i]
      /\ \A i \in DOMAIN Append(s, e) : i \in DOMAIN s \/ i = Len(s) + 1
      /\ Append(s, e)[Len(s) + 1] = e
  BY AppendFrames
<1>3. \A i \in DOMAIN s : i < Len(s) + 1
  BY <1>1
<1> SUFFICES ASSUME NEW j \in DOMAIN Append(s, e), NEW d \in D, d < Append(s, e)[j], d \notin known
             PROVE  \E i \in DOMAIN Append(s, e) : i < j /\ Append(s, e)[i] = d
  BY DEF InOrder
<1>4. CASE j \in DOMAIN s
  BY <1>2, <1>4 DEF InOrder
<1>5. CASE j = Len(s) + 1
  <2>1. PICK i \in DOMAIN s : s[i] = d
    BY <1>2, <1>5 DEF Frames
  <2> QED
    BY <1>2, <1>3, <1>5, <2>1
<1> QED
  BY <1>2, <1>4, <1>5

LEMMA ConcatInOrder ==
  ASSUME NEW T, NEW s \in Seq(T), NEW t \in Seq(T), NEW D, NEW known,
         InOrder(s, D, known), InOrder(t, D, known \cup Frames(s))
  PROVE  InOrder(s \o t, D, known)
<1>1. /\ Len(s) \in Nat /\ Len(t) \in Nat
      /\ DOMAIN s = 1 .. Len(s) /\ DOMAIN t = 1 .. Len(t)
      /\ DOMAIN (s \o t) = 1 .. Len(s) + Len(t)
      /\ \A i \in 1 .. Len(s) : (s \o t)[i] = s[i]
      /\ \A i \in 1 .. Len(t) : (s \o t)[Len(s) + i] = t[i]
  OBVIOUS
<1>2. \A i \in DOMAIN s : i \in DOMAIN (s \o t) /\ (s \o t)[i] = s[i]
  BY <1>1
<1>3. \A i \in DOMAIN t : Len(s) + i \in DOMAIN (s \o t) /\ (s \o t)[Len(s) + i] = t[i]
  <2>1. \A i \in 1 .. Len(t) : Len(s) + i \in 1 .. Len(s) + Len(t)
    BY <1>1
  <2> QED
    BY <1>1, <2>1
<1> SUFFICES ASSUME NEW j \in DOMAIN (s \o t), NEW d \in D, d < (s \o t)[j], d \notin known
             PROVE  \E i \in DOMAIN (s \o t) : i < j /\ (s \o t)[i] = d
  BY DEF InOrder
<1>4. CASE j <= Len(s)
  <2>1. j \in DOMAIN s
    BY <1>1, <1>4
  <2>2. PICK i \in DOMAIN s : i < j /\ s[i] = d
    BY <1>2, <2>1 DEF InOrder
  <2> QED
    BY <1>2, <2>2
<1>5. CASE j > Len(s)
  <2>1. j - Len(s) \in DOMAIN t /\ j = Len(s) + (j - Len(s))
    BY <1>1, <1>5
  <2>2. d < t[j - Len(s)]
    BY <1>3, <2>1
  <2>3. CASE d \in Frames(s)
    <3>1. PICK i \in DOMAIN s : s[i] = d
      BY <2>3 DEF Frames
    <3>2. i < j
      BY <1>1, <1>5
    <3> QED
      BY <1>2, <3>1, <3>2
  <2>4. CASE d \notin Frames(s)
    <3>1. PICK i \in DOMAIN t : i < j - Len(s) /\ t[i] = d
      BY <2>1, <2>2, <2>4 DEF InOrder
    <3>2. Len(s) + i < j
      BY <1>1, <2>1, <3>1
    <3> QED
      BY <1>3, <3>1, <3>2
  <2> QED
    BY <2>3, <2>4
<1> QED
  BY <1>1, <1>4, <1>5

\* What is left of a buffer is in order for whoever knows what was taken out.
LEMMA WithoutInOrder ==
  ASSUME NEW T, NEW s \in Seq(T), NEW S, NEW D, NEW known,
         InOrder(s, D, known \cup S)
  PROVE  InOrder(Without(s, S), D, known \cup S)
<1> DEFINE w == Without(s, S)
<1>1. \A m \in DOMAIN w : \E j \in DOMAIN s :
         /\ w[m] = s[j]
         /\ \A i \in DOMAIN s : i < j /\ s[i] \notin S =>
              \E n \in DOMAIN w : n < m /\ w[n] = s[i]
  BY WithoutSet
<1> HIDE DEF w
<1>2. InOrder(w, D, known \cup S)
  BY <1>1 DEF InOrder
<1> QED
  BY <1>2 DEF w

\* What the client and its frames know after a step that took nothing away.
LEMMA ClientKept ==
  ASSUME TypedInv, ClientOK, WritersInOrder, [Next]_vars, UNCHANGED <<received, cursor>>
  PROVE  /\ \A f \in received', e \in Due' : e < f => e \in received'
         /\ cursor' = 0 \/ PastEnd' \/ cursor' \in received'
<1>1. received \subseteq Committed
  BY DEF TypedInv, TypeOK
<1>2. ASSUME NEW f \in received', NEW e \in Due', e < f PROVE e \in received'
  BY <1>1, <1>2, NewlyDue DEF TypedInv, ClientOK
<1> QED
  BY <1>2 DEF ClientOK, PastEnd

\* Until a frame comes, what is due is above the cursor or received.
LEMMA AboveCursor ==
  ASSUME TypedInv, ClientOK, WritersInOrder, [Next]_vars, NEW e \in Due', ~PastEnd
  PROVE  e \in received \/ cursor < e
<1>1. e \in Events /\ e \in Nat /\ 0 < e
  BY StreamAssumption DEF Due, Settled, Events
<1>2. CASE cursor = 0
  BY <1>1, <1>2
<1>3. CASE cursor \in received
  <2>1. cursor \in Committed /\ cursor \in Nat
    BY <1>3, StreamAssumption DEF TypedInv, TypeOK, Committed, Events
  <2>2. CASE e < cursor
    BY <1>3, <2>1, <2>2, NewlyDue DEF TypedInv, ClientOK
  <2>3. CASE e = cursor
    BY <1>3, <2>3
  <2> QED
    BY <1>1, <2>1, <2>2, <2>3
<1> QED
  BY <1>2, <1>3 DEF ClientOK

\* Frames that stay are still in order.
LEMMA FramesKept ==
  ASSUME TypedInv, WritersInOrder, [Next]_vars,
         NEW s, NEW known, NEW more, Frames(s) \subseteq Committed,
         InOrder(s, Due, known), known \subseteq more
  PROVE  InOrder(s, Due', more)
<1>1. \A e \in Due' : e \in Due \/ \A j \in DOMAIN s : ~ (e < s[j])
  BY NewlyDue DEF TypedInv, Frames
<1> QED
  BY <1>1, InOrderKept

LEMMA StreamPreserved ==
  TypedInv /\ TypedInv' /\ StreamInv /\ [Next]_vars => StreamInv'
<1> SUFFICES ASSUME TypedInv, TypedInv', StreamInv, [Next]_vars PROVE StreamInv'
  OBVIOUS
<1>1. TypeOK /\ ConnectionOK /\ WritersInOrder /\ ClientOK /\ FramesInOrder
      /\ Due \subseteq received \cup Coming
  BY DEF TypedInv, StreamInv
<1>2. WritersInOrder'
  BY <1>1, WritersPreserved
<1>3. /\ Frames(buffered) \subseteq Committed /\ Frames(replayed) \subseteq Committed
      /\ Frames(sent) \subseteq Committed /\ received \subseteq Committed
      /\ Committed \subseteq Events /\ Events \subseteq Nat
  BY <1>1, StreamAssumption DEF TypeOK, Committed, Events
<1>4. Frames(<<>>) = {}
  BY DEF Frames
\* Nothing new is due, and the connection stays as it is.
<1>5. ASSUME UNCHANGED <<received, cursor, conn, buffered, replayed, sent, got>>,
             Due' \subseteq Due,
             conn = "closed" /\ PastEnd => owed' \cap Settled' \subseteq skipped'
      PROVE  StreamInv'
  <2>1. ClientOK'
    BY <1>1, <1>5, ClientKept DEF ClientOK, PastEnd
  <2>2. FramesInOrder'
    BY <1>1, <1>5 DEF FramesInOrder, InOrder, Frames, Asked
  <2>3. Due' \subseteq received' \cup Coming'
    BY <1>1, <1>5 DEF Coming, Frames, Asked
  <2> QED
    BY <1>2, <2>1, <2>2, <2>3 DEF StreamInv
<1>6. ASSUME NEW e \in Events, Insert(e) PROVE StreamInv'
  <2>1. UNCHANGED <<received, cursor, conn, buffered, replayed, sent, got>>
    BY <1>6 DEF Insert, clientVars, connVars
  <2>2. Due' \subseteq Due
    <3>1. /\ state' = [state EXCEPT ![e] = "open"] /\ overtaken \subseteq overtaken'
          /\ owed' \subseteq owed \cup {e} /\ skipped \subseteq skipped'
      BY <1>6 DEF Insert, connVars
    <3>2. ASSUME NEW d \in Due' PROVE d \in Due
      <4>1. d # e /\ state'[d] = state[d] /\ d \in owed
        BY <1>1, <3>1, <3>2 DEF Due, Settled, TypeOK
      <4> QED
        BY <3>1, <3>2, <4>1 DEF Due, Settled
    <3> QED
      BY <3>2
  <2>3. conn = "closed" /\ PastEnd => owed' \cap Settled' \subseteq skipped'
    <3>1. UNCHANGED skipped /\ owed' \subseteq owed \cup {e} /\ state' = [state EXCEPT ![e] = "open"]
      BY <1>6 DEF Insert, connVars
    <3>2. Settled' \subseteq Settled \ {e}
      BY <1>1, <3>1 DEF Settled, TypeOK
    <3> QED
      BY <1>1, <3>1, <3>2 DEF ClientOK
  <2> QED
    BY <1>5, <2>1, <2>2, <2>3
<1>7. ASSUME NEW e \in Events, Commit(e) \/ Abort(e) PROVE StreamInv'
  <2>1. UNCHANGED <<received, cursor, conn, buffered, replayed, sent, got, owed, skipped>>
    BY <1>7 DEF Commit, Abort, Ends, clientVars, connVars
  <2>2. ASSUME NEW d \in Due' PROVE d \in Due
    BY <1>1, <1>7, <2>1, <2>2 DEF Due, Settled, Commit, Abort, Ends, TypeOK
  <2>3. conn = "closed" /\ PastEnd => owed' \cap Settled' \subseteq skipped'
    <3>1. Settled' = Settled
      BY <1>1, <1>7 DEF Settled, Commit, Abort, Ends, TypeOK
    <3> QED
      BY <1>1, <2>1, <3>1 DEF ClientOK
  <2> QED
    BY <1>5, <2>1, <2>2, <2>3
<1>8. ASSUME NEW e \in Events, Publish(e) PROVE StreamInv'
  <2>1. /\ sent' = IF conn = "live" THEN Append(sent, e) ELSE sent
        /\ buffered' = IF conn \in {"replaying", "queried"} THEN Append(buffered, e)
                       ELSE buffered
        /\ skipped' = IF conn = "closed" /\ PastEnd THEN skipped \cup {e} ELSE skipped
        /\ UNCHANGED <<overtaken, owed, listening, received, cursor, conn, replayed, got, drops>>
        /\ UNCHANGED <<Asked, PastEnd>>
    BY <1>8 DEF Publish, clientVars, Asked, PastEnd
  <2>2. \A d \in Due' : d \in Due \/ d = e
    BY <1>8, <2>1 DEF Publish, Due, Settled, TypedInv, TypeOK
  <2>3. ClientOK'
    <3>1. ASSUME NEW i \in DOMAIN sent', i <= got PROVE sent'[i] \in received
      <4>1. CASE conn = "live"
        <5>1. got \in Nat /\ got <= Len(sent) /\ Len(sent) \in Nat
          BY <1>1 DEF TypeOK, ConnectionOK
        <5>2. i \in DOMAIN sent /\ sent'[i] = sent[i]
          BY <1>1, <2>1, <3>1, <4>1, <5>1, AppendFrames DEF ConnectionOK
        <5> QED
          BY <1>1, <3>1, <5>2 DEF ClientOK
      <4>2. CASE conn # "live"
        BY <1>1, <2>1, <3>1, <4>2 DEF ClientOK
      <4> QED
        BY <4>1, <4>2
    <3>2. Settled' = Settled \cup {e}
      BY <1>1, <1>8 DEF Publish, Settled, TypeOK
    <3>3. conn' = "closed" /\ PastEnd' => owed' \cap Settled' \subseteq skipped'
      BY <1>1, <2>1, <3>2 DEF ClientOK
    <3> QED
      BY <1>1, <2>1, <3>1, <3>3, ClientKept DEF ClientOK
  <2>4. InOrder(sent', Due', received')
    <3>1. InOrder(sent, Due', received')
      BY <1>1, <1>3, <2>1, FramesKept DEF FramesInOrder
    <3>2. CASE conn = "live"
      <4>1. \A d \in Due' : d < e => d \in received \cup Frames(sent)
        <5>1. Coming = Frames(sent)
          BY <1>1, <1>4, <3>2 DEF Coming, ConnectionOK
        <5>2. \A d \in Due' : d < e => d # e
          BY <1>3
        <5> QED
          BY <1>1, <2>2, <5>1, <5>2
      <4>2. sent' = Append(sent, e) /\ sent \in Seq(Events)
        BY <1>1, <2>1, <3>2 DEF ConnectionOK
      <4> QED
        BY <2>1, <3>1, <4>1, <4>2, AppendInOrder
    <3>3. CASE conn # "live"
      BY <2>1, <3>1, <3>3
    <3> QED
      BY <3>2, <3>3
  <2>5. InOrder(replayed', Due', received')
    BY <1>1, <1>3, <2>1, FramesKept DEF FramesInOrder
  <2> DEFINE known == received \cup Frames(replayed)
                        \cup (IF conn = "replaying" THEN Asked ELSE {})
  <2>6. InOrder(buffered', Due', known)
    <3>1. InOrder(buffered, Due', known)
      BY <1>1, <1>3, FramesKept DEF FramesInOrder
    <3>2. CASE conn \in {"replaying", "queried"}
      <4>1. \A d \in Due' : d < e => d \in known \cup Frames(buffered)
        <5>1. Coming \subseteq known \cup Frames(buffered)
          BY <1>1, <1>4, <3>2 DEF Coming, ConnectionOK
        <5>2. \A d \in Due' : d < e => d # e
          BY <1>3
        <5> QED
          BY <1>1, <2>2, <5>1, <5>2
      <4>2. buffered' = Append(buffered, e) /\ buffered \in Seq(Events)
        BY <1>1, <2>1, <3>2 DEF ConnectionOK
      <4> HIDE DEF known
      <4> QED
        BY <3>1, <4>1, <4>2, AppendInOrder
    <3>3. CASE conn \notin {"replaying", "queried"}
      BY <2>1, <3>1, <3>3
    <3> QED
      BY <3>2, <3>3
  <2>7. FramesInOrder'
    BY <2>1, <2>4, <2>5, <2>6 DEF FramesInOrder, Frames
  <2>8. Due' \subseteq received' \cup Coming'
    <3>1. Frames(sent) \subseteq Frames(sent') /\ Frames(buffered) \subseteq Frames(buffered')
      BY <1>1, <2>1, AppendFrames DEF ConnectionOK
    <3>2. Coming \subseteq Coming' /\ received' = received
      BY <2>1, <3>1 DEF Coming, Frames
    <3>3. ASSUME e \in Due' PROVE e \in received' \cup Coming'
      <4>1. CASE conn = "live"
        BY <1>1, <2>1, <4>1, AppendFrames DEF ConnectionOK, Coming
      <4>2. CASE conn \in {"replaying", "queried"}
        BY <1>1, <2>1, <4>2, AppendFrames DEF ConnectionOK, Coming
      <4>3. CASE conn = "closed"
        <5>1. ~PastEnd
          BY <1>1, <2>1, <3>3, <4>3 DEF ClientOK, Due
        <5>2. e \in received \/ cursor < e
          BY <1>1, <3>3, <5>1, AboveCursor
        <5> QED
          BY <1>3, <2>1, <4>3, <5>2 DEF Coming, Asked
      <4> QED
        BY <1>1, <4>1, <4>2, <4>3 DEF TypeOK
    <3> QED
      BY <1>1, <2>2, <3>2, <3>3
  <2> QED
    BY <1>2, <2>3, <2>7, <2>8 DEF StreamInv
<1>9. ASSUME Connect PROVE StreamInv'
  <2>1. /\ conn = "closed" /\ conn' = "replaying" /\ buffered = <<>>
        /\ UNCHANGED <<writerVars, received, cursor, skipped, buffered, replayed, sent, got>>
    BY <1>1, <1>9 DEF Connect, ConnectionOK
  <2>2. Due' = Due
    BY <2>1 DEF Due, Settled, writerVars
  <2>3. ClientOK'
    BY <1>1, <2>1, ClientKept DEF ClientOK
  <2>4. FramesInOrder'
    BY <1>1, <2>1, <2>2, EmptyInOrder DEF FramesInOrder
  <2>5. Due' \subseteq received' \cup Coming'
    BY <1>1, <2>1, <2>2 DEF Coming, Asked, Frames
  <2> QED
    BY <1>2, <2>3, <2>4, <2>5 DEF StreamInv
<1>10. ASSUME Query PROVE StreamInv'
  <2> DEFINE rows == {e \in Committed : e > cursor}
  <2>1. /\ conn = "replaying" /\ conn' = "queried" /\ skipped \subseteq skipped'
        /\ UNCHANGED <<writerVars, clientVars, buffered, sent, got, drops>>
    BY <1>10 DEF Query
  <2>2. /\ Frames(replayed') \subseteq rows /\ rows \subseteq Frames(replayed') \cup skipped'
        /\ \A j \in DOMAIN replayed', e \in rows : e < replayed'[j] =>
             \E i \in DOMAIN replayed' : i < j /\ replayed'[i] = e
    BY <1>1, <1>10, QueryRows
  <2>3. Due' \subseteq Due \ skipped' /\ Due' \subseteq Committed
    BY <2>1 DEF Due, Settled, Committed, writerVars
  <2>4. \A e \in Due' : e \in Asked => e \in rows /\ e \in Frames(replayed')
    BY <1>3, <2>2, <2>3 DEF Asked
  <2>5. ClientOK'
    BY <1>1, <2>1, ClientKept DEF ClientOK, clientVars
  <2>6. InOrder(replayed', Due', received')
    <3> SUFFICES ASSUME NEW j \in DOMAIN replayed', NEW e \in Due', e < replayed'[j],
                        e \notin received
                 PROVE  \E i \in DOMAIN replayed' : i < j /\ replayed'[i] = e
      BY <2>1 DEF InOrder, clientVars
    <3>1. replayed'[j] \in rows
      BY <2>2 DEF Frames
    <3>2. ~PastEnd
      <4>1. replayed'[j] \in 1 .. MaxEvent /\ replayed'[j] > cursor /\ cursor \in 0 .. MaxEvent + 1
        BY <1>1, <3>1 DEF TypeOK, Committed, Events
      <4> QED
        BY <4>1, StreamAssumption DEF PastEnd
    <3>3. cursor < e
      BY <1>1, <3>2, AboveCursor
    <3>4. e \in Asked
      BY <1>3, <2>3, <3>3 DEF Asked
    <3> QED
      BY <2>2, <2>4, <3>4
  <2>7. InOrder(buffered', Due', received' \cup Frames(replayed')
                                   \cup (IF conn' = "replaying" THEN Asked' ELSE {}))
    <3>1. ASSUME NEW j \in DOMAIN buffered, NEW e \in Due', e < buffered[j]
          PROVE  \/ e \in received \cup Frames(replayed')
                 \/ \E i \in DOMAIN buffered : i < j /\ buffered[i] = e
      <4>1. e \in received \cup Asked \/ \E i \in DOMAIN buffered : i < j /\ buffered[i] = e
        BY <1>1, <1>4, <2>1, <2>3, <3>1 DEF FramesInOrder, InOrder, ConnectionOK
      <4> QED
        BY <2>4, <4>1
    <3> QED
      BY <2>1, <3>1 DEF InOrder, clientVars
  <2>8. FramesInOrder'
    <3>1. InOrder(sent', Due', received')
      BY <1>1, <2>1, EmptyInOrder DEF ConnectionOK
    <3> QED
      BY <2>6, <2>7, <3>1 DEF FramesInOrder, Frames
  <2>9. Due' \subseteq received' \cup Coming'
    <3>1. Coming = Frames(buffered) \cup Asked
      BY <1>1, <1>4, <2>1 DEF Coming, ConnectionOK
    <3>2. Frames(buffered) \cup Frames(replayed') \subseteq Coming'
      BY <2>1 DEF Coming, Frames
    <3> QED
      BY <1>1, <2>1, <2>3, <2>4, <3>1, <3>2 DEF clientVars
  <2> QED
    BY <1>2, <2>5, <2>8, <2>9 DEF StreamInv
<1>11. ASSUME Reply PROVE StreamInv'
  <2> DEFINE w == Without(buffered, Frames(replayed))
  <2>1. /\ conn = "queried" /\ conn' = "live" /\ buffered' = <<>> /\ replayed' = <<>>
        /\ sent = <<>> /\ sent' = sent \o replayed \o w
        /\ UNCHANGED <<writerVars, clientVars, skipped, got, drops>>
    BY <1>1, <1>11 DEF Reply, ConnectionOK
  <2>2. /\ replayed \in Seq(Events) /\ w \in Seq(Events) /\ buffered \in Seq(Events)
        /\ Frames(buffered) \subseteq Frames(replayed) \cup Frames(w)
    <3>1. replayed \in Seq(Events) /\ buffered \in Seq(Events)
      BY <1>1 DEF ConnectionOK
    <3>2. w \in Seq(Events)
      BY <3>1, WithoutSet
    <3>3. Frames(buffered) \subseteq Frames(replayed) \cup Frames(w)
      BY <3>1, WithoutSet
    <3> QED
      BY <3>1, <3>2, <3>3
  <2>3. Due' = Due
    BY <2>1 DEF Due, Settled, writerVars
  <2>4. InOrder(w, Due, received \cup Frames(replayed))
    <3>1. InOrder(buffered, Due, received \cup Frames(replayed))
      BY <1>1, <2>1 DEF FramesInOrder
    <3> QED
      BY <2>2, <3>1, WithoutInOrder
  <2> HIDE DEF w
  <2>5. sent' = replayed \o w
    BY <2>1, <2>2
  <2>6. InOrder(sent', Due', received')
    BY <1>1, <2>1, <2>2, <2>3, <2>4, <2>5, ConcatInOrder DEF FramesInOrder, clientVars
  <2>7. Frames(sent') = Frames(replayed) \cup Frames(w)
    BY <2>2, <2>5, ConcatFrames
  <2>8. FramesInOrder'
    BY <2>1, <2>6, EmptyInOrder DEF FramesInOrder
  <2>9. ClientOK'
    <3>1. got = 0
      BY <1>1, <2>1 DEF TypeOK
    <3>2. \A i \in DOMAIN sent' : ~ (i <= got')
      <4>1. sent' \in Seq(Events)
        BY <2>2, <2>5, ConcatFrames
      <4> QED
        BY <2>1, <3>1, <4>1
    <3> QED
      BY <1>1, <2>1, <3>2, ClientKept DEF ClientOK, clientVars
  <2>10. Due' \subseteq received' \cup Coming'
    <3>1. Coming = Frames(replayed) \cup Frames(buffered)
      BY <1>1, <1>4, <2>1 DEF Coming
    <3>2. Frames(sent') \subseteq Coming'
      BY DEF Coming, Frames
    <3> QED
      BY <1>1, <2>1, <2>2, <2>3, <2>7, <3>1, <3>2 DEF clientVars
  <2> QED
    BY <1>2, <2>8, <2>9, <2>10 DEF StreamInv
<1>12. ASSUME Receive PROVE StreamInv'
  <2> DEFINE f == sent[got + 1]
  <2>1. /\ got < Len(sent) /\ got' = got + 1
        /\ received' = received \cup {f} /\ cursor' = f
        /\ UNCHANGED <<writerVars, listening, skipped, conn, buffered, replayed, sent, drops>>
    BY <1>12 DEF Receive
  <2>2. got \in Nat /\ Len(sent) \in Nat /\ DOMAIN sent = 1 .. Len(sent)
    BY <1>1 DEF TypeOK, ConnectionOK
  <2>3. got + 1 \in DOMAIN sent
    BY <2>1, <2>2
  <2>4. conn = "live" /\ buffered = <<>> /\ replayed = <<>>
    <3>1. sent # <<>>
      BY <2>3
    <3> QED
      BY <1>1, <3>1 DEF ConnectionOK
  <2>5. Due' = Due
    BY <2>1 DEF Due, Settled, writerVars
  <2>6. \A i \in DOMAIN sent : i <= got + 1 => sent[i] \in received'
    <3>1. \A i \in DOMAIN sent : i <= got + 1 => i <= got \/ i = got + 1
      BY <2>2
    <3> QED
      BY <1>1, <2>1, <3>1 DEF ClientOK
  <2>7. \A e \in Due : e < f => e \in received'
    <3> SUFFICES ASSUME NEW e \in Due, e < f, e \notin received PROVE e \in received'
      BY <2>1
    <3>1. PICK i \in DOMAIN sent : i < got + 1 /\ sent[i] = e
      BY <1>1, <2>3 DEF FramesInOrder, InOrder
    <3>2. i <= got + 1
      BY <2>2, <3>1
    <3> QED
      BY <2>6, <3>1, <3>2
  <2>8. ClientOK'
    <3>1. \A g \in received', e \in Due' : e < g => e \in received'
      BY <1>1, <2>1, <2>5, <2>7 DEF ClientOK
    <3> QED
      BY <2>1, <2>4, <2>6, <3>1 DEF ClientOK
  <2>9. FramesInOrder'
    <3>1. InOrder(sent, Due, received')
      BY <1>1, <2>1 DEF FramesInOrder, InOrder
    <3> QED
      BY <2>1, <2>4, <2>5, <3>1, EmptyInOrder DEF FramesInOrder
  <2>10. Due' \subseteq received' \cup Coming'
    <3>1. Coming = Frames(sent) /\ Frames(sent) \subseteq Coming'
      BY <1>4, <2>1, <2>4 DEF Coming, Frames
    <3> QED
      BY <1>1, <2>1, <2>5, <3>1
  <2> QED
    BY <1>2, <2>8, <2>9, <2>10 DEF StreamInv
<1>13. ASSUME Disconnect \/ Crash PROVE StreamInv'
  <2>1. /\ conn' = "closed" /\ buffered' = <<>> /\ replayed' = <<>> /\ sent' = <<>>
        /\ skipped' = IF PastEnd THEN skipped \cup (owed \cap Settled') ELSE skipped
        /\ UNCHANGED <<owed, received, cursor>> /\ UNCHANGED <<PastEnd, Asked>>
    BY <1>13 DEF Disconnect, Crash, Forget, writerVars, clientVars, PastEnd, Asked
  <2>2. ClientOK'
    BY <1>1, <2>1, ClientKept DEF ClientOK
  <2>3. FramesInOrder'
    BY <2>1, EmptyInOrder DEF FramesInOrder
  <2>4. ASSUME NEW e \in Due' PROVE e \in received' \cup Coming'
    <3>1. ~PastEnd
      BY <2>1, <2>4 DEF Due
    <3>2. e \in received \/ cursor < e
      BY <1>1, <2>4, <3>1, AboveCursor
    <3>3. e \in Events
      BY <2>4 DEF Due, Settled
    <3> QED
      BY <2>1, <3>2, <3>3 DEF Coming, Asked
  <2> QED
    BY <1>2, <2>2, <2>3, <2>4 DEF StreamInv
<1>14. CASE UNCHANGED vars
  <2>1. UNCHANGED <<received, cursor, conn, buffered, replayed, sent, got, owed, skipped>>
    BY <1>14 DEF vars, writerVars, clientVars, connVars
  <2>2. Due' = Due /\ Settled' = Settled
    BY <1>14 DEF vars, writerVars, connVars, Due, Settled
  <2> QED
    BY <1>1, <1>5, <2>1, <2>2 DEF ClientOK
<1> QED
  BY <1>6, <1>7, <1>8, <1>9, <1>10, <1>11, <1>12, <1>13, <1>14 DEF Next

\* A live stream has left nothing out that its client asked for, whatever the
\* limit of the replay and however often the connection or the process is
\* lost: only events written side by side, rows beyond the limit, and what was
\* waited for before the first frame can be missing.
THEOREM NothingIsLeftOut == Spec => []NothingLeftOut
<1>1. Init => StreamInv
  <2> SUFFICES ASSUME Init PROVE StreamInv
    OBVIOUS
  <2>1. Due = {}
    BY DEF Init, Due
  <2>2. WritersInOrder
    BY DEF Init, WritersInOrder
  <2>3. ClientOK
    <3>1. cursor = 0 \/ PastEnd
      BY StreamAssumption DEF Init, PastEnd
    <3> QED
      BY <3>1 DEF Init, ClientOK
  <2>4. FramesInOrder
    BY EmptyInOrder DEF Init, FramesInOrder
  <2> QED
    BY <2>1, <2>2, <2>3, <2>4 DEF StreamInv
<1>2. TypedInv /\ StreamInv => NothingLeftOut
  <2> SUFFICES ASSUME TypedInv, StreamInv, conn = "live" PROVE Due \subseteq Told
    BY DEF NothingLeftOut, Due
  <2>1. Frames(<<>>) = {}
    BY DEF Frames
  <2>2. Coming = Frames(sent)
    BY <2>1 DEF TypedInv, ConnectionOK, Coming
  <2> QED
    BY <2>2 DEF StreamInv, Told
<1> QED
  BY <1>1, <1>2, StreamPreserved, TypedAlways, PTL DEF Spec

-----------------------------------------------------------------------------
(* A client that is never far behind. *)

\* Whoever has a cursor in the table, and is never further behind than a replay
\* reaches, has nothing passed over.
NothingSkipped == skipped = {} /\ ~PastEnd

LEMMA ShortReplay ==
  ASSUME TypedInv, Query, MaxEvent <= ReplayLimit
  PROVE  skipped' = skipped
<1> DEFINE rows == {e \in Committed : e > cursor}
<1>1. rows \in SUBSET Nat /\ IsFiniteSet(rows) /\ rows \subseteq Events
  <2>1. rows \in SUBSET Events
    BY DEF Committed
  <2> QED
    BY <2>1, EventsAreFinite, FS_Subset
<1>2. Cardinality(rows) \in Nat /\ Cardinality(rows) <= MaxEvent
  <2>1. Cardinality(Events) = MaxEvent /\ IsFiniteSet(Events)
    BY StreamAssumption, FS_Interval DEF Events
  <2> HIDE DEF rows
  <2> QED
    BY <1>1, <2>1, FS_Subset, FS_CardinalityType
<1>3. ASSUME NEW e \in rows PROVE Rank(e, rows) <= ReplayLimit
  <2> HIDE DEF rows
  <2>1. Rank(e, rows) \in Nat /\ Rank(e, rows) <= Cardinality(rows)
    BY <1>1, <1>2, <1>3, RankRange
  <2> QED
    BY <1>2, <2>1, StreamAssumption
<1> QED
  BY <1>3 DEF Query

LEMMA NothingSkippedPreserved ==
  ASSUME TypedInv, NothingSkipped, [Next]_vars, MaxEvent <= ReplayLimit
  PROVE  NothingSkipped'
<1> USE DEF NothingSkipped, PastEnd
<1>1. CASE Query
  BY <1>1, ShortReplay DEF Query, clientVars
<1>2. CASE Receive
  <2>1. got + 1 \in DOMAIN sent /\ sent \in Seq(Events)
    BY <1>2 DEF Receive, TypedInv, TypeOK, ConnectionOK
  <2>2. sent[got + 1] \in Events
    BY <2>1
  <2>3. sent[got + 1] \in 1 .. MaxEvent
    BY <2>2 DEF Events
  <2> QED
    BY <1>2, <2>3, StreamAssumption DEF Receive
<1>3. CASE Disconnect \/ Crash
  BY <1>3 DEF Disconnect, Crash, Forget, clientVars
<1>4. CASE \E e \in Events : Insert(e) \/ Commit(e) \/ Abort(e) \/ Publish(e)
  BY <1>4 DEF Insert, Commit, Abort, Ends, Publish, clientVars, connVars
<1>5. CASE Connect \/ Reply \/ UNCHANGED vars
  BY <1>5 DEF Connect, Reply, vars, clientVars, connVars
<1> QED
  BY <1>1, <1>2, <1>3, <1>4, <1>5 DEF Next

\* A client that has asked for everything from the start, and that is never
\* further behind than one replay reaches, loses nothing on any number of lost
\* connections but events that were written side by side.  Not the browser that
\* ships: it starts past the last id, which is why its blips may lose something.
THEOREM ShortBlipLosesNothing ==
  ASSUME FirstCursors = {0}, MaxEvent <= ReplayLimit
  PROVE  Spec => []BlipLosesNothing
<1>1. Init => NothingSkipped
  BY StreamAssumption DEF Init, NothingSkipped, PastEnd
<1>2. TypedInv /\ NothingSkipped /\ [Next]_vars => NothingSkipped'
  BY NothingSkippedPreserved
<1>3. NothingSkipped /\ NothingLeftOut => BlipLosesNothing
  BY DEF NothingSkipped, NothingLeftOut, BlipLosesNothing
<1> QED
  BY <1>1, <1>2, <1>3, TypedAlways, NothingIsLeftOut, PTL DEF Spec

=============================================================================
