------------------------- MODULE PersistenceProofs -------------------------
(***************************************************************************)
(* Proofs about TrackerStore and EventBrokers, where the events of a        *)
(* conversation are stored and where they are published to.                 *)
(*                                                                         *)
(* TrackerStore: what the runs check of the primary store and of what is    *)
(* published holds for any number of requests and of faults.  The argument  *)
(* goes by the numbers of the events: those of a tracker that a save adds   *)
(* to the primary store, which are those beyond the number it retrieves,    *)
(* are later than all that is stored.                                       *)
(*                                                                         *)
(* EventBrokers: the type invariant, that nothing handed to a broker is     *)
(* forgotten, that none of Pika's events is about to be published twice and *)
(* those that never failed arrive in order, and what Kafka's producers are  *)
(* given, for any number of events and failures, any number of retries and  *)
(* any size of the producer's buffer.                                       *)
(***************************************************************************)
EXTENDS TrackerStore, EventBrokers, Lemmas, FiniteSetTheorems

-----------------------------------------------------------------------------
(* What is stored, retrieved and added.                                     *)

\* A save's Beyond(n, events) are the events after the first n.
LEMMA BeyondFacts ==
  ASSUME NEW s \in Seq(Events), NEW n \in Nat
  PROVE  /\ Beyond(n, s) \in Seq(Events)
         /\ Len(Beyond(n, s)) = IF n < Len(s) THEN Len(s) - n ELSE 0
         /\ \A i \in 1 .. Len(Beyond(n, s)) : Beyond(n, s)[i] = s[n + i]
  <1>1. \A i \in n + 1 .. Len(s) : s[i] \in Events
    BY ElementOfSeq
  <1>2. Len(s) \in Nat
    OBVIOUS
  <1>3. /\ Beyond(n, s) \in Seq(Events)
        /\ Len(Beyond(n, s)) = IF n + 1 <= Len(s) THEN Len(s) - (n + 1) + 1 ELSE 0
        /\ \A i \in 1 .. Len(s) - (n + 1) + 1 : Beyond(n, s)[i] = s[(n + 1) + i - 1]
    BY <1>1, <1>2, SubSeqProperties DEF Beyond
  <1> QED BY <1>2, <1>3

\* What a store retrieves is no more than it holds, and all of it unless it
\* appends.
LEMMA RetrievedFacts ==
  ASSUME primary \in Seq(Events)
  PROVE  /\ Retrieved \in Seq(Events)
         /\ ~Appends => Retrieved = primary
         /\ ToSet(Retrieved) \subseteq ToSet(primary)
         /\ InOrder(primary) => InOrder(Retrieved)
         /\ primary = <<>> => Retrieved = <<>>
  <1> DEFINE starts == {i \in 1 .. Len(primary) : primary[i].starts}
             first == IF starts # {} THEN Max(starts) ELSE 0
             latest == SubSeq(primary, first, Len(primary))
  <1>1. SinceLastSession(primary) = IF first = 0 THEN primary ELSE latest
    BY DEF SinceLastSession, SelectLastInSeq
  <1>2. starts # {} => Max(starts) \in starts
    <2> HIDE DEF starts
    <2> SUFFICES ASSUME starts # {} PROVE Max(starts) \in starts
      OBVIOUS
    <2>1. starts \in SUBSET Nat /\ Len(primary) \in Nat /\ \A i \in starts : i =< Len(primary)
      BY DEF starts
    <2> QED BY <2>1, MaxGreatest
  <1>3. first = 0 \/ first \in 1 .. Len(primary)
    BY <1>2
  <1> HIDE DEF first
  <1>4. CASE first = 0 \/ ~Appends
    BY <1>1, <1>4 DEF Retrieved
  <1>5. CASE first # 0 /\ Appends
    <2>1. Retrieved = latest /\ first \in 1 .. Len(primary)
      BY <1>1, <1>3, <1>5 DEF Retrieved
    <2>2. Len(primary) \in Nat /\ \A i \in first .. Len(primary) : primary[i] \in Events
      BY <2>1, ElementOfSeq
    <2>3. /\ latest \in Seq(Events)
          /\ Len(latest) = Len(primary) - first + 1
          /\ \A i \in 1 .. Len(latest) : latest[i] = primary[first + i - 1]
      BY <2>1, <2>2, SubSeqProperties
    <2> HIDE DEF latest
    <2>4. \A i \in 1 .. Len(latest) : first + i - 1 \in 1 .. Len(primary)
      BY <2>1, <2>2, <2>3
    <2>5. ToSet(latest) \subseteq ToSet(primary)
      <3>1. DOMAIN latest = 1 .. Len(latest) /\ DOMAIN primary = 1 .. Len(primary)
        BY <2>3
      <3> QED BY <2>3, <2>4, <3>1 DEF ToSet
    <2>6. InOrder(primary) => InOrder(latest)
      <3> SUFFICES ASSUME InOrder(primary), NEW i \in 1 .. Len(latest), NEW j \in 1 .. Len(latest), i < j
                   PROVE  latest[i].id < latest[j].id
        BY DEF InOrder
      <3>1. first + i - 1 < first + j - 1
        BY <2>1
      <3>2. primary[first + i - 1].id < primary[first + j - 1].id
        BY <2>4, <3>1 DEF InOrder
      <3> QED BY <2>3, <3>2
    <2> QED BY <1>5, <2>1, <2>3, <2>5, <2>6
  <1> QED BY <1>4, <1>5

\* Adding to a log the events of a tracker beyond some number keeps it in
\* order, if those come after all that is logged.
LEMMA AddedInOrder ==
  ASSUME NEW s \in Seq(Events), NEW t \in Seq(Events), NEW n \in Nat,
         InOrder(s), InOrder(t),
         \A i \in 1 .. Len(t) : i > n => \A j \in 1 .. Len(s) : s[j].id < t[i].id
  PROVE  InOrder(s \o Beyond(n, t))
  <1> DEFINE b == Beyond(n, t)
  <1>1. /\ b \in Seq(Events)
        /\ Len(b) = IF n < Len(t) THEN Len(t) - n ELSE 0
        /\ \A i \in 1 .. Len(b) : b[i] = t[n + i]
    BY BeyondFacts
  <1> HIDE DEF b
  <1>2. /\ Len(s \o b) = Len(s) + Len(b)
        /\ \A i \in 1 .. Len(s) + Len(b) :
             (s \o b)[i] = IF i <= Len(s) THEN s[i] ELSE b[i - Len(s)]
    BY <1>1, ConcatProperties
  <1>3. Len(s) \in Nat /\ Len(t) \in Nat /\ Len(b) \in Nat
    BY <1>1
  <1>4. \A i \in 1 .. Len(b) : n + i \in 1 .. Len(t) /\ n + i > n
    BY <1>1, <1>3
  <1> SUFFICES ASSUME NEW i \in 1 .. Len(s) + Len(b), NEW j \in 1 .. Len(s) + Len(b), i < j
               PROVE  (s \o b)[i].id < (s \o b)[j].id
    BY <1>2, <1>3 DEF InOrder, b
  <1>5. CASE j <= Len(s)
    BY <1>2, <1>3, <1>5 DEF InOrder
  <1>6. CASE i <= Len(s) /\ j > Len(s)
    <2>1. j - Len(s) \in 1 .. Len(b)
      BY <1>3, <1>6
    <2>2. (s \o b)[i] = s[i] /\ (s \o b)[j] = t[n + (j - Len(s))]
      BY <1>1, <1>2, <1>3, <1>6, <2>1
    <2>3. i \in 1 .. Len(s)
      BY <1>3, <1>6
    <2> QED BY <1>4, <2>1, <2>2, <2>3
  <1>7. CASE i > Len(s)
    <2>1. i - Len(s) \in 1 .. Len(b) /\ j - Len(s) \in 1 .. Len(b)
      BY <1>3, <1>7
    <2>2. (s \o b)[i] = t[n + (i - Len(s))] /\ (s \o b)[j] = t[n + (j - Len(s))]
      BY <1>1, <1>2, <1>3, <1>7, <2>1
    <2>3. n + (i - Len(s)) < n + (j - Len(s))
      BY <1>3, <2>1
    <2> QED BY <1>4, <2>1, <2>2, <2>3 DEF InOrder
  <1> QED BY <1>3, <1>5, <1>6, <1>7

-----------------------------------------------------------------------------
(* The inductive invariant.                                                 *)

Serving == pc \in {"fetched", "logged", "streamed"}

Numbered ==
  \A s \in {primary, published, tracker} : \A i \in 1 .. Len(s) : s[i].id =< logged

\* What a save would add to a store that appends is later than all it holds.
AddsLater ==
  Serving /\ Appends =>
    \A i \in 1 .. Len(tracker) : i > Len(Retrieved) =>
      \A j \in 1 .. Len(primary) : primary[j].id < tracker[i].id

UnknownIsEmpty == ~known => primary = <<>>

\* While no call fails: the tracker fetched is the one stored, and the save
\* makes of the store what the answered request is to leave there.
SavesGoal ==
  faults = 0 =>
    /\ pc # "failed"
    /\ pc = "fetched" => tracker = Retrieved
    /\ ~(Appends /\ replaced) =>
         /\ primary = kept
         /\ pc \in {"logged", "streamed"} => goal = Stored(tracker)

StreamedFirst ==
  pc = "streamed" => ToSet(Beyond(Len(Retrieved), tracker)) \subseteq ToSet(published)

\* The tracker of a store that holds whole trackers goes on from the stored.
Continues ==
  ~Appends /\ ~replaced /\ faults < 2 /\ Serving =>
    /\ Len(primary) =< Len(tracker)
    /\ \A i \in 1 .. Len(primary) : tracker[i] = primary[i]

PublishesLater ==
  faults = 0 =>
    /\ InOrder(published)
    /\ pc = "logged" =>
         \A i \in 1 .. Len(tracker) : i > Len(Retrieved) =>
           \A j \in 1 .. Len(published) : published[j].id < tracker[i].id

IInv ==
  /\ TypeOK
  /\ InOrder(primary) /\ InOrder(tracker)
  /\ Numbered
  /\ AddsLater
  /\ UnknownIsEmpty
  /\ SavesGoal
  /\ StreamedFirst
  /\ Continues
  /\ PublishedFirst
  /\ PublishesLater

-----------------------------------------------------------------------------
(* Lemmas on the operators of the actions.                                  *)

LEMMA Types ==
  ASSUME TypeOK
  PROVE  /\ primary \in Seq(Events) /\ fallback \in Seq(Events) /\ published \in Seq(Events)
         /\ tracker \in Seq(Events) /\ goal \in Seq(Events) /\ kept \in Seq(Events)
         /\ logged \in Nat /\ faults \in Nat /\ requests \in Nat
  BY BoundsAssumption DEF TypeOK

\* Events are numbered.
LEMMA Ids ==
  ASSUME NEW s \in Seq(Events)
  PROVE  Len(s) \in Nat /\ \A i \in 1 .. Len(s) : s[i].id \in Nat
  <1>1. \A i \in 1 .. Len(s) : s[i] \in Events
    BY ElementOfSeq
  <1> QED BY <1>1 DEF Events

\* The events of a concatenation are those of its parts.
LEMMA ConcatEvents ==
  ASSUME NEW s \in Seq(Events), NEW t \in Seq(Events)
  PROVE  ToSet(s \o t) = ToSet(s) \union ToSet(t)
  <1>1. \A x : ToSet(x) = Range(x)
    BY DEF ToSet, Range
  <1> QED BY <1>1, RangeConcatenation

\* Beyond a tracker that was extended is what it was extended by.
LEMMA BeyondConcat ==
  ASSUME NEW s \in Seq(Events), NEW t \in Seq(Events)
  PROVE  Beyond(Len(s), s \o t) = t
  <1>1. /\ s \o t \in Seq(Events)
        /\ Len(s \o t) = Len(s) + Len(t)
        /\ \A i \in 1 .. Len(s) + Len(t) :
             (s \o t)[i] = IF i <= Len(s) THEN s[i] ELSE t[i - Len(s)]
    BY ConcatProperties
  <1>2. Len(s) \in Nat /\ Len(t) \in Nat
    OBVIOUS
  <1> DEFINE b == Beyond(Len(s), s \o t)
  <1>3. /\ b \in Seq(Events)
        /\ Len(b) = IF Len(s) < Len(s \o t) THEN Len(s \o t) - Len(s) ELSE 0
        /\ \A i \in 1 .. Len(b) : b[i] = (s \o t)[Len(s) + i]
    BY <1>1, <1>2, BeyondFacts
  <1>4. Len(b) = Len(t)
    BY <1>1, <1>2, <1>3
  <1> HIDE DEF b
  <1>5. \A i \in 1 .. Len(b) : b[i] = t[i]
    <2> TAKE i \in 1 .. Len(b)
    <2>1. Len(s) + i \in 1 .. Len(s) + Len(t) /\ ~(Len(s) + i <= Len(s)) /\ (Len(s) + i) - Len(s) = i
      BY <1>2, <1>4
    <2> QED BY <1>1, <1>3, <2>1
  <1>6. b = t
    BY <1>3, <1>4, <1>5, SeqEqual
  <1> QED BY <1>6 DEF b

\* The events of Beyond(n, events) are events of the tracker.
LEMMA BeyondEvents ==
  ASSUME NEW s \in Seq(Events), NEW n \in Nat
  PROVE  /\ \A i \in 1 .. Len(Beyond(n, s)) : \E j \in 1 .. Len(s) : Beyond(n, s)[i] = s[j]
         /\ \A j \in 1 .. Len(s) : j > n => s[j] \in ToSet(Beyond(n, s))
         /\ Beyond(n, <<>>) = <<>>
  <1> DEFINE b == Beyond(n, s)
  <1>1. /\ b \in Seq(Events)
        /\ Len(b) = IF n < Len(s) THEN Len(s) - n ELSE 0
        /\ \A i \in 1 .. Len(b) : b[i] = s[n + i]
    BY BeyondFacts
  <1>2. Len(s) \in Nat /\ DOMAIN b = 1 .. Len(b)
    BY <1>1, LenProperties
  <1>3. Beyond(n, <<>>) = <<>>
    BY SubSeqEmpty DEF Beyond
  <1> HIDE DEF b
  <1>4. \A i \in 1 .. Len(b) : \E j \in 1 .. Len(s) : b[i] = s[j]
    <2> TAKE i \in 1 .. Len(b)
    <2>1. n + i \in 1 .. Len(s)
      BY <1>1, <1>2
    <2> QED BY <1>1, <2>1
  <1>5. \A j \in 1 .. Len(s) : j > n => s[j] \in ToSet(b)
    <2> SUFFICES ASSUME NEW j \in 1 .. Len(s), j > n
                 PROVE  s[j] \in ToSet(b)
      OBVIOUS
    <2>1. j - n \in 1 .. Len(b) /\ n + (j - n) = j
      BY <1>1, <1>2
    <2>2. b[j - n] = s[j]
      BY <1>1, <2>1
    <2> QED BY <1>2, <2>1, <2>2 DEF ToSet
  <1> QED BY <1>3, <1>4, <1>5 DEF b

\* The events a request creates come after all others, in order.
LEMMA FreshEvents ==
  ASSUME logged \in Nat, NEW new \in {NewSession} \union {Plain(n) : n \in 1 .. 2}
  PROVE  /\ new \in Seq(Events)
         /\ Len(new) \in 1 .. 3
         /\ \A i \in 1 .. Len(new) : new[i].id = logged + i
         /\ InOrder(new)
  <1>1. \E n \in 1 .. 3 : \E f \in [1 .. n -> BOOLEAN] :
          new = [i \in 1 .. n |-> [id |-> logged + i, starts |-> f[i]]]
    <2>1. CASE new = NewSession
      <3> DEFINE f == [i \in 1 .. 3 |-> i = 2]
      <3>1. f \in [1 .. 3 -> BOOLEAN] /\ 3 \in 1 .. 3
        OBVIOUS
      <3>2. new = [i \in 1 .. 3 |-> [id |-> logged + i, starts |-> f[i]]]
        BY <2>1 DEF NewSession
      <3> HIDE DEF f
      <3> QED BY <3>1, <3>2
    <2>2. CASE new \in {Plain(n) : n \in 1 .. 2}
      <3>1. PICK n \in 1 .. 2 : new = Plain(n)
        BY <2>2
      <3> DEFINE f == [i \in 1 .. n |-> FALSE]
      <3>2. f \in [1 .. n -> BOOLEAN] /\ n \in 1 .. 3
        OBVIOUS
      <3>3. new = [i \in 1 .. n |-> [id |-> logged + i, starts |-> f[i]]]
        BY <3>1 DEF Plain
      <3> HIDE DEF f
      <3> QED BY <3>2, <3>3
    <2> QED BY <2>1, <2>2
  <1>2. PICK n \in 1 .. 3 : \E f \in [1 .. n -> BOOLEAN] :
          new = [i \in 1 .. n |-> [id |-> logged + i, starts |-> f[i]]]
    BY <1>1
  <1>5. PICK f \in [1 .. n -> BOOLEAN] :
          new = [i \in 1 .. n |-> [id |-> logged + i, starts |-> f[i]]]
    BY <1>2
  <1> DEFINE e(i) == [id |-> logged + i, starts |-> f[i]]
  <1>3. new \in Seq(Events) /\ Len(new) = n
    <2>1. \A i \in 1 .. n : e(i) \in Events
      BY DEF Events
    <2>2. new = [i \in 1 .. n |-> e(i)]
      BY <1>5
    <2> HIDE DEF e
    <2>3. [i \in 1 .. n |-> e(i)] \in Seq(Events)
      BY <2>1, IsASeq
    <2> QED BY <2>2, <2>3
  <1>4. \A i \in 1 .. n : new[i].id = logged + i
    BY <1>5
  <1> QED BY <1>3, <1>4 DEF InOrder

-----------------------------------------------------------------------------
(* What a save makes of the primary store.                                  *)

\* An empty tracker leaves a store that appends as it is, and empties another.
LEMMA StoredEmpty ==
  ASSUME primary \in Seq(Events)
  PROVE  Stored(<<>>) = IF Appends THEN primary ELSE <<>>
  <1>1. Retrieved \in Seq(Events) /\ Len(Retrieved) \in Nat
    BY RetrievedFacts
  <1>2. Beyond(Len(Retrieved), <<>>) = <<>>
    BY <1>1, EmptySeq, BeyondEvents
  <1> QED BY <1>2, ConcatEmptySeq DEF Stored

\* A tracker that was streamed leaves the store in order, and with nothing in
\* it that was not published.
LEMMA StoredTracker ==
  ASSUME IInv, pc = "streamed"
  PROVE  /\ Stored(tracker) \in Seq(Events)
         /\ InOrder(Stored(tracker))
         /\ \A i \in 1 .. Len(Stored(tracker)) : Stored(tracker)[i].id =< logged
         /\ Appends \/ (~replaced /\ faults < 2) => ToSet(Stored(tracker)) \subseteq ToSet(published)
  <1> DEFINE added == Beyond(Len(Retrieved), tracker)
  <1>1. /\ primary \in Seq(Events) /\ tracker \in Seq(Events) /\ published \in Seq(Events)
        /\ InOrder(primary) /\ InOrder(tracker) /\ logged \in Nat
        /\ \A i \in 1 .. Len(primary) : primary[i].id =< logged
        /\ \A i \in 1 .. Len(tracker) : tracker[i].id =< logged
    BY Types DEF IInv, Numbered
  <1>2. Retrieved \in Seq(Events) /\ Len(Retrieved) \in Nat
    BY <1>1, RetrievedFacts
  <1>3. /\ added \in Seq(Events)
        /\ \A i \in 1 .. Len(added) : \E j \in 1 .. Len(tracker) : added[i] = tracker[j]
        /\ \A j \in 1 .. Len(tracker) : j > Len(Retrieved) => tracker[j] \in ToSet(added)
    BY <1>1, <1>2, BeyondFacts, BeyondEvents
  <1>4. ToSet(added) \subseteq ToSet(published)
    BY DEF IInv, StreamedFirst
  <1>5. CASE Appends
    <2>1. Stored(tracker) = primary \o added
      BY <1>5 DEF Stored
    <2>2. InOrder(primary \o added)
      BY <1>1, <1>2, <1>5, AddedInOrder DEF IInv, AddsLater, Serving
    <2> HIDE DEF added
    <2>3. /\ primary \o added \in Seq(Events)
          /\ Len(primary \o added) = Len(primary) + Len(added)
          /\ \A i \in 1 .. Len(primary) + Len(added) : (primary \o added)[i] =
               IF i <= Len(primary) THEN primary[i] ELSE added[i - Len(primary)]
      BY <1>1, <1>3, ConcatProperties
    <2>4. \A i \in 1 .. Len(primary) + Len(added) : (primary \o added)[i].id =< logged
      <3> TAKE i \in 1 .. Len(primary) + Len(added)
      <3>1. CASE i <= Len(primary)
        BY <1>1, <2>3, <3>1
      <3>2. CASE i > Len(primary)
        <4>1. i - Len(primary) \in 1 .. Len(added)
          BY <1>1, <1>3, <3>2
        <4>2. (primary \o added)[i] = added[i - Len(primary)]
          BY <1>1, <2>3, <3>2
        <4> QED BY <1>1, <1>3, <4>1, <4>2
      <3> QED BY <1>1, <1>3, <3>1, <3>2
    <2>5. ToSet(primary \o added) \subseteq ToSet(published)
      BY <1>1, <1>3, <1>4, <1>5, ConcatEvents DEF IInv, PublishedFirst
    <2> QED BY <2>1, <2>2, <2>3, <2>4, <2>5
  <1>6. CASE ~Appends
    <2>1. Stored(tracker) = tracker
      BY <1>6 DEF Stored
    <2>2. ASSUME ~replaced, faults < 2
          PROVE  ToSet(tracker) \subseteq ToSet(published)
      <3>1. ToSet(primary) \subseteq ToSet(published)
        BY <2>2 DEF IInv, PublishedFirst
      <3>2. \A i \in 1 .. Len(primary) : tracker[i] = primary[i]
        BY <1>6, <2>2 DEF IInv, Continues, Serving
      <3>3. Retrieved = primary
        BY <1>1, <1>6, RetrievedFacts
      <3>4. DOMAIN tracker = 1 .. Len(tracker) /\ DOMAIN primary = 1 .. Len(primary)
            /\ Len(primary) \in Nat
        BY <1>1, LenProperties
      <3> SUFFICES ASSUME NEW i \in 1 .. Len(tracker)
                   PROVE  tracker[i] \in ToSet(published)
        BY <3>4 DEF ToSet
      <3>5. CASE i <= Len(primary)
        <4>1. primary[i] \in ToSet(primary) /\ tracker[i] = primary[i]
          BY <3>2, <3>4, <3>5 DEF ToSet
        <4> QED BY <3>1, <4>1
      <3>6. CASE i > Len(primary)
        BY <1>3, <1>4, <3>3, <3>6
      <3> QED BY <3>4, <3>5, <3>6
    <2> QED BY <1>1, <1>6, <2>1, <2>2
  <1> QED BY <1>5, <1>6

\* A log and the first k of further events begin the log with all of them.
LEMMA PartOfConcat ==
  ASSUME NEW s \in Seq(Events), NEW t \in Seq(Events), NEW k \in 0 .. Len(t)
  PROVE  /\ s \o SubSeq(t, 1, k) \in Seq(Events)
         /\ Len(s \o SubSeq(t, 1, k)) = Len(s) + k
         /\ \A i \in 1 .. Len(s) + k : (s \o SubSeq(t, 1, k))[i] = (s \o t)[i]
         /\ ToSet(s) \subseteq ToSet(s \o SubSeq(t, 1, k))
  <1> DEFINE b == SubSeq(t, 1, k)
  <1>1. Len(s) \in Nat /\ Len(t) \in Nat /\ k \in Nat /\ k =< Len(t)
    OBVIOUS
  <1>2. \A i \in 1 .. k : t[i] \in Events
    BY <1>1, ElementOfSeq
  <1>3. /\ b \in Seq(Events)
        /\ Len(b) = IF 1 <= k THEN k - 1 + 1 ELSE 0
        /\ \A i \in 1 .. k - 1 + 1 : b[i] = t[1 + i - 1]
    BY <1>1, <1>2, SubSeqProperties
  <1>4. Len(b) = k /\ \A i \in 1 .. k : b[i] = t[i]
    BY <1>1, <1>3
  <1> HIDE DEF b
  <1>5. /\ s \o b \in Seq(Events) /\ Len(s \o b) = Len(s) + Len(b)
        /\ \A i \in 1 .. Len(s) + Len(b) : (s \o b)[i] = IF i <= Len(s) THEN s[i] ELSE b[i - Len(s)]
    BY <1>3, ConcatProperties
  <1>6. \A i \in 1 .. Len(s) + Len(t) : (s \o t)[i] = IF i <= Len(s) THEN s[i] ELSE t[i - Len(s)]
    BY ConcatProperties
  <1>7. \A i \in 1 .. Len(s) + k : (s \o b)[i] = (s \o t)[i]
    <2> TAKE i \in 1 .. Len(s) + k
    <2>1. i \in 1 .. Len(s) + Len(t) /\ i \in 1 .. Len(s) + Len(b)
      BY <1>1, <1>4
    <2>2. CASE i <= Len(s)
      <3>1. (s \o b)[i] = s[i]
        BY <1>5, <2>1, <2>2
      <3>2. (s \o t)[i] = s[i]
        BY <1>6, <2>1, <2>2
      <3> QED BY <3>1, <3>2
    <2>3. CASE i > Len(s)
      <3>1. i - Len(s) \in 1 .. k
        BY <1>1, <2>3
      <3>2. b[i - Len(s)] = t[i - Len(s)]
        BY <1>4, <3>1
      <3>3. (s \o b)[i] = b[i - Len(s)] /\ (s \o t)[i] = t[i - Len(s)]
        BY <1>1, <1>5, <1>6, <2>1, <2>3
      <3> QED BY <3>2, <3>3
    <2>4. i <= Len(s) \/ i > Len(s)
      BY <1>1
    <2> QED BY <2>2, <2>3, <2>4
  <1>8. ToSet(s) \subseteq ToSet(s \o b)
    BY <1>3, ConcatEvents
  <1> QED BY <1>4, <1>5, <1>7, <1>8 DEF b

\* Publishing some of a tracker's events beyond the first n keeps the log
\* below the next event's number; if they are later than all of it, in order.
LEMMA PublishSomeFacts ==
  ASSUME TypeOK, Numbered, NEW n \in Nat, PublishSome(Beyond(n, tracker))
  PROVE  /\ published' \in Seq(Events)
         /\ \A i \in 1 .. Len(published') : published'[i].id =< logged
         /\ ToSet(published) \subseteq ToSet(published')
         /\ InOrder(published \o Beyond(n, tracker)) => InOrder(published')
  <1> DEFINE added == Beyond(n, tracker)
             full == published \o added
  <1>1. /\ published \in Seq(Events) /\ tracker \in Seq(Events) /\ logged \in Nat
        /\ Len(published) \in Nat
    BY Types
  <1>2. /\ added \in Seq(Events) /\ Len(added) \in Nat
        /\ \A i \in 1 .. Len(added) : \E j \in 1 .. Len(tracker) : added[i] = tracker[j]
    BY <1>1, BeyondFacts, BeyondEvents
  <1>3. PICK k \in 0 .. Len(added) : published' = published \o SubSeq(added, 1, k)
    BY DEF PublishSome
  <1> HIDE DEF added
  <1>4. /\ published' \in Seq(Events) /\ Len(published') = Len(published) + k
        /\ \A i \in 1 .. Len(published) + k : published'[i] = full[i]
        /\ ToSet(published) \subseteq ToSet(published')
    BY <1>1, <1>2, <1>3, PartOfConcat
  <1>5. /\ full \in Seq(Events) /\ Len(full) = Len(published) + Len(added)
        /\ \A i \in 1 .. Len(published) + Len(added) :
             full[i] = IF i <= Len(published) THEN published[i] ELSE added[i - Len(published)]
    BY <1>1, <1>2, ConcatProperties
  <1> HIDE DEF full
  <1>6. \A i \in 1 .. Len(full) : full[i].id =< logged
    <2> TAKE i \in 1 .. Len(full)
    <2>1. CASE i <= Len(published)
      BY <1>1, <1>2, <1>5, <2>1 DEF Numbered
    <2>2. CASE i > Len(published)
      <3>1. i - Len(published) \in 1 .. Len(added) /\ full[i] = added[i - Len(published)]
        BY <1>1, <1>2, <1>5, <2>2
      <3> QED BY <1>2, <3>1 DEF Numbered
    <2> QED BY <1>1, <2>1, <2>2
  <1>7. \A i \in 1 .. Len(published') : i \in 1 .. Len(full) /\ published'[i] = full[i]
    BY <1>1, <1>2, <1>4, <1>5
  <1>8. InOrder(full) => InOrder(published')
    BY <1>7 DEF InOrder
  <1> QED BY <1>4, <1>6, <1>7, <1>8 DEF full, added

-----------------------------------------------------------------------------
(* The invariant is inductive.                                              *)

LEMMA InitIInv == Init => IInv
  <1> SUFFICES ASSUME Init PROVE IInv
    OBVIOUS
  <1> USE DEF Init
  <1>1. TypeOK
    <2>1. 0 \in 0 .. MaxRequests /\ 0 \in 0 .. MaxFaults
      BY BoundsAssumption
    <2>2. <<>> \in Seq(Events)
      BY EmptySeq
    <2>3. {primary, fallback, published, tracker, goal, kept} \subseteq Seq(Events)
      BY <2>2
    <2> QED BY <2>1, <2>3 DEF TypeOK, PCs
  <1>2. Len(<<>>) = 0 /\ ToSet(<<>>) = {}
    BY EmptySeq DEF ToSet
  <1>3. InOrder(primary) /\ InOrder(tracker) /\ InOrder(published)
    BY DEF InOrder
  <1>4. PublishedFirst
    BY <1>2 DEF PublishedFirst
  <1>5. Numbered
    BY DEF Numbered
  <1> QED BY <1>1, <1>3, <1>4, <1>5 DEF IInv, AddsLater, UnknownIsEmpty,
                SavesGoal, StreamedFirst, Continues, PublishesLater, Serving

\* get_or_create_tracker of a conversation that is found.
LEMMA FetchKeeps == IInv /\ Fetch => IInv'
  <1> SUFFICES ASSUME IInv, Fetch PROVE IInv'
    OBVIOUS
  <1> USE DEF Fetch, BeginFetch, Begin, IInv
  <1>1. /\ primary \in Seq(Events) /\ published \in Seq(Events)
        /\ requests \in Nat /\ requests' \in 0 .. MaxRequests
    BY Types, BoundsAssumption
  <1>2. /\ Retrieved \in Seq(Events)
        /\ ~Appends => Retrieved = primary
        /\ ToSet(Retrieved) \subseteq ToSet(primary)
        /\ InOrder(Retrieved)
    BY <1>1, RetrievedFacts
  <1>3. tracker' = Retrieved /\ Retrieved' = Retrieved /\ Appends' = Appends
    BY DEF Retrieved, Appends
  <1>4. TypeOK'
    BY <1>1, <1>2, <1>3 DEF TypeOK, PCs
  <1>5. InOrder(primary)' /\ InOrder(tracker)'
    BY <1>2, <1>3 DEF InOrder
  <1>6. Numbered'
    <2>1. \A i \in 1 .. Len(Retrieved) : \E j \in 1 .. Len(primary) : Retrieved[i] = primary[j]
      <3>1. DOMAIN Retrieved = 1 .. Len(Retrieved) /\ DOMAIN primary = 1 .. Len(primary)
        BY <1>1, <1>2, LenProperties
      <3> QED BY <1>2, <3>1 DEF ToSet
    <2> QED BY <1>3, <2>1 DEF Numbered
  <1>7. AddsLater' /\ PublishesLater'
    BY <1>2, <1>3 DEF AddsLater, PublishesLater, InOrder
  <1>8. SavesGoal'
    BY <1>3 DEF SavesGoal
  <1>9. StreamedFirst' /\ UnknownIsEmpty' /\ PublishedFirst'
    BY <1>3 DEF StreamedFirst, UnknownIsEmpty, PublishedFirst
  <1>10. Continues'
    <2>1. Len(primary) \in Nat
      BY <1>1
    <2> QED BY <1>2, <1>3, <2>1 DEF Continues
  <1> QED BY <1>4, <1>5, <1>6, <1>7, <1>8, <1>9, <1>10

\* create_tracker, with the primary store or with the fallback: what it saves
\* is empty, and only a failure makes that change the primary store.
LEMMA CreateKeeps == IInv /\ (Create \/ CreateInFallback) => IInv'
  <1> SUFFICES ASSUME IInv, Create \/ CreateInFallback PROVE IInv'
    OBVIOUS
  <1> USE DEF BeginFetch, Begin, IInv
  <1>1. /\ primary \in Seq(Events) /\ published \in Seq(Events) /\ faults \in Nat
        /\ requests \in Nat /\ requests' \in 0 .. MaxRequests /\ MaxFaults \in Nat
    BY Types, BoundsAssumption DEF Create, CreateInFallback
  <1>2. Stored(<<>>) = IF Appends THEN primary ELSE <<>>
    BY <1>1, StoredEmpty
  <1>3. /\ pc' = "fetched" /\ tracker' = <<>> /\ fallback' \in {fallback, <<>>}
        /\ \/ primary' = Stored(<<>>) /\ known' = TRUE
           \/ UNCHANGED <<primary, known>>
        /\ UNCHANGED <<kind, published, goal, kept, replaced, logged>>
    BY DEF Create, CreateInFallback
  <1>4. /\ faults' \in 0 .. MaxFaults /\ faults' >= faults
        /\ Found => faults' >= 1
        /\ Found /\ primary' # Stored(<<>>) => faults' >= 2
    <2>1. faults \in 0 .. MaxFaults
      BY DEF TypeOK
    <2>2. CASE Create
      BY <1>1, <2>1, <2>2 DEF Create, Missing, Fails
    <2>3. CASE CreateInFallback
      BY <1>1, <2>1, <2>3 DEF CreateInFallback
    <2> QED BY <2>2, <2>3
  <1>5. <<>> \in Seq(Events) /\ Len(<<>>) = 0 /\ ToSet(<<>>) = {} /\ InOrder(<<>>)
    BY EmptySeq DEF ToSet, InOrder
  <1>6. Appends' = Appends /\ primary' \in {primary, <<>>} /\ primary' \in Seq(Events)
    BY <1>1, <1>2, <1>3, <1>5 DEF Appends
  <1>7. ~Found => primary = <<>>
    BY DEF Found, UnknownIsEmpty
  <1>8. TypeOK'
    <2>1. {primary', fallback', published', tracker', goal', kept'} \subseteq Seq(Events)
      BY <1>3, <1>5, <1>6, Types
    <2> QED BY <1>1, <1>3, <1>4, <2>1 DEF TypeOK, PCs
  <1>9. InOrder(primary)' /\ InOrder(tracker)'
    <2>1. InOrder(primary') /\ InOrder(tracker')
      BY <1>3, <1>5, <1>6
    <2> QED BY <2>1 DEF InOrder
  <1>10. Numbered'
    BY <1>3, <1>5, <1>6 DEF Numbered
  <1>11. AddsLater' /\ StreamedFirst'
    BY <1>3, <1>5 DEF AddsLater, StreamedFirst
  <1>12. UnknownIsEmpty'
    BY <1>3 DEF UnknownIsEmpty
  <1>13. SavesGoal'
    <2> SUFFICES ASSUME faults' = 0 PROVE SavesGoal'
      BY DEF SavesGoal
    <2>1. faults = 0 /\ ~Found
      BY <1>1, <1>4
    <2>2. primary = <<>> /\ primary' = <<>>
      BY <1>6, <1>7, <2>1
    <2>3. Retrieved' = <<>>
      <3>1. SinceLastSession(primary) = SinceLastSession(primary')
        BY <2>2
      <3>2. Retrieved = <<>>
        BY <1>1, <2>2, RetrievedFacts
      <3> QED BY <1>6, <2>2, <3>1, <3>2 DEF Retrieved
    <2> QED BY <1>3, <1>6, <2>1, <2>2, <2>3 DEF SavesGoal
  <1>14. Continues'
    <2> SUFFICES ASSUME ~Appends, faults' < 2 PROVE Continues'
      BY <1>6 DEF Continues
    <2>1. primary' = <<>>
      BY <1>2, <1>4, <1>6, <1>7
    <2> QED BY <1>3, <1>5, <2>1 DEF Continues
  <1>15. PublishedFirst'
    <2>1. ToSet(primary') \subseteq ToSet(primary)
      BY <1>5, <1>6
    <2>2. PublishedFirst' = (Appends \/ (~replaced /\ faults' < 2) => ToSet(primary') \subseteq ToSet(published))
      BY <1>3, <1>6 DEF PublishedFirst, ToSet
    <2> QED BY <1>1, <1>4, <2>1, <2>2 DEF PublishedFirst
  <1>16. PublishesLater'
    BY <1>1, <1>3, <1>4 DEF PublishesLater, InOrder
  <1> QED BY <1>8, <1>9, <1>10, <1>11, <1>12, <1>13, <1>14, <1>15, <1>16

\* The request's events.
LEMMA LogEventsKeeps == IInv /\ LogEvents => IInv'
  <1> SUFFICES ASSUME IInv, LogEvents PROVE IInv'
    OBVIOUS
  <1> USE DEF IInv
  <1>0. /\ pc = "fetched" /\ pc' = "logged"
        /\ UNCHANGED <<kind, primary, known, fallback, published, kept, replaced, requests, faults>>
    BY DEF LogEvents
  <1>1. /\ primary \in Seq(Events) /\ published \in Seq(Events) /\ tracker \in Seq(Events)
        /\ kept \in Seq(Events) /\ logged \in Nat /\ faults \in Nat
    BY Types
  <1>2. PICK new \in {NewSession} \union {Plain(n) : n \in 1 .. 2} :
          tracker' = tracker \o new /\ goal' = kept \o new /\ logged' = logged + Len(new)
    BY DEF LogEvents
  <1>3. /\ new \in Seq(Events) /\ Len(new) \in 1 .. 3 /\ InOrder(new)
        /\ \A i \in 1 .. Len(new) : new[i].id = logged + i
    BY <1>1, <1>2, FreshEvents
  <1>4. /\ tracker' \in Seq(Events)
        /\ Len(tracker') = Len(tracker) + Len(new)
        /\ \A i \in 1 .. Len(tracker) + Len(new) :
             tracker'[i] = IF i <= Len(tracker) THEN tracker[i] ELSE new[i - Len(tracker)]
    BY <1>1, <1>2, <1>3, ConcatProperties
  <1>5. Len(tracker) \in Nat /\ Len(new) \in Nat /\ Len(primary) \in Nat /\ Len(published) \in Nat
    BY <1>1, <1>3
  <1>6. /\ \A i \in 1 .. Len(primary) : primary[i].id =< logged /\ primary[i].id \in Nat
        /\ \A i \in 1 .. Len(published) : published[i].id =< logged /\ published[i].id \in Nat
        /\ \A i \in 1 .. Len(tracker) : tracker[i].id =< logged /\ tracker[i].id \in Nat
    BY <1>1, Ids DEF Numbered
  <1>7. \A i \in 1 .. Len(tracker') :
          \/ i <= Len(tracker) /\ tracker'[i] = tracker[i]
          \/ i > Len(tracker) /\ tracker'[i].id > logged /\ tracker'[i].id =< logged'
    <2> SUFFICES ASSUME NEW i \in 1 .. Len(tracker'), i > Len(tracker)
                 PROVE  tracker'[i].id > logged /\ tracker'[i].id =< logged'
      BY <1>4, <1>5
    <2>1. i - Len(tracker) \in 1 .. Len(new) /\ tracker'[i] = new[i - Len(tracker)]
      BY <1>4, <1>5
    <2>2. tracker'[i].id = logged + (i - Len(tracker))
      BY <1>3, <2>1
    <2> QED BY <1>1, <1>2, <1>5, <2>1, <2>2
  <1>8. Retrieved' = Retrieved /\ Appends' = Appends
    BY <1>0 DEF Retrieved, Appends
  <1>9. Retrieved \in Seq(Events) /\ Len(Retrieved) \in Nat
    BY <1>1, RetrievedFacts
  <1>10. TypeOK'
    <2>1. goal' \in Seq(Events) /\ logged' \in Nat
      BY <1>1, <1>2, <1>3, ConcatProperties
    <2>2. {primary', fallback', published', tracker', goal', kept'} \subseteq Seq(Events)
      BY <1>0, <1>4, <2>1, Types
    <2> QED BY <1>0, <2>1, <2>2 DEF TypeOK, PCs
  <1>11. InOrder(primary)' /\ InOrder(tracker)'
    <2>1. InOrder(primary')
      BY <1>0 DEF InOrder
    <2>2. InOrder(tracker')
      <3> SUFFICES ASSUME NEW i \in 1 .. Len(tracker'), NEW j \in 1 .. Len(tracker'), i < j
                   PROVE  tracker'[i].id < tracker'[j].id
        BY DEF InOrder
      <3>1. CASE j <= Len(tracker)
        <4>1. i \in 1 .. Len(tracker) /\ j \in 1 .. Len(tracker)
          BY <1>5, <3>1
        <4> QED BY <1>4, <1>5, <4>1 DEF InOrder
      <3>2. CASE i <= Len(tracker) /\ j > Len(tracker)
        <4>1. i \in 1 .. Len(tracker) /\ tracker'[i] = tracker[i] /\ tracker'[j].id > logged
          BY <1>4, <1>5, <1>7, <3>2
        <4>2. tracker'[j].id \in Nat
          BY <1>4, Ids
        <4> QED BY <1>1, <1>6, <4>1, <4>2
      <3>3. CASE i > Len(tracker)
        <4>1. /\ i - Len(tracker) \in 1 .. Len(new) /\ tracker'[i] = new[i - Len(tracker)]
              /\ j - Len(tracker) \in 1 .. Len(new) /\ tracker'[j] = new[j - Len(tracker)]
          BY <1>4, <1>5, <3>3
        <4>2. tracker'[i].id = logged + (i - Len(tracker)) /\ tracker'[j].id = logged + (j - Len(tracker))
          BY <1>3, <4>1
        <4> QED BY <1>1, <1>5, <4>2
      <3> QED BY <1>4, <1>5, <3>1, <3>2, <3>3
    <2> QED BY <2>1, <2>2 DEF InOrder
  <1>12. Numbered'
    <2>1. logged' \in Nat /\ logged' > logged
      <3>1. logged' = logged + Len(new)
        BY <1>2
      <3>2. Len(new) \in 1 .. 3
        BY <1>3
      <3>3. logged \in Nat
        BY <1>1
      <3> QED BY <3>1, <3>2, <3>3
    <2>2. \A i \in 1 .. Len(tracker') : tracker'[i].id =< logged'
      <3> TAKE i \in 1 .. Len(tracker')
      <3>1. CASE i <= Len(tracker) /\ tracker'[i] = tracker[i]
        BY <1>1, <1>4, <1>5, <1>6, <2>1, <3>1
      <3> QED BY <1>7, <3>1
    <2> QED BY <1>0, <1>1, <1>6, <2>1, <2>2 DEF Numbered
  <1>13. AddsLater'
    <2> SUFFICES ASSUME Appends,
                        NEW i \in 1 .. Len(tracker'), i > Len(Retrieved),
                        NEW j \in 1 .. Len(primary)
                 PROVE  primary[j].id < tracker'[i].id
      BY <1>0, <1>8 DEF AddsLater
    <2>1. CASE i <= Len(tracker) /\ tracker'[i] = tracker[i]
      <3>1. i \in 1 .. Len(tracker)
        BY <1>4, <1>5, <2>1
      <3> QED BY <1>0, <2>1, <3>1 DEF AddsLater, Serving
    <2>2. CASE tracker'[i].id > logged
      <3>1. tracker'[i].id \in Nat
        BY <1>4, Ids
      <3>2. logged \in Nat /\ primary[j].id \in Nat /\ primary[j].id =< logged
        BY <1>1, <1>6
      <3> HIDE DEF IInv
      <3> QED BY <2>2, <3>1, <3>2
    <2> QED BY <1>7, <2>1, <2>2
  <1>14. UnknownIsEmpty' /\ StreamedFirst' /\ PublishedFirst'
    BY <1>0, <1>8 DEF UnknownIsEmpty, StreamedFirst, PublishedFirst
  <1>15. SavesGoal'
    <2> SUFFICES ASSUME faults = 0, ~(Appends /\ replaced)
                 PROVE  goal' = Stored(tracker)'
      BY <1>0, <1>8 DEF SavesGoal
    <2>1. tracker = Retrieved /\ primary = kept
      BY <1>0 DEF SavesGoal
    <2>2. Beyond(Len(Retrieved), tracker') = new
      BY <1>1, <1>2, <1>3, <2>1, BeyondConcat
    <2>3. ~Appends => Retrieved = primary
      BY <1>1, RetrievedFacts
    <2> QED BY <1>0, <1>2, <1>8, <2>1, <2>2, <2>3 DEF Stored
  <1>16. Continues'
    <2> SUFFICES ASSUME ~Appends, ~replaced, faults < 2
                 PROVE  /\ Len(primary) =< Len(tracker')
                        /\ \A i \in 1 .. Len(primary) : tracker'[i] = primary[i]
      BY <1>0, <1>8 DEF Continues
    <2>1. Len(primary) =< Len(tracker) /\ \A i \in 1 .. Len(primary) : tracker[i] = primary[i]
      BY <1>0 DEF Continues, Serving
    <2> QED BY <1>4, <1>5, <2>1
  <1>17. PublishesLater'
    <2> SUFFICES ASSUME faults = 0,
                        NEW i \in 1 .. Len(tracker'), i > Len(Retrieved),
                        NEW j \in 1 .. Len(published)
                 PROVE  published[j].id < tracker'[i].id
      BY <1>0, <1>8 DEF PublishesLater, InOrder
    <2>1. i > Len(tracker)
      BY <1>0 DEF SavesGoal
    <2>2. tracker'[i].id > logged /\ tracker'[i].id \in Nat
      <3>1. tracker'[i].id \in Nat
        BY <1>4, Ids
      <3>2. tracker'[i].id > logged
        BY <1>5, <1>7, <2>1
      <3> QED BY <3>1, <3>2
    <2>3. logged \in Nat /\ published[j].id \in Nat /\ published[j].id =< logged
      BY <1>1, <1>6
    <2> HIDE DEF IInv
    <2> QED BY <2>2, <2>3
  <1> QED BY <1>10, <1>11, <1>12, <1>13, <1>14, <1>15, <1>16, <1>17

\* PUT tracker/events: all events of the tracker are new.
LEMMA ReplaceEventsKeeps == IInv /\ ReplaceEvents => IInv'
  <1> SUFFICES ASSUME IInv, ReplaceEvents PROVE IInv'
    OBVIOUS
  <1> USE DEF IInv
  <1>0. /\ pc = "idle" /\ pc' = "logged" /\ replaced' = TRUE
        /\ UNCHANGED <<kind, primary, known, fallback, published, kept, faults>>
        /\ requests \in Nat /\ requests' \in 0 .. MaxRequests
    BY Types, BoundsAssumption DEF ReplaceEvents, Begin
  <1>1. /\ primary \in Seq(Events) /\ published \in Seq(Events)
        /\ logged \in Nat /\ Len(primary) \in Nat /\ Len(published) \in Nat
    BY Types
  <1>2. PICK new \in {NewSession, Plain(1)} :
          tracker' = new /\ goal' = new /\ logged' = logged + Len(new)
    BY DEF ReplaceEvents
  <1>3. /\ tracker' \in Seq(Events) /\ Len(tracker') \in 1 .. 3 /\ InOrder(tracker')
        /\ \A i \in 1 .. Len(tracker') : tracker'[i].id = logged + i
        /\ goal' = tracker' /\ logged' = logged + Len(tracker')
    <2>1. new \in {NewSession} \union {Plain(n) : n \in 1 .. 2}
      OBVIOUS
    <2> HIDE DEF IInv
    <2>2. /\ new \in Seq(Events) /\ Len(new) \in 1 .. 3 /\ InOrder(new)
          /\ \A i \in 1 .. Len(new) : new[i].id = logged + i
      BY <1>1, <2>1, FreshEvents
    <2> QED BY <1>2, <2>2
  <1>4. /\ \A i \in 1 .. Len(primary) : primary[i].id =< logged /\ primary[i].id \in Nat
        /\ \A i \in 1 .. Len(published) : published[i].id =< logged /\ published[i].id \in Nat
    BY <1>1, Ids DEF Numbered
  <1>5. \A i \in 1 .. Len(tracker') : tracker'[i].id > logged /\ tracker'[i].id =< logged'
    BY <1>1, <1>3
  <1>6. logged' \in Nat /\ logged' > logged
    <2>1. logged' = logged + Len(tracker')
      BY <1>3
    <2>2. Len(tracker') \in 1 .. 3
      BY <1>3
    <2>3. logged \in Nat
      BY <1>1
    <2> QED BY <2>1, <2>2, <2>3
  <1>7. Retrieved' = Retrieved /\ Appends' = Appends
    BY <1>0 DEF Retrieved, Appends
  <1>8. TypeOK'
    <2>1. {primary', fallback', published', tracker', goal', kept'} \subseteq Seq(Events)
      BY <1>0, <1>3, Types
    <2> QED BY <1>0, <1>6, <2>1 DEF TypeOK, PCs
  <1>9. InOrder(primary)' /\ InOrder(tracker)'
    BY <1>0, <1>3 DEF InOrder
  <1>10. Numbered'
    BY <1>0, <1>1, <1>4, <1>5, <1>6 DEF Numbered
  <1>11. AddsLater' /\ PublishesLater'
    <2>1. \A i \in 1 .. Len(tracker') :
            /\ \A j \in 1 .. Len(primary) : primary[j].id < tracker'[i].id
            /\ \A j \in 1 .. Len(published) : published[j].id < tracker'[i].id
      <3> TAKE i \in 1 .. Len(tracker')
      <3>1. tracker'[i].id \in Nat /\ tracker'[i].id > logged
        BY <1>3, <1>5, Ids
      <3>2. logged \in Nat
        BY <1>1
      <3> QED BY <1>4, <3>1, <3>2
    <2> QED BY <1>0, <1>7, <2>1 DEF AddsLater, PublishesLater, InOrder
  <1>12. UnknownIsEmpty' /\ StreamedFirst' /\ Continues' /\ PublishedFirst'
    BY <1>0, <1>7 DEF UnknownIsEmpty, StreamedFirst, Continues, PublishedFirst
  <1>13. SavesGoal'
    BY <1>0, <1>3, <1>7 DEF SavesGoal, Stored
  <1> QED BY <1>8, <1>9, <1>10, <1>11, <1>12, <1>13

\* stream_events of the primary store.
LEMMA StreamKeeps == IInv /\ Stream => IInv'
  <1> SUFFICES ASSUME IInv, Stream PROVE IInv'
    OBVIOUS
  <1> USE DEF IInv
  <1> DEFINE added == Beyond(Len(Retrieved), tracker)
  <1>0. /\ pc = "logged" /\ pc' = "streamed" /\ published' = published \o added
        /\ UNCHANGED <<kind, primary, known, fallback, tracker, goal, kept, replaced, requests, logged, faults>>
    BY DEF Stream, NewEvents
  <1>1. /\ primary \in Seq(Events) /\ published \in Seq(Events) /\ tracker \in Seq(Events)
        /\ logged \in Nat /\ Retrieved \in Seq(Events) /\ Len(Retrieved) \in Nat
    BY Types, RetrievedFacts
  <1>2. /\ added \in Seq(Events)
        /\ \A i \in 1 .. Len(added) : \E j \in 1 .. Len(tracker) : added[i] = tracker[j]
    BY <1>1, BeyondFacts, BeyondEvents
  <1>3. Retrieved' = Retrieved /\ Appends' = Appends
    BY <1>0 DEF Retrieved, Appends
  <1>4. faults = 0 => InOrder(published')
    <2> SUFFICES ASSUME faults = 0 PROVE InOrder(published')
      OBVIOUS
    <2>1. /\ InOrder(published) /\ InOrder(tracker)
          /\ \A i \in 1 .. Len(tracker) : i > Len(Retrieved) =>
               \A j \in 1 .. Len(published) : published[j].id < tracker[i].id
      BY <1>0 DEF PublishesLater
    <2> QED BY <1>0, <1>1, <2>1, AddedInOrder
  <1> HIDE DEF added
  <1>5. /\ published' \in Seq(Events)
        /\ Len(published') = Len(published) + Len(added)
        /\ \A i \in 1 .. Len(published) + Len(added) : published'[i] =
             IF i <= Len(published) THEN published[i] ELSE added[i - Len(published)]
    BY <1>0, <1>1, <1>2, ConcatProperties
  <1>6. ToSet(published') = ToSet(published) \union ToSet(added)
    BY <1>0, <1>1, <1>2, ConcatEvents
  <1>7. TypeOK'
    <2>1. {primary', fallback', published', tracker', goal', kept'} \subseteq Seq(Events)
      BY <1>0, <1>5, Types
    <2> QED BY <1>0, <2>1 DEF TypeOK, PCs
  <1>8. InOrder(primary)' /\ InOrder(tracker)'
    BY <1>0 DEF InOrder
  <1>9. Numbered'
    <2>1. \A i \in 1 .. Len(published') : published'[i].id =< logged
      <3> TAKE i \in 1 .. Len(published')
      <3>1. CASE i <= Len(published)
        <4>1. i \in 1 .. Len(published) /\ published'[i] = published[i]
          BY <1>1, <1>2, <1>5, <3>1
        <4> QED BY <4>1 DEF Numbered
      <3>2. CASE i > Len(published)
        <4>1. i - Len(published) \in 1 .. Len(added)
          BY <1>1, <1>2, <1>5, <3>2
        <4>2. published'[i] = added[i - Len(published)]
          BY <1>1, <1>5, <3>2
        <4> QED BY <1>2, <4>1, <4>2 DEF Numbered
      <3> QED BY <1>1, <1>5, <3>1, <3>2
    <2> QED BY <1>0, <2>1 DEF Numbered
  <1>10. AddsLater' /\ UnknownIsEmpty' /\ Continues'
    BY <1>0, <1>3 DEF AddsLater, UnknownIsEmpty, Continues, Serving
  <1>11. SavesGoal'
    BY <1>0, <1>3 DEF SavesGoal, Stored
  <1>12. StreamedFirst'
    <2>1. Beyond(Len(Retrieved), tracker)' = added
      BY <1>0, <1>3 DEF Beyond, added
    <2> QED BY <1>6, <2>1 DEF StreamedFirst, ToSet
  <1>13. PublishedFirst'
    <2>1. PublishedFirst' = (Appends \/ (~replaced /\ faults < 2) => ToSet(primary) \subseteq ToSet(published'))
      BY <1>0, <1>3 DEF PublishedFirst, ToSet
    <2> QED BY <1>6, <2>1 DEF PublishedFirst
  <1>14. PublishesLater'
    BY <1>0, <1>4 DEF PublishesLater, InOrder
  <1> QED BY <1>7, <1>8, <1>9, <1>10, <1>11, <1>12, <1>13, <1>14

\* The write, and a save that fails, maybe after the write took effect: the
\* primary store is what it was or what the save makes of it.
LEMMA WriteKeeps == IInv /\ (Write \/ SaveFails) => IInv'
  <1> SUFFICES ASSUME IInv, Write \/ SaveFails PROVE IInv'
    OBVIOUS
  <1> USE DEF IInv
  <1>0. /\ pc' \in {"idle", "failed"}
        /\ tracker' \in {tracker, <<>>}
        /\ kept' \in {kept, goal}
        /\ UNCHANGED <<kind, fallback, goal, replaced, requests, logged>>
        /\ \/ UNCHANGED <<primary, known>>
           \/ pc = "streamed" /\ primary' = Stored(tracker) /\ known' = TRUE
        /\ published' = published \/ PublishSome(Beyond(Len(Retrieved), tracker))
        /\ Write => published' = published
    BY DEF Write, SaveFails, Answer, NewEvents
  <1>12. /\ published' \in Seq(Events)
         /\ \A i \in 1 .. Len(published') : published'[i].id =< logged
         /\ ToSet(published) \subseteq ToSet(published')
    <2>1. CASE published' = published
      BY <2>1, Types DEF Numbered
    <2>2. CASE PublishSome(Beyond(Len(Retrieved), tracker))
      <3>1. Len(Retrieved) \in Nat
        BY Types, RetrievedFacts
      <3> QED BY <2>2, <3>1, PublishSomeFacts
    <2> QED BY <1>0, <2>1, <2>2
  <1>1. /\ faults \in Nat /\ faults' \in 0 .. MaxFaults /\ faults' >= faults
        /\ faults' = 0 => Write
    <2>1. faults \in 0 .. MaxFaults /\ MaxFaults \in Nat
      BY BoundsAssumption DEF TypeOK
    <2>2. CASE Write
      BY <2>1, <2>2 DEF Write
    <2>3. CASE SaveFails
      BY <2>1, <2>3 DEF SaveFails, Fails
    <2> QED BY <2>2, <2>3
  <1>2. /\ primary \in Seq(Events) /\ tracker' \in Seq(Events) /\ InOrder(tracker')
        /\ <<>> \in Seq(Events) /\ Len(<<>>) = 0
    <2>1. <<>> \in Seq(Events) /\ Len(<<>>) = 0
      BY EmptySeq
    <2>2. InOrder(<<>>)
      BY <2>1 DEF InOrder
    <2>3. primary \in Seq(Events) /\ tracker \in Seq(Events)
      BY Types
    <2> QED BY <1>0, <2>1, <2>2, <2>3
  <1>3. /\ primary' \in Seq(Events) /\ InOrder(primary')
        /\ \A i \in 1 .. Len(primary') : primary'[i].id =< logged
        /\ Appends \/ (~replaced /\ faults < 2) => ToSet(primary') \subseteq ToSet(published)
    <2>1. CASE primary' = primary
      BY <1>2, <2>1 DEF Numbered, PublishedFirst
    <2>2. CASE pc = "streamed" /\ primary' = Stored(tracker)
      <3> HIDE DEF IInv
      <3> QED BY <2>2, StoredTracker
    <2> QED BY <1>0, <2>1, <2>2
  <1>4. TypeOK'
    <2>1. {primary', fallback', published', tracker', goal', kept'} \subseteq Seq(Events)
      BY <1>0, <1>2, <1>3, <1>12, Types
    <2>2. known' \in BOOLEAN
      BY <1>0 DEF TypeOK
    <2> QED BY <1>0, <1>1, <2>1, <2>2 DEF TypeOK, PCs
  <1>5. InOrder(primary)' /\ InOrder(tracker)'
    BY <1>2, <1>3 DEF InOrder
  <1>6. Numbered'
    BY <1>0, <1>2, <1>3, <1>12 DEF Numbered
  <1>7. AddsLater' /\ StreamedFirst' /\ Continues'
    BY <1>0 DEF AddsLater, StreamedFirst, Continues, Serving
  <1>8. UnknownIsEmpty'
    BY <1>0 DEF UnknownIsEmpty
  <1>9. SavesGoal'
    <2> SUFFICES ASSUME Write, faults' = 0, ~(Appends /\ replaced)
                 PROVE  pc' = "idle" /\ primary' = kept'
      BY <1>0, <1>1 DEF SavesGoal, Appends, Write, Answer
    <2>1. faults = 0 /\ pc = "streamed" /\ pc' = "idle" /\ primary' = Stored(tracker) /\ kept' = goal
      BY <1>1 DEF Write, Answer
    <2> QED BY <2>1 DEF SavesGoal
  <1>10. PublishedFirst'
    <2>1. Appends' = Appends
      BY <1>0 DEF Appends
    <2>2. PublishedFirst' = (Appends \/ (~replaced /\ faults' < 2) => ToSet(primary') \subseteq ToSet(published'))
      BY <1>0, <2>1 DEF PublishedFirst, ToSet
    <2>3. faults' < 2 => faults < 2
      BY <1>1
    <2> QED BY <1>3, <1>12, <2>2, <2>3
  <1>11. PublishesLater'
    BY <1>0, <1>1 DEF PublishesLater, InOrder
  <1> QED BY <1>4, <1>5, <1>6, <1>7, <1>8, <1>9, <1>10, <1>11

\* What a save to the fallback, or a crash, leaves is the primary store.
LEMMA EndKeeps == IInv /\ (SaveToFallback \/ Crash) => IInv'
  <1> SUFFICES ASSUME IInv, SaveToFallback \/ Crash PROVE IInv'
    OBVIOUS
  <1> USE DEF IInv
  <1> DEFINE added == Beyond(Len(fallback), tracker)
  <1>0. /\ pc' = "idle" /\ tracker' = <<>>
        /\ fallback' \in {tracker, <<>>} /\ goal' \in {goal, kept} /\ kept' \in {kept, goal}
        /\ UNCHANGED <<kind, primary, known, replaced, requests, logged, faults>>
        /\ faults = 0 => kept' = kept
        /\ \/ published' = published
           \/ published' = published \o added /\ faults # 0
           \/ PublishSome(added) /\ faults # 0
           \/ pc = "logged" /\ PublishSome(Beyond(Len(Retrieved), tracker))
    BY DEF SaveToFallback, Crash, Answer, SavesGoal, NewEvents, NewToFallback
  <1>1. /\ primary \in Seq(Events) /\ published \in Seq(Events) /\ tracker \in Seq(Events)
        /\ fallback \in Seq(Events) /\ Len(fallback) \in Nat
        /\ <<>> \in Seq(Events) /\ Len(<<>>) = 0
    BY Types, EmptySeq
  <1>2. /\ added \in Seq(Events)
        /\ \A i \in 1 .. Len(added) : \E j \in 1 .. Len(tracker) : added[i] = tracker[j]
    BY <1>1, BeyondFacts, BeyondEvents
  <1> HIDE DEF added
  <1>3. /\ published \o added \in Seq(Events)
        /\ Len(published \o added) = Len(published) + Len(added)
        /\ \A i \in 1 .. Len(published) + Len(added) : (published \o added)[i] =
             IF i <= Len(published) THEN published[i] ELSE added[i - Len(published)]
        /\ ToSet(published) \subseteq ToSet(published \o added)
    BY <1>1, <1>2, ConcatProperties, ConcatEvents
  <1>4. /\ published' \in Seq(Events)
        /\ \A i \in 1 .. Len(published') : published'[i].id =< logged
        /\ ToSet(published) \subseteq ToSet(published')
    <2>1. CASE published' = published
      BY <1>1, <2>1 DEF Numbered
    <2>2. CASE published' = published \o added
      <3> SUFFICES ASSUME NEW i \in 1 .. Len(published) + Len(added)
                   PROVE  (published \o added)[i].id =< logged
        BY <1>3, <2>2
      <3>1. CASE i <= Len(published)
        BY <1>1, <1>3, <3>1 DEF Numbered
      <3>2. CASE i > Len(published)
        <4>1. i - Len(published) \in 1 .. Len(added)
          BY <1>1, <1>2, <3>2
        <4>2. (published \o added)[i] = added[i - Len(published)]
          BY <1>1, <1>3, <3>2
        <4> QED BY <1>2, <4>1, <4>2 DEF Numbered
      <3> QED BY <1>1, <1>2, <3>1, <3>2
    <2>3. CASE PublishSome(added)
      BY <1>1, <2>3, PublishSomeFacts DEF added
    <2>4. CASE PublishSome(Beyond(Len(Retrieved), tracker))
      <3>1. Len(Retrieved) \in Nat
        BY Types, RetrievedFacts
      <3> QED BY <2>4, <3>1, PublishSomeFacts
    <2> QED BY <1>0, <2>1, <2>2, <2>3, <2>4
  <1>5. TypeOK'
    <2>1. {primary', fallback', published', tracker', goal', kept'} \subseteq Seq(Events)
      BY <1>0, <1>1, <1>4, Types
    <2> QED BY <1>0, <2>1 DEF TypeOK, PCs
  <1>6. InOrder(primary)' /\ InOrder(tracker)'
    BY <1>0, <1>1 DEF InOrder
  <1>7. Numbered'
    BY <1>0, <1>1, <1>4 DEF Numbered
  <1>8. AddsLater' /\ UnknownIsEmpty' /\ StreamedFirst' /\ Continues'
    BY <1>0 DEF AddsLater, UnknownIsEmpty, StreamedFirst, Continues, Serving
  <1>9. SavesGoal'
    BY <1>0 DEF SavesGoal, Appends
  <1>10. PublishedFirst'
    <2>1. Appends' = Appends
      BY <1>0 DEF Appends
    <2>2. PublishedFirst' = (Appends \/ (~replaced /\ faults < 2) => ToSet(primary) \subseteq ToSet(published'))
      BY <1>0, <2>1 DEF PublishedFirst, ToSet
    <2> QED BY <1>4, <2>2 DEF PublishedFirst
  <1>11. PublishesLater'
    <2> SUFFICES ASSUME faults = 0 PROVE InOrder(published')
      BY <1>0 DEF PublishesLater, InOrder
    <2>1. CASE published' = published
      BY <2>1 DEF PublishesLater
    <2>2. CASE pc = "logged" /\ PublishSome(Beyond(Len(Retrieved), tracker))
      <3>1. Retrieved \in Seq(Events) /\ Len(Retrieved) \in Nat
        BY Types, RetrievedFacts
      <3>2. InOrder(published \o Beyond(Len(Retrieved), tracker))
        BY <1>1, <2>2, <3>1, AddedInOrder DEF PublishesLater
      <3> QED BY <2>2, <3>1, <3>2, PublishSomeFacts
    <2> QED BY <1>0, <2>1, <2>2
  <1> QED BY <1>5, <1>6, <1>7, <1>8, <1>9, <1>10, <1>11

LEMMA NextKeeps == IInv /\ [Next]_vars => IInv'
  <1> SUFFICES ASSUME IInv, [Next]_vars PROVE IInv'
    OBVIOUS
  <1>1. CASE Next
    BY <1>1, FetchKeeps, CreateKeeps, LogEventsKeeps, ReplaceEventsKeeps, StreamKeeps,
       WriteKeeps, EndKeeps DEF Next
  <1>2. CASE UNCHANGED vars
    <2> USE <1>2 DEF vars, IInv
    <2>1. Retrieved' = Retrieved /\ Appends' = Appends /\ Serving' = Serving
      BY DEF Retrieved, Appends, Serving
    <2>2. TypeOK' /\ InOrder(primary)' /\ InOrder(tracker)' /\ Numbered'
      BY DEF TypeOK, InOrder, Numbered
    <2>3. AddsLater' /\ UnknownIsEmpty' /\ Continues'
      BY <2>1 DEF AddsLater, UnknownIsEmpty, Continues
    <2>4. SavesGoal'
      BY <2>1 DEF SavesGoal, Stored
    <2>5. StreamedFirst'
      BY <2>1 DEF StreamedFirst
    <2>6. PublishedFirst' /\ PublishesLater'
      BY <2>1 DEF PublishedFirst, PublishesLater, InOrder
    <2> QED BY <2>2, <2>3, <2>4, <2>5, <2>6
  <1> QED BY <1>1, <1>2

LEMMA Invariance == Spec => []IInv
  BY InitIInv, NextKeeps, PTL DEF Spec

-----------------------------------------------------------------------------
(* The theorems.                                                            *)

\* The variables keep their types.
THEOREM TypeCorrect == Spec => []TypeOK
  BY Invariance, PTL DEF IInv

\* While no call of the primary store fails, it holds after every request
\* exactly the history the answered requests made.
THEOREM StoresExactly == Spec => []StoredExactly
  <1>1. IInv => StoredExactly
    BY DEF IInv, SavesGoal, StoredExactly
  <1> QED BY <1>1, Invariance, PTL

\* Whatever fails, no event is stored twice or before an earlier one.
THEOREM StoresOnceInOrder == Spec => []StoredOnceInOrder
  <1>1. IInv => StoredOnceInOrder
    BY DEF IInv, StoredOnceInOrder
  <1> QED BY <1>1, Invariance, PTL

\* What is stored has been published, with the provisos of PublishedFirst.
THEOREM PublishesFirst == Spec => []PublishedFirst
  BY Invariance, PTL DEF IInv

\* While no call fails, the broker gets every event at most once, in order.
THEOREM PublishesOnceInOrder == Spec => []PublishedOnceInOrder
  <1>1. IInv => PublishedOnceInOrder
    BY DEF IInv, PublishesLater, PublishedOnceInOrder
  <1> QED BY <1>1, Invariance, PTL

-----------------------------------------------------------------------------
(* Sequences of events.                                                     *)

\* The elements of a sequence, as both brokers have them.
LEMMA Elements ==
  ASSUME NEW S, NEW s \in Seq(S)
  PROVE  /\ Kafka!ToSet(s) = {s[i] : i \in 1 .. Len(s)}
         /\ Pika!ToSet(s) = {s[i] : i \in 1 .. Len(s)}
  BY LenProperties DEF Kafka!ToSet, Pika!ToSet

\* Those of a sequence that was appended to.
LEMMA AppendElements ==
  ASSUME NEW s \in Seq(1 .. MaxEvents), NEW e \in 1 .. MaxEvents
  PROVE  /\ Kafka!ToSet(Append(s, e)) = Kafka!ToSet(s) \union {e}
         /\ Pika!ToSet(Append(s, e)) = Pika!ToSet(s) \union {e}
  <1> DEFINE t == Append(s, e)
  <1>1. /\ t \in Seq(1 .. MaxEvents) /\ Len(t) = Len(s) + 1 /\ Len(s) \in Nat
        /\ \A i \in 1 .. Len(s) : t[i] = s[i]
        /\ t[Len(s) + 1] = e
    BY AppendProperties
  <1> HIDE DEF t
  <1>2. {t[i] : i \in 1 .. Len(t)} = {s[i] : i \in 1 .. Len(s)} \union {e}
    <2>1. 1 .. Len(t) = (1 .. Len(s)) \union {Len(s) + 1}
      BY <1>1
    <2> QED BY <1>1, <2>1
  <1> QED BY <1>1, <1>2, Elements DEF t

-----------------------------------------------------------------------------
(* Kafka: what the producers were given comes before the event that is      *)
(* being published, in order; what a producer is done with is in the topic  *)
(* or given up; and as long as nothing failed, the buffer has taken every   *)
(* event it could.                                                          *)

KafkaTypes ==
  /\ Kafka!TypeOK
  /\ producer = 0 <=> handed = 0
  /\ handed = 0 => retries = 0

Increasing(s) == \A i, j \in 1 .. Len(s) : i < j => s[i] < s[j]

\* The events published so far; one that is being published is not.
Before == IF retries > 0 THEN handed - 1 ELSE handed

KafkaOrder ==
  /\ Increasing(given)
  /\ \A i \in 1 .. Len(given) : given[i] =< Before

KafkaSettled == \A i \in settled : buffer[i] \in topic \union {l[1] : l \in lost}

KafkaFills ==
  failures = 0 =>
    /\ up
    /\ Len(buffer) = IF Before < BufferLimit THEN Before ELSE BufferLimit
    /\ \A i \in 1 .. Len(buffer) : buffer[i] =< BufferLimit
    /\ \A e \in topic : e =< BufferLimit
    /\ \A l \in lost : l[1] > BufferLimit

KafkaInv == KafkaTypes /\ KafkaOrder /\ KafkaSettled /\ KafkaFills /\ Kafka!NothingForgotten

LEMMA KafkaNumbers ==
  ASSUME KafkaTypes
  PROVE  /\ failures \in Nat /\ handed \in Nat /\ handed =< MaxEvents
         /\ retries \in Nat /\ retries =< Retries /\ producer \in Nat
         /\ Retries \in Nat /\ Retries > 0 /\ BufferLimit \in Nat /\ BufferLimit > 0
         /\ MaxEvents \in Nat /\ MaxFailures \in Nat
         /\ Before \in Nat /\ Before =< handed
  <1>1. {MaxEvents, MaxFailures} \subseteq Nat /\ {Retries, BufferLimit} \subseteq Nat \ {0}
    BY BrokersAssumption
  <1>2. /\ failures \in 0 .. MaxFailures + 1 /\ handed \in 0 .. MaxEvents
        /\ retries \in 0 .. Retries /\ producer \in Nat /\ (handed = 0 => retries = 0)
    BY DEF KafkaTypes, Kafka!TypeOK
  <1> QED BY <1>1, <1>2 DEF Before

LEMMA KafkaSequences ==
  ASSUME KafkaTypes
  PROVE  /\ buffer \in Seq(1 .. MaxEvents) /\ Len(buffer) \in Nat /\ Len(buffer) =< BufferLimit
         /\ DOMAIN buffer = 1 .. Len(buffer)
         /\ given \in Seq(1 .. MaxEvents) /\ Len(given) \in Nat
         /\ settled \subseteq 1 .. Len(buffer) /\ topic \subseteq 1 .. MaxEvents
         /\ \A i \in 1 .. Len(buffer) : buffer[i] \in 1 .. MaxEvents
         /\ \A i \in 1 .. Len(given) : given[i] \in 1 .. MaxEvents
  <1>1. /\ buffer \in Seq(1 .. MaxEvents) /\ given \in Seq(1 .. MaxEvents)
        /\ Len(buffer) =< BufferLimit /\ settled \subseteq DOMAIN buffer
        /\ topic \subseteq 1 .. MaxEvents
    BY DEF KafkaTypes, Kafka!TypeOK
  <1>2. /\ Len(buffer) \in Nat /\ Len(given) \in Nat /\ DOMAIN buffer = 1 .. Len(buffer)
        /\ \A i \in 1 .. Len(buffer) : buffer[i] \in 1 .. MaxEvents
        /\ \A i \in 1 .. Len(given) : given[i] \in 1 .. MaxEvents
    BY <1>1, LenProperties, ElementOfSeq
  <1> QED BY <1>1, <1>2

\* Given one more event, the last.
LEMMA KafkaGivesOn ==
  ASSUME KafkaTypes, KafkaOrder, handed \in 1 .. MaxEvents, Before = handed - 1
  PROVE  /\ Append(given, handed) \in Seq(1 .. MaxEvents)
         /\ Increasing(Append(given, handed))
         /\ \A i \in 1 .. Len(Append(given, handed)) : Append(given, handed)[i] =< handed
         /\ given \o <<handed>> = Append(given, handed)
         /\ given \o << >> = given
  <1> DEFINE t == Append(given, handed)
  <1>1. given \in Seq(1 .. MaxEvents) /\ MaxEvents \in Nat /\ handed \in Nat
    BY KafkaSequences, KafkaNumbers
  <1>2. /\ t \in Seq(1 .. MaxEvents) /\ Len(t) = Len(given) + 1 /\ Len(given) \in Nat
        /\ \A i \in 1 .. Len(given) : t[i] = given[i]
        /\ t[Len(given) + 1] = handed
    BY <1>1, AppendProperties
  <1>3. given \o <<handed>> = t
    BY <1>1, AppendIsConcat
  <1>6. given \o << >> = given
    BY <1>1, ConcatEmptySeq
  <1> HIDE DEF t
  <1>4. \A i \in 1 .. Len(t) : i \in 1 .. Len(given) \/ i = Len(given) + 1
    BY <1>2
  <1>5. \A i \in 1 .. Len(given) : given[i] \in Nat /\ given[i] < handed
    <2>1. \A i \in 1 .. Len(given) : given[i] \in 1 .. MaxEvents /\ given[i] =< handed - 1
      BY KafkaSequences DEF KafkaOrder
    <2> QED BY <1>1, <2>1
  <1>7. Increasing(t)
    <2> SUFFICES ASSUME NEW i \in 1 .. Len(t), NEW j \in 1 .. Len(t), i < j
                 PROVE  t[i] < t[j]
      BY DEF Increasing
    <2>1. i \in 1 .. Len(given)
      BY <1>2
    <2>2. CASE j = Len(given) + 1
      BY <1>2, <1>5, <2>1, <2>2
    <2>3. CASE j \in 1 .. Len(given)
      BY <1>2, <2>1, <2>3 DEF KafkaOrder, Increasing
    <2> QED BY <1>4, <2>2, <2>3
  <1>8. \A i \in 1 .. Len(t) : t[i] =< handed
    <2> TAKE i \in 1 .. Len(t)
    <2>1. CASE i \in 1 .. Len(given)
      <3>1. t[i] = given[i] /\ given[i] \in Nat /\ given[i] < handed
        BY <1>2, <1>5, <2>1
      <3> QED BY <1>1, <3>1
    <2>2. CASE i = Len(given) + 1
      <3>1. t[i] = handed
        BY <1>2, <2>2
      <3> QED BY <1>1, <3>1
    <2> QED BY <1>4, <2>1, <2>2
  <1> QED BY <1>2, <1>3, <1>6, <1>7, <1>8 DEF t

LEMMA KafkaInit == Kafka!Init => KafkaInv
  <1> SUFFICES ASSUME Kafka!Init PROVE KafkaInv
    OBVIOUS
  <1> USE DEF Kafka!Init
  <1>1. <<>> \in Seq(1 .. MaxEvents) /\ Len(<<>>) = 0
    BY EmptySeq
  <1>2. KafkaTypes
    <2>1. /\ MaxFailures + 1 \in Nat /\ MaxFailures \in Nat /\ MaxEvents \in Nat
          /\ Retries \in Nat /\ BufferLimit \in Nat
      BY BrokersAssumption
    <2> QED BY <1>1, <2>1 DEF KafkaTypes, Kafka!TypeOK
  <1>3. KafkaOrder /\ KafkaSettled /\ Kafka!NothingForgotten
    BY <1>1 DEF KafkaOrder, Increasing, KafkaSettled, Kafka!NothingForgotten
  <1>4. KafkaFills
    BY <1>1, BrokersAssumption DEF KafkaFills, Before
  <1> QED BY <1>2, <1>3, <1>4 DEF KafkaInv

\* The first publish of an event; it is not published yet.
LEMMA KafkaPublish == KafkaInv /\ (Kafka!FirstPublish \/ Kafka!Publish) => KafkaInv'
  <1> SUFFICES ASSUME KafkaInv, Kafka!FirstPublish \/ Kafka!Publish PROVE KafkaInv'
    OBVIOUS
  <1>0. KafkaTypes /\ KafkaOrder /\ KafkaSettled /\ KafkaFills /\ Kafka!NothingForgotten
    BY DEF KafkaInv
  <1>1. /\ handed < MaxEvents /\ handed' = handed + 1 /\ retries = 0
        /\ producer' \in Nat \ {0}
        /\ retries' \in {0, Retries}
        /\ up' = up /\ failures' = failures /\ settled' = settled
        /\ buffer' = buffer /\ topic' = topic /\ given' = given
    <2>1. CASE Kafka!FirstPublish
      <3>1. handed = 0 /\ retries = 0
        BY <1>0, <2>1 DEF Kafka!FirstPublish, KafkaTypes
      <3>2. /\ handed < MaxEvents /\ handed' = 1 /\ producer' = 1
            /\ up' = up /\ failures' = failures /\ settled' = settled
            /\ buffer' = buffer /\ topic' = topic /\ given' = given
        BY <2>1 DEF Kafka!FirstPublish
      <3>3. retries' \in {0, Retries}
        BY <2>1 DEF Kafka!FirstPublish
      <3> QED BY <3>1, <3>2, <3>3
    <2>2. CASE Kafka!Publish
      BY <1>0, <2>2, KafkaNumbers DEF Kafka!Publish
    <2> QED BY <2>1, <2>2
  <1>8. \/ retries' = Retries /\ lost' = lost
        \/ retries' = 0 /\ ~up /\ lost' = lost \union {<<handed', "not connected">>}
    <2>1. CASE Kafka!FirstPublish
      BY <2>1 DEF Kafka!FirstPublish, Kafka!Connected, Kafka!Lose
    <2>2. CASE Kafka!Publish
      BY <2>2 DEF Kafka!Publish
    <2> QED BY <2>1, <2>2
  <1>2. /\ handed \in Nat /\ MaxEvents \in Nat /\ Retries \in Nat /\ Retries > 0
        /\ Before \in Nat /\ Before = handed /\ Before' \in Nat /\ Before' >= Before
    <2>1. handed \in Nat /\ MaxEvents \in Nat /\ Retries \in Nat /\ Retries > 0
      BY <1>0, KafkaNumbers
    <2>2. Before = handed
      BY <1>1 DEF Before
    <2>3. Before' = handed \/ Before' = handed + 1
      BY <1>1, <2>1 DEF Before
    <2> QED BY <2>1, <2>2, <2>3
  <1>3. KafkaTypes'
    <2>1. handed' \in 1 .. MaxEvents
      BY <1>1, <1>2
    <2>2. lost' \subseteq (1 .. MaxEvents) \X Kafka!Causes
      <3>1. "not connected" \in Kafka!Causes
        BY DEF Kafka!Causes
      <3>2. lost \subseteq (1 .. MaxEvents) \X Kafka!Causes
        BY <1>0 DEF KafkaTypes, Kafka!TypeOK
      <3>3. <<handed', "not connected">> \in (1 .. MaxEvents) \X Kafka!Causes
        BY <2>1, <3>1
      <3> QED BY <1>8, <3>2, <3>3
    <2>3. retries' \in 0 .. Retries
      BY <1>1, <1>2
    <2> QED BY <1>0, <1>1, <2>1, <2>2, <2>3 DEF KafkaTypes, Kafka!TypeOK
  <1>4. KafkaOrder'
    <2>1. \A i \in 1 .. Len(given) : given[i] =< Before'
      BY <1>0, <1>2, KafkaSequences DEF KafkaOrder
    <2> QED BY <1>0, <1>1, <2>1 DEF KafkaOrder, Increasing
  <1>5. KafkaSettled'
    <2>1. lost \subseteq lost'
      BY <1>8
    <2> QED BY <1>0, <1>1, <2>1 DEF KafkaSettled
  <1>6. KafkaFills'
    <2>1. failures = 0 => Before' = handed
      BY <1>0, <1>1, <1>2, <1>8 DEF KafkaFills, Before
    <2> QED BY <1>0, <1>1, <1>2, <1>8, <2>1 DEF KafkaFills
  <1>7. Kafka!NothingForgotten'
    <2> DEFINE Lost == {l[1] : l \in lost}
    <2>1. \A e \in 1 .. handed : e \in topic \union Kafka!ToSet(buffer) \union Lost
      BY <1>0, <1>1 DEF Kafka!NothingForgotten
    <2>2. Lost \subseteq Lost'
      BY <1>8
    <2>3. retries' > 0 \/ handed' \in Lost'
      <3>1. CASE retries' = Retries
        BY <1>2, <3>1
      <3>2. CASE lost' = lost \union {<<handed', "not connected">>}
        <4>1. <<handed', "not connected">>[1] = handed' /\ <<handed', "not connected">> \in lost'
          BY <3>2
        <4> QED BY <4>1
      <3> QED BY <1>8, <3>1, <3>2
    <2> HIDE DEF Lost
    <2>4. topic' = topic /\ Kafka!ToSet(buffer)' = Kafka!ToSet(buffer)
      BY <1>1 DEF Kafka!ToSet
    <2>5. \A e \in 1 .. handed' : e \in 1 .. handed \/ e = handed'
      BY <1>1, <1>2
    <2>6. \A e \in 1 .. handed' :
            \/ e = handed' /\ retries' > 0
            \/ e \in topic' \union Kafka!ToSet(buffer)' \union Lost'
      BY <2>1, <2>2, <2>3, <2>4, <2>5
    <2> QED BY <2>6 DEF Kafka!NothingForgotten, Lost
  <1> QED BY <1>3, <1>4, <1>5, <1>6, <1>7 DEF KafkaInv

\* The producer takes the event.
LEMMA KafkaProduce == KafkaInv /\ Kafka!Produce => KafkaInv'
  <1> SUFFICES ASSUME KafkaInv, Kafka!Produce PROVE KafkaInv'
    OBVIOUS
  <1>0. KafkaTypes /\ KafkaOrder /\ KafkaSettled /\ KafkaFills /\ Kafka!NothingForgotten
    BY DEF KafkaInv
  <1>1. /\ retries > 0 /\ retries' = 0 /\ Len(buffer) < BufferLimit
        /\ buffer' = Append(buffer, handed) /\ given' = Append(given, handed)
        /\ up' = up /\ failures' = failures /\ handed' = handed /\ producer' = producer
        /\ settled' = settled /\ topic' = topic /\ lost' = lost
    BY DEF Kafka!Produce
  <1>2. /\ handed \in 1 .. MaxEvents /\ Before = handed - 1 /\ Before' = handed
        /\ BufferLimit \in Nat /\ Len(buffer) \in Nat /\ Retries \in Nat
    <2>1. /\ handed \in Nat /\ handed =< MaxEvents /\ retries \in Nat /\ BufferLimit \in Nat
          /\ Len(buffer) \in Nat /\ Retries \in Nat /\ MaxEvents \in Nat
      BY <1>0, KafkaNumbers, KafkaSequences
    <2>2. handed # 0
      BY <1>0, <1>1 DEF KafkaTypes
    <2>3. Before = handed - 1 /\ Before' = handed
      BY <1>1 DEF Before
    <2> QED BY <2>1, <2>2, <2>3
  <1>3. /\ buffer' \in Seq(1 .. MaxEvents)
        /\ Len(buffer') = Len(buffer) + 1
        /\ \A i \in 1 .. Len(buffer) : buffer'[i] = buffer[i]
        /\ buffer'[Len(buffer) + 1] = handed
        /\ Kafka!ToSet(buffer') = Kafka!ToSet(buffer) \union {handed}
    <2>1. buffer \in Seq(1 .. MaxEvents) /\ handed \in 1 .. MaxEvents
      BY <1>0, <1>2, KafkaSequences
    <2>2. /\ Append(buffer, handed) \in Seq(1 .. MaxEvents)
          /\ Len(Append(buffer, handed)) = Len(buffer) + 1
          /\ \A i \in 1 .. Len(buffer) : Append(buffer, handed)[i] = buffer[i]
          /\ Append(buffer, handed)[Len(buffer) + 1] = handed
      BY <2>1, AppendProperties
    <2>3. Kafka!ToSet(Append(buffer, handed)) = Kafka!ToSet(buffer) \union {handed}
      BY <2>1, AppendElements
    <2> QED BY <1>1, <2>2, <2>3
  <1>4. \A i \in 1 .. Len(buffer') : i \in 1 .. Len(buffer) \/ i = Len(buffer) + 1
    BY <1>2, <1>3
  <1>5. settled \subseteq 1 .. Len(buffer) /\ DOMAIN buffer' = 1 .. Len(buffer')
    BY <1>0, <1>3, KafkaSequences, LenProperties
  <1>11. given' \in Seq(1 .. MaxEvents)
    BY <1>0, <1>1, <1>2, KafkaGivesOn
  <1>6. KafkaTypes'
    <2>1. settled' \subseteq DOMAIN buffer'
      BY <1>1, <1>2, <1>3, <1>5
    <2> QED BY <1>0, <1>1, <1>2, <1>3, <1>11, <2>1 DEF KafkaTypes, Kafka!TypeOK
  <1>7. KafkaOrder'
    BY <1>0, <1>1, <1>2, KafkaGivesOn DEF KafkaOrder, Increasing
  <1>8. KafkaSettled'
    BY <1>0, <1>1, <1>3, <1>5 DEF KafkaSettled
  <1>9. KafkaFills'
    <2> SUFFICES ASSUME failures = 0 PROVE KafkaFills'
      BY <1>1 DEF KafkaFills
    <2>1. /\ up
          /\ Len(buffer) = IF handed - 1 < BufferLimit THEN handed - 1 ELSE BufferLimit
          /\ \A i \in 1 .. Len(buffer) : buffer[i] =< BufferLimit
          /\ \A e \in topic : e =< BufferLimit
          /\ \A l \in lost : l[1] > BufferLimit
      BY <1>0, <1>2 DEF KafkaFills
    <2>2. handed =< BufferLimit /\ Len(buffer') = handed
      BY <1>1, <1>2, <1>3, <2>1
    <2>3. \A i \in 1 .. Len(buffer') : buffer'[i] =< BufferLimit
      BY <1>3, <1>4, <2>1, <2>2
    <2>4. Len(buffer') = IF Before' < BufferLimit THEN Before' ELSE BufferLimit
      BY <1>2, <2>2
    <2> QED BY <1>1, <2>1, <2>3, <2>4 DEF KafkaFills
  <1>10. Kafka!NothingForgotten'
    <2>2. Kafka!ToSet(buffer)' = Kafka!ToSet(buffer) \union {handed}
      BY <1>3 DEF Kafka!ToSet
    <2> QED BY <1>0, <1>1, <2>2 DEF Kafka!NothingForgotten
  <1> QED BY <1>6, <1>7, <1>8, <1>9, <1>10 DEF KafkaInv

\* The producer's buffer is full: the retry fails, and the last one gives up.
LEMMA KafkaRetry == KafkaInv /\ Kafka!RetryConnected => KafkaInv'
  <1> SUFFICES ASSUME KafkaInv, Kafka!RetryConnected PROVE KafkaInv'
    OBVIOUS
  <1>0. KafkaTypes /\ KafkaOrder /\ KafkaSettled /\ KafkaFills /\ Kafka!NothingForgotten
    BY DEF KafkaInv
  <1>1. /\ retries > 0 /\ retries' = retries - 1 /\ Len(buffer) = BufferLimit /\ up
        /\ up' = up /\ failures' = failures /\ handed' = handed /\ producer' = producer
        /\ settled' = settled /\ buffer' = buffer /\ topic' = topic /\ given' = given
    BY DEF Kafka!RetryConnected, Kafka!Remaining
  <1>2. lost' = IF retries' = 0 THEN lost \union {<<handed, "given up">>} ELSE lost
    BY <1>1 DEF Kafka!RetryConnected, Kafka!GiveUp, Kafka!Remaining, Kafka!Lose
  <1>3. /\ handed \in 1 .. MaxEvents /\ retries \in 1 .. Retries /\ retries' \in 0 .. Retries
        /\ Before = handed - 1 /\ Before' \in Nat /\ Before' >= Before /\ Before' =< handed
        /\ BufferLimit \in Nat /\ Len(buffer) \in Nat
    <2>1. /\ handed \in Nat /\ handed =< MaxEvents /\ MaxEvents \in Nat
          /\ retries \in Nat /\ retries =< Retries /\ Retries \in Nat /\ BufferLimit \in Nat
          /\ Len(buffer) \in Nat
      BY <1>0, KafkaNumbers, KafkaSequences
    <2>2. handed # 0
      BY <1>0, <1>1 DEF KafkaTypes
    <2>3. Before = handed - 1
      BY <1>1 DEF Before
    <2>4. Before' = handed - 1 \/ Before' = handed
      BY <1>1 DEF Before
    <2> QED BY <1>1, <2>1, <2>2, <2>3, <2>4
  <1>4. KafkaTypes'
    <2>1. lost' \subseteq (1 .. MaxEvents) \X Kafka!Causes
      <3>1. "given up" \in Kafka!Causes
        BY DEF Kafka!Causes
      <3>2. lost \subseteq (1 .. MaxEvents) \X Kafka!Causes
        BY <1>0 DEF KafkaTypes, Kafka!TypeOK
      <3>3. <<handed, "given up">> \in (1 .. MaxEvents) \X Kafka!Causes
        BY <1>3, <3>1
      <3> QED BY <1>2, <3>2, <3>3
    <2>2. handed' # 0
      BY <1>1, <1>3
    <2> QED BY <1>0, <1>1, <1>3, <2>1, <2>2 DEF KafkaTypes, Kafka!TypeOK
  <1>5. KafkaOrder'
    <2>1. \A i \in 1 .. Len(given) : given[i] =< Before'
      BY <1>0, <1>3, KafkaSequences DEF KafkaOrder
    <2> QED BY <1>0, <1>1, <2>1 DEF KafkaOrder, Increasing
  <1>6. KafkaSettled'
    <2>1. lost \subseteq lost'
      BY <1>2
    <2> QED BY <1>0, <1>1, <2>1 DEF KafkaSettled
  <1>7. KafkaFills'
    <2> SUFFICES ASSUME failures = 0 PROVE KafkaFills'
      BY <1>1 DEF KafkaFills
    <2>1. /\ Len(buffer) = IF handed - 1 < BufferLimit THEN handed - 1 ELSE BufferLimit
          /\ \A i \in 1 .. Len(buffer) : buffer[i] =< BufferLimit
          /\ \A e \in topic : e =< BufferLimit
          /\ \A l \in lost : l[1] > BufferLimit
      BY <1>0, <1>3 DEF KafkaFills
    <2>2. handed > BufferLimit /\ Before' >= BufferLimit
      BY <1>1, <1>3, <2>1
    <2>3. \A l \in lost' : l[1] > BufferLimit
      <3>1. <<handed, "given up">>[1] = handed
        OBVIOUS
      <3> QED BY <1>2, <2>1, <2>2, <3>1
    <2>4. Len(buffer') = IF Before' < BufferLimit THEN Before' ELSE BufferLimit
      BY <1>1, <1>3, <2>2
    <2> QED BY <1>1, <2>1, <2>3, <2>4 DEF KafkaFills
  <1>8. Kafka!NothingForgotten'
    <2> DEFINE Lost == {l[1] : l \in lost}
               Held == topic \union Kafka!ToSet(buffer)
    <2>1. \A e \in 1 .. handed : e = handed \/ e \in Held \union Lost
      BY <1>0 DEF Kafka!NothingForgotten
    <2>2. Lost \subseteq Lost' /\ Held' = Held
      BY <1>1, <1>2 DEF Kafka!ToSet
    <2>3. retries' > 0 \/ handed \in Lost'
      <3>1. CASE retries' = 0
        <4>1. <<handed, "given up">>[1] = handed /\ <<handed, "given up">> \in lost'
          BY <1>2, <3>1
        <4> QED BY <4>1
      <3> QED BY <1>3, <3>1
    <2> HIDE DEF Lost, Held
    <2>4. \A e \in 1 .. handed : (e = handed /\ retries' > 0) \/ e \in Held' \union Lost'
      BY <2>1, <2>2, <2>3
    <2> QED BY <1>1, <2>4 DEF Kafka!NothingForgotten, Lost, Held
  <1> QED BY <1>4, <1>5, <1>6, <1>7, <1>8 DEF KafkaInv

\* The producer is replaced: what it delivered stays in the topic, the rest of
\* its buffer is lost.
LEMMA KafkaReconnect ==
  ASSUME NEW reached \in BOOLEAN
  PROVE  KafkaInv /\ Kafka!Reconnect(reached) => KafkaInv'
  <1> SUFFICES ASSUME KafkaInv, Kafka!Reconnect(reached) PROVE KafkaInv'
    OBVIOUS
  <1>0. KafkaTypes /\ KafkaOrder /\ KafkaSettled /\ KafkaFills /\ Kafka!NothingForgotten
    BY DEF KafkaInv
  <1> DEFINE gone == Kafka!Undelivered \union IF ~reached /\ retries' = 0 THEN {handed} ELSE {}
  <1>1. /\ retries > 0 /\ ~up /\ producer' = producer + 1 /\ settled' = {} /\ up' = reached
        /\ failures' = failures /\ handed' = handed /\ topic' = topic
        /\ given' = given \o buffer'
    BY DEF Kafka!Reconnect
  <1>2. IF reached THEN buffer' = <<handed>> /\ retries' = 0
                   ELSE buffer' = <<>> /\ retries' = retries - 1
    BY DEF Kafka!Reconnect, Kafka!Rebuffered, Kafka!Remaining
  <1>3. lost' = lost \union {<<e, "replaced">> : e \in gone}
    <2>1. CASE reached
      BY <2>1 DEF Kafka!Reconnect, Kafka!Lose
    <2>2. CASE ~reached
      BY <1>2, <2>2 DEF Kafka!Reconnect, Kafka!Lose, Kafka!Remaining
    <2> QED BY <2>1, <2>2
  <1>4. /\ handed \in 1 .. MaxEvents /\ retries \in 1 .. Retries /\ retries' \in 0 .. Retries
        /\ Before = handed - 1 /\ Before' \in Nat /\ Before' >= Before
        /\ reached => Before' = handed
        /\ BufferLimit \in Nat \ {0} /\ Len(buffer) \in Nat
        /\ producer \in Nat /\ failures \in Nat
    <2>1. /\ handed \in Nat /\ handed =< MaxEvents /\ MaxEvents \in Nat
          /\ retries \in Nat /\ retries =< Retries /\ Retries \in Nat
          /\ BufferLimit \in Nat /\ BufferLimit > 0 /\ Len(buffer) \in Nat
          /\ producer \in Nat /\ failures \in Nat
      BY <1>0, KafkaNumbers, KafkaSequences
    <2>2. handed # 0
      BY <1>0, <1>1 DEF KafkaTypes
    <2>3. retries' = 0 \/ retries' = retries - 1
      BY <1>2
    <2>4. Before = handed - 1 /\ (reached => Before' = handed)
      BY <1>1, <1>2 DEF Before
    <2>5. Before' = handed - 1 \/ Before' = handed
      BY <1>1 DEF Before
    <2> QED BY <1>1, <2>1, <2>2, <2>3, <2>4, <2>5
  <1>5. \A i \in 1 .. Len(buffer) : buffer[i] \in 1 .. MaxEvents
    BY <1>0, KafkaSequences
  <1>6. gone \subseteq 1 .. MaxEvents
    <2>1. Kafka!Undelivered \subseteq {buffer[i] : i \in 1 .. Len(buffer)}
      BY <1>0, <1>4, KafkaSequences DEF Kafka!Undelivered
    <2> QED BY <1>4, <1>5, <2>1
  <1>7. /\ buffer' \in Seq(1 .. MaxEvents) /\ Len(buffer') \in Nat /\ Len(buffer') =< 1
        /\ \A i \in 1 .. Len(buffer') : reached /\ i = 1 /\ buffer'[i] = handed
    <2>1. CASE reached
      <3>1. buffer' = <<handed>>
        BY <1>2, <2>1
      <3>2. <<handed>> \in Seq(1 .. MaxEvents) /\ Len(<<handed>>) = 1 /\ <<handed>>[1] = handed
        BY <1>4
      <3> QED BY <2>1, <3>1, <3>2
    <2>2. CASE ~reached
      <3>1. buffer' = <<>>
        BY <1>2, <2>2
      <3>2. <<>> \in Seq(1 .. MaxEvents) /\ Len(<<>>) = 0
        BY EmptySeq
      <3> QED BY <3>1, <3>2
    <2> QED BY <2>1, <2>2
  <1>13. /\ given' \in Seq(1 .. MaxEvents) /\ Increasing(given')
         /\ \A i \in 1 .. Len(given') : given'[i] =< Before'
    <2>1. CASE reached
      <3>1. given' = Append(given, handed)
        BY <1>0, <1>1, <1>2, <1>4, <2>1, KafkaGivesOn
      <3> QED BY <1>0, <1>4, <2>1, <3>1, KafkaGivesOn
    <2>2. CASE ~reached
      <3>1. given' = given
        BY <1>0, <1>1, <1>2, <1>4, <2>2, KafkaGivesOn
      <3>2. \A i \in 1 .. Len(given) : given[i] =< Before'
        BY <1>0, <1>4, KafkaSequences DEF KafkaOrder
      <3> QED BY <1>0, <3>1, <3>2, KafkaSequences DEF KafkaOrder
    <2> QED BY <2>1, <2>2
  <1>8. KafkaTypes'
    <2>1. lost' \subseteq (1 .. MaxEvents) \X Kafka!Causes
      <3>1. "replaced" \in Kafka!Causes
        BY DEF Kafka!Causes
      <3>2. lost \subseteq (1 .. MaxEvents) \X Kafka!Causes
        BY <1>0 DEF KafkaTypes, Kafka!TypeOK
      <3>3. \A e \in gone : <<e, "replaced">> \in (1 .. MaxEvents) \X Kafka!Causes
        BY <1>6, <3>1
      <3> HIDE DEF gone
      <3> QED BY <1>3, <3>2, <3>3
    <2>2. handed' # 0 /\ producer' # 0 /\ producer' \in Nat
      BY <1>1, <1>4
    <2>3. settled' \subseteq DOMAIN buffer' /\ Len(buffer') =< BufferLimit
      BY <1>1, <1>4, <1>7
    <2> QED BY <1>0, <1>1, <1>4, <1>7, <1>13, <2>1, <2>2, <2>3 DEF KafkaTypes, Kafka!TypeOK
  <1>9. KafkaOrder'
    BY <1>13 DEF KafkaOrder, Increasing
  <1>10. KafkaSettled'
    BY <1>1 DEF KafkaSettled
  <1>11. KafkaFills'
    BY <1>0, <1>1 DEF KafkaFills
  <1>12. Kafka!NothingForgotten'
    <2> DEFINE Lost == {l[1] : l \in lost}
               Topic == topic
               Buffer == Kafka!ToSet(buffer)
    <2>1. \A e \in 1 .. handed : e = handed \/ e \in Topic \union Buffer \union Lost
      BY <1>0 DEF Kafka!NothingForgotten
    <2>2. gone \subseteq Lost' /\ Lost \subseteq Lost'
      <3>1. \A e \in gone : <<e, "replaced">> \in lost' /\ <<e, "replaced">>[1] = e
        BY <1>3
      <3>2. lost \subseteq lost'
        BY <1>3
      <3> HIDE DEF gone
      <3> QED BY <3>1, <3>2
    <2>3. Topic' = Topic
      BY <1>1
    <2>4. Buffer \subseteq Topic \union gone \union Lost
      <3>1. Buffer = {buffer[i] : i \in 1 .. Len(buffer)}
        BY <1>0, KafkaSequences, Elements
      <3>2. \A i \in 1 .. Len(buffer) : i \in settled \/ i \in DOMAIN buffer \ settled
        BY <1>0, KafkaSequences
      <3>3. \A i \in settled : buffer[i] \in Topic \union Lost
        BY <1>0 DEF KafkaSettled
      <3>4. \A i \in DOMAIN buffer \ settled : buffer[i] \in gone
        BY DEF Kafka!Undelivered
      <3> HIDE DEF Topic, Buffer, gone, Lost
      <3> QED BY <3>1, <3>2, <3>3, <3>4
    <2>5. retries' > 0 \/ handed \in Buffer' \/ handed \in Lost'
      <3>1. CASE reached
        <4>1. buffer' = <<handed>>
          BY <1>2, <3>1
        <4>2. DOMAIN buffer' = {1} /\ buffer'[1] = handed
          BY <4>1
        <4> QED BY <4>2 DEF Kafka!ToSet
      <3>2. CASE ~reached /\ retries' = 0
        <4>1. handed \in gone
          BY <3>2
        <4> HIDE DEF gone
        <4> QED BY <2>2, <4>1
      <3> QED BY <1>4, <3>1, <3>2
    <2> HIDE DEF Lost, Topic, Buffer, gone
    <2>6. \A e \in 1 .. handed :
            (e = handed /\ retries' > 0) \/ e \in Topic' \union Buffer' \union Lost'
      BY <2>1, <2>2, <2>3, <2>4, <2>5
    <2> QED BY <1>1, <2>6 DEF Kafka!NothingForgotten, Lost, Topic, Buffer
  <1> QED BY <1>8, <1>9, <1>10, <1>11, <1>12 DEF KafkaInv

\* An event of the buffer is delivered.
LEMMA KafkaDeliver == KafkaInv /\ Kafka!Deliver => KafkaInv'
  <1> SUFFICES ASSUME KafkaInv, Kafka!Deliver PROVE KafkaInv'
    OBVIOUS
  <1>0. KafkaTypes /\ KafkaOrder /\ KafkaSettled /\ KafkaFills /\ Kafka!NothingForgotten
    BY DEF KafkaInv
  <1>1. PICK i \in DOMAIN buffer \ settled :
          topic' = topic \union {buffer[i]} /\ settled' \in {settled, settled \union {i}}
    BY DEF Kafka!Deliver
  <1>2. /\ up' = up /\ failures' = failures /\ handed' = handed /\ retries' = retries
        /\ producer' = producer /\ buffer' = buffer /\ given' = given /\ lost' = lost
    BY DEF Kafka!Deliver
  <1>3. i \in 1 .. Len(buffer) /\ buffer[i] \in 1 .. MaxEvents /\ settled' \subseteq DOMAIN buffer
    BY <1>0, <1>1, KafkaSequences
  <1>4. Before' = Before
    BY <1>2 DEF Before
  <1>5. KafkaTypes'
    BY <1>0, <1>1, <1>2, <1>3 DEF KafkaTypes, Kafka!TypeOK
  <1>6. KafkaOrder'
    BY <1>0, <1>2, <1>4 DEF KafkaOrder, Increasing
  <1>7. KafkaSettled'
    BY <1>0, <1>1, <1>2 DEF KafkaSettled
  <1>8. KafkaFills'
    BY <1>0, <1>1, <1>2, <1>3, <1>4 DEF KafkaFills
  <1>9. Kafka!NothingForgotten'
    BY <1>0, <1>1, <1>2 DEF Kafka!NothingForgotten, Kafka!ToSet
  <1> QED BY <1>5, <1>6, <1>7, <1>8, <1>9 DEF KafkaInv

\* The producer gives up on an event of the buffer; the cluster has failed then.
LEMMA KafkaTimeOut == KafkaInv /\ Kafka!TimeOut => KafkaInv'
  <1> SUFFICES ASSUME KafkaInv, Kafka!TimeOut PROVE KafkaInv'
    OBVIOUS
  <1>0. KafkaTypes /\ KafkaOrder /\ KafkaSettled /\ KafkaFills /\ Kafka!NothingForgotten
    BY DEF KafkaInv
  <1>1. PICK i \in DOMAIN buffer \ settled :
          settled' = settled \union {i} /\ lost' = lost \union {<<buffer[i], "timed out">>}
    BY DEF Kafka!TimeOut, Kafka!Lose
  <1>2. /\ ~up /\ up' = up /\ failures' = failures /\ handed' = handed /\ retries' = retries
        /\ producer' = producer /\ buffer' = buffer /\ given' = given /\ topic' = topic
    BY DEF Kafka!TimeOut
  <1>3. buffer[i] \in 1 .. MaxEvents /\ settled' \subseteq DOMAIN buffer
    BY <1>0, <1>1, KafkaSequences
  <1>4. Before' = Before
    BY <1>2 DEF Before
  <1>5. KafkaTypes'
    <2>1. <<buffer[i], "timed out">> \in (1 .. MaxEvents) \X Kafka!Causes
      BY <1>3 DEF Kafka!Causes
    <2> QED BY <1>0, <1>1, <1>2, <1>3, <2>1 DEF KafkaTypes, Kafka!TypeOK
  <1>6. KafkaOrder'
    BY <1>0, <1>2, <1>4 DEF KafkaOrder, Increasing
  <1>7. KafkaSettled'
    <2>1. <<buffer[i], "timed out">> \in lost' /\ <<buffer[i], "timed out">>[1] = buffer[i]
      BY <1>1
    <2>2. buffer[i] \in {l[1] : l \in lost'}
      BY <2>1
    <2>3. {l[1] : l \in lost} \subseteq {l[1] : l \in lost'}
      BY <1>1
    <2> QED BY <1>0, <1>1, <1>2, <2>2, <2>3 DEF KafkaSettled
  <1>8. KafkaFills'
    BY <1>0, <1>2 DEF KafkaFills
  <1>9. Kafka!NothingForgotten'
    <2>1. {l[1] : l \in lost} \subseteq {l[1] : l \in lost'}
      BY <1>1
    <2> QED BY <1>0, <1>2, <2>1 DEF Kafka!NothingForgotten, Kafka!ToSet
  <1> QED BY <1>5, <1>6, <1>7, <1>8, <1>9 DEF KafkaInv

\* The cluster fails or recovers, or nothing changes.
LEMMA KafkaCluster == KafkaInv /\ (Kafka!Fail \/ Kafka!Recover \/ UNCHANGED <<up, handed, kafkaVars>>) => KafkaInv'
  <1> SUFFICES ASSUME KafkaInv, Kafka!Fail \/ Kafka!Recover \/ UNCHANGED <<up, handed, kafkaVars>>
               PROVE  KafkaInv'
    OBVIOUS
  <1>0. KafkaTypes /\ KafkaOrder /\ KafkaSettled /\ KafkaFills /\ Kafka!NothingForgotten
    BY DEF KafkaInv
  <1>1. /\ handed' = handed /\ retries' = retries /\ producer' = producer
        /\ settled' = settled /\ buffer' = buffer /\ topic' = topic /\ given' = given
        /\ lost' = lost
    BY DEF Kafka!Fail, Kafka!Recover, kafkaVars
  <1>2. failures \in 0 .. MaxFailures + 1 /\ up \in BOOLEAN /\ MaxFailures \in Nat
    BY <1>0, KafkaNumbers DEF KafkaTypes, Kafka!TypeOK
  <1>3. failures' \in 0 .. MaxFailures + 1 /\ up' \in BOOLEAN
    <2>1. CASE Kafka!Fail
      <3>1. failures < MaxFailures /\ failures' = failures + 1 /\ up' = FALSE
        BY <2>1 DEF Kafka!Fail
      <3>2. failures' \in 0 .. MaxFailures + 1
        BY <1>2, <3>1
      <3> QED BY <3>1, <3>2
    <2>2. CASE Kafka!Recover
      BY <1>2, <2>2 DEF Kafka!Recover
    <2>3. CASE UNCHANGED <<up, handed, kafkaVars>>
      BY <1>2, <2>3 DEF kafkaVars
    <2> QED BY <2>1, <2>2, <2>3
  <1>4. failures' = 0 => failures = 0 /\ up' = up
    <2>1. CASE Kafka!Fail
      BY <1>2, <2>1 DEF Kafka!Fail
    <2>2. CASE Kafka!Recover
      BY <1>0, <2>2 DEF Kafka!Recover, KafkaFills
    <2>3. CASE UNCHANGED <<up, handed, kafkaVars>>
      BY <2>3 DEF kafkaVars
    <2> QED BY <2>1, <2>2, <2>3
  <1>5. KafkaTypes'
    BY <1>0, <1>1, <1>3 DEF KafkaTypes, Kafka!TypeOK
  <1>6. Before' = Before
    BY <1>1 DEF Before
  <1>7. KafkaOrder' /\ KafkaSettled' /\ KafkaFills'
    BY <1>0, <1>1, <1>4, <1>6 DEF KafkaOrder, Increasing, KafkaSettled, KafkaFills, Kafka!ToSet
  <1>8. Kafka!NothingForgotten'
    BY <1>0, <1>1 DEF Kafka!NothingForgotten, Kafka!ToSet
  <1> QED BY <1>5, <1>7, <1>8 DEF KafkaInv

LEMMA KafkaNext == KafkaInv /\ Kafka!Next => KafkaInv'
  BY KafkaPublish, KafkaProduce, KafkaRetry, KafkaReconnect, KafkaDeliver, KafkaTimeOut, KafkaCluster DEF Kafka!Next

-----------------------------------------------------------------------------
(* Pika: the tasks, the queue and those that wait for a confirmation hold   *)
(* events that were handed to the broker, each once; what waits and has     *)
(* arrived is at the exchange.                                              *)

Tasks == [event : 1 .. MaxEvents, on : 1 .. MaxFailures + 1, state : {"sent", "arrived"}]

Ready == Pika!ToSet(ready)
Waiting == {sent[i].event : i \in 1 .. Len(sent)}
Queued == Pika!ToSet(unpublished)
Received == Pika!ToSet(exchange)

PikaArrived == \A i \in 1 .. Len(sent) : sent[i].state = "arrived" => sent[i].event \in Received

PikaOnce ==
  /\ IsInjective(ready) /\ IsInjective(unpublished)
  /\ \A i, j \in 1 .. Len(sent) : sent[i].event = sent[j].event => i = j
  /\ Ready \cap Waiting = {} /\ Ready \cap Queued = {} /\ Waiting \cap Queued = {}

PikaKept ==
  1 .. handed \subseteq Received \union Ready \union Waiting \union Queued
                          \union IF keep THEN {} ELSE failed

\* A connection that is down may still be restored.
PikaDown == ~up => connection =< MaxFailures

PikaInv ==
  /\ Pika!TypeOK
  /\ Ready \union Waiting \union Queued \subseteq 1 .. handed
  /\ PikaArrived
  /\ PikaOnce
  /\ PikaKept
  /\ PikaDown

LEMMA PikaTypes ==
  ASSUME Pika!TypeOK
  PROVE  /\ ready \in Seq(1 .. MaxEvents) /\ unpublished \in Seq(1 .. MaxEvents)
         /\ exchange \in Seq(1 .. MaxEvents) /\ sent \in Seq(Tasks)
         /\ Len(sent) \in Nat /\ DOMAIN sent = 1 .. Len(sent)
         /\ \A i \in 1 .. Len(sent) : sent[i] \in Tasks
         /\ handed \in Nat /\ handed =< MaxEvents /\ MaxEvents \in Nat
         /\ connection \in Nat /\ MaxFailures \in Nat
  <1>1. /\ ready \in Seq(1 .. MaxEvents) /\ unpublished \in Seq(1 .. MaxEvents)
        /\ exchange \in Seq(1 .. MaxEvents) /\ sent \in Seq(Tasks)
        /\ handed \in 0 .. MaxEvents /\ connection \in 1 .. MaxFailures + 1
    BY DEF Pika!TypeOK, Pika!EventNumbers, Tasks
  <1>2. MaxEvents \in Nat /\ MaxFailures \in Nat
    BY BrokersAssumption
  <1>3. /\ Len(sent) \in Nat /\ DOMAIN sent = 1 .. Len(sent)
        /\ \A i \in 1 .. Len(sent) : sent[i] \in Tasks
    BY <1>1, LenProperties, ElementOfSeq
  <1> QED BY <1>1, <1>2, <1>3

\* The invariant gives what the run checks.
LEMMA PikaInvSuffices == PikaInv => Pika!NothingForgotten /\ Pika!QueuedOnce
  <1> SUFFICES ASSUME PikaInv PROVE Pika!NothingForgotten /\ Pika!QueuedOnce
    OBVIOUS
  <1> USE DEF PikaInv
  <1> DEFINE w == [i \in DOMAIN sent |-> sent[i].event]
  <1>1. DOMAIN sent = 1 .. Len(sent)
    BY PikaTypes
  <1>2. {s.event : s \in Pika!ToSet(sent)} = Waiting
    BY <1>1 DEF Pika!ToSet, Waiting
  <1>3. Pika!ToSet(w) = Waiting
    BY <1>1 DEF Pika!ToSet, Waiting
  <1>4. Pika!IsInjective(w)
    BY <1>1 DEF Pika!IsInjective, PikaOnce
  <1>5. Pika!IsInjective(ready) /\ Pika!IsInjective(unpublished)
    BY DEF PikaOnce, IsInjective, Pika!IsInjective
  <1>6. Pika!NothingForgotten
    BY <1>2 DEF PikaKept, Pika!NothingForgotten, Pika!Pending, Ready, Queued, Received
  <1>7. Pika!QueuedOnce
    BY <1>3, <1>4, <1>5 DEF Pika!QueuedOnce, PikaOnce, Ready, Queued
  <1> QED BY <1>6, <1>7

\* Appending a new event, or new events, keeps the events of a sequence apart.
LEMMA ConcatOnce ==
  ASSUME NEW s \in Seq(1 .. MaxEvents), NEW t \in Seq(1 .. MaxEvents)
  PROVE  /\ s \o t \in Seq(1 .. MaxEvents)
         /\ Pika!ToSet(s \o t) = Pika!ToSet(s) \union Pika!ToSet(t)
         /\ IsInjective(s) /\ IsInjective(t) /\ Pika!ToSet(s) \cap Pika!ToSet(t) = {}
              => IsInjective(s \o t)
  <1>1. /\ s \o t \in Seq(1 .. MaxEvents)
        /\ Len(s \o t) = Len(s) + Len(t)
        /\ \A i \in 1 .. Len(s) + Len(t) :
             (s \o t)[i] = IF i <= Len(s) THEN s[i] ELSE t[i - Len(s)]
    BY ConcatProperties
  <1>2. /\ Len(s) \in Nat /\ Len(t) \in Nat /\ DOMAIN s = 1 .. Len(s) /\ DOMAIN t = 1 .. Len(t)
        /\ DOMAIN (s \o t) = 1 .. Len(s) + Len(t)
    BY <1>1, LenProperties
  <1>3. Pika!ToSet(s \o t) = Pika!ToSet(s) \union Pika!ToSet(t)
    <2>1. \A x : Pika!ToSet(x) = Range(x)
      BY DEF Pika!ToSet, Range
    <2> QED BY <2>1, RangeConcatenation
  <1>4. ASSUME IsInjective(s), IsInjective(t), Pika!ToSet(s) \cap Pika!ToSet(t) = {}
        PROVE  IsInjective(s \o t)
    <2> SUFFICES ASSUME NEW i \in 1 .. Len(s) + Len(t), NEW j \in 1 .. Len(s) + Len(t),
                        (s \o t)[i] = (s \o t)[j]
                 PROVE  i = j
      BY <1>2 DEF IsInjective
    <2>1. \A k \in 1 .. Len(s) + Len(t) :
            \/ k <= Len(s) /\ k \in DOMAIN s /\ (s \o t)[k] = s[k] /\ s[k] \in Pika!ToSet(s)
            \/ k > Len(s) /\ k - Len(s) \in DOMAIN t /\ (s \o t)[k] = t[k - Len(s)]
               /\ t[k - Len(s)] \in Pika!ToSet(t)
      <3> TAKE k \in 1 .. Len(s) + Len(t)
      <3>1. CASE k <= Len(s)
        <4>1. k \in DOMAIN s /\ (s \o t)[k] = s[k]
          BY <1>1, <1>2, <3>1
        <4> QED BY <3>1, <4>1 DEF Pika!ToSet
      <3>2. CASE k > Len(s)
        <4>1. k - Len(s) \in DOMAIN t /\ (s \o t)[k] = t[k - Len(s)]
          BY <1>1, <1>2, <3>2
        <4> QED BY <3>2, <4>1 DEF Pika!ToSet
      <3> QED BY <1>2, <3>1, <3>2
    <2>2. CASE i <= Len(s) /\ j <= Len(s)
      <3>1. i \in DOMAIN s /\ j \in DOMAIN s /\ s[i] = s[j]
        BY <1>2, <2>1, <2>2
      <3> QED BY <1>4, <3>1 DEF IsInjective
    <2>3. CASE i > Len(s) /\ j > Len(s)
      <3>1. i - Len(s) \in DOMAIN t /\ j - Len(s) \in DOMAIN t /\ t[i - Len(s)] = t[j - Len(s)]
        BY <1>2, <2>1, <2>3
      <3>2. i - Len(s) = j - Len(s)
        BY <1>4, <3>1 DEF IsInjective
      <3> QED BY <1>2, <3>2
    <2>4. CASE ~(i <= Len(s) <=> j <= Len(s))
      BY <1>2, <1>4, <2>1, <2>4
    <2> QED BY <1>2, <2>2, <2>3, <2>4
  <1> QED BY <1>1, <1>3, <1>4

LEMMA AppendOnce ==
  ASSUME NEW s \in Seq(1 .. MaxEvents), NEW e \in 1 .. MaxEvents
  PROVE  /\ Append(s, e) \in Seq(1 .. MaxEvents)
         /\ Pika!ToSet(Append(s, e)) = Pika!ToSet(s) \union {e}
         /\ s \o <<e>> = Append(s, e)
         /\ IsInjective(s) /\ e \notin Pika!ToSet(s) => IsInjective(Append(s, e))
  <1>1. Append(s, e) = s \o <<e>>
    BY AppendIsConcat
  <1>2. /\ <<e>> \in Seq(1 .. MaxEvents) /\ Pika!ToSet(<<e>>) = {e} /\ IsInjective(<<e>>)
    <2>1. DOMAIN <<e>> = {1} /\ <<e>>[1] = e
      OBVIOUS
    <2> QED BY <2>1 DEF Pika!ToSet, IsInjective
  <1> DEFINE t == <<e>>
  <1>3. Pika!ToSet(s) \cap {e} = {} <=> e \notin Pika!ToSet(s)
    OBVIOUS
  <1> HIDE DEF t
  <1>4. /\ s \o t \in Seq(1 .. MaxEvents)
        /\ Pika!ToSet(s \o t) = Pika!ToSet(s) \union Pika!ToSet(t)
        /\ IsInjective(s) /\ IsInjective(t) /\ Pika!ToSet(s) \cap Pika!ToSet(t) = {}
             => IsInjective(s \o t)
    <2>1. t \in Seq(1 .. MaxEvents)
      BY <1>2 DEF t
    <2> QED BY <2>1, ConcatOnce
  <1> QED BY <1>1, <1>2, <1>3, <1>4 DEF t

\* The first task leaves the others.
LEMMA TailOnce ==
  ASSUME NEW s \in Seq(1 .. MaxEvents), s # <<>>
  PROVE  /\ Head(s) \in 1 .. MaxEvents /\ Tail(s) \in Seq(1 .. MaxEvents)
         /\ Pika!ToSet(s) = Pika!ToSet(Tail(s)) \union {Head(s)}
         /\ IsInjective(s) => IsInjective(Tail(s)) /\ Head(s) \notin Pika!ToSet(Tail(s))
  <1>1. /\ Head(s) \in 1 .. MaxEvents /\ Tail(s) \in Seq(1 .. MaxEvents)
        /\ Len(Tail(s)) = Len(s) - 1 /\ Len(s) \in Nat \ {0}
        /\ \A i \in 1 .. Len(s) - 1 : Tail(s)[i] = s[i + 1]
        /\ DOMAIN s = 1 .. Len(s) /\ DOMAIN Tail(s) = 1 .. Len(s) - 1
    BY HeadTailProperties, EmptySeq, LenProperties
  <1>2. Head(s) = s[1]
    OBVIOUS
  <1>3. Pika!ToSet(s) = Pika!ToSet(Tail(s)) \union {Head(s)}
    <2>1. \A i \in 1 .. Len(s) : s[i] \in Pika!ToSet(Tail(s)) \union {Head(s)}
      <3> TAKE i \in 1 .. Len(s)
      <3>1. CASE i = 1
        BY <1>2, <3>1
      <3>2. CASE i # 1
        <4>1. i - 1 \in 1 .. Len(s) - 1 /\ (i - 1) + 1 = i
          BY <1>1, <3>2
        <4>2. Tail(s)[i - 1] = s[i]
          BY <1>1, <4>1
        <4> QED BY <1>1, <4>1, <4>2 DEF Pika!ToSet
      <3> QED BY <3>1, <3>2
    <2>2. \A i \in 1 .. Len(s) - 1 : Tail(s)[i] \in Pika!ToSet(s)
      BY <1>1 DEF Pika!ToSet
    <2>3. Head(s) \in Pika!ToSet(s)
      BY <1>1, <1>2 DEF Pika!ToSet
    <2> QED BY <1>1, <2>1, <2>2, <2>3 DEF Pika!ToSet
  <1>4. ASSUME IsInjective(s)
        PROVE  IsInjective(Tail(s)) /\ Head(s) \notin Pika!ToSet(Tail(s))
    <2>1. \A i \in 1 .. Len(s) - 1 : i + 1 \in DOMAIN s /\ i + 1 # 1
      BY <1>1
    <2>2. IsInjective(Tail(s))
      <3> SUFFICES ASSUME NEW i \in 1 .. Len(s) - 1, NEW j \in 1 .. Len(s) - 1, Tail(s)[i] = Tail(s)[j]
                   PROVE  i = j
        BY <1>1 DEF IsInjective
      <3>1. i + 1 = j + 1
        BY <1>1, <1>4, <2>1 DEF IsInjective
      <3> QED BY <3>1
    <2>3. \A i \in 1 .. Len(s) - 1 : Tail(s)[i] # s[1]
      BY <1>1, <1>4, <2>1 DEF IsInjective
    <2> QED BY <1>1, <1>2, <2>2, <2>3 DEF Pika!ToSet
  <1> QED BY <1>1, <1>3, <1>4

\* A task that is done, or failed, leaves the others.
LEMMA RemoveTask ==
  ASSUME NEW s \in Seq(Tasks), NEW i \in 1 .. Len(s)
  PROVE  LET rest == Pika!RemoveAt(s, i)
         IN  /\ rest \in Seq(Tasks)
             /\ Len(rest) = Len(s) - 1
             /\ \A k \in 1 .. Len(s) - 1 : rest[k] = IF k < i THEN s[k] ELSE s[k + 1]
  <1> DEFINE before == SubSeq(s, 1, i - 1)
             after == SubSeq(s, i + 1, Len(s))
  <1>1. Len(s) \in Nat /\ \A k \in 1 .. Len(s) : s[k] \in Tasks
    BY LenProperties, ElementOfSeq
  <1>2. /\ before \in Seq(Tasks)
        /\ Len(before) = i - 1
        /\ \A k \in 1 .. i - 1 : before[k] = s[k]
    <2>1. \A k \in 1 .. i - 1 : s[k] \in Tasks
      BY <1>1
    <2>2. /\ before \in Seq(Tasks)
          /\ Len(before) = IF 1 <= i - 1 THEN (i - 1) - 1 + 1 ELSE 0
          /\ \A k \in 1 .. (i - 1) - 1 + 1 : before[k] = s[1 + k - 1]
      BY <1>1, <2>1, SubSeqProperties
    <2> QED BY <1>1, <2>2
  <1>3. /\ after \in Seq(Tasks)
        /\ Len(after) = Len(s) - i
        /\ \A k \in 1 .. Len(s) - i : after[k] = s[i + k]
    <2>1. \A k \in i + 1 .. Len(s) : s[k] \in Tasks
      BY <1>1
    <2>2. /\ after \in Seq(Tasks)
          /\ Len(after) = IF i + 1 <= Len(s) THEN Len(s) - (i + 1) + 1 ELSE 0
          /\ \A k \in 1 .. Len(s) - (i + 1) + 1 : after[k] = s[(i + 1) + k - 1]
      BY <1>1, <2>1, SubSeqProperties
    <2> QED BY <1>1, <2>2
  <1> HIDE DEF before, after
  <1>4. /\ before \o after \in Seq(Tasks)
        /\ Len(before \o after) = Len(before) + Len(after)
        /\ \A k \in 1 .. Len(before) + Len(after) :
             (before \o after)[k] = IF k <= Len(before) THEN before[k] ELSE after[k - Len(before)]
    BY <1>2, <1>3, ConcatProperties
  <1>5. \A k \in 1 .. Len(s) - 1 : (before \o after)[k] = IF k < i THEN s[k] ELSE s[k + 1]
    <2> TAKE k \in 1 .. Len(s) - 1
    <2>1. CASE k < i
      BY <1>1, <1>2, <1>3, <1>4, <2>1
    <2>2. CASE ~(k < i)
      <3>1. k - (i - 1) \in 1 .. Len(s) - i /\ ~(k <= i - 1) /\ i + (k - (i - 1)) = k + 1
            /\ k \in 1 .. (i - 1) + (Len(s) - i)
        BY <1>1, <2>2
      <3>2. (before \o after)[k] = after[k - (i - 1)]
        BY <1>2, <1>3, <1>4, <3>1
      <3>3. after[k - (i - 1)] = s[k + 1]
        BY <1>3, <3>1
      <3> QED BY <2>2, <3>2, <3>3
    <2> QED BY <2>1, <2>2
  <1>6. Pika!RemoveAt(s, i) = before \o after
    BY DEF Pika!RemoveAt, before, after
  <1>7. Len(before) + Len(after) = Len(s) - 1
    BY <1>1, <1>2, <1>3
  <1> QED BY <1>4, <1>5, <1>6, <1>7

LEMMA PikaInit == Pika!Init => PikaInv
  <1> SUFFICES ASSUME Pika!Init PROVE PikaInv
    OBVIOUS
  <1> USE DEF Pika!Init
  <1>1. /\ <<>> \in Seq(1 .. MaxEvents) /\ <<>> \in Seq(Tasks) /\ Len(<<>>) = 0
        /\ DOMAIN <<>> = {}
    BY EmptySeq
  <1>2. Pika!ToSet(<<>>) = {} /\ IsInjective(<<>>)
    BY <1>1 DEF Pika!ToSet, IsInjective
  <1>3. Pika!TypeOK
    <2>1. MaxEvents \in Nat /\ MaxFailures \in Nat
      BY BrokersAssumption
    <2>2. 1 \in 1 .. MaxFailures + 1 /\ 0 \in 0 .. MaxEvents
      BY <2>1
    <2> QED BY <1>1, <2>2 DEF Pika!TypeOK, Pika!EventNumbers, Tasks
  <1>4. Ready = {} /\ Waiting = {} /\ Queued = {}
    BY <1>1, <1>2 DEF Ready, Waiting, Queued
  <1>5. PikaArrived /\ PikaOnce
    BY <1>1, <1>2, <1>4 DEF PikaArrived, PikaOnce
  <1>6. PikaKept
    BY DEF PikaKept
  <1>7. PikaDown
    BY DEF PikaDown
  <1> QED BY <1>3, <1>5, <1>4, <1>6, <1>7 DEF PikaInv

\* publish: the event is new.
LEMMA PikaPublish == PikaInv /\ Pika!Publish => PikaInv'
  <1> SUFFICES ASSUME PikaInv, Pika!Publish PROVE PikaInv'
    OBVIOUS
  <1>0. /\ Pika!TypeOK /\ Ready \union Waiting \union Queued \subseteq 1 .. handed
        /\ PikaArrived /\ PikaOnce /\ PikaKept /\ PikaDown
    BY DEF PikaInv
  <1> DEFINE e == handed + 1
  <1>1. /\ handed < MaxEvents /\ handed' = e /\ ready' = ready \o <<e>>
        /\ keep' = keep /\ connection' = connection /\ up' = up /\ sent' = sent
        /\ unpublished' = unpublished /\ exchange' = exchange /\ failed' = failed
    BY DEF Pika!Publish, Pika!CreateTasks
  <1>2. /\ handed \in Nat /\ MaxEvents \in Nat /\ ready \in Seq(1 .. MaxEvents)
        /\ e \in 1 .. MaxEvents
    BY <1>0, <1>1, PikaTypes
  <1>3. 1 .. e = (1 .. handed) \union {e} /\ e \notin 1 .. handed
    BY <1>2
  <1> HIDE DEF e
  <1>4. /\ ready' \in Seq(1 .. MaxEvents)
        /\ Ready' = Ready \union {e}
        /\ IsInjective(ready')
    <2>1. e \notin Ready /\ IsInjective(ready)
      BY <1>0, <1>3 DEF PikaOnce
    <2>2. /\ Append(ready, e) \in Seq(1 .. MaxEvents)
          /\ Pika!ToSet(Append(ready, e)) = Pika!ToSet(ready) \union {e}
          /\ ready \o <<e>> = Append(ready, e)
          /\ IsInjective(ready) /\ e \notin Pika!ToSet(ready) => IsInjective(Append(ready, e))
      BY <1>2, AppendOnce
    <2> QED BY <1>1, <2>1, <2>2 DEF Ready, Pika!ToSet
  <1>5. Waiting' = Waiting /\ Queued' = Queued /\ Received' = Received
    BY <1>1 DEF Waiting, Queued, Received, Pika!ToSet
  <1>6. Pika!TypeOK'
    <2>1. handed' \in 0 .. MaxEvents /\ failed' \subseteq 1 .. handed'
      BY <1>0, <1>1, <1>2, <1>3 DEF Pika!TypeOK
    <2> QED BY <1>0, <1>1, <1>4, <2>1 DEF Pika!TypeOK, Pika!EventNumbers
  <1>7. PikaArrived' /\ PikaOnce'
    BY <1>0, <1>1, <1>3, <1>4, <1>5 DEF PikaArrived, PikaOnce, IsInjective
  <1>8. PikaKept'
    BY <1>0, <1>1, <1>3, <1>4, <1>5 DEF PikaKept
  <1>9. Ready' \union Waiting' \union Queued' \subseteq 1 .. handed'
    BY <1>0, <1>1, <1>3, <1>4, <1>5
  <1>10. PikaDown'
    BY <1>0, <1>1 DEF PikaDown
  <1> QED BY <1>6, <1>7, <1>8, <1>9, <1>10 DEF PikaInv

\* What becomes of the queue when a publish raises.
LEMMA Requeue ==
  ASSUME Pika!TypeOK, NEW e \in 1 .. MaxEvents, e \notin Queued, IsInjective(unpublished)
  PROVE  /\ Pika!Unpublished(e) \in Seq(1 .. MaxEvents)
         /\ Pika!ToSet(Pika!Unpublished(e)) = Queued \union IF keep THEN {e} ELSE {}
         /\ IsInjective(Pika!Unpublished(e))
  <1>1. unpublished \in Seq(1 .. MaxEvents)
    BY PikaTypes
  <1>2. /\ Append(unpublished, e) \in Seq(1 .. MaxEvents)
        /\ Pika!ToSet(Append(unpublished, e)) = Pika!ToSet(unpublished) \union {e}
        /\ IsInjective(unpublished) /\ e \notin Pika!ToSet(unpublished) => IsInjective(Append(unpublished, e))
    BY <1>1, AppendOnce
  <1>3. CASE keep
    BY <1>2, <1>3 DEF Pika!Unpublished, Queued
  <1>4. CASE ~keep
    BY <1>1, <1>4 DEF Pika!Unpublished, Queued
  <1> QED BY <1>3, <1>4

\* _publish: a task begins, and waits or has failed.
LEMMA PikaBegin == PikaInv /\ Pika!Begin => PikaInv'
  <1> SUFFICES ASSUME PikaInv, Pika!Begin PROVE PikaInv'
    OBVIOUS
  <1>0. /\ Pika!TypeOK /\ Ready \union Waiting \union Queued \subseteq 1 .. handed
        /\ PikaArrived /\ PikaOnce /\ PikaKept /\ PikaDown
    BY DEF PikaInv
  <1> DEFINE e == Head(ready)
             task == [event |-> e, on |-> connection, state |-> "sent"]
  <1>1. /\ ready # <<>> /\ ready' = Tail(ready)
        /\ keep' = keep /\ connection' = connection /\ up' = up /\ handed' = handed
        /\ exchange' = exchange
    BY DEF Pika!Begin
  <1>2. \/ sent' = Append(sent, task) /\ unpublished' = unpublished /\ failed' = failed
        \/ unpublished' = Pika!Unpublished(e) /\ failed' = failed \union {e} /\ sent' = sent
    BY DEF Pika!Begin
  <1>3. /\ ready' \in Seq(1 .. MaxEvents) /\ e \in 1 .. MaxEvents
        /\ Ready = Ready' \union {e} /\ IsInjective(ready') /\ e \notin Ready'
    <2>1. ready \in Seq(1 .. MaxEvents) /\ IsInjective(ready)
      BY <1>0, PikaTypes DEF PikaOnce
    <2>2. /\ e \in 1 .. MaxEvents /\ Tail(ready) \in Seq(1 .. MaxEvents)
          /\ Pika!ToSet(ready) = Pika!ToSet(Tail(ready)) \union {e}
          /\ IsInjective(ready) => IsInjective(Tail(ready)) /\ e \notin Pika!ToSet(Tail(ready))
      BY <1>1, <2>1, TailOnce
    <2> HIDE DEF e
    <2> QED BY <1>1, <2>1, <2>2 DEF Ready, Pika!ToSet
  <1>4. e \notin Waiting /\ e \notin Queued /\ e \in 1 .. handed
    BY <1>0, <1>3 DEF PikaOnce
  <1>5. Received' = Received
    BY <1>1 DEF Received, Pika!ToSet
  <1>6. CASE sent' = Append(sent, task) /\ unpublished' = unpublished /\ failed' = failed
    <2>1. sent \in Seq(Tasks) /\ task \in Tasks /\ Len(sent) \in Nat
      <3>1. connection \in 1 .. MaxFailures + 1
        BY <1>0 DEF Pika!TypeOK
      <3> QED BY <1>0, <1>3, <3>1, PikaTypes DEF Tasks
    <2>2. task.event = e /\ task.state = "sent"
      OBVIOUS
    <2> HIDE DEF task
    <2>3. /\ sent' \in Seq(Tasks) /\ Len(sent') = Len(sent) + 1
          /\ \A i \in 1 .. Len(sent) : sent'[i] = sent[i]
          /\ sent'[Len(sent) + 1] = task
      BY <1>6, <2>1, AppendProperties
    <2>4. \A i \in 1 .. Len(sent') : i \in 1 .. Len(sent) \/ i = Len(sent) + 1
      BY <2>1, <2>3
    <2> HIDE DEF e
    <2>5. Waiting' = Waiting \union {e}
      <3>1. Waiting' \subseteq Waiting \union {e}
        BY <2>2, <2>3, <2>4 DEF Waiting
      <3>2. \A i \in 1 .. Len(sent) : i \in 1 .. Len(sent') /\ sent'[i].event = sent[i].event
        BY <2>1, <2>3
      <3>3. Len(sent) + 1 \in 1 .. Len(sent') /\ sent'[Len(sent) + 1].event = e
        BY <2>1, <2>2, <2>3
      <3> QED BY <3>1, <3>2, <3>3 DEF Waiting
    <2>6. Queued' = Queued
      BY <1>6 DEF Queued, Pika!ToSet
    <2>7. \A i, j \in 1 .. Len(sent') : sent'[i].event = sent'[j].event => i = j
      <3>1. \A i \in 1 .. Len(sent) : sent[i].event # e
        BY <1>4 DEF Waiting
      <3> QED BY <1>0, <2>2, <2>3, <2>4, <3>1 DEF PikaOnce
    <2>8. PikaOnce'
      BY <1>0, <1>3, <1>4, <1>6, <2>5, <2>6, <2>7 DEF PikaOnce, IsInjective
    <2>9. PikaArrived'
      BY <1>0, <1>5, <2>2, <2>3, <2>4 DEF PikaArrived
    <2>10. PikaKept'
      BY <1>0, <1>1, <1>3, <1>5, <1>6, <2>5, <2>6 DEF PikaKept
    <2>11. Pika!TypeOK'
      BY <1>0, <1>1, <1>3, <1>6, <2>3 DEF Pika!TypeOK, Pika!EventNumbers, Tasks
    <2>12. Ready' \union Waiting' \union Queued' \subseteq 1 .. handed'
      BY <1>0, <1>1, <1>3, <1>4, <2>5, <2>6
    <2>13. PikaDown'
      BY <1>0, <1>1 DEF PikaDown
    <2> QED BY <2>8, <2>9, <2>10, <2>11, <2>12, <2>13 DEF PikaInv
  <1>7. CASE unpublished' = Pika!Unpublished(e) /\ failed' = failed \union {e} /\ sent' = sent
    <2> HIDE DEF e
    <2>1. /\ unpublished' \in Seq(1 .. MaxEvents)
          /\ Queued' = Queued \union IF keep THEN {e} ELSE {}
          /\ IsInjective(unpublished')
      <3>1. IsInjective(unpublished)
        BY <1>0 DEF PikaOnce
      <3>2. /\ Pika!Unpublished(e) \in Seq(1 .. MaxEvents)
            /\ Pika!ToSet(Pika!Unpublished(e)) = Queued \union IF keep THEN {e} ELSE {}
            /\ IsInjective(Pika!Unpublished(e))
        BY <1>0, <1>3, <1>4, <3>1, Requeue
      <3> QED BY <1>7, <3>2 DEF Queued, Pika!ToSet
    <2>2. Waiting' = Waiting
      BY <1>7 DEF Waiting
    <2>3. PikaOnce'
      BY <1>0, <1>3, <1>4, <1>7, <2>1, <2>2 DEF PikaOnce, IsInjective
    <2>4. PikaArrived'
      BY <1>0, <1>5, <1>7 DEF PikaArrived
    <2>5. PikaKept'
      BY <1>0, <1>1, <1>3, <1>5, <1>7, <2>1, <2>2 DEF PikaKept
    <2>6. Pika!TypeOK'
      BY <1>0, <1>1, <1>3, <1>4, <1>7, <2>1 DEF Pika!TypeOK, Pika!EventNumbers
    <2>7. Ready' \union Waiting' \union Queued' \subseteq 1 .. handed'
      BY <1>0, <1>1, <1>3, <1>4, <2>1, <2>2
    <2>8. PikaDown'
      BY <1>0, <1>1 DEF PikaDown
    <2> QED BY <2>3, <2>4, <2>5, <2>6, <2>7, <2>8 DEF PikaInv
  <1> QED BY <1>2, <1>6, <1>7

\* A frame arrives at the exchange.
LEMMA PikaArrive ==
  ASSUME NEW i \in DOMAIN sent
  PROVE  PikaInv /\ Pika!Arrive(i) => PikaInv'
  <1> SUFFICES ASSUME PikaInv, Pika!Arrive(i) PROVE PikaInv'
    OBVIOUS
  <1>0. /\ Pika!TypeOK /\ Ready \union Waiting \union Queued \subseteq 1 .. handed
        /\ PikaArrived /\ PikaOnce /\ PikaKept /\ PikaDown
    BY DEF PikaInv
  <1>1. /\ exchange' = Append(exchange, sent[i].event)
        /\ sent' = [sent EXCEPT ![i].state = "arrived"]
        /\ keep' = keep /\ connection' = connection /\ up' = up /\ handed' = handed
        /\ ready' = ready /\ unpublished' = unpublished /\ failed' = failed
    BY DEF Pika!Arrive
  <1>2. /\ sent \in Seq(Tasks) /\ i \in 1 .. Len(sent) /\ sent[i] \in Tasks
        /\ exchange \in Seq(1 .. MaxEvents) /\ sent[i].event \in 1 .. MaxEvents
    BY <1>0, PikaTypes DEF Tasks
  <1>3. /\ exchange' \in Seq(1 .. MaxEvents)
        /\ Received' = Received \union {sent[i].event}
    <2> DEFINE e == sent[i].event
    <2> HIDE DEF e
    <2>1. /\ Append(exchange, e) \in Seq(1 .. MaxEvents)
          /\ Pika!ToSet(Append(exchange, e)) = Pika!ToSet(exchange) \union {e}
      BY <1>2, AppendOnce DEF e
    <2> QED BY <1>1, <2>1 DEF Received, Pika!ToSet, e
  <1>4. /\ sent' \in Seq(Tasks) /\ Len(sent') = Len(sent)
        /\ \A k \in 1 .. Len(sent) : sent'[k].event = sent[k].event
        /\ \A k \in 1 .. Len(sent) : k # i => sent'[k] = sent[k]
    <2> DEFINE new == [sent[i] EXCEPT !.state = "arrived"]
    <2>1. new \in Tasks /\ new.event = sent[i].event
      BY <1>2 DEF Tasks
    <2>2. sent' = [sent EXCEPT ![i] = new]
      BY <1>1
    <2> HIDE DEF new
    <2>3. /\ sent' \in Seq(Tasks) /\ Len(sent') = Len(sent)
          /\ \A k \in 1 .. Len(sent) : sent'[k] = IF k = i THEN new ELSE sent[k]
      BY <1>2, <2>1, <2>2, ExceptSeq
    <2> QED BY <2>1, <2>3
  <1>5. Ready' = Ready /\ Queued' = Queued /\ Waiting' = Waiting
    BY <1>1, <1>4 DEF Ready, Queued, Waiting, Pika!ToSet
  <1>6. Pika!TypeOK'
    BY <1>0, <1>1, <1>3, <1>4 DEF Pika!TypeOK, Pika!EventNumbers, Tasks
  <1>7. PikaArrived'
    BY <1>0, <1>3, <1>4 DEF PikaArrived
  <1>8. PikaOnce'
    BY <1>0, <1>1, <1>4, <1>5 DEF PikaOnce, IsInjective
  <1>9. PikaKept' /\ Ready' \union Waiting' \union Queued' \subseteq 1 .. handed'
    BY <1>0, <1>1, <1>3, <1>5 DEF PikaKept
  <1>10. PikaDown'
    BY <1>0, <1>1 DEF PikaDown
  <1> QED BY <1>6, <1>7, <1>8, <1>9, <1>10 DEF PikaInv

\* What is left of the tasks that wait when one of them is done.
LEMMA Removed ==
  ASSUME PikaInv, NEW i \in DOMAIN sent, sent' = Pika!RemoveAt(sent, i)
  PROVE  /\ sent' \in Seq(Tasks)
         /\ Waiting = Waiting' \union {sent[i].event} /\ sent[i].event \notin Waiting'
         /\ \A k, l \in 1 .. Len(sent') : sent'[k].event = sent'[l].event => k = l
         /\ \A k \in 1 .. Len(sent') : sent'[k].state = "arrived" => sent'[k].event \in Received
  <1>1. /\ sent \in Seq(Tasks) /\ i \in 1 .. Len(sent) /\ Len(sent) \in Nat
        /\ PikaArrived /\ PikaOnce
    BY PikaTypes DEF PikaInv
  <1>2. /\ sent' \in Seq(Tasks)
        /\ Len(sent') = Len(sent) - 1
        /\ \A k \in 1 .. Len(sent) - 1 : sent'[k] = IF k < i THEN sent[k] ELSE sent[k + 1]
    BY <1>1, RemoveTask
  <1> DEFINE At(k) == IF k < i THEN k ELSE k + 1
  <1>3. \A k \in 1 .. Len(sent') : sent'[k] = sent[At(k)] /\ At(k) \in 1 .. Len(sent) /\ At(k) # i
    BY <1>1, <1>2
  <1>4. \A k, l \in 1 .. Len(sent') : At(k) = At(l) => k = l
    BY <1>1, <1>2
  <1>5. \A k \in 1 .. Len(sent) : k = i \/ \E l \in 1 .. Len(sent') : At(l) = k
    <2> TAKE k \in 1 .. Len(sent)
    <2>1. CASE k < i
      <3>1. k \in 1 .. Len(sent') /\ At(k) = k
        BY <1>1, <1>2, <2>1
      <3> QED BY <3>1
    <2>2. CASE k > i
      <3>1. k - 1 \in 1 .. Len(sent') /\ At(k - 1) = k
        BY <1>1, <1>2, <2>2
      <3> QED BY <3>1
    <2> QED BY <1>1, <2>1, <2>2
  <1> HIDE DEF At
  <1>6. \A k \in 1 .. Len(sent') : sent'[k].event \in Waiting /\ sent'[k].event # sent[i].event
    BY <1>1, <1>3 DEF Waiting, PikaOnce
  <1>7. \A k \in 1 .. Len(sent) : sent[k].event \in Waiting' \union {sent[i].event}
    BY <1>3, <1>5 DEF Waiting
  <1>8. Waiting = Waiting' \union {sent[i].event} /\ sent[i].event \notin Waiting'
    BY <1>1, <1>6, <1>7 DEF Waiting
  <1>9. \A k, l \in 1 .. Len(sent') : sent'[k].event = sent'[l].event => k = l
    <2> TAKE k, l \in 1 .. Len(sent')
    <2>1. /\ sent'[k].event = sent[At(k)].event /\ At(k) \in 1 .. Len(sent)
          /\ sent'[l].event = sent[At(l)].event /\ At(l) \in 1 .. Len(sent)
      BY <1>3
    <2>2. sent[At(k)].event = sent[At(l)].event => At(k) = At(l)
      BY <1>1, <2>1 DEF PikaOnce
    <2> QED BY <1>4, <2>1, <2>2
  <1>10. \A k \in 1 .. Len(sent') : sent'[k].state = "arrived" => sent'[k].event \in Received
    BY <1>1, <1>3 DEF PikaArrived
  <1> QED BY <1>2, <1>8, <1>9, <1>10

\* The exchange confirms what it has received, or a publish raises.
LEMMA PikaDone ==
  ASSUME NEW i \in DOMAIN sent
  PROVE  PikaInv /\ (Pika!Confirm(i) \/ Pika!Raise(i)) => PikaInv'
  <1> SUFFICES ASSUME PikaInv, Pika!Confirm(i) \/ Pika!Raise(i) PROVE PikaInv'
    OBVIOUS
  <1>0. /\ Pika!TypeOK /\ Ready \union Waiting \union Queued \subseteq 1 .. handed
        /\ PikaArrived /\ PikaOnce /\ PikaKept /\ PikaDown
    BY DEF PikaInv
  <1> DEFINE e == sent[i].event
  <1>1. /\ sent' = Pika!RemoveAt(sent, i)
        /\ keep' = keep /\ connection' = connection /\ up' = up /\ handed' = handed
        /\ ready' = ready /\ exchange' = exchange
    BY DEF Pika!Confirm, Pika!Raise
  <1>2. \/ sent[i].state = "arrived" /\ unpublished' = unpublished /\ failed' = failed
        \/ unpublished' = Pika!Unpublished(e) /\ failed' = failed \union {e}
    BY DEF Pika!Confirm, Pika!Raise
  <1>3. i \in 1 .. Len(sent) /\ e \in 1 .. MaxEvents /\ e \in Waiting
    <2>1. i \in 1 .. Len(sent) /\ sent[i] \in Tasks
      BY <1>0, PikaTypes
    <2> QED BY <2>1 DEF Waiting, Tasks
  <1>4. /\ sent' \in Seq(Tasks)
        /\ Waiting = Waiting' \union {e} /\ e \notin Waiting'
        /\ \A k, l \in 1 .. Len(sent') : sent'[k].event = sent'[l].event => k = l
        /\ \A k \in 1 .. Len(sent') : sent'[k].state = "arrived" => sent'[k].event \in Received
    BY <1>1, Removed
  <1>5. Ready' = Ready /\ Received' = Received
    BY <1>1 DEF Ready, Received, Pika!ToSet
  <1>6. e \notin Queued /\ e \notin Ready /\ e \in 1 .. handed
    BY <1>0, <1>3 DEF PikaOnce
  <1>7. sent[i].state = "arrived" => e \in Received
    BY <1>0, <1>3 DEF PikaArrived
  <1> HIDE DEF e
  <1>8. /\ unpublished' \in Seq(1 .. MaxEvents) /\ IsInjective(unpublished')
        /\ Queued' \subseteq Queued \union {e} /\ Queued \subseteq Queued'
        /\ failed' \subseteq failed \union {e} /\ failed \subseteq failed'
        /\ e \in Received \union Queued' \union IF keep THEN {} ELSE failed'
    <2>1. IsInjective(unpublished) /\ unpublished \in Seq(1 .. MaxEvents)
      BY <1>0, PikaTypes DEF PikaOnce
    <2>2. CASE sent[i].state = "arrived" /\ unpublished' = unpublished /\ failed' = failed
      BY <1>7, <2>1, <2>2 DEF Queued, Pika!ToSet
    <2>3. CASE unpublished' = Pika!Unpublished(e) /\ failed' = failed \union {e}
      <3>1. /\ Pika!Unpublished(e) \in Seq(1 .. MaxEvents)
            /\ Pika!ToSet(Pika!Unpublished(e)) = Queued \union IF keep THEN {e} ELSE {}
            /\ IsInjective(Pika!Unpublished(e))
        BY <1>0, <1>3, <1>6, <2>1, Requeue
      <3>2. Queued' = Queued \union IF keep THEN {e} ELSE {}
        BY <2>3, <3>1 DEF Queued, Pika!ToSet
      <3> QED BY <2>3, <3>1, <3>2
    <2> QED BY <1>2, <2>2, <2>3
  <1>9. Pika!TypeOK'
    BY <1>0, <1>1, <1>4, <1>6, <1>8 DEF Pika!TypeOK, Pika!EventNumbers, Tasks
  <1>10. PikaArrived'
    BY <1>4, <1>5 DEF PikaArrived
  <1>11. PikaOnce'
    <2>1. IsInjective(ready')
      BY <1>0, <1>1 DEF PikaOnce, IsInjective
    <2>2. Ready' \cap Waiting' = {} /\ Ready' \cap Queued' = {} /\ Waiting' \cap Queued' = {}
      BY <1>0, <1>4, <1>5, <1>6, <1>8 DEF PikaOnce
    <2> QED BY <1>4, <1>8, <2>1, <2>2 DEF PikaOnce, IsInjective
  <1>12. PikaKept'
    BY <1>0, <1>1, <1>4, <1>5, <1>8 DEF PikaKept
  <1>13. Ready' \union Waiting' \union Queued' \subseteq 1 .. handed'
    BY <1>0, <1>1, <1>4, <1>5, <1>6, <1>8
  <1>14. PikaDown'
    BY <1>0, <1>1 DEF PikaDown
  <1> QED BY <1>9, <1>10, <1>11, <1>12, <1>13, <1>14 DEF PikaInv

\* The connection breaks, or is restored and the queue published again.
LEMMA PikaConnection ==
  PikaInv /\ (Pika!Disconnect \/ Pika!Reconnect \/ UNCHANGED <<up, handed, pikaVars>>) => PikaInv'
  <1> SUFFICES ASSUME PikaInv, Pika!Disconnect \/ Pika!Reconnect \/ UNCHANGED <<up, handed, pikaVars>>
               PROVE  PikaInv'
    OBVIOUS
  <1>0. /\ Pika!TypeOK /\ Ready \union Waiting \union Queued \subseteq 1 .. handed
        /\ PikaArrived /\ PikaOnce /\ PikaKept /\ PikaDown
    BY DEF PikaInv
  <1>1. /\ keep' = keep /\ handed' = handed /\ sent' = sent
        /\ exchange' = exchange /\ failed' = failed
    BY DEF Pika!Disconnect, Pika!Reconnect, pikaVars
  <1>2. Waiting' = Waiting /\ Received' = Received
    BY <1>1 DEF Waiting, Received, Pika!ToSet
  <1>3. ready \in Seq(1 .. MaxEvents) /\ unpublished \in Seq(1 .. MaxEvents)
    BY <1>0, PikaTypes
  <1>4. /\ ready' \in Seq(1 .. MaxEvents) /\ unpublished' \in Seq(1 .. MaxEvents)
        /\ IsInjective(ready') /\ IsInjective(unpublished')
        /\ Ready' \union Queued' = Ready \union Queued /\ Ready' \cap Queued' = {}
    <2>1. IsInjective(ready) /\ IsInjective(unpublished) /\ Ready \cap Queued = {}
      BY <1>0 DEF PikaOnce
    <2>2. CASE Pika!Disconnect \/ UNCHANGED <<up, handed, pikaVars>>
      <3>1. ready' = ready /\ unpublished' = unpublished
        BY <2>2 DEF Pika!Disconnect, pikaVars
      <3> QED BY <1>3, <2>1, <3>1 DEF Ready, Queued, Pika!ToSet
    <2>3. CASE Pika!Reconnect
      <3>1. ready' = ready \o unpublished /\ unpublished' = <<>>
        BY <2>3 DEF Pika!Reconnect, Pika!CreateTasks, Pika!Drained
      <3>2. /\ ready \o unpublished \in Seq(1 .. MaxEvents)
            /\ Pika!ToSet(ready \o unpublished) = Pika!ToSet(ready) \union Pika!ToSet(unpublished)
            /\ IsInjective(ready \o unpublished)
        BY <1>3, <2>1, ConcatOnce DEF Ready, Queued
      <3>3. <<>> \in Seq(1 .. MaxEvents) /\ Pika!ToSet(<<>>) = {} /\ IsInjective(<<>>)
        BY EmptySeq DEF Pika!ToSet, IsInjective
      <3>4. Ready' = Ready \union Queued /\ Queued' = {}
        BY <3>1, <3>2, <3>3 DEF Ready, Queued, Pika!ToSet
      <3> QED BY <3>1, <3>2, <3>3, <3>4
    <2> QED BY <2>2, <2>3
  <1>5. connection' \in 1 .. MaxFailures + 1 /\ up' \in BOOLEAN /\ PikaDown'
    <2>1. /\ connection \in 1 .. MaxFailures + 1 /\ up \in BOOLEAN /\ MaxFailures \in Nat
          /\ ~up => connection =< MaxFailures
      BY <1>0, BrokersAssumption DEF Pika!TypeOK, PikaDown
    <2>2. \/ connection =< MaxFailures /\ up' = FALSE /\ connection' = connection
          \/ ~up /\ up' = TRUE /\ connection' = connection + 1
          \/ up' = up /\ connection' = connection
      BY DEF Pika!Disconnect, Pika!Reconnect, pikaVars
    <2>3. \/ connection =< MaxFailures /\ connection' = connection
          \/ connection =< MaxFailures /\ connection' = connection + 1
          \/ connection' = connection
      BY <2>1, <2>2, Zenon
    <2>4. connection' \in 1 .. MaxFailures + 1
      BY <2>1, <2>3
    <2>5. up' \in BOOLEAN
      BY <2>1, <2>2, Zenon
    <2>6. ~up' => connection' =< MaxFailures
      <3>1. CASE up' = TRUE
        BY <3>1
      <3>2. CASE connection =< MaxFailures /\ up' = FALSE /\ connection' = connection
        BY <2>1, <3>2
      <3>3. CASE up' = up /\ connection' = connection
        BY <2>1, <3>3, Zenon
      <3> QED BY <2>2, <3>1, <3>2, <3>3
    <2> QED BY <2>4, <2>5, <2>6 DEF PikaDown
  <1>6. Pika!TypeOK'
    BY <1>0, <1>1, <1>4, <1>5 DEF Pika!TypeOK, Pika!EventNumbers
  <1>7. PikaArrived'
    BY <1>0, <1>1, <1>2 DEF PikaArrived
  <1>8. PikaOnce'
    <2>1. Ready' \cap Waiting' = {} /\ Waiting' \cap Queued' = {}
      BY <1>0, <1>2, <1>4 DEF PikaOnce
    <2> QED BY <1>0, <1>1, <1>4, <2>1 DEF PikaOnce, IsInjective
  <1>9. PikaKept'
    BY <1>0, <1>1, <1>2, <1>4 DEF PikaKept
  <1>10. Ready' \union Waiting' \union Queued' \subseteq 1 .. handed'
    BY <1>0, <1>1, <1>2, <1>4
  <1> QED BY <1>5, <1>6, <1>7, <1>8, <1>9, <1>10 DEF PikaInv

LEMMA PikaNext == PikaInv /\ Pika!Next => PikaInv'
  BY PikaPublish, PikaBegin, PikaArrive, PikaDone, PikaConnection DEF Pika!Next

-----------------------------------------------------------------------------
(* Pika, in order: an event that never failed goes its way once, from the   *)
(* tasks that have not begun over those whose frame is on the connection to *)
(* the exchange.  Until it has arrived there, nothing newer overtakes it.   *)

PikaNumbers ==
  /\ Received \subseteq 1 .. handed
  /\ Queued \subseteq failed
  /\ \A i \in 1 .. Len(sent) : sent[i].on =< connection

ReadyInOrder ==
  /\ \A k, l \in 1 .. Len(ready) : k < l /\ ready[l] \notin failed => ready[k] < ready[l]
  /\ \A e \in Ready \ failed, x \in Waiting \union Queued \union Received : x < e

\* What has to be so of a frame that is on its way.
InOrderAt(l) ==
  /\ \A x \in Received : x < sent[l].event
  /\ \A k \in 1 .. l - 1 : Pika!InTransit(k) => sent[k].event < sent[l].event

SentInOrder ==
  \A l \in 1 .. Len(sent) : Pika!InTransit(l) /\ sent[l].event \notin failed => InOrderAt(l)

\* e is in the log at p and nowhere else, and nothing newer comes before it.
OnlyAt(log, e, p) ==
  /\ log[p] = e
  /\ \A q \in 1 .. Len(log) : q = p \/ log[q] # e
  /\ \A q \in 1 .. p - 1 : log[q] < e

ReceivedInOrder == \A e \in Received \ failed : \E p \in 1 .. Len(exchange) : OnlyAt(exchange, e, p)

PikaOrder == PikaNumbers /\ ReadyInOrder /\ SentInOrder /\ ReceivedInOrder

\* The invariant gives what the run checks.
LEMMA PikaOrderSuffices == PikaInv /\ PikaOrder => Pika!InOrderUnlessFailed
  <1> SUFFICES ASSUME PikaInv, PikaOrder, NEW e \in Pika!ToSet(exchange) \ failed
               PROVE  /\ Pika!Cardinality({i \in DOMAIN exchange : exchange[i] = e}) = 1
                      /\ \A i \in 1 .. Pika!FirstIn(exchange, e) : exchange[i] =< e
    BY DEF Pika!InOrderUnlessFailed
  <1>1. PICK p \in 1 .. Len(exchange) : OnlyAt(exchange, e, p)
    BY DEF PikaOrder, ReceivedInOrder, Received
  <1>2. exchange \in Seq(1 .. MaxEvents)
    BY PikaTypes DEF PikaInv
  <1>3. /\ Len(exchange) \in Nat /\ DOMAIN exchange = 1 .. Len(exchange)
        /\ \A i \in 1 .. Len(exchange) : exchange[i] \in 1 .. MaxEvents
    BY <1>2, LenProperties, ElementOfSeq
  <1>4. {i \in DOMAIN exchange : exchange[i] = e} = {p}
    BY <1>1, <1>3 DEF OnlyAt
  <1>5. Pika!Cardinality({p}) = 1
    <2>1. Pika!Cardinality({p}) = Cardinality({p})
      BY DEF Pika!Cardinality, Cardinality
    <2> QED BY <2>1, FS_Singleton
  <1>6. Pika!FirstIn(exchange, e) = p
    <2>1. Pika!FirstIn(exchange, e) = Pika!Min({p})
      BY <1>3, <1>4 DEF Pika!FirstIn, Pika!SelectInSeq
    <2>2. Pika!Min({p}) = p
      BY DEF Pika!Min
    <2> QED BY <2>1, <2>2
  <1>7. \A i \in 1 .. p : exchange[i] =< e
    <2> TAKE i \in 1 .. p
    <2>1. i \in 1 .. Len(exchange) /\ exchange[i] \in Nat /\ e \in Nat
      BY <1>1, <1>3 DEF OnlyAt
    <2>2. CASE i = p
      BY <1>1, <2>1, <2>2 DEF OnlyAt
    <2>3. CASE i # p
      <3>1. i \in 1 .. p - 1
        BY <1>3, <2>3
      <3> QED BY <1>1, <2>1, <3>1 DEF OnlyAt
    <2> QED BY <2>2, <2>3
  <1> QED BY <1>4, <1>5, <1>6, <1>7

LEMMA OrderInit == Pika!Init => PikaOrder
  <1> SUFFICES ASSUME Pika!Init PROVE PikaOrder
    OBVIOUS
  <1> DEFINE none == <<>>
  <1>1. ready = none /\ sent = none /\ unpublished = none /\ exchange = none
    BY DEF Pika!Init
  <1>2. Len(none) = 0 /\ DOMAIN none = {}
    BY EmptySeq
  <1> HIDE DEF none
  <1>3. Ready = {} /\ Waiting = {} /\ Queued = {} /\ Received = {}
    BY <1>1, <1>2 DEF Ready, Waiting, Queued, Received, Pika!ToSet
  <1>4. 1 .. Len(ready) = {} /\ 1 .. Len(sent) = {}
    BY <1>1, <1>2
  <1>5. PikaNumbers
    BY <1>3, <1>4 DEF PikaNumbers
  <1>6. ReadyInOrder /\ SentInOrder /\ ReceivedInOrder
    BY <1>3, <1>4 DEF ReadyInOrder, SentInOrder, ReceivedInOrder
  <1> QED BY <1>5, <1>6 DEF PikaOrder

\* publish: the event is newer than all others.
LEMMA OrderPublish == PikaInv /\ PikaOrder /\ Pika!Publish => PikaOrder'
  <1> SUFFICES ASSUME PikaInv, PikaOrder, Pika!Publish PROVE PikaOrder'
    OBVIOUS
  <1>0. /\ PikaNumbers /\ ReadyInOrder /\ SentInOrder /\ ReceivedInOrder
        /\ Pika!TypeOK /\ Ready \union Waiting \union Queued \subseteq 1 .. handed
    BY DEF PikaOrder, PikaInv
  <1> DEFINE e == handed + 1
  <1>1. /\ handed < MaxEvents /\ handed' = e /\ ready' = ready \o <<e>>
        /\ connection' = connection /\ up' = up /\ sent' = sent
        /\ unpublished' = unpublished /\ exchange' = exchange /\ failed' = failed
    BY DEF Pika!Publish, Pika!CreateTasks
  <1>2. /\ handed \in Nat /\ ready \in Seq(1 .. MaxEvents) /\ e \in 1 .. MaxEvents
    BY <1>0, <1>1, PikaTypes
  <1>3. (\A x \in 1 .. handed : x < e) /\ 1 .. handed \subseteq 1 .. e
    BY <1>2
  <1> HIDE DEF e
  <1>4. /\ Len(ready') = Len(ready) + 1 /\ Len(ready) \in Nat
        /\ \A k \in 1 .. Len(ready) : ready'[k] = ready[k] /\ ready[k] \in Ready
        /\ ready'[Len(ready) + 1] = e
        /\ Ready' = Ready \union {e}
    <2>1. ready' = Append(ready, e) /\ Pika!ToSet(Append(ready, e)) = Pika!ToSet(ready) \union {e}
      BY <1>1, <1>2, AppendOnce
    <2>2. /\ Len(Append(ready, e)) = Len(ready) + 1
          /\ \A k \in 1 .. Len(ready) : Append(ready, e)[k] = ready[k]
          /\ Append(ready, e)[Len(ready) + 1] = e
      BY <1>2, AppendProperties
    <2>3. Len(ready) \in Nat /\ DOMAIN ready = 1 .. Len(ready)
      BY <1>2, LenProperties
    <2> QED BY <2>1, <2>2, <2>3 DEF Ready, Pika!ToSet
  <1>5. /\ Waiting' = Waiting /\ Queued' = Queued /\ Received' = Received
        /\ \A k : Pika!InTransit(k)' <=> Pika!InTransit(k)
    BY <1>1 DEF Waiting, Queued, Received, Pika!ToSet, Pika!InTransit, Pika!OnThisConnection
  <1>6. PikaNumbers'
    BY <1>0, <1>1, <1>3, <1>5 DEF PikaNumbers
  <1>7. ReadyInOrder'
    <2>1. \A k, l \in 1 .. Len(ready') : k < l /\ ready'[l] \notin failed => ready'[k] < ready'[l]
      <3> SUFFICES ASSUME NEW k \in 1 .. Len(ready'), NEW l \in 1 .. Len(ready'),
                          k < l, ready'[l] \notin failed
                   PROVE  ready'[k] < ready'[l]
        OBVIOUS
      <3>1. k \in 1 .. Len(ready)
        BY <1>4
      <3>2. CASE l = Len(ready) + 1
        BY <1>0, <1>3, <1>4, <3>1, <3>2
      <3>3. CASE l \in 1 .. Len(ready)
        BY <1>0, <1>4, <3>1, <3>3 DEF ReadyInOrder
      <3> QED BY <1>4, <3>2, <3>3
    <2>2. \A d \in Ready' \ failed, x \in Waiting \union Queued \union Received : x < d
      <3>1. \A x \in Waiting \union Queued \union Received : x < e
        BY <1>0, <1>3 DEF PikaNumbers
      <3> QED BY <1>0, <1>4, <3>1 DEF ReadyInOrder
    <2> QED BY <1>1, <1>5, <2>1, <2>2 DEF ReadyInOrder
  <1>8. SentInOrder'
    BY <1>0, <1>1, <1>5 DEF SentInOrder, InOrderAt
  <1>9. ReceivedInOrder'
    BY <1>0, <1>1, <1>5 DEF ReceivedInOrder
  <1> QED BY <1>6, <1>7, <1>8, <1>9 DEF PikaOrder

\* _publish: the first task begins, and is older than those behind it unless
\* they failed.
LEMMA OrderBegin == PikaInv /\ PikaOrder /\ Pika!Begin => PikaOrder'
  <1> SUFFICES ASSUME PikaInv, PikaOrder, Pika!Begin PROVE PikaOrder'
    OBVIOUS
  <1>0. /\ PikaNumbers /\ ReadyInOrder /\ SentInOrder /\ ReceivedInOrder
        /\ Pika!TypeOK /\ PikaOnce
    BY DEF PikaOrder, PikaInv
  <1> DEFINE h == Head(ready)
             task == [event |-> h, on |-> connection, state |-> "sent"]
  <1>1. /\ ready # <<>> /\ ready' = Tail(ready)
        /\ connection' = connection /\ up' = up /\ handed' = handed /\ exchange' = exchange
    BY DEF Pika!Begin
  <1>2. \/ up /\ sent' = Append(sent, task) /\ unpublished' = unpublished /\ failed' = failed
        \/ unpublished' = Pika!Unpublished(h) /\ failed' = failed \union {h} /\ sent' = sent
    BY DEF Pika!Begin
  <1>3. /\ ready \in Seq(1 .. MaxEvents) /\ h \in 1 .. MaxEvents
        /\ Len(ready) \in Nat \ {0} /\ Len(ready') = Len(ready) - 1
        /\ \A k \in 1 .. Len(ready') : ready'[k] = ready[k + 1]
        /\ ready[1] = h
        /\ Ready = Ready' \union {h} /\ Ready' = {ready'[k] : k \in 1 .. Len(ready')}
    <2>1. ready \in Seq(1 .. MaxEvents)
      BY <1>0, PikaTypes
    <2>2. /\ h \in 1 .. MaxEvents /\ Tail(ready) \in Seq(1 .. MaxEvents)
          /\ Pika!ToSet(ready) = Pika!ToSet(Tail(ready)) \union {h}
      BY <1>1, <2>1, TailOnce
    <2>3. /\ Len(Tail(ready)) = Len(ready) - 1 /\ Len(ready) \in Nat \ {0}
          /\ \A k \in 1 .. Len(ready) - 1 : Tail(ready)[k] = ready[k + 1]
          /\ DOMAIN Tail(ready) = 1 .. Len(ready) - 1
      BY <1>1, <2>1, HeadTailProperties, EmptySeq, LenProperties
    <2>4. ready[1] = h
      OBVIOUS
    <2> HIDE DEF h
    <2> QED BY <1>1, <2>1, <2>2, <2>3, <2>4 DEF Ready, Pika!ToSet
  <1>4. \A e \in Ready' \ failed : h < e
    <2> SUFFICES ASSUME NEW l \in 1 .. Len(ready'), ready'[l] \notin failed PROVE h < ready'[l]
      BY <1>3
    <2>1. 1 \in 1 .. Len(ready) /\ l + 1 \in 1 .. Len(ready) /\ 1 < l + 1
      BY <1>3
    <2> QED BY <1>0, <1>3, <2>1 DEF ReadyInOrder
  <1>5. \A k, l \in 1 .. Len(ready') : k < l /\ ready'[l] \notin failed => ready'[k] < ready'[l]
    <2> SUFFICES ASSUME NEW k \in 1 .. Len(ready'), NEW l \in 1 .. Len(ready'),
                        k < l, ready'[l] \notin failed
                 PROVE  ready'[k] < ready'[l]
      OBVIOUS
    <2>1. k + 1 \in 1 .. Len(ready) /\ l + 1 \in 1 .. Len(ready) /\ k + 1 < l + 1
      BY <1>3
    <2> QED BY <1>0, <1>3, <2>1 DEF ReadyInOrder
  <1>6. Received' = Received
    BY <1>1 DEF Received, Pika!ToSet
  <1>7. CASE up /\ sent' = Append(sent, task) /\ unpublished' = unpublished /\ failed' = failed
    <2>1. sent \in Seq(Tasks) /\ task \in Tasks /\ Len(sent) \in Nat
          /\ connection \in Nat
      <3>1. connection \in 1 .. MaxFailures + 1
        BY <1>0 DEF Pika!TypeOK
      <3> QED BY <1>0, <1>3, <3>1, PikaTypes DEF Tasks
    <2>2. task.event = h /\ task.on = connection
      OBVIOUS
    <2> HIDE DEF task
    <2>3. /\ Len(sent') = Len(sent) + 1
          /\ \A i \in 1 .. Len(sent) : sent'[i] = sent[i]
          /\ sent'[Len(sent) + 1] = task
      BY <1>7, <2>1, AppendProperties
    <2>4. \A i \in 1 .. Len(sent') : i \in 1 .. Len(sent) \/ i = Len(sent) + 1
      BY <2>1, <2>3
    <2> HIDE DEF h
    <2>5. Waiting' \subseteq Waiting \union {h} /\ Queued' = Queued
      BY <1>7, <2>2, <2>3, <2>4 DEF Waiting, Queued, Pika!ToSet
    <2>6. \A k \in 1 .. Len(sent) : Pika!InTransit(k)' <=> Pika!InTransit(k)
      BY <1>1, <2>3 DEF Pika!InTransit, Pika!OnThisConnection
    <2>7. PikaNumbers'
      BY <1>0, <1>1, <1>6, <1>7, <2>1, <2>2, <2>3, <2>4, <2>5 DEF PikaNumbers
    <2>8. ReadyInOrder'
      BY <1>0, <1>3, <1>4, <1>5, <1>6, <1>7, <2>5 DEF ReadyInOrder
    <2>9. SentInOrder'
      <3> SUFFICES ASSUME NEW l \in 1 .. Len(sent'), Pika!InTransit(l)', sent'[l].event \notin failed
                   PROVE  InOrderAt(l)'
        BY <1>7 DEF SentInOrder
      <3>1. CASE l = Len(sent) + 1
        <4>1. sent'[l].event = h /\ h \in Ready \ failed
          BY <1>3, <2>2, <2>3, <3>1
        <4>2. \A k \in 1 .. Len(sent) : sent'[k].event \in Waiting
          BY <2>3 DEF Waiting
        <4>3. 1 .. l - 1 = 1 .. Len(sent)
          BY <2>1, <3>1
        <4> QED BY <1>0, <1>6, <4>1, <4>2, <4>3 DEF ReadyInOrder, InOrderAt
      <3>2. CASE l \in 1 .. Len(sent)
        <4>1. InOrderAt(l) /\ sent'[l] = sent[l]
          BY <1>0, <2>3, <2>6, <3>2 DEF SentInOrder
        <4>2. \A k \in 1 .. l - 1 : k \in 1 .. Len(sent)
          BY <2>1, <3>2
        <4> QED BY <1>6, <2>3, <2>6, <4>1, <4>2 DEF InOrderAt
      <3> QED BY <2>4, <3>1, <3>2
    <2>10. ReceivedInOrder'
      BY <1>0, <1>1, <1>6, <1>7 DEF ReceivedInOrder
    <2> QED BY <2>7, <2>8, <2>9, <2>10 DEF PikaOrder
  <1>8. CASE unpublished' = Pika!Unpublished(h) /\ failed' = failed \union {h} /\ sent' = sent
    <2> HIDE DEF h
    <2>1. Queued' \subseteq Queued \union {h}
      <3>1. IsInjective(unpublished) /\ h \notin Queued
        BY <1>0, <1>3 DEF PikaOnce
      <3>2. Pika!ToSet(Pika!Unpublished(h)) = Queued \union IF keep THEN {h} ELSE {}
        BY <1>0, <1>3, <3>1, Requeue
      <3> QED BY <1>8, <3>2 DEF Queued, Pika!ToSet
    <2>2. Waiting' = Waiting /\ \A k : Pika!InTransit(k)' <=> Pika!InTransit(k)
      BY <1>1, <1>8 DEF Waiting, Pika!InTransit, Pika!OnThisConnection
    <2>3. PikaNumbers'
      BY <1>0, <1>1, <1>6, <1>8, <2>1 DEF PikaNumbers
    <2>4. ReadyInOrder'
      BY <1>0, <1>3, <1>4, <1>5, <1>6, <1>8, <2>1, <2>2 DEF ReadyInOrder
    <2>5. SentInOrder'
      BY <1>0, <1>6, <1>8, <2>2 DEF SentInOrder, InOrderAt
    <2>6. ReceivedInOrder'
      BY <1>0, <1>1, <1>6, <1>8 DEF ReceivedInOrder
    <2> QED BY <2>3, <2>4, <2>5, <2>6 DEF PikaOrder
  <1> QED BY <1>2, <1>7, <1>8

\* A frame arrives: it is the first on its way, so older than the others that
\* never failed.
LEMMA OrderArrive ==
  ASSUME NEW i \in DOMAIN sent
  PROVE  PikaInv /\ PikaOrder /\ Pika!Arrive(i) => PikaOrder'
  <1> SUFFICES ASSUME PikaInv, PikaOrder, Pika!Arrive(i) PROVE PikaOrder'
    OBVIOUS
  <1>0. /\ PikaNumbers /\ ReadyInOrder /\ SentInOrder /\ ReceivedInOrder
        /\ Pika!TypeOK /\ Ready \union Waiting \union Queued \subseteq 1 .. handed
    BY DEF PikaOrder, PikaInv
  <1> DEFINE x == sent[i].event
  <1>1. /\ Pika!InTransit(i) /\ \A j \in 1 .. i - 1 : ~Pika!InTransit(j)
        /\ exchange' = Append(exchange, x)
        /\ sent' = [sent EXCEPT ![i].state = "arrived"]
        /\ connection' = connection /\ up' = up /\ handed' = handed
        /\ ready' = ready /\ unpublished' = unpublished /\ failed' = failed
    BY DEF Pika!Arrive
  <1>2. /\ sent \in Seq(Tasks) /\ Len(sent) \in Nat /\ i \in 1 .. Len(sent) /\ sent[i] \in Tasks
        /\ exchange \in Seq(1 .. MaxEvents) /\ x \in 1 .. MaxEvents /\ x \in Waiting
    <2>1. /\ sent \in Seq(Tasks) /\ Len(sent) \in Nat /\ i \in 1 .. Len(sent) /\ sent[i] \in Tasks
          /\ exchange \in Seq(1 .. MaxEvents)
      BY <1>0, PikaTypes
    <2> QED BY <2>1 DEF Tasks, Waiting
  <1>3. /\ Len(sent') = Len(sent)
        /\ \A k \in 1 .. Len(sent) : sent'[k].event = sent[k].event /\ sent'[k].on = sent[k].on
        /\ sent'[i].state = "arrived"
        /\ \A k \in 1 .. Len(sent) : k # i => sent'[k] = sent[k]
    <2> DEFINE new == [sent[i] EXCEPT !.state = "arrived"]
    <2>1. new \in Tasks /\ new.event = sent[i].event /\ new.on = sent[i].on /\ new.state = "arrived"
      BY <1>2 DEF Tasks
    <2>2. sent' = [sent EXCEPT ![i] = new]
      BY <1>1
    <2> HIDE DEF new
    <2>3. /\ Len(sent') = Len(sent)
          /\ \A k \in 1 .. Len(sent) : sent'[k] = IF k = i THEN new ELSE sent[k]
      BY <1>2, <2>1, <2>2, ExceptSeq
    <2> QED BY <1>2, <2>1, <2>3
  <1>4. \A k \in 1 .. Len(sent) : Pika!InTransit(k)' => k > i /\ Pika!InTransit(k)
    <2> SUFFICES ASSUME NEW k \in 1 .. Len(sent), Pika!InTransit(k)'
                 PROVE  k > i /\ Pika!InTransit(k)
      OBVIOUS
    <2>1. k # i
      BY <1>3 DEF Pika!InTransit
    <2>2. Pika!InTransit(k)
      BY <1>1, <1>3, <2>1 DEF Pika!InTransit, Pika!OnThisConnection
    <2>3. k \notin 1 .. i - 1
      BY <1>1, <2>2
    <2> QED BY <1>2, <2>1, <2>2, <2>3
  <1>5. /\ Waiting' = Waiting /\ Ready' = Ready /\ Queued' = Queued
    BY <1>1, <1>3 DEF Waiting, Ready, Queued, Pika!ToSet
  <1>6. /\ Len(exchange) \in Nat /\ Len(exchange') = Len(exchange) + 1
        /\ \A q \in 1 .. Len(exchange) : exchange'[q] = exchange[q] /\ exchange[q] \in Received
        /\ exchange'[Len(exchange) + 1] = x
        /\ Received' = Received \union {x}
    <2> HIDE DEF x
    <2>1. Pika!ToSet(Append(exchange, x)) = Pika!ToSet(exchange) \union {x}
      BY <1>2, AppendOnce
    <2>2. /\ Len(Append(exchange, x)) = Len(exchange) + 1
          /\ \A k \in 1 .. Len(exchange) : Append(exchange, x)[k] = exchange[k]
          /\ Append(exchange, x)[Len(exchange) + 1] = x
      BY <1>2, AppendProperties
    <2>3. Len(exchange) \in Nat /\ DOMAIN exchange = 1 .. Len(exchange)
      BY <1>2, LenProperties
    <2> QED BY <1>1, <2>1, <2>2, <2>3 DEF Received, Pika!ToSet
  <1>7. x \notin failed => \A y \in Received : y < x
    BY <1>0, <1>1, <1>2 DEF SentInOrder, InOrderAt
  <1>8. PikaNumbers'
    BY <1>0, <1>1, <1>2, <1>3, <1>5, <1>6 DEF PikaNumbers
  <1>9. ReadyInOrder'
    BY <1>0, <1>1, <1>2, <1>5, <1>6 DEF ReadyInOrder
  <1>10. SentInOrder'
    <2> SUFFICES ASSUME NEW l \in 1 .. Len(sent), Pika!InTransit(l)', sent[l].event \notin failed
                 PROVE  InOrderAt(l)'
      BY <1>1, <1>3 DEF SentInOrder
    <2>1. l > i /\ InOrderAt(l)
      BY <1>0, <1>4 DEF SentInOrder
    <2>2. i \in 1 .. l - 1
      BY <1>2, <2>1
    <2>3. x < sent[l].event
      BY <1>1, <2>1, <2>2 DEF InOrderAt
    <2>4. \A k \in 1 .. l - 1 : k \in 1 .. Len(sent)
      BY <1>2
    <2> HIDE DEF x
    <2> QED BY <1>3, <1>4, <1>6, <2>1, <2>3, <2>4 DEF InOrderAt
  <1>11. ReceivedInOrder'
    <2> HIDE DEF x
    <2> SUFFICES ASSUME NEW e \in Received', e \notin failed
                 PROVE  \E p \in 1 .. Len(exchange') : OnlyAt(exchange', e, p)
      BY <1>1 DEF ReceivedInOrder
    <2>1. CASE e \in Received
      <3>1. PICK p \in 1 .. Len(exchange) : OnlyAt(exchange, e, p)
        BY <1>0, <2>1 DEF ReceivedInOrder
      <3>2. x # e
        <4>1. x \in 1 .. MaxEvents
          BY <1>2
        <4> QED BY <1>7, <2>1, <4>1
      <3>3. p \in 1 .. Len(exchange') /\ \A q \in 1 .. p - 1 : q \in 1 .. Len(exchange)
        BY <1>6
      <3>4. \A q \in 1 .. Len(exchange') : q \in 1 .. Len(exchange) \/ q = Len(exchange) + 1
        BY <1>6
      <3>5. OnlyAt(exchange', e, p)
        BY <1>6, <3>1, <3>2, <3>3, <3>4 DEF OnlyAt
      <3> QED BY <3>3, <3>5
    <2>2. CASE e \notin Received
      <3> DEFINE p == Len(exchange) + 1
      <3>1. e = x /\ p \in 1 .. Len(exchange') /\ 1 .. p - 1 = 1 .. Len(exchange)
        BY <1>6, <2>2
      <3>2. \A q \in 1 .. Len(exchange') : q \in 1 .. Len(exchange) \/ q = p
        BY <1>6
      <3>3. OnlyAt(exchange', e, p)
        BY <1>6, <1>7, <2>2, <3>1, <3>2 DEF OnlyAt
      <3> QED BY <3>1, <3>3
    <2> QED BY <2>1, <2>2
  <1> QED BY <1>8, <1>9, <1>10, <1>11 DEF PikaOrder

\* The exchange confirms what it has received, or a publish raises: the frames
\* that stay keep their order.
LEMMA OrderDone ==
  ASSUME NEW i \in DOMAIN sent
  PROVE  PikaInv /\ PikaOrder /\ (Pika!Confirm(i) \/ Pika!Raise(i)) => PikaOrder'
  <1> SUFFICES ASSUME PikaInv, PikaOrder, Pika!Confirm(i) \/ Pika!Raise(i) PROVE PikaOrder'
    OBVIOUS
  <1>0. /\ PikaNumbers /\ ReadyInOrder /\ SentInOrder /\ ReceivedInOrder
        /\ Pika!TypeOK /\ PikaOnce
    BY DEF PikaOrder, PikaInv
  <1> DEFINE e == sent[i].event
             At(k) == IF k < i THEN k ELSE k + 1
  <1>1. /\ sent' = Pika!RemoveAt(sent, i)
        /\ connection' = connection /\ up' = up /\ handed' = handed
        /\ ready' = ready /\ exchange' = exchange
    BY DEF Pika!Confirm, Pika!Raise
  <1>2. \/ unpublished' = unpublished /\ failed' = failed
        \/ unpublished' = Pika!Unpublished(e) /\ failed' = failed \union {e}
    BY DEF Pika!Confirm, Pika!Raise
  <1>3. /\ sent \in Seq(Tasks) /\ Len(sent) \in Nat
        /\ i \in 1 .. Len(sent) /\ e \in 1 .. MaxEvents /\ e \in Waiting
    <2>1. sent \in Seq(Tasks) /\ Len(sent) \in Nat /\ i \in 1 .. Len(sent) /\ sent[i] \in Tasks
      BY <1>0, PikaTypes
    <2> QED BY <2>1 DEF Waiting, Tasks
  <1>4. /\ Len(sent') = Len(sent) - 1
        /\ \A k \in 1 .. Len(sent') : sent'[k] = sent[At(k)] /\ At(k) \in 1 .. Len(sent)
        /\ \A k, l \in 1 .. Len(sent') : k < l => At(k) \in 1 .. At(l) - 1
    <2>1. /\ Len(sent') = Len(sent) - 1
          /\ \A k \in 1 .. Len(sent) - 1 : sent'[k] = IF k < i THEN sent[k] ELSE sent[k + 1]
      BY <1>1, <1>3, RemoveTask
    <2> QED BY <1>3, <2>1
  <1> HIDE DEF At
  <1>5. Ready' = Ready /\ Received' = Received /\ Waiting' \subseteq Waiting
    BY <1>1, <1>4 DEF Ready, Received, Waiting, Pika!ToSet
  <1>6. /\ failed \subseteq failed' /\ failed' \subseteq failed \union {e}
        /\ Queued' \subseteq Queued \union (failed' \cap {e})
    <2> HIDE DEF e
    <2>1. CASE unpublished' = unpublished /\ failed' = failed
      BY <2>1 DEF Queued, Pika!ToSet
    <2>2. CASE unpublished' = Pika!Unpublished(e) /\ failed' = failed \union {e}
      <3>1. IsInjective(unpublished) /\ e \notin Queued
        BY <1>0, <1>3 DEF PikaOnce
      <3>2. Pika!ToSet(Pika!Unpublished(e)) = Queued \union IF keep THEN {e} ELSE {}
        BY <1>0, <1>3, <3>1, Requeue
      <3> QED BY <2>2, <3>2 DEF Queued, Pika!ToSet
    <2> QED BY <1>2, <2>1, <2>2
  <1>7. \A k \in 1 .. Len(sent') : Pika!InTransit(k)' <=> Pika!InTransit(At(k))
    BY <1>1, <1>4 DEF Pika!InTransit, Pika!OnThisConnection
  <1> HIDE DEF e
  <1>8. PikaNumbers'
    BY <1>0, <1>1, <1>4, <1>5, <1>6 DEF PikaNumbers
  <1>9. ReadyInOrder'
    <2>1. \A d \in Ready \ failed', y \in Waiting' \union Queued' \union Received : y < d
      BY <1>0, <1>3, <1>5, <1>6 DEF ReadyInOrder
    <2> QED BY <1>0, <1>1, <1>5, <1>6, <2>1 DEF ReadyInOrder
  <1>10. SentInOrder'
    <2> SUFFICES ASSUME NEW l \in 1 .. Len(sent'), Pika!InTransit(l)', sent'[l].event \notin failed'
                 PROVE  InOrderAt(l)'
      BY DEF SentInOrder
    <2>1. InOrderAt(At(l)) /\ sent'[l] = sent[At(l)]
      BY <1>0, <1>4, <1>6, <1>7 DEF SentInOrder
    <2>2. \A k \in 1 .. l - 1 : k \in 1 .. Len(sent') /\ At(k) \in 1 .. At(l) - 1
      <3>1. \A k \in 1 .. l - 1 : k \in 1 .. Len(sent') /\ k < l
        BY <1>3, <1>4
      <3> QED BY <1>4, <3>1
    <2> QED BY <1>4, <1>5, <1>7, <2>1, <2>2 DEF InOrderAt
  <1>11. ReceivedInOrder'
    BY <1>0, <1>1, <1>5, <1>6 DEF ReceivedInOrder
  <1> QED BY <1>8, <1>9, <1>10, <1>11 DEF PikaOrder

\* The connection breaks, or is restored and the queue published again: then
\* no frame is on its way, and what is published again has failed.
LEMMA OrderConnection ==
  PikaInv /\ PikaOrder /\ (Pika!Disconnect \/ Pika!Reconnect \/ UNCHANGED <<up, handed, pikaVars>>)
    => PikaOrder'
  <1> SUFFICES ASSUME PikaInv, PikaOrder,
                      Pika!Disconnect \/ Pika!Reconnect \/ UNCHANGED <<up, handed, pikaVars>>
               PROVE  PikaOrder'
    OBVIOUS
  <1>0. /\ PikaNumbers /\ ReadyInOrder /\ SentInOrder /\ ReceivedInOrder /\ Pika!TypeOK
    BY DEF PikaOrder, PikaInv
  <1>1. /\ handed' = handed /\ sent' = sent /\ exchange' = exchange /\ failed' = failed
    BY DEF Pika!Disconnect, Pika!Reconnect, pikaVars
  <1>2. Waiting' = Waiting /\ Received' = Received
    BY <1>1 DEF Waiting, Received, Pika!ToSet
  <1>3. /\ ready \in Seq(1 .. MaxEvents) /\ unpublished \in Seq(1 .. MaxEvents)
        /\ connection \in Nat /\ \A k \in 1 .. Len(sent) : sent[k].on \in Nat
    <2>1. /\ ready \in Seq(1 .. MaxEvents) /\ unpublished \in Seq(1 .. MaxEvents)
          /\ connection \in Nat /\ \A k \in 1 .. Len(sent) : sent[k] \in Tasks
          /\ MaxFailures \in Nat
      BY <1>0, PikaTypes
    <2> QED BY <2>1 DEF Tasks
  <1>4. ReceivedInOrder'
    BY <1>0, <1>1, <1>2 DEF ReceivedInOrder
  <1>5. CASE Pika!Disconnect \/ UNCHANGED <<up, handed, pikaVars>>
    <2>1. /\ ready' = ready /\ unpublished' = unpublished /\ connection' = connection
          /\ up' => up
      BY <1>5 DEF Pika!Disconnect, pikaVars
    <2>2. Ready' = Ready /\ Queued' = Queued
      BY <2>1 DEF Ready, Queued, Pika!ToSet
    <2>3. \A k : Pika!InTransit(k)' => Pika!InTransit(k)
      BY <1>1, <2>1 DEF Pika!InTransit, Pika!OnThisConnection
    <2>4. PikaNumbers' /\ ReadyInOrder'
      BY <1>0, <1>1, <1>2, <2>1, <2>2 DEF PikaNumbers, ReadyInOrder
    <2>5. SentInOrder'
      BY <1>0, <1>1, <1>2, <2>3 DEF SentInOrder, InOrderAt
    <2> QED BY <1>4, <2>4, <2>5 DEF PikaOrder
  <1>6. CASE Pika!Reconnect
    <2>1. /\ ready' = ready \o unpublished /\ unpublished' = Pika!Drained
          /\ connection' = connection + 1
      BY <1>6 DEF Pika!Reconnect, Pika!CreateTasks
    <2>2. Queued' = {}
      BY <2>1, EmptySeq DEF Queued, Pika!ToSet, Pika!Drained
    <2>3. /\ Len(ready) \in Nat /\ Len(unpublished) \in Nat
          /\ Len(ready') = Len(ready) + Len(unpublished)
          /\ \A k \in 1 .. Len(ready) + Len(unpublished) :
               ready'[k] = IF k <= Len(ready) THEN ready[k] ELSE unpublished[k - Len(ready)]
          /\ DOMAIN unpublished = 1 .. Len(unpublished)
          /\ Ready' = Ready \union Queued
      <3>1. Pika!ToSet(ready \o unpublished) = Pika!ToSet(ready) \union Pika!ToSet(unpublished)
        BY <1>3, ConcatOnce
      <3>2. /\ Len(ready \o unpublished) = Len(ready) + Len(unpublished)
            /\ \A k \in 1 .. Len(ready) + Len(unpublished) :
                 (ready \o unpublished)[k]
                   = IF k <= Len(ready) THEN ready[k] ELSE unpublished[k - Len(ready)]
        BY <1>3, ConcatProperties
      <3>3. Len(ready) \in Nat /\ Len(unpublished) \in Nat /\ DOMAIN unpublished = 1 .. Len(unpublished)
        BY <1>3, LenProperties
      <3> QED BY <2>1, <3>1, <3>2, <3>3 DEF Ready, Queued, Pika!ToSet
    <2>4. \A l \in 1 .. Len(ready') :
            ready'[l] \notin failed => l \in 1 .. Len(ready) /\ ready'[l] = ready[l]
      <3> SUFFICES ASSUME NEW l \in 1 .. Len(ready'), ready'[l] \notin failed
                   PROVE  l \in 1 .. Len(ready) /\ ready'[l] = ready[l]
        OBVIOUS
      <3>1. CASE l <= Len(ready)
        BY <2>3, <3>1
      <3>2. CASE ~(l <= Len(ready))
        <4>1. l - Len(ready) \in DOMAIN unpublished /\ ready'[l] = unpublished[l - Len(ready)]
          BY <2>3, <3>2
        <4>2. ready'[l] \in Queued
          BY <4>1 DEF Queued, Pika!ToSet
        <4> QED BY <1>0, <4>2 DEF PikaNumbers
      <3> QED BY <3>1, <3>2
    <2>5. PikaNumbers'
      BY <1>0, <1>1, <1>2, <1>3, <2>1, <2>2 DEF PikaNumbers
    <2>6. ReadyInOrder'
      <3>1. \A k, l \in 1 .. Len(ready') : k < l /\ ready'[l] \notin failed => ready'[k] < ready'[l]
        <4> SUFFICES ASSUME NEW k \in 1 .. Len(ready'), NEW l \in 1 .. Len(ready'),
                            k < l, ready'[l] \notin failed
                     PROVE  ready'[k] < ready'[l]
          OBVIOUS
        <4>1. l \in 1 .. Len(ready) /\ ready'[l] = ready[l]
          BY <2>4
        <4>2. k \in 1 .. Len(ready) /\ ready'[k] = ready[k]
          BY <2>3, <4>1
        <4> QED BY <1>0, <4>1, <4>2 DEF ReadyInOrder
      <3>2. \A e \in Ready' \ failed, x \in Waiting \union Received : x < e
        BY <1>0, <2>3 DEF ReadyInOrder, PikaNumbers
      <3> QED BY <1>1, <1>2, <2>2, <3>1, <3>2 DEF ReadyInOrder
    <2>7. SentInOrder'
      <3>1. \A l \in 1 .. Len(sent) : ~Pika!InTransit(l)'
        BY <1>0, <1>1, <1>3, <2>1 DEF PikaNumbers, Pika!InTransit, Pika!OnThisConnection
      <3> QED BY <1>1, <3>1 DEF SentInOrder
    <2> QED BY <1>4, <2>5, <2>6, <2>7 DEF PikaOrder
  <1> QED BY <1>5, <1>6

LEMMA OrderNext == PikaInv /\ PikaOrder /\ Pika!Next => PikaOrder'
  BY OrderPublish, OrderBegin, OrderArrive, OrderDone, OrderConnection DEF Pika!Next

-----------------------------------------------------------------------------
(* The broker of an assistant.                                              *)

BrokerIInv ==
  \/ type = "pika" /\ PikaInv /\ PikaOrder
  \/ type = "kafka" /\ KafkaInv

LEMMA BrokerInvariance == BrokerSpec => []BrokerIInv
  <1>1. CreateBroker => BrokerIInv
    BY PikaInit, OrderInit, KafkaInit DEF CreateBroker, BrokerIInv
  <1>2. BrokerIInv /\ [BrokerNext]_brokerVars => BrokerIInv'
    <2> SUFFICES ASSUME BrokerIInv, [BrokerNext]_brokerVars PROVE BrokerIInv'
      OBVIOUS
    <2>1. type' = type
      BY DEF BrokerNext, brokerVars
    <2>2. CASE type = "pika" /\ PikaInv /\ PikaOrder
      <3>1. Pika!Next \/ UNCHANGED <<up, handed, pikaVars>>
        BY <2>2 DEF BrokerNext, brokerVars
      <3> QED BY <2>1, <2>2, <3>1, PikaNext, PikaConnection, OrderNext, OrderConnection
                DEF BrokerIInv
    <2>3. CASE type = "kafka" /\ KafkaInv
      <3>1. Kafka!Next \/ UNCHANGED <<up, handed, kafkaVars>>
        BY <2>3 DEF BrokerNext, brokerVars
      <3> QED BY <2>1, <2>3, <3>1, KafkaNext, KafkaCluster DEF BrokerIInv
    <2> QED BY <2>2, <2>3 DEF BrokerIInv
  <1> QED BY <1>1, <1>2, PTL DEF BrokerSpec

-----------------------------------------------------------------------------
(* The theorems.                                                            *)

\* The variables of the broker in use keep their types.
THEOREM BrokerTypeCorrect == BrokerSpec => []BrokerTypeOK
  <1>1. BrokerIInv => BrokerTypeOK
    BY DEF BrokerIInv, PikaInv, KafkaInv, KafkaTypes, BrokerTypeOK
  <1> QED BY <1>1, BrokerInvariance, PTL

\* Nothing handed to a broker gets lost but what it gave up, or was not to
\* keep: tasks, queue and reconnections of Pika, buffer and retries of Kafka.
THEOREM NothingForgottenAlways == BrokerSpec => []NothingForgotten
  <1>1. BrokerIInv => NothingForgotten
    BY PikaInvSuffices DEF BrokerIInv, KafkaInv, NothingForgotten
  <1> QED BY <1>1, BrokerInvariance, PTL

\* None of Pika's events is about to be published twice.
THEOREM PikaQueuedOnceAlways == BrokerSpec => []PikaQueuedOnce
  <1>1. BrokerIInv => PikaQueuedOnce
    BY PikaInvSuffices DEF BrokerIInv, PikaQueuedOnce
  <1> QED BY <1>1, BrokerInvariance, PTL

\* An event whose publishing never raised is at the exchange once, and nothing
\* newer got there before it.
THEOREM PikaInOrderAlways == BrokerSpec => []PikaInOrder
  <1>1. BrokerIInv => PikaInOrder
    BY PikaOrderSuffices DEF BrokerIInv, PikaInOrder
  <1> QED BY <1>1, BrokerInvariance, PTL

\* The broker gives each event to one Kafka producer, once and in order, whatever
\* is retried and however often the producer is replaced.
THEOREM KafkaGivenOnceInOrderAlways == BrokerSpec => []KafkaGivenOnceInOrder
  <1>1. KafkaInv => Kafka!GivenOnceInOrder
    <2> SUFFICES ASSUME KafkaInv PROVE Kafka!GivenOnceInOrder
      OBVIOUS
    <2>1. DOMAIN given = 1 .. Len(given)
      BY KafkaSequences, LenProperties DEF KafkaInv
    <2> QED BY <2>1 DEF KafkaInv, KafkaOrder, Increasing, Kafka!GivenOnceInOrder
  <1>2. BrokerIInv => KafkaGivenOnceInOrder
    BY <1>1 DEF BrokerIInv, KafkaGivenOnceInOrder
  <1> QED BY <1>2, BrokerInvariance, PTL

\* While the cluster can be reached, exactly the events that fit the buffer
\* are taken by the producer: the delivery reports are never served.
THEOREM KafkaDropsOnceFullAlways == BrokerSpec => []KafkaDropsOnceFull
  <1>1. KafkaInv => Kafka!DropsOnceFull
    <2> SUFFICES ASSUME KafkaInv, failures = 0
                 PROVE  /\ \A l \in lost : l[1] > BufferLimit
                        /\ \A e \in topic : e =< BufferLimit
      BY DEF Kafka!DropsOnceFull
    <2> QED BY DEF KafkaInv, KafkaFills
  <1>2. BrokerIInv => KafkaDropsOnceFull
    BY <1>1 DEF BrokerIInv, KafkaDropsOnceFull
  <1> QED BY <1>2, BrokerInvariance, PTL

=============================================================================
