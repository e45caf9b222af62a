---------------------------- MODULE OfflineProofs ----------------------------
(***************************************************************************)
(* Proofs about what runs beside the server: the evaluation of markers, and *)
(* the training with a cache.                                               *)
(*                                                                         *)
(* Markers, for every set of configurations, conversations and bounds: its  *)
(* type invariant, that a marker finds its parts at the event it tracks,    *)
(* and that what is found in a session is what the markers stand for.  The  *)
(* definition looks at a whole session, the markers at one event after the  *)
(* other.  In between stand four facts: a session is an interval of         *)
(* positions (SessionBounds); what a marker stands for is made of what its  *)
(* parts stand for (MeaningUnfolds); the progress of a sequence is how far  *)
(* it can be gone through since its last end, and no further                *)
(* (SequenceSteps); so what the markers found so far is where they apply    *)
(* (Meant), if they began the session afresh.                               *)
(*                                                                         *)
(* Training, for every graph, every size of the cache and any number of     *)
(* trainings and faults: its type invariant, that models are as if trained  *)
(* in full, that the cache keeps to its size, what leaves results behind,   *)
(* and when a node is run again. All outputs ever made form a set that      *)
(* grows (Universe), in which the content of an output says what it was     *)
(* made of; entries, prints and values are taken from it (Typed). What a    *)
(* training knows of a node was made of what it knows of the node's parents *)
(* (JobOK). TrainingInv is the two together; CacheInv adds what a training  *)
(* that nothing disturbs finds in the cache, and CalmInv that it finds all  *)
(* of a model that was finished before.                                     *)
(***************************************************************************)
EXTENDS Markers, IncrementalTraining, Lemmas, FiniteSetTheorems

-----------------------------------------------------------------------------
\* What the lookups of a configuration give: the markers are names, each is
\* listed once, and there is one.
LEMMA ConfigFacts ==
  ASSUME config \in Configs
  PROVE  /\ config.order \in Seq(Names)
         /\ Len(config.order) \in Nat \ {0}
         /\ DOMAIN config.order = 1 .. Len(config.order)
         /\ \A i \in DOMAIN config.order : config.order[i] \in Names
         /\ \A i, k \in DOMAIN config.order : config.order[i] = config.order[k] => i = k
         /\ config.parts \in [Names -> Seq(Names)]
  BY ConfigsAssumption

-----------------------------------------------------------------------------
(* The sessions of a conversation: how many of the positions in S are not    *)
(* beyond p grows by one at each of them.                                    *)

Count(S, p) == Cardinality({k \in S : k =< p})
Nth(S, n) == CHOOSE i \in S : Count(S, i) = n

\* At the positions of S the count grows by one, elsewhere it stays.
LEMMA CountSteps ==
  ASSUME NEW L \in Nat, NEW S \in SUBSET (1 .. L)
  PROVE  /\ Cardinality(S) \in Nat
         /\ Count(S, 0) = 0 /\ Count(S, L) = Cardinality(S)
         /\ \A p \in 0 .. L : Count(S, p) \in Nat /\ Count(S, p) =< Cardinality(S)
         /\ \A p \in 1 .. L : Count(S, p) = Count(S, p - 1) + (IF p \in S THEN 1 ELSE 0)
  <1>0. \A k \in S : k \in Nat /\ 1 =< k /\ k =< L
    OBVIOUS
  <1>1. IsFiniteSet(S) /\ Cardinality(S) \in Nat
    <2>1. IsFiniteSet(1 .. L)
      BY FS_Interval
    <2> QED BY <2>1, FS_Subset, FS_CardinalityType
  <1>2. ASSUME NEW p \in 0 .. L
        PROVE  /\ IsFiniteSet({k \in S : k =< p})
               /\ Count(S, p) \in Nat /\ Count(S, p) =< Cardinality(S)
    <2> DEFINE T == {k \in S : k =< p}
    <2>1. T \in SUBSET S
      OBVIOUS
    <2> HIDE DEF T
    <2>2. IsFiniteSet(T) /\ Cardinality(T) =< Cardinality(S) /\ Cardinality(T) \in Nat
      BY <1>1, <2>1, FS_Subset, FS_CardinalityType
    <2> QED BY <2>2 DEF T, Count
  <1>3. Count(S, 0) = 0
    <2>1. {k \in S : k =< 0} = {}
      <3>1. \A k \in S : ~(k =< 0)
        BY <1>0
      <3> QED BY <3>1
    <2> QED BY <2>1, FS_EmptySet DEF Count
  <1>4. Count(S, L) = Cardinality(S)
    <2>1. {k \in S : k =< L} = S
      BY <1>0
    <2> QED BY <2>1 DEF Count
  <1>5. ASSUME NEW p \in 1 .. L
        PROVE  Count(S, p) = Count(S, p - 1) + (IF p \in S THEN 1 ELSE 0)
    <2> DEFINE before == {k \in S : k =< p - 1}
    <2>1. IsFiniteSet(before) /\ Cardinality(before) \in Nat /\ Count(S, p - 1) = Cardinality(before)
      <3>1. p - 1 \in 0 .. L
        OBVIOUS
      <3> QED BY <1>2, <3>1 DEF Count
    <2>2. CASE p \in S
      <3>1. \A k \in S : k =< p <=> k =< p - 1 \/ k = p
        BY <1>0
      <3>2. {k \in S : k =< p} = before \union {p}
        <4>1. p =< p
          OBVIOUS
        <4> QED BY <2>2, <3>1, <4>1
      <3>3. p \notin before
        OBVIOUS
      <3> HIDE DEF before
      <3>4. Cardinality(before \union {p}) = Cardinality(before) + 1
        BY <2>1, <3>3, FS_AddElement
      <3> QED BY <2>1, <2>2, <3>2, <3>4 DEF Count
    <2>3. CASE p \notin S
      <3>0. \A k \in S : k =< p <=> k =< p - 1
        BY <1>0, <2>3
      <3>1. {k \in S : k =< p} = before
        BY <3>0
      <3> HIDE DEF before
      <3> QED BY <2>1, <2>3, <3>1 DEF Count
    <2> QED BY <2>2, <2>3
  <1> QED BY <1>1, <1>2, <1>3, <1>4, <1>5

\* The count never falls.
LEMMA CountGrows ==
  ASSUME NEW L \in Nat, NEW S \in SUBSET (1 .. L), NEW p \in 0 .. L, NEW q \in 0 .. L, p =< q
  PROVE  Count(S, p) =< Count(S, q)
  <1> DEFINE T == {k \in S : k =< q}
             U == {k \in S : k =< p}
  <1>1. U \in SUBSET T /\ T \in SUBSET S
    <2>1. \A k \in S : k \in Nat
      OBVIOUS
    <2>2. \A k \in S : k =< p => k =< q
      BY <2>1
    <2> QED BY <2>2
  <1>2. IsFiniteSet(1 .. L)
    BY FS_Interval
  <1> HIDE DEF T, U
  <1>3. IsFiniteSet(T)
    BY <1>1, <1>2, FS_Subset
  <1>4. Cardinality(U) =< Cardinality(T)
    BY <1>1, <1>3, FS_Subset
  <1> QED BY <1>4 DEF Count, T, U

\* The n-th position of a set: from there on n positions, at least, are not
\* beyond.
LEMMA CountFinds ==
  ASSUME NEW L \in Nat, NEW S \in SUBSET (1 .. L), NEW n \in 1 .. Cardinality(S)
  PROVE  Nth(S, n) \in S /\ \A p \in 0 .. L : Count(S, p) >= n <=> p >= Nth(S, n)
  <1> DEFINE Far == {p \in 0 .. L : Count(S, p) >= n}
             j == Min(Far)
  <1>1. /\ Cardinality(S) \in Nat /\ n \in Nat \ {0}
        /\ Count(S, 0) = 0 /\ Count(S, L) = Cardinality(S)
        /\ \A p \in 0 .. L : Count(S, p) \in Nat
    BY CountSteps
  <1>2. Far \in SUBSET Nat /\ L \in Far
    BY <1>1
  <1>3. j \in Far /\ \A p \in Far : j =< p
    <2> HIDE DEF Far
    <2> QED BY <1>2, MinLeast
  <1> HIDE DEF j
  <1>4. j \in 1 .. L /\ Count(S, j) >= n
    BY <1>1, <1>3
  <1>5. ~(Count(S, j - 1) >= n)
    BY <1>3, <1>4
  <1>6. Count(S, j) = Count(S, j - 1) + (IF j \in S THEN 1 ELSE 0)
    BY <1>4, CountSteps
  <1>7. Count(S, j - 1) \in Nat /\ Count(S, j) \in Nat
    BY <1>1, <1>4
  <1>8. j \in S /\ Count(S, j) = n
    BY <1>1, <1>4, <1>5, <1>6, <1>7
  <1> DEFINE i == Nth(S, n)
  <1>9. i \in S /\ Count(S, i) = n
    BY <1>8 DEF Nth
  <1> HIDE DEF i
  <1>10. ASSUME NEW p \in 0 .. L PROVE Count(S, p) >= n <=> p >= i
    <2>1. i \in 1 .. L /\ i \in 0 .. L /\ i - 1 \in 0 .. L
      BY <1>9
    <2>2. CASE p >= i
      <3>1. Count(S, i) =< Count(S, p)
        BY <2>1, <2>2, CountGrows
      <3> QED BY <1>1, <1>9, <2>1, <2>2, <3>1
    <2>3. CASE p < i
      <3>1. p =< i - 1
        BY <2>1, <2>3
      <3>2. Count(S, p) =< Count(S, i - 1)
        BY <2>1, <3>1, CountGrows
      <3>3. Count(S, i) = Count(S, i - 1) + 1
        BY <1>9, <2>1, CountSteps
      <3> QED BY <1>1, <1>9, <2>1, <2>3, <3>2, <3>3
    <2> QED BY <2>1, <2>2, <2>3
  <1> QED BY <1>9, <1>10 DEF i

\* A session is what lies between its bounds.
LEMMA SessionBounds ==
  ASSUME events \in Seq(Events), NEW n \in 1 .. Cardinality(FirstPositions)
  PROVE  /\ StartOf(n) \in Nat \ {0} /\ EndOf(n) \in Nat
         /\ StartOf(n) =< EndOf(n) /\ EndOf(n) =< Len(events) + 1
         /\ Session(n) = StartOf(n) .. EndOf(n) - 1
  <1> DEFINE L == Len(events)
  <1>1. L \in Nat /\ DOMAIN events = 1 .. L
    OBVIOUS
  <1>2. CASE Starts = {}
    <2>1. FirstPositions = {1} /\ Cardinality(FirstPositions) = 1
      BY <1>2, FS_Singleton DEF FirstPositions
    <2>2. n = 1
      BY <2>1
    <2>3. {k \in FirstPositions : k =< 1} = FirstPositions
      BY <2>1
    <2>4. StartOf(n) = 1
      BY <2>1, <2>2, <2>3 DEF StartOf
    <2>5. EndOf(n) = L + 1
      BY <2>1, <2>2 DEF EndOf
    <2>6. Session(n) = 1 .. L
      BY <1>1, <1>2 DEF Session
    <2> QED BY <1>1, <2>4, <2>5, <2>6
  <1>3. CASE Starts # {}
    <2> DEFINE S == Starts
               N == Cardinality(S)
    <2>1. S = FirstPositions /\ S \in SUBSET (1 .. L)
      BY <1>1, <1>3 DEF FirstPositions, Starts
    <2>2. \A m : StartOf(m) = Nth(S, m)
      BY <2>1, Zenon DEF StartOf, Nth, Count
    <2>3. Session(n) = {p \in 1 .. L : Count(S, p) = n}
      BY <1>1, <1>3, Zenon DEF Session, Count
    <2> HIDE DEF S, L
    <2>4. /\ N \in Nat
          /\ \A p \in 0 .. L : Count(S, p) \in Nat /\ Count(S, p) =< N
      BY <1>1, <2>1, CountSteps
    <2>5. ASSUME NEW m \in 1 .. N
          PROVE  StartOf(m) \in 1 .. L /\ \A p \in 0 .. L : Count(S, p) >= m <=> p >= StartOf(m)
      <3>1. L \in Nat /\ S \in SUBSET (1 .. L) /\ m \in 1 .. Cardinality(S)
        BY <1>1, <2>1, <2>5
      <3>2. Nth(S, m) \in S /\ \A p \in 0 .. L : Count(S, p) >= m <=> p >= Nth(S, m)
        BY <3>1, CountFinds
      <3> QED BY <2>1, <2>2, <3>2
    <2>6. n \in 1 .. N
      BY <2>1
    <2>7. CASE n = N
      <3>1. EndOf(n) = L + 1
        BY <2>1, <2>7 DEF EndOf, L
      <3>2. ASSUME NEW p PROVE p \in Session(n) <=> p \in StartOf(n) .. L
        <4>1. StartOf(n) \in 1 .. L /\ \A q \in 0 .. L : Count(S, q) >= n <=> q >= StartOf(n)
          BY <2>5, <2>6
        <4> QED BY <1>1, <2>3, <2>4, <2>7, <4>1
      <3>3. StartOf(n) \in 1 .. L
        BY <2>5, <2>6
      <3>4. Session(n) = StartOf(n) .. L
        BY <3>2
      <3> QED BY <1>1, <3>1, <3>3, <3>4 DEF L
    <2>8. CASE n # N
      <3>1. n + 1 \in 1 .. N /\ n \in Nat
        BY <2>4, <2>6, <2>8
      <3>2. EndOf(n) = StartOf(n + 1)
        BY <2>1, <2>8 DEF EndOf
      <3>3. StartOf(n + 1) \in 1 .. L /\ \A p \in 0 .. L : Count(S, p) >= n + 1 <=> p >= StartOf(n + 1)
        BY <2>5, <3>1
      <3>4. StartOf(n) \in 1 .. L /\ \A p \in 0 .. L : Count(S, p) >= n <=> p >= StartOf(n)
        BY <2>5, <2>6
      <3>5. ASSUME NEW p PROVE p \in Session(n) <=> p \in StartOf(n) .. StartOf(n + 1) - 1
        BY <1>1, <2>3, <2>4, <3>1, <3>3, <3>4
      <3>6. StartOf(n) =< StartOf(n + 1)
        <4>1. Count(S, StartOf(n + 1)) >= n + 1
          BY <1>1, <3>3
        <4>2. Count(S, StartOf(n + 1)) >= n
          BY <4>1, <3>1, <3>3, <2>4
        <4> QED BY <4>2, <3>3, <3>4
      <3>7. Session(n) = StartOf(n) .. StartOf(n + 1) - 1
        BY <3>5
      <3> QED BY <1>1, <3>2, <3>3, <3>4, <3>6, <3>7 DEF L
    <2> QED BY <2>7, <2>8
  <1> QED BY <1>2, <1>3

\* There is a session, and the first positions are as many as the sessions.
LEMMA SessionsAreFinite ==
  ASSUME events \in Seq(Events)
  PROVE  /\ Cardinality(FirstPositions) \in Nat \ {0}
         /\ Cardinality(FirstPositions) = IF Starts = {} THEN 1 ELSE Cardinality(Starts)
  <1>1. CASE Starts = {}
    <2>1. Cardinality({1}) = 1
      BY FS_Singleton
    <2> QED BY <1>1, <2>1 DEF FirstPositions
  <1>2. CASE Starts # {}
    <2>1. Starts \in SUBSET (1 .. Len(events)) /\ Len(events) \in Nat
      BY DEF Starts
    <2>2. IsFiniteSet(1 .. Len(events))
      BY <2>1, FS_Interval
    <2>3. IsFiniteSet(Starts)
      BY <2>1, <2>2, FS_Subset
    <2>4. Cardinality(Starts) \in Nat /\ Cardinality(Starts) # 0
      BY <1>2, <2>3, FS_CardinalityType, FS_EmptySet
    <2> QED BY <1>2, <2>4 DEF FirstPositions
  <1> QED BY <1>1, <1>2

-----------------------------------------------------------------------------
(* What the markers stand for is defined from what their parts stand for.    *)

Body(f, k, P) ==
  LET m == config.order[k]
  IN  Applies(m, [n \in DOMAIN config.parts[m] |-> f[IndexOf(config.parts[m][n])]], P)

IsWhere(f, P) == f = [k \in DOMAIN config.order |-> Body(f, k, P)]

\* The parts of a marker are listed before it.
LEMMA PartsBefore ==
  ASSUME config \in Configs, NEW k \in DOMAIN config.order
  PROVE  /\ IndexOf(config.order[k]) = k
         /\ \A n \in DOMAIN config.parts[config.order[k]] :
              LET part == config.parts[config.order[k]][n]
              IN  /\ IndexOf(part) \in 1 .. k - 1
                  /\ IndexOf(part) \in DOMAIN config.order
                  /\ config.order[IndexOf(part)] = part
  <1>1. \A i \in DOMAIN config.order : IndexOf(config.order[i]) = i
    BY ConfigFacts DEF IndexOf
  <1>2. ASSUME NEW n \in DOMAIN config.parts[config.order[k]]
        PROVE  \E i \in 1 .. k - 1 : i \in DOMAIN config.order /\ config.order[i] = config.parts[config.order[k]][n]
    <2>1. PICK i \in 1 .. k - 1 : config.order[i] = config.parts[config.order[k]][n]
      BY <1>2, ConfigsAssumption
    <2>2. k \in 1 .. Len(config.order) /\ Len(config.order) \in Nat
      BY ConfigFacts
    <2>3. i \in DOMAIN config.order
      BY <2>1, <2>2, ConfigFacts
    <2> QED BY <2>1, <2>3
  <1> QED BY <1>1, <1>2

\* It depends on the markers before it alone.
LEMMA BodyAgrees ==
  ASSUME config \in Configs, NEW P, NEW k \in DOMAIN config.order, NEW f, NEW g,
         \A i \in 1 .. k - 1 : f[i] = g[i]
  PROVE  Body(f, k, P) = Body(g, k, P)
  <1> DEFINE parts == config.parts[config.order[k]]
  <1>1. \A n \in DOMAIN parts : f[IndexOf(parts[n])] = g[IndexOf(parts[n])]
    BY PartsBefore
  <1>2. [n \in DOMAIN parts |-> f[IndexOf(parts[n])]] = [n \in DOMAIN parts |-> g[IndexOf(parts[n])]]
    <2> HIDE DEF parts
    <2> QED BY <1>1
  <1> QED BY <1>2, Zenon DEF Body

\* There is a function that is defined this way, so Meaning denotes one.
LEMMA WhereExists ==
  ASSUME config \in Configs, NEW P
  PROVE  \E f : IsWhere(f, P)
  <1> DEFINE D == DOMAIN config.order
             L == Len(config.order)
             UpTo(f, n) == /\ f = [k \in D |-> f[k]]
                           /\ \A k \in 1 .. n : f[k] = Body(f, k, P)
             Reached == {n \in 0 .. L : \E f : UpTo(f, n)}
  <1>1. D = 1 .. L /\ L \in Nat
    BY ConfigFacts
  <1> HIDE DEF D, L
  <1>2. 0 \in Reached
    <2>1. UpTo([k \in D |-> {}], 0)
      OBVIOUS
    <2>2. 0 \in 0 .. L
      BY <1>1
    <2> HIDE DEF UpTo
    <2> QED BY <2>1, <2>2
  <1>3. ASSUME NEW n \in 1 .. L, n - 1 \in Reached
        PROVE  n \in Reached
    <2>1. PICK f : UpTo(f, n - 1)
      BY <1>3
    <2> DEFINE new == Body(f, n, P)
               h == [k \in D |-> IF k = n THEN new ELSE f[k]]
    <2> HIDE DEF new
    <2>2. h = [k \in D |-> h[k]]
      OBVIOUS
    <2>3. \A i \in 1 .. n - 1 : h[i] = f[i]
      BY <1>1
    <2>4. ASSUME NEW k \in 1 .. n PROVE h[k] = Body(h, k, P)
      <3>1. k \in D
        BY <1>1
      <3>2. \A i \in 1 .. k - 1 : h[i] = f[i]
        BY <2>3
      <3> HIDE DEF h
      <3>3. Body(h, k, P) = Body(f, k, P)
        BY <3>1, <3>2, BodyAgrees DEF D
      <3>4. CASE k = n
        <4>1. h[k] = new
          BY <3>1, <3>4 DEF h
        <4> QED BY <4>1, <3>3, <3>4 DEF new
      <3>5. CASE k # n
        <4>1. k \in 1 .. n - 1
          BY <3>5
        <4>2. f[k] = Body(f, k, P)
          BY <2>1, <4>1
        <4> QED BY <2>3, <3>3, <4>1, <4>2
      <3> QED BY <3>4, <3>5
    <2>5. UpTo(h, n)
      BY <2>2, <2>4
    <2>6. n \in 0 .. L
      BY <1>1
    <2> HIDE DEF UpTo, h
    <2> QED BY <2>5, <2>6
  <1>4. L \in Reached
    <2> HIDE DEF Reached
    <2>1. \A n \in 0 .. L : n \in Reached
      BY <1>1, <1>2, <1>3, InductionUpTo
    <2> QED BY <1>1, <2>1
  <1>5. PICK f : UpTo(f, L)
    BY <1>4
  <1>6. \A k \in D : f[k] = Body(f, k, P)
    BY <1>1, <1>5
  <1>7. f = [k \in D |-> Body(f, k, P)]
    <2>1. f = [k \in D |-> f[k]]
      BY <1>5
    <2> QED BY <1>6, <2>1
  <1> QED BY <1>7 DEF IsWhere, D

\* What the parts of a marker stand for.
OfParts(m, P) == [n \in DOMAIN config.parts[m] |-> Meaning(P)[config.parts[m][n]]]

\* The equation that Meaning is defined by.
LEMMA MeaningUnfolds ==
  ASSUME config \in Configs, NEW P, NEW k \in DOMAIN config.order
  PROVE  Meaning(P)[config.order[k]] = Applies(config.order[k], OfParts(config.order[k], P), P)
  <1> DEFINE where == CHOOSE f : IsWhere(f, P)
  <1>1. IsWhere(where, P)
    <2> HIDE DEF where
    <2> QED BY WhereExists, Zenon DEF where
  <1>2. Meaning(P) = [m \in Markers |-> where[IndexOf(m)]]
    BY Zenon DEF Meaning, IsWhere, Body
  <1> HIDE DEF where
  <1>3. ASSUME NEW i \in DOMAIN config.order
        PROVE  Meaning(P)[config.order[i]] = where[i]
    <2>1. config.order[i] \in Markers /\ IndexOf(config.order[i]) = i
      BY PartsBefore DEF Markers
    <2> QED BY <1>2, <2>1
  <1>4. where[k] = Body(where, k, P)
    BY <1>1 DEF IsWhere
  <1> DEFINE parts == config.parts[config.order[k]]
  <1>5. ASSUME NEW n \in DOMAIN parts
        PROVE  Meaning(P)[parts[n]] = where[IndexOf(parts[n])]
    BY <1>3, PartsBefore
  <1>6. [n \in DOMAIN parts |-> where[IndexOf(parts[n])]] = OfParts(config.order[k], P)
    <2> HIDE DEF parts
    <2>1. OfParts(config.order[k], P) = [n \in DOMAIN parts |-> Meaning(P)[parts[n]]]
      BY DEF OfParts, parts
    <2> QED BY <1>5, <2>1
  <1>7. Body(where, k, P) = Applies(config.order[k], OfParts(config.order[k], P), P)
    BY <1>6, Zenon DEF Body
  <1> QED BY <1>3, <1>4, <1>7

-----------------------------------------------------------------------------
(* Where a marker applies, tag by tag.                                       *)

\* No marker is negated, since from_config hands no negation on, and those that
\* are made of parts have some.
LEMMA MarkerFacts ==
  ASSUME config \in Configs, NEW i \in DOMAIN config.order
  PROVE  LET m == config.order[i]
         IN  /\ m \in Names /\ config.parts[m] \in Seq(Names)
             /\ Marker(m).negated = FALSE
             /\ Marker(m).tag \in Conditions \union Operators
             /\ Marker(m).tag \in Operators => Len(config.parts[m]) \in Nat \ {0}
             /\ Configured(m).tag = Marker(m).tag
             /\ WithoutNegation => Configured(m).negated = FALSE
  <1> DEFINE m == config.order[i]
             tag == config.tag[m]
             plain == NonNegatedTag(tag)
  <1>1. m \in Names /\ config.parts[m] \in Seq(Names) /\ tag \in Tags
    BY ConfigFacts, ConfigsAssumption
  <1>2. /\ plain \in Conditions \union Operators
        /\ NonNegatedTag(plain) = plain
        /\ plain \in Operators => tag \in Operators \union {"never", "at_least_one_not"}
    BY <1>1 DEF NonNegatedTag, NegatedTags, Tags, Conditions, Operators
  <1>3. Marker(m).tag = plain /\ Marker(m).negated = FALSE /\ Configured(m).tag = plain
    BY <1>2 DEF Marker, Configured, FromConfig, FromTag
  <1>6. WithoutNegation => Configured(m).negated = FALSE
    BY DEF WithoutNegation, Configured, FromTag, NonNegatedTag, Markers
  <1>4. tag \in Operators \union {"never", "at_least_one_not"} => config.parts[m] # <<>>
    BY ConfigsAssumption
  <1>5. plain \in Operators => Len(config.parts[m]) \in Nat \ {0}
    BY <1>1, <1>2, <1>4
  <1> QED BY <1>1, <1>2, <1>3, <1>5, <1>6

\* Where a marker with this tag applies.
ByTag(tag, here, m, sets, P) ==
  /\ tag = "action" => here = Named(m, "action", P)
  /\ tag = "intent" => here = Named(m, "user", P)
  /\ tag = "slot_was_set" => here = {p \in P : Filled(m, p, P)}
  /\ tag = "and" => here = {p \in P : \A i \in DOMAIN sets : p \in sets[i]}
  /\ tag = "or" => here = {p \in P : \E i \in DOMAIN sets : p \in sets[i]}
  /\ tag = "not" => here = P \ sets[1]
  /\ tag = "at_least_once" => here = {p \in P : \E q \in sets[1] : q =< p}
  /\ tag = "seq" => here = SequencePositions(sets, P)

\* The cases of PlainlyApplies exclude one another.
LEMMA PlainlyByTag ==
  ASSUME NEW m, NEW sets, NEW P
  PROVE  ByTag(Configured(m).tag, PlainlyApplies(m, sets, P), m, sets, P)
  <1>1. ASSUME Configured(m).tag = "action" PROVE PlainlyApplies(m, sets, P) = Named(m, "action", P)
    BY <1>1, Zenon DEF PlainlyApplies
  <1>2. ASSUME Configured(m).tag = "intent" PROVE PlainlyApplies(m, sets, P) = Named(m, "user", P)
    BY <1>2, Zenon DEF PlainlyApplies
  <1>3. ASSUME Configured(m).tag = "slot_was_set" PROVE PlainlyApplies(m, sets, P) = {p \in P : Filled(m, p, P)}
    BY <1>3, Zenon DEF PlainlyApplies
  <1>4. ASSUME Configured(m).tag = "and"
        PROVE  PlainlyApplies(m, sets, P) = {p \in P : \A i \in DOMAIN sets : p \in sets[i]}
    BY <1>4, Zenon DEF PlainlyApplies
  <1>5. ASSUME Configured(m).tag = "or"
        PROVE  PlainlyApplies(m, sets, P) = {p \in P : \E i \in DOMAIN sets : p \in sets[i]}
    BY <1>5, Zenon DEF PlainlyApplies
  <1>6. ASSUME Configured(m).tag = "not" PROVE PlainlyApplies(m, sets, P) = P \ sets[1]
    BY <1>6, Zenon DEF PlainlyApplies
  <1>7. ASSUME Configured(m).tag = "at_least_once"
        PROVE  PlainlyApplies(m, sets, P) = {p \in P : \E q \in sets[1] : q =< p}
    BY <1>7, Zenon DEF PlainlyApplies
  <1>8. ASSUME Configured(m).tag = "seq" PROVE PlainlyApplies(m, sets, P) = SequencePositions(sets, P)
    BY <1>8, Zenon DEF PlainlyApplies
  <1> QED BY <1>1, <1>2, <1>3, <1>4, <1>5, <1>6, <1>7, <1>8 DEF ByTag

\* A marker applies at positions of the session.
LEMMA MeaningWithin ==
  ASSUME config \in Configs, NEW P, NEW k \in DOMAIN config.order
  PROVE  /\ Meaning(P)[config.order[k]] \subseteq P
         /\ \A n \in DOMAIN config.parts[config.order[k]] :
              OfParts(config.order[k], P)[n] \subseteq P
  <1>1. ASSUME NEW i \in DOMAIN config.order
        PROVE  Meaning(P)[config.order[i]] \subseteq P
    <2> DEFINE m == config.order[i]
               sets == OfParts(m, P)
               tag == Configured(m).tag
               here == PlainlyApplies(m, sets, P)
    <2>1. tag \in Conditions \union Operators
      BY MarkerFacts
    <2>2. Meaning(P)[m] = Applies(m, sets, P)
      BY MeaningUnfolds
    <2>3. Applies(m, sets, P) = here \/ Applies(m, sets, P) = P \ here
      BY DEF Applies
    <2>4. ByTag(tag, here, m, sets, P)
      BY PlainlyByTag
    <2> HIDE DEF m, sets, tag, here
    <2>5. /\ Named(m, "action", P) \subseteq P /\ Named(m, "user", P) \subseteq P
          /\ SequencePositions(sets, P) \subseteq P
      BY DEF Named, SequencePositions
    <2>6. tag \in Conditions => here \subseteq P
      BY <2>4, <2>5 DEF Conditions, ByTag
    <2>7. tag \in Operators => here \subseteq P
      BY <2>4, <2>5 DEF Operators, ByTag
    <2>8. Meaning(P)[m] \subseteq P
      BY <2>1, <2>2, <2>3, <2>6, <2>7
    <2> QED BY <2>8 DEF m
  <1>2. ASSUME NEW n \in DOMAIN config.parts[config.order[k]]
        PROVE  OfParts(config.order[k], P)[n] \subseteq P
    <2> DEFINE part == config.parts[config.order[k]][n]
    <2>1. OfParts(config.order[k], P)[n] = Meaning(P)[part]
      BY <1>2 DEF OfParts
    <2>2. IndexOf(part) \in DOMAIN config.order /\ config.order[IndexOf(part)] = part
      BY <1>2, PartsBefore
    <2> QED BY <1>1, <2>1, <2>2
  <1> QED BY <1>1, <1>2

-----------------------------------------------------------------------------
(* Sequences: a way through the first j of the sets, between two positions.  *)

Leads(way, sets, j, from, to) ==
  /\ way \in [1 .. j -> from .. to]
  /\ \A i \in 1 .. j : way[i] \in sets[i]
  /\ \A i, k \in 1 .. j : i < k => way[i] < way[k]

Way(sets, j, from, to) == \E way : Leads(way, sets, j, from, to)

\* Through no set one comes at once; through a set only where it is met.
LEMMA NoWay ==
  ASSUME NEW sets, NEW from \in Int, NEW to \in Int
  PROVE  /\ Way(sets, 0, from, to)
         /\ (\A p \in from .. to : p \notin sets[1]) => ~Way(sets, 1, from, to)
  <1>1. Leads([i \in 1 .. 0 |-> from], sets, 0, from, to)
    BY DEF Leads
  <1>2. ASSUME NEW way, Leads(way, sets, 1, from, to)
        PROVE  way[1] \in from .. to /\ way[1] \in sets[1]
    <2>1. 1 \in 1 .. 1
      OBVIOUS
    <2> QED BY <1>2, <2>1 DEF Leads
  <1> QED BY <1>1, <1>2 DEF Way

\* A way through some of the sets goes through the first of them.
LEMMA WayShorter ==
  ASSUME NEW sets, NEW j \in Nat, NEW i \in 0 .. j, NEW from \in Int, NEW to \in Int,
         Way(sets, j, from, to)
  PROVE  Way(sets, i, from, to)
  <1>1. PICK way : Leads(way, sets, j, from, to)
    BY DEF Way
  <1> DEFINE short == [k \in 1 .. i |-> way[k]]
  <1>2. \A k \in 1 .. i : k \in 1 .. j
    OBVIOUS
  <1>3. Leads(short, sets, i, from, to)
    BY <1>1, <1>2 DEF Leads
  <1> QED BY <1>3 DEF Way

\* There is more than enough room for a way.
LEMMA WayLater ==
  ASSUME NEW sets, NEW j \in Nat, NEW from \in Int, NEW to \in Int,
         Way(sets, j, from, to)
  PROVE  Way(sets, j, from, to + 1)
  <1>1. PICK way : Leads(way, sets, j, from, to)
    BY DEF Way
  <1>2. way \in [1 .. j -> from .. to + 1]
    <2>1. \A p \in from .. to : p \in from .. to + 1
      OBVIOUS
    <2> QED BY <1>1, <2>1 DEF Leads
  <1>3. Leads(way, sets, j, from, to + 1)
    BY <1>1, <1>2 DEF Leads
  <1> QED BY <1>3 DEF Way

\* A way goes on to a position of the next set.
LEMMA WayExtends ==
  ASSUME NEW sets, NEW j \in Nat, NEW from \in Int, NEW to \in Int, from =< to,
         Way(sets, j, from, to - 1), to \in sets[j + 1]
  PROVE  Way(sets, j + 1, from, to)
  <1>1. PICK way : Leads(way, sets, j, from, to - 1)
    BY DEF Way
  <1> DEFINE long == [k \in 1 .. j + 1 |-> IF k = j + 1 THEN to ELSE way[k]]
  <1>2. ASSUME NEW k \in 1 .. j
        PROVE  way[k] \in from .. to /\ way[k] < to /\ long[k] = way[k] /\ way[k] \in sets[k]
    <2>1. way[k] \in from .. to - 1 /\ way[k] \in sets[k]
      BY <1>1 DEF Leads
    <2> QED BY <2>1
  <1>3. long[j + 1] = to /\ to \in from .. to
    OBVIOUS
  <1>4. \A k \in 1 .. j + 1 : k = j + 1 \/ k \in 1 .. j
    OBVIOUS
  <1>5. \A i, k \in 1 .. j : i < k => way[i] < way[k]
    BY <1>1 DEF Leads
  <1>6. DOMAIN long = 1 .. j + 1 /\ long = [k \in 1 .. j + 1 |-> long[k]]
    OBVIOUS
  <1> HIDE DEF long
  <1>7. \A k \in 1 .. j + 1 : long[k] \in from .. to /\ long[k] \in sets[k]
    BY <1>2, <1>3, <1>4
  <1>8. ASSUME NEW i \in 1 .. j + 1, NEW k \in 1 .. j + 1, i < k
        PROVE  long[i] < long[k]
    <2>1. i \in 1 .. j
      BY <1>8
    <2>2. CASE k = j + 1
      BY <1>2, <1>3, <2>1, <2>2
    <2>3. CASE k \in 1 .. j
      BY <1>2, <1>5, <1>8, <2>1, <2>3
    <2> QED BY <1>4, <2>2, <2>3
  <1>9. Leads(long, sets, j + 1, from, to)
    BY <1>6, <1>7, <1>8 DEF Leads
  <1> QED BY <1>9 DEF Way

\* A way to a position leads there with its last step, or ends before.
LEMMA WayBefore ==
  ASSUME NEW sets, NEW j \in Nat, NEW from \in Int, NEW to \in Int,
         Way(sets, j + 1, from, to)
  PROVE  /\ Way(sets, j, from, to - 1)
         /\ to \notin sets[j + 1] => Way(sets, j + 1, from, to - 1)
  <1>1. PICK way : Leads(way, sets, j + 1, from, to)
    BY DEF Way
  <1>2. /\ \A k \in 1 .. j + 1 : way[k] \in from .. to /\ way[k] \in sets[k]
        /\ \A i, k \in 1 .. j + 1 : i < k => way[i] < way[k]
        /\ way = [k \in 1 .. j + 1 |-> way[k]]
    BY <1>1 DEF Leads
  <1>3. ASSUME NEW k \in 1 .. j
        PROVE  k \in 1 .. j + 1 /\ way[k] \in from .. to - 1
    <2>1. k \in 1 .. j + 1 /\ j + 1 \in 1 .. j + 1 /\ k < j + 1
      OBVIOUS
    <2>2. way[k] < way[j + 1] /\ way[k] \in from .. to /\ way[j + 1] \in from .. to
      BY <1>2, <2>1
    <2> QED BY <2>1, <2>2
  <1>4. Way(sets, j, from, to - 1)
    <2> DEFINE short == [k \in 1 .. j |-> way[k]]
    <2>1. Leads(short, sets, j, from, to - 1)
      BY <1>2, <1>3 DEF Leads
    <2> QED BY <2>1 DEF Way
  <1>5. ASSUME to \notin sets[j + 1] PROVE Way(sets, j + 1, from, to - 1)
    <2>1. j + 1 \in 1 .. j + 1
      OBVIOUS
    <2>2. way[j + 1] \in from .. to - 1
      BY <1>2, <1>5, <2>1
    <2>3. \A k \in 1 .. j + 1 : k = j + 1 \/ k \in 1 .. j
      OBVIOUS
    <2>4. \A k \in 1 .. j + 1 : way[k] \in from .. to - 1
      BY <1>3, <2>2, <2>3
    <2>5. Leads(way, sets, j + 1, from, to - 1)
      BY <1>2, <2>4 DEF Leads
    <2> QED BY <2>5 DEF Way
  <1> QED BY <1>4, <1>5

\* To go through all the sets is to find a way through the last.
LEMMA GoneThroughIsWay ==
  ASSUME NEW sets, NEW n \in Nat, DOMAIN sets = 1 .. n, NEW from \in Int, NEW to \in Int
  PROVE  GoneThrough(sets, from, to) <=> Way(sets, n, from, to)
  BY DEF GoneThrough, Way, Leads

\* The last end of a sequence, position by position.
LEMMA EndsUnfold ==
  ASSUME events \in Seq(Events), NEW sets, NEW P
  PROVE  LET ends == Ends(sets, P)
         IN  /\ ends[0] = 0
             /\ \A p \in 1 .. Len(events) :
                  ends[p] = IF p \in P /\ GoneThrough(sets, ends[p - 1] + 1, p) THEN p ELSE ends[p - 1]
             /\ \A p \in 0 .. Len(events) : ends[p] \in 0 .. p
  <1> DEFINE L == Len(events)
             EndAt(f, p) == IF p = 0 THEN 0
                         ELSE IF p \in P /\ GoneThrough(sets, f[p - 1] + 1, p) THEN p
                         ELSE f[p - 1]
             IsEnds(f) == f = [p \in 0 .. L |-> EndAt(f, p)]
             step == [s \in Nat \X Nat |->
                        IF s[2] \in P /\ GoneThrough(sets, s[1] + 1, s[2]) THEN s[2] ELSE s[1]]
             all == [p \in 1 .. L |-> p]
  <1>1. L \in Nat
    OBVIOUS
  <1> HIDE DEF L
  <1>2. step \in [Nat \X Nat -> Nat] /\ all \in Seq(Nat) /\ Len(all) = L
    <2>1. all \in [1 .. L -> Nat]
      OBVIOUS
    <2>2. all \in Seq(Nat) /\ Len(all) = L
      BY <1>1, <2>1
    <2>3. step \in [Nat \X Nat -> Nat]
      OBVIOUS
    <2> QED BY <2>2, <2>3
  <1>3. PICK g : IsFold(g, Nat, step, 0, all)
    <2> HIDE DEF step, all
    <2>1. 0 \in Nat
      OBVIOUS
    <2> QED BY <1>2, <2>1, FoldExists
  <1>4. g \in [0 .. L -> Nat] /\ g[0] = 0
    BY <1>2, <1>3 DEF IsFold
  <1>5. ASSUME NEW p \in 1 .. L PROVE g[p] = EndAt(g, p)
    <2>1. all[p] = p /\ p \in Nat /\ p - 1 \in 0 .. L /\ p # 0
      BY <1>1
    <2>2. g[p] = step[<<g[p - 1], all[p]>>]
      BY <1>2, <1>3 DEF IsFold
    <2>3. g[p - 1] \in Nat
      BY <1>4, <2>1
    <2>4. step[<<g[p - 1], p>>] = IF p \in P /\ GoneThrough(sets, g[p - 1] + 1, p) THEN p ELSE g[p - 1]
      <3> DEFINE n == g[p - 1]
      <3>1. n \in Nat
        BY <2>3
      <3> HIDE DEF n
      <3>2. step[<<n, p>>] = IF p \in P /\ GoneThrough(sets, n + 1, p) THEN p ELSE n
        BY <2>1, <3>1
      <3> QED BY <3>2 DEF n
    <2> HIDE DEF step, all
    <2> QED BY <2>1, <2>2, <2>4
  <1>6. IsEnds(g)
    <2>1. \A p \in 0 .. L : g[p] = EndAt(g, p)
      <3>1. \A p \in 0 .. L : p = 0 \/ p \in 1 .. L
        BY <1>1
      <3>2. EndAt(g, 0) = 0
        OBVIOUS
      <3> HIDE DEF EndAt
      <3> QED BY <1>4, <1>5, <3>1, <3>2
    <2> HIDE DEF EndAt
    <2> QED BY <1>4, <2>1
  <1>7. IsEnds(Ends(sets, P))
    <2>1. Ends(sets, P) = CHOOSE f : IsEnds(f)
      BY Zenon DEF Ends, L
    <2> HIDE DEF IsEnds
    <2> QED BY <1>6, <2>1
  <1> DEFINE ends == Ends(sets, P)
  <1>8. /\ ends[0] = 0
        /\ \A p \in 1 .. L :
             ends[p] = IF p \in P /\ GoneThrough(sets, ends[p - 1] + 1, p) THEN p ELSE ends[p - 1]
    <2> DEFINE f == ends
    <2>1. f = [p \in 0 .. L |-> EndAt(f, p)]
      BY <1>7
    <2> HIDE DEF f, EndAt
    <2>2. \A p \in 0 .. L : f[p] = EndAt(f, p)
      BY <2>1
    <2>3. 0 \in 0 .. L /\ \A p \in 1 .. L : p \in 0 .. L /\ p # 0
      BY <1>1
    <2> QED BY <2>2, <2>3 DEF EndAt, f
  <1> HIDE DEF ends
  <1>9. \A p \in 0 .. L : ends[p] \in 0 .. p
    <2> DEFINE Good == {p \in 0 .. L : ends[p] \in 0 .. p}
    <2>1. 0 \in Good
      BY <1>1, <1>8
    <2>2. \A p \in 1 .. L : p - 1 \in Good => p \in Good
      <3> SUFFICES ASSUME NEW p \in 1 .. L, ends[p - 1] \in 0 .. p - 1 PROVE p \in Good
        OBVIOUS
      <3>1. ends[p] = p \/ ends[p] = ends[p - 1]
        BY <1>8
      <3> QED BY <1>1, <3>1
    <2> HIDE DEF Good
    <2>3. \A p \in 0 .. L : p \in Good
      BY <1>1, <2>1, <2>2, InductionUpTo
    <2> QED BY <2>3 DEF Good
  <1> QED BY <1>8, <1>9 DEF ends, L

\* What the progress of a sequence stands for: from its last end on, it can be
\* gone through so far, and no further.
SeqAt(sets, P, p, n, j) ==
  LET from == Ends(sets, P)[p] + 1
  IN  j \in 0 .. n - 1 /\ Way(sets, j, from, p) /\ ~Way(sets, j + 1, from, p)

\* Before a session nothing of it has been gone through.
LEMMA SequenceBegins ==
  ASSUME events \in Seq(Events), NEW n \in Nat \ {0}, NEW sets,
         NEW a \in 1 .. Len(events) + 1, NEW P, \A p \in P : p \in Nat /\ p >= a, sets[1] \subseteq P
  PROVE  SeqAt(sets, P, a - 1, n, 0)
  <1> DEFINE ends == Ends(sets, P)
             None == {p \in 0 .. a - 1 : ends[p] = 0}
  <1>1. ends[0] = 0 /\ \A p \in 1 .. Len(events) : p \notin P => ends[p] = ends[p - 1]
    BY EndsUnfold
  <1>2. Len(events) \in Nat /\ a - 1 \in Nat
    OBVIOUS
  <1> HIDE DEF ends
  <1>3. \A p \in 0 .. a - 1 : p \in None
    <2>1. 0 \in None
      BY <1>1, <1>2
    <2>2. ASSUME NEW p \in 1 .. a - 1, p - 1 \in None PROVE p \in None
      <3>1. p \in 1 .. Len(events) /\ p \notin P
        BY <1>2
      <3> QED BY <1>1, <2>2, <3>1
    <2> HIDE DEF None
    <2> QED BY <1>2, <2>1, <2>2, InductionUpTo
  <1>4. ends[a - 1] = 0
    BY <1>2, <1>3
  <1>5. Way(sets, 0, 1, a - 1) /\ ~Way(sets, 1, 1, a - 1)
    <2>1. \A p \in 1 .. a - 1 : p \notin sets[1]
      OBVIOUS
    <2> QED BY <1>2, <2>1, NoWay
  <1> QED BY <1>4, <1>5 DEF SeqAt, ends

\* The progress at one more position of the session.
ProgressAfter(sets, p, n, j) ==
  IF p \notin sets[j + 1] THEN j ELSE IF j + 1 = n THEN 0 ELSE j + 1
\* It stays how far the sequence can be gone through, or begins again where it
\* has been gone through, which is where the sequence applies.
LEMMA SequenceSteps ==
  ASSUME events \in Seq(Events), NEW n \in Nat \ {0}, NEW sets, DOMAIN sets = 1 .. n,
         NEW P, NEW p \in 1 .. Len(events), p \in P, NEW j, SeqAt(sets, P, p - 1, n, j)
  PROVE  /\ SeqAt(sets, P, p, n, ProgressAfter(sets, p, n, j))
         /\ p \in SequencePositions(sets, P) <=> p \in sets[j + 1] /\ j + 1 = n
  <1> DEFINE ends == Ends(sets, P)
             from == ends[p - 1] + 1
  <1>1. /\ ends[p] = IF p \in P /\ GoneThrough(sets, from, p) THEN p ELSE ends[p - 1]
        /\ \A q \in 0 .. Len(events) : ends[q] \in 0 .. q
    BY EndsUnfold
  <1>2. p \in SequencePositions(sets, P) <=> ends[p] = p
    BY DEF SequencePositions
  <1>3. j \in 0 .. n - 1 /\ Way(sets, j, from, p - 1) /\ ~Way(sets, j + 1, from, p - 1)
    BY DEF SeqAt
  <1>4. p - 1 \in 0 .. Len(events) /\ p \in 0 .. Len(events)
    OBVIOUS
  <1> HIDE DEF ends
  <1>5. from \in Int /\ from \in 1 .. p /\ ends[p - 1] # p /\ ends[p - 1] + 1 = from
    BY <1>1, <1>4
  <1> HIDE DEF from
  <1>6. ends[p] = IF Way(sets, n, from, p) THEN p ELSE ends[p - 1]
    BY <1>1, <1>5, GoneThroughIsWay
  <1>7. CASE p \notin sets[j + 1]
    <2>1. ~Way(sets, j + 1, from, p)
      BY <1>3, <1>5, <1>7, WayBefore
    <2>2. ~Way(sets, n, from, p)
      <3>1. j + 1 \in 0 .. n
        BY <1>3
      <3> QED BY <1>5, <2>1, <3>1, WayShorter
    <2>3. Way(sets, j, from, p)
      <3>1. p - 1 + 1 = p /\ p - 1 \in Int /\ j \in Nat
        BY <1>3
      <3>2. Way(sets, j, from, p - 1 + 1)
        BY <1>3, <1>5, <3>1, WayLater
      <3> QED BY <3>1, <3>2
    <2>4. ends[p] = ends[p - 1]
      BY <1>6, <2>2
    <2>5. SeqAt(sets, P, p, n, j)
      BY <1>3, <1>5, <2>1, <2>3, <2>4 DEF SeqAt, ends
    <2>6. ProgressAfter(sets, p, n, j) = j
      BY <1>7 DEF ProgressAfter
    <2> QED BY <1>2, <1>5, <1>7, <2>4, <2>5, <2>6
  <1>8. CASE p \in sets[j + 1] /\ j + 1 # n
    <2>1. Way(sets, j + 1, from, p)
      BY <1>3, <1>5, <1>8, WayExtends
    <2>2. ~Way(sets, j + 2, from, p)
      <3>1. j + 1 \in Nat /\ (j + 1) + 1 = j + 2 /\ p \in Int /\ from \in Int
        BY <1>3, <1>5
      <3>2. SUFFICES ASSUME Way(sets, (j + 1) + 1, from, p)
                     PROVE  FALSE
        BY <3>1
      <3>3. Way(sets, j + 1, from, p - 1)
        BY <3>1, <3>2, WayBefore
      <3> QED BY <1>3, <3>3
    <2>3. ~Way(sets, n, from, p)
      <3>1. j + 2 \in 0 .. n
        BY <1>3, <1>8
      <3> QED BY <1>5, <2>2, <3>1, WayShorter
    <2>4. ends[p] = ends[p - 1]
      BY <1>6, <2>3
    <2>5. SeqAt(sets, P, p, n, j + 1)
      <3>1. j + 1 \in 0 .. n - 1 /\ j + 1 + 1 = j + 2
        BY <1>3, <1>8
      <3> QED BY <1>5, <2>1, <2>2, <2>4, <3>1 DEF SeqAt, ends
    <2>6. ProgressAfter(sets, p, n, j) = j + 1
      BY <1>8 DEF ProgressAfter
    <2> QED BY <1>2, <1>5, <1>8, <2>4, <2>5, <2>6
  <1>9. CASE p \in sets[j + 1] /\ j + 1 = n
    <2>1. Way(sets, n, from, p)
      BY <1>3, <1>5, <1>9, WayExtends
    <2>2. ends[p] = p
      BY <1>6, <2>1
    <2>3. Way(sets, 0, p + 1, p) /\ ~Way(sets, 1, p + 1, p)
      <3>1. \A q \in p + 1 .. p : q \notin sets[1]
        OBVIOUS
      <3> QED BY <3>1, NoWay
    <2>4. SeqAt(sets, P, p, n, 0)
      BY <2>2, <2>3 DEF SeqAt, ends
    <2>5. ProgressAfter(sets, p, n, j) = 0
      BY <1>9 DEF ProgressAfter
    <2> QED BY <1>2, <1>9, <2>2, <2>4, <2>5
  <1> QED BY <1>7, <1>8, <1>9

-----------------------------------------------------------------------------
(* One marker and one event.                                                 *)

\* While a session is tracked, the markers before the cursor have tracked the
\* event that is at hand, the others are one event behind.
InStep ==
  ~Idle =>
    /\ at >= 1
    /\ \A i \in DOMAIN config.order :
         Len(history[config.order[i]]) = IF i < cursor THEN at ELSE at - 1

\* There is such a session, and such an event or the one after the last.
InSession ==
  ~Idle =>
    LET length == EndOf(session) - StartOf(session)
    IN  /\ session \in 1 .. Cardinality(FirstPositions)
        /\ at =< length + 1
        /\ cursor # 1 => at =< length

\* What a marker found in the positions P from a on is where it applies.
Follows(m, P, a) ==
  /\ \A k \in 1 .. Len(history[m]) : history[m][k] <=> a + k - 1 \in Meaning(P)[m]
  /\ Marker(m).tag = "seq" =>
       SeqAt(OfParts(m, P), P, a + Len(history[m]) - 1, Len(config.parts[m]), progress[m])

\* In a session that was begun afresh all of them do, if none was to be negated.
Meant ==
  ~Idle /\ WithoutNegation /\ session \notin carried =>
    \A i \in DOMAIN config.order :
      Follows(config.order[i], Session(session), StartOf(session))

\* What applies from an occurrence on applies where it did or where it occurs.
LEMMA OnceStays ==
  ASSUME NEW a \in Nat, NEW b \in Nat, NEW p \in a .. b, NEW first \in SUBSET (a .. b)
  PROVE  LET found == {q \in a .. b : \E r \in first : r =< q}
         IN  p \in found <=> (p > a /\ p - 1 \in found) \/ p \in first
  <1> DEFINE found == {q \in a .. b : \E r \in first : r =< q}
  <1>1. \A r \in first : r \in Nat /\ r >= a
    OBVIOUS
  <1>2. p \in first => p \in found
    BY <1>1
  <1>3. ASSUME p > a, p - 1 \in found PROVE p \in found
    <2>1. PICK r \in first : r =< p - 1
      BY <1>3
    <2> QED BY <1>1, <2>1
  <1>4. ASSUME p \in found, p \notin first PROVE p > a /\ p - 1 \in found
    <2>1. PICK r \in first : r =< p
      BY <1>4
    <2>2. r =< p - 1 /\ r >= a /\ r \in Nat
      BY <1>1, <1>4, <2>1
    <2>3. p > a /\ p - 1 \in a .. b
      BY <2>2
    <2> QED BY <2>2, <2>3
  <1> QED BY <1>2, <1>3, <1>4

\* A slot is as the event leaves it that sets it, or else as it was.
LEMMA FilledSteps ==
  ASSUME NEW m, NEW a \in Nat, NEW b \in Nat, NEW p \in a .. b
  PROVE  LET P == a .. b
             found == {q \in P : Filled(m, q, P)}
         IN  p \in found <=> IF p \in Named(m, "slot", P) THEN events[p].filled
                             ELSE p > a /\ p - 1 \in found
  <1> DEFINE P == a .. b
             set == Named(m, "slot", P)
  <1>1. \A q \in set : q \in Nat /\ q >= a /\ q \in P
    BY DEF Named
  <1>2. \A x : Filled(m, x, P) <=> \E q \in set : q =< x /\ events[q].filled /\ \A k \in set : k =< q \/ k > x
    BY DEF Filled
  <1>3. p \in P /\ p \in Nat
    OBVIOUS
  <1> HIDE DEF set
  <1>4. CASE p \in set
    <2>1. ASSUME events[p].filled PROVE Filled(m, p, P)
      <3>1. \A k \in set : k =< p \/ k > p
        BY <1>1, <1>3
      <3>2. p =< p
        BY <1>3
      <3> QED BY <1>2, <1>4, <2>1, <3>1, <3>2
    <2>2. ASSUME Filled(m, p, P) PROVE events[p].filled
      <3>1. PICK q \in set : q =< p /\ events[q].filled /\ \A k \in set : k =< q \/ k > p
        BY <1>2, <2>2
      <3>2. p =< q \/ p > p
        BY <1>4, <3>1
      <3>3. q = p
        BY <1>1, <1>3, <3>1, <3>2
      <3> QED BY <3>1, <3>3
    <2> QED BY <1>3, <1>4, <2>1, <2>2 DEF set
  <1>5. CASE p \notin set
    <2>1. \A k \in set : k > p <=> k > p - 1
      BY <1>1, <1>3, <1>5
    <2>2. \A q \in set : q =< p <=> q =< p - 1
      BY <1>1, <1>3, <1>5
    <2>3. Filled(m, p, P) <=> Filled(m, p - 1, P)
      BY <1>2, <2>1, <2>2
    <2>4. ASSUME Filled(m, p, P) PROVE p > a
      <3>1. PICK q \in set : q =< p
        BY <1>2, <2>4
      <3> QED BY <1>1, <1>3, <1>5, <3>1
    <2>5. p > a => p - 1 \in P
      BY <1>3
    <2> QED BY <1>3, <1>5, <2>3, <2>4, <2>5 DEF set
  <1> QED BY <1>4, <1>5

\* What _non_negated_version_applies_at answers for a marker with this tag.
AtByTag(tag, answer, m, e) ==
  LET parts == config.parts[m]
  IN  /\ tag = "action" => answer = (e.type = "action" /\ config.text[m] \in e.names)
      /\ tag = "intent" => answer = (e.type = "user" /\ config.text[m] \in e.names)
      /\ tag = "slot_was_set" =>
           answer = IF e.type = "slot" /\ config.text[m] \in e.names THEN e.filled ELSE Before(m)
      /\ tag = "and" => answer = \A i \in DOMAIN parts : LastFound(parts[i])
      /\ tag = "or" => answer = \E i \in DOMAIN parts : LastFound(parts[i])
      /\ tag = "not" => answer = ~LastFound(parts[1])
      /\ tag = "at_least_once" => answer = (Before(m) \/ LastFound(parts[1]))
      /\ tag = "seq" => answer = (LastFound(Awaited(m)) /\ progress[m] + 1 = Len(parts))

\* The cases of AppliesAt exclude one another.
LEMMA AppliesAtByTag ==
  ASSUME NEW m, NEW e
  PROVE  AtByTag(Marker(m).tag, AppliesAt(m, e), m, e)
  <1> DEFINE parts == config.parts[m]
             answer == AppliesAt(m, e)
  <1>1. ASSUME Marker(m).tag = "action"
        PROVE  answer = (e.type = "action" /\ config.text[m] \in e.names)
    BY <1>1, Zenon DEF AppliesAt
  <1>2. ASSUME Marker(m).tag = "intent"
        PROVE  answer = (e.type = "user" /\ config.text[m] \in e.names)
    BY <1>2, Zenon DEF AppliesAt
  <1>3. ASSUME Marker(m).tag = "slot_was_set"
        PROVE  answer = IF e.type = "slot" /\ config.text[m] \in e.names THEN e.filled ELSE Before(m)
    BY <1>3, Zenon DEF AppliesAt
  <1>4. ASSUME Marker(m).tag = "and" PROVE answer = \A i \in DOMAIN parts : LastFound(parts[i])
    BY <1>4, Zenon DEF AppliesAt
  <1>5. ASSUME Marker(m).tag = "or" PROVE answer = \E i \in DOMAIN parts : LastFound(parts[i])
    BY <1>5, Zenon DEF AppliesAt
  <1>6. ASSUME Marker(m).tag = "not" PROVE answer = ~LastFound(parts[1])
    BY <1>6, Zenon DEF AppliesAt
  <1>7. ASSUME Marker(m).tag = "at_least_once" PROVE answer = (Before(m) \/ LastFound(parts[1]))
    BY <1>7, Zenon DEF AppliesAt
  <1>8. ASSUME Marker(m).tag = "seq"
        PROVE  answer = (LastFound(Awaited(m)) /\ progress[m] + 1 = Len(parts))
    BY <1>8, Zenon DEF AppliesAt
  <1> HIDE DEF answer
  <1> QED BY <1>1, <1>2, <1>3, <1>4, <1>5, <1>6, <1>7, <1>8 DEF AtByTag, answer

\* At the event it tracks a marker finds what it stands for.
LEMMA FindsWhatIsMeant ==
  ASSUME TypeOK, InStep, InSession, Meant, Tracking, session \notin carried, WithoutNegation
  PROVE  LET m == config.order[cursor]
             a == StartOf(session)
             p == a + at - 1
             P == Session(session)
             found == AppliesAt(m, events[p]) # Marker(m).negated
         IN  /\ p \in P
             /\ found <=> p \in Meaning(P)[m]
             /\ Marker(m).tag = "seq" =>
                  SeqAt(OfParts(m, P), P, p, Len(config.parts[m]), Progressed(m))
  <1> DEFINE m == config.order[cursor]
             a == StartOf(session)
             b == EndOf(session) - 1
             p == a + at - 1
             P == Session(session)
             M == Meaning(P)[m]
             sets == OfParts(m, P)
             parts == config.parts[m]
             tag == Marker(m).tag
             e == events[p]
             answer == AppliesAt(m, e)
             found == answer # Marker(m).negated
  <1>1. /\ config \in Configs /\ cursor \in DOMAIN config.order /\ ~Idle /\ cursor \in Nat
        /\ at \in Nat /\ at >= 1 /\ session \in 1 .. Cardinality(FirstPositions)
        /\ history \in [Names -> Seq(BOOLEAN)] /\ events \in Seq(Events)
    BY ConfigFacts DEF TypeOK, Tracking, InStep, InSession
  <1>2. /\ m \in Names /\ parts \in Seq(Names)
        /\ Marker(m).negated = FALSE /\ tag \in Conditions \union Operators
        /\ tag \in Operators => Len(parts) \in Nat \ {0}
    BY <1>1, MarkerFacts
  <1>3. /\ a \in Nat \ {0} /\ b \in Int /\ P = a .. b /\ b =< Len(events)
    BY <1>1, SessionBounds
  <1>4. p \in P /\ p \in Nat /\ p \in 1 .. Len(events) /\ p >= a
    <2>1. EndOf(session) \in Nat /\ at =< EndOf(session) - a
      BY <1>1, SessionBounds DEF Tracking
    <2> DEFINE end == EndOf(session)
    <2> HIDE DEF a, end
    <2>2. p \in Nat /\ p >= a /\ p =< end - 1
      BY <1>1, <1>3, <2>1 DEF end
    <2>3. p \in 1 .. Len(events)
      <3>1. Len(events) \in Nat /\ end \in Nat /\ end - 1 =< Len(events)
        BY <1>1, <1>3, <2>1 DEF end
      <3> QED BY <1>3, <2>2, <3>1
    <2>4. p \in P
      BY <1>3, <2>1, <2>2 DEF end
    <2> QED BY <2>2, <2>3, <2>4
  <1>5. b \in Nat
    BY <1>3, <1>4
  <1>6. e \in Events /\ e.filled \in BOOLEAN
    BY <1>1, <1>4, EventsAssumption
  <1>7. Follows(m, P, a) /\ \A i \in DOMAIN config.order : Follows(config.order[i], P, a)
    BY <1>1 DEF Meant
  <1>8. history[m] \in Seq(BOOLEAN) /\ Len(history[m]) = at - 1
    BY <1>1, <1>2 DEF InStep
  <1>9. ASSUME NEW n \in DOMAIN parts
        PROVE  LastFound(parts[n]) <=> p \in sets[n]
    <2> DEFINE part == parts[n]
               i == IndexOf(part)
    <2>1. i \in 1 .. cursor - 1 /\ i \in DOMAIN config.order /\ config.order[i] = part
      BY <1>1, PartsBefore
    <2>2. part \in Names /\ history[part] \in Seq(BOOLEAN)
      BY <1>1, <2>1, ConfigFacts
    <2>3. Len(history[part]) = at
      BY <1>1, <2>1 DEF InStep
    <2>4. Follows(part, P, a)
      BY <1>7, <2>1
    <2>5. sets[n] = Meaning(P)[part]
      BY DEF OfParts
    <2>6. LastFound(part) <=> history[part][at]
      BY <1>1, <2>2, <2>3 DEF LastFound
    <2>7. at \in 1 .. Len(history[part]) /\ a + at - 1 = p
      BY <1>1, <2>3 DEF InStep
    <2>8. history[part][at] <=> p \in Meaning(P)[part]
      BY <2>4, <2>7 DEF Follows
    <2> QED BY <2>5, <2>6, <2>8
  <1>10. Before(m) <=> p > a /\ p - 1 \in M
    <2>1. CASE at = 1
      <3>1. history[m] = <<>>
        BY <1>8, <2>1
      <3> QED BY <1>1, <1>3, <2>1, <3>1 DEF Before
    <2>2. CASE at # 1
      <3>1. at - 1 \in 1 .. Len(history[m]) /\ history[m] # <<>> /\ p > a /\ a + (at - 1) - 1 = p - 1
        BY <1>1, <1>3, <1>8, <2>2
      <3>2. history[m][at - 1] \in BOOLEAN
        BY <1>8, <3>1
      <3>3. Before(m) <=> history[m][at - 1]
        BY <1>2, <1>8, <3>1, <3>2 DEF Before
      <3>4. history[m][at - 1] <=> p - 1 \in M
        BY <1>7, <3>1 DEF Follows
      <3> QED BY <3>1, <3>3, <3>4
    <2> QED BY <2>1, <2>2
  <1>11. ByTag(tag, M, m, sets, P)
    <2>1. M = Applies(m, sets, P)
      BY <1>1, MeaningUnfolds
    <2>2. Applies(m, sets, P) = PlainlyApplies(m, sets, P)
      BY <1>1, MarkerFacts DEF Applies
    <2>3. Configured(m).tag = tag
      BY <1>1, MarkerFacts
    <2>4. ByTag(tag, PlainlyApplies(m, sets, P), m, sets, P)
      BY <2>3, PlainlyByTag
    <2> QED BY <2>1, <2>2, <2>4
  <1>12. AtByTag(tag, answer, m, e)
    BY AppliesAtByTag
  <1>13. M \subseteq P /\ \A n \in DOMAIN parts : sets[n] \subseteq P
    BY <1>1, MeaningWithin
  <1>14. DOMAIN sets = DOMAIN parts
    BY DEF OfParts
  <1>15. tag = "seq" => SeqAt(sets, P, p - 1, Len(parts), progress[m])
    <2>1. a + Len(history[m]) - 1 = p - 1
      BY <1>1, <1>3, <1>8
    <2> QED BY <1>7, <2>1 DEF Follows
  <1>16. Progressed(m) = IF ~(tag = "seq" /\ LastFound(Awaited(m))) THEN progress[m]
                        ELSE IF progress[m] + 1 = Len(parts) THEN 0
                        ELSE progress[m] + 1
    BY DEF Progressed
  <1>17. Awaited(m) = parts[progress[m] + 1]
    BY DEF Awaited
  <1> HIDE DEF M, sets, parts, tag, answer, a, b, P, e, m
  <1>18. answer \in BOOLEAN /\ (answer <=> p \in M)
    <2>1. CASE tag = "action"
      BY <1>4, <1>11, <1>12, <2>1 DEF ByTag, AtByTag, Named, e
    <2>2. CASE tag = "intent"
      BY <1>4, <1>11, <1>12, <2>2 DEF ByTag, AtByTag, Named, e
    <2>3. CASE tag = "slot_was_set"
      <3>1. M = {q \in P : Filled(m, q, P)}
        BY <1>11, <2>3 DEF ByTag
      <3>2. p \in M <=> IF p \in Named(m, "slot", P) THEN e.filled ELSE p > a /\ p - 1 \in M
        BY <1>3, <1>4, <1>5, <3>1, FilledSteps DEF e
      <3>3. p \in Named(m, "slot", P) <=> e.type = "slot" /\ config.text[m] \in e.names
        BY <1>4 DEF Named, e
      <3>4. answer = IF e.type = "slot" /\ config.text[m] \in e.names THEN e.filled ELSE Before(m)
        BY <1>12, <2>3 DEF AtByTag
      <3>5. Before(m) \in BOOLEAN
        BY DEF Before
      <3> QED BY <1>6, <1>10, <3>2, <3>3, <3>4, <3>5
    <2>4. CASE tag = "and"
      <3>1. answer = \A i \in DOMAIN parts : LastFound(parts[i])
        BY <1>12, <2>4 DEF AtByTag, parts
      <3>2. M = {q \in P : \A i \in DOMAIN sets : q \in sets[i]}
        BY <1>11, <2>4 DEF ByTag
      <3> QED BY <1>4, <1>9, <1>14, <3>1, <3>2
    <2>5. CASE tag = "or"
      <3>1. answer = \E i \in DOMAIN parts : LastFound(parts[i])
        BY <1>12, <2>5 DEF AtByTag, parts
      <3>2. M = {q \in P : \E i \in DOMAIN sets : q \in sets[i]}
        BY <1>11, <2>5 DEF ByTag
      <3> QED BY <1>4, <1>9, <1>14, <3>1, <3>2
    <2>6. ASSUME tag \in Operators PROVE 1 \in DOMAIN parts /\ (LastFound(parts[1]) <=> p \in sets[1])
      BY <1>2, <1>9, <2>6
    <2>7. CASE tag = "not"
      <3>1. answer = ~LastFound(parts[1]) /\ M = P \ sets[1]
        BY <1>11, <1>12, <2>7 DEF ByTag, AtByTag, parts
      <3> QED BY <1>4, <2>6, <2>7, <3>1 DEF Operators
    <2>8. CASE tag = "at_least_once"
      <3>1. answer = (Before(m) \/ LastFound(parts[1]))
        BY <1>12, <2>8 DEF AtByTag, parts
      <3>2. M = {q \in P : \E r \in sets[1] : r =< q}
        BY <1>11, <2>8 DEF ByTag
      <3>3. 1 \in DOMAIN parts /\ (LastFound(parts[1]) <=> p \in sets[1])
        BY <2>6, <2>8 DEF Operators
      <3> DEFINE first == sets[1]
      <3>4. first \in SUBSET (a .. b)
        BY <1>3, <1>13, <3>3
      <3> HIDE DEF first
      <3>5. M = {q \in a .. b : \E r \in first : r =< q}
        BY <1>3, <3>2 DEF first
      <3>6. p \in M <=> (p > a /\ p - 1 \in M) \/ p \in first
        BY <1>3, <1>4, <1>5, <3>4, <3>5, OnceStays
      <3> QED BY <1>10, <3>1, <3>3, <3>6 DEF first
    <2>9. CASE tag = "seq"
      <3>1. answer = (LastFound(Awaited(m)) /\ progress[m] + 1 = Len(parts)) /\ M = SequencePositions(sets, P)
        BY <1>11, <1>12, <2>9 DEF ByTag, AtByTag, parts
      <3>2. Len(parts) \in Nat \ {0} /\ DOMAIN sets = 1 .. Len(parts)
        BY <1>2, <1>14, <2>9 DEF Operators
      <3>3. SeqAt(sets, P, p - 1, Len(parts), progress[m])
        BY <1>15, <2>9
      <3>4. p \in SequencePositions(sets, P) <=> p \in sets[progress[m] + 1] /\ progress[m] + 1 = Len(parts)
        BY <1>1, <1>4, <3>2, <3>3, SequenceSteps
      <3>5. progress[m] + 1 \in DOMAIN parts
        BY <1>2, <3>2, <3>3 DEF SeqAt
      <3> QED BY <1>9, <1>17, <3>1, <3>4, <3>5
    <2> QED BY <1>2, <2>1, <2>2, <2>3, <2>4, <2>5, <2>7, <2>8, <2>9 DEF Conditions, Operators
  <1>19. ASSUME tag = "seq" PROVE SeqAt(sets, P, p, Len(parts), Progressed(m))
    <2>1. Len(parts) \in Nat \ {0} /\ DOMAIN sets = 1 .. Len(parts)
      BY <1>2, <1>14, <1>19 DEF Operators
    <2>2. SeqAt(sets, P, p - 1, Len(parts), progress[m])
      BY <1>15, <1>19
    <2> DEFINE j == progress[m]
    <2>6. SeqAt(sets, P, p - 1, Len(parts), j)
      BY <2>2
    <2> HIDE DEF j
    <2> DEFINE next == ProgressAfter(sets, p, Len(parts), j)
    <2>3. SeqAt(sets, P, p, Len(parts), next)
      BY <1>1, <1>4, <2>1, <2>6, SequenceSteps
    <2>4. j + 1 \in DOMAIN parts
      BY <1>2, <2>1, <2>6 DEF SeqAt
    <2>5. Progressed(m) = next
      BY <1>9, <1>16, <1>17, <1>19, <2>4 DEF j, ProgressAfter
    <2> HIDE DEF next
    <2> QED BY <2>3, <2>5
  <1>20. found <=> p \in M
    BY <1>2, <1>18
  <1> QED BY <1>4, <1>19, <1>20 DEF M, sets, parts, tag, answer, a, b, P, e, m

-----------------------------------------------------------------------------
(* What is extracted from a session.                                         *)

\* As many of the positions from a on, counted from 1, as of the positions.
LEMMA ShiftedCount ==
  ASSUME NEW a \in Nat, NEW n \in Nat, NEW S \in SUBSET (1 .. n), NEW T \in SUBSET Nat,
         \A k \in S : a + k - 1 \in T, \A t \in T : t - a + 1 \in S
  PROVE  Cardinality(S) = Cardinality(T)
  <1> DEFINE f == [k \in S |-> a + k - 1]
  <1>1. \A k \in S : k \in Nat
    OBVIOUS
  <1>2. f \in [S -> T]
    OBVIOUS
  <1>3. \A i, k \in S : f[i] = f[k] => i = k
    BY <1>1
  <1>4. ASSUME NEW t \in T PROVE \E k \in S : f[k] = t
    <2>1. t - a + 1 \in S /\ a + (t - a + 1) - 1 = t
      OBVIOUS
    <2> QED BY <2>1
  <1> HIDE DEF f
  <1>5. f \in Bijection(S, T)
    BY <1>2, <1>3, <1>4 DEF Bijection, Injection, Surjection, IsInjective
  <1>6. ExistsBijection(S, T)
    BY <1>5 DEF ExistsBijection
  <1>7. IsFiniteSet(S)
    <2>1. IsFiniteSet(1 .. n)
      BY FS_Interval
    <2> QED BY <2>1, FS_Subset
  <1> QED BY <1>6, <1>7, FS_Bijection

\* EventMetaData of the event at position p of the session in positions.
Described(p, positions) ==
  [idx |-> p - 1,
   preceding_user_turns |->
     Cardinality({q \in positions : q < p /\ events[q].type = "user"})]

\* An event is described by its place in the session or in the conversation.
LEMMA MetaDataDescribes ==
  ASSUME events \in Seq(Events), session \in 1 .. Cardinality(FirstPositions),
         NEW i \in 1 .. EndOf(session) - StartOf(session)
  PROVE  MetaData(i) = Described(StartOf(session) + i - 1, Session(session))
  <1> DEFINE a == StartOf(session)
             b == EndOf(session) - 1
             P == Session(session)
             S == {k \in 1 .. i - 1 : SessionEvents(session)[k].type = "user"}
             p == a + i - 1
             T == {q \in P : q < p /\ events[q].type = "user"}
  <1>1. a \in Nat \ {0} /\ b \in Int /\ P = a .. b /\ b =< Len(events) /\ i \in 1 .. b - a + 1
        /\ SessionEvents(session) = SubSeq(events, a, b) /\ EndOf(session) \in Nat
    BY SessionBounds DEF SessionEvents
  <1>2. Len(events) \in Nat
    OBVIOUS
  <1> HIDE DEF a, b, P
  <1>3. ASSUME NEW k \in 1 .. b - a + 1
        PROVE  SessionEvents(session)[k] = events[a + k - 1]
    BY <1>1, <1>2
  <1>4. ASSUME NEW k \in 1 .. i - 1
        PROVE  k \in S <=> events[a + k - 1].type = "user"
    <2>1. k \in 1 .. b - a + 1
      BY <1>1
    <2> QED BY <1>3, <2>1
  <1>5. ASSUME NEW q \in T PROVE q - a + 1 \in S /\ a + (q - a + 1) - 1 = q
    <2>1. q \in a .. b /\ q < a + i - 1 /\ events[q].type = "user"
      BY <1>1
    <2>2. q - a + 1 \in 1 .. i - 1 /\ a + (q - a + 1) - 1 = q
      BY <1>1, <2>1
    <2> QED BY <1>4, <2>1, <2>2
  <1>6. ASSUME NEW k \in S PROVE a + k - 1 \in T
    <2>1. k \in 1 .. i - 1 /\ events[a + k - 1].type = "user"
      BY <1>4
    <2>2. a + k - 1 \in P /\ a + k - 1 < a + i - 1
      BY <1>1, <2>1
    <2> QED BY <2>1, <2>2
  <1>7. S \in SUBSET (1 .. i)
    BY <1>1
  <1>8. Cardinality(S) = Cardinality(T)
    <2> HIDE DEF S, T
    <2>1. T \in SUBSET Nat
      BY <1>1 DEF T
    <2>2. a \in Nat /\ i \in Nat
      BY <1>1
    <2>3. \A k \in S : a + k - 1 \in T
      BY <1>6
    <2>4. \A t \in T : t - a + 1 \in S
      BY <1>5
    <2> QED BY <1>7, <2>1, <2>2, <2>3, <2>4, ShiftedCount, Zenon
  <1>9. a + i - 2 = p - 1
    BY <1>1
  <1>10. MetaData(i) = [idx |-> a + i - 2, preceding_user_turns |-> Cardinality(S)]
    BY DEF MetaData, a
  <1> HIDE DEF p
  <1>11. Described(p, P) = [idx |-> p - 1, preceding_user_turns |-> Cardinality(T)]
    BY Zenon DEF Described
  <1> HIDE DEF S, T
  <1>12. MetaData(i) = Described(p, P)
    BY <1>8, <1>9, <1>10, <1>11
  <1> QED BY <1>12 DEF a, P, p

\* The positions that are reported of a marker: of an occurrence the first.
Reported(m, found) ==
  {p \in found : Configured(m).tag = "at_least_once" => \A q \in found : p =< q}

\* At the end of a session that was begun afresh, what is due is extracted.
LEMMA ExtractsWhatIsDue ==
  ASSUME TypeOK, InStep, InSession, Meant, ~Idle, ~Tracking, session \notin carried, WithoutNegation
  PROVE  Extracted = Due(session)
  <1> DEFINE a == StartOf(session)
             b == EndOf(session) - 1
             P == Session(session)
             L == b - a + 1
             M(m) == Meaning(P)[m]
             Ours(m) == {MetaData(i) : i \in RelevantEvents(m)}
             Theirs(m) == {Described(p, P) : p \in Reported(m, M(m))}
  <1>1. /\ config \in Configs /\ at \in Nat /\ at >= 1 /\ session \in 1 .. Cardinality(FirstPositions)
        /\ history \in [Names -> Seq(BOOLEAN)] /\ events \in Seq(Events)
        /\ cursor \in DOMAIN config.order /\ cursor \in Nat
    <2>1. config \in Configs /\ cursor \in DOMAIN config.order
      BY DEF TypeOK
    <2>2. cursor \in Nat
      BY <2>1, ConfigFacts
    <2> QED BY <2>1, <2>2 DEF TypeOK, InStep, InSession
  <1>2. /\ a \in Nat \ {0} /\ b \in Int /\ P = a .. b /\ EndOf(session) \in Nat
        /\ EndOf(session) - StartOf(session) = L /\ L \in Nat
    <2> DEFINE end == EndOf(session)
    <2>1. /\ a \in Nat \ {0} /\ end \in Nat /\ a =< end /\ P = a .. end - 1
      BY <1>1, SessionBounds
    <2> HIDE DEF a, P, end
    <2>2. end - 1 \in Int /\ end - 1 - a + 1 = end - a /\ end - a \in Nat
      BY <2>1
    <2> QED BY <2>1, <2>2 DEF a, P, end
  <1>3. at = L + 1 /\ cursor = 1
    <2>1. at =< L + 1 /\ (cursor # 1 => at =< L) /\ ~(at =< L)
      BY <1>2 DEF InSession, Tracking
    <2> HIDE DEF L
    <2> QED BY <1>1, <1>2, <2>1
  <1>4. ASSUME NEW m \in config.configured
        PROVE  Ours(m) = Theirs(m)
    <2>1. PICK n \in DOMAIN config.order : config.order[n] = m
      BY <1>1, ConfigsAssumption
    <2>2. m \in Names /\ history[m] \in Seq(BOOLEAN) /\ n \in 1 .. Len(config.order)
      BY <1>1, <2>1, ConfigFacts
    <2>3. Len(history[m]) = L
      <3>1. ~(n < 1) /\ at - 1 = L
        BY <1>2, <1>3, <2>2
      <3>2. Len(history[m]) = at - 1
        BY <1>3, <2>1, <3>1 DEF InStep
      <3> QED BY <3>1, <3>2
    <2>4. \A k \in 1 .. L : history[m][k] <=> a + k - 1 \in M(m)
      BY <2>1, <2>3 DEF Meant, Follows
    <2>5. DOMAIN history[m] = 1 .. L /\ M(m) \subseteq P
      <3>1. DOMAIN history[m] = 1 .. L
        BY <2>2, <2>3
      <3>2. M(m) \subseteq P
        BY <1>1, <2>1, MeaningWithin
      <3> QED BY <3>1, <3>2
    <2> DEFINE found == M(m)
               positions == Positions(m)
               first == Configured(m).tag = "at_least_once"
    <2>6. positions = {k \in 1 .. L : a + k - 1 \in found}
      BY <2>4, <2>5 DEF Positions
    <2>a. Configured(m).tag = Marker(m).tag
      BY <1>1, <2>1, MarkerFacts
    <2>7. RelevantEvents(m) = {i \in positions : first => \A k \in positions : i =< k}
      BY <2>a DEF RelevantEvents
    <2>8. Reported(m, found) = {p \in found : first => \A q \in found : p =< q}
      BY DEF Reported
    <2>9. \A i \in 1 .. L : MetaData(i) = Described(a + i - 1, P)
      BY <1>1, <1>2, MetaDataDescribes
    <2>10. found \subseteq a .. b
      BY <1>2, <2>5
    <2> HIDE DEF found, positions, first, a, b, P
    <2>11. \A p \in found : p \in Nat /\ p - a + 1 \in positions /\ a + (p - a + 1) - 1 = p
      BY <1>2, <2>6, <2>10
    <2>12. \A i \in positions : i \in Nat /\ i \in 1 .. L /\ a + i - 1 \in found
      BY <1>2, <2>6
    <2>13. ASSUME NEW i \in RelevantEvents(m) PROVE MetaData(i) \in Theirs(m)
      <3>1. i \in positions /\ (first => \A k \in positions : i =< k)
        BY <2>7
      <3>2. a + i - 1 \in found
        BY <2>12, <3>1
      <3>3. first => \A q \in found : a + i - 1 =< q
        <4> SUFFICES ASSUME first, NEW q \in found PROVE a + i - 1 =< q
          OBVIOUS
        <4>1. i =< q - a + 1 /\ q \in Nat /\ i \in Nat
          BY <2>11, <2>12, <3>1
        <4> QED BY <1>2, <4>1
      <3>4. a + i - 1 \in Reported(m, found)
        BY <2>8, <3>2, <3>3
      <3>5. MetaData(i) = Described(a + i - 1, P)
        BY <2>9, <2>12, <3>1
      <3> QED BY <3>4, <3>5 DEF found
    <2>14. ASSUME NEW p \in Reported(m, found) PROVE Described(p, P) \in Ours(m)
      <3> DEFINE i == p - a + 1
      <3>1. p \in found /\ (first => \A q \in found : p =< q)
        BY <2>8
      <3>2. i \in positions /\ a + i - 1 = p /\ p \in Nat
        BY <2>11, <3>1
      <3>3. first => \A k \in positions : i =< k
        <4> SUFFICES ASSUME first, NEW k \in positions PROVE i =< k
          OBVIOUS
        <4>1. p =< a + k - 1 /\ k \in Nat
          BY <2>12, <3>1
        <4> QED BY <1>2, <3>2, <4>1
      <3>4. i \in RelevantEvents(m)
        BY <2>7, <3>2, <3>3
      <3>5. MetaData(i) = Described(p, P)
        BY <2>9, <2>12, <3>2
      <3> QED BY <3>4, <3>5
    <2> QED BY <2>13, <2>14 DEF found
  <1>5. Due(session) = [m \in config.configured |-> Theirs(m)]
    BY Zenon DEF Due, Described, Reported
  <1>6. Extracted = [m \in config.configured |-> Ours(m)]
    BY DEF Extracted
  <1> HIDE DEF Ours, Theirs
  <1> QED BY <1>4, <1>5, <1>6

-----------------------------------------------------------------------------
(* The conversation stays while its sessions are gone through.               *)

\* No session changes while the conversation stays.
LEMMA SessionsStay ==
  ASSUME config' = config, events' = events
  PROVE  /\ Cardinality(FirstPositions)' = Cardinality(FirstPositions)
         /\ \A n : Due(n)' = Due(n)
         /\ WithoutNegation' <=> WithoutNegation
  <1>1. Cardinality(FirstPositions)' = Cardinality(FirstPositions)
    BY SMT DEF FirstPositions, Starts, IsSessionStart
  <1>2. ASSUME NEW n PROVE Due(n)' = Due(n)
    BY SMT DEF Due, Meaning, Applies, Named, Filled, SequencePositions, Ends, GoneThrough,
       IndexOf, Markers, PlainlyApplies, Configured, Session, Starts, IsSessionStart
  <1>3. WithoutNegation' <=> WithoutNegation
    BY DEF WithoutNegation, Markers
  <1> QED BY <1>1, <1>2, <1>3

\* Nor does what its markers stand for.
LEMMA SessionStays ==
  ASSUME config' = config, events' = events, session' = session
  PROVE  /\ StartOf(session)' = StartOf(session)
         /\ EndOf(session)' = EndOf(session)
         /\ \A m : Follows(m, Session(session), StartOf(session))' <=>
              /\ \A k \in 1 .. Len(history'[m]) :
                   history'[m][k] <=> StartOf(session) + k - 1 \in Meaning(Session(session))[m]
              /\ Marker(m).tag = "seq" =>
                   SeqAt(OfParts(m, Session(session)), Session(session),
                         StartOf(session) + Len(history'[m]) - 1, Len(config.parts[m]), progress'[m])
  <1>1. StartOf(session)' = StartOf(session)
    BY SMT DEF StartOf, FirstPositions, Starts, IsSessionStart
  <1>2. EndOf(session)' = EndOf(session)
    BY SMT DEF EndOf, StartOf, FirstPositions, Starts, IsSessionStart
  <1>3. Session(session)' = Session(session)
    BY SMT DEF Session, Starts, IsSessionStart
  <1>4. Meaning(Session(session))' = Meaning(Session(session))
    BY SMT DEF Meaning, Applies, Named, Filled, SequencePositions, Ends, GoneThrough,
       IndexOf, Markers, PlainlyApplies, Configured, Session, Starts, IsSessionStart
  <1>5. ASSUME NEW m
        PROVE  /\ Marker(m)' = Marker(m)
               /\ OfParts(m, Session(session))' = OfParts(m, Session(session))
               /\ Ends(OfParts(m, Session(session)), Session(session))'
                    = Ends(OfParts(m, Session(session)), Session(session))
    <2>1. Marker(m)' = Marker(m)
      BY SMT DEF Marker
    <2>2. OfParts(m, Session(session))' = OfParts(m, Session(session))
      BY <1>4 DEF OfParts
    <2>3. Ends(OfParts(m, Session(session)), Session(session))'
            = Ends(OfParts(m, Session(session)), Session(session))
      BY SMT, <2>2, <1>3 DEF Ends, GoneThrough
    <2> QED BY <2>1, <2>2, <2>3
  <1> QED BY <1>1, <1>2, <1>3, <1>4, <1>5 DEF Follows, SeqAt

-----------------------------------------------------------------------------
(* Types, and the markers that follow the events in step.                    *)

TypedInStep == TypeOK /\ InStep

\* The progress of a marker stays among its parts.
LEMMA ProgressInRange ==
  ASSUME TypeOK, NEW i \in DOMAIN config.order
  PROVE  LET m == config.order[i]
         IN  /\ Progressed(m) \in Nat
             /\ Progressed(m) # 0 => Progressed(m) < Len(config.parts[m])
  <1> DEFINE m == config.order[i]
  <1>1. m \in Names /\ m \in Markers /\ config.parts[m] \in Seq(Names)
    BY ConfigFacts DEF TypeOK, Markers
  <1>2. progress[m] \in Nat /\ (progress[m] # 0 => progress[m] < Len(config.parts[m]))
    BY <1>1 DEF TypeOK
  <1>3. CASE Marker(m).tag = "seq" /\ LastFound(Awaited(m))
    <2>1. Len(config.parts[m]) \in Nat \ {0}
      BY <1>3, MarkerFacts DEF TypeOK, Operators
    <2> QED BY <1>2, <1>3, <2>1 DEF Progressed
  <1>4. CASE ~(Marker(m).tag = "seq" /\ LastFound(Awaited(m)))
    BY <1>2, <1>4 DEF Progressed
  <1> QED BY <1>3, <1>4

\* A session begins with cleared histories and the cursor on the first marker.
LEMMA BeginKeeps ==
  ASSUME TypeOK, NEW n \in Nat, Begin(n), config' = config, events' \in Seq(Events),
         conversations' \in 0 .. MaxConversations
  PROVE  TypedInStep'
  <1> USE DEF Begin, Cleared
  <1>1. history' \in [Names -> Seq(BOOLEAN)] /\ \A m \in Names : Len(history'[m]) = 0
    OBVIOUS
  <1>2. 1 \in DOMAIN config'.order
    BY ConfigFacts DEF TypeOK
  <1>3. TypeOK'
    BY <1>1, <1>2 DEF TypeOK, Markers
  <1>4. InStep'
    <2>1. \A i \in DOMAIN config.order : ~(i < 1) /\ config.order[i] \in Names
      BY ConfigFacts DEF TypeOK
    <2> QED BY <1>1, <2>1 DEF InStep
  <1> QED BY <1>3, <1>4 DEF TypedInStep

\* A conversation is a sequence of events.
LEMMA ConversationsAreSequences == \A conversation \in Conversations : conversation \in Seq(Events)
  <1> SUFFICES ASSUME NEW n \in 0 .. MaxLength, NEW conversation \in [1 .. n -> Events]
               PROVE  conversation \in Seq(Events)
    BY DEF Conversations
  <1>1. n \in Nat
    BY MarkersBoundsAssumption
  <1> QED BY <1>1

\* Initially nothing is tracked.
LEMMA InitTypedInStep == Init => TypedInStep
  <1> SUFFICES ASSUME Init PROVE TypedInStep
    OBVIOUS
  <1>1. config \in Configs /\ Idle
    BY DEF Init, Idle
  <1>2. Markers \subseteq Names
    BY <1>1, ConfigFacts DEF Markers
  <1>3. history \in [Names -> Seq(BOOLEAN)] /\ progress \in [Names -> Nat]
    BY DEF Init
  <1>4. \A m \in Markers : progress[m] = 0
    BY <1>2 DEF Init
  <1>5. events \in Seq(Events) /\ conversations \in 0 .. MaxConversations /\ session \in Nat /\ at \in Nat
    BY MarkersBoundsAssumption DEF Init
  <1> QED BY <1>1, <1>3, <1>4, <1>5 DEF TypedInStep, TypeOK, InStep

\* One marker tracks one event.
LEMMA TrackKeeps == TypedInStep /\ Track => TypedInStep'
  <1> SUFFICES ASSUME TypedInStep, Track PROVE TypedInStep'
    OBVIOUS
  <1> USE DEF TypedInStep
  <1> DEFINE m == config.order[cursor]
             e == events[StartOf(session) + at - 1]
             found == AppliesAt(m, e) # Marker(m).negated
  <1>0. config \in Configs /\ config' = config
    BY DEF TypeOK, Track
  <1>1. ~Idle /\ session' = session /\ cursor \in DOMAIN config.order /\ cursor \in 1 .. Len(config.order)
    BY ConfigFacts DEF Track, Tracking, TypeOK
  <1>2. m \in Names /\ m \in Markers /\ history[m] \in Seq(BOOLEAN)
    BY <1>0, <1>1, ConfigFacts DEF TypeOK, Markers
  <1>3. found \in BOOLEAN
    OBVIOUS
  <1>4. history' = [history EXCEPT ![m] = Append(history[m], found)]
    BY DEF Track
  <1>5. history' \in [Names -> Seq(BOOLEAN)]
    BY <1>2, <1>3, <1>4 DEF TypeOK
  <1>6. progress' = [progress EXCEPT ![m] = Progressed(m)]
    BY DEF Track
  <1>7. TypeOK'
    <2>1. progress' \in [Names -> Nat]
      BY <1>1, <1>2, <1>6, ProgressInRange DEF TypeOK
    <2>2. \A k \in Markers' : progress'[k] # 0 => progress'[k] < Len(config'.parts[k])
      <3> SUFFICES ASSUME NEW k \in Markers
                   PROVE  progress'[k] # 0 => progress'[k] < Len(config.parts[k])
        BY <1>0 DEF Markers
      <3>1. k \in Names
        BY <1>0, ConfigFacts DEF Markers
      <3>2. CASE k = m
        BY <3>1, <3>2, <1>1, <1>2, <1>6, ProgressInRange DEF TypeOK
      <3>3. CASE k # m
        BY <3>1, <3>3, <1>2, <1>6 DEF TypeOK
      <3> QED BY <3>2, <3>3
    <2>3. cursor' \in DOMAIN config'.order /\ at' \in Nat
      <3>1. Len(config.order) \in Nat /\ DOMAIN config'.order = 1 .. Len(config.order)
        BY <1>0, ConfigFacts
      <3>2. CASE cursor = Len(config.order)
        BY <3>1, <3>2, <1>1 DEF Track, TypeOK
      <3>3. CASE cursor # Len(config.order)
        BY <3>1, <3>3, <1>1 DEF Track, TypeOK
      <3> QED BY <3>2, <3>3
    <2> QED BY <1>0, <1>1, <1>5, <2>1, <2>2, <2>3 DEF TypeOK, Track
  <1>8. InStep'
    <2>1. at \in Nat /\ at >= 1
      BY <1>1 DEF InStep, TypeOK
    <2>0. at' >= 1
      BY <2>1 DEF Track
    <2> SUFFICES ASSUME NEW i \in DOMAIN config.order
                 PROVE  Len(history'[config.order[i]]) = IF i < cursor' THEN at' ELSE at' - 1
      BY <1>0, <2>0 DEF InStep
    <2>2. i \in 1 .. Len(config.order) /\ config.order[i] \in Names
      BY <1>0, ConfigFacts
    <2>3. Len(history[config.order[i]]) = IF i < cursor THEN at ELSE at - 1
      BY <1>1 DEF InStep
    <2>4. Len(history'[config.order[i]]) = IF i =< cursor THEN at ELSE at - 1
      <3>1. CASE i = cursor
        <4>1. Len(history'[m]) = Len(history[m]) + 1
          BY <1>2, <1>3, <1>4 DEF TypeOK
        <4> QED BY <3>1, <4>1, <2>3, <2>1, <1>1
      <3>2. CASE i # cursor
        <4>1. config.order[i] # m
          BY <3>2, <1>0, <1>1, ConfigFacts
        <4>2. history'[config.order[i]] = history[config.order[i]]
          BY <4>1, <1>4, <2>2 DEF TypeOK
        <4> QED BY <4>2, <3>2, <2>2, <2>3, <1>1
      <3> QED BY <3>1, <3>2
    <2>5. CASE cursor = Len(config.order)
      BY <2>1, <2>2, <2>4, <2>5 DEF Track
    <2>6. CASE cursor # Len(config.order)
      BY <2>1, <2>2, <2>4, <2>6, <1>1 DEF Track
    <2> QED BY <2>5, <2>6
  <1> QED BY <1>7, <1>8

\* Every step keeps the types and the order.
LEMMA NextTypedInStep == TypedInStep /\ [Next]_vars => TypedInStep'
  <1> SUFFICES ASSUME TypedInStep, [Next]_vars PROVE TypedInStep'
    OBVIOUS
  <1>1. ASSUME NEW conversation \in Conversations, Evaluate(conversation) PROVE TypedInStep'
    <2>1. conversations' \in 0 .. MaxConversations
      BY <1>1, MarkersBoundsAssumption DEF Evaluate, TypedInStep, TypeOK
    <2>2. events' \in Seq(Events)
      BY <1>1, ConversationsAreSequences DEF Evaluate
    <2> QED BY <1>1, <2>1, <2>2, BeginKeeps DEF Evaluate, TypedInStep
  <1>2. CASE Track
    BY <1>2, TrackKeeps
  <1>3. CASE Extract
    <2>1. CASE session < Cardinality(FirstPositions)
      <3>1. session + 1 \in Nat /\ Begin(session + 1) /\ config' = config
            /\ conversations' \in 0 .. MaxConversations /\ events' \in Seq(Events)
        BY <1>3, <2>1 DEF Extract, TypedInStep, TypeOK
      <3> QED BY <3>1, BeginKeeps DEF TypedInStep
    <2>2. CASE ~(session < Cardinality(FirstPositions))
      BY <1>3, <2>2 DEF Extract, TypedInStep, TypeOK, InStep, Idle, Markers
    <2> QED BY <2>1, <2>2
  <1>4. CASE UNCHANGED vars
    BY <1>4 DEF vars, TypedInStep, TypeOK, InStep, Idle, Markers
  <1> QED BY <1>1, <1>2, <1>3, <1>4 DEF Next

-----------------------------------------------------------------------------
(* What the markers find is what they stand for.                             *)

\* What was kept of the sessions so far is due, one result a session.
ResultsDue ==
  /\ results \in Seq({results[n] : n \in DOMAIN results})
  /\ WithoutNegation => \A n \in DOMAIN results \ carried : results[n] = Due(n)
  /\ ~Idle => Len(results) = session - 1
  /\ Idle /\ conversations > 0 => Len(results) = Cardinality(FirstPositions)

IInv == TypedInStep /\ InSession /\ Meant /\ ResultsDue

\* Any session can be begun afresh, and there is one.
CanBegin ==
  config \in Configs /\ events \in Seq(Events) =>
    /\ Cardinality(FirstPositions) \in Nat \ {0}
    /\ \A n \in 1 .. Cardinality(FirstPositions) :
         /\ StartOf(n) \in Nat \ {0} /\ EndOf(n) \in Nat /\ StartOf(n) =< EndOf(n)
         /\ \A i \in DOMAIN config.order :
              LET m == config.order[i]
              IN  Marker(m).tag = "seq" =>
                    SeqAt(OfParts(m, Session(n)), Session(n), StartOf(n) - 1, Len(config.parts[m]), 0)

\* At the first position of a session no sequence has got anywhere.
LEMMA SessionsCanBegin == CanBegin
  <1> SUFFICES ASSUME config \in Configs, events \in Seq(Events) PROVE CanBegin
    BY DEF CanBegin
  <1>1. Cardinality(FirstPositions) \in Nat \ {0}
    BY SessionsAreFinite
  <1>2. ASSUME NEW n \in 1 .. Cardinality(FirstPositions)
        PROVE  /\ StartOf(n) \in Nat \ {0} /\ EndOf(n) \in Nat /\ StartOf(n) =< EndOf(n)
               /\ EndOf(n) =< Len(events) + 1 /\ Session(n) = StartOf(n) .. EndOf(n) - 1
    BY <1>2, SessionBounds
  <1>3. ASSUME NEW n \in 1 .. Cardinality(FirstPositions), NEW i \in DOMAIN config.order,
               Marker(config.order[i]).tag = "seq"
        PROVE  SeqAt(OfParts(config.order[i], Session(n)), Session(n), StartOf(n) - 1,
                     Len(config.parts[config.order[i]]), 0)
    <2> DEFINE m == config.order[i]
               P == Session(n)
               a == StartOf(n)
               sets == OfParts(m, P)
               length == Len(config.parts[m])
    <2>1. a \in 1 .. Len(events) + 1 /\ \A p \in P : p \in Nat /\ p >= a
      <3>1. Len(events) \in Nat
        OBVIOUS
      <3> QED BY <1>2, <3>1
    <2>2. length \in Nat \ {0} /\ 1 \in DOMAIN config.parts[m]
      <3>1. config.parts[m] \in Seq(Names) /\ length \in Nat \ {0}
        <4>1. "seq" \in Operators
          BY DEF Operators
        <4> QED BY <1>3, <4>1, MarkerFacts
      <3> QED BY <3>1
    <2>3. sets[1] \subseteq P
      BY <2>2, MeaningWithin
    <2> HIDE DEF m, P, a, sets, length
    <2>4. SeqAt(sets, P, a - 1, length, 0)
      BY <2>1, <2>2, <2>3, SequenceBegins
    <2> QED BY <2>4 DEF m, P, a, sets, length
  <1> QED BY <1>1, <1>2, <1>3 DEF CanBegin

\* A session begins, with nothing found.
LEMMA BeginMeant ==
  ASSUME TypeOK, TypeOK', config' = config, NEW n \in Nat, Begin(n), n \in 1 .. Cardinality(FirstPositions)'
  PROVE  InSession' /\ Meant'
  <1>1. CanBegin'
    BY SessionsCanBegin, PTL
  <1>2. /\ session' = n /\ at' = 1 /\ cursor' = 1 /\ history' = [m \in Names |-> <<>>]
        /\ progress' = progress
        /\ n \notin carried' => \A m \in Markers : progress[m] = 0
    BY DEF Begin, Cleared
  <1>3. config \in Configs /\ config' \in Configs /\ events' \in Seq(Events)
    BY DEF TypeOK
  <1>4. StartOf(n)' \in Nat \ {0} /\ EndOf(n)' \in Nat /\ StartOf(n)' =< EndOf(n)'
    BY <1>1, <1>3 DEF CanBegin
  <1>5. InSession'
    BY <1>2, <1>4 DEF InSession
  <1>6. Meant'
    <2> SUFFICES ASSUME n \notin carried', WithoutNegation', NEW i \in DOMAIN config.order
                 PROVE  Follows(config.order[i], Session(n), StartOf(n))'
      BY <1>2 DEF Meant
    <2> DEFINE m == config.order[i]
    <2>1. m \in Names /\ m \in Markers
      BY <1>3, ConfigFacts DEF Markers
    <2>2. progress'[m] = 0 /\ history'[m] = <<>> /\ Len(history'[m]) = 0
      BY <1>2, <2>1
    <2>3. StartOf(n)' + Len(history'[m]) - 1 = StartOf(n)' - 1
      BY <1>4, <2>2
    <2>4. (Marker(m)').tag = "seq" =>
            SeqAt(OfParts(m, Session(n)), Session(n), StartOf(n) - 1, Len(config.parts[m]), 0)'
      BY <1>1, <1>3 DEF CanBegin
    <2>5. \A k \in 1 .. Len(history'[m]) : FALSE
      BY <2>2
    <2> HIDE DEF m
    <2> QED BY <2>2, <2>3, <2>4, <2>5 DEF Follows, m
  <1> QED BY <1>5, <1>6

\* Initially nothing is to be found.
LEMMA InitMeant == Init => IInv
  <1> SUFFICES ASSUME Init PROVE IInv
    OBVIOUS
  <1>1. TypedInStep
    BY InitTypedInStep
  <1>2. Idle /\ results = <<>> /\ ~(conversations > 0)
    BY DEF Init, Idle
  <1>3. ResultsDue
    BY <1>2 DEF ResultsDue
  <1> QED BY <1>1, <1>2, <1>3 DEF IInv, InSession, Meant

\* The next conversation begins.
LEMMA EvaluateMeant ==
  ASSUME IInv, NEW conversation \in Conversations, Evaluate(conversation), TypedInStep'
  PROVE  IInv'
  <1>1. TypeOK /\ TypeOK' /\ config' = config /\ Begin(1) /\ results' = <<>>
    BY DEF IInv, TypedInStep, Evaluate
  <1>2. 1 \in 1 .. Cardinality(FirstPositions)'
    <2>1. CanBegin'
      BY SessionsCanBegin, PTL
    <2>2. Cardinality(FirstPositions)' \in Nat \ {0}
      BY <1>1, <2>1 DEF CanBegin, TypeOK
    <2> QED BY <2>2
  <1>3. InSession' /\ Meant'
    BY <1>1, <1>2, BeginMeant
  <1>4. session' = 1 /\ ~Idle'
    BY <1>1 DEF Begin, Idle
  <1>5. ResultsDue'
    BY <1>1, <1>4 DEF ResultsDue
  <1> QED BY <1>3, <1>5 DEF IInv

\* One marker tracks one event, and finds what it stands for there.
LEMMA TrackMeant ==
  ASSUME IInv, Track, TypedInStep'
  PROVE  IInv'
  <1>1. /\ config' = config /\ events' = events /\ session' = session /\ carried' = carried
        /\ results' = results /\ conversations' = conversations /\ Tracking
    BY DEF Track
  <1>2. TypeOK /\ InStep /\ InSession /\ Meant /\ ResultsDue /\ ~Idle
    BY DEF IInv, TypedInStep, Track, Tracking
  <1>3. config \in Configs /\ cursor \in DOMAIN config.order /\ at \in Nat /\ at >= 1
        /\ DOMAIN config.order = 1 .. Len(config.order) /\ Len(config.order) \in Nat
    BY <1>2, ConfigFacts DEF TypeOK, InStep
  <1>4. StartOf(session) \in Nat \ {0} /\ EndOf(session) \in Nat
    BY <1>2, SessionBounds DEF TypeOK, InSession
  <1>5. InSession'
    <2> DEFINE length == EndOf(session) - StartOf(session)
    <2>1. session' \in 1 .. Cardinality(FirstPositions)'
      BY <1>1, <1>2, SessionsStay DEF InSession
    <2>2. EndOf(session)' - StartOf(session)' = length
      BY <1>1, SessionStays
    <2>3. at =< length /\ length \in Int
      BY <1>1, <1>4 DEF Tracking
    <2>4. at' =< length + 1 /\ (cursor' # 1 => at' =< length)
      <3> HIDE DEF length
      <3>1. CASE cursor = Len(config.order)
        BY <1>3, <2>3, <3>1 DEF Track
      <3>2. CASE cursor # Len(config.order)
        BY <1>3, <2>3, <3>2 DEF Track
      <3> QED BY <3>1, <3>2
    <2> HIDE DEF length
    <2> QED BY <2>1, <2>2, <2>4 DEF InSession
  <1>6. Meant'
    <2> SUFFICES ASSUME session \notin carried, WithoutNegation, NEW i \in DOMAIN config.order
                 PROVE  Follows(config.order[i], Session(session), StartOf(session))'
      BY <1>1, SessionsStay DEF Meant
    <2> DEFINE m == config.order[cursor]
               a == StartOf(session)
               P == Session(session)
               p == a + at - 1
               found == AppliesAt(m, events[p]) # Marker(m).negated
    <2>1. /\ found <=> p \in Meaning(P)[m]
          /\ Marker(m).tag = "seq" => SeqAt(OfParts(m, P), P, p, Len(config.parts[m]), Progressed(m))
      BY <1>1, <1>2, FindsWhatIsMeant
    <2>2. history' = [history EXCEPT ![m] = Append(history[m], found)]
          /\ progress' = [progress EXCEPT ![m] = Progressed(m)]
      BY DEF Track
    <2>3. m \in Names /\ history[m] \in Seq(BOOLEAN) /\ found \in BOOLEAN
          /\ history \in [Names -> Seq(BOOLEAN)] /\ progress \in [Names -> Nat]
      BY <1>2, <1>3, ConfigFacts DEF TypeOK
    <2>4. Len(history[m]) = at - 1
      BY <1>2, <1>3 DEF InStep
    <2>5. Follows(config.order[i], P, a)
      BY <1>2 DEF Meant
    <2> DEFINE n == config.order[i]
               after == history'[n]
               done == progress'[n]
    <2>6. /\ \A k \in 1 .. Len(after) : after[k] <=> a + k - 1 \in Meaning(P)[n]
          /\ Marker(n).tag = "seq" =>
               SeqAt(OfParts(n, P), P, a + Len(after) - 1, Len(config.parts[n]), done)
      <3>1. CASE i = cursor
        <4>1. n = m
          BY <3>1
        <4>2. after = Append(history[m], found) /\ done = Progressed(m)
          BY <2>2, <2>3, <4>1
        <4> HIDE DEF found, after, done, a, P
        <4>3. /\ Len(after) = at /\ after[at] = found
              /\ \A k \in 1 .. at - 1 : after[k] = history[m][k]
          BY <1>3, <2>3, <2>4, <4>2
        <4>4. \A k \in 1 .. at - 1 : history[m][k] <=> a + k - 1 \in Meaning(P)[m]
          BY <2>4, <2>5, <4>1 DEF Follows
        <4>5. \A k \in 1 .. at : k = at \/ k \in 1 .. at - 1
          BY <1>3
        <4>6. ASSUME NEW k \in 1 .. at PROVE after[k] <=> a + k - 1 \in Meaning(P)[m]
          <5>1. CASE k = at
            BY <2>1, <4>3, <5>1
          <5>2. CASE k \in 1 .. at - 1
            BY <4>3, <4>4, <5>2
          <5> QED BY <4>5, <5>1, <5>2
        <4> QED BY <2>1, <4>1, <4>2, <4>3, <4>6
      <3>2. CASE i # cursor
        <4>1. n # m /\ n \in Names
          BY <1>3, <3>2, ConfigFacts
        <4>2. after = history[n] /\ done = progress[n]
          BY <2>2, <2>3, <4>1
        <4> HIDE DEF after, done, a, P
        <4> QED BY <2>5, <4>2 DEF Follows
      <3> QED BY <3>1, <3>2
    <2>7. PICK x : x = n
      OBVIOUS
    <2> HIDE DEF n
    <2>8. Follows(x, Session(session), StartOf(session))'
      BY <1>1, <2>6, <2>7, SessionStays
    <2>9. n' = x
      BY <1>1, <2>7 DEF n
    <2> QED BY <2>8, <2>9 DEF n
  <1>7. ResultsDue'
    <2>1. Idle' <=> Idle
      BY <1>1 DEF Idle
    <2> QED BY <1>1, <1>2, <2>1, SessionsStay DEF ResultsDue
  <1> QED BY <1>5, <1>6, <1>7 DEF IInv

\* One more result.
LEMMA ResultsExtended ==
  ASSUME NEW S, NEW found, NEW rs \in Seq(S)
  PROVE  LET all == Append(rs, found)
         IN  /\ all \in Seq({all[n] : n \in DOMAIN all})
             /\ DOMAIN all = 1 .. Len(rs) + 1 /\ Len(all) = Len(rs) + 1 /\ Len(rs) \in Nat
             /\ all[Len(rs) + 1] = found
             /\ DOMAIN rs = 1 .. Len(rs) /\ \A n \in 1 .. Len(rs) : all[n] = rs[n]
  <1> DEFINE E == S \union {found}
             all == Append(rs, found)
             R == {all[n] : n \in DOMAIN all}
  <1>1. rs \in Seq(E) /\ found \in E
    OBVIOUS
  <1>2. /\ all \in Seq(E) /\ Len(all) = Len(rs) + 1 /\ Len(rs) \in Nat /\ all[Len(rs) + 1] = found
        /\ \A n \in 1 .. Len(rs) : all[n] = rs[n]
    <2> HIDE DEF E
    <2> QED BY <1>1, Appended
  <1> HIDE DEF all
  <1>3. all \in Seq(R)
    <2>1. DOMAIN all = 1 .. Len(all) /\ Len(all) \in Nat /\ all = [n \in 1 .. Len(all) |-> all[n]]
      BY <1>2
    <2>2. \A n \in 1 .. Len(all) : all[n] \in R
      BY <2>1
    <2> HIDE DEF R
    <2>3. all \in [1 .. Len(all) -> R]
      BY <2>1, <2>2
    <2> QED BY <2>1, <2>3
  <1>4. DOMAIN all = 1 .. Len(rs) + 1 /\ DOMAIN rs = 1 .. Len(rs)
    BY <1>2
  <1> QED BY <1>2, <1>3, <1>4 DEF all, R

\* A session ends, with what is due.
LEMMA ExtractMeant ==
  ASSUME IInv, Extract, TypedInStep'
  PROVE  IInv'
  <1>1. /\ config' = config /\ events' = events /\ conversations' = conversations
        /\ results' = Append(results, Extracted) /\ ~Idle /\ ~Tracking
    BY DEF Extract
  <1>2. TypeOK /\ TypeOK' /\ InStep /\ InSession /\ Meant /\ ResultsDue
    BY DEF IInv, TypedInStep
  <1>3. WithoutNegation /\ session \notin carried => Extracted = Due(session)
    BY <1>1, <1>2, ExtractsWhatIsDue
  <1>4. session \in 1 .. Cardinality(FirstPositions) /\ Cardinality(FirstPositions) \in Nat
    BY <1>1, <1>2, SessionsAreFinite DEF InSession, TypeOK
  <1>5. Len(results) = session - 1 /\ results \in Seq({results[n] : n \in DOMAIN results})
    BY <1>1, <1>2 DEF ResultsDue
  <1>6. /\ results' \in Seq({results'[n] : n \in DOMAIN results'})
        /\ DOMAIN results' = 1 .. session /\ Len(results') = session
        /\ results'[session] = Extracted
        /\ DOMAIN results = 1 .. session - 1
        /\ \A n \in 1 .. session - 1 : results'[n] = results[n]
    <2> DEFINE R == {results[n] : n \in DOMAIN results}
               found == Extracted
    <2> HIDE DEF R, found
    <2>1. results \in Seq(R) /\ results' = Append(results, found)
      BY <1>1, <1>5 DEF R, found
    <2>2. Len(results) + 1 = session
      BY <1>4, <1>5
    <2> QED BY <1>5, <2>1, <2>2, ResultsExtended DEF found
  <1>7. (\A n : Due(n)' = Due(n)) /\ (WithoutNegation' <=> WithoutNegation)
    BY <1>1, SessionsStay
  <1>8. Cardinality(FirstPositions)' = Cardinality(FirstPositions)
    BY <1>1, SessionsStay
  <1>9. ASSUME WithoutNegation, carried \subseteq carried', NEW n \in DOMAIN results' \ carried'
        PROVE  results'[n] = Due(n)'
    <2>1. n \in 1 .. session /\ n \notin carried
      BY <1>6, <1>9
    <2>2. CASE n = session
      BY <1>3, <1>6, <1>7, <1>9, <2>1, <2>2
    <2>3. CASE n # session
      <3>1. n \in 1 .. session - 1
        BY <1>4, <2>1, <2>3
      <3>2. results[n] = Due(n)
        BY <1>2, <1>6, <1>9, <2>1, <3>1 DEF ResultsDue
      <3> QED BY <1>6, <1>7, <3>1, <3>2
    <2> QED BY <2>2, <2>3
  <1>10. CASE session < Cardinality(FirstPositions)
    <2>1. Begin(session + 1)
      BY <1>10 DEF Extract
    <2>2. session' = session + 1 /\ carried \subseteq carried' /\ session + 1 \in Nat /\ session' # 0
      BY <1>4, <2>1 DEF Begin
    <2>3. session + 1 \in 1 .. Cardinality(FirstPositions)'
      BY <1>4, <1>8, <1>10
    <2>4. InSession' /\ Meant'
      <3> DEFINE next == session + 1
      <3> HIDE DEF next
      <3>1. next \in Nat /\ Begin(next) /\ next \in 1 .. Cardinality(FirstPositions)'
        BY <2>1, <2>2, <2>3 DEF next
      <3> QED BY <1>1, <1>2, <3>1, BeginMeant
    <2>5. session' - 1 = session /\ ~Idle'
      BY <1>4, <2>2 DEF Idle
    <2>6. ResultsDue'
      BY <1>6, <1>7, <1>9, <2>2, <2>5 DEF ResultsDue
    <2> QED BY <2>4, <2>6 DEF IInv
  <1>11. CASE ~(session < Cardinality(FirstPositions))
    <2>1. session' = 0 /\ carried' = carried /\ Idle'
      BY <1>11 DEF Extract, Idle
    <2>2. session = Cardinality(FirstPositions)'
      BY <1>4, <1>8, <1>11
    <2>3. ResultsDue'
      BY <1>6, <1>7, <1>9, <2>1, <2>2 DEF ResultsDue
    <2> QED BY <2>1, <2>3 DEF IInv, InSession, Meant
  <1> QED BY <1>10, <1>11

\* Every step keeps the invariant.
LEMMA NextMeant == IInv /\ [Next]_vars => IInv'
  <1> SUFFICES ASSUME IInv, [Next]_vars PROVE IInv'
    OBVIOUS
  <1>0. TypedInStep'
    BY NextTypedInStep DEF IInv
  <1>1. ASSUME NEW conversation \in Conversations, Evaluate(conversation) PROVE IInv'
    BY <1>0, <1>1, EvaluateMeant
  <1>2. CASE Track
    BY <1>0, <1>2, TrackMeant
  <1>3. CASE Extract
    BY <1>0, <1>3, ExtractMeant
  <1>4. CASE UNCHANGED vars
    <2>1. /\ config' = config /\ events' = events /\ session' = session /\ at' = at
          /\ cursor' = cursor /\ history' = history /\ progress' = progress
          /\ results' = results /\ carried' = carried /\ conversations' = conversations
      BY <1>4 DEF vars
    <2>2. Idle' <=> Idle
      BY <2>1 DEF Idle
    <2>3. InSession'
      BY <2>1, <2>2, SessionsStay, SessionStays DEF IInv, InSession
    <2>4. Meant'
      <3> SUFFICES ASSUME ~Idle, session \notin carried, WithoutNegation, NEW i \in DOMAIN config.order
                   PROVE  Follows(config.order[i], Session(session), StartOf(session))'
        BY <2>1, <2>2, SessionsStay DEF Meant
      <3> DEFINE m == config.order[i]
      <3>1. Follows(m, Session(session), StartOf(session))
        BY DEF IInv, Meant
      <3>2. PICK x : x = m
        OBVIOUS
      <3> HIDE DEF m
      <3>3. Follows(x, Session(session), StartOf(session))'
        BY <2>1, <3>1, <3>2, SessionStays DEF Follows
      <3>4. m' = x
        BY <2>1, <3>2 DEF m
      <3> QED BY <3>3, <3>4 DEF m
    <2>5. ResultsDue'
      BY <2>1, <2>2, SessionsStay DEF IInv, ResultsDue
    <2> QED BY <1>0, <2>3, <2>4, <2>5 DEF IInv
  <1> QED BY <1>1, <1>2, <1>3, <1>4 DEF Next

\* So it holds in every reachable state.
LEMMA SpecIInv == Spec => []IInv
  BY InitMeant, NextMeant, PTL DEF Spec

-----------------------------------------------------------------------------
\* The type invariant holds: a sequence never looks for a part it has not.
THEOREM MarkersTypeOK == Spec => []TypeOK
  BY SpecIInv, PTL DEF IInv, TypedInStep

\* Whatever a marker looks up of its parts they found at the event it tracks.
THEOREM PartsFirst == Spec => []PartsTrackFirst
  <1>1. IInv => PartsTrackFirst
    <2> SUFFICES ASSUME IInv, ~Idle PROVE PartsTrackFirst
      BY DEF PartsTrackFirst
    <2> DEFINE m == config.order[cursor]
    <2>1. config \in Configs /\ cursor \in DOMAIN config.order /\ cursor \in Nat
      BY ConfigFacts DEF IInv, TypedInStep, TypeOK
    <2>2. at \in Nat /\ at >= 1
      BY DEF IInv, TypedInStep, InStep, TypeOK
    <2>3. Len(history[m]) + 1 = at
      BY <2>1, <2>2 DEF IInv, TypedInStep, InStep
    <2>4. ASSUME NEW i \in DOMAIN config.parts[m]
          PROVE  Len(history[config.parts[m][i]]) = at
      <3>1. PICK k \in 1 .. cursor - 1 : config.order[k] = config.parts[m][i]
        BY <2>1, <2>4, ConfigsAssumption
      <3>2. k \in DOMAIN config.order /\ k < cursor
        BY <2>1, <3>1, ConfigFacts
      <3>3. Len(history[config.order[k]]) = at
        BY <3>2 DEF IInv, TypedInStep, InStep
      <3> QED BY <3>1, <3>3
    <2> QED BY <2>3, <2>4 DEF PartsTrackFirst
  <1> QED BY <1>1, SpecIInv, PTL

\* What is found in a session is what the markers stand for on its events, in
\* every conversation, but where a sequence had been begun before; and no
\* session is left out.
THEOREM FoundAsDefined == Spec => []EvaluatedAsDefined
  <1>1. IInv => EvaluatedAsDefined
    <2> SUFFICES ASSUME IInv PROVE EvaluatedAsDefined
      OBVIOUS
    <2>1. WithoutNegation => \A n \in DOMAIN results \ carried : results[n] = Due(n)
      BY DEF IInv, ResultsDue
    <2>2. Idle /\ conversations > 0 =>
            Len(results) = IF Starts = {} THEN 1 ELSE Cardinality(Starts)
      BY SessionsAreFinite DEF IInv, TypedInStep, TypeOK, ResultsDue
    <2> QED BY <2>1, <2>2 DEF EvaluatedAsDefined
  <1> QED BY <1>1, SpecIInv, PTL



-----------------------------------------------------------------------------
(* The graph.                                                               *)

Pos(n) == CHOOSE i \in 1 .. Len(Order) : Order[i] = n

\* Every node has its place in the order, after its parents.
LEMMA PosFacts ==
  /\ Len(Order) \in Nat /\ DOMAIN Order = 1 .. Len(Order)
  /\ \A i \in 1 .. Len(Order) : Order[i] \in Nodes /\ Pos(Order[i]) = i
  /\ \A n \in Nodes : Pos(n) \in 1 .. Len(Order) /\ Order[Pos(n)] = n
  /\ \A n \in Nodes : \A p \in Needs[n] : p \in Nodes /\ Pos(p) < Pos(n)
<1>1. /\ Len(Order) \in Nat /\ DOMAIN Order = 1 .. Len(Order)
      /\ \A i \in 1 .. Len(Order) : Order[i] \in Nodes
  BY GraphAssumption
<1>2. \A n \in Nodes : Pos(n) \in 1 .. Len(Order) /\ Order[Pos(n)] = n
  <2>1. \A n \in Nodes : \E i \in 1 .. Len(Order) : Order[i] = n
    BY <1>1 DEF Nodes, ToSet
  <2>. QED  BY <2>1 DEF Pos
<1>3. \A i \in 1 .. Len(Order) : Pos(Order[i]) = i
  BY <1>1, <1>2, GraphAssumption
<1>4. ASSUME NEW n \in Nodes, NEW p \in Needs[n] PROVE p \in Nodes /\ Pos(p) < Pos(n)
  <2>1. p \in {Order[k] : k \in 1 .. Pos(n) - 1}
    BY <1>1, <1>2, GraphAssumption
  <2>2. PICK k \in 1 .. Pos(n) - 1 : p = Order[k]
    BY <2>1
  <2>. QED  BY <1>1, <1>2, <1>3, <2>2
<1>. QED  BY <1>1, <1>2, <1>3, <1>4

\* A node's lineage is itself and the lineages of its parents; nothing in it
\* comes after the node.
LEMMA LineageUnfolds ==
  ASSUME NEW n \in Nodes
  PROVE  Lineage(n) = {n} \union UNION {Lineage(p) : p \in Needs[n]}
<1>. DEFINE Whole(S) == \A k \in S : Needs[k] \subseteq S
            R == {n} \union UNION {Lineage(p) : p \in Needs[n]}
<1>0. Needs[n] \subseteq Nodes /\ \A k \in Nodes : Needs[k] \subseteq Nodes
  BY GraphAssumption
<1>1. ASSUME NEW m \in R PROVE m \in Lineage(n)
  <2>1. CASE m = n
    BY <2>1 DEF Lineage
  <2>2. ASSUME NEW p \in Needs[n], m \in Lineage(p) PROVE m \in Lineage(n)
    BY <1>0, <2>2 DEF Lineage
  <2>. QED  BY <2>1, <2>2
<1>2. R \subseteq Nodes
  BY <1>0 DEF Lineage
<1>3. Whole(R)
  <2>1. ASSUME NEW p \in Needs[n] PROVE p \in Lineage(p)
    BY <1>0 DEF Lineage
  <2>2. ASSUME NEW p \in Nodes, NEW k \in Lineage(p) PROVE Needs[k] \subseteq Lineage(p)
    <3>. SUFFICES ASSUME NEW q \in Needs[k], NEW S \in SUBSET Nodes, p \in S, Whole(S) PROVE q \in S /\ q \in Nodes
      BY <1>0 DEF Lineage
    <3>1. k \in S /\ k \in Nodes
      BY DEF Lineage
    <3>. QED  BY <3>1, <1>0
  <2>. QED  BY <1>0, <2>1, <2>2
<1>4. ASSUME NEW m \in Lineage(n) PROVE m \in R
  BY <1>2, <1>3 DEF Lineage
<1>. QED  BY <1>1, <1>4

LEMMA LineageFacts ==
  ASSUME NEW n \in Nodes
  PROVE  n \in Lineage(n) /\ \A m \in Lineage(n) : m \in Nodes /\ Pos(m) =< Pos(n)
<1>. DEFINE S == {k \in Nodes : Pos(k) =< Pos(n)}
<1>1. n \in S /\ S \in SUBSET Nodes
  BY PosFacts
<1>2. \A k \in S : Needs[k] \subseteq S
  BY PosFacts
<1>. QED  BY <1>1, <1>2 DEF Lineage

-----------------------------------------------------------------------------
(* Outputs.                                                                 *)

\* What goes into a node: an output of each parent.
InputsOver(n, O) == {f \in [Needs[n] -> O \ {NoOutput}] : \A p \in Needs[n] : f[p].content.node = p}

Made(o, O) ==
  \E n \in Nodes, setting \in Nat, run \in 0 .. MaxTrainings :
    /\ n \notin Inputs => run \in Jobs
    /\ \E f \in InputsOver(n, O) : o = Output(n, setting, f, run)

\* O holds what was ever made, and what that was made of: there the content
\* says what an output was made of.
Universe(O) ==
  /\ NoOutput \in O
  /\ \A o \in O \ {NoOutput} :
       /\ Made(o, O)
       /\ o.content.node \in Nodes
       /\ {c.node : c \in o.made_of} = Lineage(o.content.node)
       /\ \A c \in o.made_of : c.run = 0 \/ (c.node \in Random /\ c.run \in Jobs)
       /\ \A c \in o.made_of : c.node \in Random => c.run \in Jobs
  /\ \A o, u \in O \ {NoOutput} : o.content = u.content => o.made_of = u.made_of

LEMMA OutputFields ==
  ASSUME NEW n, NEW setting, NEW f, NEW run, NEW o, o = Output(n, setting, f, run)
  PROVE  /\ o.content.node = n /\ o.content.setting = setting
         /\ o.content.run = IF n \in Random THEN run ELSE 0
         /\ o.made_of = {o.content} \union UNION {f[p].made_of : p \in Needs[n]}
         /\ o.content \in o.made_of
         /\ \A p \in Needs[n] : f[p].made_of \subseteq o.made_of
         /\ \A c \in o.made_of : c = o.content \/ \E p \in Needs[n] : c \in f[p].made_of
         /\ o.run = IF n \in Fresh THEN run ELSE 0
         /\ o # NoOutput
<1>1. NoOutput.made_of = {}
  BY DEF NoOutput
<1>. QED  BY <1>1 DEF Output

\* Equal outputs were made of the same by the same node.
LEMMA SameMade ==
  ASSUME NEW n \in Nodes, NEW m \in Nodes, NEW s, NEW t, NEW f, NEW g, NEW q, NEW r, NEW o, NEW u,
         o = Output(n, s, f, q), u = Output(m, t, g, r), o.content = u.content
  PROVE  n = m /\ s = t /\ \A p \in Needs[n] : f[p].content = g[p].content
<1>. DEFINE a == [node |-> n, setting |-> s, inputs |-> [p \in Needs[n] |-> f[p].content], run |-> IF n \in Random THEN q ELSE 0]
            b == [node |-> m, setting |-> t, inputs |-> [p \in Needs[m] |-> g[p].content], run |-> IF m \in Random THEN r ELSE 0]
<1>1. a = b
  <2>1. o.content = a
    BY DEF Output
  <2>2. u.content = b
    BY DEF Output
  <2>. QED  BY <2>1, <2>2
<1>2. a.node = b.node /\ a.setting = b.setting /\ a.inputs = b.inputs
  BY <1>1
<1>3. [p \in Needs[n] |-> f[p].content] = [p \in Needs[m] |-> g[p].content] /\ n = m /\ s = t
  BY <1>2
<1>4. ASSUME NEW p \in Needs[n] PROVE f[p].content = g[p].content
  <2>1. [x \in Needs[n] |-> f[x].content][p] = f[p].content
    OBVIOUS
  <2>2. [x \in Needs[n] |-> g[x].content][p] = g[p].content
    OBVIOUS
  <2>. QED  BY <1>3, <2>1, <2>2, Zenon
<1>. QED  BY <1>3, <1>4

\* The universe is closed under making: a new output joins it.
LEMMA UniverseGrows ==
  ASSUME NEW O, Universe(O), NEW n \in Nodes, NEW setting \in Nat, NEW f \in InputsOver(n, O),
         NEW run \in 0 .. MaxTrainings, n \notin Inputs => run \in Jobs
  PROVE  Universe(O \union {Output(n, setting, f, run)})
<1>. DEFINE o == Output(n, setting, f, run)
            P == O \union {o}
<1>0. /\ o # NoOutput /\ o.content.node = n
      /\ o.content.run = IF n \in Random THEN run ELSE 0
      /\ \A c \in o.made_of : c = o.content \/ \E p \in Needs[n] : c \in f[p].made_of
      /\ o.content \in o.made_of
      /\ \A p \in Needs[n] : f[p].made_of \subseteq o.made_of
  BY OutputFields
<1>f. /\ \A p \in Needs[n] : f[p] \in O \ {NoOutput} /\ f[p].content.node = p /\ p \in Nodes
      /\ Random \cap Inputs = {} /\ Random \subseteq Nodes
  BY GraphAssumption DEF InputsOver
<1>1. NoOutput \in P
  BY DEF Universe
<1>2. ASSUME NEW u \in P \ {NoOutput} PROVE Made(u, P)
  <2>1. \A m : InputsOver(m, O) \subseteq InputsOver(m, P)
    BY DEF InputsOver
  <2>2. CASE u = o
    BY <2>1, <2>2 DEF Made
  <2>3. CASE u \in O
    <3>1. Made(u, O)
      BY <2>3 DEF Universe
    <3>. QED  BY <3>1, <2>1 DEF Made
  <2>. QED  BY <2>2, <2>3
<1>3. {c.node : c \in o.made_of} = Lineage(n)
  <2>1. Lineage(n) = {n} \union UNION {Lineage(p) : p \in Needs[n]}
    BY LineageUnfolds
  <2>2. \A p \in Needs[n] : {c.node : c \in f[p].made_of} = Lineage(p)
    BY <1>f DEF Universe
  <2>3. ASSUME NEW c \in o.made_of PROVE c.node \in Lineage(n)
    BY <1>0, <2>1, <2>2
  <2>4. ASSUME NEW m \in Lineage(n) PROVE \E c \in o.made_of : c.node = m
    <3>1. CASE m = n
      BY <1>0, <3>1
    <3>2. ASSUME NEW p \in Needs[n], m \in Lineage(p) PROVE \E c \in o.made_of : c.node = m
      <4>1. \E c \in f[p].made_of : c.node = m
        BY <2>2, <3>2
      <4>. QED  BY <4>1, <1>0
    <3>. QED  BY <2>1, <3>1, <3>2
  <2>. QED  BY <2>3, <2>4
<1>4. ASSUME NEW c \in o.made_of
      PROVE  /\ c.run = 0 \/ (c.node \in Random /\ c.run \in Jobs)
             /\ c.node \in Random => c.run \in Jobs
  <2>1. CASE c = o.content
    BY <1>0, <1>f, <2>1
  <2>2. ASSUME NEW p \in Needs[n], c \in f[p].made_of
        PROVE  /\ c.run = 0 \/ (c.node \in Random /\ c.run \in Jobs)
               /\ c.node \in Random => c.run \in Jobs
    BY <1>f, <2>2 DEF Universe
  <2>. QED  BY <1>0, <2>1, <2>2
<1>5. ASSUME NEW u \in O \ {NoOutput}, u.content = o.content PROVE u.made_of = o.made_of
  <2>1. PICK m \in Nodes, t \in Nat, r \in 0 .. MaxTrainings : \E g \in InputsOver(m, O) : u = Output(m, t, g, r)
    BY DEF Universe, Made
  <2>. PICK g \in InputsOver(m, O) : u = Output(m, t, g, r)
    BY <2>1
  <2>2. m = n /\ (\A p \in Needs[n] : f[p].content = g[p].content)
    <3>. HIDE DEF o
    <3>1. o = Output(n, setting, f, run)
      BY DEF o
    <3>. QED  BY <1>5, <3>1, SameMade
  <2>3. \A p \in Needs[n] : f[p].made_of = g[p].made_of
    BY <1>f, <2>1, <2>2 DEF InputsOver, Universe
  <2>4. /\ u.made_of = {u.content} \union UNION {g[p].made_of : p \in Needs[n]}
        /\ o.made_of = {o.content} \union UNION {f[p].made_of : p \in Needs[n]}
    BY <2>1, <2>2 DEF Output
  <2>. QED  BY <1>5, <2>3, <2>4
<1>. HIDE DEF o
<1>6. \A u, v \in P \ {NoOutput} : u.content = v.content => u.made_of = v.made_of
  BY <1>5 DEF Universe
<1>7. ASSUME NEW u \in P \ {NoOutput}
      PROVE  /\ u.content.node \in Nodes
             /\ {c.node : c \in u.made_of} = Lineage(u.content.node)
             /\ \A c \in u.made_of : c.run = 0 \/ (c.node \in Random /\ c.run \in Jobs)
             /\ \A c \in u.made_of : c.node \in Random => c.run \in Jobs
  <2>1. CASE u = o
    BY <1>0, <1>3, <1>4, <2>1
  <2>2. CASE u \in O
    BY <2>2, <1>7 DEF Universe
  <2>. QED  BY <2>1, <2>2
<1>8. Universe(P)
  BY <1>1, <1>2, <1>6, <1>7 DEF Universe
<1>. QED  BY <1>8 DEF o

\* Outputs of a node that has no fingerprint of its own, or differs from run
\* to run, are told apart by their content.
LEMMA SameContent ==
  ASSUME NEW O, Universe(O), NEW o \in O \ {NoOutput}, NEW u \in O \ {NoOutput},
         o.content = u.content, o.content.node \in Random \/ o.content.node \notin Fresh
  PROVE  o = u
<1>1. PICK n \in Nodes, q \in 0 .. MaxTrainings : \E s \in Nat, f \in InputsOver(n, O) : o = Output(n, s, f, q)
  BY DEF Universe, Made
<1>2. PICK m \in Nodes, r \in 0 .. MaxTrainings : \E t \in Nat, g \in InputsOver(m, O) : u = Output(m, t, g, r)
  BY DEF Universe, Made
<1>3. o.content.node = n /\ u.content.node = m
      /\ o.content.run = (IF n \in Random THEN q ELSE 0) /\ u.content.run = (IF m \in Random THEN r ELSE 0)
      /\ o.run = (IF n \in Fresh THEN q ELSE 0) /\ u.run = (IF m \in Fresh THEN r ELSE 0)
  BY <1>1, <1>2, OutputFields
<1>4. o.run = u.run /\ o.made_of = u.made_of
  BY <1>3, GraphAssumption DEF Universe
<1>5. o = [content |-> o.content, made_of |-> o.made_of, run |-> o.run]
      /\ u = [content |-> u.content, made_of |-> u.made_of, run |-> u.run]
  BY <1>1, <1>2 DEF Output
<1>. QED  BY <1>4, <1>5
-----------------------------------------------------------------------------
(* The entries of the cache.                                                *)

\* The key is the primary key.
KeyedOnce(entries) == \A i, k \in 1 .. Len(entries) : entries[i].key = entries[k].key => i = k

LEMMA Elements ==
  ASSUME NEW E, NEW s \in Seq(E)
  PROVE  /\ ToSet(s) \subseteq E /\ IsFiniteSet(ToSet(s))
         /\ \A e : e \in ToSet(s) <=> \E i \in 1 .. Len(s) : s[i] = e
<1>1. DOMAIN s = 1 .. Len(s) /\ Len(s) \in Nat /\ \A i \in 1 .. Len(s) : s[i] \in E
  OBVIOUS
<1>2. IsFiniteSet(1 .. Len(s))
  BY <1>1, FS_Interval
<1>3. IsFiniteSet(ToSet(s))
  <2>. DEFINE T == ToSet(s)
              I == 1 .. Len(s)
  <2>1. s \in [I -> T] /\ \A t \in T : \E i \in I : s[i] = t
    BY <1>1 DEF ToSet
  <2>2. s \in Surjection(I, T)
    BY <2>1 DEF Surjection
  <2>. QED  BY <1>2, <2>2, FS_Surjection
<1>. QED  BY <1>1, <1>3 DEF ToSet

LEMMA KeyedOnceSets ==
  ASSUME NEW E, NEW s \in Seq(E), KeyedOnce(s)
  PROVE  \A d, e \in ToSet(s) : d.key = e.key => d = e
BY Elements DEF KeyedOnce

\* A part of the entries.
LEMMA RestOfEntries ==
  ASSUME NEW E, NEW s \in Seq(E), KeyedOnce(s), NEW i \in 1 .. Len(s) + 1
  PROVE  LET rest == SubSeq(s, i, Len(s))
         IN  rest \in Seq(E) /\ KeyedOnce(rest) /\ ToSet(rest) \subseteq ToSet(s)
<1>. DEFINE rest == SubSeq(s, i, Len(s))
<1>1. /\ rest \in Seq(E) /\ Len(rest) = Len(s) - i + 1 /\ Len(s) \in Nat
      /\ \A k \in 1 .. Len(rest) : rest[k] = s[i + k - 1]
  OBVIOUS
<1>. HIDE DEF rest
<1>2. KeyedOnce(rest)
  <2>. SUFFICES ASSUME NEW a \in 1 .. Len(rest), NEW b \in 1 .. Len(rest), rest[a].key = rest[b].key
                PROVE  a = b
    BY DEF KeyedOnce
  <2>1. i + a - 1 \in 1 .. Len(s) /\ i + b - 1 \in 1 .. Len(s)
    BY <1>1
  <2>2. s[i + a - 1].key = s[i + b - 1].key
    BY <1>1
  <2>3. i + a - 1 = i + b - 1
    BY <2>1, <2>2 DEF KeyedOnce
  <2>. QED  BY <2>3
<1>3. ASSUME NEW e \in ToSet(rest) PROVE e \in ToSet(s)
  <2>1. PICK k \in 1 .. Len(rest) : rest[k] = e
    BY <1>1, Elements
  <2>2. i + k - 1 \in 1 .. Len(s) /\ s[i + k - 1] = e
    BY <1>1, <2>1
  <2>. QED  BY <2>2, Elements
<1>4. rest \in Seq(E) /\ KeyedOnce(rest) /\ ToSet(rest) \subseteq ToSet(s)
  BY <1>1, <1>2, <1>3
<1>. QED  BY <1>4 DEF rest

LEMMA RemovedAt ==
  ASSUME NEW E, NEW s \in Seq(E), NEW m \in 1 .. Len(s)
  PROVE  /\ RemoveAt(s, m) \in Seq(E) /\ Len(RemoveAt(s, m)) = Len(s) - 1
         /\ \A i \in 1 .. Len(RemoveAt(s, m)) : RemoveAt(s, m)[i] = IF i < m THEN s[i] ELSE s[i + 1]
<1>. DEFINE before == SubSeq(s, 1, m - 1)
            after == SubSeq(s, m + 1, Len(s))
            rest == RemoveAt(s, m)
<1>1. /\ before \in Seq(E) /\ Len(before) = m - 1 /\ \A i \in 1 .. m - 1 : before[i] = s[i]
      /\ after \in Seq(E) /\ Len(after) = Len(s) - m /\ Len(s) \in Nat
      /\ \A i \in 1 .. Len(s) - m : after[i] = s[m + i]
  OBVIOUS
<1>. HIDE DEF before, after
<1>2. rest = before \o after
  BY DEF RemoveAt, before, after
<1>. HIDE DEF rest
<1>3. /\ rest \in Seq(E) /\ Len(rest) = Len(before) + Len(after)
      /\ \A i \in 1 .. Len(before) : rest[i] = before[i]
      /\ \A i \in 1 .. Len(after) : rest[Len(before) + i] = after[i]
  <2>1. before \in Seq(E) /\ after \in Seq(E)
    BY <1>1
  <2>2. /\ before \o after \in Seq(E) /\ Len(before \o after) = Len(before) + Len(after)
        /\ \A i \in 1 .. Len(before) : (before \o after)[i] = before[i]
        /\ \A i \in 1 .. Len(after) : (before \o after)[Len(before) + i] = after[i]
    BY <2>1, ConcatParts
  <2>. QED  BY <1>2, <2>2, Zenon
<1>4. ASSUME NEW i \in 1 .. Len(rest), i < m PROVE rest[i] = s[i]
  BY <1>1, <1>3, <1>4
<1>5. ASSUME NEW i \in 1 .. Len(rest), ~(i < m) PROVE rest[i] = s[i + 1]
  <2>1. i - m + 1 \in 1 .. Len(after) /\ i = Len(before) + (i - m + 1) /\ m + (i - m + 1) = i + 1
    <3>1. /\ Len(rest) = Len(before) + Len(after) /\ Len(before) = m - 1
          /\ Len(after) = Len(s) - m /\ Len(s) \in Nat /\ m \in Nat
      BY <1>1, <1>3
    <3>2. i \in Nat /\ m =< i /\ i =< Len(rest)
      BY <1>5, <3>1
    <3>. QED  BY <3>1, <3>2
  <2>. DEFINE k == i - m + 1
  <2>2. k \in 1 .. Len(after) /\ k \in 1 .. Len(s) - m
    BY <1>1, <2>1
  <2>3. rest[i] = after[k]
    BY <1>3, <2>1, <2>2
  <2>. QED  BY <1>1, <2>1, <2>2, <2>3
<1>. QED  BY <1>1, <1>3, <1>4, <1>5 DEF rest

\* session.merge puts an entry in the place of that with its key.
LEMMA MergedEntries ==
  ASSUME NEW E, NEW s \in Seq(E), KeyedOnce(s), NEW entry \in E
  PROVE  /\ Merged(s, entry) \in Seq(E) /\ KeyedOnce(Merged(s, entry))
         /\ ToSet(Merged(s, entry)) = {e \in ToSet(s) : e.key # entry.key} \union {entry}
<1>. DEFINE same == {i \in DOMAIN s : s[i].key = entry.key}
            kept == IF same = {} THEN s ELSE RemoveAt(s, Min(same))
<1>0. DOMAIN s = 1 .. Len(s) /\ Len(s) \in Nat
  OBVIOUS
<1>1. /\ kept \in Seq(E) /\ KeyedOnce(kept)
      /\ ToSet(kept) = {e \in ToSet(s) : e.key # entry.key}
  <2>1. CASE same = {}
    <3>1. \A e \in ToSet(s) : e.key # entry.key
      BY <1>0, <2>1, Elements
    <3>. QED  BY <2>1, <3>1
  <2>2. CASE same # {}
    <3>1. PICK m \in same : m = Min(same)
      <4>1. same \in SUBSET Nat
        BY <1>0
      <4>. QED  BY <2>2, <4>1, MinLeast
    <3>. DEFINE rest == RemoveAt(s, m)
    <3>2. m \in 1 .. Len(s) /\ s[m].key = entry.key
      BY <1>0
    <3>3. /\ rest \in Seq(E) /\ Len(rest) = Len(s) - 1
          /\ \A i \in 1 .. Len(rest) : rest[i] = IF i < m THEN s[i] ELSE s[i + 1]
      BY <3>2, RemovedAt
    <3>4. kept = rest
      BY <2>2, <3>1
    <3>. HIDE DEF rest, same, kept
    <3>5. KeyedOnce(rest)
      <4>. SUFFICES ASSUME NEW a \in 1 .. Len(rest), NEW b \in 1 .. Len(rest), rest[a].key = rest[b].key
                    PROVE  a = b
        BY DEF KeyedOnce
      <4>. DEFINE Was(i) == IF i < m THEN i ELSE i + 1
      <4>1. Was(a) \in 1 .. Len(s) /\ Was(b) \in 1 .. Len(s)
        BY <3>3, <3>2, <1>0
      <4>2. s[Was(a)].key = s[Was(b)].key
        BY <3>3
      <4>. HIDE DEF Was
      <4>3. Was(a) = Was(b)
        BY <4>1, <4>2 DEF KeyedOnce
      <4>. QED  BY <3>2, <4>3 DEF Was
    <3>6. ASSUME NEW e \in ToSet(rest) PROVE e \in ToSet(s) /\ e.key # entry.key
      <4>1. PICK i \in 1 .. Len(rest) : rest[i] = e
        BY <3>3, Elements
      <4>. DEFINE k == IF i < m THEN i ELSE i + 1
      <4>2. k \in 1 .. Len(s) /\ s[k] = e /\ k # m
        BY <4>1, <3>3, <3>2, <1>0
      <4>. QED  BY <4>2, <3>2, Elements DEF KeyedOnce
    <3>7. ASSUME NEW e \in ToSet(s), e.key # entry.key PROVE e \in ToSet(rest)
      <4>1. PICK k \in 1 .. Len(s) : s[k] = e
        BY Elements
      <4>. DEFINE i == IF k < m THEN k ELSE k - 1
      <4>2. k # m
        BY <3>2, <3>7, <4>1
      <4>3. i \in 1 .. Len(rest) /\ rest[i] = e
        BY <4>1, <4>2, <3>3, <3>2, <1>0
      <4>. QED  BY <4>3, <3>3, Elements
    <3>. QED  BY <3>3, <3>4, <3>5, <3>6, <3>7
  <2>. QED  BY <2>1, <2>2
<1>2. Merged(s, entry) = Append(kept, entry)
  BY DEF Merged
<1>. HIDE DEF kept, same
<1>3. /\ Append(kept, entry) \in Seq(E) /\ Len(Append(kept, entry)) = Len(kept) + 1 /\ Len(kept) \in Nat
      /\ Append(kept, entry)[Len(kept) + 1] = entry
      /\ \A i \in 1 .. Len(kept) : Append(kept, entry)[i] = kept[i]
  BY <1>1, Appended
<1>4. \A i \in 1 .. Len(kept) : kept[i] \in ToSet(kept) /\ kept[i].key # entry.key
  BY <1>1, Elements
<1>. DEFINE all == Append(kept, entry)
<1>. HIDE DEF all
<1>a. /\ all \in Seq(E) /\ Len(all) = Len(kept) + 1 /\ Len(kept) \in Nat
      /\ all[Len(kept) + 1] = entry
      /\ \A i \in 1 .. Len(kept) : all[i] = kept[i]
  BY <1>3 DEF all
<1>5. KeyedOnce(all)
  <2>. SUFFICES ASSUME NEW a \in 1 .. Len(all), NEW b \in 1 .. Len(all), all[a].key = all[b].key
                PROVE  a = b
    BY DEF KeyedOnce
  <2>1. CASE a \in 1 .. Len(kept) /\ b \in 1 .. Len(kept)
    BY <1>1, <1>a, <2>1 DEF KeyedOnce
  <2>2. CASE a = Len(kept) + 1 /\ b = Len(kept) + 1
    BY <2>2
  <2>3. CASE a \in 1 .. Len(kept) /\ b = Len(kept) + 1
    BY <1>4, <1>a, <2>3
  <2>4. CASE b \in 1 .. Len(kept) /\ a = Len(kept) + 1
    BY <1>4, <1>a, <2>4
  <2>. QED  BY <1>a, <2>1, <2>2, <2>3, <2>4
<1>6. ToSet(all) = ToSet(kept) \union {entry}
  <2>1. ASSUME NEW e \in ToSet(all) PROVE e \in ToSet(kept) \union {entry}
    <3>1. PICK i \in 1 .. Len(all) : all[i] = e
      BY <1>a, Elements
    <3>2. CASE i = Len(kept) + 1
      BY <3>1, <3>2, <1>a
    <3>3. CASE i \in 1 .. Len(kept)
      BY <3>1, <3>3, <1>a, <1>4
    <3>. QED  BY <1>a, <3>2, <3>3
  <2>2. ASSUME NEW e \in ToSet(kept) PROVE e \in ToSet(all)
    <3>1. PICK i \in 1 .. Len(kept) : kept[i] = e
      BY <1>1, Elements
    <3>2. i \in 1 .. Len(all) /\ all[i] = e
      BY <3>1, <1>3 DEF all
    <3>. QED  BY <3>2, <1>3, Elements DEF all
  <2>3. entry \in ToSet(all)
    <3>1. Len(kept) + 1 \in 1 .. Len(all) /\ all[Len(kept) + 1] = entry
      BY <1>3 DEF all
    <3>. QED  BY <3>1, <1>3, Elements DEF all
  <2>. QED  BY <2>1, <2>2, <2>3
<1>. QED  BY <1>1, <1>2, <1>3, <1>5, <1>6 DEF all

Stored(S) == {e \in S : e.stored}

\* What InUse counts.
LEMMA InUseFacts ==
  ASSUME NEW E, NEW s \in Seq(E), NEW left \in Nat
  PROVE  /\ IsFiniteSet(Stored(ToSet(s))) /\ Cardinality(Stored(ToSet(s))) \in Nat
         /\ InUse(s, left) = Cardinality(Stored(ToSet(s))) + left
<1>1. IsFiniteSet(Stored(ToSet(s)))
  BY Elements, FS_Subset DEF Stored
<1>. QED  BY <1>1, FS_CardinalityType DEF InUse, Stored

\* Room is made: what is left are entries there were, and one more result fits.
LEMMA MadeRoomFacts ==
  ASSUME NEW E, NEW s \in Seq(E), KeyedOnce(s), NEW left \in Nat
  PROVE  LET room == MadeRoom(s, left)
         IN  /\ room.entries \in Seq(E) /\ KeyedOnce(room.entries)
             /\ ToSet(room.entries) \subseteq ToSet(s)
             /\ room.left \in Nat /\ room.left =< left
             /\ InUse(room.entries, room.left) + 1 =< Capacity
<1>. DEFINE Fits(i) == InUse(SubSeq(s, i, Len(s)), left) + 1 =< Capacity
            fitting == {i \in 1 .. Len(s) + 1 : Fits(i)}
            room == MadeRoom(s, left)
<1>0. Len(s) \in Nat
  OBVIOUS
<1>1. CASE fitting = {}
  <2>1. room = [entries |-> <<>>, left |-> 0]
    BY <1>1 DEF MadeRoom
  <2>2. <<>> \in Seq(E) /\ Len(<<>>) = 0
    OBVIOUS
  <2>3. ToSet(<<>>) = {}
    BY <2>2 DEF ToSet
  <2>4. InUse(<<>>, 0) = 0
    <3>1. Stored(ToSet(<<>>)) = {}
      BY <2>3 DEF Stored
    <3>2. InUse(<<>>, 0) = Cardinality({}) + 0
      BY <3>1 DEF InUse, Stored
    <3>. QED  BY <3>2, FS_EmptySet
  <2>5. KeyedOnce(<<>>)
    BY <2>2 DEF KeyedOnce
  <2>. QED  BY <2>1, <2>2, <2>3, <2>4, <2>5, GraphAssumption
<1>2. CASE fitting # {}
  <2>1. PICK i \in fitting : i = Min(fitting)
    <3>1. fitting \in SUBSET Nat
      BY <1>0
    <3>. QED  BY <1>2, <3>1, MinLeast
  <2>2. room = [entries |-> SubSeq(s, i, Len(s)), left |-> left]
    BY <1>2, <2>1 DEF MadeRoom
  <2>3. i \in 1 .. Len(s) + 1 /\ Fits(i)
    BY <2>1
  <2>. QED  BY <2>2, <2>3, RestOfEntries
<1>. QED  BY <1>1, <1>2
-----------------------------------------------------------------------------
(* Types: of the state over the outputs that were ever made.                *)

Phases == {"none", "fingerprint", "prune", "run", "store", "enter", "done", "died"}
Inactive == {"none", "done", "died"}

\* An entry has the output of one run with its key.
EntryOver(O) ==
  {e \in [key : [node : Nodes, setting : Nat, inputs : UNION {[S -> O] : S \in SUBSET Nodes}],
          output : O \ {NoOutput}, stored : BOOLEAN] :
     /\ e.key.inputs \in InputsOver(e.key.node, O)
     /\ \E run \in Jobs : e.output = Output(e.key.node, e.key.setting, e.key.inputs, run)}

\* The outputs a training holds are those of their nodes.
JobOver(O) ==
  {job \in [phase : Phases, at : 0 .. Len(Order) + 1, version : [Nodes -> Nat],
            print : [Nodes -> O], hits : SUBSET Nodes, needed : SUBSET Nodes,
            value : [Nodes -> O], relost : BOOLEAN] :
     \A n \in Nodes : /\ job.print[n] # NoOutput => job.print[n].content.node = n
                      /\ job.value[n] # NoOutput => job.value[n].content.node = n}

Typed(O) ==
  /\ Universe(O)
  /\ cache \in Seq(EntryOver(O)) /\ KeyedOnce(cache)
  /\ jobs \in [Jobs -> JobOver(O)]
  /\ orphans \in Nat /\ faults \in Nat

\* More outputs, more of everything.
LEMMA OverMore ==
  ASSUME NEW O, NEW P, O \subseteq P
  PROVE  /\ \A n : InputsOver(n, O) \subseteq InputsOver(n, P)
         /\ EntryOver(O) \subseteq EntryOver(P)
         /\ JobOver(O) \subseteq JobOver(P)
         /\ Seq(EntryOver(O)) \subseteq Seq(EntryOver(P))
<1>1. \A n : InputsOver(n, O) \subseteq InputsOver(n, P)
  BY DEF InputsOver
<1>2. ASSUME NEW e \in EntryOver(O) PROVE e \in EntryOver(P)
  <2>1. UNION {[S -> O] : S \in SUBSET Nodes} \subseteq UNION {[S -> P] : S \in SUBSET Nodes}
    <3>1. \A S \in SUBSET Nodes : [S -> O] \subseteq [S -> P]
      OBVIOUS
    <3>. QED  BY <3>1
  <2>2. e \in [key : [node : Nodes, setting : Nat, inputs : UNION {[S -> P] : S \in SUBSET Nodes}],
               output : P \ {NoOutput}, stored : BOOLEAN]
    BY <2>1 DEF EntryOver
  <2>. QED  BY <1>1, <2>2 DEF EntryOver
<1>3. ASSUME NEW job \in JobOver(O) PROVE job \in JobOver(P)
  <2>1. job \in [phase : Phases, at : 0 .. Len(Order) + 1, version : [Nodes -> Nat],
                 print : [Nodes -> P], hits : SUBSET Nodes, needed : SUBSET Nodes,
                 value : [Nodes -> P], relost : BOOLEAN]
    BY DEF JobOver
  <2>. QED  BY <2>1 DEF JobOver
<1>4. Seq(EntryOver(O)) \subseteq Seq(EntryOver(P))
  BY <1>2
<1>. QED  BY <1>1, <1>2, <1>3, <1>4

\* The fields of an entry.
LEMMA EntryFacts ==
  ASSUME NEW O, NEW e \in EntryOver(O)
  PROVE  /\ e.key.node \in Nodes /\ e.key.setting \in Nat /\ e.stored \in BOOLEAN
         /\ e.key.inputs \in InputsOver(e.key.node, O)
         /\ e.output \in O /\ e.output # NoOutput
         /\ \E run \in Jobs : e.output = Output(e.key.node, e.key.setting, e.key.inputs, run)
         /\ e.output.content.node = e.key.node
BY OutputFields DEF EntryOver

LEMMA JobFacts ==
  ASSUME NEW O, NEW job \in JobOver(O)
  PROVE  /\ job.phase \in Phases /\ job.at \in 0 .. Len(Order) + 1 /\ job.version \in [Nodes -> Nat]
         /\ job.print \in [Nodes -> O] /\ job.value \in [Nodes -> O]
         /\ job.hits \in SUBSET Nodes /\ job.needed \in SUBSET Nodes /\ job.relost \in BOOLEAN
         /\ \A n \in Nodes : /\ job.print[n] # NoOutput => job.print[n].content.node = n
                             /\ job.value[n] # NoOutput => job.value[n].content.node = n
BY DEF JobOver

LEMMA NoJobType ==
  ASSUME NEW O, NoOutput \in O
  PROVE  NoJob \in JobOver(O)
BY DEF NoJob, JobOver, Phases

\* The next node to run.
LEMMA ToRunFacts ==
  ASSUME NEW O, NEW job \in JobOver(O), NEW i \in 0 .. Len(Order)
  PROVE  LET next == ToRun(job, i)
         IN  /\ next = [job EXCEPT !.phase = "run", !.at = next.at]
             /\ next.at \in i + 1 .. Len(Order) + 1
             /\ next.at =< Len(Order) =>
                  Order[next.at] \in job.needed /\ job.value[Order[next.at]] = NoOutput
             /\ \A n \in job.needed : i < Pos(n) /\ Pos(n) < next.at => job.value[n] # NoOutput
<1>. DEFINE left == {k \in i + 1 .. Len(Order) : Order[k] \in job.needed /\ job.value[Order[k]] = NoOutput}
            all == left \union {Len(Order) + 1}
            next == ToRun(job, i)
<1>0. Len(Order) \in Nat /\ job.needed \subseteq Nodes
  BY PosFacts, JobFacts
<1>1. Min(all) \in all /\ \A k \in all : Min(all) =< k
  <2>1. all \in SUBSET Nat /\ all # {}
    BY <1>0
  <2>. QED  BY <2>1, MinLeast
<1>2. next = [job EXCEPT !.phase = "run", !.at = Min(all)]
  BY DEF ToRun
<1>3. next.at = Min(all)
  BY <1>2 DEF JobOver
<1>4. ASSUME NEW n \in job.needed, i < Pos(n), Pos(n) < next.at PROVE job.value[n] # NoOutput
  <2>1. Pos(n) \in i + 1 .. Len(Order) /\ Order[Pos(n)] = n
    BY <1>0, <1>4, PosFacts
  <2>. QED  BY <1>0, <1>1, <1>3, <1>4, <2>1
<1>5. next.at \in i + 1 .. Len(Order) + 1
  BY <1>0, <1>1, <1>3
<1>6. next.at =< Len(Order) => Order[next.at] \in job.needed /\ job.value[Order[next.at]] = NoOutput
  BY <1>0, <1>1, <1>3
<1>. QED  BY <1>2, <1>3, <1>4, <1>5, <1>6
-----------------------------------------------------------------------------
(* What the actions do to a training and to the cache.                      *)

Printed(job, n) == job.print[n] # NoOutput
Valued(job, n) == job.value[n] # NoOutput

\* A step of training j: the others stay as they are.
LEMMA Others ==
  ASSUME NEW O, jobs \in [Jobs -> JobOver(O)], NEW j \in Jobs, NEW next, jobs' = [jobs EXCEPT ![j] = next]
  PROVE  jobs'[j] = next /\ \A i \in Jobs \ {j} : jobs'[i] = jobs[i]
BY DEF Jobs

LEMMA StartFacts ==
  ASSUME NEW O, Typed(O), NEW j \in Jobs, NEW version \in Versions,
         Start(j, version, TRUE) \/ Start(j, version, FALSE)
  PROVE  LET next == jobs'[j]
         IN  /\ jobs[j].phase = "none"
             /\ jobs' = [jobs EXCEPT ![j] = next] /\ next \in JobOver(O)
             /\ \/ /\ next.phase = "run" /\ next.needed = Nodes /\ "forced" \in causes'
                \/ next.phase = "fingerprint" /\ next.needed = Targets
             /\ next.at = 1 /\ next.version = version /\ next.hits = {} /\ ~next.relost
             /\ next.print = [n \in Nodes |-> NoOutput] /\ next.value = [n \in Nodes |-> NoOutput]
             /\ causes \subseteq causes' /\ "parted" \in causes' => "parted" \in causes
             /\ "overlap" \notin causes' => Running = {}
<1>. DEFINE Begun(phase, needed) ==
              [NoJob EXCEPT !.phase = phase, !.at = 1, !.version = version, !.needed = needed]
<1>1. NoOutput \in O /\ NoJob \in JobOver(O)
  BY NoJobType DEF Typed, Universe
<1>2. version \in [Nodes -> Nat] /\ 1 \in 0 .. Len(Order) + 1
  BY GraphAssumption, PosFacts
<1>. HIDE DEF Begun
<1>3. "run" \in Phases /\ "fingerprint" \in Phases /\ Nodes \in SUBSET Nodes /\ Targets \in SUBSET Nodes
  BY GraphAssumption DEF Phases
<1>4. CASE Start(j, version, TRUE)
  <2>1. /\ jobs[j].phase = "none" /\ jobs' = [jobs EXCEPT ![j] = Begun("run", Nodes)]
        /\ causes' = causes \union {"forced"} \union (IF Running # {} THEN {"overlap"} ELSE {})
    BY <1>4 DEF Start, Begun
  <2>. DEFINE new == Begun("run", Nodes)
  <2>2. jobs'[j] = new
    BY <2>1 DEF Typed
  <2>3. /\ new \in JobOver(O) /\ new.phase = "run" /\ new.needed = Nodes
        /\ new.at = 1 /\ new.version = version /\ new.hits = {} /\ ~new.relost
        /\ new.print = [n \in Nodes |-> NoOutput] /\ new.value = [n \in Nodes |-> NoOutput]
    BY <1>1, <1>2, <1>3 DEF Begun, NoJob, JobOver
  <2>4. jobs' = [jobs EXCEPT ![j] = new]
    BY <2>1
  <2>. HIDE DEF new
  <2>. QED  BY <2>1, <2>2, <2>3, <2>4
<1>5. CASE Start(j, version, FALSE)
  <2>1. /\ jobs[j].phase = "none" /\ jobs' = [jobs EXCEPT ![j] = Begun("fingerprint", Targets)]
        /\ causes' = causes \union (IF Running # {} THEN {"overlap"} ELSE {})
    BY <1>5 DEF Start, Begun
  <2>. DEFINE new == Begun("fingerprint", Targets)
  <2>2. jobs'[j] = new
    BY <2>1 DEF Typed
  <2>3. /\ new \in JobOver(O) /\ new.phase = "fingerprint" /\ new.needed = Targets
        /\ new.at = 1 /\ new.version = version /\ new.hits = {} /\ ~new.relost
        /\ new.print = [n \in Nodes |-> NoOutput] /\ new.value = [n \in Nodes |-> NoOutput]
    BY <1>1, <1>2, <1>3 DEF Begun, NoJob, JobOver
  <2>4. jobs' = [jobs EXCEPT ![j] = new]
    BY <2>1
  <2>. HIDE DEF new
  <2>. QED  BY <2>1, <2>2, <2>3, <2>4
<1>. QED  BY <1>4, <1>5

LEMMA NodeFacts ==
  ASSUME NEW O, Typed(O), NEW j \in Jobs, jobs[j].at \in 1 .. Len(Order)
  PROVE  /\ Node(j) \in Nodes /\ Pos(Node(j)) = jobs[j].at /\ Order[jobs[j].at] = Node(j)
         /\ jobs[j] \in JobOver(O)
         /\ \A p \in Needs[Node(j)] : p \in Nodes /\ Pos(p) < Pos(Node(j))
BY PosFacts DEF Node, Typed

\* In the fingerprint run.
LEMMA FingerprintFacts ==
  ASSUME NEW O, Typed(O), NEW j \in Jobs, Fingerprint(j)
  PROVE  LET job == jobs[j]
             next == jobs'[j]
             n == Node(j)
             read == Output(n, job.version[n], <<>>, 0)
         IN  /\ job.phase = "fingerprint" /\ job.at \in 1 .. Len(Order)
             /\ next.phase = (IF job.at = Len(Order) THEN "prune" ELSE "fingerprint")
             /\ next.at = (IF job.at = Len(Order) THEN job.at ELSE job.at + 1)
             /\ next.version = job.version /\ next.needed = job.needed /\ next.relost = job.relost
             /\ jobs' = [jobs EXCEPT ![j] = next]
             /\ \/ /\ n \in Inputs /\ cache' = cache
                   /\ next.print = [job.print EXCEPT ![n] = read]
                   /\ next.value = [job.value EXCEPT ![n] = read]
                   /\ next.hits = job.hits
                   /\ Universe(O \union {read}) /\ next \in JobOver(O \union {read})
                \/ /\ n \notin Inputs /\ cache' = cache
                   /\ \A e \in Entries : e.key # Key(n, job.version[n], InputsOf(n, job.print))
                   /\ next.print = job.print /\ next.value = job.value /\ next.hits = job.hits
                   /\ next \in JobOver(O)
                \/ /\ n \notin Inputs
                   /\ \E e \in Entries :
                        /\ e.key = Key(n, job.version[n], InputsOf(n, job.print))
                        /\ next.print = [job.print EXCEPT ![n] = e.output]
                        /\ cache' = Merged(cache, e)
                   /\ next.value = job.value /\ next.hits = job.hits \union {n}
                   /\ next \in JobOver(O)
<1>. DEFINE job == jobs[j]
            n == Node(j)
            last == job.at = Len(Order)
            next == [job EXCEPT !.phase = IF last THEN "prune" ELSE @, !.at = IF last THEN @ ELSE @ + 1]
            read == Output(n, job.version[n], <<>>, 0)
            key == Key(n, job.version[n], InputsOf(n, job.print))
            found == WithKey(cache, key)
<1>1. job.phase = "fingerprint" /\ job.at \in 1 .. Len(Order)
  BY PosFacts DEF Fingerprint, At
<1>2. n \in Nodes /\ job \in JobOver(O)
  BY <1>1, NodeFacts
<1>3. /\ next \in JobOver(O)
      /\ next.phase = (IF job.at = Len(Order) THEN "prune" ELSE "fingerprint")
      /\ next.at = (IF job.at = Len(Order) THEN job.at ELSE job.at + 1)
      /\ next.version = job.version /\ next.needed = job.needed /\ next.relost = job.relost
      /\ next.print = job.print /\ next.value = job.value /\ next.hits = job.hits
  <2>. DEFINE phase == IF last THEN "prune" ELSE "fingerprint"
              k == IF last THEN job.at ELSE job.at + 1
  <2>1. phase \in Phases /\ k \in 0 .. Len(Order) + 1
    BY <1>1, PosFacts DEF Phases
  <2>2. next = [job EXCEPT !.phase = phase, !.at = k]
    BY <1>1, <1>2 DEF JobOver
  <2>. HIDE DEF next, phase, k
  <2>3. /\ next \in JobOver(O) /\ next.phase = phase /\ next.at = k
        /\ next.version = job.version /\ next.needed = job.needed /\ next.relost = job.relost
        /\ next.print = job.print /\ next.value = job.value /\ next.hits = job.hits
    BY <1>2, <2>1, <2>2 DEF JobOver
  <2>. QED  BY <2>3 DEF phase, k
<1>. HIDE DEF next
<1>4. CASE n \in Inputs
  <2>. DEFINE new == [next EXCEPT !.print[n] = read, !.value[n] = read]
              P == O \union {read}
  <2>1. jobs' = [jobs EXCEPT ![j] = new] /\ cache' = cache
    BY <1>4 DEF Fingerprint, next
  <2>2. Universe(P) /\ read.content.node = n
    <3>1. Needs[n] = {} /\ job.version[n] \in Nat /\ <<>> \in [{} -> O \ {NoOutput}]
      BY <1>2, <1>4, GraphAssumption, JobFacts
    <3>2. <<>> \in InputsOver(n, O) /\ 0 \in 0 .. MaxTrainings
      BY <3>1, GraphAssumption DEF InputsOver
    <3>. QED  BY <1>2, <1>4, <3>1, <3>2, UniverseGrows, OutputFields DEF Typed
  <2>. HIDE DEF read
  <2>3. next \in JobOver(P)
    <3>1. O \subseteq P
      OBVIOUS
    <3>. HIDE DEF P
    <3>. QED  BY <1>3, <3>1, OverMore
  <2>4. new \in JobOver(P)
    BY <1>2, <2>2, <2>3 DEF JobOver
  <2>5. /\ new.phase = next.phase /\ new.at = next.at
        /\ new.version = next.version /\ new.needed = next.needed /\ new.relost = next.relost
        /\ new.print = [next.print EXCEPT ![n] = read] /\ new.value = [next.value EXCEPT ![n] = read]
        /\ new.hits = next.hits
    BY <2>3 DEF JobOver
  <2>. HIDE DEF new, P, n
  <2>6. jobs'[j] = new
    BY <2>1 DEF Typed
  <2>. QED  BY <1>1, <1>3, <1>4, <2>1, <2>2, <2>4, <2>5, <2>6 DEF P, read, n
<1>5. CASE n \notin Inputs /\ found = {}
  <2>1. jobs' = [jobs EXCEPT ![j] = next] /\ cache' = cache
    BY <1>5 DEF Fingerprint, next
  <2>2. jobs'[j] = next
    BY <2>1 DEF Typed
  <2>3. \A e \in Entries : e.key # key
    BY <1>5 DEF WithKey, Entries
  <2>. QED  BY <1>1, <1>3, <1>5, <2>1, <2>2, <2>3
<1>6. CASE n \notin Inputs /\ found # {}
  <2>1. PICK e \in found : /\ jobs' = [jobs EXCEPT ![j] = [next EXCEPT !.print[n] = e.output, !.hits = @ \union {n}]]
                           /\ cache' = Merged(cache, e)
    BY <1>6 DEF Fingerprint, next
  <2>. DEFINE new == [next EXCEPT !.print[n] = e.output, !.hits = @ \union {n}]
  <2>2. e \in Entries /\ e \in EntryOver(O) /\ e.key = key
    BY Elements DEF WithKey, Entries, Typed
  <2>3. e.output \in O /\ e.output.content.node = n
    BY <2>2, EntryFacts DEF Key
  <2>4. new \in JobOver(O)
    BY <1>2, <1>3, <2>3 DEF JobOver
  <2>5. /\ new.phase = next.phase /\ new.at = next.at
        /\ new.version = next.version /\ new.needed = next.needed /\ new.relost = next.relost
        /\ new.print = [next.print EXCEPT ![n] = e.output] /\ new.value = next.value
        /\ new.hits = next.hits \union {n}
    BY <1>3 DEF JobOver
  <2>. HIDE DEF new
  <2>6. jobs'[j] = new /\ jobs' = [jobs EXCEPT ![j] = new]
    BY <2>1 DEF Typed, new
  <2>. QED  BY <1>1, <1>3, <1>6, <2>1, <2>2, <2>4, <2>5, <2>6
<1>. QED  BY <1>4, <1>5, <1>6
\* Where a training goes on: at a node that is to be run, or at the end.
NextToRun(next, i) ==
  /\ next.phase = "run" /\ next.at \in i + 1 .. Len(Order) + 1
  /\ next.at =< Len(Order) => Order[next.at] \in next.needed /\ ~Valued(next, Order[next.at])
  /\ \A n \in next.needed : i < Pos(n) /\ Pos(n) < next.at => Valued(next, n)

LEMMA ToRunGoesOn ==
  ASSUME NEW O, NEW job \in JobOver(O), NEW i \in 0 .. Len(Order), NEW next, next = ToRun(job, i)
  PROVE  /\ next \in JobOver(O) /\ NextToRun(next, i)
         /\ next.version = job.version /\ next.needed = job.needed /\ next.relost = job.relost
         /\ next.print = job.print /\ next.value = job.value /\ next.hits = job.hits
<1>1. /\ next = [job EXCEPT !.phase = "run", !.at = next.at]
      /\ next.at \in i + 1 .. Len(Order) + 1
      /\ next.at =< Len(Order) => Order[next.at] \in job.needed /\ job.value[Order[next.at]] = NoOutput
      /\ \A n \in job.needed : i < Pos(n) /\ Pos(n) < next.at => job.value[n] # NoOutput
  BY ToRunFacts
<1>2. next.at \in 0 .. Len(Order) + 1 /\ "run" \in Phases
  BY <1>1, PosFacts DEF Phases
<1>3. /\ next \in JobOver(O) /\ next.phase = "run"
      /\ next.version = job.version /\ next.needed = job.needed /\ next.relost = job.relost
      /\ next.print = job.print /\ next.value = job.value /\ next.hits = job.hits
  <2>1. PICK k \in 0 .. Len(Order) + 1 : next = [job EXCEPT !.phase = "run", !.at = k]
    BY <1>1, <1>2
  <2>2. job = [phase |-> job.phase, at |-> job.at, version |-> job.version, print |-> job.print,
               hits |-> job.hits, needed |-> job.needed, value |-> job.value, relost |-> job.relost]
    BY DEF JobOver
  <2>3. next = [phase |-> "run", at |-> k, version |-> job.version, print |-> job.print,
                hits |-> job.hits, needed |-> job.needed, value |-> job.value, relost |-> job.relost]
    BY <2>1, <2>2
  <2>4. "run" \in Phases
    BY <1>2
  <2>. QED  BY <2>3, <2>4, JobFacts DEF JobOver
<1>. QED  BY <1>1, <1>3 DEF NextToRun, Valued

\* What a run leaves in the cache.
LEMMA RunCache ==
  ASSUME NEW O, Typed(O), NEW j \in Jobs, NEW fails \in BOOLEAN, Run(j, fails)
  PROVE  /\ cache' \in Seq(EntryOver(O)) /\ KeyedOnce(cache') /\ ToSet(cache') \subseteq Entries
         /\ orphans' \in Nat /\ orphans' =< orphans
<1>. DEFINE fits == Node(j) \in Cacheable \ TooLarge /\ ~fails
            room == MadeRoom(cache, orphans)
<1>1. IF fits THEN cache' = room.entries /\ orphans' = room.left
      ELSE cache' = cache /\ orphans' = orphans
  BY DEF Run
<1>2. /\ room.entries \in Seq(EntryOver(O)) /\ KeyedOnce(room.entries)
      /\ ToSet(room.entries) \subseteq ToSet(cache)
      /\ room.left \in Nat /\ room.left =< orphans
  BY MadeRoomFacts DEF Typed
<1>. HIDE DEF fits, room
<1>3. CASE fits
  BY <1>1, <1>2, <1>3 DEF Entries
<1>4. CASE ~fits
  <2>1. cache' = cache /\ orphans' = orphans
    BY <1>1, <1>4
  <2>2. cache \in Seq(EntryOver(O)) /\ KeyedOnce(cache) /\ ToSet(cache) \subseteq Entries
        /\ orphans \in Nat /\ orphans =< orphans
    BY DEF Typed, Entries
  <2>. QED  BY <2>1, <2>2
<1>. QED  BY <1>3, <1>4

\* Pruning goes down to the first node, then the nodes left are run.
LEMMA PruneFacts ==
  ASSUME NEW O, Typed(O), NEW j \in Jobs, Prune(j)
  PROVE  LET job == jobs[j]
             next == jobs'[j]
             n == Node(j)
         IN  /\ job.phase = "prune" /\ job.at \in 1 .. Len(Order)
             /\ jobs' = [jobs EXCEPT ![j] = next] /\ next \in JobOver(O)
             /\ next.version = job.version /\ next.print = job.print /\ next.hits = job.hits
             /\ IF job.at = 1 THEN NextToRun(next, 0) ELSE next.phase = "prune" /\ next.at = job.at - 1
             /\ \/ /\ n \notin job.needed \/ n \in Inputs
                   /\ next.needed = job.needed /\ next.value = job.value /\ next.relost = job.relost
                \/ /\ n \in job.needed /\ n \notin Inputs /\ n \in job.hits /\ Restorable(job.print[n])
                   /\ next.value = [job.value EXCEPT ![n] = job.print[n]]
                   /\ next.needed = job.needed /\ next.relost = job.relost
                \/ /\ n \in job.needed /\ n \notin Inputs
                   /\ n \in job.hits /\ Restorable(job.print[n]) => "fault" \in causes'
                   /\ next.needed = job.needed \union Needs[n] /\ next.value = job.value
                   /\ next.relost = (job.relost \/ n \in job.hits \intersect Random)
<1>. DEFINE job == jobs[j]
            n == Node(j)
            rerun == [job EXCEPT !.needed = @ \union Needs[n], !.relost = @ \/ n \in job.hits \intersect Random]
            restored == [job EXCEPT !.value[n] = job.print[n]]
            Went(mid) == IF job.at = 1 THEN ToRun(mid, 0) ELSE [mid EXCEPT !.at = @ - 1]
            Moves(mid) == jobs' = [jobs EXCEPT ![j] = Went(mid)]
<1>1. job.phase = "prune" /\ job.at \in 1 .. Len(Order)
  BY PosFacts DEF Prune, At
<1>2. n \in Nodes /\ job \in JobOver(O) /\ Needs[n] \subseteq Nodes
  BY <1>1, NodeFacts, GraphAssumption
<1>3. ASSUME NEW mid \in JobOver(O), mid.phase = "prune", mid.at = job.at, Moves(mid)
      PROVE  LET next == jobs'[j]
             IN  /\ jobs' = [jobs EXCEPT ![j] = next] /\ next \in JobOver(O)
                 /\ next.version = mid.version /\ next.print = mid.print /\ next.hits = mid.hits
                 /\ next.needed = mid.needed /\ next.value = mid.value /\ next.relost = mid.relost
                 /\ IF job.at = 1 THEN NextToRun(next, 0) ELSE next.phase = "prune" /\ next.at = job.at - 1
  <2>. DEFINE next == Went(mid)
  <2>1. jobs'[j] = next /\ jobs' = [jobs EXCEPT ![j] = next]
    BY <1>3 DEF Typed
  <2>2. CASE job.at = 1
    <3>1. next = ToRun(mid, 0) /\ 0 \in 0 .. Len(Order)
      BY <2>2, PosFacts
    <3>. HIDE DEF next
    <3>2. /\ next \in JobOver(O) /\ NextToRun(next, 0)
          /\ next.version = mid.version /\ next.needed = mid.needed /\ next.relost = mid.relost
          /\ next.print = mid.print /\ next.value = mid.value /\ next.hits = mid.hits
      BY <3>1, ToRunGoesOn
    <3>. QED  BY <2>1, <2>2, <3>2
  <2>3. CASE job.at # 1
    <3>1. next = [mid EXCEPT !.at = mid.at - 1] /\ job.at - 1 \in 0 .. Len(Order) + 1 /\ mid.at = job.at
      BY <1>1, <1>3, <2>3, PosFacts
    <3>. HIDE DEF next
    <3>2. /\ next \in JobOver(O) /\ next.phase = mid.phase /\ next.at = job.at - 1
          /\ next.version = mid.version /\ next.needed = mid.needed /\ next.relost = mid.relost
          /\ next.print = mid.print /\ next.value = mid.value /\ next.hits = mid.hits
      BY <3>1 DEF JobOver
    <3>. QED  BY <1>3, <2>1, <2>3, <3>2
  <2>. QED  BY <2>2, <2>3
<1>4. /\ rerun \in JobOver(O) /\ rerun.phase = job.phase /\ rerun.at = job.at
      /\ rerun.version = job.version /\ rerun.print = job.print /\ rerun.hits = job.hits
      /\ rerun.needed = job.needed \union Needs[n] /\ rerun.value = job.value
      /\ rerun.relost = (job.relost \/ n \in job.hits \intersect Random)
  BY <1>2 DEF JobOver
<1>5. /\ restored \in JobOver(O) /\ restored.phase = job.phase /\ restored.at = job.at
      /\ restored.version = job.version /\ restored.print = job.print /\ restored.hits = job.hits
      /\ restored.needed = job.needed /\ restored.relost = job.relost
      /\ restored.value = [job.value EXCEPT ![n] = job.print[n]]
  BY <1>2 DEF JobOver
<1>6. \/ (n \notin job.needed \/ n \in Inputs) /\ Moves(job)
      \/ n \in job.needed /\ n \notin Inputs /\ n \in job.hits /\ Restorable(job.print[n]) /\ Moves(restored)
      \/ /\ n \in job.needed /\ n \notin Inputs /\ Moves(rerun)
         /\ n \in job.hits /\ Restorable(job.print[n]) => faults < MaxFaults /\ faults' = faults + 1
  BY DEF Prune
<1>7. \/ (n \notin job.needed \/ n \in Inputs) /\ Moves(job)
      \/ n \in job.needed /\ n \notin Inputs /\ n \in job.hits /\ Restorable(job.print[n]) /\ Moves(restored)
      \/ /\ n \in job.needed /\ n \notin Inputs /\ Moves(rerun)
         /\ n \in job.hits /\ Restorable(job.print[n]) => "fault" \in causes'
  <2>1. faults \in Nat /\ faults' = faults + 1 => "fault" \in causes'
    <3>1. faults \in Nat /\ faults' = faults + 1 => faults' # faults
      OBVIOUS
    <3>. QED  BY <3>1 DEF Prune
  <2>. QED  BY <1>6, <2>1 DEF Typed
<1>. HIDE DEF rerun, restored, Moves
<1>8. CASE (n \notin job.needed \/ n \in Inputs) /\ Moves(job)
  BY <1>1, <1>2, <1>3, <1>8
<1>9. CASE n \in job.needed /\ n \notin Inputs /\ n \in job.hits /\ Restorable(job.print[n]) /\ Moves(restored)
  BY <1>1, <1>3, <1>5, <1>9
<1>10. CASE /\ n \in job.needed /\ n \notin Inputs /\ Moves(rerun)
            /\ n \in job.hits /\ Restorable(job.print[n]) => "fault" \in causes'
  BY <1>1, <1>3, <1>4, <1>10
<1>. QED  BY <1>7, <1>8, <1>9, <1>10
\* Running a node, on what its parents gave.
LEMMA RunFacts ==
  ASSUME NEW O, Typed(O), NEW j \in Jobs, NEW fails \in BOOLEAN, Run(j, fails),
         \A p \in Needs[Node(j)] : Valued(jobs[j], p)
  PROVE  LET job == jobs[j]
             next == jobs'[j]
             n == Node(j)
             made == Output(n, job.version[n], InputsOf(n, job.value), j)
         IN  /\ job.phase = "run" /\ job.at \in 1 .. Len(Order)
             /\ jobs' = [jobs EXCEPT ![j] = next]
             /\ next.at = job.at /\ next.version = job.version /\ next.needed = job.needed
             /\ next.relost = job.relost /\ next.print = job.print /\ next.hits = job.hits
             /\ next.value = [job.value EXCEPT ![n] = made]
             /\ Universe(O \union {made}) /\ next \in JobOver(O \union {made})
             /\ cache' \in Seq(EntryOver(O)) /\ KeyedOnce(cache') /\ ToSet(cache') \subseteq Entries
             /\ orphans' \in Nat /\ orphans' =< orphans /\ faults' \in Nat
             /\ \/ /\ next.phase = "store" /\ n \in Cacheable
                   /\ InUse(cache', orphans') + 1 =< Capacity
                   /\ cache' # cache => "evicted" \in causes'
                \/ /\ next.phase = "enter" /\ cache' = cache /\ orphans' = orphans
                   /\ n \in Cacheable => causes' \intersect {"fault", "too large"} # {}
             /\ causes \subseteq causes'
             /\ Parted(cache') => "parted" \in causes'
             /\ "parted" \in causes' => "parted" \in causes \/ Parted(cache')
<1>. DEFINE job == jobs[j]
            n == Node(j)
            f == InputsOf(n, job.value)
            made == Output(n, job.version[n], f, j)
            P == O \union {made}
            fits == n \in Cacheable \ TooLarge /\ ~fails
            room == MadeRoom(cache, orphans)
            phase == IF fits THEN "store" ELSE "enter"
            next == [job EXCEPT !.value[n] = made, !.phase = phase]
<1>1. job.phase = "run" /\ job.at \in 1 .. Len(Order)
  BY PosFacts DEF Run, At
<1>2. n \in Nodes /\ job \in JobOver(O) /\ \A p \in Needs[n] : p \in Nodes
  BY <1>1, NodeFacts
<1>3. f \in InputsOver(n, O)
  BY <1>2, JobFacts DEF InputsOver, InputsOf, Valued
<1>4. Universe(P) /\ made.content.node = n /\ made # NoOutput
  <2>1. job.version[n] \in Nat /\ j \in 0 .. MaxTrainings
    BY <1>2, JobFacts, GraphAssumption DEF Jobs
  <2>. HIDE DEF f
  <2>2. Universe(P)
    BY <1>2, <1>3, <2>1, UniverseGrows DEF Typed
  <2>. QED  BY <2>2, OutputFields
<1>5. jobs' = [jobs EXCEPT ![j] = next]
  <2>1. jobs' = [jobs EXCEPT ![j].value[n] = made, ![j].phase = phase]
    BY DEF Run
  <2>. QED  BY <2>1 DEF Typed
<1>. HIDE DEF made, phase
<1>6. job \in JobOver(P)
  <2>1. O \subseteq P
    OBVIOUS
  <2>. HIDE DEF P
  <2>. QED  BY <1>2, <2>1, OverMore
<1>7. phase \in Phases
  BY DEF phase, Phases
<1>8. /\ next \in JobOver(P) /\ next.phase = phase
      /\ next.at = job.at /\ next.version = job.version /\ next.needed = job.needed
      /\ next.relost = job.relost /\ next.print = job.print /\ next.hits = job.hits
      /\ next.value = [job.value EXCEPT ![n] = made]
  BY <1>2, <1>4, <1>6, <1>7 DEF JobOver
<1>9. jobs'[j] = next
  BY <1>5 DEF Typed
<1>10. /\ faults' \in Nat
       /\ IF fits THEN cache' = room.entries /\ orphans' = room.left
          ELSE cache' = cache /\ orphans' = orphans
       /\ causes' = causes \union (IF fails THEN {"fault"} ELSE {})
                     \union (IF cache' # cache \/ orphans' # orphans THEN {"evicted"} ELSE {})
                     \union (IF n \in TooLarge THEN {"too large"} ELSE {})
                     \union (IF Parted(cache') THEN {"parted"} ELSE {})
  <2>1. faults' = (IF fails THEN faults + 1 ELSE faults)
    BY DEF Run
  <2>2. IF fits THEN cache' = room.entries /\ orphans' = room.left
        ELSE cache' = cache /\ orphans' = orphans
    BY DEF Run
  <2>3. causes' = causes \union (IF fails THEN {"fault"} ELSE {})
                     \union (IF cache' # cache \/ orphans' # orphans THEN {"evicted"} ELSE {})
                     \union (IF n \in TooLarge THEN {"too large"} ELSE {})
                     \union (IF Parted(cache') THEN {"parted"} ELSE {})
    BY Zenon DEF Run
  <2>4. faults' \in Nat
    BY <2>1 DEF Typed
  <2>. HIDE DEF fits, room
  <2>. QED  BY <2>2, <2>3, <2>4
<1>11. /\ room.entries \in Seq(EntryOver(O)) /\ KeyedOnce(room.entries)
       /\ ToSet(room.entries) \subseteq ToSet(cache)
       /\ room.left \in Nat /\ room.left =< orphans
       /\ InUse(room.entries, room.left) + 1 =< Capacity
  BY MadeRoomFacts DEF Typed
<1>12. /\ cache' \in Seq(EntryOver(O)) /\ KeyedOnce(cache') /\ ToSet(cache') \subseteq Entries
       /\ orphans' \in Nat /\ orphans' =< orphans
  BY RunCache
<1>13. /\ causes \subseteq causes'
       /\ Parted(cache') => "parted" \in causes'
       /\ "parted" \in causes' => "parted" \in causes \/ Parted(cache')
  BY <1>10
<1>14. \/ /\ phase = "store" /\ n \in Cacheable
          /\ InUse(cache', orphans') + 1 =< Capacity
          /\ cache' # cache => "evicted" \in causes'
       \/ /\ phase = "enter" /\ cache' = cache /\ orphans' = orphans
          /\ n \in Cacheable => causes' \intersect {"fault", "too large"} # {}
  <2>1. CASE fits
    BY <1>10, <1>11, <2>1 DEF phase
  <2>2. CASE ~fits
    BY <1>10, <2>2 DEF phase
  <2>. QED  BY <2>1, <2>2
<1>. HIDE DEF next, P
<1>. QED  BY <1>1, <1>4, <1>5, <1>8, <1>9, <1>10, <1>12, <1>13, <1>14 DEF made, P

\* A result is moved into the cache and entered.
LEMMA StoreFacts ==
  ASSUME NEW O, Typed(O), NEW j \in Jobs, Store(j), jobs[j].at \in 1 .. Len(Order),
         \A p \in Needs[Node(j)] : Valued(jobs[j], p),
         jobs[j].value[Node(j)] =
           Output(Node(j), jobs[j].version[Node(j)], InputsOf(Node(j), jobs[j].value), j)
  PROVE  LET job == jobs[j]
             next == jobs'[j]
             n == Node(j)
             key == Key(n, job.version[n], InputsOf(n, job.value))
             entry == [key |-> key, output |-> job.value[n], stored |-> job.phase = "store"]
             all == ToSet(cache')
         IN  /\ job.phase \in {"store", "enter"}
             /\ jobs' = [jobs EXCEPT ![j] = next]
             /\ next \in JobOver(O) /\ NextToRun(next, job.at)
             /\ next.version = job.version /\ next.needed = job.needed /\ next.relost = job.relost
             /\ next.print = job.print /\ next.value = job.value /\ next.hits = job.hits
             /\ entry \in EntryOver(O)
             /\ cache' \in Seq(EntryOver(O)) /\ KeyedOnce(cache')
             /\ all = {e \in Entries : e.key # key} \union {entry}
             /\ orphans' \in Nat
             /\ orphans' = orphans + Cardinality(Stored({e \in Entries : e.key = key}))
             /\ causes \subseteq causes'
             /\ Parted(cache') => "parted" \in causes'
             /\ causes' \subseteq causes \union {"parted"}
             /\ "parted" \in causes' => "parted" \in causes \/ Parted(cache')
<1>. DEFINE job == jobs[j]
            n == Node(j)
            f == InputsOf(n, job.value)
            key == Key(n, job.version[n], f)
            entry == [key |-> key, output |-> job.value[n], stored |-> job.phase = "store"]
<1>1. n \in Nodes /\ job \in JobOver(O) /\ (\A p \in Needs[n] : p \in Nodes) /\ Needs[n] \in SUBSET Nodes
  BY NodeFacts, GraphAssumption
<1>2. f \in InputsOver(n, O)
  BY <1>1, JobFacts DEF InputsOver, InputsOf, Valued
<1>3. /\ job.value[n] \in O \ {NoOutput} /\ job.version[n] \in Nat
      /\ \E run \in Jobs : job.value[n] = Output(n, job.version[n], f, run)
  BY <1>1, JobFacts, OutputFields
<1>. HIDE DEF f
<1>4. entry \in EntryOver(O)
  <2>1. f \in UNION {[S -> O] : S \in SUBSET Nodes}
    BY <1>1, <1>2 DEF InputsOver
  <2>. QED  BY <1>1, <1>2, <1>3, <2>1 DEF EntryOver, Key
<1>5. /\ cache' = Merged(cache, entry)
      /\ orphans' = orphans + Cardinality(Stored({e \in Entries : e.key = key}))
      /\ jobs' = [jobs EXCEPT ![j] = ToRun(job, job.at)]
      /\ causes' = causes \union (IF Parted(cache') THEN {"parted"} ELSE {})
      /\ job.phase \in {"store", "enter"}
  BY DEF Store, f, WithKey, Stored, Entries
<1>6. entry.key = key
  OBVIOUS
<1>. HIDE DEF entry, key
<1>7. /\ cache' \in Seq(EntryOver(O)) /\ KeyedOnce(cache')
      /\ ToSet(cache') = {e \in Entries : e.key # key} \union {entry}
  BY <1>4, <1>5, <1>6, MergedEntries DEF Typed, Entries
<1>8. orphans' \in Nat
  <2>1. IsFiniteSet(Stored({e \in Entries : e.key = key}))
    BY Elements, FS_Subset DEF Stored, Entries, Typed
  <2>. QED  BY <1>5, <2>1, FS_CardinalityType DEF Typed
<1>. DEFINE next == ToRun(job, job.at)
<1>9. jobs'[j] = next
  BY <1>5 DEF Typed
<1>. HIDE DEF next
<1>10. /\ next \in JobOver(O) /\ NextToRun(next, job.at)
       /\ next.version = job.version /\ next.needed = job.needed /\ next.relost = job.relost
       /\ next.print = job.print /\ next.value = job.value /\ next.hits = job.hits
  <2>1. next = ToRun(job, job.at) /\ job.at \in 0 .. Len(Order)
    BY PosFacts DEF next
  <2>. QED  BY <1>1, <2>1, ToRunGoesOn
<1>. QED  BY <1>4, <1>5, <1>7, <1>8, <1>9, <1>10 DEF entry, key, f, next

LEMMA PackageFacts ==
  ASSUME NEW O, Typed(O), NEW j \in Jobs, Package(j)
  PROVE  LET job == jobs[j]
             next == jobs'[j]
         IN  /\ job.phase = "run" /\ job.at > Len(Order)
             /\ jobs' = [jobs EXCEPT ![j] = next] /\ next \in JobOver(O)
             /\ next = [NoJob EXCEPT !.phase = "done", !.version = job.version,
                     !.value = [n \in Nodes |-> IF n \in Targets THEN job.value[n] ELSE NoOutput],
                     !.relost = job.relost]
<1>. DEFINE job == jobs[j]
            next == [NoJob EXCEPT !.phase = "done", !.version = job.version,
                     !.value = [n \in Nodes |-> IF n \in Targets THEN job.value[n] ELSE NoOutput],
                     !.relost = job.relost]
<1>1. NoOutput \in O /\ NoJob \in JobOver(O) /\ job \in JobOver(O)
  BY NoJobType DEF Typed, Universe
<1>2. next \in JobOver(O)
  BY <1>1 DEF JobOver, NoJob, Phases
<1>3. jobs' = [jobs EXCEPT ![j] = next] /\ jobs'[j] = next /\ job.phase = "run" /\ job.at > Len(Order)
  BY DEF Package, Typed
<1>. QED  BY <1>2, <1>3

LEMMA DieFacts ==
  ASSUME NEW O, Typed(O), NEW j \in Jobs, Die(j)
  PROVE  /\ jobs[j].phase \notin Inactive
         /\ jobs' = [jobs EXCEPT ![j] = jobs'[j]] /\ jobs'[j] \in JobOver(O)
         /\ jobs'[j] = [NoJob EXCEPT !.phase = "died"]
         /\ orphans' \in Nat /\ orphans' =< orphans + (IF jobs[j].phase = "store" THEN 1 ELSE 0)
         /\ causes' = causes \union {"died"}
<1>. DEFINE next == [NoJob EXCEPT !.phase = "died"]
<1>1. NoOutput \in O /\ NoJob \in JobOver(O)
  BY NoJobType DEF Typed, Universe
<1>2. next \in JobOver(O)
  BY <1>1 DEF JobOver, NoJob, Phases
<1>3. jobs' = [jobs EXCEPT ![j] = next] /\ jobs'[j] = next
  BY DEF Die, Typed
<1>4. orphans' \in Nat /\ orphans' =< orphans + (IF jobs[j].phase = "store" THEN 1 ELSE 0)
  BY DEF Die, Typed
<1>5. jobs[j].phase \notin Inactive
  BY DEF Die, Running, Inactive
<1>. QED  BY <1>2, <1>3, <1>4, <1>5 DEF Die
-----------------------------------------------------------------------------
(* What a training knows and holds.                                         *)

\* A training is where its phase says: what it has passed has a print or a
\* value, what is needed and has no value needs its parents.
Ready(job) ==
  /\ job.phase \notin Inactive => Targets \subseteq job.needed
  /\ job.phase = "fingerprint" =>
       /\ job.needed = Targets
       /\ \A n \in Nodes : Pos(n) >= job.at => ~Printed(job, n) /\ n \notin job.hits /\ ~Valued(job, n)
       /\ \A n \in Inputs : Pos(n) < job.at => Printed(job, n) /\ Valued(job, n)
  /\ job.phase = "prune" =>
       /\ job.at \in 1 .. Len(Order)
       /\ \A n \in Inputs : Printed(job, n) /\ Valued(job, n)
       /\ \A n \in job.needed : Pos(n) > job.at => Valued(job, n) \/ Needs[n] \subseteq job.needed
  /\ job.phase \in {"run", "store", "enter"} =>
       /\ \A n \in job.needed : Valued(job, n) \/ Needs[n] \subseteq job.needed
       /\ \A n \in job.needed : Pos(n) < job.at => Valued(job, n)
  /\ job.phase = "run" =>
       /\ job.at >= 1
       /\ job.at =< Len(Order) => Order[job.at] \in job.needed /\ ~Valued(job, Order[job.at])
  /\ job.phase \in {"store", "enter"} => job.at \in 1 .. Len(Order)

\* The prints are those of hits, with the prints of their parents, and of the
\* inputs; all of it was made of prints.
Prints(job) ==
  /\ \A n \in Nodes : Printed(job, n) => n \in Inputs \union job.hits
  /\ \A n \in job.hits :
       /\ n \notin Inputs /\ Printed(job, n)
       /\ \A p \in Needs[n] : Printed(job, p)
       /\ \E run \in Jobs : job.print[n] = Output(n, job.version[n], InputsOf(n, job.print), run)
  /\ \A n \in Inputs : Printed(job, n) => job.print[n] = Output(n, job.version[n], <<>>, 0)
  /\ \A n \in Nodes : Printed(job, n) =>
       \A c \in job.print[n].made_of :
         /\ c.node \in Nodes /\ c.setting = job.version[c.node]
         /\ Printed(job, c.node) /\ c = job.print[c.node].content

\* A value is the print, or what training j made of the parents' values.
MadeBy(job, j, n) ==
  /\ \A p \in Needs[n] : Valued(job, p)
  /\ job.value[n] = Output(n, job.version[n], InputsOf(n, job.value), j)

Values(job, j) ==
  job.phase \notin Inactive =>
    /\ \A n \in Nodes : Valued(job, n) =>
         \/ Printed(job, n) /\ job.value[n] = job.print[n]
         \/ MadeBy(job, j, n)
    /\ job.phase \in {"fingerprint", "prune"} =>
         \A n \in Nodes : Valued(job, n) => Printed(job, n) /\ job.value[n] = job.print[n]
    /\ job.phase \in {"store", "enter"} =>
         Valued(job, Order[job.at]) /\ MadeBy(job, j, Order[job.at])
    /\ \A n \in Nodes : Valued(job, n) =>
         \A c \in job.value[n].made_of :
           /\ c.node \in Nodes /\ c.setting = job.version[c.node]
           /\ c.node \in Random =>
                c.run = j \/ (Printed(job, c.node) /\ c = job.print[c.node].content)

\* As long as each hit that differs from run to run could be restored, no such
\* node that has a print is made anew.
Fits(job) ==
  job.phase \notin Inactive /\ ~job.relost =>
    /\ \A n \in job.needed \intersect job.hits \intersect Random :
         (job.phase = "prune" => Pos(n) > job.at) /\ job.phase # "fingerprint" => Valued(job, n)
    /\ \A n \in Nodes : Valued(job, n) =>
         \A c \in job.value[n].made_of :
           c.node \in Random /\ Printed(job, c.node) => c = job.print[c.node].content

JobOK(job, j) == Ready(job) /\ Prints(job) /\ Values(job, j) /\ Fits(job)

\* A training that holds nothing.
LEMMA NothingOK ==
  ASSUME NEW job, NEW j \in Jobs, job.phase \in Inactive \union {"fingerprint", "run"},
         job.phase \notin Inactive => job.at = 1 /\ Targets \subseteq job.needed,
         job.phase = "fingerprint" => job.needed = Targets,
         job.phase = "run" => job.needed = Nodes /\ Len(Order) >= 0,
         job.hits = {}, \A n \in Nodes : job.print[n] = NoOutput,
         job.phase \notin Inactive => \A n \in Nodes : job.value[n] = NoOutput
  PROVE  JobOK(job, j)
<1>1. \A n \in Nodes : ~Printed(job, n)
  BY DEF Printed
<1>2. Prints(job)
  BY <1>1, GraphAssumption DEF Prints
<1>3. job.phase \notin Inactive => \A n \in Nodes : ~Valued(job, n)
  BY DEF Valued
<1>4. job.phase \notin {"store", "enter", "prune"}
  BY DEF Inactive
<1>5. Values(job, j) /\ Fits(job)
  BY <1>1, <1>3, <1>4 DEF Values, Fits
<1>6. Ready(job)
  BY <1>1, <1>3, <1>4, PosFacts, GraphAssumption DEF Ready, Inactive
<1>. QED  BY <1>2, <1>5, <1>6 DEF JobOK

LEMMA StartOK ==
  ASSUME NEW O, Typed(O), NEW j \in Jobs, NEW version \in Versions,
         Start(j, version, TRUE) \/ Start(j, version, FALSE)
  PROVE  JobOK(jobs'[j], j)
<1>. DEFINE next == jobs'[j]
<1>1. /\ \/ next.phase = "run" /\ next.needed = Nodes
         \/ next.phase = "fingerprint" /\ next.needed = Targets
      /\ next.at = 1 /\ next.hits = {}
      /\ next.print = [n \in Nodes |-> NoOutput] /\ next.value = [n \in Nodes |-> NoOutput]
  BY StartFacts
<1>. HIDE DEF next
<1>2. /\ next.phase \in Inactive \union {"fingerprint", "run"}
      /\ next.phase \notin Inactive => next.at = 1 /\ Targets \subseteq next.needed
      /\ next.phase = "fingerprint" => next.needed = Targets
      /\ next.phase = "run" => next.needed = Nodes /\ Len(Order) >= 0
      /\ next.hits = {} /\ \A n \in Nodes : next.print[n] = NoOutput
      /\ next.phase \notin Inactive => \A n \in Nodes : next.value[n] = NoOutput
  BY <1>1, PosFacts, GraphAssumption
<1>3. JobOK(next, j)
  BY <1>2, NothingOK
<1>. QED  BY <1>3 DEF next

LEMMA EndOK ==
  ASSUME NEW O, Typed(O), NEW j \in Jobs, Package(j) \/ Die(j)
  PROVE  JobOK(jobs'[j], j)
<1>. DEFINE next == jobs'[j]
<1>1. next.phase \in Inactive /\ next.hits = {} /\ next.print = [n \in Nodes |-> NoOutput]
  <2>1. CASE Package(j)
    <3>1. next = [NoJob EXCEPT !.phase = "done", !.version = jobs[j].version,
                     !.value = [n \in Nodes |-> IF n \in Targets THEN jobs[j].value[n] ELSE NoOutput],
                     !.relost = jobs[j].relost]
      BY <2>1, PackageFacts
    <3>. QED  BY <3>1 DEF NoJob, Inactive
  <2>2. CASE Die(j)
    <3>1. next = [NoJob EXCEPT !.phase = "died"]
      BY <2>2, DieFacts
    <3>. QED  BY <3>1 DEF NoJob, Inactive
  <2>. QED  BY <2>1, <2>2
<1>. QED  BY <1>1, NothingOK DEF Inactive

\* The inputs of a node depend on its parents alone.
LEMMA SameInputs ==
  ASSUME NEW n, NEW f, NEW g, \A p \in Needs[n] : f[p] = g[p]
  PROVE  InputsOf(n, f) = InputsOf(n, g)
BY DEF InputsOf

\* A node that reads the training data has no inputs.
LEMMA InputOutput ==
  ASSUME NEW n \in Inputs, NEW setting, NEW f, NEW g, NEW q, NEW r
  PROVE  Output(n, setting, f, q) = Output(n, setting, g, r)
<1>1. Needs[n] = {} /\ n \notin Fresh /\ n \notin Random
  BY GraphAssumption
<1>. QED  BY <1>1 DEF Output


\* What an output a training holds was made of are nodes up to its own.
LEMMA MadeOfBefore ==
  ASSUME NEW O, Universe(O), NEW job \in JobOver(O), NEW n \in Nodes
  PROVE  /\ Printed(job, n) => \A c \in job.print[n].made_of : c.node \in Nodes /\ Pos(c.node) =< Pos(n)
         /\ Valued(job, n) => \A c \in job.value[n].made_of : c.node \in Nodes /\ Pos(c.node) =< Pos(n)
<1>1. ASSUME NEW o \in O \ {NoOutput}, o.content.node = n, NEW c \in o.made_of
      PROVE  c.node \in Nodes /\ Pos(c.node) =< Pos(n)
  <2>1. c.node \in Lineage(n)
    BY <1>1 DEF Universe
  <2>. QED  BY <2>1, LineageFacts
<1>. QED  BY <1>1, JobFacts DEF Printed, Valued

\* The prints keep being prints as one is added.
LEMMA PrintsGrow ==
  ASSUME NEW O, NEW job \in JobOver(O), NEW next, NEW n \in Nodes, NEW o, o # NoOutput,
         Prints(job), ~Printed(job, n),
         next.version = job.version, next.print = [job.print EXCEPT ![n] = o],
         \/ n \in Inputs /\ next.hits = job.hits /\ o = Output(n, job.version[n], <<>>, 0)
         \/ /\ n \notin Inputs /\ next.hits = job.hits \union {n}
            /\ \A p \in Needs[n] : Printed(job, p)
            /\ \E run \in Jobs : o = Output(n, job.version[n], InputsOf(n, job.print), run)
  PROVE  Prints(next)
<1>1. /\ job.print \in [Nodes -> O] /\ next.print[n] = o /\ Printed(next, n)
      /\ \A m \in Nodes : m # n => next.print[m] = job.print[m] /\ (Printed(next, m) <=> Printed(job, m))
      /\ \A m \in Nodes : Printed(job, m) => m # n /\ Printed(next, m)
      /\ \A m \in Nodes : Needs[m] \subseteq Nodes
  BY JobFacts, GraphAssumption DEF Printed
<1>2. n \notin job.hits /\ job.hits \subseteq Nodes /\ Inputs \subseteq Nodes
  BY JobFacts, GraphAssumption DEF Prints
<1>3. \A m \in Nodes : Printed(next, m) => m \in Inputs \union next.hits
  BY <1>1 DEF Prints
<1>4. ASSUME NEW m \in Nodes, \A p \in Needs[m] : Printed(job, p)
      PROVE  InputsOf(m, next.print) = InputsOf(m, job.print) /\ \A p \in Needs[m] : Printed(next, p)
  <2>1. \A p \in Needs[m] : next.print[p] = job.print[p] /\ Printed(next, p)
    BY <1>1, <1>4
  <2>. QED  BY <2>1 DEF InputsOf
<1>5. ASSUME NEW m \in next.hits
      PROVE  /\ m \notin Inputs /\ Printed(next, m)
             /\ \A p \in Needs[m] : Printed(next, p)
             /\ \E run \in Jobs : next.print[m] = Output(m, next.version[m], InputsOf(m, next.print), run)
  <2>1. CASE m \in job.hits
    BY <1>1, <1>2, <1>4, <2>1 DEF Prints
  <2>2. CASE m = n /\ n \notin Inputs
    BY <1>1, <1>2, <1>4, <2>2
  <2>. QED  BY <1>2, <2>1, <2>2
<1>6. \A m \in Inputs : Printed(next, m) => next.print[m] = Output(m, next.version[m], <<>>, 0)
  BY <1>1, <1>2 DEF Prints
<1>7. ASSUME NEW m \in Nodes, Printed(job, m), NEW c \in job.print[m].made_of
      PROVE  /\ c.node \in Nodes /\ c.setting = next.version[c.node]
             /\ Printed(next, c.node) /\ c = next.print[c.node].content
  BY <1>1, <1>7 DEF Prints
<1>8. ASSUME NEW c \in o.made_of
      PROVE  /\ c.node \in Nodes /\ c.setting = next.version[c.node]
             /\ Printed(next, c.node) /\ c = next.print[c.node].content
  <2>1. CASE c = o.content
    <3>1. o.content.node = n /\ o.content.setting = job.version[n]
      BY OutputFields
    <3>. QED  BY <1>1, <2>1, <3>1
  <2>2. CASE c # o.content
    <3>1. PICK p \in Needs[n] : Printed(job, p) /\ c \in job.print[p].made_of
      <4>1. CASE n \in Inputs /\ o = Output(n, job.version[n], <<>>, 0)
        <5>1. Needs[n] = {}
          BY <4>1, GraphAssumption
        <5>. QED  BY <2>2, <4>1, <5>1, OutputFields
      <4>2. CASE /\ \A p \in Needs[n] : Printed(job, p)
                 /\ \E run \in Jobs : o = Output(n, job.version[n], InputsOf(n, job.print), run)
        <5>1. PICK run \in Jobs : o = Output(n, job.version[n], InputsOf(n, job.print), run)
          BY <4>2
        <5>. DEFINE f == InputsOf(n, job.print)
        <5>2. \A p \in Needs[n] : f[p] = job.print[p]
          BY DEF InputsOf
        <5>. HIDE DEF f
        <5>3. \E p \in Needs[n] : c \in f[p].made_of
          <6>1. o = Output(n, job.version[n], f, run)
            BY <5>1 DEF f
          <6>. QED  BY <2>2, <6>1, OutputFields
        <5>. QED  BY <4>2, <5>2, <5>3
      <4>. QED  BY <4>1, <4>2
    <3>. QED  BY <1>1, <1>7, <3>1
  <2>. QED  BY <2>1, <2>2
<1>9. \A m \in Nodes : Printed(next, m) =>
        \A c \in next.print[m].made_of :
          /\ c.node \in Nodes /\ c.setting = next.version[c.node]
          /\ Printed(next, c.node) /\ c = next.print[c.node].content
  BY <1>1, <1>7, <1>8
<1>. QED  BY <1>3, <1>5, <1>6, <1>9 DEF Prints

\* A step that leaves a training's prints, hits and version keeps Prints.
LEMMA PrintsStay ==
  ASSUME NEW job, NEW next, Prints(job),
         next.version = job.version, next.print = job.print, next.hits = job.hits
  PROVE  Prints(next)
<1>1. \A n : Printed(next, n) <=> Printed(job, n)
  BY DEF Printed
<1>. QED  BY <1>1 DEF Prints

LEMMA FingerprintOK ==
  ASSUME NEW O, Typed(O), NEW j \in Jobs, JobOK(jobs[j], j), Fingerprint(j)
  PROVE  JobOK(jobs'[j], j)
<1>. DEFINE job == jobs[j]
            next == jobs'[j]
            n == Node(j)
            read == Output(n, job.version[n], <<>>, 0)
<1>0. Universe(O) /\ Len(Order) \in Nat
  BY PosFacts DEF Typed
<1>1. /\ job.phase = "fingerprint" /\ job.at \in 1 .. Len(Order)
      /\ next.phase = (IF job.at = Len(Order) THEN "prune" ELSE "fingerprint")
      /\ next.at = (IF job.at = Len(Order) THEN job.at ELSE job.at + 1)
      /\ next.version = job.version /\ next.needed = job.needed /\ next.relost = job.relost
      /\ \/ /\ n \in Inputs
            /\ next.print = [job.print EXCEPT ![n] = read]
            /\ next.value = [job.value EXCEPT ![n] = read]
            /\ next.hits = job.hits
         \/ /\ n \notin Inputs
            /\ next.print = job.print /\ next.value = job.value /\ next.hits = job.hits
         \/ /\ n \notin Inputs
            /\ \E e \in Entries :
                 /\ e.key = Key(n, job.version[n], InputsOf(n, job.print))
                 /\ next.print = [job.print EXCEPT ![n] = e.output]
            /\ next.value = job.value /\ next.hits = job.hits \union {n}
  BY FingerprintFacts
<1>2. /\ n \in Nodes /\ Pos(n) = job.at /\ job \in JobOver(O)
      /\ \A p \in Needs[n] : p \in Nodes /\ Pos(p) < Pos(n)
  BY <1>1, NodeFacts
<1>3. job.print \in [Nodes -> O] /\ job.value \in [Nodes -> O] /\ job.version \in [Nodes -> Nat]
  BY <1>2, JobFacts
<1>. HIDE DEF job, next, n, read
<1>4. Ready(job) /\ Prints(job) /\ Values(job, j) /\ Fits(job)
  BY DEF JobOK, job
<1>5. /\ job.needed = Targets
      /\ \A m \in Nodes : Pos(m) >= job.at => ~Printed(job, m) /\ m \notin job.hits /\ ~Valued(job, m)
      /\ \A m \in Inputs : Pos(m) < job.at => Printed(job, m) /\ Valued(job, m)
  BY <1>1, <1>4 DEF Ready
<1>6. ~Printed(job, n) /\ n \notin job.hits /\ ~Valued(job, n)
  BY <1>1, <1>2, <1>5
\* What the step does, in one form.
<1>. DEFINE Passed ==
              /\ Prints(next)
              /\ \A m \in Nodes : m # n => next.print[m] = job.print[m] /\ next.value[m] = job.value[m]
              /\ \A m \in Nodes : m # n => (m \in next.hits <=> m \in job.hits)
              /\ \/ /\ n \in Inputs /\ Printed(next, n) /\ Valued(next, n) /\ next.value[n] = next.print[n]
                    /\ n \notin next.hits
                    /\ \A c \in next.value[n].made_of : c.node \in Nodes /\ c.setting = job.version[c.node] /\ c = next.print[c.node].content /\ Printed(next, c.node)
                 \/ n \notin Inputs /\ ~Valued(next, n)
<1>7. Passed
  <2>1. CASE /\ n \in Inputs
             /\ next.print = [job.print EXCEPT ![n] = read]
             /\ next.value = [job.value EXCEPT ![n] = read]
             /\ next.hits = job.hits
    <3>1. read # NoOutput /\ next.print[n] = read /\ next.value[n] = read
      BY <1>2, <1>3, <2>1, OutputFields DEF read
    <3>2. Prints(next)
      BY <1>1, <1>2, <1>4, <1>6, <2>1, <3>1, PrintsGrow DEF read
    <3>3. Printed(next, n) /\ Valued(next, n)
      BY <3>1 DEF Printed, Valued
    <3>4. n \notin next.hits /\ n \in Inputs /\ next.value[n] = next.print[n]
      BY <1>6, <2>1, <3>1
    <3>5. \A c \in next.value[n].made_of : c.node \in Nodes /\ c.setting = job.version[c.node] /\ c = next.print[c.node].content /\ Printed(next, c.node)
      BY <1>1, <1>2, <3>2, <3>3, <3>4 DEF Prints
    <3>6. /\ \A m \in Nodes : m # n => next.print[m] = job.print[m] /\ next.value[m] = job.value[m]
          /\ \A m \in Nodes : m # n => (m \in next.hits <=> m \in job.hits)
      BY <1>2, <1>3, <2>1
    <3>. QED  BY <3>2, <3>3, <3>4, <3>5, <3>6
  <2>2. CASE n \notin Inputs /\ next.print = job.print /\ next.value = job.value /\ next.hits = job.hits
    <3>1. Prints(next)
      BY <1>1, <1>4, <2>2, PrintsStay
    <3>. QED  BY <1>6, <2>2, <3>1 DEF Valued
  <2>3. ASSUME n \notin Inputs, NEW e \in Entries,
               e.key = Key(n, job.version[n], InputsOf(n, job.print)),
               next.print = [job.print EXCEPT ![n] = e.output],
               next.value = job.value, next.hits = job.hits \union {n}
        PROVE  Passed
    <3>1. e \in EntryOver(O)
      BY Elements DEF Entries, Typed
    <3>2. /\ e.key.inputs \in InputsOver(e.key.node, O) /\ e.output # NoOutput
          /\ \E run \in Jobs : e.output = Output(e.key.node, e.key.setting, e.key.inputs, run)
      BY <3>1, EntryFacts
    <3>3. e.key.node = n /\ e.key.setting = job.version[n] /\ e.key.inputs = InputsOf(n, job.print)
      BY <2>3 DEF Key
    <3>4. \A p \in Needs[n] : Printed(job, p)
      <4>1. \A p \in Needs[n] : InputsOf(n, job.print)[p] \in O \ {NoOutput}
        BY <3>2, <3>3 DEF InputsOver
      <4>. QED  BY <4>1 DEF InputsOf, Printed
    <3>5. \E run \in Jobs : e.output = Output(n, job.version[n], InputsOf(n, job.print), run)
      BY <3>2, <3>3
    <3>6. Prints(next)
      BY <1>1, <1>2, <1>4, <1>6, <2>3, <3>2, <3>4, <3>5, PrintsGrow
    <3>. QED  BY <1>2, <1>3, <1>6, <2>3, <3>6 DEF Valued
  <2>. HIDE DEF Passed
  <2>. QED  BY <1>1, <2>1, <2>2, <2>3
<1>8. /\ \A m \in Nodes : m # n => (Printed(next, m) <=> Printed(job, m))
      /\ \A m \in Nodes : m # n => (Valued(next, m) <=> Valued(job, m))
  BY <1>7 DEF Printed, Valued
<1>9. Targets \subseteq Nodes /\ Inputs \subseteq Nodes /\ Random \subseteq Nodes /\ Inputs \intersect Random = {}
  BY GraphAssumption
<1>10. Ready(next)
  <2>1. CASE job.at = Len(Order)
    <3>1. \A m \in Nodes : Pos(m) \in Nat /\ Pos(m) =< Len(Order) /\ (m # n => Pos(m) < job.at)
      BY <1>2, <2>1, PosFacts
    <3>2. \A m \in Inputs : Printed(next, m) /\ Valued(next, m)
      BY <1>5, <1>7, <1>8, <1>9, <3>1
    <3>. QED  BY <1>0, <1>1, <1>5, <1>9, <2>1, <3>1, <3>2 DEF Ready, Inactive
  <2>2. CASE job.at # Len(Order)
    <3>1. \A m \in Nodes : Pos(m) \in Nat /\ (Pos(m) >= job.at + 1 => m # n) /\ (Pos(m) < job.at + 1 /\ m # n => Pos(m) < job.at)
      BY <1>1, <1>2, PosFacts
    <3>2. \A m \in Nodes : Pos(m) >= job.at + 1 => ~Printed(next, m) /\ m \notin next.hits /\ ~Valued(next, m)
      BY <1>1, <1>5, <1>7, <1>8, <3>1
    <3>3. \A m \in Inputs : Pos(m) < job.at + 1 => Printed(next, m) /\ Valued(next, m)
      BY <1>5, <1>7, <1>8, <1>9, <3>1
    <3>. QED  BY <1>1, <1>5, <2>2, <3>2, <3>3 DEF Ready, Inactive
  <2>. QED  BY <2>1, <2>2
<1>11. next.phase \in {"fingerprint", "prune"} /\ job.phase \notin Inactive
  BY <1>1 DEF Inactive
<1>12. ASSUME NEW m \in Nodes, Valued(job, m), m # n, NEW c \in job.value[m].made_of
       PROVE  c.node # n
  <2>1. Pos(m) < Pos(n) /\ Pos(c.node) =< Pos(m) /\ c.node \in Nodes
    <3>1. Pos(m) \in Nat /\ Pos(n) \in Nat
      BY <1>2, PosFacts
    <3>. QED  BY <1>0, <1>2, <1>5, <1>12, <3>1, MadeOfBefore
  <2>2. Pos(c.node) \in Nat /\ Pos(m) \in Nat /\ Pos(n) \in Nat
    BY <1>2, <2>1, PosFacts
  <2>. QED  BY <2>1, <2>2
<1>13. Values(next, j)
  <2>1. ASSUME NEW m \in Nodes, Valued(next, m)
        PROVE  (Printed(next, m) /\ next.value[m] = next.print[m]) \/ MadeBy(next, j, m)
    <3>1. CASE m = n
      BY <1>7, <2>1, <3>1
    <3>2. CASE m # n /\ Printed(job, m) /\ job.value[m] = job.print[m]
      BY <1>7, <1>8, <3>2
    <3>3. CASE m # n /\ MadeBy(job, j, m)
      <4>1. \A p \in Needs[m] : p \in Nodes /\ p # n /\ next.value[p] = job.value[p] /\ Valued(next, p)
        BY <1>6, <1>7, <1>8, <3>3, PosFacts DEF MadeBy
      <4>2. InputsOf(m, next.value) = InputsOf(m, job.value)
        BY <4>1, SameInputs
      <4>. QED  BY <1>1, <1>7, <3>3, <4>1, <4>2 DEF MadeBy
    <3>. QED  BY <1>4, <1>8, <1>11, <2>1, <3>1, <3>2, <3>3 DEF Values
  <2>2. ASSUME NEW m \in Nodes, Valued(next, m), NEW c \in next.value[m].made_of
        PROVE  /\ c.node \in Nodes /\ c.setting = next.version[c.node]
               /\ c.node \in Random =>
                    c.run = j \/ (Printed(next, c.node) /\ c = next.print[c.node].content)
    <3>1. CASE m = n
      BY <1>1, <1>7, <2>2, <3>1
    <3>2. CASE m # n
      <4>1. Valued(job, m) /\ c \in job.value[m].made_of
        BY <1>7, <1>8, <2>2, <3>2
      <4>2. c.node # n
        BY <1>12, <3>2, <4>1
      <4>3. /\ c.node \in Nodes /\ c.setting = job.version[c.node]
            /\ c.node \in Random =>
                    c.run = j \/ (Printed(job, c.node) /\ c = job.print[c.node].content)
        BY <1>4, <1>11, <4>1 DEF Values
      <4>. QED  BY <1>1, <1>7, <1>8, <4>2, <4>3
    <3>. QED  BY <3>1, <3>2
  <2>3. \A m \in Nodes : Valued(next, m) => Printed(next, m) /\ next.value[m] = next.print[m]
    <3>1. \A m \in Nodes : Valued(job, m) => Printed(job, m) /\ job.value[m] = job.print[m]
      BY <1>1, <1>4, <1>11 DEF Values
    <3>. QED  BY <1>7, <1>8, <3>1
  <2>. QED  BY <1>11, <2>1, <2>2, <2>3 DEF Values
<1>14. Fits(next)
  <2>. SUFFICES ASSUME ~next.relost PROVE Fits(next)!2
    BY DEF Fits
  <2>1. ~job.relost
    BY <1>1
  <2>2. ASSUME NEW m \in Nodes, next.phase = "prune" PROVE ~(Pos(m) > next.at)
    BY <1>1, <2>2, PosFacts
  <2>3. ASSUME NEW m \in Nodes, Valued(next, m), NEW c \in next.value[m].made_of,
               c.node \in Random, Printed(next, c.node)
        PROVE  c = next.print[c.node].content
    <3>1. CASE m = n
      BY <1>7, <2>3, <3>1
    <3>2. CASE m # n
      <4>1. Valued(job, m) /\ c \in job.value[m].made_of
        BY <1>7, <1>8, <2>3, <3>2
      <4>2. c.node # n
        BY <1>12, <3>2, <4>1
      <4>. QED  BY <1>4, <1>7, <1>8, <1>9, <1>11, <2>1, <2>3, <4>1, <4>2 DEF Fits
    <3>. QED  BY <3>1, <3>2
  <2>4. next.needed \subseteq Nodes
    BY <1>1, <1>5, <1>9
  <2>. QED  BY <1>11, <2>2, <2>3, <2>4
<1>. QED  BY <1>7, <1>10, <1>13, <1>14 DEF JobOK, next

LEMMA PruneOK ==
  ASSUME NEW O, Typed(O), NEW j \in Jobs, JobOK(jobs[j], j), Prune(j)
  PROVE  JobOK(jobs'[j], j)
<1>. DEFINE job == jobs[j]
            next == jobs'[j]
            n == Node(j)
<1>1. /\ job.phase = "prune" /\ job.at \in 1 .. Len(Order)
      /\ next.version = job.version /\ next.print = job.print /\ next.hits = job.hits
      /\ IF job.at = 1 THEN NextToRun(next, 0) ELSE next.phase = "prune" /\ next.at = job.at - 1
      /\ \/ /\ n \notin job.needed \/ n \in Inputs
            /\ next.needed = job.needed /\ next.value = job.value /\ next.relost = job.relost
         \/ /\ n \in job.needed /\ n \notin Inputs /\ n \in job.hits
            /\ next.value = [job.value EXCEPT ![n] = job.print[n]]
            /\ next.needed = job.needed /\ next.relost = job.relost
         \/ /\ n \in job.needed /\ n \notin Inputs
            /\ next.needed = job.needed \union Needs[n] /\ next.value = job.value
            /\ next.relost = (job.relost \/ n \in job.hits \intersect Random)
  BY PruneFacts
<1>2. /\ n \in Nodes /\ Pos(n) = job.at /\ job \in JobOver(O)
      /\ \A p \in Needs[n] : p \in Nodes /\ Pos(p) < Pos(n)
  BY <1>1, NodeFacts
<1>3. job.print \in [Nodes -> O] /\ job.value \in [Nodes -> O] /\ job.needed \subseteq Nodes
  BY <1>2, JobFacts
<1>. HIDE DEF job, next, n
<1>4. Ready(job) /\ Prints(job) /\ Values(job, j) /\ Fits(job)
  BY DEF JobOK, job
<1>5. /\ \A m \in Inputs : Printed(job, m) /\ Valued(job, m)
      /\ \A m \in job.needed : Pos(m) > job.at => Valued(job, m) \/ Needs[m] \subseteq job.needed
      /\ Targets \subseteq job.needed
  BY <1>1, <1>4 DEF Ready, Inactive
<1>6. \A m \in Nodes : Valued(job, m) => Printed(job, m) /\ job.value[m] = job.print[m]
  BY <1>1, <1>4 DEF Values, Inactive
<1>7. job.phase \notin Inactive /\ next.phase \notin Inactive /\ next.phase \in {"prune", "run"}
  BY <1>1 DEF Inactive, NextToRun
<1>8. \A m \in Nodes : Printed(next, m) <=> Printed(job, m)
  BY <1>1 DEF Printed
<1>9. /\ \A m \in Nodes : Valued(next, m) => next.value[m] = job.value[m] \/ (Printed(job, m) /\ next.value[m] = job.print[m])
      /\ \A m \in Nodes : Valued(job, m) => Valued(next, m) /\ next.value[m] = job.value[m]
      /\ \A m \in Nodes : next.value[m] = job.value[m] \/ (m = n /\ Printed(job, m) /\ next.value[m] = job.print[m])
      /\ job.needed \subseteq next.needed
  <2>1. CASE next.value = job.value /\ job.needed \subseteq next.needed
    BY <2>1 DEF Valued
  <2>2. CASE /\ n \in job.hits /\ next.value = [job.value EXCEPT ![n] = job.print[n]]
             /\ job.needed \subseteq next.needed
    <3>1. Printed(job, n)
      BY <1>4, <2>2 DEF Prints
    <3>. QED  BY <1>2, <1>3, <1>6, <2>2, <3>1 DEF Printed, Valued
  <2>. QED  BY <1>1, <2>1, <2>2
\* The node is dealt with.
<1>10. /\ n \in next.needed => Valued(next, n) \/ Needs[n] \subseteq next.needed
       /\ ~next.relost /\ n \in next.needed /\ n \in next.hits \intersect Random => Valued(next, n)
       /\ \A m \in next.needed : m \in job.needed \/ Pos(m) < Pos(n)
       /\ ~next.relost => ~job.relost
  <2>0. \A m \in Inputs : Valued(next, m)
    BY <1>5, <1>9, GraphAssumption
  <2>1. CASE /\ n \notin job.needed \/ n \in Inputs
             /\ next.needed = job.needed /\ next.value = job.value /\ next.relost = job.relost
    BY <2>0, <2>1
  <2>2. CASE /\ n \in job.needed /\ n \notin Inputs /\ n \in job.hits
             /\ next.value = [job.value EXCEPT ![n] = job.print[n]]
             /\ next.needed = job.needed /\ next.relost = job.relost
    <3>1. Printed(job, n)
      BY <1>4, <2>2 DEF Prints
    <3>. QED  BY <1>2, <1>3, <2>2, <3>1 DEF Printed, Valued
  <2>3. CASE /\ n \in job.needed /\ n \notin Inputs
             /\ next.needed = job.needed \union Needs[n] /\ next.value = job.value
             /\ next.relost = (job.relost \/ n \in job.hits \intersect Random)
    BY <1>1, <1>2, <2>3
  <2>. QED  BY <1>1, <2>1, <2>2, <2>3
<1>11. next.needed \subseteq Nodes /\ \A m \in Nodes : Pos(m) \in 1 .. Len(Order) /\ (Pos(m) = Pos(n) => m = n)
  <2>1. \A m \in Nodes : Pos(m) \in 1 .. Len(Order) /\ (Pos(m) = Pos(n) => m = n)
    BY <1>2, PosFacts
  <2>2. Needs[n] \subseteq Nodes
    BY <1>2
  <2>. QED  BY <1>1, <1>3, <2>1, <2>2
<1>12. \A m \in next.needed : Pos(m) > job.at \/ m = n => Valued(next, m) \/ Needs[m] \subseteq next.needed
  BY <1>2, <1>5, <1>9, <1>10, <1>11
<1>13. Ready(next)
  <2>1. CASE job.at = 1
    <3>1. /\ next.phase = "run" /\ next.at \in 0 + 1 .. Len(Order) + 1
          /\ next.at =< Len(Order) => Order[next.at] \in next.needed /\ ~Valued(next, Order[next.at])
          /\ \A m \in next.needed : 0 < Pos(m) /\ Pos(m) < next.at => Valued(next, m)
      BY <1>1, <2>1 DEF NextToRun
    <3>2. \A m \in next.needed : Valued(next, m) \/ Needs[m] \subseteq next.needed
      BY <1>2, <1>11, <1>12, <2>1
    <3>3. \A m \in next.needed : Pos(m) < next.at => Valued(next, m)
      BY <1>11, <3>1
    <3>. QED  BY <1>5, <1>9, <3>1, <3>2, <3>3, PosFacts DEF Ready, Inactive
  <2>2. CASE job.at # 1
    <3>1. next.phase = "prune" /\ next.at = job.at - 1 /\ next.at \in 1 .. Len(Order)
      BY <1>1, <2>2, PosFacts
    <3>2. \A m \in next.needed : Pos(m) > next.at => Valued(next, m) \/ Needs[m] \subseteq next.needed
      <4>1. \A m \in next.needed : Pos(m) > next.at => Pos(m) > job.at \/ m = n
        BY <1>1, <1>2, <1>11, <3>1
      <4>. QED  BY <1>12, <4>1
    <3>3. \A m \in Inputs : Printed(next, m) /\ Valued(next, m)
      BY <1>5, <1>8, <1>9, GraphAssumption
    <3>. QED  BY <1>5, <1>9, <3>1, <3>2, <3>3 DEF Ready, Inactive
  <2>. QED  BY <2>1, <2>2
<1>14. Prints(next)
  BY <1>1, <1>4, PrintsStay
<1>15. Values(next, j)
  <2>1. \A m \in Nodes : Valued(next, m) => Printed(next, m) /\ next.value[m] = next.print[m]
    BY <1>1, <1>6, <1>8, <1>9 DEF Valued
  <2>2. ASSUME NEW m \in Nodes, Valued(next, m), NEW c \in next.value[m].made_of
        PROVE  /\ c.node \in Nodes /\ c.setting = next.version[c.node]
               /\ Printed(next, c.node) /\ c = next.print[c.node].content
    BY <1>14, <2>1, <2>2 DEF Prints
  <2>. QED  BY <1>7, <2>1, <2>2 DEF Values
<1>16. Fits(next)
  <2>. SUFFICES ASSUME ~next.relost PROVE Fits(next)!2
    BY DEF Fits
  <2>1. ASSUME NEW m \in next.needed \intersect next.hits \intersect Random, next.phase = "prune" => Pos(m) > next.at
        PROVE  Valued(next, m)
    <3>1. Pos(m) > job.at \/ m = n
      BY <1>1, <1>2, <1>11, <2>1
    <3>2. CASE Pos(m) > job.at
      <4>1. m \in job.needed \intersect job.hits \intersect Random
        BY <1>1, <1>2, <1>10, <1>11, <3>2
      <4>2. Valued(job, m)
        BY <1>1, <1>4, <1>7, <1>10, <3>2, <4>1 DEF Fits
      <4>. QED  BY <1>3, <1>9, <4>1, <4>2
    <3>. QED  BY <1>10, <2>1, <3>1, <3>2
  <2>2. ASSUME NEW m \in Nodes, Valued(next, m), NEW c \in next.value[m].made_of
        PROVE  c = next.print[c.node].content
    <3>1. Printed(next, m) /\ next.value[m] = next.print[m]
      BY <1>1, <1>6, <1>8, <1>9, <2>2 DEF Valued
    <3>. QED  BY <1>14, <2>2, <3>1 DEF Prints
  <2>. QED  BY <2>1, <2>2
<1>. QED  BY <1>13, <1>14, <1>15, <1>16 DEF JobOK, next

\* What is run next has the values of its parents, and none of its own.
LEMMA ParentsValued ==
  ASSUME NEW O, Typed(O), NEW j \in Jobs, Ready(jobs[j]),
         jobs[j].phase = "run", jobs[j].at \in 1 .. Len(Order)
  PROVE  /\ Node(j) \in jobs[j].needed /\ ~Valued(jobs[j], Node(j))
         /\ \A p \in Needs[Node(j)] : Valued(jobs[j], p)
<1>. DEFINE job == jobs[j]
            n == Node(j)
<1>1. /\ n \in Nodes /\ Pos(n) = job.at /\ n = Order[job.at]
      /\ \A p \in Needs[n] : p \in Nodes /\ Pos(p) < Pos(n)
  BY NodeFacts
<1>. HIDE DEF job, n
<1>2. n \in job.needed /\ ~Valued(job, n)
  BY <1>1 DEF Ready, job
<1>3. Needs[n] \subseteq job.needed
  BY <1>2 DEF Ready, job
<1>4. \A p \in Needs[n] : Valued(job, p)
  BY <1>1, <1>3 DEF Ready, job
<1>. QED  BY <1>2, <1>4 DEF job, n

LEMMA RunOK ==
  ASSUME NEW O, Typed(O), NEW j \in Jobs, JobOK(jobs[j], j), NEW fails \in BOOLEAN, Run(j, fails)
  PROVE  JobOK(jobs'[j], j)
<1>. DEFINE job == jobs[j]
            next == jobs'[j]
            n == Node(j)
            f == InputsOf(n, job.value)
            made == Output(n, job.version[n], f, j)
<1>0. job.phase = "run" /\ job.at \in 1 .. Len(Order)
  BY PosFacts DEF Run, At
<1>a. n \in job.needed /\ ~Valued(job, n) /\ \A p \in Needs[n] : Valued(job, p)
  BY <1>0, ParentsValued DEF JobOK
<1>1. /\ next.at = job.at /\ next.version = job.version /\ next.needed = job.needed
      /\ next.relost = job.relost /\ next.print = job.print /\ next.hits = job.hits
      /\ next.value = [job.value EXCEPT ![n] = made]
      /\ next.phase \in {"store", "enter"}
  BY <1>a, RunFacts
<1>2. /\ n \in Nodes /\ Pos(n) = job.at /\ job \in JobOver(O) /\ n = Order[job.at]
      /\ \A p \in Needs[n] : p \in Nodes /\ Pos(p) < Pos(n)
  BY <1>0, NodeFacts
<1>3. job.value \in [Nodes -> O] /\ job.needed \subseteq Nodes
  BY <1>2, JobFacts
<1>4. /\ made # NoOutput /\ made.content.node = n /\ made.content.setting = job.version[n]
      /\ n \in Random => made.content.run = j
      /\ \A c \in made.made_of : c = made.content \/ \E p \in Needs[n] : c \in f[p].made_of
  BY OutputFields
<1>5. \A p \in Needs[n] : f[p] = job.value[p]
  BY DEF InputsOf
<1>. HIDE DEF job, next, n, f, made
<1>6. Ready(job) /\ Prints(job) /\ Values(job, j) /\ Fits(job)
  BY DEF JobOK, job
<1>7. job.phase \notin Inactive /\ next.phase \notin Inactive
  BY <1>0, <1>1 DEF Inactive
<1>8. /\ \A m \in Nodes : Printed(next, m) <=> Printed(job, m)
      /\ next.value[n] = made /\ Valued(next, n)
      /\ \A m \in Nodes : m # n => next.value[m] = job.value[m]
      /\ \A m \in Nodes : m # n => (Valued(next, m) <=> Valued(job, m))
      /\ \A m \in Nodes : Valued(job, m) => m # n
  BY <1>1, <1>2, <1>3, <1>4, <1>a DEF Printed, Valued
<1>9. Ready(next)
  <2>1. \A m \in next.needed : Valued(next, m) \/ Needs[m] \subseteq next.needed
    BY <1>0, <1>1, <1>3, <1>6, <1>8 DEF Ready
  <2>2. \A m \in next.needed : Pos(m) < next.at => Valued(next, m)
    BY <1>0, <1>1, <1>3, <1>6, <1>8 DEF Ready
  <2>3. Targets \subseteq next.needed
    BY <1>1, <1>6, <1>7 DEF Ready
  <2>. QED  BY <1>0, <1>1, <2>1, <2>2, <2>3 DEF Ready
<1>10. Prints(next)
  BY <1>1, <1>6, PrintsStay
<1>11. ASSUME NEW m \in Nodes, \A p \in Needs[m] : Valued(job, p)
       PROVE  InputsOf(m, next.value) = InputsOf(m, job.value) /\ \A p \in Needs[m] : Valued(next, p)
  <2>1. \A p \in Needs[m] : p \in Nodes /\ next.value[p] = job.value[p] /\ Valued(next, p)
    BY <1>8, <1>11, PosFacts
  <2>. QED  BY <2>1 DEF InputsOf
<1>12. MadeBy(next, j, n)
  BY <1>1, <1>2, <1>8, <1>11, <1>a DEF MadeBy, made, f
<1>13. ASSUME NEW c \in made.made_of
       PROVE  c = made.content \/ \E p \in Needs[n] : p \in Nodes /\ Valued(job, p) /\ c \in job.value[p].made_of
  BY <1>2, <1>4, <1>5, <1>a
<1>14. Values(next, j)
  <2>1. ASSUME NEW m \in Nodes, Valued(next, m)
        PROVE  (Printed(next, m) /\ next.value[m] = next.print[m]) \/ MadeBy(next, j, m)
    <3>1. CASE m # n /\ Printed(job, m) /\ job.value[m] = job.print[m]
      BY <1>1, <1>8, <3>1
    <3>2. CASE m # n /\ MadeBy(job, j, m)
      BY <1>1, <1>8, <1>11, <3>2 DEF MadeBy
    <3>. QED  BY <1>6, <1>7, <1>8, <1>12, <2>1, <3>1, <3>2 DEF Values
  <2>2. ASSUME NEW m \in Nodes, Valued(job, m), NEW c \in job.value[m].made_of
        PROVE  /\ c.node \in Nodes /\ c.setting = next.version[c.node]
               /\ c.node \in Random =>
                    c.run = j \/ (Printed(next, c.node) /\ c = next.print[c.node].content)
    BY <1>1, <1>6, <1>7, <1>8, <2>2 DEF Values
  <2>3. ASSUME NEW c \in made.made_of
        PROVE  /\ c.node \in Nodes /\ c.setting = next.version[c.node]
               /\ c.node \in Random =>
                    c.run = j \/ (Printed(next, c.node) /\ c = next.print[c.node].content)
    BY <1>1, <1>2, <1>4, <1>13, <2>2
  <2>4. \A m \in Nodes : Valued(next, m) =>
          \A c \in next.value[m].made_of :
            /\ c.node \in Nodes /\ c.setting = next.version[c.node]
            /\ c.node \in Random =>
                 c.run = j \/ (Printed(next, c.node) /\ c = next.print[c.node].content)
    BY <1>8, <2>2, <2>3
  <2>5. Valued(next, Order[next.at]) /\ MadeBy(next, j, Order[next.at])
    BY <1>1, <1>2, <1>8, <1>12
  <2>6. next.phase \notin {"fingerprint", "prune"}
    BY <1>1
  <2>. QED  BY <2>1, <2>4, <2>5, <2>6 DEF Values
<1>15. Fits(next)
  <2>. SUFFICES ASSUME ~next.relost PROVE Fits(next)!2
    BY DEF Fits
  <2>1. \A m \in job.needed \intersect job.hits \intersect Random : Valued(job, m)
    BY <1>0, <1>1, <1>6, <1>7 DEF Fits
  <2>2. ~Printed(job, n) \/ n \notin Random
    <3>1. Printed(job, n) => n \in Inputs \union job.hits
      BY <1>2, <1>6 DEF Prints
    <3>2. n \in Inputs => n \notin Random
      BY GraphAssumption
    <3>. QED  BY <1>a, <2>1, <3>1, <3>2
  <2>3. ASSUME NEW m \in Nodes, Valued(job, m), NEW c \in job.value[m].made_of, c.node \in Random, Printed(job, c.node)
        PROVE  c = job.print[c.node].content
    BY <1>1, <1>6, <1>7, <2>3 DEF Fits
  <2>4. ASSUME NEW c \in made.made_of, c.node \in Random, Printed(job, c.node)
        PROVE  c = job.print[c.node].content
    BY <1>4, <1>13, <2>2, <2>3, <2>4
  <2>5. ASSUME NEW m \in Nodes, Valued(next, m), NEW c \in next.value[m].made_of, c.node \in Random, Printed(next, c.node)
        PROVE  c = next.print[c.node].content
    <3>1. c.node \in Nodes
      BY <2>5, GraphAssumption
    <3>. QED  BY <1>1, <1>8, <2>3, <2>4, <2>5, <3>1
  <2>. QED  BY <1>1, <1>3, <1>8, <2>1, <2>5
<1>. QED  BY <1>9, <1>10, <1>14, <1>15 DEF JobOK, next

\* What has just been run was made of what its parents gave.
LEMMA JustMade ==
  ASSUME NEW O, Typed(O), NEW j \in Jobs, JobOK(jobs[j], j), jobs[j].phase \in {"store", "enter"}
  PROVE  /\ jobs[j].at \in 1 .. Len(Order)
         /\ Valued(jobs[j], Node(j)) /\ MadeBy(jobs[j], j, Node(j))
         /\ \A p \in Needs[Node(j)] : Valued(jobs[j], p)
         /\ jobs[j].value[Node(j)] =
              Output(Node(j), jobs[j].version[Node(j)], InputsOf(Node(j), jobs[j].value), j)
<1>1. jobs[j].at \in 1 .. Len(Order)
  BY DEF JobOK, Ready
<1>2. Valued(jobs[j], Node(j)) /\ MadeBy(jobs[j], j, Node(j))
  BY DEF JobOK, Values, Inactive, Node
<1>. QED  BY <1>1, <1>2 DEF MadeBy

LEMMA StoreOK ==
  ASSUME NEW O, Typed(O), NEW j \in Jobs, JobOK(jobs[j], j), Store(j)
  PROVE  JobOK(jobs'[j], j)
<1>. DEFINE job == jobs[j]
            next == jobs'[j]
            n == Node(j)
<1>0. job.phase \in {"store", "enter"}
  BY DEF Store
<1>1. /\ job.at \in 1 .. Len(Order) /\ Valued(job, n)
      /\ \A p \in Needs[n] : Valued(job, p)
      /\ job.value[n] = Output(n, job.version[n], InputsOf(n, job.value), j)
  BY <1>0, JustMade
<1>2. /\ NextToRun(next, job.at)
      /\ next.version = job.version /\ next.needed = job.needed /\ next.relost = job.relost
      /\ next.print = job.print /\ next.value = job.value /\ next.hits = job.hits
  BY <1>1, StoreFacts
<1>3. /\ n \in Nodes /\ Pos(n) = job.at /\ job \in JobOver(O)
  BY <1>1, NodeFacts
<1>4. job.needed \subseteq Nodes
  BY <1>3, JobFacts
<1>. HIDE DEF job, next, n
<1>6. Ready(job) /\ Prints(job) /\ Values(job, j) /\ Fits(job)
  BY DEF JobOK, job
<1>7. job.phase \notin Inactive /\ next.phase = "run"
  BY <1>0, <1>2 DEF Inactive, NextToRun
<1>8. \A m : (Printed(next, m) <=> Printed(job, m)) /\ (Valued(next, m) <=> Valued(job, m))
  BY <1>2 DEF Printed, Valued
<1>9. Ready(next)
  <2>1. \A m \in next.needed : Valued(next, m) \/ Needs[m] \subseteq next.needed
    BY <1>0, <1>2, <1>6, <1>8 DEF Ready
  <2>2. ASSUME NEW m \in next.needed, Pos(m) < next.at PROVE Valued(next, m)
    <3>1. Pos(m) \in 1 .. Len(Order) /\ (Pos(m) = Pos(n) => m = n)
      BY <1>2, <1>3, <1>4, PosFacts
    <3>2. CASE Pos(m) < job.at
      BY <1>0, <1>2, <1>6, <1>8, <3>2 DEF Ready
    <3>3. CASE Pos(m) > job.at
      BY <1>2, <2>2, <3>3 DEF NextToRun
    <3>. QED  BY <1>1, <1>3, <1>8, <3>1, <3>2, <3>3
  <2>3. Targets \subseteq next.needed
    BY <1>2, <1>6, <1>7 DEF Ready
  <2>4. next.at >= 1
    BY <1>1, <1>2, PosFacts DEF NextToRun
  <2>5. next.at =< Len(Order) => Order[next.at] \in next.needed /\ ~Valued(next, Order[next.at])
    BY <1>2 DEF NextToRun
  <2>. QED  BY <1>7, <2>1, <2>2, <2>3, <2>4, <2>5 DEF Ready
<1>10. Prints(next)
  BY <1>2, <1>6, PrintsStay
<1>11. Values(next, j)
  <2>1. \A m : MadeBy(job, j, m) => MadeBy(next, j, m)
    BY <1>2, <1>8 DEF MadeBy
  <2>. QED  BY <1>2, <1>6, <1>7, <1>8, <2>1 DEF Values
<1>12. Fits(next)
  BY <1>0, <1>2, <1>6, <1>7, <1>8 DEF Fits
<1>. QED  BY <1>9, <1>10, <1>11, <1>12 DEF JobOK, next

-----------------------------------------------------------------------------
(* Every step keeps the types, over what was made so far, and what a        *)
(* training knows and holds.                                                *)

AllOK == \A j \in Jobs : JobOK(jobs[j], j)

LEMMA TypedInit ==
  ASSUME TrainingInit
  PROVE  Typed({NoOutput}) /\ AllOK
<1>. DEFINE O == {NoOutput}
<1>1. Universe(O)
  BY DEF Universe
<1>. HIDE DEF O
<1>2. NoOutput \in O
  BY DEF O
<1>3. cache = <<>> /\ orphans = 0 /\ faults = 0 /\ jobs = [j \in Jobs |-> NoJob]
  BY DEF TrainingInit
<1>4. cache \in Seq(EntryOver(O)) /\ KeyedOnce(cache)
  BY <1>3 DEF KeyedOnce
<1>5. jobs \in [Jobs -> JobOver(O)]
  BY <1>2, <1>3, NoJobType
<1>6. Typed(O)
  BY <1>1, <1>3, <1>4, <1>5 DEF Typed
<1>7. ASSUME NEW j \in Jobs PROVE JobOK(jobs[j], j)
  <2>1. jobs[j] = NoJob
    BY <1>3
  <2>. DEFINE job == NoJob
  <2>2. /\ job.phase \in Inactive /\ job.hits = {}
        /\ \A n \in Nodes : job.print[n] = NoOutput
    BY DEF NoJob, Inactive
  <2>. HIDE DEF job
  <2>3. JobOK(job, j)
    BY <2>2, NothingOK DEF Inactive
  <2>. QED  BY <2>1, <2>3 DEF job
<1>. QED  BY <1>6, <1>7 DEF O, AllOK

\* What one step of training j does keeps the types.
LEMMA TypedStays ==
  ASSUME NEW O, Typed(O), NEW P, O \subseteq P, Universe(P), NEW j \in Jobs,
         cache' \in Seq(EntryOver(O)), KeyedOnce(cache'),
         jobs' = [jobs EXCEPT ![j] = jobs'[j]], jobs'[j] \in JobOver(P),
         orphans' \in Nat, faults' \in Nat
  PROVE  Typed(P)'
<1>1. cache' \in Seq(EntryOver(P)) /\ jobs \in [Jobs -> JobOver(P)]
  BY OverMore DEF Typed
<1>2. jobs' \in [Jobs -> JobOver(P)]
  BY <1>1
<1>. QED  BY <1>1, <1>2 DEF Typed, Universe, Made, InputsOver, EntryOver, JobOver, KeyedOnce

\* The steps of training j.
Step(j) ==
  \/ \E version \in Versions : Start(j, version, TRUE) \/ Start(j, version, FALSE)
  \/ Fingerprint(j)
  \/ Prune(j)
  \/ \E fails \in BOOLEAN : Run(j, fails)
  \/ Store(j)
  \/ Package(j)
  \/ Die(j)

LEMMA NextSteps ==
  ASSUME TrainingNext
  PROVE  \E j \in Jobs : Step(j)
<1>1. PICK j \in Jobs :
        \/ \E version \in Versions, forced \in BOOLEAN : Start(j, version, forced)
        \/ Fingerprint(j)
        \/ Prune(j)
        \/ \E fails \in BOOLEAN : Run(j, fails)
        \/ Store(j)
        \/ Package(j)
        \/ Die(j)
  BY Zenon DEF TrainingNext
<1>2. ASSUME NEW version \in Versions, NEW forced \in BOOLEAN, Start(j, version, forced)
      PROVE  \E v \in Versions : Start(j, v, TRUE) \/ Start(j, v, FALSE)
  <2>1. CASE forced = TRUE
    BY <1>2, <2>1, Zenon
  <2>2. CASE forced = FALSE
    BY <1>2, <2>2, Zenon
  <2>. QED  BY <2>1, <2>2
<1>3. Step(j)
  BY <1>1, <1>2, Zenon DEF Step
<1>. QED  BY <1>3

LEMMA StepTyped ==
  ASSUME NEW O, Typed(O), NEW j \in Jobs, JobOK(jobs[j], j), Step(j)
  PROVE  /\ \E P : O \subseteq P /\ Typed(P)'
         /\ jobs' = [jobs EXCEPT ![j] = jobs'[j]]
         /\ JobOK(jobs'[j], j)
<1>0. /\ Universe(O) /\ cache \in Seq(EntryOver(O)) /\ KeyedOnce(cache)
      /\ orphans \in Nat /\ faults \in Nat
  BY DEF Typed
<1>1. CASE \E version \in Versions : Start(j, version, TRUE) \/ Start(j, version, FALSE)
  <2>1. PICK version \in Versions : Start(j, version, TRUE) \/ Start(j, version, FALSE)
    BY <1>1
  <2>2. jobs' = [jobs EXCEPT ![j] = jobs'[j]] /\ jobs'[j] \in JobOver(O)
    BY <2>1, StartFacts
  <2>3. JobOK(jobs'[j], j)
    BY <2>1, StartOK
  <2>4. cache' = cache /\ orphans' = orphans /\ faults' = faults
    BY <2>1 DEF Start
  <2>5. Typed(O)'
    BY <1>0, <2>2, <2>4, TypedStays
  <2>. QED  BY <2>2, <2>3, <2>5
<1>2. CASE Fingerprint(j)
  <2>1. JobOK(jobs'[j], j)
    BY <1>2, FingerprintOK
  <2>2. orphans' = orphans /\ faults' = faults
    BY <1>2 DEF Fingerprint
  <2>3. PICK read : read = Output(Node(j), jobs[j].version[Node(j)], <<>>, 0)
    OBVIOUS
  <2>4. PICK P : P = O \union {read}
    OBVIOUS
  <2>5. jobs' = [jobs EXCEPT ![j] = jobs'[j]]
    BY <1>2, FingerprintFacts
  <2>6. \/ cache' = cache /\ Universe(P) /\ jobs'[j] \in JobOver(P)
        \/ cache' = cache /\ jobs'[j] \in JobOver(O)
        \/ (\E e \in Entries : cache' = Merged(cache, e)) /\ jobs'[j] \in JobOver(O)
    BY <1>2, <2>3, <2>4, FingerprintFacts
  <2>7. ASSUME NEW e \in Entries, cache' = Merged(cache, e)
        PROVE  cache' \in Seq(EntryOver(O)) /\ KeyedOnce(cache')
    <3>1. e \in EntryOver(O)
      BY <1>0, Elements DEF Entries
    <3>. QED  BY <1>0, <2>7, <3>1, MergedEntries
  <2>8. cache' \in Seq(EntryOver(O)) /\ KeyedOnce(cache')
    <3>1. cache' = cache => KeyedOnce(cache')
      BY <1>0
    <3>. QED  BY <1>0, <2>6, <2>7, <3>1
  <2>9. CASE Universe(P) /\ jobs'[j] \in JobOver(P)
    <3>1. O \subseteq P /\ orphans' \in Nat /\ faults' \in Nat
      BY <1>0, <2>2, <2>4
    <3>2. Typed(P)'
      BY <2>5, <2>8, <2>9, <3>1, TypedStays
    <3>. QED  BY <2>1, <2>5, <3>1, <3>2
  <2>10. CASE jobs'[j] \in JobOver(O)
    <3>2. Typed(O)'
      BY <1>0, <2>2, <2>5, <2>8, <2>10, TypedStays
    <3>. QED  BY <2>1, <2>5, <3>2
  <2>. QED  BY <2>6, <2>9, <2>10
<1>3. CASE Prune(j)
  <2>1. JobOK(jobs'[j], j)
    BY <1>3, PruneOK
  <2>2. cache' = cache /\ orphans' = orphans /\ faults' \in Nat
    <3>1. cache' = cache /\ orphans' = orphans
      BY <1>3 DEF Prune
    <3>2. faults' = faults \/ faults' = faults + 1
      BY <1>3 DEF Prune
    <3>. QED  BY <1>0, <3>1, <3>2
  <2>3. jobs' = [jobs EXCEPT ![j] = jobs'[j]] /\ jobs'[j] \in JobOver(O)
    BY <1>3, PruneFacts
  <2>4. Typed(O)'
    BY <1>0, <2>2, <2>3, TypedStays
  <2>. QED  BY <2>1, <2>3, <2>4
<1>4. ASSUME NEW fails \in BOOLEAN, Run(j, fails)
      PROVE  /\ \E P : O \subseteq P /\ Typed(P)'
             /\ jobs' = [jobs EXCEPT ![j] = jobs'[j]]
             /\ JobOK(jobs'[j], j)
  <2>1. JobOK(jobs'[j], j)
    BY <1>4, RunOK
  <2>2. jobs[j].phase = "run" /\ jobs[j].at \in 1 .. Len(Order)
    BY <1>4, PosFacts DEF Run, At
  <2>3. \A p \in Needs[Node(j)] : Valued(jobs[j], p)
    BY <2>2, ParentsValued DEF JobOK
  <2>4. PICK made : made = Output(Node(j), jobs[j].version[Node(j)], InputsOf(Node(j), jobs[j].value), j)
    OBVIOUS
  <2>5. PICK P : P = O \union {made}
    OBVIOUS
  <2>6. /\ jobs' = [jobs EXCEPT ![j] = jobs'[j]]
        /\ Universe(P) /\ jobs'[j] \in JobOver(P)
        /\ cache' \in Seq(EntryOver(O)) /\ KeyedOnce(cache')
        /\ orphans' \in Nat /\ faults' \in Nat
    <3>. DEFINE u == Output(Node(j), jobs[j].version[Node(j)], InputsOf(Node(j), jobs[j].value), j)
    <3>1. /\ jobs' = [jobs EXCEPT ![j] = jobs'[j]]
          /\ Universe(O \union {u}) /\ jobs'[j] \in JobOver(O \union {u})
          /\ cache' \in Seq(EntryOver(O)) /\ KeyedOnce(cache')
          /\ orphans' \in Nat /\ faults' \in Nat
      <4>1. jobs' = [jobs EXCEPT ![j] = jobs'[j]]
        BY <1>4, <2>3, RunFacts
      <4>2. Universe(O \union {u})
        BY <1>4, <2>3, RunFacts
      <4>3. jobs'[j] \in JobOver(O \union {u})
        BY <1>4, <2>3, RunFacts
      <4>4. cache' \in Seq(EntryOver(O)) /\ KeyedOnce(cache')
        BY <1>4, RunCache
      <4>5. orphans' \in Nat
        BY <1>4, RunCache
      <4>6. faults' \in Nat
        BY <1>4, <2>3, RunFacts
      <4>. QED  BY <4>1, <4>2, <4>3, <4>4, <4>5, <4>6
    <3>. QED  BY <2>4, <2>5, <3>1
  <2>7. O \subseteq P
    BY <2>5
  <2>8. Typed(P)'
    BY <2>6, <2>7, TypedStays
  <2>. QED  BY <2>1, <2>6, <2>7, <2>8
<1>5. CASE Store(j)
  <2>1. JobOK(jobs'[j], j)
    BY <1>5, StoreOK
  <2>2. /\ jobs[j].at \in 1 .. Len(Order)
        /\ \A p \in Needs[Node(j)] : Valued(jobs[j], p)
        /\ jobs[j].value[Node(j)] =
             Output(Node(j), jobs[j].version[Node(j)], InputsOf(Node(j), jobs[j].value), j)
    <3>1. jobs[j].phase \in {"store", "enter"}
      BY <1>5 DEF Store
    <3>. QED  BY <3>1, JustMade
  <2>3. /\ jobs' = [jobs EXCEPT ![j] = jobs'[j]] /\ jobs'[j] \in JobOver(O)
        /\ cache' \in Seq(EntryOver(O)) /\ KeyedOnce(cache') /\ orphans' \in Nat
    BY <1>5, <2>2, StoreFacts
  <2>4. faults' = faults
    BY <1>5 DEF Store
  <2>5. Typed(O)'
    BY <1>0, <2>3, <2>4, TypedStays
  <2>. QED  BY <2>1, <2>3, <2>5
<1>6. CASE Package(j)
  <2>1. JobOK(jobs'[j], j)
    BY <1>6, EndOK
  <2>2. jobs' = [jobs EXCEPT ![j] = jobs'[j]] /\ jobs'[j] \in JobOver(O)
    BY <1>6, PackageFacts
  <2>3. cache' = cache /\ orphans' = orphans /\ faults' = faults
    BY <1>6 DEF Package
  <2>4. Typed(O)'
    BY <1>0, <2>2, <2>3, TypedStays
  <2>. QED  BY <2>1, <2>2, <2>4
<1>7. CASE Die(j)
  <2>1. JobOK(jobs'[j], j)
    BY <1>7, EndOK
  <2>2. jobs' = [jobs EXCEPT ![j] = jobs'[j]] /\ jobs'[j] \in JobOver(O) /\ orphans' \in Nat
    BY <1>7, DieFacts
  <2>3. cache' = cache /\ faults' = faults
    BY <1>7 DEF Die
  <2>4. Typed(O)'
    BY <1>0, <2>2, <2>3, TypedStays
  <2>. QED  BY <2>1, <2>2, <2>4
<1>. QED  BY <1>1, <1>2, <1>3, <1>4, <1>5, <1>6, <1>7 DEF Step

\* What every state of the training keeps.
TrainingInv == (\E O : Typed(O)) /\ AllOK

LEMMA TrainingInvStep ==
  ASSUME TrainingInv, NEW j \in Jobs, Step(j)
  PROVE  TrainingInv'
<1>1. PICK O : Typed(O)
  BY DEF TrainingInv
<1>2. /\ \E P : O \subseteq P /\ Typed(P)'
      /\ jobs' = [jobs EXCEPT ![j] = jobs'[j]]
      /\ JobOK(jobs'[j], j)
  BY <1>1, StepTyped DEF TrainingInv, AllOK
<1>3. \A i \in Jobs \ {j} : jobs'[i] = jobs[i]
  BY <1>1, <1>2, Others DEF Typed
<1>4. \A i \in Jobs : JobOK(jobs'[i], i)
  BY <1>2, <1>3 DEF TrainingInv, AllOK
<1>5. AllOK'
  BY <1>4 DEF AllOK
<1>. QED  BY <1>2, <1>5 DEF TrainingInv

\* The inductive invariant: what is stored was made by its node, with the
\* configuration its key names, of what its key names.
THEOREM TrainingKeepsInv == TrainingSpec => []TrainingInv
<1>1. TrainingInit => TrainingInv
  BY TypedInit DEF TrainingInv
<1>2. TrainingInv /\ [TrainingNext]_trainingVars => TrainingInv'
  <2>1. ASSUME TrainingInv, TrainingNext PROVE TrainingInv'
    BY <2>1, NextSteps, TrainingInvStep
  <2>2. ASSUME TrainingInv, UNCHANGED trainingVars PROVE TrainingInv'
    BY <2>2 DEF trainingVars, TrainingInv, AllOK, Typed
  <2>. QED  BY <2>1, <2>2
<1>. QED  BY <1>1, <1>2, PTL DEF TrainingSpec

\* The type invariant of the training: what the cache and the trainings hold,
\* and that a key has one entry.
THEOREM TrainingTypeCorrect == TrainingSpec => []TrainingTypeOK
<1>1. ASSUME TrainingInv PROVE TrainingTypeOK
  <2>1. PICK O : Typed(O)
    BY <1>1 DEF TrainingInv
  <2>2. \A e \in Entries : e \in EntryOver(O)
    BY <2>1, Elements DEF Typed, Entries
  <2>3. \A e \in Entries : e.stored \in BOOLEAN /\ e.output # NoOutput
    BY <2>2, EntryFacts
  <2>4. \A d, e \in Entries : d.key = e.key => d = e
    BY <2>1, KeyedOnceSets DEF Typed, Entries
  <2>5. ASSUME NEW j \in Jobs
        PROVE  /\ jobs[j].phase \in Phases /\ jobs[j].at \in 0 .. Len(Order) + 1
               /\ jobs[j].hits \subseteq Nodes \ Inputs /\ jobs[j].needed \subseteq Nodes
    <3>1. jobs[j] \in JobOver(O) /\ Prints(jobs[j])
      BY <1>1, <2>1 DEF Typed, TrainingInv, AllOK, JobOK
    <3>. QED  BY <3>1, JobFacts DEF Prints
  <2>. QED  BY <2>1, <2>3, <2>4, <2>5 DEF TrainingTypeOK, Phases, Typed
<1>. QED  BY <1>1, TrainingKeepsInv, PTL

-----------------------------------------------------------------------------
(* A training gives a model that fits.                                      *)

\* What AsIfTrainedInFull says of one training.
InFull(job) ==
  job.phase = "done" /\ ~job.relost =>
    \E runs \in [Random -> Jobs] :
      \A n \in Targets : MadeOf(job.value[n]) = FullTraining(n, job.version, runs)

\* The runs: of the training itself, and of those whose results it restored.
LEMMA PackageInFull ==
  ASSUME NEW O, Typed(O), NEW j \in Jobs, JobOK(jobs[j], j), Package(j)
  PROVE  InFull(jobs'[j])
<1>. DEFINE job == jobs[j]
            next == jobs'[j]
            runs == [m \in Random |-> IF Printed(job, m) THEN job.print[m].content.run ELSE j]
<1>1. /\ job.phase = "run" /\ job.at > Len(Order)
      /\ next = [NoJob EXCEPT !.phase = "done", !.version = job.version,
                     !.value = [n \in Nodes |-> IF n \in Targets THEN job.value[n] ELSE NoOutput],
                     !.relost = job.relost]
  BY PackageFacts
<1>2. /\ next.version = job.version /\ next.relost = job.relost
      /\ \A n \in Targets : next.value[n] = job.value[n]
  BY <1>1, GraphAssumption DEF NoJob
<1>3. job \in JobOver(O) /\ Universe(O)
  BY DEF Typed
<1>. HIDE DEF job, next
<1>4. Ready(job) /\ Prints(job) /\ Values(job, j) /\ Fits(job) /\ job.phase \notin Inactive
  BY <1>1 DEF JobOK, job, Inactive
<1>5. Random \subseteq Nodes /\ Targets \subseteq Nodes
  BY GraphAssumption
<1>6. ASSUME NEW n \in Targets PROVE Valued(job, n) /\ n \in Nodes
  <2>1. n \in job.needed /\ Pos(n) < job.at
    BY <1>1, <1>4, <1>5, <1>3, JobFacts, PosFacts DEF Ready
  <2>. QED  BY <1>1, <1>4, <1>5, <2>1 DEF Ready
<1>7. runs \in [Random -> Jobs]
  <2>1. ASSUME NEW m \in Random, Printed(job, m) PROVE job.print[m].content.run \in Jobs
    <3>. DEFINE o == job.print[m]
    <3>1. o \in O \ {NoOutput} /\ o.content.node = m /\ m \in Nodes
      BY <1>3, <1>5, <2>1, JobFacts DEF Printed
    <3>. HIDE DEF o
    <3>2. PICK k \in Nodes, run \in 0 .. MaxTrainings :
            /\ k \notin Inputs => run \in Jobs
            /\ \E setting \in Nat : \E f \in InputsOver(k, O) : o = Output(k, setting, f, run)
      BY <1>3, <3>1 DEF Universe, Made
    <3>3. o.content.node = k /\ o.content.run = (IF k \in Random THEN run ELSE 0)
      BY <3>2, OutputFields
    <3>4. m \notin Inputs
      BY GraphAssumption
    <3>. QED  BY <3>1, <3>2, <3>3, <3>4 DEF o
  <2>. QED  BY <2>1
<1>8. ASSUME ~job.relost, NEW n \in Targets
      PROVE  MadeOf(job.value[n]) = FullTraining(n, job.version, runs)
  <2>. DEFINE o == job.value[n]
              Part(c) == [node |-> c.node, setting |-> c.setting, run |-> c.run]
              Full(m) == [node |-> m, setting |-> job.version[m], run |-> IF m \in Random THEN runs[m] ELSE 0]
  <2>1. o \in O \ {NoOutput} /\ o.content.node = n
    BY <1>3, <1>6, JobFacts DEF Valued
  <2>2. /\ {c.node : c \in o.made_of} = Lineage(n)
        /\ \A c \in o.made_of : c.run = 0 \/ (c.node \in Random /\ c.run \in Jobs)
    BY <1>3, <2>1 DEF Universe
  <2>3. ASSUME NEW c \in o.made_of PROVE Part(c) = Full(c.node)
    <3>1. c.setting = job.version[c.node]
      BY <1>4, <1>6, <2>3 DEF Values
    <3>2. CASE c.node \notin Random
      BY <2>2, <2>3, <3>1, <3>2
    <3>3. CASE c.node \in Random
      <4>1. c.run = j \/ (Printed(job, c.node) /\ c = job.print[c.node].content)
        BY <1>4, <1>6, <2>3, <3>3 DEF Values
      <4>2. Printed(job, c.node) => c = job.print[c.node].content
        BY <1>4, <1>6, <1>8, <2>3, <3>3 DEF Fits
      <4>3. runs[c.node] = IF Printed(job, c.node) THEN job.print[c.node].content.run ELSE j
        BY <3>3
      <4>4. c.run = runs[c.node]
        BY <4>1, <4>2, <4>3
      <4>. QED  BY <3>1, <3>3, <4>4
    <3>. QED  BY <3>2, <3>3
  <2>4. MadeOf(o) = {Part(c) : c \in o.made_of} /\ FullTraining(n, job.version, runs) = {Full(m) : m \in Lineage(n)}
    BY DEF MadeOf, FullTraining
  <2>. HIDE DEF o, Part, Full
  <2>5. \A c \in o.made_of : c.node \in Lineage(n)
    BY <2>2
  <2>6. \A m \in Lineage(n) : \E c \in o.made_of : c.node = m
    BY <2>2
  <2>7. {Part(c) : c \in o.made_of} = {Full(m) : m \in Lineage(n)}
    BY <2>3, <2>5, <2>6
  <2>. QED  BY <2>4, <2>7 DEF o
<1>. HIDE DEF runs
<1>9. InFull(next)
  BY <1>2, <1>7, <1>8 DEF InFull
<1>. QED  BY <1>9 DEF next

\* A training that uses the cache gives what a full training could have
\* given: the entries it uses were made of its own configuration and data,
\* and of each other's results.
THEOREM ModelsAsIfTrainedInFull == TrainingSpec => []AsIfTrainedInFull
<1>. DEFINE AllInFull == \A j \in Jobs : InFull(jobs[j])
<1>1. TrainingInit => AllInFull
  BY DEF TrainingInit, NoJob, InFull
<1>2. TrainingInv /\ AllInFull /\ [TrainingNext]_trainingVars => AllInFull'
  <2>. SUFFICES ASSUME TrainingInv, AllInFull, [TrainingNext]_trainingVars PROVE AllInFull'
    OBVIOUS
  <2>1. CASE UNCHANGED trainingVars
    BY <2>1 DEF trainingVars
  <2>2. ASSUME NEW j \in Jobs, Step(j) PROVE AllInFull'
    <3>1. PICK O : Typed(O)
      BY DEF TrainingInv
    <3>2. JobOK(jobs[j], j)
      BY DEF TrainingInv, AllOK
    <3>3. jobs' = [jobs EXCEPT ![j] = jobs'[j]]
      BY <2>2, <3>1, <3>2, StepTyped
    <3>4. \A i \in Jobs \ {j} : jobs'[i] = jobs[i]
      BY <3>1, <3>3, Others DEF Typed
    <3>5. InFull(jobs'[j])
      <4>1. CASE Package(j)
        BY <3>1, <3>2, <4>1, PackageInFull
      <4>2. CASE ~Package(j)
        <5>1. jobs'[j].phase # "done"
          <6>1. CASE \E version \in Versions : Start(j, version, TRUE) \/ Start(j, version, FALSE)
            <7>1. jobs'[j].phase = "run" \/ jobs'[j].phase = "fingerprint"
              BY <3>1, <6>1, StartFacts
            <7>. QED  BY <7>1
          <6>2. CASE Fingerprint(j)
            BY <3>1, <6>2, FingerprintFacts
          <6>3. CASE Prune(j)
            BY <3>1, <6>3, PruneFacts DEF NextToRun
          <6>4. ASSUME NEW fails \in BOOLEAN, Run(j, fails) PROVE jobs'[j].phase # "done"
            <7>1. jobs[j].phase = "run" /\ jobs[j].at \in 1 .. Len(Order)
              BY <6>4, PosFacts DEF Run, At
            <7>2. \A p \in Needs[Node(j)] : Valued(jobs[j], p)
              BY <3>1, <3>2, <7>1, ParentsValued DEF JobOK
            <7>3. jobs'[j].phase = "store" \/ jobs'[j].phase = "enter"
              BY <3>1, <6>4, <7>2, RunFacts
            <7>. QED  BY <7>3
          <6>5. CASE Store(j)
            <7>1. jobs[j].phase \in {"store", "enter"}
              BY <6>5 DEF Store
            <7>2. /\ jobs[j].at \in 1 .. Len(Order)
                  /\ \A p \in Needs[Node(j)] : Valued(jobs[j], p)
                  /\ jobs[j].value[Node(j)] =
                       Output(Node(j), jobs[j].version[Node(j)], InputsOf(Node(j), jobs[j].value), j)
              BY <3>1, <3>2, <7>1, JustMade
            <7>3. NextToRun(jobs'[j], jobs[j].at)
              BY <3>1, <6>5, <7>2, StoreFacts
            <7>. QED  BY <7>3 DEF NextToRun
          <6>6. CASE Die(j)
            <7>1. jobs'[j] = [NoJob EXCEPT !.phase = "died"]
              BY <3>1, <6>6, DieFacts
            <7>. QED  BY <7>1 DEF NoJob
          <6>. QED  BY <2>2, <4>2, <6>1, <6>2, <6>3, <6>4, <6>5, <6>6 DEF Step
        <5>. QED  BY <5>1 DEF InFull
      <4>. QED  BY <4>1, <4>2
    <3>6. \A i \in Jobs : InFull(jobs'[i])
      BY <3>4, <3>5
    <3>. QED  BY <3>6
  <2>. QED  BY <2>1, <2>2, NextSteps
<1>3. AllInFull => AsIfTrainedInFull
  BY DEF InFull, AsIfTrainedInFull
<1>. QED  BY <1>1, <1>2, <1>3, TrainingKeepsInv, PTL DEF TrainingSpec

-----------------------------------------------------------------------------
(* The size of the cache.                                                   *)

\* What InUse counts depends on the set of the entries.
LEMMA InUseSame ==
  ASSUME NEW s, NEW t, ToSet(s) = ToSet(t), NEW left
  PROVE  InUse(s, left) = InUse(t, left)
BY DEF InUse

\* An entry that is written again moves to the end, and nothing else changes.
LEMMA MergedAgain ==
  ASSUME NEW E, NEW s \in Seq(E), KeyedOnce(s), NEW e \in ToSet(s)
  PROVE  ToSet(Merged(s, e)) = ToSet(s)
<1>1. e \in E
  BY Elements
<1>2. ToSet(Merged(s, e)) = {d \in ToSet(s) : d.key # e.key} \union {e}
  BY <1>1, MergedEntries
<1>3. \A d \in ToSet(s) : d.key = e.key => d = e
  BY KeyedOnceSets
<1>. QED  BY <1>2, <1>3

\* The result of an entry that is overwritten stays on disk: the size grows
\* by what is stored.
LEMMA InUseStored ==
  ASSUME NEW E, NEW s \in Seq(E), NEW t \in Seq(E), NEW left \in Nat, NEW entry, NEW key,
         entry.key = key, entry.stored \in BOOLEAN,
         ToSet(t) = {e \in ToSet(s) : e.key # key} \union {entry}
  PROVE  InUse(t, left + Cardinality(Stored({e \in ToSet(s) : e.key = key}))) =
           InUse(s, left) + (IF entry.stored THEN 1 ELSE 0)
<1>. DEFINE rest == Stored({e \in ToSet(s) : e.key # key})
            same == Stored({e \in ToSet(s) : e.key = key})
            all == Stored(ToSet(t))
<1>1. IsFiniteSet(rest) /\ IsFiniteSet(same) /\ IsFiniteSet(all)
  <2>1. IsFiniteSet(ToSet(s)) /\ rest \subseteq ToSet(s) /\ same \subseteq ToSet(s)
    BY Elements DEF Stored
  <2>2. IsFiniteSet(all)
    BY InUseFacts
  <2>. QED  BY <2>1, <2>2, FS_Subset
<1>2. Stored(ToSet(s)) = rest \union same /\ rest \intersect same = {}
  BY DEF Stored
<1>3. entry \notin rest /\ all = IF entry.stored THEN rest \union {entry} ELSE rest
  BY DEF Stored
<1>. HIDE DEF rest, same, all
<1>4. Cardinality(rest \union same) = Cardinality(rest) + Cardinality(same)
  <2>1. Cardinality(rest \union same) = Cardinality(rest) + Cardinality(same) - Cardinality(rest \intersect same)
    BY <1>1, FS_Union
  <2>2. Cardinality(rest) \in Nat /\ Cardinality(same) \in Nat /\ Cardinality(rest \intersect same) = 0
    BY <1>1, <1>2, FS_CardinalityType, FS_EmptySet
  <2>. QED  BY <2>1, <2>2
<1>5. Cardinality(all) = Cardinality(rest) + (IF entry.stored THEN 1 ELSE 0)
  <2>1. CASE entry.stored
    BY <1>1, <1>3, <2>1, FS_AddElement
  <2>2. CASE ~entry.stored
    <3>1. all = rest /\ Cardinality(rest) \in Nat
      BY <1>1, <1>3, <2>2, FS_CardinalityType
    <3>. QED  BY <2>2, <3>1
  <2>. QED  BY <2>1, <2>2
<1>6. Cardinality(rest) \in Nat /\ Cardinality(same) \in Nat /\ left + Cardinality(same) \in Nat
  BY <1>1, FS_CardinalityType
<1>7. InUse(s, left) = Cardinality(rest) + Cardinality(same) + left
  BY <1>2, <1>4, InUseFacts
<1>8. InUse(t, left + Cardinality(same)) = Cardinality(all) + (left + Cardinality(same))
  BY <1>6, InUseFacts DEF all
<1>9. InUse(t, left + Cardinality(same)) = InUse(s, left) + (IF entry.stored THEN 1 ELSE 0)
  BY <1>5, <1>6, <1>7, <1>8
<1>. QED  BY <1>9 DEF same

\* Trainings that do not overlap run one at a time, and what one is about to
\* move into the cache has room there.
Room ==
  "overlap" \notin causes =>
    /\ \A i, k \in Jobs : jobs[i].phase \notin Inactive /\ jobs[k].phase \notin Inactive => i = k
    /\ InUse(cache, orphans) =< Capacity
    /\ \A i \in Jobs : jobs[i].phase = "store" => InUse(cache, orphans) + 1 =< Capacity

\* A running training, if there is no other, goes on with room for what it
\* is about to store.
LEMMA RoomStays ==
  ASSUME NEW O, Typed(O), NEW j \in Jobs, jobs' = [jobs EXCEPT ![j] = jobs'[j]],
         Room, jobs[j].phase \notin Inactive, causes \subseteq causes',
         "overlap" \notin causes =>
           /\ InUse(cache', orphans') =< Capacity
           /\ jobs'[j].phase = "store" => InUse(cache', orphans') + 1 =< Capacity
  PROVE  Room'
<1>1. \A i \in Jobs \ {j} : jobs'[i] = jobs[i]
  BY Others DEF Typed
<1>. SUFFICES ASSUME "overlap" \notin causes' PROVE Room!2'
  BY DEF Room
<1>2. "overlap" \notin causes
  OBVIOUS
<1>3. \A i \in Jobs \ {j} : jobs'[i].phase \in Inactive
  BY <1>1, <1>2 DEF Room
<1>4. \A i \in Jobs \ {j} : jobs'[i].phase # "store"
  BY <1>3 DEF Inactive
<1>. QED  BY <1>2, <1>3, <1>4

LEMMA RoomStep ==
  ASSUME TrainingInv, Room, NEW j \in Jobs, Step(j)
  PROVE  Room'
<1>1. PICK O : Typed(O)
  BY DEF TrainingInv
<1>2. JobOK(jobs[j], j)
  BY DEF TrainingInv, AllOK
<1>3. jobs' = [jobs EXCEPT ![j] = jobs'[j]]
  BY <1>1, <1>2, StepTyped
<1>4. /\ cache \in Seq(EntryOver(O)) /\ KeyedOnce(cache) /\ orphans \in Nat /\ Capacity \in Nat
      /\ InUse(cache, orphans) \in Nat
  <2>1. cache \in Seq(EntryOver(O)) /\ KeyedOnce(cache) /\ orphans \in Nat /\ Capacity \in Nat
    BY <1>1, GraphAssumption DEF Typed
  <2>. QED  BY <2>1, InUseFacts
<1>5. CASE \E version \in Versions : Start(j, version, TRUE) \/ Start(j, version, FALSE)
  <2>1. PICK version \in Versions : Start(j, version, TRUE) \/ Start(j, version, FALSE)
    BY <1>5
  <2>2. cache' = cache /\ orphans' = orphans
    BY <2>1 DEF Start
  <2>3. /\ jobs'[j].phase = "run" \/ jobs'[j].phase = "fingerprint"
        /\ causes \subseteq causes' /\ ("overlap" \notin causes' => Running = {})
    <3>1. jobs'[j].phase = "run" \/ jobs'[j].phase = "fingerprint"
      BY <1>1, <2>1, StartFacts
    <3>2. causes \subseteq causes'
      BY <2>1 DEF Start
    <3>3. "overlap" \notin causes' => Running = {}
      BY <1>1, <2>1, StartFacts
    <3>. QED  BY <3>1, <3>2, <3>3
  <2>4. \A i \in Jobs \ {j} : jobs'[i] = jobs[i]
    BY <1>1, <1>3, Others DEF Typed
  <2>. SUFFICES ASSUME "overlap" \notin causes' PROVE Room!2'
    BY DEF Room
  <2>5. \A i \in Jobs : jobs[i].phase \in Inactive
    BY <2>3 DEF Running, Inactive
  <2>6. \A i \in Jobs \ {j} : jobs'[i].phase \in Inactive
    BY <2>4, <2>5
  <2>7. \A i \in Jobs : jobs'[i].phase # "store"
    BY <2>3, <2>6 DEF Inactive
  <2>. QED  BY <2>2, <2>3, <2>6, <2>7 DEF Room
<1>6. CASE Fingerprint(j)
  <2>1. jobs[j].phase = "fingerprint" /\ jobs'[j].phase # "store"
    BY <1>1, <1>6, FingerprintFacts
  <2>2. orphans' = orphans /\ causes' = causes
    BY <1>6 DEF Fingerprint
  <2>3. cache' = cache \/ \E e \in Entries : cache' = Merged(cache, e)
    BY <1>1, <1>6, FingerprintFacts
  <2>4. ToSet(cache') = ToSet(cache)
    BY <1>4, <2>3, MergedAgain DEF Entries
  <2>5. InUse(cache', orphans') = InUse(cache, orphans)
    BY <2>2, <2>4, InUseSame
  <2>. QED  BY <1>1, <1>3, <2>1, <2>2, <2>5, RoomStays DEF Room, Inactive
<1>7. CASE Prune(j)
  <2>1. jobs[j].phase = "prune" /\ jobs'[j].phase # "store"
    BY <1>1, <1>7, PruneFacts DEF NextToRun
  <2>2. cache' = cache /\ orphans' = orphans /\ causes \subseteq causes'
    BY <1>7 DEF Prune
  <2>. QED  BY <1>1, <1>3, <2>1, <2>2, RoomStays DEF Room, Inactive
<1>8. ASSUME NEW fails \in BOOLEAN, Run(j, fails) PROVE Room'
  <2>1. jobs[j].phase = "run" /\ jobs[j].at \in 1 .. Len(Order)
    BY <1>8, PosFacts DEF Run, At
  <2>2. \A p \in Needs[Node(j)] : Valued(jobs[j], p)
    BY <1>1, <1>2, <2>1, ParentsValued DEF JobOK
  <2>3. \/ jobs'[j].phase = "store" /\ InUse(cache', orphans') + 1 =< Capacity
        \/ jobs'[j].phase = "enter" /\ cache' = cache /\ orphans' = orphans
    BY <1>1, <1>8, <2>2, RunFacts
  <2>4. causes \subseteq causes' /\ cache' \in Seq(EntryOver(O)) /\ orphans' \in Nat
    <3>1. causes \subseteq causes'
      BY <1>1, <1>8, <2>2, RunFacts
    <3>2. cache' \in Seq(EntryOver(O))
      BY <1>1, <1>8, RunCache
    <3>3. orphans' \in Nat
      BY <1>1, <1>8, RunCache
    <3>. QED  BY <3>1, <3>2, <3>3
  <2>5. InUse(cache', orphans') \in Nat
    <3>1. \A s \in Seq(EntryOver(O)) : \A left \in Nat : InUse(s, left) \in Nat
      BY InUseFacts
    <3>. QED  BY <2>4, <3>1
  <2>6. "overlap" \notin causes =>
           /\ InUse(cache', orphans') =< Capacity
           /\ jobs'[j].phase = "store" => InUse(cache', orphans') + 1 =< Capacity
    BY <1>4, <2>3, <2>5 DEF Room
  <2>. QED  BY <1>1, <1>3, <2>1, <2>4, <2>6, RoomStays DEF Inactive
<1>9. CASE Store(j)
  <2>. DEFINE n == Node(j)
              key == Key(n, jobs[j].version[n], InputsOf(n, jobs[j].value))
              entry == [key |-> key, output |-> jobs[j].value[n], stored |-> jobs[j].phase = "store"]
  <2>1. jobs[j].phase \in {"store", "enter"}
    BY <1>9 DEF Store
  <2>2. /\ jobs[j].at \in 1 .. Len(Order)
        /\ \A p \in Needs[n] : Valued(jobs[j], p)
        /\ jobs[j].value[n] = Output(n, jobs[j].version[n], InputsOf(n, jobs[j].value), j)
    BY <1>2, <1>1, <2>1, JustMade
  <2>3. /\ NextToRun(jobs'[j], jobs[j].at) /\ causes \subseteq causes'
        /\ cache' \in Seq(EntryOver(O))
        /\ ToSet(cache') = {e \in ToSet(cache) : e.key # key} \union {entry}
        /\ orphans' = orphans + Cardinality(Stored({e \in ToSet(cache) : e.key = key}))
    BY <1>1, <1>9, <2>2, StoreFacts DEF Entries
  <2>4. entry.key = key /\ entry.stored \in BOOLEAN /\ (entry.stored <=> jobs[j].phase = "store")
    OBVIOUS
  <2>. HIDE DEF entry, key
  <2>5. PICK c : c = cache'
    OBVIOUS
  <2>6. InUse(cache', orphans') = InUse(cache, orphans) + (IF entry.stored THEN 1 ELSE 0)
    BY <1>4, <2>3, <2>4, <2>5, InUseStored
  <2>7. jobs'[j].phase # "store"
    BY <2>3 DEF NextToRun
  <2>8. "overlap" \notin causes => InUse(cache', orphans') =< Capacity
    BY <1>4, <2>4, <2>6 DEF Room
  <2>. QED  BY <1>1, <1>3, <2>1, <2>3, <2>7, <2>8, RoomStays DEF Inactive
<1>10. CASE Package(j)
  <2>1. jobs[j].phase = "run"
    BY <1>1, <1>10, PackageFacts
  <2>2. jobs'[j].phase # "store"
    <3>1. jobs'[j] = [NoJob EXCEPT !.phase = "done", !.version = jobs[j].version,
                     !.value = [n \in Nodes |-> IF n \in Targets THEN jobs[j].value[n] ELSE NoOutput],
                     !.relost = jobs[j].relost]
      BY <1>1, <1>10, PackageFacts
    <3>. QED  BY <3>1 DEF NoJob
  <2>3. cache' = cache /\ orphans' = orphans /\ causes' = causes
    BY <1>10 DEF Package
  <2>. QED  BY <1>1, <1>3, <2>1, <2>2, <2>3, RoomStays DEF Room, Inactive
<1>11. CASE Die(j)
  <2>1. /\ jobs[j].phase \notin Inactive /\ jobs'[j] = [NoJob EXCEPT !.phase = "died"]
        /\ orphans' \in Nat /\ orphans' =< orphans + (IF jobs[j].phase = "store" THEN 1 ELSE 0)
        /\ causes' = causes \union {"died"}
    BY <1>1, <1>11, DieFacts
  <2>2. jobs'[j].phase # "store"
    BY <2>1 DEF NoJob
  <2>3. cache' = cache
    BY <1>11 DEF Die
  <2>4. InUse(cache', orphans') =< InUse(cache, orphans) + (IF jobs[j].phase = "store" THEN 1 ELSE 0)
    <3>1. PICK used \in Nat : \A left \in Nat : InUse(cache, left) = used + left
      BY <1>4, InUseFacts
    <3>. QED  BY <1>4, <2>1, <2>3, <3>1
  <2>5. InUse(cache', orphans') \in Nat
    BY <1>4, <2>1, <2>3, InUseFacts
  <2>6. "overlap" \notin causes => InUse(cache', orphans') =< Capacity
    BY <1>4, <2>4, <2>5 DEF Room
  <2>. QED  BY <1>1, <1>3, <2>1, <2>2, <2>6, RoomStays
<1>. QED  BY <1>5, <1>6, <1>7, <1>8, <1>9, <1>10, <1>11 DEF Step

-----------------------------------------------------------------------------
(* What a training finds in the cache.                                      *)

\* What an output was made of has the run of training i in it.
Marked(o, i) == \E c \in o.made_of : c.run = i

Early == {"none", "fingerprint", "prune"}
RunPhases == {"run", "store", "enter"}

\* What was made of a training's results comes after the training began to run.
Unmarked ==
  \A i \in Jobs : jobs[i].phase \in Early =>
    /\ \A e \in Entries : ~Marked(e.output, i)
    /\ \A k \in Jobs, n \in Nodes : Printed(jobs[k], n) => ~Marked(jobs[k].print[n], i)

\* An entry suits a training: the same configuration and data, and what
\* differs from run to run is what the training has the prints of.
Suits(job, e) ==
  \A c \in e.output.made_of :
    /\ c.setting = job.version[c.node]
    /\ c.node \in Random /\ c.node # e.key.node =>
         Printed(job, c.node) /\ c = job.print[c.node].content

\* The nodes that were looked up, and of which nothing was stored since.
LookedUp(job, n) ==
  \/ job.phase = "fingerprint" /\ Pos(n) < job.at
  \/ job.phase = "prune"
  \/ job.phase \in RunPhases /\ Pos(n) >= job.at

\* A training has found all that suits it.
Knows(job, entries) ==
  \A e \in entries :
    e.key.node \notin Inputs /\ LookedUp(job, e.key.node) /\ Suits(job, e) =>
      Printed(job, e.key.node) /\ job.print[e.key.node] = e.output

\* A node that is run although it was found.
Rerun(job, n) ==
  /\ n \in job.needed \intersect job.hits
  /\ \/ job.phase = "prune" /\ Pos(n) > job.at /\ ~Valued(job, n)
     \/ job.phase \in RunPhases /\ ~Valued(job, n)
     \/ job.phase \in {"store", "enter"} /\ Pos(n) = job.at

\* What is run although it was found has no stored result.
Unstored(job, entries) ==
  \A n \in Nodes : Rerun(job, n) => \A e \in entries : e.output = job.print[n] => ~e.stored

\* What is run is needed, and no input.
Runs(job) ==
  /\ job.phase \in RunPhases => \A n \in Inputs : Printed(job, n) /\ Valued(job, n)
  /\ job.phase \in {"store", "enter"} => Order[job.at] \in job.needed \ Inputs

\* What a training has stored so far.
MarksBefore(job, j, entries) ==
  job.phase \in RunPhases => \A e \in entries : Marked(e.output, j) => Pos(e.key.node) < job.at

Tidy(job, j, entries) ==
  job.phase \notin Inactive =>
    Knows(job, entries) /\ Unstored(job, entries) /\ Runs(job) /\ MarksBefore(job, j, entries)

Disturbed == causes \intersect {"forced", "overlap", "fault", "died", "parted"} # {}

NoLeak ==
  ~Disturbed =>
    /\ orphans = 0 /\ ~Parted(cache)
    /\ \A j \in Jobs : Tidy(jobs[j], j, Entries)

LEMMA ContentMade ==
  ASSUME NEW O, Universe(O), NEW o \in O \ {NoOutput}
  PROVE  /\ o.content \in o.made_of
         /\ \A c \in o.made_of : c.run = 0 \/ (c.node \in Random /\ c.run \in Jobs)
<1>1. PICK n \in Nodes, run \in 0 .. MaxTrainings :
        \E setting \in Nat : \E f \in InputsOver(n, O) : o = Output(n, setting, f, run)
  BY DEF Universe, Made
<1>. QED  BY <1>1, OutputFields DEF Universe

\* Where the entries and the prints come from.
LEMMA StepSources ==
  ASSUME NEW O, Typed(O), NEW j \in Jobs, JobOK(jobs[j], j), Step(j)
  PROVE  /\ jobs'[j].phase \in Early => jobs[j].phase \in Early
         /\ \A e \in ToSet(cache') :
              \/ e \in Entries
              \/ /\ jobs[j].phase \in {"store", "enter"} /\ Node(j) \in Nodes /\ Valued(jobs[j], Node(j))
                 /\ e.output = jobs[j].value[Node(j)]
         /\ \A n \in Nodes : Printed(jobs'[j], n) =>
              \/ jobs'[j].print[n] = jobs[j].print[n]
              \/ \E e \in Entries : jobs'[j].print[n] = e.output
              \/ n \in Inputs /\ \E setting : jobs'[j].print[n] = Output(n, setting, <<>>, 0)
<1>. DEFINE Phases1 == jobs'[j].phase \in Early => jobs[j].phase \in Early
            Old == ToSet(cache') \subseteq Entries
            Same == jobs'[j].print = jobs[j].print
            None == jobs'[j].print = [n \in Nodes |-> NoOutput]
<1>0. cache' = cache => Old
  BY DEF Entries
<1>1. CASE \E version \in Versions : Start(j, version, TRUE) \/ Start(j, version, FALSE)
  <2>1. PICK version \in Versions : Start(j, version, TRUE) \/ Start(j, version, FALSE)
    BY <1>1
  <2>2. cache' = cache
    BY <2>1 DEF Start
  <2>3. jobs[j].phase = "none" /\ None
    BY <2>1, StartFacts
  <2>. QED  BY <1>0, <2>2, <2>3 DEF Early, Printed
<1>2. CASE Fingerprint(j)
  <2>. DEFINE n == Node(j)
              read == Output(n, jobs[j].version[n], <<>>, 0)
  <2>1. jobs[j].phase = "fingerprint" /\ jobs[j].at \in 1 .. Len(Order)
    BY <1>2, FingerprintFacts
  <2>2. \/ n \in Inputs /\ cache' = cache /\ jobs'[j].print = [jobs[j].print EXCEPT ![n] = read]
        \/ cache' = cache /\ Same
        \/ \E e \in Entries : jobs'[j].print = [jobs[j].print EXCEPT ![n] = e.output] /\ cache' = Merged(cache, e)
    BY <1>2, FingerprintFacts
  <2>3. \A e \in Entries : cache' = Merged(cache, e) => Old
    BY MergedAgain DEF Typed, Entries
  <2>4. n \in Nodes /\ jobs[j].print \in [Nodes -> O]
    BY <2>1, NodeFacts, JobFacts
  <2>. HIDE DEF n, read
  <2>5. Old
    BY <1>0, <2>2, <2>3
  <2>6. \A m \in Nodes :
              \/ jobs'[j].print[m] = jobs[j].print[m]
              \/ \E e \in Entries : jobs'[j].print[m] = e.output
              \/ m \in Inputs /\ \E setting : jobs'[j].print[m] = Output(m, setting, <<>>, 0)
    BY <2>2, <2>4 DEF read
  <2>. QED  BY <2>1, <2>5, <2>6 DEF Early
<1>3. CASE Prune(j)
  <2>1. jobs[j].phase = "prune" /\ Same
    BY <1>3, PruneFacts
  <2>2. cache' = cache
    BY <1>3 DEF Prune
  <2>. QED  BY <1>0, <2>1, <2>2 DEF Early
<1>4. ASSUME NEW fails \in BOOLEAN, Run(j, fails) PROVE Phases1 /\ Old /\ Same
  <2>1. jobs[j].phase = "run" /\ jobs[j].at \in 1 .. Len(Order)
    BY <1>4, PosFacts DEF Run, At
  <2>2. \A p \in Needs[Node(j)] : Valued(jobs[j], p)
    BY <2>1, ParentsValued DEF JobOK
  <2>3. jobs'[j].phase = "store" \/ jobs'[j].phase = "enter"
    BY <1>4, <2>2, RunFacts
  <2>4. Old
    BY <1>4, <2>2, RunFacts
  <2>5. Same
    BY <1>4, <2>2, RunFacts
  <2>. QED  BY <2>3, <2>4, <2>5 DEF Early
<1>5. CASE Store(j)
  <2>. DEFINE n == Node(j)
              key == Key(n, jobs[j].version[n], InputsOf(n, jobs[j].value))
              entry == [key |-> key, output |-> jobs[j].value[n], stored |-> jobs[j].phase = "store"]
  <2>1. jobs[j].phase \in {"store", "enter"}
    BY <1>5 DEF Store
  <2>2. /\ jobs[j].at \in 1 .. Len(Order) /\ Valued(jobs[j], n)
        /\ \A p \in Needs[n] : Valued(jobs[j], p)
        /\ jobs[j].value[n] = Output(n, jobs[j].version[n], InputsOf(n, jobs[j].value), j)
    BY <2>1, JustMade
  <2>3. /\ NextToRun(jobs'[j], jobs[j].at)
        /\ ToSet(cache') = {e \in Entries : e.key # key} \union {entry}
    BY <1>5, <2>2, StoreFacts
  <2>4. Same
    BY <1>5, <2>2, StoreFacts
  <2>5. n \in Nodes /\ entry.output = jobs[j].value[n]
    BY <2>2, NodeFacts
  <2>. HIDE DEF entry, key
  <2>. QED  BY <2>1, <2>2, <2>3, <2>4, <2>5 DEF Early, NextToRun
<1>6. CASE Package(j)
  <2>1. jobs'[j] = [NoJob EXCEPT !.phase = "done", !.version = jobs[j].version,
                     !.value = [n \in Nodes |-> IF n \in Targets THEN jobs[j].value[n] ELSE NoOutput],
                     !.relost = jobs[j].relost]
    BY <1>6, PackageFacts
  <2>2. jobs'[j].phase = "done" /\ None
    BY <2>1 DEF NoJob
  <2>3. cache' = cache
    BY <1>6 DEF Package
  <2>. QED  BY <1>0, <2>2, <2>3 DEF Early, Printed
<1>7. CASE Die(j)
  <2>1. jobs'[j] = [NoJob EXCEPT !.phase = "died"]
    BY <1>7, DieFacts
  <2>2. jobs'[j].phase = "died" /\ None
    BY <2>1 DEF NoJob
  <2>3. cache' = cache
    BY <1>7 DEF Die
  <2>. QED  BY <1>0, <2>2, <2>3 DEF Early, Printed
<1>. QED  BY <1>1, <1>2, <1>3, <1>4, <1>5, <1>6, <1>7 DEF Step

LEMMA UnmarkedStep ==
  ASSUME TrainingInv, Unmarked, NEW j \in Jobs, Step(j)
  PROVE  Unmarked'
<1>1. PICK O : Typed(O)
  BY DEF TrainingInv
<1>2. JobOK(jobs[j], j)
  BY DEF TrainingInv, AllOK
<1>3. jobs' = [jobs EXCEPT ![j] = jobs'[j]]
  BY <1>1, <1>2, StepTyped
<1>4. \A k \in Jobs \ {j} : jobs'[k] = jobs[k]
  BY <1>1, <1>3, Others DEF Typed
<1>5. /\ jobs'[j].phase \in Early => jobs[j].phase \in Early
      /\ \A e \in ToSet(cache') :
              \/ e \in Entries
              \/ /\ jobs[j].phase \in {"store", "enter"} /\ Node(j) \in Nodes /\ Valued(jobs[j], Node(j))
                 /\ e.output = jobs[j].value[Node(j)]
      /\ \A n \in Nodes : Printed(jobs'[j], n) =>
              \/ jobs'[j].print[n] = jobs[j].print[n]
              \/ \E e \in Entries : jobs'[j].print[n] = e.output
              \/ n \in Inputs /\ \E setting : jobs'[j].print[n] = Output(n, setting, <<>>, 0)
  BY <1>1, <1>2, StepSources
<1>6. ASSUME NEW i \in Jobs, jobs'[i].phase \in Early
      PROVE  /\ \A e \in ToSet(cache') : ~Marked(e.output, i)
             /\ \A k \in Jobs, n \in Nodes : Printed(jobs'[k], n) => ~Marked(jobs'[k].print[n], i)
  <2>0. i # 0
    BY GraphAssumption DEF Jobs
  <2>1. jobs[i].phase \in Early
    BY <1>4, <1>5, <1>6
  <2>2. /\ \A e \in Entries : ~Marked(e.output, i)
        /\ \A k \in Jobs, n \in Nodes : Printed(jobs[k], n) => ~Marked(jobs[k].print[n], i)
    BY <2>1 DEF Unmarked
  <2>3. ASSUME NEW n \in Nodes, Valued(jobs[j], n), jobs[j].phase \in {"store", "enter"}
        PROVE  ~Marked(jobs[j].value[n], i)
    <3>. SUFFICES ASSUME NEW c \in jobs[j].value[n].made_of, c.run = i PROVE FALSE
      BY DEF Marked
    <3>1. jobs[j] \in JobOver(O) /\ Universe(O)
      BY <1>1 DEF Typed
    <3>2. jobs[j].value[n] \in O \ {NoOutput}
      BY <2>3, <3>1, JobFacts DEF Valued
    <3>3. c.node \in Random
      BY <2>0, <3>1, <3>2, ContentMade
    <3>4. i # j
      BY <2>1, <2>3 DEF Early
    <3>5. c.node \in Nodes /\ Printed(jobs[j], c.node) /\ c = jobs[j].print[c.node].content
      BY <1>2, <2>3, <3>3, <3>4 DEF JobOK, Values, Inactive
    <3>6. jobs[j].print[c.node] \in O \ {NoOutput}
      BY <3>1, <3>5, JobFacts DEF Printed
    <3>7. c \in jobs[j].print[c.node].made_of
      BY <3>1, <3>5, <3>6, ContentMade
    <3>. QED  BY <2>2, <3>5, <3>7 DEF Marked
  <2>4. \A e \in ToSet(cache') : ~Marked(e.output, i)
    BY <1>5, <2>2, <2>3
  <2>5. ASSUME NEW n \in Nodes, Printed(jobs'[j], n) PROVE ~Marked(jobs'[j].print[n], i)
    <3>1. CASE jobs'[j].print[n] = jobs[j].print[n]
      BY <2>2, <2>5, <3>1 DEF Printed
    <3>2. CASE \E e \in Entries : jobs'[j].print[n] = e.output
      BY <2>2, <3>2
    <3>3. ASSUME n \in Inputs, NEW setting, jobs'[j].print[n] = Output(n, setting, <<>>, 0)
          PROVE  ~Marked(jobs'[j].print[n], i)
      <4>. DEFINE o == jobs'[j].print[n]
      <4>1. Needs[n] = {} /\ n \notin Random
        BY <3>3, GraphAssumption
      <4>2. o = Output(n, setting, <<>>, 0)
        BY <3>3
      <4>. HIDE DEF o
      <4>3. \A c \in o.made_of : c.run = 0
        BY <4>1, <4>2, OutputFields
      <4>4. ~Marked(o, i)
        BY <2>0, <4>3 DEF Marked
      <4>. QED  BY <4>4 DEF o
    <3>. QED  BY <1>5, <2>5, <3>1, <3>2, <3>3
  <2>. QED  BY <1>4, <2>2, <2>4, <2>5
<1>. QED  BY <1>6 DEF Unmarked, Entries

\* An output, by what its node was given.
LEMMA OutputOf ==
  ASSUME NEW O, Universe(O), NEW o \in O \ {NoOutput}
  PROVE  /\ o.content.node \in Nodes /\ o.content \in o.made_of
         /\ \A c \in o.made_of : c.node \in Nodes /\ Pos(c.node) =< Pos(o.content.node)
         /\ o.content.node \in Inputs => o = Output(o.content.node, o.content.setting, <<>>, 0)
<1>1. PICK n \in Nodes, s \in Nat, run \in 0 .. MaxTrainings : \E f \in InputsOver(n, O) : o = Output(n, s, f, run)
  BY DEF Universe, Made
<1>. PICK f \in InputsOver(n, O) : o = Output(n, s, f, run)
  BY <1>1
<1>2. o.content.node = n /\ o.content.setting = s /\ o.content \in o.made_of
  BY <1>1, OutputFields
<1>3. n \in Inputs => Output(n, s, f, run) = Output(n, s, <<>>, 0)
  BY InputOutput
<1>4. \A c \in o.made_of : c.node \in Lineage(n)
  BY <1>2 DEF Universe
<1>5. \A c \in o.made_of : c.node \in Nodes /\ Pos(c.node) =< Pos(n)
  BY <1>4, LineageFacts
<1>. QED  BY <1>1, <1>2, <1>3, <1>5

\* An entry, by its key.
LEMMA EntryByKey ==
  ASSUME NEW O, Universe(O), NEW e \in EntryOver(O)
  PROVE  /\ e.key.node \in Nodes /\ e.output \in O \ {NoOutput} /\ e.output.content.node = e.key.node
         /\ e.output.content.setting = e.key.setting /\ e.output.content \in e.output.made_of
         /\ e.key = Key(e.key.node, e.key.setting, e.key.inputs)
         /\ e.key.inputs = [p \in Needs[e.key.node] |-> e.key.inputs[p]]
         /\ \A p \in Needs[e.key.node] :
              /\ p \in Nodes /\ Pos(p) < Pos(e.key.node)
              /\ e.key.inputs[p] \in O \ {NoOutput} /\ e.key.inputs[p].content.node = p
              /\ e.key.inputs[p].content \in e.key.inputs[p].made_of
              /\ e.key.inputs[p].made_of \subseteq e.output.made_of
         /\ \A c \in e.output.made_of : c = e.output.content \/ \E p \in Needs[e.key.node] : c \in e.key.inputs[p].made_of
<1>. DEFINE n == e.key.node
            f == e.key.inputs
            o == e.output
<1>1. /\ n \in Nodes /\ f \in InputsOver(n, O) /\ o \in O \ {NoOutput}
      /\ \E run \in Jobs : o = Output(n, e.key.setting, f, run)
  BY EntryFacts
<1>2. PICK run \in Jobs : o = Output(n, e.key.setting, f, run)
  BY <1>1
<1>3. e.key = Key(n, e.key.setting, f)
  BY DEF EntryOver, Key
<1>4. \A p \in Needs[n] : f[p] \in O \ {NoOutput} /\ f[p].content.node = p
  BY <1>1 DEF InputsOver
<1>5. f = [p \in Needs[n] |-> f[p]]
  BY <1>1 DEF InputsOver
<1>6. \A p \in Needs[n] : p \in Nodes /\ Pos(p) < Pos(n)
  BY <1>1, PosFacts
<1>7. \A p \in Needs[n] : f[p].content \in f[p].made_of
  BY <1>4, OutputOf
<1>. DEFINE k == e.key.setting
<1>. HIDE DEF n, f, o, k
<1>8. /\ o.content.node = n /\ o.content.setting = k /\ o.content \in o.made_of
      /\ \A p \in Needs[n] : f[p].made_of \subseteq o.made_of
      /\ \A c \in o.made_of : c = o.content \/ \E p \in Needs[n] : c \in f[p].made_of
  <2>1. o = Output(n, k, f, run)
    BY <1>2 DEF k
  <2>. QED  BY <2>1, OutputFields
<1>. QED  BY <1>1, <1>3, <1>4, <1>5, <1>6, <1>7, <1>8 DEF n, f, o, k

\* The fingerprint run finds what suits the training: as no entry outlived
\* those of what it was made of, each parent of the node has been found.
LEMMA FingerprintKnows ==
  ASSUME NEW O, Typed(O), NEW j \in Jobs, JobOK(jobs[j], j), ~Parted(cache),
         Knows(jobs[j], Entries), Fingerprint(j)
  PROVE  Knows(jobs'[j], Entries)
<1>. DEFINE job == jobs[j]
            next == jobs'[j]
            n == Node(j)
<1>1. /\ job.phase = "fingerprint" /\ job.at \in 1 .. Len(Order)
      /\ next.phase = (IF job.at = Len(Order) THEN "prune" ELSE "fingerprint")
      /\ next.at = (IF job.at = Len(Order) THEN job.at ELSE job.at + 1)
      /\ next.version = job.version
  BY FingerprintFacts
<1>2. /\ n \in Nodes /\ Pos(n) = job.at /\ job \in JobOver(O)
      /\ \A p \in Needs[n] : p \in Nodes /\ Pos(p) < Pos(n)
  BY <1>1, NodeFacts
<1>3. \/ n \in Inputs /\ \E read : next.print = [job.print EXCEPT ![n] = read]
      \/ /\ n \notin Inputs /\ \A e \in Entries : e.key # Key(n, job.version[n], InputsOf(n, job.print))
         /\ next.print = job.print
      \/ /\ n \notin Inputs
         /\ \E e \in Entries :
              /\ e.key = Key(n, job.version[n], InputsOf(n, job.print))
              /\ next.print = [job.print EXCEPT ![n] = e.output]
  BY FingerprintFacts
<1>4. /\ Universe(O) /\ \A e \in Entries : e \in EntryOver(O)
      /\ \A d, e \in Entries : d.key = e.key => d = e
  BY Elements, KeyedOnceSets DEF Typed, Entries
<1>5. job.print \in [Nodes -> O]
  BY <1>2, JobFacts
<1>. HIDE DEF job, next, n
<1>6. Ready(job) /\ Prints(job) /\ Knows(job, Entries)
  BY DEF JobOK, job
<1>7. \A m \in Nodes : m # n => next.print[m] = job.print[m] /\ (Printed(next, m) <=> Printed(job, m))
  BY <1>2, <1>3, <1>5 DEF Printed
<1>8. \A m \in Nodes : Pos(m) \in 1 .. Len(Order) /\ (Pos(m) = Pos(n) => m = n)
  BY <1>2, PosFacts
\* What suits the training now did so before.
<1>9. ASSUME NEW e \in Entries, Pos(e.key.node) =< Pos(n), Suits(next, e) PROVE Suits(job, e)
  <2>. SUFFICES ASSUME NEW c \in e.output.made_of
                PROVE  /\ c.setting = job.version[c.node]
                       /\ c.node \in Random /\ c.node # e.key.node =>
                            Printed(job, c.node) /\ c = job.print[c.node].content
    BY DEF Suits
  <2>1. c.node \in Nodes /\ Pos(c.node) =< Pos(e.key.node) /\ e.key.node \in Nodes
    <3>1. e.key.node \in Nodes /\ e.output \in O \ {NoOutput} /\ e.output.content.node = e.key.node
      BY <1>4, EntryByKey
    <3>. QED  BY <1>4, <3>1, OutputOf
  <2>2. c.node # e.key.node => c.node # n
    <3>1. Pos(c.node) = Pos(e.key.node) => c.node = e.key.node
      BY <2>1, PosFacts
    <3>2. Pos(c.node) \in Nat /\ Pos(e.key.node) \in Nat /\ Pos(n) \in Nat
      BY <1>2, <1>8, <2>1
    <3>. QED  BY <1>9, <2>1, <3>1, <3>2
  <2>. QED  BY <1>1, <1>7, <1>9, <2>1, <2>2 DEF Suits
<1>. SUFFICES ASSUME NEW e \in Entries, e.key.node \notin Inputs, LookedUp(next, e.key.node), Suits(next, e)
              PROVE  Printed(next, e.key.node) /\ next.print[e.key.node] = e.output
  BY DEF Knows, next
<1>. DEFINE m == e.key.node
<1>10. /\ m \in Nodes /\ e.output \in O \ {NoOutput} /\ e.output.content.node = m
       /\ e.output.content.setting = e.key.setting /\ e.output.content \in e.output.made_of
       /\ e.key = Key(m, e.key.setting, e.key.inputs)
       /\ e.key.inputs = [p \in Needs[m] |-> e.key.inputs[p]]
       /\ \A p \in Needs[m] :
              /\ p \in Nodes /\ Pos(p) < Pos(m)
              /\ e.key.inputs[p] \in O \ {NoOutput} /\ e.key.inputs[p].content.node = p
              /\ e.key.inputs[p].content \in e.key.inputs[p].made_of
              /\ e.key.inputs[p].made_of \subseteq e.output.made_of
  BY <1>4, EntryByKey
<1>11. Pos(m) =< Pos(n)
  <2>1. CASE next.phase = "fingerprint"
    BY <1>1, <1>2, <1>8, <1>10, <2>1 DEF LookedUp, RunPhases
  <2>2. CASE next.phase = "prune"
    BY <1>1, <1>2, <1>8, <1>10, <2>2
  <2>. QED  BY <1>1, <2>1, <2>2
<1>12. Suits(job, e)
  BY <1>9, <1>11
<1>13. \A k \in Nodes : Pos(k) < job.at => LookedUp(job, k)
  BY <1>1 DEF LookedUp
<1>14. CASE m # n
  <2>1. Pos(m) < job.at
    BY <1>2, <1>8, <1>10, <1>11, <1>14
  <2>2. Printed(job, m) /\ job.print[m] = e.output
    BY <1>6, <1>10, <1>12, <1>13, <2>1 DEF Knows
  <2>. QED  BY <1>7, <1>10, <1>14, <2>2
<1>15. CASE m = n
  <2>1. ASSUME NEW p \in Needs[n] PROVE job.print[p] = e.key.inputs[p]
    <3>. DEFINE o == e.key.inputs[p]
    <3>1. /\ p \in Nodes /\ Pos(p) < Pos(n) /\ o \in O \ {NoOutput} /\ o.content.node = p
          /\ o.content \in o.made_of /\ o.made_of \subseteq e.output.made_of /\ p # n
      <4>1. p \in Needs[m]
        BY <1>15
      <4>2. /\ p \in Nodes /\ Pos(p) < Pos(m) /\ o \in O \ {NoOutput} /\ o.content.node = p
            /\ o.content \in o.made_of /\ o.made_of \subseteq e.output.made_of
        BY <1>10, <4>1
      <4>3. Pos(n) \in Nat /\ Pos(p) < Pos(n)
        BY <1>2, <1>8, <1>15, <4>2
      <4>4. p # n
        BY <4>3
      <4>. HIDE DEF o
      <4>. QED  BY <4>2, <4>3, <4>4
    <3>. HIDE DEF o
    <3>2. o.content.setting = job.version[p]
      BY <1>12, <3>1 DEF Suits
    <3>3. CASE p \in Inputs
      <4>1. job.print[p] = Output(p, job.version[p], <<>>, 0)
        BY <1>1, <1>2, <1>6, <3>1, <3>3 DEF Ready, Prints
      <4>2. o = Output(p, o.content.setting, <<>>, 0)
        BY <1>4, <3>1, <3>3, OutputOf
      <4>. QED  BY <3>2, <4>1, <4>2 DEF o
    <3>4. CASE p \in Random
      <4>1. Printed(job, p) /\ o.content = job.print[p].content
        BY <1>12, <1>15, <3>1, <3>4 DEF Suits
      <4>2. job.print[p] \in O \ {NoOutput}
        BY <1>5, <3>1, <4>1 DEF Printed
      <4>3. o = job.print[p]
        BY <1>4, <3>1, <3>4, <4>1, <4>2, SameContent
      <4>. QED  BY <4>3 DEF o
    <3>5. CASE p \notin Inputs /\ p \notin Random
      <4>1. PICK d \in Entries : d.output = o
        <5>1. p \in Needs[e.key.node] \ (Inputs \union Random)
          BY <1>15, <3>5
        <5>. QED  BY <5>1 DEF Parted, Entries, o
      <4>2. d.key.node = p
        <5>1. d \in EntryOver(O)
          BY <1>4
        <5>2. d.output.content.node = d.key.node
          BY <1>4, <5>1, EntryByKey
        <5>. QED  BY <3>1, <4>1, <5>2
      <4>3. Suits(job, d)
        <5>. SUFFICES ASSUME NEW c \in d.output.made_of
                      PROVE  /\ c.setting = job.version[c.node]
                             /\ c.node \in Random /\ c.node # p =>
                                  Printed(job, c.node) /\ c = job.print[c.node].content
          BY <4>2 DEF Suits
        <5>1. c \in e.output.made_of
          BY <3>1, <4>1
        <5>2. c.node # n
          <6>1. c.node \in Nodes /\ Pos(c.node) =< Pos(p)
            BY <1>4, <3>1, <4>1, OutputOf
          <6>. QED  BY <1>2, <1>8, <3>1, <6>1
        <5>. QED  BY <1>12, <1>15, <5>1, <5>2 DEF Suits
      <4>4. LookedUp(job, p)
        BY <1>2, <1>13, <3>1
      <4>5. job.print[p] = d.output
        BY <1>6, <3>5, <4>2, <4>3, <4>4 DEF Knows
      <4>. QED  BY <4>1, <4>5 DEF o
    <3>. QED  BY <3>3, <3>4, <3>5
  <2>2. InputsOf(n, job.print) = e.key.inputs
    BY <1>10, <1>15, <2>1 DEF InputsOf
  <2>3. e.key.setting = job.version[n]
    BY <1>10, <1>12, <1>15 DEF Suits
  <2>4. e.key = Key(n, job.version[n], InputsOf(n, job.print))
    BY <1>10, <1>15, <2>2, <2>3
  <2>5. n \notin Inputs
    BY <1>15
  <2>6. PICK d \in Entries : /\ d.key = Key(n, job.version[n], InputsOf(n, job.print))
                             /\ next.print = [job.print EXCEPT ![n] = d.output]
    BY <1>3, <2>4, <2>5
  <2>7. d = e
    BY <1>4, <2>4, <2>6
  <2>8. next.print[n] = e.output /\ e.output # NoOutput
    BY <1>2, <1>5, <1>10, <2>6, <2>7
  <2>. QED  BY <1>15, <2>8 DEF Printed
<1>. QED  BY <1>14, <1>15

LEMMA TidyStart ==
  ASSUME NEW O, Typed(O), NEW j \in Jobs, NEW version \in Versions,
         Start(j, version, TRUE) \/ Start(j, version, FALSE), "forced" \notin causes', NEW entries \in SUBSET EntryOver(O)
  PROVE  Tidy(jobs'[j], j, entries)
<1>. DEFINE next == jobs'[j]
<1>1. next.phase = "fingerprint" /\ next.at = 1 /\ next.hits = {}
  BY StartFacts
<1>. HIDE DEF next
<1>2. \A e \in entries : ~LookedUp(next, e.key.node)
  <2>1. \A e \in entries : e.key.node \in Nodes
    BY EntryFacts
  <2>2. \A n \in Nodes : ~(Pos(n) < 1)
    BY PosFacts
  <2>. QED  BY <1>1, <2>1, <2>2 DEF LookedUp, RunPhases
<1>3. Tidy(next, j, entries)
  BY <1>1, <1>2 DEF Tidy, Knows, Unstored, Rerun, Runs, MarksBefore, RunPhases
<1>. QED  BY <1>3 DEF next

LEMMA TidyFingerprint ==
  ASSUME NEW O, Typed(O), NEW j \in Jobs, JobOK(jobs[j], j), ~Parted(cache),
         Tidy(jobs[j], j, Entries), Fingerprint(j)
  PROVE  Tidy(jobs'[j], j, Entries)
<1>. DEFINE next == jobs'[j]
<1>1. /\ jobs[j].phase = "fingerprint" /\ jobs[j].at \in 1 .. Len(Order)
      /\ next.phase = (IF jobs[j].at = Len(Order) THEN "prune" ELSE "fingerprint")
      /\ next.at = (IF jobs[j].at = Len(Order) THEN jobs[j].at ELSE jobs[j].at + 1)
  BY FingerprintFacts
<1>2. Knows(next, Entries)
  BY <1>1, FingerprintKnows DEF Tidy, Inactive
<1>. HIDE DEF next
<1>3. ASSUME NEW n \in Nodes PROVE ~Rerun(next, n)
  <2>1. Pos(n) \in 1 .. Len(Order)
    BY PosFacts
  <2>. QED  BY <1>1, <2>1 DEF Rerun, RunPhases
<1>4. Tidy(next, j, Entries)
  BY <1>1, <1>2, <1>3 DEF Tidy, Unstored, Runs, MarksBefore, RunPhases
<1>. QED  BY <1>4 DEF next

LEMMA TidyPrune ==
  ASSUME NEW O, Typed(O), NEW j \in Jobs, JobOK(jobs[j], j), Unmarked,
         Tidy(jobs[j], j, Entries), Prune(j), "fault" \notin causes'
  PROVE  Tidy(jobs'[j], j, Entries)
<1>. DEFINE job == jobs[j]
            next == jobs'[j]
            n == Node(j)
<1>1. /\ job.phase = "prune" /\ job.at \in 1 .. Len(Order)
      /\ next.version = job.version /\ next.print = job.print /\ next.hits = job.hits
      /\ IF job.at = 1 THEN NextToRun(next, 0) ELSE next.phase = "prune" /\ next.at = job.at - 1
      /\ \/ /\ n \notin job.needed \/ n \in Inputs
            /\ next.needed = job.needed /\ next.value = job.value
         \/ /\ n \in job.hits
            /\ next.value = [job.value EXCEPT ![n] = job.print[n]]
            /\ next.needed = job.needed
         \/ /\ ~(n \in job.hits /\ Restorable(job.print[n]))
            /\ next.needed = job.needed \union Needs[n] /\ next.value = job.value
  BY PruneFacts
<1>2. /\ n \in Nodes /\ Pos(n) = job.at /\ job \in JobOver(O)
      /\ \A p \in Needs[n] : p \in Nodes /\ Pos(p) < Pos(n)
  BY <1>1, NodeFacts
<1>3. job.value \in [Nodes -> O] /\ job.needed \subseteq Nodes /\ job.hits \subseteq Nodes
  BY <1>2, JobFacts
<1>4. \A e \in Entries : ~Marked(e.output, j)
  BY <1>1 DEF Unmarked, Early
<1>. HIDE DEF job, next, n
<1>5. Ready(job) /\ Prints(job) /\ Knows(job, Entries) /\ Unstored(job, Entries)
  BY <1>1 DEF JobOK, Tidy, Inactive, job
<1>6. \A m \in Inputs : Printed(job, m) /\ Valued(job, m)
  BY <1>1, <1>5 DEF Ready
<1>7. \A m : Printed(next, m) <=> Printed(job, m)
  BY <1>1 DEF Printed
<1>8. /\ \A m \in Nodes : Valued(job, m) => Valued(next, m)
      /\ \A m \in next.needed : m \in job.needed \/ (m \in Nodes /\ Pos(m) < Pos(n))
      /\ n \in next.needed \intersect next.hits /\ ~Valued(next, n) => ~Restorable(job.print[n])
  <2>1. CASE /\ n \notin job.needed \/ n \in Inputs
             /\ next.needed = job.needed /\ next.value = job.value
    BY <1>1, <1>5, <2>1 DEF Valued, Prints
  <2>2. CASE /\ n \in job.hits
             /\ next.value = [job.value EXCEPT ![n] = job.print[n]]
             /\ next.needed = job.needed
    <3>1. Printed(job, n)
      BY <1>5, <2>2 DEF Prints
    <3>. QED  BY <1>2, <1>3, <2>2, <3>1 DEF Valued, Printed
  <2>3. CASE /\ ~(n \in job.hits /\ Restorable(job.print[n]))
             /\ next.needed = job.needed \union Needs[n] /\ next.value = job.value
    BY <1>1, <1>2, <2>3 DEF Valued
  <2>. QED  BY <1>1, <2>1, <2>2, <2>3
<1>9. \A m \in Nodes : Pos(m) \in 1 .. Len(Order) /\ (Pos(m) = Pos(n) => m = n)
  BY <1>2, PosFacts
<1>10. Knows(next, Entries)
  <2>1. \A e : Suits(next, e) => Suits(job, e)
    BY <1>1, <1>7 DEF Suits
  <2>2. \A m : LookedUp(job, m)
    BY <1>1 DEF LookedUp
  <2>. QED  BY <1>1, <1>5, <1>7, <2>1, <2>2 DEF Knows
<1>11. next.phase = "prune" \/ next.phase = "run"
  BY <1>1 DEF NextToRun
<1>12. Unstored(next, Entries)
  <2>. SUFFICES ASSUME NEW m \in Nodes, Rerun(next, m), NEW e \in Entries, e.output = next.print[m]
                PROVE  ~e.stored
    BY DEF Unstored
  <2>1. m \in next.needed \intersect next.hits /\ ~Valued(next, m)
    BY <1>11 DEF Rerun, RunPhases
  <2>2. Pos(m) > job.at \/ m = n
    <3>1. CASE job.at = 1
      BY <1>2, <1>9, <3>1
    <3>2. CASE job.at # 1
      <4>1. next.phase = "prune" /\ next.at = job.at - 1
        BY <1>1, <3>2
      <4>2. Pos(m) > job.at - 1
        BY <4>1 DEF Rerun, RunPhases
      <4>. QED  BY <1>1, <1>2, <1>9, <4>2
    <3>. QED  BY <3>1, <3>2
  <2>3. CASE m = n
    <3>1. ~Restorable(job.print[n])
      BY <1>8, <2>1, <2>3
    <3>. QED  BY <1>1, <2>3, <3>1 DEF Restorable
  <2>4. CASE Pos(m) > job.at
    <3>1. m \in job.needed \intersect job.hits /\ ~Valued(job, m)
      BY <1>1, <1>2, <1>8, <1>9, <2>1, <2>4
    <3>2. Rerun(job, m)
      BY <1>1, <2>4, <3>1 DEF Rerun
    <3>. QED  BY <1>1, <1>5, <3>2 DEF Unstored
  <2>. QED  BY <2>2, <2>3, <2>4
<1>13. Runs(next)
  BY <1>6, <1>7, <1>8, <1>11, GraphAssumption DEF Runs
<1>14. MarksBefore(next, j, Entries)
  BY <1>4 DEF MarksBefore
<1>15. Tidy(next, j, Entries)
  BY <1>10, <1>12, <1>13, <1>14 DEF Tidy
<1>. QED  BY <1>15 DEF next

LEMMA TidyRun ==
  ASSUME NEW O, Typed(O), NEW j \in Jobs, JobOK(jobs[j], j),
         Tidy(jobs[j], j, Entries), NEW fails \in BOOLEAN, Run(j, fails), NEW entries \in SUBSET Entries
  PROVE  Tidy(jobs'[j], j, entries)
<1>. DEFINE job == jobs[j]
            next == jobs'[j]
            n == Node(j)
            made == Output(n, job.version[n], InputsOf(n, job.value), j)
<1>0. job.phase = "run" /\ job.at \in 1 .. Len(Order)
  BY PosFacts DEF Run, At
<1>a. n \in job.needed /\ ~Valued(job, n) /\ \A p \in Needs[n] : Valued(job, p)
  BY <1>0, ParentsValued DEF JobOK
<1>1. /\ next.at = job.at /\ next.version = job.version /\ next.needed = job.needed
      /\ next.print = job.print /\ next.hits = job.hits
      /\ next.value = [job.value EXCEPT ![n] = made]
      /\ next.phase \in {"store", "enter"}
  BY <1>a, RunFacts
<1>2. /\ n \in Nodes /\ Pos(n) = job.at /\ job \in JobOver(O) /\ n = Order[job.at]
  BY <1>0, NodeFacts
<1>3. job.value \in [Nodes -> O] /\ job.needed \subseteq Nodes
  BY <1>2, JobFacts
<1>4. made # NoOutput
  BY OutputFields
<1>. HIDE DEF job, next, n, made
<1>5. Knows(job, Entries) /\ Unstored(job, Entries) /\ Runs(job) /\ MarksBefore(job, j, Entries)
  BY <1>0 DEF JobOK, Tidy, Inactive, job
<1>6. \A m : Printed(next, m) <=> Printed(job, m)
  BY <1>1 DEF Printed
<1>7. \A m \in Nodes : Valued(job, m) => Valued(next, m)
  BY <1>1, <1>2, <1>3, <1>4 DEF Valued
<1>8. Knows(next, entries)
  <2>1. \A e : Suits(next, e) => Suits(job, e)
    BY <1>1, <1>6 DEF Suits
  <2>2. \A m : LookedUp(next, m) => LookedUp(job, m)
    BY <1>0, <1>1 DEF LookedUp, RunPhases
  <2>. QED  BY <1>1, <1>5, <1>6, <2>1, <2>2 DEF Knows
<1>9. Unstored(next, entries)
  <2>1. ASSUME NEW m \in Nodes, Rerun(next, m) PROVE Rerun(job, m)
    <3>1. m \in job.needed \intersect job.hits
      BY <1>1, <2>1 DEF Rerun
    <3>2. ~Valued(job, m)
      <4>1. CASE ~Valued(next, m)
        BY <1>7, <4>1
      <4>2. CASE Pos(m) = job.at
        <5>1. m = n
          BY <1>2, <4>2, PosFacts
        <5>. QED  BY <1>a, <5>1
      <4>. QED  BY <1>1, <2>1, <4>1, <4>2 DEF Rerun
    <3>. QED  BY <1>0, <3>1, <3>2 DEF Rerun, RunPhases
  <2>. QED  BY <1>1, <1>5, <2>1 DEF Unstored
<1>10. Runs(next)
  <2>1. \A m \in Inputs : Printed(job, m) /\ Valued(job, m)
    BY <1>0, <1>5 DEF Runs, RunPhases
  <2>2. n \notin Inputs
    BY <1>a, <2>1
  <2>. QED  BY <1>1, <1>2, <1>6, <1>7, <1>a, <2>1, <2>2, GraphAssumption DEF Runs
<1>11. MarksBefore(next, j, entries)
  BY <1>0, <1>1, <1>5 DEF MarksBefore, RunPhases
<1>12. Tidy(next, j, entries)
  BY <1>8, <1>9, <1>10, <1>11 DEF Tidy
<1>. QED  BY <1>12 DEF next

\* What a training has run and is about to enter, and finds entered: its
\* fingerprint run has found it too, and its result was not there.
LEMMA StoreFinds ==
  ASSUME NEW O, Typed(O), NEW j \in Jobs, JobOK(jobs[j], j), Tidy(jobs[j], j, Entries),
         jobs[j].phase \in {"store", "enter"}, NEW e \in Entries,
         e.key = Key(Node(j), jobs[j].version[Node(j)], InputsOf(Node(j), jobs[j].value))
  PROVE  /\ Printed(jobs[j], Node(j)) /\ jobs[j].print[Node(j)] = e.output
         /\ Node(j) \in jobs[j].hits /\ Node(j) \in jobs[j].needed \ Inputs /\ ~e.stored
<1>. DEFINE job == jobs[j]
            n == Node(j)
<1>1. /\ job.at \in 1 .. Len(Order) /\ \A p \in Needs[n] : Valued(job, p)
  BY JustMade
<1>2. /\ n \in Nodes /\ Pos(n) = job.at /\ job \in JobOver(O) /\ n = Order[job.at]
      /\ \A p \in Needs[n] : p \in Nodes /\ Pos(p) < Pos(n)
  BY <1>1, NodeFacts
<1>3. Universe(O) /\ e \in EntryOver(O)
  BY Elements DEF Typed, Entries
<1>4. e.key.node = n /\ e.key.setting = job.version[n] /\ \A p \in Needs[n] : e.key.inputs[p] = job.value[p]
  BY DEF Key, InputsOf
<1>. HIDE DEF job, n
<1>5. Values(job, j) /\ Prints(job) /\ Knows(job, Entries) /\ Unstored(job, Entries) /\ Runs(job) /\ MarksBefore(job, j, Entries)
  BY DEF JobOK, Tidy, Inactive, job
<1>6. job.phase \in {"store", "enter"} /\ job.phase \notin Inactive /\ job.phase \in RunPhases
  BY DEF job, Inactive, RunPhases
<1>7. /\ e.output.content.node = n /\ e.output.content.setting = job.version[n]
      /\ \A c \in e.output.made_of : c = e.output.content \/ \E p \in Needs[n] : c \in job.value[p].made_of
  <2>1. /\ e.output.content.node = e.key.node /\ e.output.content.setting = e.key.setting
        /\ \A c \in e.output.made_of : c = e.output.content \/ \E p \in Needs[e.key.node] : c \in e.key.inputs[p].made_of
    BY <1>3, EntryByKey
  <2>. QED  BY <1>4, <2>1
<1>8. ~Marked(e.output, j)
  <2>1. ~(Pos(n) < job.at)
    BY <1>1, <1>2, PosFacts
  <2>. QED  BY <1>4, <1>5, <1>6, <2>1 DEF MarksBefore
<1>9. Suits(job, e)
  <2>. SUFFICES ASSUME NEW c \in e.output.made_of
                PROVE  /\ c.setting = job.version[c.node]
                       /\ c.node \in Random /\ c.node # n =>
                            Printed(job, c.node) /\ c = job.print[c.node].content
    BY <1>4 DEF Suits
  <2>1. CASE c = e.output.content
    BY <1>7, <2>1
  <2>2. ASSUME NEW p \in Needs[n], c \in job.value[p].made_of
        PROVE  /\ c.setting = job.version[c.node]
               /\ c.node \in Random /\ c.node # n =>
                    Printed(job, c.node) /\ c = job.print[c.node].content
    <3>1. p \in Nodes /\ Valued(job, p)
      BY <1>1, <1>2
    <3>2. c.run # j
      BY <1>8 DEF Marked
    <3>. QED  BY <1>5, <1>6, <2>2, <3>1, <3>2 DEF Values
  <2>. QED  BY <1>7, <2>1, <2>2
<1>10. n \in job.needed \ Inputs
  BY <1>2, <1>5, <1>6 DEF Runs
<1>11. LookedUp(job, n)
  <2>1. Pos(n) >= job.at
    BY <1>1, <1>2, PosFacts
  <2>. QED  BY <1>6, <2>1 DEF LookedUp
<1>12. Printed(job, n) /\ job.print[n] = e.output
  BY <1>4, <1>5, <1>9, <1>10, <1>11 DEF Knows
<1>13. n \in job.hits
  BY <1>2, <1>5, <1>10, <1>12 DEF Prints
<1>14. Rerun(job, n)
  BY <1>2, <1>6, <1>10, <1>13 DEF Rerun
<1>15. ~e.stored
  BY <1>2, <1>5, <1>12, <1>14 DEF Unstored
<1>. QED  BY <1>10, <1>12, <1>13, <1>15 DEF job, n

LEMMA TidyStore ==
  ASSUME NEW O, Typed(O), NEW j \in Jobs, JobOK(jobs[j], j), Tidy(jobs[j], j, Entries), Store(j)
  PROVE  Tidy(jobs'[j], j, ToSet(cache')) /\ orphans' = orphans
<1>. DEFINE job == jobs[j]
            next == jobs'[j]
            n == Node(j)
            key == Key(n, job.version[n], InputsOf(n, job.value))
            entry == [key |-> key, output |-> job.value[n], stored |-> job.phase = "store"]
            entries == ToSet(cache')
<1>0. job.phase \in {"store", "enter"}
  BY DEF Store
<1>1. /\ job.at \in 1 .. Len(Order) /\ Valued(job, n)
      /\ \A p \in Needs[n] : Valued(job, p)
      /\ job.value[n] = Output(n, job.version[n], InputsOf(n, job.value), j)
  BY <1>0, JustMade
<1>2. /\ NextToRun(next, job.at)
      /\ next.version = job.version /\ next.needed = job.needed
      /\ next.print = job.print /\ next.value = job.value /\ next.hits = job.hits
  BY <1>1, StoreFacts
<1>3. /\ entries = {e \in Entries : e.key # key} \union {entry}
      /\ orphans' = orphans + Cardinality(Stored({e \in Entries : e.key = key}))
  BY <1>1, StoreFacts
<1>4. /\ n \in Nodes /\ Pos(n) = job.at /\ job \in JobOver(O) /\ n = Order[job.at]
  BY <1>1, NodeFacts
<1>5. entry.key.node = n /\ entry.output.content.node = n
  <2>1. entry.output.content.node = n
    BY <1>1, <1>4, JobFacts DEF Valued
  <2>. QED  BY <2>1 DEF Key
<1>6. \A e \in Entries : e.key = key => ~e.stored
  BY <1>0, StoreFinds
<1>7. orphans' = orphans
  <2>1. Stored({e \in Entries : e.key = key}) = {}
    BY <1>6 DEF Stored
  <2>2. Cardinality({}) = 0 /\ orphans \in Nat
    BY FS_EmptySet DEF Typed
  <2>3. orphans' = orphans + Cardinality({})
    BY <1>3, <2>1
  <2>. QED  BY <2>2, <2>3
<1>. HIDE DEF job, next, n, key, entry, entries
<1>8. Knows(job, Entries) /\ Unstored(job, Entries) /\ Runs(job) /\ MarksBefore(job, j, Entries) /\ Prints(job)
  BY <1>0 DEF JobOK, Tidy, Inactive, job
<1>9. next.phase = "run" /\ next.at \in Nat /\ next.at > job.at /\ job.at \in Nat
  BY <1>1, <1>2, PosFacts DEF NextToRun
<1>10. \A m : (Printed(next, m) <=> Printed(job, m)) /\ (Valued(next, m) <=> Valued(job, m))
  BY <1>2 DEF Printed, Valued
<1>11. \A m \in Nodes : Pos(m) \in Nat /\ (Pos(m) >= next.at => m # n)
  BY <1>4, <1>9, PosFacts
<1>12. Knows(next, entries)
  <2>. SUFFICES ASSUME NEW e \in entries, e.key.node \notin Inputs, LookedUp(next, e.key.node), Suits(next, e)
                PROVE  Printed(next, e.key.node) /\ next.print[e.key.node] = e.output
    BY DEF Knows
  <2>1. Pos(e.key.node) >= next.at
    BY <1>9 DEF LookedUp, RunPhases
  <2>2. e \in Entries /\ e.key.node \in Nodes
    <3>1. e # entry
      BY <1>4, <1>5, <1>9, <2>1
    <3>2. e \in Entries
      BY <1>3, <3>1
    <3>3. \A d \in Entries : d \in EntryOver(O)
      BY Elements DEF Typed, Entries
    <3>. QED  BY <3>2, <3>3, EntryFacts
  <2>3. Suits(job, e)
    BY <1>2, <1>10 DEF Suits
  <2>4. LookedUp(job, e.key.node)
    <3>1. Pos(e.key.node) >= job.at
      BY <1>9, <1>11, <2>1, <2>2
    <3>. QED  BY <1>0, <3>1 DEF LookedUp, RunPhases
  <2>. QED  BY <1>2, <1>8, <1>10, <2>2, <2>3, <2>4 DEF Knows
<1>13. Unstored(next, entries)
  <2>. SUFFICES ASSUME NEW m \in Nodes, Rerun(next, m), NEW e \in entries, e.output = next.print[m]
                PROVE  ~e.stored
    BY DEF Unstored
  <2>1. m \in job.needed \intersect job.hits /\ ~Valued(job, m)
    BY <1>2, <1>9, <1>10 DEF Rerun
  <2>2. Rerun(job, m)
    BY <1>0, <2>1 DEF Rerun, RunPhases
  <2>3. m # n
    BY <1>1, <2>1
  <2>4. e # entry
    <3>1. Printed(job, m) /\ job.print[m].content.node = m
      BY <1>4, <1>8, <2>1, JobFacts DEF Prints, Printed
    <3>. QED  BY <1>2, <1>5, <2>3, <3>1
  <2>. QED  BY <1>2, <1>3, <1>8, <2>2, <2>4 DEF Unstored
<1>14. Runs(next)
  BY <1>0, <1>8, <1>9, <1>10 DEF Runs, RunPhases
<1>15. MarksBefore(next, j, entries)
  <2>. SUFFICES ASSUME NEW e \in entries, Marked(e.output, j) PROVE Pos(e.key.node) < next.at
    BY DEF MarksBefore
  <2>1. CASE e = entry
    BY <1>4, <1>5, <1>9, <2>1
  <2>2. CASE e # entry
    <3>1. e \in Entries
      BY <1>3, <2>2
    <3>2. Pos(e.key.node) < job.at
      BY <1>0, <1>8, <3>1 DEF MarksBefore, RunPhases
    <3>3. e.key.node \in Nodes
      <4>1. \A d \in Entries : d \in EntryOver(O)
        BY Elements DEF Typed, Entries
      <4>. QED  BY <3>1, <4>1, EntryFacts
    <3>. QED  BY <1>9, <1>11, <3>2, <3>3
  <2>. QED  BY <2>1, <2>2
<1>16. Tidy(next, j, entries)
  BY <1>12, <1>13, <1>14, <1>15 DEF Tidy
<1>. QED  BY <1>7, <1>16 DEF next, entries

\* History is kept.
LEMMA CausesGrow ==
  ASSUME NEW j \in Jobs, Step(j)
  PROVE  causes \subseteq causes'
<1>1. \A version \in Versions : Start(j, version, TRUE) \/ Start(j, version, FALSE) => causes \subseteq causes'
  BY DEF Start
<1>2. Fingerprint(j) \/ Package(j) => causes \subseteq causes'
  BY DEF Fingerprint, Package
<1>3. Prune(j) => causes \subseteq causes'
  BY DEF Prune
<1>4. ASSUME NEW fails \in BOOLEAN, Run(j, fails) PROVE causes \subseteq causes'
  <2>1. causes' = causes \union (IF fails THEN {"fault"} ELSE {})
                     \union (IF cache' # cache \/ orphans' # orphans THEN {"evicted"} ELSE {})
                     \union (IF Node(j) \in TooLarge THEN {"too large"} ELSE {})
                     \union (IF Parted(cache') THEN {"parted"} ELSE {})
    BY <1>4, Zenon DEF Run
  <2>. QED  BY <2>1
<1>5. Store(j) \/ Die(j) => causes \subseteq causes'
  BY DEF Store, Die
<1>. QED  BY <1>1, <1>2, <1>3, <1>4, <1>5 DEF Step

\* What the set of the entries says of them.
LEMMA PartedSame ==
  ASSUME NEW s, NEW t, ToSet(s) = ToSet(t)
  PROVE  Parted(s) <=> Parted(t)
BY DEF Parted

\* While trainings do not overlap, the others are idle.
LEMMA OthersIdle ==
  ASSUME TrainingInv, Room, NEW j \in Jobs, Step(j), "overlap" \notin causes'
  PROVE  \A k \in Jobs \ {j} : jobs'[k] = jobs[k] /\ jobs'[k].phase \in Inactive
<1>1. PICK O : Typed(O)
  BY DEF TrainingInv
<1>2. JobOK(jobs[j], j) /\ "overlap" \notin causes
  BY CausesGrow DEF TrainingInv, AllOK
<1>3. jobs' = [jobs EXCEPT ![j] = jobs'[j]]
  BY <1>1, <1>2, StepTyped
<1>4. \A k \in Jobs \ {j} : jobs'[k] = jobs[k]
  BY <1>1, <1>3, Others DEF Typed
<1>5. \A k \in Jobs \ {j} : jobs'[k].phase \in Inactive
  <2>1. Room'
    BY RoomStep
  <2>2. \A i, k \in Jobs : jobs'[i].phase \notin Inactive /\ jobs'[k].phase \notin Inactive => i = k
    BY <2>1 DEF Room
  <2>3. \A i, k \in Jobs : jobs[i].phase \notin Inactive /\ jobs[k].phase \notin Inactive => i = k
    BY <1>2 DEF Room
  <2>4. jobs[j].phase \notin Inactive \/ jobs'[j].phase \notin Inactive
    <3>1. CASE \E version \in Versions : Start(j, version, TRUE) \/ Start(j, version, FALSE)
      <4>1. jobs'[j].phase = "run" \/ jobs'[j].phase = "fingerprint"
        BY <1>1, <3>1, StartFacts
      <4>. QED  BY <4>1 DEF Inactive
    <3>2. CASE Fingerprint(j)
      BY <3>2 DEF Fingerprint, At, Inactive
    <3>3. CASE Prune(j)
      BY <3>3 DEF Prune, At, Inactive
    <3>4. ASSUME NEW fails \in BOOLEAN, Run(j, fails) PROVE jobs[j].phase \notin Inactive
      BY <3>4 DEF Run, At, Inactive
    <3>5. CASE Store(j) \/ Package(j)
      BY <3>5 DEF Store, Package, Inactive
    <3>6. CASE Die(j)
      BY <3>6 DEF Die, Running, Inactive
    <3>. QED  BY <3>1, <3>2, <3>3, <3>4, <3>5, <3>6 DEF Step
  <2>. QED  BY <1>4, <2>2, <2>3, <2>4
<1>. QED  BY <1>4, <1>5

LEMMA NoLeakStep ==
  ASSUME TrainingInv, Unmarked, Room, NoLeak, NEW j \in Jobs, Step(j)
  PROVE  NoLeak'
<1>. SUFFICES ASSUME causes' \intersect {"forced", "overlap", "fault", "died", "parted"} = {}
              PROVE  /\ orphans' = 0 /\ ~Parted(cache')
                     /\ \A i \in Jobs : Tidy(jobs'[i], i, ToSet(cache'))
  BY DEF NoLeak, Disturbed, Parted, Entries
<1>0. causes \intersect {"forced", "overlap", "fault", "died", "parted"} = {}
  BY CausesGrow
<1>1. PICK O : Typed(O)
  BY DEF TrainingInv
<1>2. JobOK(jobs[j], j)
  BY DEF TrainingInv, AllOK
<1>3. jobs' = [jobs EXCEPT ![j] = jobs'[j]]
  BY <1>1, <1>2, StepTyped
<1>4. \A k \in Jobs \ {j} : jobs'[k] = jobs[k]
  BY <1>1, <1>3, Others DEF Typed
<1>5. orphans = 0 /\ ~Parted(cache) /\ Tidy(jobs[j], j, Entries)
  BY <1>0 DEF NoLeak, Disturbed
<1>6. \A k \in Jobs \ {j} : jobs'[k].phase \in Inactive
  BY OthersIdle
<1>7. \A k \in Jobs \ {j} : Tidy(jobs'[k], k, ToSet(cache'))
  BY <1>6 DEF Tidy
<1>. SUFFICES orphans' = 0 /\ ~Parted(cache') /\ Tidy(jobs'[j], j, ToSet(cache'))
  BY <1>7
<1>8. CASE \E version \in Versions : Start(j, version, TRUE) \/ Start(j, version, FALSE)
  <2>1. PICK version \in Versions : Start(j, version, TRUE) \/ Start(j, version, FALSE)
    BY <1>8
  <2>2. cache' = cache /\ orphans' = orphans
    BY <2>1 DEF Start
  <2>3. Entries \in SUBSET EntryOver(O)
    BY <1>1, Elements DEF Typed, Entries
  <2>4. Tidy(jobs'[j], j, Entries)
    BY <1>1, <2>1, <2>3, TidyStart
  <2>. QED  BY <1>5, <2>2, <2>4 DEF Entries
<1>9. CASE Fingerprint(j)
  <2>1. orphans' = orphans
    BY <1>9 DEF Fingerprint
  <2>2. cache' = cache \/ \E e \in Entries : cache' = Merged(cache, e)
    BY <1>1, <1>9, FingerprintFacts
  <2>3. ToSet(cache') = ToSet(cache)
    BY <1>1, <2>2, MergedAgain DEF Typed, Entries
  <2>4. Tidy(jobs'[j], j, Entries)
    BY <1>1, <1>2, <1>5, <1>9, TidyFingerprint
  <2>5. PICK c : c = cache'
    OBVIOUS
  <2>6. Parted(c) <=> Parted(cache)
    BY <2>3, <2>5, PartedSame
  <2>. QED  BY <1>5, <2>1, <2>3, <2>4, <2>5, <2>6 DEF Entries
<1>10. CASE Prune(j)
  <2>1. cache' = cache /\ orphans' = orphans
    BY <1>10 DEF Prune
  <2>2. Tidy(jobs'[j], j, Entries)
    BY <1>1, <1>2, <1>5, <1>10, TidyPrune
  <2>. QED  BY <1>5, <2>1, <2>2 DEF Entries
<1>11. ASSUME NEW fails \in BOOLEAN, Run(j, fails)
       PROVE  orphans' = 0 /\ ~Parted(cache') /\ Tidy(jobs'[j], j, ToSet(cache'))
  <2>1. jobs[j].phase = "run" /\ jobs[j].at \in 1 .. Len(Order)
    BY <1>11, PosFacts DEF Run, At
  <2>2. \A p \in Needs[Node(j)] : Valued(jobs[j], p)
    BY <1>1, <1>2, <2>1, ParentsValued DEF JobOK
  <2>3. ToSet(cache') \subseteq Entries
    BY <1>1, <1>11, RunCache
  <2>4. orphans' \in Nat /\ orphans' =< orphans
    BY <1>1, <1>11, RunCache
  <2>5. Parted(cache') => "parted" \in causes'
    BY <1>1, <1>11, <2>2, RunFacts
  <2>6. PICK entries : entries = ToSet(cache')
    OBVIOUS
  <2>7. Tidy(jobs'[j], j, entries)
    BY <1>1, <1>2, <1>5, <1>11, <2>3, <2>6, TidyRun
  <2>. QED  BY <1>5, <2>4, <2>5, <2>6, <2>7
<1>12. CASE Store(j)
  <2>1. Parted(cache') => "parted" \in causes'
    BY <1>12 DEF Store
  <2>2. Tidy(jobs'[j], j, ToSet(cache')) /\ orphans' = orphans
    BY <1>1, <1>2, <1>5, <1>12, TidyStore
  <2>. QED  BY <1>5, <2>1, <2>2
<1>13. CASE Package(j)
  <2>1. cache' = cache /\ orphans' = orphans
    BY <1>13 DEF Package
  <2>2. jobs'[j].phase \in Inactive
    <3>1. jobs'[j] = [NoJob EXCEPT !.phase = "done", !.version = jobs[j].version,
                     !.value = [n \in Nodes |-> IF n \in Targets THEN jobs[j].value[n] ELSE NoOutput],
                     !.relost = jobs[j].relost]
      BY <1>1, <1>13, PackageFacts
    <3>. QED  BY <3>1 DEF NoJob, Inactive
  <2>. QED  BY <1>5, <2>1, <2>2 DEF Tidy
<1>14. CASE Die(j)
  BY <1>1, <1>14, DieFacts
<1>. QED  BY <1>8, <1>9, <1>10, <1>11, <1>12, <1>13, <1>14 DEF Step

\* The invariant of what is found and what is left on disk.
CacheInv == TrainingInv /\ Unmarked /\ Room /\ NoLeak

LEMMA RoomInit ==
  ASSUME TrainingInit
  PROVE  Room
<1>1. cache = <<>> /\ orphans = 0 /\ \A i \in Jobs : jobs[i].phase = "none"
  BY DEF TrainingInit, NoJob
<1>2. Stored(ToSet(cache)) = {}
  BY <1>1 DEF Stored, ToSet
<1>3. InUse(cache, orphans) = Cardinality(Stored(ToSet(cache))) + orphans
  BY DEF InUse, Stored
<1>4. Cardinality({}) = 0 /\ Capacity \in Nat
  BY FS_EmptySet, GraphAssumption
<1>5. InUse(cache, orphans) = Cardinality({}) + 0
  BY <1>1, <1>2, <1>3
<1>. QED  BY <1>1, <1>4, <1>5 DEF Room, Inactive

LEMMA CacheInvInit ==
  ASSUME TrainingInit
  PROVE  CacheInv
<1>1. /\ TrainingInv /\ Room
  BY TypedInit, RoomInit DEF TrainingInv
<1>2. cache = <<>> /\ orphans = 0 /\ jobs = [i \in Jobs |-> NoJob]
  BY DEF TrainingInit
<1>3. Entries = {} /\ ~Parted(cache)
  BY <1>2 DEF Entries, Parted, ToSet
<1>4. \A i \in Jobs : jobs[i].phase \in Inactive /\ \A n \in Nodes : ~Printed(jobs[i], n)
  BY <1>2 DEF NoJob, Inactive, Printed
<1>5. Unmarked
  BY <1>3, <1>4 DEF Unmarked
<1>6. NoLeak
  BY <1>2, <1>3, <1>4 DEF NoLeak, Tidy
<1>. QED  BY <1>1, <1>5, <1>6 DEF CacheInv

\* The inductive invariant of the cache: nothing is rerun whose result is
\* stored, room that was made stays, and so no result is overwritten.
THEOREM CacheKeepsInv == TrainingSpec => []CacheInv
<1>1. TrainingInit => CacheInv
  BY CacheInvInit
<1>2. CacheInv /\ [TrainingNext]_trainingVars => CacheInv'
  <2>1. ASSUME CacheInv, TrainingNext PROVE CacheInv'
    <3>1. PICK j \in Jobs : Step(j)
      BY <2>1, NextSteps
    <3>. QED  BY <2>1, <3>1, TrainingInvStep, UnmarkedStep, RoomStep, NoLeakStep DEF CacheInv
  <2>2. ASSUME CacheInv, UNCHANGED trainingVars PROVE CacheInv'
    <3>1. cache' = cache /\ orphans' = orphans /\ jobs' = jobs /\ faults' = faults /\ causes' = causes
      BY <2>2 DEF trainingVars
    <3>2. TrainingInv'
      BY <2>2, <3>1 DEF CacheInv, TrainingInv, AllOK, Typed
    <3>3. Unmarked' /\ Room' /\ NoLeak'
      BY <2>2, <3>1 DEF CacheInv, Unmarked, Room, NoLeak, Disturbed, Entries, Parted
    <3>. QED  BY <3>2, <3>3 DEF CacheInv
  <2>. QED  BY <2>1, <2>2
<1>. QED  BY <1>1, <1>2, PTL DEF TrainingSpec

\* Results that no entry refers to have a cause: what is entered when nothing
\* disturbed the cache takes the place of no result.
THEOREM LeaksHaveTheirCause == TrainingSpec => []LeaksHaveCause
<1>1. CacheInv => LeaksHaveCause
  BY DEF CacheInv, NoLeak, Disturbed, LeaksHaveCause
<1>. QED  BY <1>1, CacheKeepsInv, PTL

\* The cache keeps to its size as long as trainings do not overlap: what was
\* made room for is still free when the result is moved in.
THEOREM CacheKeepsToItsSize == TrainingSpec => []CacheWithinLimit
<1>1. CacheInv => CacheWithinLimit
  BY DEF CacheInv, Room, CacheWithinLimit
<1>. QED  BY <1>1, CacheKeepsInv, PTL

-----------------------------------------------------------------------------
(* A cache nothing has disturbed.  What a training has of a node is entered  *)
(* with what it has of the parents, so that a later training of the same     *)
(* data and configuration finds all of it.                                   *)

\* What a training has of a node: the print, or the value.
Has(job) == [n \in Nodes |-> IF Printed(job, n) THEN job.print[n] ELSE job.value[n]]

Entered(entries, version, W, n) ==
  \E e \in entries : e.key = Key(n, version[n], InputsOf(n, W)) /\ e.output = W[n]

\* A result that is still to be entered.
Pending(job, n) == job.phase \in {"store", "enter"} /\ Pos(n) = job.at

CalmJob(job, entries) ==
  job.phase \notin Inactive =>
    /\ \A n \in Nodes : Printed(job, n) /\ Valued(job, n) => job.value[n] = job.print[n]
    /\ \A n \in Nodes \ Inputs : Printed(job, n) \/ (Valued(job, n) /\ ~Pending(job, n)) =>
         Entered(entries, job.version, Has(job), n)
    /\ job.phase = "store" => Order[job.at] \in Cacheable
    /\ job.phase = "enter" => Order[job.at] \notin Cacheable

\* Every result is stored that can be; what an entry was made of is entered.
AllStored(entries) == \A e \in entries : e.key.node \in Cacheable => e.stored
Complete(entries) ==
  \A e \in entries : \A p \in Needs[e.key.node] \ Inputs : \E d \in entries : d.output = e.key.inputs[p]

\* The nodes a model is made of.
Lines == UNION {Lineage(t) : t \in Targets}

\* W is what a training of this version gives, and it is entered.
Settled(entries, version, W) ==
  \A n \in Lines :
    IF n \in Inputs THEN W[n] = Output(n, version[n], <<>>, 0) ELSE Entered(entries, version, W, n)

\* A training of what is settled runs nothing.
Following(job, W) ==
  /\ job.phase \notin {"store", "enter"}
  /\ job.phase = "run" => job.at > Len(Order)
  /\ job.phase = "fingerprint" => \A n \in Lines : Pos(n) < job.at => job.print[n] = W[n]
  /\ job.phase = "prune" =>
       /\ job.needed = Targets
       /\ \A n \in Lines : job.print[n] = W[n]
       /\ \A n \in Targets : Pos(n) > job.at => Valued(job, n)

LEMMA HasFacts ==
  ASSUME NEW job, NEW n \in Nodes
  PROVE  Has(job)[n] = IF Printed(job, n) THEN job.print[n] ELSE job.value[n]
BY DEF Has

LEMMA EnteredSame ==
  ASSUME NEW entries, NEW version, NEW n, NEW f, NEW g, f[n] = g[n],
         \A p \in Needs[n] : f[p] = g[p], Entered(entries, version, f, n)
  PROVE  Entered(entries, version, g, n)
<1>1. InputsOf(n, f) = InputsOf(n, g)
  BY SameInputs
<1>. QED  BY <1>1 DEF Entered

LEMMA EnteredMore ==
  ASSUME NEW entries, NEW more, entries \subseteq more, NEW version, NEW n, NEW W,
         Entered(entries, version, W, n)
  PROVE  Entered(more, version, W, n)
BY DEF Entered

LEMMA LinesFacts ==
  /\ Lines \subseteq Nodes /\ Targets \subseteq Lines
  /\ \A n \in Lines : Needs[n] \subseteq Lines
<1>0. Targets \subseteq Nodes /\ \A n \in Nodes : Needs[n] \subseteq Nodes
  BY GraphAssumption
<1>1. \A t \in Targets : t \in Lineage(t) /\ Lineage(t) \subseteq Nodes
  BY <1>0, LineageFacts
<1>2. ASSUME NEW t \in Targets, NEW n \in Lineage(t), NEW p \in Needs[n] PROVE p \in Lineage(t)
  BY <1>0, <1>2 DEF Lineage
<1>. QED  BY <1>1, <1>2 DEF Lines

\* What has no value yet holds by itself.
LEMMA CalmStart ==
  ASSUME NEW O, Typed(O), NEW j \in Jobs, NEW version \in Versions,
         Start(j, version, TRUE) \/ Start(j, version, FALSE), NEW entries
  PROVE  CalmJob(jobs'[j], entries)
<1>1. \A n \in Nodes : ~Printed(jobs'[j], n)
  <2>1. jobs'[j].print = [n \in Nodes |-> NoOutput]
    BY StartFacts
  <2>. QED  BY <2>1 DEF Printed
<1>2. \A n \in Nodes : ~Valued(jobs'[j], n)
  <2>1. jobs'[j].value = [n \in Nodes |-> NoOutput]
    BY StartFacts
  <2>. QED  BY <2>1 DEF Valued
<1>3. jobs'[j].phase \in {"run", "fingerprint"}
  BY StartFacts
<1>. QED  BY <1>1, <1>2, <1>3 DEF CalmJob

LEMMA FollowStart ==
  ASSUME NEW O, Typed(O), NEW j \in Jobs, NEW version \in Versions,
         Start(j, version, TRUE) \/ Start(j, version, FALSE), "forced" \notin causes', NEW W
  PROVE  Following(jobs'[j], W)
<1>1. jobs'[j].phase = "fingerprint"
  BY StartFacts
<1>2. jobs'[j].at = 1
  BY StartFacts
<1>3. \A n \in Lines : ~(Pos(n) < 1)
  BY PosFacts, LinesFacts
<1>. QED  BY <1>1, <1>2, <1>3 DEF Following

LEMMA CalmFingerprint ==
  ASSUME NEW O, Typed(O), NEW j \in Jobs, JobOK(jobs[j], j), CalmJob(jobs[j], Entries), Fingerprint(j)
  PROVE  CalmJob(jobs'[j], Entries)
<1>. DEFINE job == jobs[j]
            next == jobs'[j]
            n == Node(j)
<1>0. JobOK(next, j)
  BY FingerprintOK
<1>1. /\ job.phase = "fingerprint" /\ job.at \in 1 .. Len(Order)
      /\ next.phase \in {"fingerprint", "prune"} /\ next.version = job.version
  BY FingerprintFacts
<1>2. n \in Nodes /\ Pos(n) = job.at /\ job \in JobOver(O)
  BY <1>1, NodeFacts
<1>3. ~Printed(job, n)
  BY <1>1, <1>2, PosFacts DEF JobOK, Ready
<1>4. job.print \in [Nodes -> O]
  BY <1>2, JobFacts
<1>5. \A m \in Nodes \ {n} : next.print[m] = job.print[m]
  <2>1. next.print = job.print \/ \E o : next.print = [job.print EXCEPT ![n] = o]
    BY FingerprintFacts
  <2>. QED  BY <1>4, <2>1
<1>6. Printed(next, n) /\ n \notin Inputs =>
        \E e \in Entries : e.key = Key(n, job.version[n], InputsOf(n, job.print)) /\ e.output = next.print[n]
  <2>1. \/ n \in Inputs \/ next.print = job.print
        \/ \E e \in Entries : /\ e.key = Key(n, job.version[n], InputsOf(n, job.print))
                              /\ next.print = [job.print EXCEPT ![n] = e.output]
    BY FingerprintFacts
  <2>. QED  BY <1>2, <1>3, <1>4, <2>1 DEF Printed
<1>. HIDE DEF job, next, n
<1>7. /\ Prints(job) /\ Prints(next)
      /\ \A m \in Nodes : Valued(next, m) => Printed(next, m) /\ next.value[m] = next.print[m]
  BY <1>0, <1>1 DEF JobOK, Values, Inactive, job
<1>8. ASSUME NEW m \in Nodes \ Inputs, Printed(next, m)
      PROVE  Entered(Entries, next.version, Has(next), m)
  <2>1. \A p \in Needs[m] : p \in Nodes /\ p # m /\ Printed(next, p)
    BY <1>7, <1>8, PosFacts DEF Prints
  <2>2. CASE m # n
    <3>1. Printed(job, m)
      BY <1>5, <1>8, <2>2 DEF Printed
    <3>2. \A p \in Needs[m] : Printed(job, p)
      BY <1>7, <1>8, <3>1 DEF Prints
    <3>3. Entered(Entries, job.version, Has(job), m)
      BY <1>1, <1>8, <3>1 DEF CalmJob, Inactive, job
    <3>4. Has(next)[m] = Has(job)[m]
      BY <1>5, <1>8, <2>2, <3>1, HasFacts
    <3>5. \A p \in Needs[m] : Has(next)[p] = Has(job)[p]
      BY <1>3, <1>5, <2>1, <3>2, HasFacts
    <3>. QED  BY <1>1, <3>3, <3>4, <3>5, EnteredSame
  <2>3. CASE m = n
    <3>1. PICK e \in Entries :
            e.key = Key(n, job.version[n], InputsOf(n, job.print)) /\ e.output = next.print[n]
      BY <1>6, <1>8, <2>3
    <3>2. \A p \in Needs[n] : Has(next)[p] = job.print[p]
      BY <1>5, <2>1, <2>3, HasFacts
    <3>3. InputsOf(n, Has(next)) = InputsOf(n, job.print)
      BY <3>2, SameInputs
    <3>4. Has(next)[n] = next.print[n]
      BY <1>8, <2>3, HasFacts
    <3>. QED  BY <1>1, <2>3, <3>1, <3>3, <3>4 DEF Entered
  <2>. QED  BY <2>2, <2>3
<1>9. CalmJob(next, Entries)
  BY <1>1, <1>7, <1>8 DEF CalmJob
<1>. QED  BY <1>9 DEF next

LEMMA FollowFingerprint ==
  ASSUME NEW O, Typed(O), NEW j \in Jobs, JobOK(jobs[j], j), NEW W,
         Settled(Entries, jobs[j].version, W), Following(jobs[j], W), Fingerprint(j)
  PROVE  Following(jobs'[j], W)
<1>. DEFINE job == jobs[j]
            next == jobs'[j]
            n == Node(j)
<1>1. /\ job.phase = "fingerprint" /\ job.at \in 1 .. Len(Order)
      /\ next.phase = (IF job.at = Len(Order) THEN "prune" ELSE "fingerprint")
      /\ next.at = (IF job.at = Len(Order) THEN job.at ELSE job.at + 1)
      /\ next.needed = job.needed
  BY FingerprintFacts
<1>2. n \in Nodes /\ Pos(n) = job.at /\ job \in JobOver(O)
  BY <1>1, NodeFacts
<1>3. job.print \in [Nodes -> O]
  BY <1>2, JobFacts
<1>4. \A m \in Nodes \ {n} : next.print[m] = job.print[m]
  <2>1. next.print = job.print \/ \E o : next.print = [job.print EXCEPT ![n] = o]
    BY FingerprintFacts
  <2>. QED  BY <1>3, <2>1
<1>5. n \in Inputs => next.print[n] = Output(n, job.version[n], <<>>, 0)
  <2>1. n \in Inputs => next.print = [job.print EXCEPT ![n] = Output(n, job.version[n], <<>>, 0)]
    BY FingerprintFacts
  <2>. QED  BY <1>2, <1>3, <2>1
<1>6. n \notin Inputs =>
        \/ \A e \in Entries : e.key # Key(n, job.version[n], InputsOf(n, job.print))
        \/ \E e \in Entries : e.key = Key(n, job.version[n], InputsOf(n, job.print)) /\ next.print[n] = e.output
  <2>1. n \notin Inputs =>
          \/ \A e \in Entries : e.key # Key(n, job.version[n], InputsOf(n, job.print))
          \/ \E e \in Entries : /\ e.key = Key(n, job.version[n], InputsOf(n, job.print))
                                /\ next.print = [job.print EXCEPT ![n] = e.output]
    BY FingerprintFacts
  <2>. QED  BY <1>2, <1>3, <2>1
<1>7. \A d, e \in Entries : d.key = e.key => d = e
  BY KeyedOnceSets DEF Typed, Entries
<1>8. \A m \in Lines : Pos(m) < job.at => job.print[m] = W[m]
  BY <1>1 DEF Following
<1>9. Settled(Entries, job.version, W) /\ job.needed = Targets
  BY <1>1 DEF JobOK, Ready
<1>. HIDE DEF job, next, n
<1>10. n \in Lines => next.print[n] = W[n]
  <2>1. CASE n \in Lines /\ n \in Inputs
    BY <1>5, <1>9, <2>1 DEF Settled
  <2>2. CASE n \in Lines /\ n \notin Inputs
    <3>1. PICK d \in Entries : d.key = Key(n, job.version[n], InputsOf(n, W)) /\ d.output = W[n]
      BY <1>9, <2>2 DEF Settled, Entered
    <3>2. \A p \in Needs[n] : job.print[p] = W[p]
      BY <1>2, <1>8, <2>2, LinesFacts, PosFacts
    <3>3. InputsOf(n, job.print) = InputsOf(n, W)
      BY <3>2, SameInputs
    <3>. QED  BY <1>6, <1>7, <2>2, <3>1, <3>3
  <2>. QED  BY <2>1, <2>2
<1>11. ASSUME NEW m \in Lines, Pos(m) < next.at \/ next.phase = "prune" PROVE next.print[m] = W[m]
  <2>1. m \in Nodes /\ Pos(m) \in 1 .. Len(Order) /\ Len(Order) \in Nat
    BY LinesFacts, PosFacts
  <2>2. Pos(m) =< job.at
    BY <1>1, <1>11, <2>1
  <2>3. CASE m = n
    BY <1>10, <2>3
  <2>4. CASE m # n
    <3>1. Pos(m) # job.at
      BY <1>2, <2>1, <2>4, PosFacts
    <3>2. Pos(m) < job.at
      BY <1>1, <2>1, <2>2, <3>1
    <3>. QED  BY <1>4, <1>8, <2>1, <2>4, <3>2
  <2>. QED  BY <2>3, <2>4
<1>12. next.phase = "prune" => \A m \in Targets : ~(Pos(m) > next.at)
  <2>1. \A m \in Targets : Pos(m) \in 1 .. Len(Order)
    BY LinesFacts, PosFacts
  <2>. QED  BY <1>1, <2>1, PosFacts
<1>13. Following(next, W)
  BY <1>1, <1>9, <1>11, <1>12 DEF Following
<1>. QED  BY <1>13 DEF next

LEMMA CalmPrune ==
  ASSUME NEW O, Typed(O), NEW j \in Jobs, JobOK(jobs[j], j), CalmJob(jobs[j], Entries), Prune(j)
  PROVE  CalmJob(jobs'[j], Entries)
<1>. DEFINE job == jobs[j]
            next == jobs'[j]
            n == Node(j)
<1>1. /\ job.phase = "prune" /\ job.at \in 1 .. Len(Order)
      /\ next.version = job.version /\ next.print = job.print
  BY PruneFacts
<1>2. next.phase \in {"prune", "run"}
  <2>1. IF job.at = 1 THEN NextToRun(next, 0) ELSE next.phase = "prune" /\ next.at = job.at - 1
    BY PruneFacts
  <2>. QED  BY <2>1 DEF NextToRun
<1>3. n \in Nodes /\ job \in JobOver(O)
  BY <1>1, NodeFacts
<1>4. \A m \in Nodes : next.value[m] = job.value[m] \/ (Printed(job, m) /\ next.value[m] = job.print[m])
  <2>1. next.value = job.value \/ (n \in job.hits /\ next.value = [job.value EXCEPT ![n] = job.print[n]])
    BY PruneFacts
  <2>2. job.value \in [Nodes -> O]
    BY <1>3, JobFacts
  <2>3. n \in job.hits => Printed(job, n)
    BY DEF JobOK, Prints
  <2>. QED  BY <2>1, <2>2, <2>3
<1>5. \A m \in Nodes : Valued(job, m) => Printed(job, m) /\ job.value[m] = job.print[m]
  BY <1>1 DEF JobOK, Values, Inactive
<1>6. \A m \in Nodes \ Inputs : Printed(job, m) => Entered(Entries, job.version, Has(job), m)
  BY <1>1 DEF CalmJob, Inactive
<1>. HIDE DEF job, next, n
<1>7. \A m \in Nodes : (Printed(next, m) <=> Printed(job, m)) /\ Has(next)[m] = Has(job)[m]
  <2>. SUFFICES ASSUME NEW m \in Nodes
                PROVE  (Printed(next, m) <=> Printed(job, m)) /\ Has(next)[m] = Has(job)[m]
    OBVIOUS
  <2>1. Printed(next, m) <=> Printed(job, m)
    BY <1>1 DEF Printed
  <2>. QED  BY <1>1, <1>4, <2>1, HasFacts
<1>8. \A m \in Nodes : Valued(next, m) => Printed(job, m) /\ next.value[m] = job.print[m]
  BY <1>4, <1>5 DEF Valued
<1>9. ASSUME NEW m \in Nodes \ Inputs, Printed(job, m)
      PROVE  Entered(Entries, next.version, Has(next), m)
  <2>1. Entered(Entries, next.version, Has(job), m)
    BY <1>1, <1>6, <1>9
  <2>2. \A p \in Needs[m] : Has(job)[p] = Has(next)[p]
    BY <1>7, GraphAssumption
  <2>. QED  BY <1>7, <2>1, <2>2, EnteredSame
<1>10. CalmJob(next, Entries)
  BY <1>1, <1>2, <1>7, <1>8, <1>9 DEF CalmJob
<1>. QED  BY <1>10 DEF next

LEMMA FollowPrune ==
  ASSUME NEW O, Typed(O), NEW j \in Jobs, JobOK(jobs[j], j), AllStored(Entries), NEW W,
         Settled(Entries, jobs[j].version, W), Following(jobs[j], W), Prune(j), "fault" \notin causes'
  PROVE  Following(jobs'[j], W)
<1>. DEFINE job == jobs[j]
            next == jobs'[j]
            n == Node(j)
<1>1. job.phase = "prune" /\ job.at \in 1 .. Len(Order) /\ next.print = job.print
  BY PruneFacts
<1>2. IF job.at = 1 THEN NextToRun(next, 0) ELSE next.phase = "prune" /\ next.at = job.at - 1
  BY PruneFacts
<1>3. n \in Nodes /\ Pos(n) = job.at /\ job \in JobOver(O) /\ job.value \in [Nodes -> O]
  BY <1>1, NodeFacts, JobFacts
<1>4. /\ job.needed = Targets /\ \A m \in Lines : job.print[m] = W[m]
      /\ \A m \in Targets : Pos(m) > job.at => Valued(job, m)
      /\ Settled(Entries, job.version, W)
  BY <1>1 DEF Following
<1>5. /\ \A m \in Inputs : Valued(job, m)
      /\ \A m \in Nodes : Printed(job, m) => m \in Inputs \union job.hits
  BY <1>1 DEF JobOK, Ready, Prints
<1>6. \/ /\ n \notin job.needed \/ n \in Inputs
         /\ next.needed = job.needed /\ next.value = job.value
      \/ /\ n \in job.needed /\ n \notin Inputs
         /\ next.value = [job.value EXCEPT ![n] = job.print[n]] /\ next.needed = job.needed
      \/ n \in job.needed /\ n \notin Inputs /\ ~(n \in job.hits /\ Restorable(job.print[n]))
  BY PruneFacts
\* What is to be restored can be.
<1>7. n \in Targets \ Inputs => Printed(job, n) /\ n \in job.hits /\ Restorable(job.print[n])
  <2>. SUFFICES ASSUME n \in Targets, n \notin Inputs
                PROVE  Printed(job, n) /\ n \in job.hits /\ Restorable(job.print[n])
    OBVIOUS
  <2>1. n \in Lines
    BY LinesFacts
  <2>2. PICK e \in Entries : e.key = Key(n, job.version[n], InputsOf(n, W)) /\ e.output = W[n]
    BY <1>4, <2>1 DEF Settled, Entered
  <2>3. e.key.node = n
    BY <2>2 DEF Key
  <2>4. n \in Cacheable
    BY GraphAssumption
  <2>5. e.stored
    BY <2>3, <2>4 DEF AllStored
  <2>6. e.output # NoOutput
    <3>1. \A d \in Entries : d \in EntryOver(O)
      BY Elements DEF Typed, Entries
    <3>. QED  BY <3>1, EntryFacts
  <2>7. e.output = job.print[n]
    BY <1>4, <2>1, <2>2
  <2>8. Printed(job, n)
    BY <2>6, <2>7 DEF Printed
  <2>. QED  BY <1>3, <1>5, <2>5, <2>7, <2>8 DEF Restorable
<1>. HIDE DEF job, next, n
<1>8. next.needed = Targets
  BY <1>4, <1>6, <1>7
<1>9. \A m \in Nodes : Valued(job, m) \/ (m = n /\ n \in Targets) => Valued(next, m)
  <2>1. CASE (n \notin Targets \/ n \in Inputs) /\ next.value = job.value
    BY <1>5, <2>1 DEF Valued
  <2>2. CASE n \in Targets \ Inputs /\ next.value = [job.value EXCEPT ![n] = job.print[n]]
    BY <1>3, <1>7, <2>2 DEF Valued, Printed
  <2>. QED  BY <1>4, <1>6, <1>7, <2>1, <2>2
<1>10. ASSUME NEW m \in Targets, Pos(m) >= job.at PROVE Valued(next, m)
  <2>1. m \in Nodes /\ Pos(m) \in Nat /\ Order[Pos(m)] = m /\ Order[job.at] = n
    BY <1>3, LinesFacts, PosFacts
  <2>2. m = n \/ Pos(m) > job.at
    BY <1>1, <1>10, <2>1
  <2>. QED  BY <1>4, <1>9, <1>10, <2>1, <2>2
<1>11. CASE job.at = 1
  <2>1. NextToRun(next, 0)
    BY <1>2, <1>11
  <2>2. \A m \in Targets : Valued(next, m)
    <3>1. \A m \in Targets : Pos(m) >= 1
      BY LinesFacts, PosFacts
    <3>. QED  BY <1>10, <1>11, <3>1
  <2>3. next.phase = "run" /\ next.at \in 1 .. Len(Order) + 1
    BY <2>1 DEF NextToRun
  <2>4. ~(next.at =< Len(Order))
    <3>1. next.at =< Len(Order) => Order[next.at] \in next.needed /\ ~Valued(next, Order[next.at])
      BY <2>1 DEF NextToRun
    <3>. QED  BY <1>8, <2>2, <3>1
  <2>5. next.at > Len(Order)
    BY <2>3, <2>4, PosFacts
  <2>. QED  BY <2>3, <2>5 DEF Following, next
<1>12. CASE job.at # 1
  <2>1. next.phase = "prune" /\ next.at = job.at - 1
    BY <1>2, <1>12
  <2>2. \A m \in Targets : Pos(m) > next.at => Valued(next, m)
    <3>1. \A m \in Targets : Pos(m) \in Nat
      BY LinesFacts, PosFacts
    <3>2. \A m \in Targets : Pos(m) > next.at => Pos(m) >= job.at
      BY <1>1, <2>1, <3>1
    <3>. QED  BY <1>10, <3>2
  <2>. QED  BY <1>1, <1>4, <1>8, <2>1, <2>2 DEF Following, next
<1>. QED  BY <1>11, <1>12

\* A node that gives the same from run to run.
LEMMA SameOutput ==
  ASSUME NEW n \in Nodes, n \notin Cacheable, NEW setting, NEW f, NEW i, NEW k
  PROVE  Output(n, setting, f, i) = Output(n, setting, f, k)
<1>1. n \notin Fresh /\ n \notin Random
  BY GraphAssumption
<1>. QED  BY <1>1 DEF Output

LEMMA CalmRun ==
  ASSUME NEW O, Typed(O), NEW j \in Jobs, JobOK(jobs[j], j), Tidy(jobs[j], j, Entries),
         CalmJob(jobs[j], Entries), AllStored(Entries), NEW fails \in BOOLEAN, Run(j, fails),
         causes' \intersect {"fault", "too large"} = {}
  PROVE  CalmJob(jobs'[j], Entries)
<1>. DEFINE job == jobs[j]
            next == jobs'[j]
            n == Node(j)
            f == InputsOf(n, job.value)
            made == Output(n, job.version[n], f, j)
<1>1. job.phase = "run" /\ job.at \in 1 .. Len(Order)
  BY PosFacts DEF Run, At
<1>2. n \in job.needed /\ ~Valued(job, n) /\ \A p \in Needs[n] : Valued(job, p)
  BY <1>1, ParentsValued DEF JobOK
<1>3. /\ n \in Nodes /\ Pos(n) = job.at /\ Order[job.at] = n /\ job \in JobOver(O)
      /\ \A p \in Needs[n] : p \in Nodes
      /\ job.value \in [Nodes -> O]
  BY <1>1, NodeFacts, JobFacts
<1>4. /\ next.at = job.at /\ next.version = job.version
      /\ next.print = job.print /\ next.value = [job.value EXCEPT ![n] = made]
  BY <1>2, RunFacts
<1>5. \/ next.phase = "store" /\ n \in Cacheable
      \/ next.phase = "enter" /\ (n \in Cacheable => causes' \intersect {"fault", "too large"} # {})
  BY <1>2, RunFacts
<1>6. Unstored(job, Entries) /\ Runs(job) /\ Prints(job) /\ Values(job, j)
  BY <1>1 DEF Tidy, JobOK, Inactive
<1>7. /\ \A m \in Nodes : Printed(job, m) /\ Valued(job, m) => job.value[m] = job.print[m]
      /\ \A m \in Nodes \ Inputs : Printed(job, m) \/ Valued(job, m) =>
           Entered(Entries, job.version, Has(job), m)
  BY <1>1 DEF CalmJob, Inactive, Pending
<1>. HIDE DEF job, next, n, f, made
\* What is run although it was found gives the same.
<1>8. Printed(job, n) => made = job.print[n]
  <2>. SUFFICES ASSUME Printed(job, n) PROVE made = job.print[n]
    OBVIOUS
  <2>1. n \notin Inputs
    BY <1>1, <1>2, <1>6 DEF Runs, RunPhases
  <2>2. n \in job.hits /\ \A p \in Needs[n] : Printed(job, p)
    BY <1>3, <1>6, <2>1 DEF Prints
  <2>3. Rerun(job, n)
    BY <1>1, <1>2, <2>2 DEF Rerun, RunPhases
  <2>4. PICK e \in Entries : e.key = Key(n, job.version[n], InputsOf(n, Has(job))) /\ e.output = Has(job)[n]
    BY <1>3, <1>7, <2>1 DEF Entered
  <2>5. e.output = job.print[n] /\ e.key.node = n
    <3>1. Has(job)[n] = job.print[n]
      BY <1>3, HasFacts
    <3>2. e.output = job.print[n]
      BY <2>4, <3>1
    <3>3. Key(n, job.version[n], InputsOf(n, Has(job))).node = n
      BY DEF Key
    <3>4. e.key.node = n
      BY <2>4, <3>3
    <3>. QED  BY <3>2, <3>4
  <2>6. n \notin Cacheable
    BY <1>3, <1>6, <2>3, <2>5 DEF Unstored, AllStored
  <2>7. PICK run \in Jobs : job.print[n] = Output(n, job.version[n], InputsOf(n, job.print), run)
    BY <1>6, <2>2 DEF Prints
  <2>8. InputsOf(n, job.print) = f
    <3>1. \A p \in Needs[n] : job.print[p] = job.value[p]
      BY <1>2, <1>3, <1>7, <2>2
    <3>. QED  BY <3>1, SameInputs DEF f
  <2>9. Output(n, job.version[n], f, run) = Output(n, job.version[n], f, j)
    <3>1. \A setting, g, i, k : Output(n, setting, g, i) = Output(n, setting, g, k)
      BY <1>3, <2>6, SameOutput
    <3>. QED  BY <3>1
  <2>. QED  BY <2>7, <2>8, <2>9 DEF made
<1>9. \A m \in Nodes : Printed(next, m) <=> Printed(job, m)
  BY <1>4 DEF Printed
<1>10. next.value[n] = made /\ \A m \in Nodes \ {n} : next.value[m] = job.value[m]
  BY <1>3, <1>4
<1>11. \A m \in Nodes : Printed(next, m) /\ Valued(next, m) => next.value[m] = next.print[m]
  BY <1>4, <1>7, <1>8, <1>9, <1>10 DEF Valued
<1>12. \A m \in Nodes : Printed(job, m) \/ m # n => Has(next)[m] = Has(job)[m]
  <2>. SUFFICES ASSUME NEW m \in Nodes, Printed(job, m) \/ m # n PROVE Has(next)[m] = Has(job)[m]
    OBVIOUS
  <2>1. Has(next)[m] = IF Printed(job, m) THEN job.print[m] ELSE next.value[m]
    BY <1>4, <1>9, HasFacts
  <2>2. Has(job)[m] = IF Printed(job, m) THEN job.print[m] ELSE job.value[m]
    BY HasFacts
  <2>. QED  BY <1>10, <2>1, <2>2
<1>13. ASSUME NEW m \in Nodes \ Inputs, Printed(next, m) \/ (Valued(next, m) /\ ~Pending(next, m))
       PROVE  Entered(Entries, next.version, Has(next), m)
  <2>1. Printed(job, m) \/ (m # n /\ Valued(job, m))
    <3>1. m = n => Pending(next, m)
      BY <1>3, <1>4, <1>5 DEF Pending
    <3>. QED  BY <1>9, <1>10, <1>13, <3>1 DEF Valued
  <2>2. Entered(Entries, job.version, Has(job), m)
    BY <1>7, <1>13, <2>1
  <2>3. \A p \in Needs[m] : p \in Nodes /\ (Printed(job, p) \/ p # n)
    <3>1. \A p \in Needs[m] : p \in Nodes
      BY GraphAssumption
    <3>2. CASE Printed(job, m)
      BY <1>6, <1>13, <3>1, <3>2 DEF Prints
    <3>3. CASE ~Printed(job, m)
      <4>1. MadeBy(job, j, m)
        BY <1>1, <1>6, <1>13, <2>1, <3>3 DEF Values, Inactive
      <4>. QED  BY <1>2, <3>1, <4>1 DEF MadeBy
    <3>. QED  BY <3>2, <3>3
  <2>4. Has(job)[m] = Has(next)[m] /\ \A p \in Needs[m] : Has(job)[p] = Has(next)[p]
    BY <1>12, <1>13, <2>1, <2>3
  <2>5. next.version = job.version
    BY <1>4
  <2>. QED  BY <2>2, <2>4, <2>5, EnteredSame
<1>14. Order[next.at] = n
  BY <1>3, <1>4
<1>15. CalmJob(next, Entries)
  BY <1>5, <1>11, <1>13, <1>14 DEF CalmJob
<1>. QED  BY <1>15 DEF next

\* What is stored comes beside what was there.
LEMMA CalmStore ==
  ASSUME NEW O, Typed(O), NEW j \in Jobs, JobOK(jobs[j], j), Tidy(jobs[j], j, Entries),
         CalmJob(jobs[j], Entries), AllStored(Entries), Complete(Entries), Store(j)
  PROVE  /\ Entries \subseteq ToSet(cache')
         /\ AllStored(ToSet(cache')) /\ Complete(ToSet(cache'))
         /\ CalmJob(jobs'[j], ToSet(cache'))
<1>. DEFINE job == jobs[j]
            next == jobs'[j]
            n == Node(j)
            key == Key(n, job.version[n], InputsOf(n, job.value))
            entry == [key |-> key, output |-> job.value[n], stored |-> job.phase = "store"]
            entries == ToSet(cache')
<1>0. job.phase \in {"store", "enter"}
  BY DEF Store
<1>1. /\ job.at \in 1 .. Len(Order) /\ Valued(job, n) /\ MadeBy(job, j, n)
      /\ \A p \in Needs[n] : Valued(job, p)
      /\ job.value[n] = Output(n, job.version[n], InputsOf(n, job.value), j)
  BY <1>0, JustMade
<1>2. /\ NextToRun(next, job.at) /\ next.version = job.version
      /\ next.print = job.print /\ next.value = job.value
  BY <1>1, StoreFacts
<1>3. entries = {e \in Entries : e.key # key} \union {entry}
  BY <1>1, StoreFacts
<1>4. /\ n \in Nodes /\ Pos(n) = job.at /\ job \in JobOver(O) /\ n = Order[job.at]
      /\ \A p \in Needs[n] : p \in Nodes /\ Pos(p) < Pos(n)
  BY <1>1, NodeFacts
<1>5. key.node = n /\ key.inputs = InputsOf(n, job.value)
  BY DEF Key
<1>6. /\ \A m \in Nodes : Printed(job, m) /\ Valued(job, m) => job.value[m] = job.print[m]
      /\ \A m \in Nodes \ Inputs : Printed(job, m) \/ (Valued(job, m) /\ ~Pending(job, m)) =>
           Entered(Entries, job.version, Has(job), m)
      /\ job.phase = "store" <=> n \in Cacheable
  BY <1>0, <1>4 DEF CalmJob, Inactive
<1>7. \A e \in Entries : e.key = key => e.output = job.value[n] /\ ~e.stored
  BY <1>0, <1>1, <1>4, <1>6, StoreFinds
<1>. HIDE DEF job, next, n
<1>8. ASSUME NEW e \in Entries, e.key = key PROVE e = entry
  <2>1. e.output = entry.output
    BY <1>7, <1>8
  <2>2. e.stored = entry.stored
    <3>1. ~e.stored /\ e.stored \in BOOLEAN
      <4>1. \A d \in Entries : d \in EntryOver(O)
        BY Elements DEF Typed, Entries
      <4>. QED  BY <1>7, <1>8, <4>1, EntryFacts
    <3>2. n \notin Cacheable
      BY <1>5, <1>8, <3>1 DEF AllStored
    <3>. QED  BY <1>6, <3>1, <3>2
  <2>3. e = [key |-> e.key, output |-> e.output, stored |-> e.stored]
    <3>1. e \in EntryOver(O)
      BY Elements DEF Typed, Entries
    <3>. QED  BY <3>1 DEF EntryOver
  <2>. QED  BY <1>8, <2>1, <2>2, <2>3
<1>9. entries = Entries \union {entry}
  BY <1>3, <1>8
<1>10. entry.key = key /\ entry.output = job.value[n] /\ entry.stored = (job.phase = "store")
  OBVIOUS
<1>. HIDE DEF key, entry, entries
<1>11. AllStored(entries)
  BY <1>5, <1>6, <1>9, <1>10 DEF AllStored
<1>12. \A p \in Needs[n] : Has(job)[p] = job.value[p]
  BY <1>1, <1>4, <1>6, HasFacts
<1>13. Complete(entries)
  <2>1. ASSUME NEW p \in Needs[n] \ Inputs PROVE \E d \in entries : d.output = job.value[p]
    <3>1. Valued(job, p) /\ ~Pending(job, p)
      BY <1>1, <1>4, PosFacts DEF Pending
    <3>2. Entered(Entries, job.version, Has(job), p)
      BY <1>4, <1>6, <2>1, <3>1
    <3>. QED  BY <1>9, <1>12, <2>1, <3>2 DEF Entered
  <2>2. \A p \in Needs[n] : entry.key.inputs[p] = job.value[p]
    BY <1>5, <1>10 DEF InputsOf
  <2>. QED  BY <1>5, <1>9, <1>10, <2>1, <2>2 DEF Complete
<1>14. \A m : (Printed(next, m) <=> Printed(job, m)) /\ (Valued(next, m) <=> Valued(job, m))
  BY <1>2 DEF Printed, Valued
<1>15. Has(next) = Has(job)
  BY <1>2, <1>14 DEF Has
<1>16. ASSUME NEW m \in Nodes \ Inputs, Printed(job, m) \/ Valued(job, m)
       PROVE  Entered(entries, job.version, Has(job), m)
  <2>1. CASE Printed(job, m) \/ ~Pending(job, m)
    <3>1. Entered(Entries, job.version, Has(job), m)
      BY <1>6, <1>16, <2>1
    <3>. QED  BY <1>9, <3>1, EnteredMore
  <2>2. CASE ~Printed(job, m) /\ Pending(job, m)
    <3>1. m = n
      BY <1>1, <1>4, <2>2, PosFacts DEF Pending
    <3>2. InputsOf(n, Has(job)) = InputsOf(n, job.value)
      BY <1>12, SameInputs
    <3>3. Has(job)[n] = job.value[n]
      BY <1>4, <2>2, <3>1, HasFacts
    <3>. QED  BY <1>9, <1>10, <3>1, <3>2, <3>3 DEF Entered, key
  <2>. QED  BY <2>1, <2>2
<1>17. next.phase = "run"
  BY <1>2 DEF NextToRun
<1>18. CalmJob(next, entries)
  BY <1>2, <1>6, <1>14, <1>15, <1>16, <1>17 DEF CalmJob
<1>. QED  BY <1>9, <1>11, <1>13, <1>18 DEF next, entries

\* What is complete has outlived nothing.
LEMMA CompleteNotParted ==
  ASSUME NEW entries, Complete(ToSet(entries))
  PROVE  ~Parted(entries)
BY DEF Complete, Parted

\* What a model is made of is entered when it is packaged.
LEMMA PackagedIsSettled ==
  ASSUME NEW O, Typed(O), NEW j \in Jobs, JobOK(jobs[j], j), Tidy(jobs[j], j, Entries),
         CalmJob(jobs[j], Entries), jobs[j].phase = "run", jobs[j].at > Len(Order)
  PROVE  Settled(Entries, jobs[j].version, Has(jobs[j]))
<1>. DEFINE job == jobs[j]
            S == {m \in Nodes : Printed(job, m) \/ Valued(job, m)}
<1>1. job \in JobOver(O) /\ job.at = Len(Order) + 1
  BY PosFacts, JobFacts DEF Typed
<1>2. Ready(job) /\ Prints(job) /\ Values(job, j) /\ Runs(job)
  BY DEF JobOK, Tidy, Inactive
<1>3. \A n \in Nodes \ Inputs : Printed(job, n) \/ Valued(job, n) =>
        Entered(Entries, job.version, Has(job), n)
  BY DEF CalmJob, Inactive, Pending
<1>4. job.phase = "run"
  OBVIOUS
<1>. HIDE DEF job
<1>5. Targets \subseteq S
  <2>1. ASSUME NEW t \in Targets PROVE Valued(job, t) /\ t \in Nodes
    <3>1. t \in job.needed /\ t \in Nodes
      BY <1>2, <1>4, GraphAssumption DEF Ready, Inactive
    <3>2. Pos(t) < job.at
      BY <1>1, <3>1, PosFacts
    <3>. QED  BY <1>2, <1>4, <3>1, <3>2 DEF Ready
  <2>. QED  BY <2>1
<1>6. ASSUME NEW m \in S PROVE Needs[m] \subseteq S
  <2>1. Needs[m] \subseteq Nodes /\ (m \in Inputs => Needs[m] = {})
    BY GraphAssumption
  <2>2. CASE Printed(job, m)
    BY <1>2, <2>1, <2>2 DEF Prints
  <2>3. CASE Valued(job, m) /\ ~Printed(job, m)
    <3>1. MadeBy(job, j, m)
      BY <1>2, <1>4, <2>3 DEF Values, Inactive
    <3>. QED  BY <2>1, <3>1 DEF MadeBy
  <2>. QED  BY <2>2, <2>3
<1>7. Lines \subseteq S
  <2>. HIDE DEF S
  <2>1. S \in SUBSET Nodes
    BY DEF S
  <2>2. ASSUME NEW t \in Targets, NEW n \in Lineage(t) PROVE n \in S
    BY <1>5, <1>6, <2>1, <2>2 DEF Lineage
  <2>. QED  BY <2>2 DEF Lines
<1>8. ASSUME NEW n \in Lines
      PROVE  IF n \in Inputs THEN Has(job)[n] = Output(n, job.version[n], <<>>, 0)
             ELSE Entered(Entries, job.version, Has(job), n)
  <2>1. n \in Nodes /\ (Printed(job, n) \/ Valued(job, n))
    BY <1>7
  <2>2. CASE n \in Inputs
    <3>1. Printed(job, n)
      BY <1>2, <1>4, <2>2 DEF Runs, RunPhases
    <3>2. Has(job)[n] = job.print[n]
      BY <2>1, <3>1, HasFacts
    <3>. QED  BY <1>2, <2>2, <3>1, <3>2 DEF Prints
  <2>3. CASE n \notin Inputs
    BY <1>3, <2>1, <2>3
  <2>. QED  BY <2>2, <2>3
<1>. QED  BY <1>8 DEF Settled, job

LEMMA SettledMore ==
  ASSUME NEW entries, NEW more, entries \subseteq more, NEW version, NEW W, Settled(entries, version, W)
  PROVE  Settled(more, version, W)
BY EnteredMore DEF Settled

-----------------------------------------------------------------------------
(* The invariant of a cache nothing has disturbed.                           *)

Active(job, version) == job.phase \notin Inactive /\ job.version = version

\* A model of this version is finished, and whoever trains it again follows.
Finished(version, entries) ==
  \E W : /\ Settled(entries, version, W)
         /\ \A k \in Jobs : Active(jobs[k], version) => Following(jobs[k], W)

CalmInv ==
  causes \subseteq {"parted"} =>
    /\ causes = {}
    /\ AllStored(Entries) /\ Complete(Entries)
    /\ \A i \in Jobs : CalmJob(jobs[i], Entries)
    /\ \A i \in Jobs : jobs[i].phase = "done" => Finished(jobs[i].version, Entries)

\* What a step leaves of it.
CalmGoesOn(j) ==
  /\ "parted" \notin causes'
  /\ Entries \subseteq ToSet(cache')
  /\ AllStored(ToSet(cache')) /\ Complete(ToSet(cache'))
  /\ CalmJob(jobs'[j], ToSet(cache'))
  /\ \A version, W :
       /\ Settled(Entries, version, W)
       /\ Active(jobs[j], version) => Following(jobs[j], W)
       /\ Active(jobs'[j], version)
       => Following(jobs'[j], W)
  /\ jobs'[j].phase = "done" => \E W : Settled(Entries, jobs'[j].version, W)

LEMMA CalmGoesOnStep ==
  ASSUME CacheInv, CalmInv, NEW j \in Jobs, Step(j), causes' \subseteq {"parted"}
  PROVE  CalmGoesOn(j)
<1>0. causes \subseteq causes' /\ causes = {}
  <2>1. causes \subseteq causes'
    BY CausesGrow
  <2>. QED  BY <2>1 DEF CalmInv
<1>1. PICK O : Typed(O)
  BY DEF CacheInv, TrainingInv
<1>2. JobOK(jobs[j], j)
  BY DEF CacheInv, TrainingInv, AllOK
<1>3. ~Parted(cache) /\ Tidy(jobs[j], j, Entries)
  BY <1>0 DEF CacheInv, NoLeak, Disturbed
<1>4. AllStored(Entries) /\ Complete(Entries) /\ CalmJob(jobs[j], Entries)
  BY <1>0 DEF CalmInv
<1>5. CASE \E version \in Versions : Start(j, version, TRUE) \/ Start(j, version, FALSE)
  <2>1. PICK version \in Versions : Start(j, version, TRUE) \/ Start(j, version, FALSE)
    BY <1>5
  <2>2. cache' = cache
    BY <2>1 DEF Start
  <2>3. "parted" \notin causes'
    BY <1>0, <2>1 DEF Start
  <2>4. CalmJob(jobs'[j], Entries)
    BY <1>1, <2>1, CalmStart
  <2>5. \A W : Following(jobs'[j], W)
    BY <1>1, <2>1, FollowStart
  <2>6. jobs'[j].phase \in {"run", "fingerprint"}
    BY <1>1, <2>1, StartFacts
  <2>. QED  BY <1>4, <2>2, <2>3, <2>4, <2>5, <2>6 DEF CalmGoesOn, Entries
<1>6. CASE Fingerprint(j)
  <2>1. causes' = causes
    BY <1>6 DEF Fingerprint
  <2>2. cache' = cache \/ \E e \in Entries : cache' = Merged(cache, e)
    BY <1>1, <1>6, FingerprintFacts
  <2>3. ToSet(cache') = Entries
    BY <1>1, <2>2, MergedAgain DEF Typed, Entries
  <2>4. CalmJob(jobs'[j], Entries)
    BY <1>1, <1>2, <1>4, <1>6, CalmFingerprint
  <2>5. jobs'[j].phase \in {"fingerprint", "prune"} /\ jobs'[j].version = jobs[j].version
    BY <1>1, <1>6, FingerprintFacts
  <2>6. jobs[j].phase = "fingerprint"
    BY <1>1, <1>6, FingerprintFacts
  <2>7. ASSUME NEW version, NEW W, Settled(Entries, version, W),
               Active(jobs[j], version) => Following(jobs[j], W), Active(jobs'[j], version)
        PROVE  Following(jobs'[j], W)
    <3>1. jobs[j].version = version /\ Following(jobs[j], W)
      BY <2>5, <2>6, <2>7 DEF Active, Inactive
    <3>. QED  BY <1>1, <1>2, <1>6, <2>7, <3>1, FollowFingerprint
  <2>. QED  BY <1>0, <1>4, <2>1, <2>3, <2>4, <2>5, <2>7 DEF CalmGoesOn
<1>7. CASE Prune(j)
  <2>1. cache' = cache /\ "fault" \notin causes' /\ "parted" \notin causes'
    BY <1>0, <1>7 DEF Prune
  <2>2. CalmJob(jobs'[j], Entries)
    BY <1>1, <1>2, <1>4, <1>7, CalmPrune
  <2>3. jobs[j].phase = "prune" /\ jobs'[j].version = jobs[j].version
    BY <1>1, <1>7, PruneFacts
  <2>4. jobs'[j].phase \in {"prune", "run"}
    <3>1. IF jobs[j].at = 1 THEN NextToRun(jobs'[j], 0) ELSE jobs'[j].phase = "prune"
      BY <1>1, <1>7, PruneFacts
    <3>. QED  BY <3>1 DEF NextToRun
  <2>5. ASSUME NEW version, NEW W, Settled(Entries, version, W),
               Active(jobs[j], version) => Following(jobs[j], W), Active(jobs'[j], version)
        PROVE  Following(jobs'[j], W)
    <3>1. jobs[j].version = version /\ Following(jobs[j], W)
      BY <2>3, <2>5 DEF Active, Inactive
    <3>. QED  BY <1>1, <1>2, <1>4, <1>7, <2>1, <2>5, <3>1, FollowPrune
  <2>. QED  BY <1>4, <2>1, <2>2, <2>4, <2>5 DEF CalmGoesOn, Entries
<1>8. ASSUME NEW fails \in BOOLEAN, Run(j, fails) PROVE CalmGoesOn(j)
  <2>1. jobs[j].phase = "run" /\ jobs[j].at \in 1 .. Len(Order)
    BY <1>8, PosFacts DEF Run, At
  <2>2. \A p \in Needs[Node(j)] : Valued(jobs[j], p)
    BY <1>1, <1>2, <2>1, ParentsValued DEF JobOK
  <2>3. cache' = cache
    BY <1>8, Zenon DEF Run
  <2>4. "parted" \notin causes'
    BY <1>0, <1>3, <1>8, <2>3 DEF Run
  <2>5. CalmJob(jobs'[j], Entries)
    <3>1. causes' \intersect {"fault", "too large"} = {}
      OBVIOUS
    <3>. QED  BY <1>1, <1>2, <1>3, <1>4, <1>8, <3>1, CalmRun
  <2>6. jobs'[j].version = jobs[j].version
    BY <1>1, <1>8, <2>2, RunFacts
  <2>7. jobs'[j].phase \in {"store", "enter"}
    BY <1>1, <1>8, <2>2, RunFacts
  <2>8. \A W : ~Following(jobs[j], W)
    BY <2>1, PosFacts DEF Following
  <2>9. \A version : Active(jobs'[j], version) => Active(jobs[j], version)
    BY <2>1, <2>6 DEF Active, Inactive
  <2>. QED  BY <1>4, <2>3, <2>4, <2>5, <2>7, <2>8, <2>9 DEF CalmGoesOn, Entries
<1>9. CASE Store(j)
  <2>1. jobs[j].phase \in {"store", "enter"}
    BY <1>9 DEF Store
  <2>2. PICK entries : entries = ToSet(cache')
    OBVIOUS
  <2>3. Entries \subseteq entries /\ AllStored(entries) /\ Complete(entries) /\ CalmJob(jobs'[j], entries)
    BY <1>1, <1>2, <1>3, <1>4, <1>9, <2>2, CalmStore
  <2>4. "parted" \notin causes'
    <3>1. ~Parted(cache')
      BY <2>2, <2>3 DEF Complete, Parted
    <3>. QED  BY <1>0, <1>9, <3>1 DEF Store
  <2>5. /\ jobs[j].at \in 1 .. Len(Order) /\ \A p \in Needs[Node(j)] : Valued(jobs[j], p)
        /\ jobs[j].value[Node(j)] =
             Output(Node(j), jobs[j].version[Node(j)], InputsOf(Node(j), jobs[j].value), j)
    BY <1>1, <1>2, <2>1, JustMade
  <2>6. NextToRun(jobs'[j], jobs[j].at) /\ jobs'[j].version = jobs[j].version
    BY <1>1, <1>9, <2>5, StoreFacts
  <2>7. jobs'[j].phase = "run"
    BY <2>6 DEF NextToRun
  <2>8. \A W : ~Following(jobs[j], W)
    BY <2>1 DEF Following
  <2>9. \A version : Active(jobs'[j], version) => Active(jobs[j], version)
    BY <2>1, <2>6 DEF Active, Inactive
  <2>. QED  BY <2>2, <2>3, <2>4, <2>7, <2>8, <2>9 DEF CalmGoesOn
<1>10. CASE Package(j)
  <2>1. cache' = cache /\ causes' = causes
    BY <1>10 DEF Package
  <2>2. jobs[j].phase = "run" /\ jobs[j].at > Len(Order)
    BY <1>10 DEF Package
  <2>3. jobs'[j].phase = "done" /\ jobs'[j].version = jobs[j].version
    <3>1. jobs'[j] = [NoJob EXCEPT !.phase = "done", !.version = jobs[j].version,
                     !.value = [n \in Nodes |-> IF n \in Targets THEN jobs[j].value[n] ELSE NoOutput],
                     !.relost = jobs[j].relost]
      BY <1>1, <1>10, PackageFacts
    <3>. QED  BY <3>1 DEF NoJob
  <2>4. Settled(Entries, jobs[j].version, Has(jobs[j]))
    BY <1>1, <1>2, <1>3, <1>4, <2>2, PackagedIsSettled
  <2>5. CalmJob(jobs'[j], Entries) /\ \A version : ~Active(jobs'[j], version)
    BY <2>3 DEF CalmJob, Active, Inactive
  <2>6. \E W : Settled(Entries, jobs'[j].version, W)
    BY <2>3, <2>4
  <2>. QED  BY <1>0, <1>4, <2>1, <2>5, <2>6 DEF CalmGoesOn, Entries
<1>11. CASE Die(j)
  BY <1>1, <1>11, DieFacts
<1>. QED  BY <1>5, <1>6, <1>7, <1>8, <1>9, <1>10, <1>11 DEF Step

LEMMA CalmInvStep ==
  ASSUME CacheInv, CalmInv, NEW j \in Jobs, Step(j)
  PROVE  CalmInv'
<1>. SUFFICES ASSUME causes' \subseteq {"parted"}
              PROVE  /\ causes' = {}
                     /\ AllStored(ToSet(cache')) /\ Complete(ToSet(cache'))
                     /\ \A i \in Jobs : CalmJob(jobs'[i], ToSet(cache'))
                     /\ \A i \in Jobs : jobs'[i].phase = "done" =>
                          \E W : /\ Settled(ToSet(cache'), jobs'[i].version, W)
                                 /\ \A k \in Jobs : Active(jobs'[k], jobs'[i].version) => Following(jobs'[k], W)
  BY DEF CalmInv, Entries, AllStored, Complete, CalmJob, Finished, Settled, Entered, Active, Following
<1>0. causes \subseteq {"parted"} /\ "overlap" \notin causes'
  BY CausesGrow
<1>1. CalmGoesOn(j)
  BY CalmGoesOnStep
<1>2. \A k \in Jobs \ {j} : jobs'[k] = jobs[k] /\ jobs'[k].phase \in Inactive
  BY OthersIdle DEF CacheInv
<1>3. causes' = {} /\ AllStored(ToSet(cache')) /\ Complete(ToSet(cache')) /\ Entries \subseteq ToSet(cache')
  BY <1>1 DEF CalmGoesOn
<1>4. \A i \in Jobs : CalmJob(jobs'[i], ToSet(cache'))
  BY <1>1, <1>2 DEF CalmGoesOn, CalmJob
<1>5. ASSUME NEW i \in Jobs, jobs'[i].phase = "done"
      PROVE  \E W : /\ Settled(ToSet(cache'), jobs'[i].version, W)
                    /\ \A k \in Jobs : Active(jobs'[k], jobs'[i].version) => Following(jobs'[k], W)
  <2>1. \A k \in Jobs \ {j} : ~Active(jobs'[k], jobs'[i].version)
    BY <1>2 DEF Active
  <2>2. CASE i = j
    <3>1. PICK W : Settled(Entries, jobs'[j].version, W)
      BY <1>1, <1>5, <2>2 DEF CalmGoesOn
    <3>2. Settled(ToSet(cache'), jobs'[j].version, W)
      BY <1>3, <3>1, SettledMore
    <3>3. ~Active(jobs'[j], jobs'[j].version)
      BY <1>5, <2>2 DEF Active, Inactive
    <3>. QED  BY <2>1, <2>2, <3>2, <3>3
  <2>3. CASE i # j
    <3>1. jobs'[i] = jobs[i]
      BY <1>2, <2>3
    <3>2. Finished(jobs[i].version, Entries)
      BY <1>0, <1>5, <3>1 DEF CalmInv
    <3>3. PICK W : /\ Settled(Entries, jobs[i].version, W)
                   /\ \A k \in Jobs : Active(jobs[k], jobs[i].version) => Following(jobs[k], W)
      BY <3>2 DEF Finished
    <3>4. Settled(ToSet(cache'), jobs[i].version, W)
      BY <1>3, <3>3, SettledMore
    <3>5. Active(jobs'[j], jobs[i].version) => Following(jobs'[j], W)
      BY <1>1, <3>3 DEF CalmGoesOn
    <3>. QED  BY <2>1, <3>1, <3>4, <3>5
  <2>. QED  BY <2>2, <2>3
<1>. QED  BY <1>3, <1>4, <1>5

LEMMA CalmInvInit ==
  ASSUME TrainingInit
  PROVE  CalmInv
<1>1. Entries = {} /\ causes = {} /\ jobs = [i \in Jobs |-> NoJob]
  BY DEF TrainingInit, Entries, ToSet
<1>2. \A i \in Jobs : jobs[i].phase = "none"
  BY <1>1 DEF NoJob
<1>. QED  BY <1>1, <1>2 DEF CalmInv, AllStored, Complete, CalmJob, Inactive

\* The inductive invariant of a cache nothing has disturbed: what a training
\* has of a node is entered with what it has of the parents.
THEOREM CacheStaysCalm == TrainingSpec => []CalmInv
<1>1. TrainingInit => CalmInv
  BY CalmInvInit
<1>2. CacheInv /\ CalmInv /\ [TrainingNext]_trainingVars => CalmInv'
  <2>1. ASSUME CacheInv, CalmInv, TrainingNext PROVE CalmInv'
    <3>1. PICK j \in Jobs : Step(j)
      BY <2>1, NextSteps
    <3>. QED  BY <2>1, <3>1, CalmInvStep
  <2>2. ASSUME CalmInv, UNCHANGED trainingVars PROVE CalmInv'
    <3>1. cache' = cache /\ jobs' = jobs /\ causes' = causes
      BY <2>2 DEF trainingVars
    <3>. QED  BY <2>2, <3>1
           DEF CalmInv, Entries, AllStored, Complete, CalmJob, Finished, Settled, Entered, Active, Following
  <2>. QED  BY <2>1, <2>2
<1>. QED  BY <1>1, <1>2, CacheKeepsInv, PTL DEF TrainingSpec

\* Nothing is trained again for nothing: unless something disturbed the cache,
\* a training of the same data and configuration finds and restores all that
\* a finished model was made of.
THEOREM TrainsOnlyForACause == TrainingSpec => RetrainsForACause
<1>. DEFINE A ==
       \A j \in Jobs :
         jobs[j].phase = "run" /\ jobs'[j].phase \in {"store", "enter"} =>
           \/ causes \ {"parted"} # {}
           \/ \A i \in Jobs : ~(jobs[i].phase = "done" /\ jobs[i].version = jobs[j].version)
<1>1. ASSUME CacheInv, CalmInv, TrainingNext PROVE A
  <2>. SUFFICES ASSUME NEW j \in Jobs, jobs[j].phase = "run", jobs'[j].phase \in {"store", "enter"},
                       causes \subseteq {"parted"},
                       NEW i \in Jobs, jobs[i].phase = "done", jobs[i].version = jobs[j].version
                PROVE  FALSE
    OBVIOUS
  <2>1. PICK k \in Jobs : Step(k)
    BY <1>1, NextSteps
  <2>2. PICK O : Typed(O)
    BY <1>1 DEF CacheInv, TrainingInv
  <2>3. JobOK(jobs[k], k)
    BY <1>1 DEF CacheInv, TrainingInv, AllOK
  <2>4. jobs' = [jobs EXCEPT ![k] = jobs'[k]]
    BY <2>1, <2>2, <2>3, StepTyped
  <2>5. \A m \in Jobs \ {k} : jobs'[m] = jobs[m]
    BY <2>2, <2>4, Others DEF Typed
  <2>6. k = j
    BY <2>5
  <2>7. jobs[j].at \in DOMAIN Order
    <3>1. CASE \E version \in Versions : Start(j, version, TRUE) \/ Start(j, version, FALSE)
      BY <3>1 DEF Start
    <3>2. CASE Fingerprint(j)
      BY <3>2 DEF Fingerprint, At
    <3>3. CASE Prune(j)
      BY <3>3 DEF Prune, At
    <3>4. ASSUME NEW fails \in BOOLEAN, Run(j, fails) PROVE jobs[j].at \in DOMAIN Order
      BY <3>4 DEF Run, At
    <3>5. CASE Store(j)
      BY <3>5 DEF Store
    <3>6. CASE Package(j)
      <4>1. jobs'[j] = [NoJob EXCEPT !.phase = "done", !.version = jobs[j].version,
                     !.value = [n \in Nodes |-> IF n \in Targets THEN jobs[j].value[n] ELSE NoOutput],
                     !.relost = jobs[j].relost]
        BY <2>2, <3>6, PackageFacts
      <4>. QED  BY <4>1 DEF NoJob
    <3>7. CASE Die(j)
      <4>1. jobs'[j] = [NoJob EXCEPT !.phase = "died"]
        BY <2>2, <3>7, DieFacts
      <4>. QED  BY <4>1 DEF NoJob
    <3>. QED  BY <2>1, <2>6, <3>1, <3>2, <3>3, <3>4, <3>5, <3>6, <3>7 DEF Step
  <2>8. Finished(jobs[i].version, Entries)
    BY <1>1 DEF CalmInv
  <2>9. PICK W : Following(jobs[j], W)
    BY <2>8 DEF Finished, Active, Inactive
  <2>. QED  BY <2>7, <2>9, PosFacts DEF Following
<1>2. ASSUME UNCHANGED trainingVars PROVE A
  BY <1>2 DEF trainingVars
<1>3. CacheInv /\ CalmInv /\ [TrainingNext]_trainingVars => A
  BY <1>1, <1>2
<1>. QED  BY <1>3, CacheKeepsInv, CacheStaysCalm, PTL DEF TrainingSpec, RetrainsForACause

=============================================================================
