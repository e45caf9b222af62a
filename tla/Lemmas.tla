------------------------------- MODULE Lemmas -------------------------------
(***************************************************************************)
(* Lemmas about the data several components are built from: numbers, sets,  *)
(* sequences and the functions that go through them, the tickets of a lock, *)
(* and the events of a tracker.                                             *)
(***************************************************************************)
EXTENDS Tracker, TicketLock, SequenceTheorems, FiniteSetTheorems, WellFoundedInduction, TLAPS

-----------------------------------------------------------------------------
(* Greatest and least elements: Max and Min are CHOOSE expressions, these   *)
(* lemmas say when there is something to choose.                            *)

\* A non-empty set of naturals has a least element, which Min denotes.
LEMMA MinLeast ==
  ASSUME NEW S \in SUBSET Nat, S # {}
  PROVE  Min(S) \in S /\ \A n \in S : Min(S) =< n
<1>. DEFINE R == OpToRel(<, Nat)
<1>1. PICK n \in S : \A m \in S : ~ (<<m, n>> \in R)
  <2>1. IsWellFoundedOn(R, Nat)
    BY NatLessThanWellFounded
  <2>. HIDE DEF R
  <2>. QED  BY <2>1, WFMin
<1>2. \A m \in S : n =< m
  <2>. SUFFICES ASSUME NEW m \in S, m < n PROVE FALSE
    OBVIOUS
  <2>1. <<m, n>> \in R
    BY DEF OpToRel
  <2>. QED  BY <2>1, <1>1
<1>. QED  BY <1>2 DEF Min

\* A non-empty bounded set of naturals has a greatest element, which Max
\* denotes: the bound minus the least distance to the bound.
LEMMA MaxGreatest ==
  ASSUME NEW S \in SUBSET Nat, S # {}, NEW b \in Nat, \A n \in S : n =< b
  PROVE  Max(S) \in S /\ \A n \in S : n =< Max(S)
<1>. DEFINE D == {b - n : n \in S}
<1>1. D \in SUBSET Nat
  BY SMT
<1>2. D # {}
  OBVIOUS
<1>3. PICK d \in D : \A e \in D : d =< e
  <2>. HIDE DEF D
  <2>. QED  BY <1>1, <1>2, MinLeast
<1>4. PICK m \in S : d = b - m
  OBVIOUS
<1>5. \A n \in S : n =< m
  <2>. TAKE n \in S
  <2>1. d =< b - n
    BY <1>3
  <2>. QED  BY <2>1, <1>4
<1>6. \A n \in S : m >= n
  BY <1>5
<1>. QED  BY <1>6 DEF Max

\* Induction up to a number, as a statement about sets.
LEMMA InductionUpTo ==
  ASSUME NEW n \in Nat, NEW S, 0 \in S,
         \A i \in 1 .. n : i - 1 \in S => i \in S
  PROVE  \A i \in 0 .. n : i \in S
<1>. DEFINE Rest == {i \in 0 .. n : i \notin S}
<1>. SUFFICES ASSUME Rest # {} PROVE FALSE
  OBVIOUS
<1>1. Min(Rest) \in Rest /\ \A i \in Rest : Min(Rest) =< i
  <2>1. Rest \in SUBSET Nat
    OBVIOUS
  <2>. HIDE DEF Rest
  <2>. QED  BY <2>1, MinLeast
<1>2. Min(Rest) \in 1 .. n
  BY <1>1
<1>3. Min(Rest) - 1 \notin Rest
  <2>. HIDE DEF Rest
  <2>. QED  BY <1>1, <1>2
<1>. QED  BY <1>1, <1>2, <1>3

-----------------------------------------------------------------------------
(* Finite sets, and sequences of their elements.                            *)

\* A finite set is put into a sequence with each of its elements.
LEMMA SequenceOf ==
  ASSUME NEW S, IsFiniteSet(S)
  PROVE  /\ SetToSeq(S) \in Seq(S)
         /\ \A s \in S : \E i \in DOMAIN SetToSeq(S) : SetToSeq(S)[i] = s
<1>. DEFINE n == Cardinality(S)
            Orders(f) == f \in [1 .. n -> S] /\ IsInjective(f)
            f == SetToSeq(S)
<1>1. n \in Nat /\ ExistsBijection(1 .. n, S)
  BY FS_CardinalityType
<1>2. PICK g \in Bijection(1 .. n, S) : TRUE
  BY <1>1 DEF ExistsBijection
<1>3. Orders(g)
  BY <1>2 DEF Bijection, Injection, Surjection, IsInjective
<1>4. f \in [1 .. n -> S] /\ IsInjective(f)
  BY <1>3 DEF SetToSeq
<1>5. f \in Injection(1 .. n, S)
  BY <1>4 DEF Injection, IsInjective
<1>6. f \in Surjection(1 .. n, S)
  <2>1. IsFiniteSet(1 .. n) /\ Cardinality(1 .. n) = n
    BY <1>1, FS_Interval
  <2>. HIDE DEF f
  <2>. QED  BY <1>5, <2>1, FS_Injection
<1>. QED  BY <1>1, <1>4, <1>6 DEF Surjection

\* What a function makes of a finite set is finite, and so is what finitely
\* many finite sets hold.
LEMMA FiniteImage ==
  ASSUME NEW f, IsFiniteSet(DOMAIN f)
  PROVE  IsFiniteSet({f[x] : x \in DOMAIN f})
<1>. DEFINE g == [x \in DOMAIN f |-> f[x]]
<1>1. g \in Surjection(DOMAIN f, {f[x] : x \in DOMAIN f})
  BY DEF Surjection
<1>. HIDE DEF g
<1>. QED  BY <1>1, FS_Surjection

LEMMA FiniteUnion ==
  ASSUME NEW S, IsFiniteSet(S), \A s \in S : IsFiniteSet(s)
  PROVE  IsFiniteSet(UNION S)
<1>. DEFINE order == SetToSeq(S)
           n == Len(order)
           Upto(i) == UNION {order[j] : j \in 1 .. i}
           Finite == {i \in 0 .. n : IsFiniteSet(Upto(i))}
<1>1. order \in Seq(S) /\ \A s \in S : \E i \in DOMAIN order : order[i] = s
  BY SequenceOf
<1>. HIDE DEF order
<1>2. 0 \in Finite
  <2>1. Upto(0) = {}
    OBVIOUS
  <2>2. 0 \in 0 .. n
    BY <1>1
  <2>. HIDE DEF Upto, n
  <2>3. IsFiniteSet(Upto(0))
    BY <2>1, FS_EmptySet
  <2>. QED  BY <2>2, <2>3
<1>3. ASSUME NEW i \in 1 .. n, i - 1 \in Finite PROVE i \in Finite
  <2>1. Upto(i) = Upto(i - 1) \union order[i]
    <3>1. n \in Nat
      BY <1>1
    <3>2. {order[j] : j \in 1 .. i} = {order[j] : j \in 1 .. i - 1} \union {order[i]}
      <4>1. 1 .. i = 1 .. (i - 1) \union {i}
        BY <3>1
      <4>. QED  BY <4>1, Zenon
    <3>. QED  BY <3>2
  <2>2. IsFiniteSet(order[i])
    <3>1. order[i] \in S
      BY <1>1
    <3>. QED  BY <3>1
  <2>3. IsFiniteSet(Upto(i - 1)) /\ i \in 0 .. n
    <3>. HIDE DEF Upto, n
    <3>. QED  BY <1>3
  <2>. HIDE DEF Upto, n
  <2>4. IsFiniteSet(Upto(i))
    BY <2>1, <2>2, <2>3, FS_Union
  <2>. QED  BY <2>3, <2>4
<1>4. IsFiniteSet(Upto(n))
  <2>1. n \in Nat
    BY <1>1
  <2>2. \A i \in 0 .. n : i \in Finite
    <3>. HIDE DEF Finite, n
    <3>. QED  BY <1>2, <1>3, <2>1, InductionUpTo
  <2>. HIDE DEF Upto, n
  <2>. QED  BY <2>1, <2>2
<1>5. UNION S = Upto(n)
  <2>1. DOMAIN order = 1 .. n /\ \A j \in 1 .. n : order[j] \in S
    BY <1>1
  <2>. QED  BY <1>1, <2>1
<1>. QED  BY <1>4, <1>5

\* A sequence of elements of a set is one of a larger set.
LEMMA SeqInLarger ==
  ASSUME NEW A, NEW B, A \subseteq B, NEW s \in Seq(A)
  PROVE  s \in Seq(B)
OBVIOUS

-----------------------------------------------------------------------------
(* Going through a sequence: what Through computes, step by step.           *)

\* A step function takes the state so far and the next element.
Goes(S, E, step, base, es) == step \in [S \X E -> S] /\ base \in S /\ es \in Seq(E)

\* g holds what a step function makes of each beginning of a sequence, and
\* Folded is what it makes of the whole.
IsFold(g, S, step, base, es) ==
  /\ g \in [0 .. Len(es) -> S]
  /\ g[0] = base
  /\ \A i \in 1 .. Len(es) : g[i] = step[<<g[i - 1], es[i]>>]

Folded(S, step, base, es) == (CHOOSE g : IsFold(g, S, step, base, es))[Len(es)]

\* Two folds that make the same steps agree.
LEMMA FoldsAgree ==
  ASSUME NEW n \in Nat, NEW g, NEW h, g[0] = h[0],
         \A i \in 1 .. n : g[i - 1] = h[i - 1] => g[i] = h[i]
  PROVE  \A i \in 0 .. n : g[i] = h[i]
<1>. DEFINE Same == {i \in 0 .. n : g[i] = h[i]}
<1>1. \A i \in 0 .. n : i \in Same
  <2>1. 0 \in Same /\ \A i \in 1 .. n : i - 1 \in Same => i \in Same
    OBVIOUS
  <2>. HIDE DEF Same
  <2>. QED  BY <2>1, InductionUpTo
<1>. QED  BY <1>1

\* A step function has a fold through every sequence of what it takes.
LEMMA FoldExists ==
  ASSUME NEW S, NEW E, NEW step \in [S \X E -> S], NEW base \in S, NEW es \in Seq(E)
  PROVE  \E g : IsFold(g, S, step, base, es)
<1>. DEFINE Folds(g, n) == /\ g \in [0 .. n -> S] /\ g[0] = base
                          /\ \A i \in 1 .. n : g[i] = step[<<g[i - 1], es[i]>>]
           Done == {n \in 0 .. Len(es) : \E g : Folds(g, n)}
<1>1. 0 \in Done
  <2>1. Folds([i \in 0 .. 0 |-> base], 0)
    OBVIOUS
  <2>2. 0 \in 0 .. Len(es)
    OBVIOUS
  <2>. HIDE DEF Folds
  <2>. QED  BY <2>1, <2>2
<1>2. ASSUME NEW n \in 1 .. Len(es), n - 1 \in Done
      PROVE  n \in Done
  <2>1. PICK g : Folds(g, n - 1)
    BY <1>2
  <2>. DEFINE h == [i \in 0 .. n |-> IF i = n THEN step[<<g[n - 1], es[n]>>] ELSE g[i]]
  <2>2. es[n] \in E /\ g[n - 1] \in S
    BY <2>1
  <2>3. h \in [0 .. n -> S]
    BY <2>1, <2>2
  <2>4. ASSUME NEW i \in 1 .. n PROVE h[i] = step[<<h[i - 1], es[i]>>]
    <3>1. i - 1 \in 0 .. n /\ i - 1 # n /\ i \in 0 .. n
      OBVIOUS
    <3>2. h[i - 1] = g[i - 1]
      BY <3>1
    <3>3. CASE i = n
      <4>1. h[i] = step[<<g[i - 1], es[i]>>]
        BY <3>3, <3>1
      <4>. QED  BY <4>1, <3>2
    <3>4. CASE i # n
      <4>1. i \in 1 .. n - 1 /\ h[i] = g[i]
        BY <3>4, <3>1
      <4>2. g[i] = step[<<g[i - 1], es[i]>>]
        BY <4>1, <2>1
      <4>. QED  BY <4>1, <4>2, <3>2
    <3>. QED  BY <3>3, <3>4
  <2>5. h[0] = base
    BY <2>1
  <2>6. Folds(h, n)
    BY <2>3, <2>4, <2>5
  <2>7. n \in 0 .. Len(es)
    OBVIOUS
  <2>. HIDE DEF Folds, h
  <2>. QED  BY <2>6, <2>7
<1>3. Len(es) \in Nat
  OBVIOUS
<1>4. Len(es) \in Done
  <2>. HIDE DEF Done
  <2>1. \A i \in 0 .. Len(es) : i \in Done
    BY <1>1, <1>2, <1>3, InductionUpTo
  <2>. QED  BY <1>3, <2>1
<1>. QED  BY <1>4 DEF IsFold

LEMMA FoldedIsFold ==
  ASSUME NEW S, NEW E, NEW step, NEW base, NEW es, Goes(S, E, step, base, es)
  PROVE  \E g : IsFold(g, S, step, base, es) /\ Folded(S, step, base, es) = g[Len(es)]
<1>1. \E g : IsFold(g, S, step, base, es)
  BY FoldExists DEF Goes
<1>2. IsFold(CHOOSE g : IsFold(g, S, step, base, es), S, step, base, es)
  BY <1>1
<1>. QED  BY <1>2 DEF Folded

\* The elements of a sequence with one more.
LEMMA Appended ==
  ASSUME NEW E, NEW es \in Seq(E), NEW e \in E
  PROVE  /\ Append(es, e) \in Seq(E)
         /\ Len(Append(es, e)) = Len(es) + 1 /\ Len(es) \in Nat
         /\ Append(es, e)[Len(es) + 1] = e
         /\ \A i \in 1 .. Len(es) : Append(es, e)[i] = es[i]
OBVIOUS

LEMMA AppendToOne ==
  ASSUME NEW e, NEW f
  PROVE  Append(<<>>, e) = <<e>> /\ Append(<<e>>, f) = <<e, f>>
<1>. DEFINE E == {e, f}
           a == Append(<<e>>, f)
           b == <<e, f>>
<1>1. a \in Seq(E) /\ Len(a) = 2 /\ a[1] = e /\ a[2] = f
  OBVIOUS
<1>2. b \in Seq(E) /\ Len(b) = 2 /\ b[1] = e /\ b[2] = f
  OBVIOUS
<1>3. Append(<<>>, e) = <<e>>
  OBVIOUS
<1>. HIDE DEF a, b
<1>4. \A i \in 1 .. Len(a) : a[i] = b[i]
  BY <1>1, <1>2
<1>5. a = b
  <2>. HIDE DEF E
  <2>. QED  BY <1>1, <1>2, <1>4, SeqEqual
<1>. QED  BY <1>3, <1>5 DEF a, b

LEMMA SubSeqAppend ==
  ASSUME NEW E, NEW es \in Seq(E), NEW e \in E, NEW r \in 0 .. Len(es)
  PROVE  SubSeq(Append(es, e), r + 1, Len(es) + 1) = Append(SubSeq(es, r + 1, Len(es)), e)
<1>. DEFINE n == Len(es)
           all == Append(es, e)
           rest == SubSeq(es, r + 1, n)
           a == SubSeq(all, r + 1, n + 1)
           b == Append(rest, e)
<1>1. /\ all \in Seq(E) /\ Len(all) = n + 1 /\ n \in Nat /\ all[n + 1] = e
      /\ \A i \in 1 .. n : all[i] = es[i]
  BY Appended
<1>2. rest \in Seq(E) /\ Len(rest) = n - r /\ \A i \in 1 .. n - r : rest[i] = es[r + i]
  OBVIOUS
<1>. HIDE DEF rest
<1>3. /\ b \in Seq(E) /\ Len(b) = n - r + 1 /\ b[n - r + 1] = e
      /\ \A i \in 1 .. n - r : b[i] = es[r + i]
  BY <1>2, Appended
<1>4. r \in 0 .. n
  OBVIOUS
<1>. HIDE DEF all, b, n
<1>5. /\ a \in Seq(E) /\ Len(a) = n - r + 1
      /\ \A i \in 1 .. n - r + 1 : a[i] = all[r + i]
  <2>1. \A i \in r + 1 .. n + 1 : all[i] \in E
    BY <1>1, <1>4
  <2>2. \A i \in 1 .. n - r + 1 : i \in 1 .. (n + 1) - (r + 1) + 1 /\ (r + 1) + i - 1 = r + i
    BY <1>1, <1>4
  <2>. QED  BY <1>1, <1>4, <2>1, <2>2, SubSeqProperties
<1>. HIDE DEF a
<1>6. ASSUME NEW i \in 1 .. Len(a) PROVE a[i] = b[i]
  <2>1. CASE i = n - r + 1
    BY <1>1, <1>3, <1>4, <1>5, <2>1
  <2>2. CASE i # n - r + 1
    <3>1. i \in 1 .. n - r /\ r + i \in 1 .. n /\ i \in 1 .. n - r + 1
      BY <1>1, <1>4, <1>5, <2>2
    <3>. QED  BY <1>1, <1>3, <1>5, <3>1
  <2>. QED  BY <2>1, <2>2
<1>7. a = b
  BY <1>3, <1>5, <1>6, SeqEqual
<1>. QED  BY <1>7 DEF a, b, all, rest, n

LEMMA ConcatAppend ==
  ASSUME NEW E, NEW s \in Seq(E), NEW t \in Seq(E), NEW e \in E
  PROVE  s \o Append(t, e) = Append(s \o t, e)
<1>1. <<e>> \in Seq(E) /\ s \o t \in Seq(E)
  BY ConcatProperties
<1>2. Append(t, e) = t \o <<e>> /\ Append(s \o t, e) = (s \o t) \o <<e>>
  BY <1>1, AppendIsConcat
<1>3. (s \o t) \o <<e>> = s \o (t \o <<e>>)
  BY <1>1, ConcatAssociative
<1>. QED  BY <1>2, <1>3

LEMMA ConcatParts ==
  ASSUME NEW E, NEW s \in Seq(E), NEW t \in Seq(E)
  PROVE  /\ s \o t \in Seq(E) /\ Len(s \o t) = Len(s) + Len(t)
         /\ Len(s) \in Nat /\ Len(t) \in Nat
         /\ \A i \in 1 .. Len(s) : (s \o t)[i] = s[i]
         /\ \A i \in 1 .. Len(t) : (s \o t)[Len(s) + i] = t[i]
OBVIOUS

LEMMA FoldedType ==
  ASSUME NEW S, NEW E, NEW step, NEW base, NEW es, Goes(S, E, step, base, es)
  PROVE  Folded(S, step, base, es) \in S
<1>1. PICK g : IsFold(g, S, step, base, es) /\ Folded(S, step, base, es) = g[Len(es)]
  BY FoldedIsFold
<1>. QED  BY <1>1 DEF IsFold, Goes

LEMMA FoldedEmpty ==
  ASSUME NEW S, NEW E, NEW step, NEW base, Goes(S, E, step, base, <<>>)
  PROVE  Folded(S, step, base, <<>>) = base
<1>1. PICK g : IsFold(g, S, step, base, <<>>) /\ Folded(S, step, base, <<>>) = g[Len(<<>>)]
  BY FoldedIsFold
<1>. QED  BY <1>1 DEF IsFold

LEMMA FoldedAppend ==
  ASSUME NEW S, NEW E, NEW step, NEW base, NEW es, Goes(S, E, step, base, es), NEW e \in E
  PROVE  Folded(S, step, base, Append(es, e)) = step[<<Folded(S, step, base, es), e>>]
<1>. DEFINE n == Len(es)
           all == Append(es, e)
<1>1. /\ all \in Seq(E) /\ Len(all) = n + 1 /\ n \in Nat /\ all[n + 1] = e
      /\ \A i \in 1 .. n : all[i] = es[i]
  BY Appended DEF Goes
<1>2. PICK g : IsFold(g, S, step, base, es) /\ Folded(S, step, base, es) = g[n]
  BY FoldedIsFold
<1>. HIDE DEF all
<1>3. PICK h : IsFold(h, S, step, base, all) /\ Folded(S, step, base, all) = h[Len(all)]
  <2>1. Goes(S, E, step, base, all)
    BY <1>1 DEF Goes
  <2>. QED  BY <2>1, FoldedIsFold
<1>. HIDE DEF n
<1>4. \A i \in 1 .. n : g[i] = step[<<g[i - 1], es[i]>>]
  BY <1>2 DEF IsFold, n
<1>5. \A i \in 1 .. n + 1 : h[i] = step[<<h[i - 1], all[i]>>]
  BY <1>1, <1>3 DEF IsFold
<1>6. g[n] = h[n]
  <2>1. g[0] = h[0] /\ n \in Nat
    BY <1>1, <1>2, <1>3 DEF IsFold
  <2>2. ASSUME NEW i \in 1 .. n, g[i - 1] = h[i - 1] PROVE g[i] = h[i]
    <3>1. all[i] = es[i] /\ i \in 1 .. n + 1
      BY <1>1
    <3>2. g[i] = step[<<g[i - 1], es[i]>>] /\ h[i] = step[<<h[i - 1], all[i]>>]
      BY <1>4, <1>5, <3>1
    <3>. QED  BY <2>2, <3>1, <3>2
  <2>3. \A i \in 0 .. n : g[i] = h[i]
    <3>1. \A i \in 1 .. n : g[i - 1] = h[i - 1] => g[i] = h[i]
      BY <2>2
    <3>. QED  BY <2>1, <3>1, FoldsAgree, Zenon
  <2>. QED  BY <1>1, <2>3
<1>7. h[n + 1] = step[<<h[n], e>>]
  BY <1>1, <1>5
<1>. QED  BY <1>1, <1>2, <1>3, <1>6, <1>7 DEF all

\* What holds of the empty sequence and of a sequence with one more element
\* if it holds of the sequence, holds of all.
LEMMA InductionOverSequences ==
  ASSUME NEW E, NEW P, <<>> \in P,
         \A es \in Seq(E), e \in E : es \in P => Append(es, e) \in P
  PROVE  \A es \in Seq(E) : es \in P
<1>. TAKE es \in Seq(E)
<1>. DEFINE Reached == {i \in 0 .. Len(es) : SubSeq(es, 1, i) \in P}
<1>1. 0 \in Reached
  <2>1. SubSeq(es, 1, 0) = <<>> /\ 0 \in 0 .. Len(es)
    OBVIOUS
  <2>. QED  BY <2>1
<1>2. ASSUME NEW i \in 1 .. Len(es), i - 1 \in Reached PROVE i \in Reached
  <2>1. SubSeq(es, 1, i) = Append(SubSeq(es, 1, i - 1), es[i])
    OBVIOUS
  <2>2. SubSeq(es, 1, i - 1) \in Seq(E) /\ es[i] \in E /\ i \in 0 .. Len(es)
    OBVIOUS
  <2>3. SubSeq(es, 1, i - 1) \in P
    BY <1>2
  <2>4. SubSeq(es, 1, i) \in P
    BY <2>1, <2>2, <2>3
  <2>. QED  BY <2>2, <2>4
<1>3. \A i \in 0 .. Len(es) : i \in Reached
  <2>1. Len(es) \in Nat
    OBVIOUS
  <2>. HIDE DEF Reached
  <2>. QED  BY <1>1, <1>2, <2>1, InductionUpTo
<1>4. SubSeq(es, 1, Len(es)) = es /\ Len(es) \in 0 .. Len(es)
  OBVIOUS
<1>. QED  BY <1>3, <1>4

\* The greatest of some indices, or 0, as SelectLastInSeq picks it.
LEMMA LastIndex ==
  ASSUME NEW n \in Nat, NEW I \in SUBSET (1 .. n)
  PROVE  LET last == IF I # {} THEN Max(I) ELSE 0
         IN  /\ last \in 0 .. n
             /\ last > 0 => last \in I
             /\ \A i \in I : i =< last
<1>1. CASE I = {}
  BY <1>1
<1>2. CASE I # {}
  <2>1. I \in SUBSET Nat /\ \A i \in I : i =< n
    OBVIOUS
  <2>2. Max(I) \in I /\ \A i \in I : i =< Max(I)
    BY <2>1, <1>2, MaxGreatest
  <2>3. \A i \in I : i \in 0 .. n
    OBVIOUS
  <2>. QED  BY <1>2, <2>2, <2>3
<1>. QED  BY <1>1, <1>2

-----------------------------------------------------------------------------
(* The events of a tracker.                                                *)

WithoutStep(E, types) ==
  [p \in Seq(E) \X E |-> IF p[2].type \in types THEN p[1] ELSE Append(p[1], p[2])]

\* Without goes through the events.
LEMMA WithoutFolded ==
  ASSUME NEW E, NEW types, NEW es \in Seq(E)
  PROVE  Without(types, es) = Folded(Seq(E), WithoutStep(E, types), <<>>, es)
<1>. DEFINE Step(a, e) == IF e.type \in types THEN a ELSE Append(a, e)
           Fold(h) == h = [i \in 0 .. Len(es) |-> IF i = 0 THEN <<>> ELSE Step(h[i - 1], es[i])]
           step == WithoutStep(E, types)
           S == Seq(E)
<1>1. Goes(S, E, step, <<>>, es)
  BY DEF WithoutStep, Goes
<1>2. PICK g : IsFold(g, S, step, <<>>, es) /\ Folded(S, step, <<>>, es) = g[Len(es)]
  <2>. HIDE DEF step, S
  <2>. QED  BY <1>1, FoldedIsFold
<1>3. ASSUME NEW a \in S, NEW e \in E PROVE step[<<a, e>>] = Step(a, e)
  BY DEF WithoutStep
<1>. HIDE DEF step, Step, S
<1>4. ASSUME NEW i \in 1 .. Len(es) PROVE g[i] = Step(g[i - 1], es[i])
  <2>1. i - 1 \in 0 .. Len(es) /\ es[i] \in E
    OBVIOUS
  <2>2. g[i - 1] \in S
    BY <1>2, <2>1 DEF IsFold
  <2>3. g[i] = step[<<g[i - 1], es[i]>>]
    BY <1>2 DEF IsFold
  <2>. QED  BY <2>1, <2>2, <2>3, <1>3
<1>5. Fold(g)
  BY <1>2, <1>4 DEF IsFold
<1>6. ASSUME NEW h, Fold(h) PROVE h = g
  <2>1. h[0] = g[0] /\ \A i \in 1 .. Len(es) : h[i - 1] = g[i - 1] => h[i] = g[i]
    BY <1>5, <1>6
  <2>2. Len(es) \in Nat
    OBVIOUS
  <2>3. \A i \in 0 .. Len(es) : h[i] = g[i]
    BY <2>1, <2>2, FoldsAgree
  <2>. QED  BY <2>3, <1>5, <1>6
<1>7. Without(types, es) = (CHOOSE h : Fold(h))[Len(es)]
  BY DEF Without, Through, Step
<1>8. (CHOOSE h : Fold(h)) = g
  <2>. HIDE DEF Fold
  <2>. QED  BY <1>5, <1>6
<1>. QED  BY <1>2, <1>7, <1>8 DEF step, S

LEMMA WithoutEmpty == \A types : Without(types, <<>>) = <<>>
<1>. TAKE types
<1>. DEFINE step == WithoutStep({}, types)
<1>1. Goes(Seq({}), {}, step, <<>>, <<>>)
  BY DEF WithoutStep, Goes
<1>2. Without(types, <<>>) = Folded(Seq({}), step, <<>>, <<>>)
  BY <1>1, WithoutFolded DEF Goes
<1>. HIDE DEF step
<1>. QED  BY <1>1, <1>2, FoldedEmpty

LEMMA WithoutAppend ==
  ASSUME NEW E, NEW es \in Seq(E), NEW e \in E, NEW types
  PROVE  /\ Without(types, es) \in Seq(E)
         /\ Without(types, Append(es, e)) =
              IF e.type \in types THEN Without(types, es) ELSE Append(Without(types, es), e)
<1>. DEFINE step == WithoutStep(E, types)
           S == Seq(E)
<1>1. Goes(S, E, step, <<>>, es) /\ Append(es, e) \in Seq(E)
  BY DEF WithoutStep, Goes
<1>2. /\ Without(types, es) = Folded(S, step, <<>>, es)
      /\ Without(types, Append(es, e)) = Folded(S, step, <<>>, Append(es, e))
  BY <1>1, WithoutFolded
<1>3. \A a \in S : step[<<a, e>>] = IF e.type \in types THEN a ELSE Append(a, e)
  BY DEF WithoutStep
<1>4. ASSUME NEW a \in S PROVE a \in Seq(E)
  OBVIOUS
<1>. HIDE DEF step, S
<1>5. Folded(S, step, <<>>, es) \in S
  BY <1>1, FoldedType
<1>6. Folded(S, step, <<>>, Append(es, e)) = step[<<Folded(S, step, <<>>, es), e>>]
  BY <1>1, FoldedAppend
<1>. QED  BY <1>2, <1>3, <1>4, <1>5, <1>6

LEMMA WithoutType ==
  ASSUME NEW E, NEW es \in Seq(E), NEW types
  PROVE  Without(types, es) \in Seq(E)
<1>. DEFINE step == WithoutStep(E, types)
           S == Seq(E)
<1>1. Goes(S, E, step, <<>>, es)
  BY DEF WithoutStep, Goes
<1>2. Without(types, es) = Folded(S, step, <<>>, es)
  BY WithoutFolded
<1>3. Folded(S, step, <<>>, es) \in S
  <2>. HIDE DEF step, S
  <2>. QED  BY <1>1, FoldedType
<1>. QED  BY <1>2, <1>3

LEMMA WithoutMembers ==
  ASSUME NEW E, NEW es \in Seq(E), NEW types
  PROVE  \A e : (\E i \in 1 .. Len(Without(types, es)) : Without(types, es)[i] = e)
                  <=> e.type \notin types /\ \E i \in 1 .. Len(es) : es[i] = e
<1>. DEFINE P == {s \in Seq(E) :
                    \A e : (\E i \in 1 .. Len(Without(types, s)) : Without(types, s)[i] = e)
                             <=> e.type \notin types /\ \E i \in 1 .. Len(s) : s[i] = e}
<1>1. <<>> \in P
  BY WithoutEmpty
<1>2. ASSUME NEW s \in Seq(E), NEW f \in E, s \in P PROVE Append(s, f) \in P
  <2>. DEFINE rest == Without(types, s)
             all == Append(s, f)
             left == Without(types, all)
  <2>1. rest \in Seq(E) /\ left = IF f.type \in types THEN rest ELSE Append(rest, f)
    BY WithoutAppend
  <2>2. \A e : (\E i \in 1 .. Len(rest) : rest[i] = e)
                 <=> e.type \notin types /\ \E i \in 1 .. Len(s) : s[i] = e
    BY <1>2
  <2>. HIDE DEF rest, left
  <2>3. /\ all \in Seq(E)
        /\ \A e : (\E i \in 1 .. Len(all) : all[i] = e) <=> e = f \/ \E i \in 1 .. Len(s) : s[i] = e
    <3>1. /\ all \in Seq(E) /\ Len(all) = Len(s) + 1 /\ Len(s) \in Nat /\ all[Len(s) + 1] = f
          /\ \A i \in 1 .. Len(s) : all[i] = s[i]
      BY Appended
    <3>. HIDE DEF all
    <3>2. 1 .. Len(all) = 1 .. Len(s) \union {Len(s) + 1}
      BY <3>1
    <3>. QED  BY <3>1, <3>2
  <2>. HIDE DEF all
  <2>4. ASSUME f.type \notin types
        PROVE  \A e : (\E i \in 1 .. Len(left) : left[i] = e)
                        <=> e = f \/ \E i \in 1 .. Len(rest) : rest[i] = e
    <3>1. /\ Len(left) = Len(rest) + 1 /\ Len(rest) \in Nat /\ left[Len(rest) + 1] = f
          /\ \A i \in 1 .. Len(rest) : left[i] = rest[i]
      BY <2>1, <2>4, Appended
    <3>2. 1 .. Len(left) = 1 .. Len(rest) \union {Len(rest) + 1}
      BY <3>1
    <3>. QED  BY <3>1, <3>2
  <2>5. \A e : (\E i \in 1 .. Len(left) : left[i] = e)
                 <=> e.type \notin types /\ \E i \in 1 .. Len(all) : all[i] = e
    <3>1. CASE f.type \in types
      BY <2>1, <2>2, <2>3, <3>1
    <3>2. CASE f.type \notin types
      BY <2>2, <2>3, <2>4, <3>2
    <3>. QED  BY <3>1, <3>2
  <2>. QED  BY <2>3, <2>5 DEF left, all
<1>3. es \in P
  <2>. HIDE DEF P
  <2>. QED  BY <1>1, <1>2, InductionOverSequences
<1>. QED  BY <1>3

\* LastOf finds the last event of a type.
LEMMA LastOfType ==
  ASSUME NEW E, NEW es \in Seq(E), NEW type
  PROVE  /\ LastOf(type, es) \in 0 .. Len(es)
         /\ LastOf(type, es) > 0 => es[LastOf(type, es)].type = type
         /\ \A i \in LastOf(type, es) + 1 .. Len(es) : es[i].type # type
<1>. DEFINE I == {i \in 1 .. Len(es) : es[i].type = type}
           last == IF I # {} THEN Max(I) ELSE 0
<1>1. LastOf(type, es) = last
  BY DEF LastOf, SelectLastInSeq
<1>2. I \in SUBSET (1 .. Len(es)) /\ Len(es) \in Nat
  OBVIOUS
<1>3. last \in 0 .. Len(es) /\ (last > 0 => last \in I) /\ \A i \in I : i =< last
  <2>. HIDE DEF I
  <2>. QED  BY <1>2, LastIndex
<1>4. \A i \in last + 1 .. Len(es) : i \notin I
  <2>. HIDE DEF I, last
  <2>. QED  BY <1>2, <1>3
<1>5. last > 0 => es[last].type = type
  BY <1>3
<1>6. \A i \in last + 1 .. Len(es) : es[i].type # type
  <2>1. \A i \in last + 1 .. Len(es) : i \in 1 .. Len(es)
    <3>. HIDE DEF last
    <3>. QED  BY <1>3
  <2>. QED  BY <2>1, <1>4
<1>. HIDE DEF last
<1>. QED  BY <1>1, <1>3, <1>5, <1>6

LEMMA UndoTillPreviousType ==
  ASSUME NEW E, NEW done \in Seq(E), NEW type
  PROVE  UndoTillPrevious(type, done) \in Seq(E)
<1>1. LastOf(type, done) \in 0 .. Len(done)
  BY LastOfType
<1>2. ASSUME NEW i \in 0 .. Len(done) PROVE SubSeq(done, 1, i - 1) \in Seq(E)
  OBVIOUS
<1>. QED  BY <1>1, <1>2 DEF UndoTillPrevious

\* The last execution of a loop.
LEMMA LastExecutionIndex ==
  ASSUME NEW E, NEW done \in Seq(E), NEW loop
  PROVE  LastExecution(loop, done) \in 0 .. Len(done)
<1>. DEFINE I == {i \in 1 .. Len(done) : Is(done[i], "action", loop)}
           last == IF I # {} THEN Max(I) ELSE 0
<1>1. LastExecution(loop, done) = last
  BY DEF LastExecution, SelectLastInSeq
<1>2. I \in SUBSET (1 .. Len(done)) /\ Len(done) \in Nat
  OBVIOUS
<1>3. last \in 0 .. Len(done)
  <2>. HIDE DEF I
  <2>. QED  BY <1>2, LastIndex
<1>. QED  BY <1>1, <1>3

LEMMA UndoTillPreviousLoopExecutionType ==
  ASSUME NEW E, NEW done \in Seq(E), NEW loop
  PROVE  UndoTillPreviousLoopExecution(loop, done) \in Seq(E)
<1>. DEFINE last == LastExecution(loop, done)
           after == SubSeq(done, last + 1, Len(done))
<1>1. last \in 0 .. Len(done)
  BY LastExecutionIndex
<1>2. ASSUME NEW i \in 0 .. Len(done)
      PROVE  SubSeq(done, 1, i) \in Seq(E) /\ SubSeq(done, i + 1, Len(done)) \in Seq(E)
  OBVIOUS
<1>3. SubSeq(done, 1, last) \in Seq(E) /\ after \in Seq(E)
  BY <1>1, <1>2
<1>4. Without({"user", "action"}, after) \in Seq(E)
  <2>. HIDE DEF after
  <2>. QED  BY <1>3, WithoutType
<1>. QED  BY <1>3, <1>4, ConcatProperties DEF UndoTillPreviousLoopExecution

\* The events that replay others do not stay among the applied ones.
Replaying == {"undo", "rewind"}
Resetting == {"restart", "session_started"}
Kept(E) == {e \in E : e.type \notin Replaying}

LEMMA AfterEventType ==
  ASSUME NEW E, NEW done \in Seq(E), NEW e, e.type \notin Replaying => e \in E, NEW loops
  PROVE  AfterEvent(loops, done, e) \in Seq(E)
<1>1. <<>> \in Seq(E) /\ (e \in E => Append(done, e) \in Seq(E))
  OBVIOUS
<1>. QED  BY <1>1, UndoTillPreviousType, UndoTillPreviousLoopExecutionType
          DEF AfterEvent, Replaying

AppliedStep(E, loops) == [p \in Seq(Kept(E)) \X E |-> AfterEvent(loops, p[1], p[2])]

LEMMA AppliedStepType ==
  ASSUME NEW E, NEW loops
  PROVE  /\ AppliedStep(E, loops) \in [Seq(Kept(E)) \X E -> Seq(Kept(E))]
         /\ <<>> \in Seq(Kept(E))
<1>1. ASSUME NEW p \in Seq(Kept(E)) \X E PROVE AfterEvent(loops, p[1], p[2]) \in Seq(Kept(E))
  <2>1. p[1] \in Seq(Kept(E)) /\ (p[2].type \notin Replaying => p[2] \in Kept(E))
    BY DEF Kept
  <2>. QED  BY <2>1, AfterEventType
<1>2. <<>> \in Seq(Kept(E))
  OBVIOUS
<1>. QED  BY <1>1, <1>2 DEF AppliedStep

\* AppliedIn goes through the events.
LEMMA AppliedFolded ==
  ASSUME NEW E, NEW loops, NEW es \in Seq(E)
  PROVE  AppliedIn(loops, es) = Folded(Seq(Kept(E)), AppliedStep(E, loops), <<>>, es)
<1>. DEFINE Step(a, e) == AfterEvent(loops, a, e)
           Fold(h) == h = [i \in 0 .. Len(es) |-> IF i = 0 THEN <<>> ELSE Step(h[i - 1], es[i])]
           step == AppliedStep(E, loops)
           S == Seq(Kept(E))
<1>1. Goes(S, E, step, <<>>, es)
  BY AppliedStepType DEF Goes
<1>2. PICK g : IsFold(g, S, step, <<>>, es) /\ Folded(S, step, <<>>, es) = g[Len(es)]
  <2>. HIDE DEF step, S
  <2>. QED  BY <1>1, FoldedIsFold
<1>3. ASSUME NEW a \in S, NEW e \in E PROVE step[<<a, e>>] = Step(a, e)
  BY DEF AppliedStep
<1>. HIDE DEF step, Step, S
<1>4. ASSUME NEW i \in 1 .. Len(es) PROVE g[i] = Step(g[i - 1], es[i])
  <2>1. i - 1 \in 0 .. Len(es) /\ es[i] \in E
    OBVIOUS
  <2>2. g[i - 1] \in S
    BY <1>2, <2>1 DEF IsFold
  <2>3. g[i] = step[<<g[i - 1], es[i]>>]
    BY <1>2 DEF IsFold
  <2>. QED  BY <2>1, <2>2, <2>3, <1>3
<1>5. Fold(g)
  BY <1>2, <1>4 DEF IsFold
<1>6. ASSUME NEW h, Fold(h) PROVE h = g
  <2>1. h[0] = g[0] /\ \A i \in 1 .. Len(es) : h[i - 1] = g[i - 1] => h[i] = g[i]
    BY <1>5, <1>6
  <2>2. Len(es) \in Nat
    OBVIOUS
  <2>3. \A i \in 0 .. Len(es) : h[i] = g[i]
    BY <2>1, <2>2, FoldsAgree
  <2>. QED  BY <2>3, <1>5, <1>6
<1>7. AppliedIn(loops, es) = (CHOOSE h : Fold(h))[Len(es)]
  BY DEF AppliedIn, Through, Step
<1>8. (CHOOSE h : Fold(h)) = g
  <2>. HIDE DEF Fold
  <2>. QED  BY <1>5, <1>6
<1>. QED  BY <1>2, <1>7, <1>8 DEF step, S

LEMMA AppliedEmpty == \A loops : AppliedIn(loops, <<>>) = <<>>
<1>. TAKE loops
<1>. DEFINE step == AppliedStep({}, loops)
           S == Seq(Kept({}))
<1>1. step \in [S \X {} -> S] /\ <<>> \in S
  BY AppliedStepType
<1>2. <<>> \in Seq({})
  OBVIOUS
<1>3. AppliedIn(loops, <<>>) = Folded(S, step, <<>>, <<>>)
  BY <1>2, AppliedFolded
<1>. HIDE DEF step, S
<1>4. Goes(S, {}, step, <<>>, <<>>)
  BY <1>1, <1>2 DEF Goes
<1>. QED  BY <1>3, <1>4, FoldedEmpty

LEMMA AppliedType ==
  ASSUME NEW E, NEW es \in Seq(E), NEW loops
  PROVE  AppliedIn(loops, es) \in Seq(Kept(E))
<1>. DEFINE step == AppliedStep(E, loops)
           S == Seq(Kept(E))
<1>1. Goes(S, E, step, <<>>, es)
  BY AppliedStepType DEF Goes
<1>2. AppliedIn(loops, es) = Folded(S, step, <<>>, es)
  BY AppliedFolded
<1>3. Folded(S, step, <<>>, es) \in S
  <2>. HIDE DEF step, S
  <2>. QED  BY <1>1, FoldedType
<1>. QED  BY <1>2, <1>3

\* An event more is applied to what the events before it left.
LEMMA AppliedAppend ==
  ASSUME NEW E, NEW es \in Seq(E), NEW e \in E, NEW loops
  PROVE  AppliedIn(loops, Append(es, e)) = AfterEvent(loops, AppliedIn(loops, es), e)
<1>. DEFINE step == AppliedStep(E, loops)
           S == Seq(Kept(E))
<1>1. Goes(S, E, step, <<>>, es)
  BY AppliedStepType DEF Goes
<1>2. Append(es, e) \in Seq(E)
  OBVIOUS
<1>3. /\ AppliedIn(loops, es) = Folded(S, step, <<>>, es)
      /\ AppliedIn(loops, Append(es, e)) = Folded(S, step, <<>>, Append(es, e))
  BY <1>2, AppliedFolded
<1>4. \A a \in S : step[<<a, e>>] = AfterEvent(loops, a, e)
  BY DEF AppliedStep
<1>. HIDE DEF step, S
<1>5. Folded(S, step, <<>>, es) \in S
  BY <1>1, FoldedType
<1>6. Folded(S, step, <<>>, Append(es, e)) = step[<<Folded(S, step, <<>>, es), e>>]
  BY <1>1, FoldedAppend
<1>. QED  BY <1>3, <1>4, <1>5, <1>6

-----------------------------------------------------------------------------
(* The state of a tracker.                                                 *)

LEMMA BlankType == Blank \in TrackerState /\ NoMessage \in TrackerEvent
<1>1. NoMessage \in TrackerEvent
  BY NamesAssumption DEF NoMessage, UserUttered, Event, TrackerEvent, EventTypes
<1>. QED  BY <1>1, NamesAssumption DEF Blank, TrackerState

\* What an event does to the state, part by part.
AppliedTo(state, e, next) ==
  LET reset == e.type \in Resetting
  IN  /\ next \in TrackerState
      /\ next.loop = IF reset THEN NoName
                     ELSE IF e.type = "active_loop" THEN e.name ELSE state.loop
      /\ next.latest_action = IF reset THEN NoName
                              ELSE IF e.type = "action" THEN e.name ELSE state.latest_action
      /\ next.latest_message = IF reset THEN NoMessage
                               ELSE IF e.type = "user" THEN e ELSE state.latest_message
      /\ next.paused = IF reset THEN FALSE
                       ELSE IF e.type = "pause" THEN TRUE
                       ELSE IF e.type = "resume" THEN FALSE ELSE state.paused
      /\ next.rejected = IF reset \/ e.type = "active_loop" THEN FALSE
                         ELSE IF e.type = "action" THEN state.rejected /\ state.loop # e.name
                         ELSE IF e.type = "rejected" THEN state.rejected \/ state.loop = e.name
                         ELSE state.rejected

LEMMA ApplyParts ==
  ASSUME NEW state \in TrackerState, NEW e \in TrackerEvent, e.type \notin Replaying
  PROVE  AppliedTo(state, e, Apply(state, e))
<1>1. CASE e.type = "user"
  <2>1. Apply(state, e) = [state EXCEPT !.latest_message = e, !.followup = NoName]
    BY <1>1, Zenon DEF Apply
  <2>. QED  BY <1>1, <2>1, NamesAssumption DEF AppliedTo, TrackerState, TrackerEvent, Resetting
<1>2. CASE e.type = "action"
  <2>1. Apply(state, e) = [state EXCEPT !.latest_action = e.name, !.followup = NoName,
                                   !.rejected = @ /\ state.loop # e.name]
    BY <1>2, Zenon DEF Apply
  <2>. QED  BY <1>2, <2>1, NamesAssumption DEF AppliedTo, TrackerState, TrackerEvent, Resetting
<1>3. CASE e.type = "rejected"
  <2>1. Apply(state, e) = [state EXCEPT !.rejected = @ \/ state.loop = e.name]
    BY <1>3, Zenon DEF Apply
  <2>. QED  BY <1>3, <2>1, NamesAssumption DEF AppliedTo, TrackerState, TrackerEvent, Resetting
<1>4. CASE e.type = "active_loop"
  <2>1. Apply(state, e) = [state EXCEPT !.loop = e.name, !.rejected = FALSE]
    BY <1>4, Zenon DEF Apply
  <2>. QED  BY <1>4, <2>1, NamesAssumption DEF AppliedTo, TrackerState, TrackerEvent, Resetting
<1>5. CASE e.type = "followup"
  <2>1. Apply(state, e) = [state EXCEPT !.followup = e.name]
    BY <1>5, Zenon DEF Apply
  <2>. QED  BY <1>5, <2>1, NamesAssumption DEF AppliedTo, TrackerState, TrackerEvent, Resetting
<1>6. CASE e.type = "session_started"
  <2>1. Apply(state, e) = Blank
    BY <1>6, Zenon DEF Apply, Reset
  <2>. QED  BY <1>6, <2>1, NamesAssumption, BlankType DEF AppliedTo, TrackerState, TrackerEvent, Resetting, Blank
<1>7. CASE e.type = "restart"
  <2>1. Apply(state, e) = [Blank EXCEPT !.followup = SESSION_START]
    BY <1>7, Zenon DEF Apply, Reset
  <2>. QED  BY <1>7, <2>1, NamesAssumption, BlankType DEF AppliedTo, TrackerState, TrackerEvent, Resetting, Blank
<1>8. CASE e.type = "pause"
  <2>1. Apply(state, e) = [state EXCEPT !.paused = TRUE]
    BY <1>8, Zenon DEF Apply
  <2>. QED  BY <1>8, <2>1, NamesAssumption DEF AppliedTo, TrackerState, TrackerEvent, Resetting
<1>9. CASE e.type = "resume"
  <2>1. Apply(state, e) = [state EXCEPT !.paused = FALSE]
    BY <1>9, Zenon DEF Apply
  <2>. QED  BY <1>9, <2>1, NamesAssumption DEF AppliedTo, TrackerState, TrackerEvent, Resetting
<1>. QED  BY <1>1, <1>2, <1>3, <1>4, <1>5, <1>6, <1>7, <1>8, <1>9 DEF TrackerEvent, EventTypes, Replaying

\* Applying events one after the other.
Played(es) == Through(es, Apply, Blank)
Playable == Kept(TrackerEvent)
PlayStep == [p \in TrackerState \X Playable |-> Apply(p[1], p[2])]

LEMMA PlayStepType == PlayStep \in [TrackerState \X Playable -> TrackerState]
<1>1. ASSUME NEW p \in TrackerState \X Playable PROVE Apply(p[1], p[2]) \in TrackerState
  <2>1. p[1] \in TrackerState /\ p[2] \in TrackerEvent /\ p[2].type \notin Replaying
    BY DEF Playable, Kept
  <2>. QED  BY <2>1, ApplyParts DEF AppliedTo
<1>. QED  BY <1>1 DEF PlayStep

\* Played goes through the events.
LEMMA PlayedFolded ==
  ASSUME NEW es \in Seq(Playable)
  PROVE  Played(es) = Folded(TrackerState, PlayStep, Blank, es)
<1>. DEFINE Fold(h) == h = [i \in 0 .. Len(es) |-> IF i = 0 THEN Blank ELSE Apply(h[i - 1], es[i])]
           step == PlayStep
           E == Playable
<1>1. Goes(TrackerState, E, step, Blank, es)
  BY PlayStepType, BlankType DEF Goes
<1>2. PICK g : IsFold(g, TrackerState, step, Blank, es) /\ Folded(TrackerState, step, Blank, es) = g[Len(es)]
  <2>. HIDE DEF step
  <2>. QED  BY <1>1, FoldedIsFold
<1>3. ASSUME NEW a \in TrackerState, NEW e \in E PROVE step[<<a, e>>] = Apply(a, e)
  BY DEF PlayStep
<1>. HIDE DEF step, E
<1>4. ASSUME NEW i \in 1 .. Len(es) PROVE g[i] = Apply(g[i - 1], es[i])
  <2>1. i - 1 \in 0 .. Len(es) /\ es[i] \in E
    BY DEF E
  <2>2. g[i - 1] \in TrackerState
    BY <1>2, <2>1 DEF IsFold
  <2>3. g[i] = step[<<g[i - 1], es[i]>>]
    BY <1>2 DEF IsFold
  <2>. QED  BY <2>1, <2>2, <2>3, <1>3
<1>5. Fold(g)
  BY <1>2, <1>4 DEF IsFold
<1>6. ASSUME NEW h, Fold(h) PROVE h = g
  <2>1. h[0] = g[0] /\ \A i \in 1 .. Len(es) : h[i - 1] = g[i - 1] => h[i] = g[i]
    BY <1>5, <1>6
  <2>2. Len(es) \in Nat
    OBVIOUS
  <2>3. \A i \in 0 .. Len(es) : h[i] = g[i]
    BY <2>1, <2>2, FoldsAgree
  <2>. QED  BY <2>3, <1>5, <1>6
<1>7. Played(es) = (CHOOSE h : Fold(h))[Len(es)]
  BY DEF Played, Through
<1>8. (CHOOSE h : Fold(h)) = g
  <2>. HIDE DEF Fold
  <2>. QED  BY <1>5, <1>6
<1>. QED  BY <1>2, <1>7, <1>8 DEF step

LEMMA PlayedEmpty == Played(<<>>) = Blank
<1>1. <<>> \in Seq(Playable)
  OBVIOUS
<1>2. Goes(TrackerState, Playable, PlayStep, Blank, <<>>)
  BY <1>1, PlayStepType, BlankType DEF Goes
<1>. QED  BY <1>1, <1>2, PlayedFolded, FoldedEmpty

LEMMA PlayedAppend ==
  ASSUME NEW es \in Seq(Playable), NEW e \in Playable
  PROVE  Played(es) \in TrackerState /\ Played(Append(es, e)) = Apply(Played(es), e)
<1>1. Goes(TrackerState, Playable, PlayStep, Blank, es) /\ Append(es, e) \in Seq(Playable)
  BY PlayStepType, BlankType DEF Goes
<1>2. Played(es) \in TrackerState
  BY <1>1, PlayedFolded, FoldedType
<1>3. /\ Played(es) = Folded(TrackerState, PlayStep, Blank, es)
      /\ Played(Append(es, e)) = Folded(TrackerState, PlayStep, Blank, Append(es, e))
  BY <1>1, PlayedFolded
<1>4. Played(Append(es, e)) = PlayStep[<<Played(es), e>>]
  BY <1>1, <1>3, FoldedAppend
<1>. QED  BY <1>2, <1>4 DEF PlayStep

LEMMA PlayedType == \A es \in Seq(Playable) : Played(es) \in TrackerState
<1>. TAKE es \in Seq(Playable)
<1>1. Goes(TrackerState, Playable, PlayStep, Blank, es)
  BY PlayStepType, BlankType DEF Goes
<1>. QED  BY <1>1, PlayedFolded, FoldedType

\* A replay applies what is left of the events.
LEMMA ReplayPlays ==
  ASSUME NEW es \in Seq(TrackerEvent)
  PROVE  /\ AppliedEvents(es) \in Seq(Playable)
         /\ Replay(es) = Played(AppliedEvents(es))
         /\ Replay(es) \in TrackerState
<1>1. AppliedEvents(es) \in Seq(Playable)
  BY AppliedType DEF AppliedEvents, Playable
<1>2. Replay(es) = Played(AppliedEvents(es))
  BY DEF Replay, Played
<1>. QED  BY <1>1, <1>2, PlayedType

-----------------------------------------------------------------------------
(* A tracker and the events that update it.                                 *)

TrackerType == [events : Seq(TrackerEvent), state : TrackerState]

\* Trackers that updates with some events do not leave.
Closed(P, E) == \A t \in P, e \in E : Update(t, e) \in P
UpdateStep(P, E) == [p \in P \X E |-> Update(p[1], p[2])]

\* UpdateWithEvents goes through the events.
LEMMA UpdatesFolded ==
  ASSUME NEW P, NEW E, Closed(P, E), NEW t \in P, NEW es \in Seq(E)
  PROVE  UpdateWithEvents(t, es) = Folded(P, UpdateStep(P, E), t, es)
<1>. DEFINE Fold(h) == h = [i \in 0 .. Len(es) |-> IF i = 0 THEN t ELSE Update(h[i - 1], es[i])]
           step == UpdateStep(P, E)
<1>1. Goes(P, E, step, t, es)
  BY DEF Goes, UpdateStep, Closed
<1>2. PICK g : IsFold(g, P, step, t, es) /\ Folded(P, step, t, es) = g[Len(es)]
  <2>. HIDE DEF step
  <2>. QED  BY <1>1, FoldedIsFold
<1>3. ASSUME NEW a \in P, NEW e \in E PROVE step[<<a, e>>] = Update(a, e)
  BY DEF UpdateStep
<1>. HIDE DEF step
<1>4. ASSUME NEW i \in 1 .. Len(es) PROVE g[i] = Update(g[i - 1], es[i])
  <2>1. i - 1 \in 0 .. Len(es) /\ es[i] \in E
    OBVIOUS
  <2>2. g[i - 1] \in P
    BY <1>2, <2>1 DEF IsFold
  <2>3. g[i] = step[<<g[i - 1], es[i]>>]
    BY <1>2 DEF IsFold
  <2>. QED  BY <2>1, <2>2, <2>3, <1>3
<1>5. Fold(g)
  BY <1>2, <1>4 DEF IsFold
<1>6. ASSUME NEW h, Fold(h) PROVE h = g
  <2>1. h[0] = g[0] /\ \A i \in 1 .. Len(es) : h[i - 1] = g[i - 1] => h[i] = g[i]
    BY <1>5, <1>6
  <2>2. Len(es) \in Nat
    OBVIOUS
  <2>3. \A i \in 0 .. Len(es) : h[i] = g[i]
    BY <2>1, <2>2, FoldsAgree
  <2>. QED  BY <2>3, <1>5, <1>6
<1>7. UpdateWithEvents(t, es) = (CHOOSE h : Fold(h))[Len(es)]
  BY DEF UpdateWithEvents, Through
<1>8. (CHOOSE h : Fold(h)) = g
  <2>. HIDE DEF Fold
  <2>. QED  BY <1>5, <1>6
<1>. QED  BY <1>2, <1>7, <1>8 DEF step

LEMMA UpdatesEmpty == \A t : UpdateWithEvents(t, <<>>) = t
<1>. TAKE t
<1>1. Closed({t}, {}) /\ <<>> \in Seq({}) /\ t \in {t}
  BY DEF Closed
<1>2. Goes({t}, {}, UpdateStep({t}, {}), t, <<>>)
  BY <1>1 DEF Goes, UpdateStep
<1>. QED  BY <1>1, <1>2, UpdatesFolded, FoldedEmpty

\* What updates with single events keep, updates with many keep.
LEMMA UpdatesStay ==
  ASSUME NEW P, NEW E, Closed(P, E), NEW t \in P, NEW es \in Seq(E)
  PROVE  UpdateWithEvents(t, es) \in P
<1>1. Goes(P, E, UpdateStep(P, E), t, es)
  BY DEF Goes, UpdateStep, Closed
<1>. QED  BY <1>1, UpdatesFolded, FoldedType

LEMMA UpdatesAppend ==
  ASSUME NEW P, NEW E, Closed(P, E), NEW t \in P, NEW es \in Seq(E), NEW e \in E
  PROVE  UpdateWithEvents(t, Append(es, e)) = Update(UpdateWithEvents(t, es), e)
<1>1. Goes(P, E, UpdateStep(P, E), t, es) /\ Append(es, e) \in Seq(E)
  BY DEF Goes, UpdateStep, Closed
<1>2. /\ UpdateWithEvents(t, es) = Folded(P, UpdateStep(P, E), t, es)
      /\ UpdateWithEvents(t, Append(es, e)) = Folded(P, UpdateStep(P, E), t, Append(es, e))
  BY <1>1, UpdatesFolded
<1>3. UpdateWithEvents(t, Append(es, e)) = UpdateStep(P, E)[<<UpdateWithEvents(t, es), e>>]
  BY <1>1, <1>2, FoldedAppend
<1>. QED  BY <1>3, UpdatesStay DEF UpdateStep

LEMMA UpdateType ==
  ASSUME NEW t \in TrackerType, NEW e \in TrackerEvent
  PROVE  Update(t, e) \in TrackerType /\ Update(t, e).events = Append(t.events, e)
<1>1. Append(t.events, e) \in Seq(TrackerEvent) /\ t.state \in TrackerState
  BY DEF TrackerType
<1>2. CASE e.type \in Replaying
  <2>1. Replay(Append(t.events, e)) \in TrackerState
    BY <1>1, ReplayPlays
  <2>. QED  BY <1>1, <1>2, <2>1 DEF Update, TrackerType, Replaying
<1>3. CASE e.type \notin Replaying
  <2>1. Apply(t.state, e) \in TrackerState
    BY <1>1, <1>3, ApplyParts DEF AppliedTo
  <2>. QED  BY <1>1, <1>3, <2>1 DEF Update, TrackerType, Replaying
<1>. QED  BY <1>2, <1>3

\* The events of an update are appended.
LEMMA UpdatesType ==
  ASSUME NEW t \in TrackerType, NEW es \in Seq(TrackerEvent)
  PROVE  /\ UpdateWithEvents(t, es) \in TrackerType
         /\ UpdateWithEvents(t, es).events = t.events \o es
<1>1. Closed(TrackerType, TrackerEvent)
  BY UpdateType DEF Closed
<1>2. UpdateWithEvents(t, es) \in TrackerType
  BY <1>1, UpdatesStay
<1>. DEFINE P == {s \in Seq(TrackerEvent) : UpdateWithEvents(t, s).events = t.events \o s}
<1>3. <<>> \in P
  <2>1. t.events \o <<>> = t.events /\ <<>> \in Seq(TrackerEvent)
    BY DEF TrackerType
  <2>. QED  BY <2>1, UpdatesEmpty
<1>4. ASSUME NEW s \in Seq(TrackerEvent), NEW e \in TrackerEvent, s \in P PROVE Append(s, e) \in P
  <2>1. UpdateWithEvents(t, Append(s, e)) = Update(UpdateWithEvents(t, s), e)
    BY <1>1, UpdatesAppend
  <2>2. UpdateWithEvents(t, s) \in TrackerType
    BY <1>1, UpdatesStay
  <2>3. UpdateWithEvents(t, Append(s, e)).events = Append(t.events \o s, e)
    BY <1>4, <2>1, <2>2, UpdateType
  <2>4. Append(t.events \o s, e) = t.events \o Append(s, e)
    <3>. DEFINE h == t.events
    <3>1. h \in Seq(TrackerEvent)
      BY DEF TrackerType
    <3>. HIDE DEF h
    <3>2. h \o Append(s, e) = Append(h \o s, e)
      BY <3>1, ConcatAppend
    <3>. QED  BY <3>2 DEF h
  <2>5. Append(s, e) \in Seq(TrackerEvent)
    OBVIOUS
  <2>. QED  BY <2>3, <2>4, <2>5
<1>5. es \in P
  <2>. HIDE DEF P
  <2>. QED  BY <1>3, <1>4, InductionOverSequences
<1>. QED  BY <1>2, <1>5

-----------------------------------------------------------------------------
(* The deques a lock can hold: tickets with bounded numbers.               *)

IsDeque(q) == /\ q \in SUBSET Ticket
              /\ \E b \in Nat : \A t \in q : t.number =< b

\* Removing tickets leaves a deque.
LEMMA SubDeque ==
  ASSUME NEW q, IsDeque(q), NEW p, p \subseteq q
  PROVE  IsDeque(p)
BY DEF IsDeque

\* last_issued is the greatest number of an unexpired ticket, or -1.
LEMMA LastIssuedGreatest ==
  ASSUME NEW q, IsDeque(q), NEW time \in Nat
  PROVE  /\ LastIssued(q, time) \in Nat \union {NO_TICKET_ISSUED}
         /\ \A t \in Unexpired(q, time) : t.number =< LastIssued(q, time)
<1>. DEFINE live == Unexpired(q, time)
            S == Numbers(live)
<1>1. live \subseteq q /\ live \in SUBSET Ticket
  BY DEF IsDeque, Unexpired
<1>2. PICK b \in Nat : \A t \in q : t.number =< b
  BY DEF IsDeque
<1>3. CASE live = {}
  BY <1>3 DEF LastIssued
<1>4. CASE live # {}
  <2>1. S \in SUBSET Nat /\ S # {} /\ \A n \in S : n =< b
    BY <1>1, <1>2, <1>4 DEF Numbers, Ticket
  <2>2. Max(S) \in S /\ \A n \in S : n =< Max(S)
    BY <2>1, MaxGreatest
  <2>3. LastIssued(q, time) = Max(S)
    BY <1>4 DEF LastIssued
  <2>. QED  BY <2>1, <2>2, <2>3 DEF Numbers
<1>. QED  BY <1>3, <1>4

\* now_serving is the least number of an unexpired ticket, if there is one.
LEMMA NowServingLeast ==
  ASSUME NEW q, IsDeque(q), NEW time \in Nat, Unexpired(q, time) # {}
  PROVE  /\ NowServing(q, time) \in Nat
         /\ \A t \in Unexpired(q, time) : NowServing(q, time) =< t.number
<1>. DEFINE live == Unexpired(q, time)
            S == Numbers(live)
<1>1. S \in SUBSET Nat /\ S # {}
  BY DEF IsDeque, Unexpired, Numbers, Ticket
<1>2. Min(S) \in S /\ \A n \in S : Min(S) =< n
  BY <1>1, MinLeast
<1>3. NowServing(q, time) = Min(S)
  BY DEF NowServing
<1>. QED  BY <1>1, <1>2, <1>3 DEF Numbers

\* issue_ticket appends a ticket with a number above all others.
LEMMA IssueTicketAppends ==
  ASSUME NEW q, IsDeque(q), NEW time \in Nat, NEW lifetime \in Nat
  PROVE  /\ NewTicket(q, time, lifetime) \in Ticket
         /\ ~HasExpired(NewTicket(q, time, lifetime), time)
         /\ \A t \in Unexpired(q, time) :
              t.number < NewTicket(q, time, lifetime).number
         /\ IsDeque(IssueTicket(q, time, lifetime))
<1>. DEFINE new == NewTicket(q, time, lifetime)
<1>1. LastIssued(q, time) \in Nat \union {-1}
  BY LastIssuedGreatest DEF NO_TICKET_ISSUED
<1>2. new.number = LastIssued(q, time) + 1 /\ new.expires = time + lifetime
  BY DEF NewTicket
<1>3. new \in Ticket
  BY <1>1, <1>2 DEF NewTicket, Ticket
<1>4. ~HasExpired(new, time)
  BY <1>2 DEF HasExpired
<1>5. \A t \in Unexpired(q, time) : t.number < new.number
  <2>. SUFFICES ASSUME NEW t \in Unexpired(q, time) PROVE t.number < new.number
    OBVIOUS
  <2>1. t.number =< LastIssued(q, time)
    BY LastIssuedGreatest
  <2>2. t.number \in Nat
    BY DEF Unexpired, IsDeque, Ticket
  <2>. QED  BY <1>1, <1>2, <2>1, <2>2
<1>6. IsDeque(IssueTicket(q, time, lifetime))
  <2>1. new.number \in Nat
    BY <1>3 DEF Ticket
  <2>2. \A t \in IssueTicket(q, time, lifetime) : t.number =< new.number
    <3>. SUFFICES ASSUME NEW t \in IssueTicket(q, time, lifetime)
                  PROVE  t.number =< new.number
      OBVIOUS
    <3>1. CASE t = new
      BY <3>1, <2>1
    <3>2. CASE t \in Unexpired(q, time)
      <4>1. t.number \in Nat
        BY <3>2 DEF Unexpired, IsDeque, Ticket
      <4>. QED  BY <3>2, <4>1, <1>5, <2>1
    <3>. QED  BY <3>1, <3>2 DEF IssueTicket
  <2>3. IssueTicket(q, time, lifetime) \in SUBSET Ticket
    BY <1>3 DEF IssueTicket, Unexpired, IsDeque
  <2>. QED  BY <2>1, <2>2, <2>3 DEF IsDeque
<1>. QED  BY <1>3, <1>4, <1>5, <1>6

=============================================================================
