--------------------------- MODULE HashRing_proofs ---------------------------
(***************************************************************************)
(* Theorems about HashRing for any nodes, placements of virtual nodes and  *)
(* replication factors.                                                    *)
(***************************************************************************)
EXTENDS HashRing, FiniteSetTheorems, FunctionTheorems,
        SequenceTheorems, TLAPS

-----------------------------------------------------------------------------
(* Numbers.                                                                *)

(* A set of numbers has a least one. *)
LEMMA LeastNumber ==
  ASSUME NEW S, S \subseteq Nat, S # {}
  PROVE  \E x \in S : \A y \in S : x <= y
<1>1. PICK x \in S : \A y \in S : ~(<<y, x>> \in OpToRel(<, Nat))
  BY WFMin, NatLessThanWellFounded
<1>2. \A y \in S : ~(y < x)
  BY <1>1 DEF OpToRel
<1>3. QED
  BY <1>2

(* Induction up to a bound, over a set in place of a predicate. *)
LEMMA UpToBound ==
  ASSUME NEW L \in Nat, NEW S, 0 \in S,
         \A n \in 0..(L - 1) : n \in S => n + 1 \in S
  PROVE  \A n \in 0..L : n \in S
<1> DEFINE Missing == {n \in 0..L : n \notin S}
<1> SUFFICES ASSUME Missing # {} PROVE FALSE
  OBVIOUS
<1>1. PICK x \in Missing : \A y \in Missing : x <= y
  <2>1. Missing \subseteq Nat
    OBVIOUS
  <2> HIDE DEF Missing
  <2>2. QED
    BY <2>1, LeastNumber
<1>2. x # 0 /\ x - 1 \in 0..(L - 1)
  BY <1>1
<1>3. x - 1 \in S
  BY <1>1, <1>2
<1>4. QED
  BY <1>1, <1>2, <1>3

(* The remainder, one turn around. *)
LEMMA OneTurn ==
  ASSUME NEW L \in Nat \ {0}, NEW x \in 0..(2 * L - 1)
  PROVE  x % L = IF x < L THEN x ELSE x - L
<1>1. CASE x < L
  BY <1>1
<1>2. CASE x >= L
  BY <1>2
<1>3. QED
  BY <1>1, <1>2

-----------------------------------------------------------------------------
(* Sequences of hashes.                                                    *)

LEMMA SeqOfSet ==
  ASSUME NEW S, IsFiniteSet(S)
  PROVE  SetToSeq(S) \in Seq(S) /\ ToSet(SetToSeq(S)) = S
<1> DEFINE n == Cardinality(S)
<1>1. n \in Nat
  BY FS_CardinalityType
<1>2. \E f \in [1..n -> S] : IsInjective(f)
  BY FS_CardinalityType, Fun_ExistsBij DEF Bijection, Injection
<1>3. SetToSeq(S) \in [1..n -> S] /\ IsInjective(SetToSeq(S))
  BY <1>2 DEF SetToSeq
<1>4. SetToSeq(S) \in Injection(1..n, S)
  BY <1>3 DEF Injection
<1>5. Cardinality(1..n) = n
  BY <1>1, FS_Interval
<1>6. SetToSeq(S) \in Surjection(1..n, S)
  BY <1>4, <1>5, FS_Injection
<1>7. QED
  BY <1>1, <1>3, <1>6 DEF Surjection, ToSet

(* How many positions hold a value below h, or up to h. *)
LEMMA Counts ==
  ASSUME NEW s \in Seq(Nat), NEW h \in Nat
  PROVE  /\ Below(s, h) \in 0..Len(s) /\ UpTo(s, h) \in 0..Len(s)
         /\ Below(s, 0) = 0
         /\ Below(s, h + 1) = UpTo(s, h)
         /\ \A g \in Nat : g < h => UpTo(s, g) <= Below(s, h)
         /\ UpTo(s, h) # Below(s, h) => h \in ToSet(s)
         /\ h \in ToSet(s) => Below(s, h) < UpTo(s, h)
         /\ (\A i \in 1..Len(s) : s[i] <= h) => UpTo(s, h) = Len(s)
<1> DEFINE D == 1..Len(s)
           B(x) == {i \in DOMAIN s : s[i] < x}
           U(x) == {i \in DOMAIN s : s[i] <= x}
<1>1. Len(s) \in Nat /\ DOMAIN s = D /\ \A i \in D : s[i] \in Nat
  OBVIOUS
<1>2. IsFiniteSet(D) /\ Cardinality(D) = Len(s)
  BY <1>1, FS_Interval
<1>3. ASSUME NEW T \in SUBSET D
      PROVE  IsFiniteSet(T) /\ Cardinality(T) \in 0..Len(s)
  <2> HIDE DEF D
  <2>1. IsFiniteSet(T) /\ Cardinality(T) <= Cardinality(D)
    BY <1>2, FS_Subset
  <2>2. Cardinality(T) \in Nat
    BY <2>1, FS_CardinalityType
  <2>3. QED
    BY <1>1, <1>2, <2>1, <2>2
<1>4. ASSUME NEW x \in Nat PROVE B(x) \in SUBSET D /\ U(x) \in SUBSET D
  BY <1>1
<1>5. Below(s, h) \in 0..Len(s) /\ UpTo(s, h) \in 0..Len(s)
  BY <1>3, <1>4 DEF Below, UpTo
<1>6. Below(s, 0) = 0
  <2>1. B(0) = {}
    BY <1>1
  <2>2. QED
    BY <2>1, FS_EmptySet DEF Below
<1>7. Below(s, h + 1) = UpTo(s, h)
  <2>1. B(h + 1) = U(h)
    BY <1>1
  <2>2. QED
    BY <2>1 DEF Below, UpTo
<1>8. ASSUME NEW g \in Nat, g < h PROVE UpTo(s, g) <= Below(s, h)
  <2>1. U(g) \in SUBSET B(h)
    BY <1>1, <1>8
  <2>2. IsFiniteSet(B(h))
    BY <1>3, <1>4
  <2> HIDE DEF B, U
  <2>3. Cardinality(U(g)) <= Cardinality(B(h))
    BY <2>1, <2>2, FS_Subset
  <2>4. QED
    BY <2>3 DEF Below, UpTo, B, U
<1>9. UpTo(s, h) # Below(s, h) => h \in ToSet(s)
  <2>1. h \notin ToSet(s) => U(h) = B(h)
    BY <1>1 DEF ToSet
  <2>2. QED
    BY <2>1 DEF Below, UpTo
<1>10. h \in ToSet(s) => Below(s, h) < UpTo(s, h)
  <2> SUFFICES ASSUME h \in ToSet(s) PROVE Below(s, h) < UpTo(s, h)
    OBVIOUS
  <2>1. B(h) \in SUBSET U(h) /\ B(h) # U(h)
    BY <1>1 DEF ToSet
  <2>2. /\ IsFiniteSet(U(h))
        /\ Cardinality(U(h)) \in 0..Len(s) /\ Cardinality(B(h)) \in 0..Len(s)
    BY <1>3, <1>4
  <2> HIDE DEF B, U
  <2>3. /\ Cardinality(B(h)) <= Cardinality(U(h))
        /\ Cardinality(B(h)) # Cardinality(U(h))
    BY <2>1, <2>2, FS_Subset
  <2>4. Cardinality(B(h)) < Cardinality(U(h))
    BY <2>2, <2>3, <1>1
  <2>5. QED
    BY <2>4 DEF Below, UpTo, B, U
<1>11. (\A i \in D : s[i] <= h) => UpTo(s, h) = Len(s)
  <2>1. (\A i \in D : s[i] <= h) => U(h) = D
    BY <1>1
  <2>2. QED
    BY <2>1, <1>2 DEF UpTo
<1>12. QED
  BY <1>5, <1>6, <1>7, <1>8, <1>9, <1>10, <1>11

LEMMA CountTypes ==
  ASSUME NEW s \in Seq(Nat), NEW h \in Nat
  PROVE  /\ Len(s) \in Nat
         /\ Below(s, h) \in Nat /\ Below(s, h) <= Len(s)
         /\ UpTo(s, h) \in Nat /\ UpTo(s, h) <= Len(s)
         /\ h \in ToSet(s) => Below(s, h) < UpTo(s, h)
<1>1. Len(s) \in Nat
  OBVIOUS
<1>2. Below(s, h) \in 0..Len(s) /\ UpTo(s, h) \in 0..Len(s)
  BY Counts
<1>3. h \in ToSet(s) => Below(s, h) < UpTo(s, h)
  BY Counts
<1>4. QED
  BY <1>1, <1>2, <1>3

(* sort.Slice puts the same values in ascending order. *)
LEMMA SortedValues ==
  ASSUME NEW s \in Seq(Nat), NEW top \in Nat, \A i \in 1..Len(s) : s[i] <= top
  PROVE  /\ Sorted(s) \in Seq(Nat) /\ Len(Sorted(s)) = Len(s)
         /\ ToSet(Sorted(s)) = ToSet(s)
         /\ \A i, j \in 1..Len(s) : i < j => Sorted(s)[i] <= Sorted(s)[j]
<1> DEFINE Fits(k, h) == h \in ToSet(s) /\ Below(s, h) < k /\ k <= UpTo(s, h)
<1>1. Len(s) \in Nat /\ ToSet(s) \subseteq Nat
  BY DEF ToSet
<1>2. ASSUME NEW k \in 1..Len(s) PROVE \E h \in ToSet(s) : Fits(k, h)
  <2> DEFINE Enough == {h \in Nat : k <= UpTo(s, h)}
  <2>1. top \in Enough
    <3>1. UpTo(s, top) = Len(s)
      BY Counts
    <3>2. QED
      BY <3>1, <1>1
  <2>2. PICK h \in Enough : \A g \in Enough : h <= g
    <3>1. Enough \subseteq Nat /\ Enough # {}
      BY <2>1
    <3> HIDE DEF Enough
    <3>2. QED
      BY <3>1, LeastNumber
  <2>3. Below(s, h) < k
    <3>1. CASE h = 0
      BY <3>1, Counts, <1>1
    <3>2. CASE h # 0
      <4>1. h - 1 \in Nat /\ h - 1 \notin Enough
        BY <2>2, <3>2
      <4>2. UpTo(s, h - 1) < k /\ UpTo(s, h - 1) \in Nat
        BY <4>1, CountTypes
      <4>3. Below(s, (h - 1) + 1) = UpTo(s, h - 1)
        BY <4>1, Counts
      <4>4. (h - 1) + 1 = h
        BY <2>2
      <4>5. QED
        BY <4>2, <4>3, <4>4
    <3>3. QED
      BY <3>1, <3>2
  <2>4. Below(s, h) \in Nat /\ UpTo(s, h) \in Nat /\ k <= UpTo(s, h)
    BY <2>2, Counts, <1>1
  <2>5. h \in ToSet(s)
    BY <2>2, <2>3, <2>4, Counts
  <2>6. QED
    BY <2>3, <2>4, <2>5
<1>3. ASSUME NEW k \in 1..Len(s) PROVE Fits(k, Sorted(s)[k])
  BY <1>2, <1>3 DEF Sorted
<1>4. Sorted(s) \in [1..Len(s) -> Nat]
  BY <1>1, <1>3 DEF Sorted
<1>5. Sorted(s) \in Seq(Nat) /\ Len(Sorted(s)) = Len(s)
  BY <1>1, <1>4
<1>6. ASSUME NEW i \in 1..Len(s), NEW j \in 1..Len(s), i < j
      PROVE  Sorted(s)[i] <= Sorted(s)[j]
  <2> DEFINE g == Sorted(s)[i]
             h == Sorted(s)[j]
  <2>1. g \in Nat /\ h \in Nat /\ Fits(i, g) /\ Fits(j, h)
    BY <1>3, <1>4
  <2> HIDE DEF g, h
  <2>2. h < g => UpTo(s, h) <= Below(s, g)
    BY <2>1, Counts
  <2>3. UpTo(s, h) \in Nat /\ Below(s, g) \in Nat
    BY <2>1, Counts, <1>1
  <2>4. g <= h
    BY <1>1, <1>6, <2>1, <2>2, <2>3
  <2>5. QED
    BY <2>4 DEF g, h
<1>7. ASSUME NEW h \in ToSet(s) PROVE h \in ToSet(Sorted(s))
  <2> DEFINE k == Below(s, h) + 1
  <2>1. h \in Nat /\ k \in 1..Len(s) /\ Below(s, h) < k /\ k <= UpTo(s, h)
    <3>1. h \in Nat
      BY <1>1
    <3>2. /\ Len(s) \in Nat /\ Below(s, h) \in Nat /\ Below(s, h) <= Len(s)
          /\ UpTo(s, h) \in Nat /\ UpTo(s, h) <= Len(s)
          /\ Below(s, h) < UpTo(s, h)
      BY <3>1, CountTypes
    <3>3. QED
      BY <3>1, <3>2
  <2> DEFINE g == Sorted(s)[k]
  <2>2. g \in Nat /\ Fits(k, g)
    BY <1>3, <1>4, <2>1
  <2>3. UpTo(s, h) \in Nat /\ Below(s, h) \in Nat /\ UpTo(s, g) \in Nat /\ Below(s, g) \in Nat
    BY <2>1, <2>2, CountTypes
  <2> HIDE DEF g, k
  <2>4. (g < h => UpTo(s, g) <= Below(s, h)) /\ (h < g => UpTo(s, h) <= Below(s, g))
    BY <2>1, <2>2, Counts
  <2>5. g = h
    BY <2>1, <2>2, <2>3, <2>4, <1>1
  <2>6. QED
    BY <1>4, <2>1, <2>5 DEF ToSet, g
<1>8. ToSet(Sorted(s)) = ToSet(s)
  BY <1>3, <1>4, <1>7 DEF ToSet
<1>9. QED
  BY <1>5, <1>6, <1>8

-----------------------------------------------------------------------------
(* The walk of GetNodes.                                                   *)

Take(soFar, n, count) ==
  IF Len(soFar) < count /\ n \notin ToSet(soFar) THEN Append(soFar, n) ELSE soFar

IsWalk(f, met, count, n) ==
  f = [i \in 0..n |-> IF i = 0 THEN <<>> ELSE Take(f[i - 1], met[i], count)]

LEMMA WalkExists ==
  ASSUME NEW L \in Nat, NEW met, NEW count
  PROVE  \E f : IsWalk(f, met, count, L)
<1> DEFINE S == {n \in Nat : \E f : IsWalk(f, met, count, n)}
<1>1. 0 \in S
  <2>1. IsWalk([i \in 0..0 |-> <<>>], met, count, 0)
    BY DEF IsWalk
  <2>2. QED
    BY <2>1
<1>2. ASSUME NEW n \in 0..(L - 1), n \in S PROVE n + 1 \in S
  <2>1. PICK f : IsWalk(f, met, count, n)
    BY <1>2
  <2>2. n \in Nat /\ \A i \in 0..n : f[i] = IF i = 0 THEN <<>> ELSE Take(f[i - 1], met[i], count)
    BY <2>1 DEF IsWalk
  <2> DEFINE last == Take(f[n], met[n + 1], count)
             g == [i \in 0..(n + 1) |-> IF i <= n THEN f[i] ELSE last]
  <2>3. ASSUME NEW i \in 0..(n + 1)
        PROVE  g[i] = IF i = 0 THEN <<>> ELSE Take(g[i - 1], met[i], count)
    <3> HIDE DEF last
    <3>1. CASE i = 0
      BY <2>2, <3>1
    <3>2. CASE i \in 1..n
      <4>1. g[i] = f[i] /\ g[i - 1] = f[i - 1]
        BY <2>2, <3>2
      <4>2. QED
        BY <2>2, <3>2, <4>1
    <3>3. CASE i = n + 1
      <4>1. g[i] = last /\ g[i - 1] = f[n]
        BY <2>2, <3>3
      <4>2. QED
        BY <2>2, <3>3, <4>1 DEF last
    <3>4. QED
      BY <2>2, <3>1, <3>2, <3>3
  <2>4. IsWalk(g, met, count, n + 1)
    <3>1. DOMAIN g = 0..(n + 1)
      OBVIOUS
    <3>2. g = [i \in 0..(n + 1) |-> g[i]]
      OBVIOUS
    <3> HIDE DEF g
    <3>3. QED
      BY <2>3, <3>2 DEF IsWalk
  <2>5. QED
    BY <2>2, <2>4
<1>3. \A n \in 0..L : n \in S
  <2> HIDE DEF S
  <2>1. QED
    BY <1>1, <1>2, UpToBound
<1>4. QED
  BY <1>3

LEMMA WalkSteps ==
  ASSUME NEW N, NEW met \in Seq(N), NEW count
  PROVE  /\ Taken(met, count)[0] = <<>>
         /\ \A i \in 1..Len(met) :
              Taken(met, count)[i] = Take(Taken(met, count)[i - 1], met[i], count)
<1>1. Len(met) \in Nat
  OBVIOUS
<1>2. IsWalk(Taken(met, count), met, count, Len(met))
  <2>1. \E f : IsWalk(f, met, count, Len(met))
    BY <1>1, WalkExists
  <2>2. QED
    BY <2>1 DEF Taken, IsWalk, Take
<1> DEFINE f == Taken(met, count)
<1> HIDE DEF f
<1>3. f = [i \in 0..Len(met) |-> IF i = 0 THEN <<>> ELSE Take(f[i - 1], met[i], count)]
  BY <1>2 DEF IsWalk, f
<1>4. \A i \in 0..Len(met) : f[i] = IF i = 0 THEN <<>> ELSE Take(f[i - 1], met[i], count)
  BY <1>3
<1>5. QED
  BY <1>1, <1>4 DEF f

(* What s holds after the first n visits of a walk: visited nodes in the   *)
(* order of their first visits, and each visited node unless s was full    *)
(* before.                                                                 *)
Ordered(s, met, n) ==
  \A a, b \in DOMAIN s : a < b =>
    \E p \in 1..n : met[p] = s[a] /\ \A q \in 1..n : met[q] = s[b] => p < q

Complete(s, met, count, n) ==
  \A p \in 1..n :
    \/ met[p] \in ToSet(s)
    \/ Len(s) = count /\ \A a \in DOMAIN s : \E q \in 1..(p - 1) : met[q] = s[a]

Walked(s, N, met, count, n) ==
  /\ s \in Seq(N) /\ Len(s) <= count
  /\ \A a \in DOMAIN s : \E p \in 1..n : met[p] = s[a]
  /\ Ordered(s, met, n)
  /\ Complete(s, met, count, n)

LEMMA OneVisit ==
  ASSUME NEW N, NEW met \in Seq(N), NEW count \in Nat, NEW n \in Nat, n < Len(met),
         NEW s, Walked(s, N, met, count, n)
  PROVE  Walked(Take(s, met[n + 1], count), N, met, count, n + 1)
<1> DEFINE x == met[n + 1]
<1>1. /\ s \in Seq(N) /\ Len(s) \in Nat /\ Len(s) <= count
      /\ DOMAIN s = 1..Len(s) /\ x \in N
  BY DEF Walked
<1>2. /\ \A a \in DOMAIN s : \E p \in 1..n : met[p] = s[a]
      /\ Ordered(s, met, n) /\ Complete(s, met, count, n)
  BY DEF Walked
<1> HIDE DEF x
<1>3. CASE Len(s) < count /\ x \notin ToSet(s)
  <2> DEFINE t == Append(s, x)
  <2>1. /\ t \in Seq(N) /\ Len(t) = Len(s) + 1 /\ DOMAIN t = 1..(Len(s) + 1)
        /\ \A a \in 1..Len(s) : t[a] = s[a]
        /\ t[Len(s) + 1] = x
    BY <1>1, AppendProperties
  <2>2. Take(s, x, count) = t
    BY <1>3 DEF Take
  <2> HIDE DEF t
  <2>3. \A p \in 1..n : met[p] \in ToSet(s)
    <3>1. Len(s) # count
      <4>1. Len(s) < count /\ Len(s) \in Nat
        BY <1>1, <1>3
      <4>2. QED
        BY <4>1
    <3>2. QED
      BY <1>2, <3>1 DEF Complete
  <2>4. ToSet(s) \subseteq ToSet(t) /\ x \in ToSet(t)
    BY <1>1, <2>1 DEF ToSet
  <2>5. \A a \in DOMAIN t : \E p \in 1..(n + 1) : met[p] = t[a]
    BY <1>1, <1>2, <2>1 DEF x
  <2>6. Complete(t, met, count, n + 1)
    BY <2>3, <2>4 DEF Complete, x
  <2>7. Ordered(t, met, n + 1)
    <3> SUFFICES ASSUME NEW a \in DOMAIN t, NEW b \in DOMAIN t, a < b
                 PROVE  \E p \in 1..(n + 1) : /\ met[p] = t[a]
                                              /\ \A q \in 1..(n + 1) : met[q] = t[b] => p < q
      BY DEF Ordered
    <3>1. CASE b \in 1..Len(s)
      <4>1. a \in DOMAIN s /\ b \in DOMAIN s /\ t[a] = s[a] /\ t[b] = s[b]
        BY <1>1, <2>1, <3>1
      <4>2. PICK p \in 1..n : met[p] = s[a] /\ \A q \in 1..n : met[q] = s[b] => p < q
        BY <1>2, <4>1 DEF Ordered
      <4>3. QED
        BY <4>1, <4>2
    <3>2. CASE b = Len(s) + 1
      <4>1. a \in DOMAIN s /\ t[a] = s[a] /\ t[b] = x
        BY <1>1, <2>1, <3>2
      <4>2. PICK p \in 1..n : met[p] = s[a]
        BY <1>2, <4>1
      <4>3. \A q \in 1..n : met[q] # x
        BY <1>3, <2>3
      <4>4. QED
        BY <4>1, <4>2, <4>3
    <3>3. QED
      BY <1>1, <2>1, <3>1, <3>2
  <2>8. QED
    BY <1>1, <1>3, <2>1, <2>2, <2>5, <2>6, <2>7 DEF Walked, x
<1>4. CASE ~(Len(s) < count /\ x \notin ToSet(s))
  <2>1. Take(s, x, count) = s
    BY <1>4 DEF Take
  <2>2. \A a \in DOMAIN s : \E p \in 1..(n + 1) : met[p] = s[a]
    BY <1>2
  <2>3. Complete(s, met, count, n + 1)
    <3> SUFFICES ASSUME NEW p \in 1..(n + 1), met[p] \notin ToSet(s)
                 PROVE  /\ Len(s) = count
                        /\ \A a \in DOMAIN s : \E q \in 1..(p - 1) : met[q] = s[a]
      BY DEF Complete
    <3>1. CASE p \in 1..n
      BY <1>2, <3>1 DEF Complete
    <3>2. CASE p = n + 1
      <4>1. met[p] = x /\ p - 1 = n
        BY <3>2 DEF x
      <4>2. Len(s) = count
        <5>1. ~(Len(s) < count) /\ Len(s) <= count /\ Len(s) \in Nat
          BY <1>1, <1>4, <4>1
        <5>2. QED
          BY <5>1
      <4>3. QED
        BY <1>2, <4>1, <4>2
    <3>3. QED
      BY <3>1, <3>2
  <2>4. Ordered(s, met, n + 1)
    <3> SUFFICES ASSUME NEW a \in DOMAIN s, NEW b \in DOMAIN s, a < b
                 PROVE  \E p \in 1..(n + 1) : /\ met[p] = s[a]
                                              /\ \A q \in 1..(n + 1) : met[q] = s[b] => p < q
      BY DEF Ordered
    <3>1. PICK p \in 1..n : met[p] = s[a] /\ \A q \in 1..n : met[q] = s[b] => p < q
      BY <1>2 DEF Ordered
    <3>2. QED
      BY <3>1
  <2>5. QED
    BY <1>1, <2>1, <2>2, <2>3, <2>4 DEF Walked, x
<1>5. QED
  BY <1>3, <1>4

LEMMA WholeWalk ==
  ASSUME NEW N, NEW met \in Seq(N), NEW count \in Nat
  PROVE  Walked(Taken(met, count)[Len(met)], N, met, count, Len(met))
<1> DEFINE f == Taken(met, count)
           S == {n \in Nat : Walked(f[n], N, met, count, n)}
<1>1. Len(met) \in Nat
  OBVIOUS
<1>2. f[0] = <<>> /\ \A i \in 1..Len(met) : f[i] = Take(f[i - 1], met[i], count)
  BY WalkSteps
<1> HIDE DEF f
<1>3. 0 \in S
  <2>1. <<>> \in Seq(N) /\ Len(<<>>) = 0 /\ DOMAIN <<>> = {}
    OBVIOUS
  <2>2. Walked(<<>>, N, met, count, 0)
    BY <2>1 DEF Walked, Ordered, Complete
  <2>3. QED
    BY <1>2, <2>2
<1>4. ASSUME NEW n \in 0..(Len(met) - 1), n \in S PROVE n + 1 \in S
  <2>1. n \in Nat /\ n < Len(met) /\ n + 1 \in 1..Len(met) /\ (n + 1) - 1 = n
    BY <1>1
  <2>2. Walked(f[n], N, met, count, n)
    BY <1>4
  <2>3. f[n + 1] = Take(f[n], met[n + 1], count)
    BY <1>2, <2>1
  <2>4. Walked(f[n + 1], N, met, count, n + 1)
    BY <2>1, <2>2, <2>3, OneVisit
  <2>5. QED
    BY <2>1, <2>4
<1>5. Len(met) \in S
  <2> HIDE DEF S
  <2>1. \A n \in 0..Len(met) : n \in S
    BY <1>1, <1>3, <1>4, UpToBound
  <2>2. QED
    BY <1>1, <2>1
<1>6. QED
  BY <1>5 DEF f

-----------------------------------------------------------------------------
(* The ring and its list of hashes.                                        *)

LEMMA SortedHashes ==
  ASSUME NEW s \in Seq(Hash)
  PROVE  /\ Sorted(s) \in Seq(Hash) /\ ToSet(Sorted(s)) = ToSet(s)
         /\ \A i, j \in DOMAIN Sorted(s) : i < j => Sorted(s)[i] <= Sorted(s)[j]
<1>1. HashSpace - 1 \in Nat /\ Hash \subseteq Nat /\ \A h \in Hash : h <= HashSpace - 1
  BY HashAssumption DEF Hash
<1>2. s \in Seq(Nat) /\ \A i \in 1..Len(s) : s[i] \in Hash /\ s[i] <= HashSpace - 1
  <2>1. s \in Seq(Nat)
    BY <1>1, SeqMonotonic
  <2>2. \A i \in 1..Len(s) : s[i] \in Hash
    OBVIOUS
  <2>3. QED
    BY <1>1, <2>1, <2>2
<1> DEFINE t == Sorted(s)
<1>3. /\ t \in Seq(Nat) /\ Len(t) = Len(s) /\ ToSet(t) = ToSet(s)
      /\ \A i, j \in 1..Len(s) : i < j => t[i] <= t[j]
  BY <1>1, <1>2, SortedValues
<1> HIDE DEF t
<1>4. DOMAIN t = 1..Len(s)
  BY <1>3
<1>5. ToSet(t) \subseteq Hash
  <2>1. DOMAIN s = 1..Len(s)
    OBVIOUS
  <2>2. ToSet(s) \subseteq Hash
    BY <1>2, <2>1 DEF ToSet
  <2>3. QED
    BY <1>3, <2>2
<1>6. t \in Seq(Hash)
  BY <1>3, <1>5 DEF ToSet
<1>7. QED
  BY <1>3, <1>4, <1>6 DEF t

LEMMA HashesOfSet ==
  ASSUME NEW S \in SUBSET Hash
  PROVE  SetToSeq(S) \in Seq(Hash) /\ ToSet(SetToSeq(S)) = S
<1>1. IsFiniteSet(Hash)
  BY HashAssumption, FS_Interval DEF Hash
<1>2. IsFiniteSet(S)
  BY <1>1, FS_Subset
<1>3. QED
  BY <1>2, SeqOfSet, SeqMonotonic

LEMMA ConcatSet ==
  ASSUME NEW N, NEW s \in Seq(N), NEW t \in Seq(N)
  PROVE  s \o t \in Seq(N) /\ ToSet(s \o t) = ToSet(s) \cup ToSet(t)
<1>1. /\ s \o t \in Seq(N) /\ Len(s \o t) = Len(s) + Len(t)
      /\ \A i \in 1..(Len(s) + Len(t)) :
           (s \o t)[i] = IF i <= Len(s) THEN s[i] ELSE t[i - Len(s)]
  BY ConcatProperties
<1> DEFINE u == s \o t
<1> HIDE DEF u
<1>2. /\ Len(s) \in Nat /\ Len(t) \in Nat
      /\ DOMAIN s = 1..Len(s) /\ DOMAIN t = 1..Len(t) /\ DOMAIN u = 1..(Len(s) + Len(t))
  BY <1>1 DEF u
<1>3. \A i \in DOMAIN u : u[i] \in ToSet(s) \cup ToSet(t)
  <2> SUFFICES ASSUME NEW i \in DOMAIN u PROVE u[i] \in ToSet(s) \cup ToSet(t)
    OBVIOUS
  <2>1. CASE i <= Len(s)
    BY <1>1, <1>2, <2>1 DEF u, ToSet
  <2>2. CASE ~(i <= Len(s))
    <3>1. i - Len(s) \in DOMAIN t /\ u[i] = t[i - Len(s)]
      BY <1>1, <1>2, <2>2 DEF u
    <3>2. QED
      BY <3>1 DEF ToSet
  <2>3. QED
    BY <2>1, <2>2
<1>4. \A i \in DOMAIN s : s[i] \in ToSet(u)
  <2> SUFFICES ASSUME NEW i \in DOMAIN s PROVE s[i] \in ToSet(u)
    OBVIOUS
  <2>1. i \in DOMAIN u /\ u[i] = s[i]
    BY <1>1, <1>2 DEF u
  <2>2. QED
    BY <2>1 DEF ToSet
<1>5. \A i \in DOMAIN t : t[i] \in ToSet(u)
  <2> SUFFICES ASSUME NEW i \in DOMAIN t PROVE t[i] \in ToSet(u)
    OBVIOUS
  <2>1. i + Len(s) \in DOMAIN u /\ u[i + Len(s)] = t[i]
    BY <1>1, <1>2 DEF u
  <2>2. QED
    BY <2>1 DEF ToSet
<1>6. QED
  BY <1>1, <1>3, <1>4, <1>5 DEF ToSet, u

LEMMA PointsOfNode ==
  ASSUME point \in Placements, NEW n \in Node
  PROVE  point[n] \in SUBSET Hash /\ point[n] # {}
BY HashAssumption

(* Without collisions a member has all its virtual nodes on the ring.      *)
MembersPlaced ==
  /\ IsFiniteSet(members)
  /\ NoCollision => \A n \in members : \A h \in point[n] : h \in DOMAIN ring /\ ring[h] = n

RingInv == RingTypeOK /\ RingConsistent /\ MembersPlaced

LEMMA RingInit == Init => RingInv
<1> SUFFICES ASSUME Init PROVE RingInv
  OBVIOUS
<1>1. <<>> \in Seq(Hash) /\ DOMAIN <<>> = {}
  OBVIOUS
<1>2. factor \in Nat \ {0}
  BY FactorAssumption DEF Init
<1>3. RingTypeOK
  BY <1>1, <1>2 DEF Init, RingTypeOK
<1>4. RingConsistent
  BY <1>1 DEF Init, RingConsistent, ToSet
<1>5. MembersPlaced
  BY FS_EmptySet DEF Init, MembersPlaced
<1>6. QED
  BY <1>3, <1>4, <1>5 DEF RingInv

LEMMA HashesAfterAdd ==
  ASSUME RingInv, NEW n \in Node, AddNode(n)
  PROVE  /\ sortedHashes' \in Seq(Hash) /\ ToSet(sortedHashes') = DOMAIN ring \cup point[n]
         /\ \A i, j \in DOMAIN sortedHashes' : i < j => sortedHashes'[i] <= sortedHashes'[j]
<1> DEFINE s == SetToSeq(point[n])
<1>1. s \in Seq(Hash) /\ ToSet(s) = point[n]
  BY PointsOfNode, HashesOfSet DEF RingInv, RingTypeOK
<1>2. sortedHashes \in Seq(Hash) /\ ToSet(sortedHashes) = DOMAIN ring
  BY DEF RingInv, RingTypeOK, RingConsistent
<1> HIDE DEF s
<1>3. sortedHashes \o s \in Seq(Hash) /\ ToSet(sortedHashes \o s) = DOMAIN ring \cup point[n]
  BY <1>1, <1>2, ConcatSet
<1>4. sortedHashes' = Sorted(sortedHashes \o s)
  BY DEF AddNode, AddedHashes, s
<1>5. QED
  BY <1>3, <1>4, SortedHashes

LEMMA HashesAfterRemove ==
  ASSUME RingInv, NEW n \in Node, RemoveNode(n)
  PROVE  /\ sortedHashes' \in Seq(Hash) /\ ToSet(sortedHashes') = DOMAIN ring \ point[n]
         /\ \A i, j \in DOMAIN sortedHashes' : i < j => sortedHashes'[i] <= sortedHashes'[j]
<1> DEFINE s == SetToSeq(DOMAIN ring \ point[n])
<1>1. s \in Seq(Hash) /\ ToSet(s) = DOMAIN ring \ point[n]
  BY HashesOfSet DEF RingInv, RingTypeOK
<1> HIDE DEF s
<1>2. sortedHashes' = Sorted(s)
  BY DEF RemoveNode, RemainingHashes, s
<1>3. QED
  BY <1>1, <1>2, SortedHashes

LEMMA RingNext ==
  ASSUME RingInv, [Next]_vars
  PROVE  RingInv'
<1> USE DEF RingInv
<1>1. ASSUME NEW n \in Node, AddNode(n) PROVE RingInv'
  <2>1. /\ members' = members \cup {n} /\ n \notin members
        /\ ring' = [h \in DOMAIN ring \cup point[n] |-> IF h \in point[n] THEN n ELSE ring[h]]
        /\ point' = point /\ factor' = factor /\ enabled' = enabled
    BY <1>1 DEF AddNode
  <2>2. point[n] \in SUBSET Hash /\ point \in Placements
    BY PointsOfNode DEF RingTypeOK
  <2>3. RingTypeOK'
    BY <1>1, <2>1, <2>2, HashesAfterAdd DEF RingTypeOK
  <2>4. RingConsistent'
    BY <1>1, <2>1, HashesAfterAdd DEF RingConsistent
  <2>5. IsFiniteSet(members')
    BY <2>1, FS_AddElement DEF MembersPlaced
  <2>6. ASSUME NoCollision, NEW m \in members', NEW h \in point[m]
        PROVE  h \in DOMAIN ring' /\ ring'[h] = m
    <3>1. CASE m = n
      BY <2>1, <2>6, <3>1
    <3>2. CASE m # n
      <4>1. m \in members /\ m \in Node /\ h \notin point[n]
        BY <2>1, <2>6, <3>2 DEF RingTypeOK, NoCollision
      <4>2. h \in DOMAIN ring /\ ring[h] = m
        BY <2>6, <4>1 DEF MembersPlaced
      <4>3. QED
        BY <2>1, <4>1, <4>2
    <3>3. QED
      BY <3>1, <3>2
  <2>7. MembersPlaced'
    BY <2>1, <2>5, <2>6 DEF MembersPlaced, NoCollision
  <2>8. QED
    BY <2>3, <2>4, <2>7
<1>2. ASSUME NEW n \in Node, RemoveNode(n) PROVE RingInv'
  <2>1. /\ members' = members \ {n}
        /\ ring' = [h \in DOMAIN ring \ point[n] |-> ring[h]]
        /\ point' = point /\ factor' = factor /\ enabled' = enabled
    BY <1>2 DEF RemoveNode
  <2>2. RingTypeOK'
    BY <1>2, <2>1, HashesAfterRemove DEF RingTypeOK
  <2>3. RingConsistent'
    BY <1>2, <2>1, HashesAfterRemove DEF RingConsistent
  <2>4. IsFiniteSet(members')
    BY <2>1, FS_RemoveElement DEF MembersPlaced
  <2>5. ASSUME NoCollision, NEW m \in members', NEW h \in point[m]
        PROVE  h \in DOMAIN ring' /\ ring'[h] = m
    BY <2>1, <2>5 DEF MembersPlaced, NoCollision, RingTypeOK
  <2>6. MembersPlaced'
    BY <2>1, <2>4, <2>5 DEF MembersPlaced, NoCollision
  <2>7. QED
    BY <2>2, <2>3, <2>6
<1>3. ASSUME NEW b \in BOOLEAN, SetEnabled(b) PROVE RingInv'
  BY <1>3 DEF SetEnabled, RingTypeOK, RingConsistent, MembersPlaced, NoCollision
<1>4. ASSUME NEW f \in Factors, SetReplicationFactor(f) PROVE RingInv'
  <2>1. factor' \in Nat \ {0}
    BY <1>4, FactorAssumption DEF SetReplicationFactor, UsableFactor
  <2>2. QED
    BY <1>4, <2>1
       DEF SetReplicationFactor, RingTypeOK, RingConsistent, MembersPlaced, NoCollision
<1>5. CASE UNCHANGED vars
  BY <1>5 DEF vars, RingTypeOK, RingConsistent, MembersPlaced, NoCollision
<1>6. QED
  BY <1>1, <1>2, <1>3, <1>4, <1>5 DEF Next

LEMMA RingInvariant == Spec => []RingInv
BY RingInit, RingNext, PTL DEF Spec

(* Every operation keeps the ring, its list of hashes, the members and the *)
(* replication factor (at least one, whatever is asked for) well typed.    *)
THEOREM RingTypeCorrect == Spec => []RingTypeOK
BY RingInvariant, PTL DEF RingInv

(* The list of hashes is the sorted list of the ring's hashes, and each    *)
(* leads to a member that has a virtual node there: a lookup never yields  *)
(* a node that was removed, also after collisions of virtual nodes.        *)
THEOREM Consistency == Spec => []RingConsistent
BY RingInvariant, PTL DEF RingInv

-----------------------------------------------------------------------------
(* Where a lookup goes.                                                    *)

(* The hash listed at the i-th position from the start, and how far it is. *)
Spot(p) == ((p - 1) % Len(sortedHashes)) + 1
HashMet(key, i) == sortedHashes[Spot(Start(key) + i - 1)]
Away(h, key) == (h + HashSpace - key) % HashSpace

LEMMA AwayValue ==
  ASSUME NEW h \in Hash, NEW key \in Hash
  PROVE  /\ Away(h, key) = IF h >= key THEN h - key ELSE h + HashSpace - key
         /\ Away(h, key) \in Nat
<1>1. /\ HashSpace \in Nat \ {0} /\ h \in 0..(HashSpace - 1) /\ key \in 0..(HashSpace - 1)
  BY HashAssumption DEF Hash
<1>2. h + HashSpace - key \in 0..(2 * HashSpace - 1)
  BY <1>1
<1> DEFINE x == h + HashSpace - key
<1> HIDE DEF x
<1>3. x % HashSpace = IF x < HashSpace THEN x ELSE x - HashSpace
  BY <1>1, <1>2, OneTurn DEF x
<1>4. Away(h, key) = IF x < HashSpace THEN x ELSE x - HashSpace
  BY <1>3 DEF Away, x
<1>5. QED
  BY <1>1, <1>4 DEF x

Listed ==
  /\ sortedHashes \in Seq(Hash) /\ Len(sortedHashes) \in Nat \ {0}
  /\ \A i \in 1..Len(sortedHashes) : sortedHashes[i] \in Nat /\ sortedHashes[i] \in DOMAIN ring
  /\ \A i, j \in 1..Len(sortedHashes) : i < j => sortedHashes[i] <= sortedHashes[j]
  /\ \A h \in DOMAIN ring : \E i \in 1..Len(sortedHashes) : sortedHashes[i] = h

LEMMA RingListed ==
  ASSUME RingInv, DOMAIN ring # {}
  PROVE  Listed
<1>1. sortedHashes \in Seq(Hash) /\ DOMAIN sortedHashes = 1..Len(sortedHashes)
      /\ Len(sortedHashes) \in Nat
  BY DEF RingInv, RingTypeOK
<1>2. ToSet(sortedHashes) = DOMAIN ring
  BY DEF RingInv, RingConsistent
<1>3. Hash \subseteq Nat
  BY HashAssumption DEF Hash
<1>4. \A i \in 1..Len(sortedHashes) : sortedHashes[i] \in Hash
  BY <1>1
<1>5. /\ \A i \in 1..Len(sortedHashes) : sortedHashes[i] \in DOMAIN ring
      /\ \A h \in DOMAIN ring : \E i \in 1..Len(sortedHashes) : sortedHashes[i] = h
  BY <1>1, <1>2 DEF ToSet
<1>6. \A i, j \in 1..Len(sortedHashes) : i < j => sortedHashes[i] <= sortedHashes[j]
  BY <1>1 DEF RingInv, RingConsistent
<1>7. Len(sortedHashes) # 0
  BY <1>1, <1>5
<1>8. QED
  BY <1>1, <1>3, <1>4, <1>5, <1>6, <1>7 DEF Listed

(* The binary search: everything before the start is below the key, and    *)
(* nothing from the start on, unless everything is below it.               *)
LEMMA StartPosition ==
  ASSUME Listed, NEW key \in Nat
  PROVE  /\ Start(key) \in 1..Len(sortedHashes)
         /\ \/ /\ \A i \in 1..(Start(key) - 1) : sortedHashes[i] < key
               /\ \A i \in Start(key)..Len(sortedHashes) : sortedHashes[i] >= key
            \/ /\ Start(key) = 1
               /\ \A i \in 1..Len(sortedHashes) : sortedHashes[i] < key
<1> DEFINE L == Len(sortedHashes)
           after == {i \in DOMAIN sortedHashes : AtOrAfter(sortedHashes[i], key)}
<1>1. /\ L \in Nat \ {0} /\ DOMAIN sortedHashes = 1..L
      /\ \A i \in 1..L : sortedHashes[i] \in Nat
      /\ \A i, j \in 1..L : i < j => sortedHashes[i] <= sortedHashes[j]
  BY DEF Listed
<1>2. after = {i \in 1..L : sortedHashes[i] >= key}
  BY <1>1 DEF AtOrAfter
<1>3. CASE after = {}
  <2>1. Start(key) = 1
    BY <1>3 DEF Start
  <2>2. QED
    BY <1>1, <1>2, <1>3, <2>1
<1>4. CASE after # {}
  <2>1. after \subseteq Nat
    BY <1>1, <1>2
  <2>2. Start(key) = CHOOSE i \in after : \A j \in after : i <= j
    BY <1>4 DEF Start
  <2> HIDE DEF after
  <2>3. Start(key) \in after /\ \A j \in after : Start(key) <= j
    BY <1>4, <2>1, <2>2, LeastNumber
  <2> DEFINE st == Start(key)
  <2> HIDE DEF st
  <2>4. st \in 1..L /\ sortedHashes[st] >= key
    BY <1>2, <2>3 DEF st
  <2>5. \A i \in 1..(st - 1) : sortedHashes[i] < key
    <3> SUFFICES ASSUME NEW i \in 1..(st - 1) PROVE sortedHashes[i] < key
      OBVIOUS
    <3>1. i \in 1..L /\ i < st
      BY <1>1, <2>4
    <3>2. i \notin after
      BY <2>3, <2>4, <3>1 DEF st
    <3>3. QED
      BY <1>1, <1>2, <3>1, <3>2
  <2>6. \A i \in st..L : sortedHashes[i] >= key
    <3> SUFFICES ASSUME NEW i \in st..L PROVE sortedHashes[i] >= key
      OBVIOUS
    <3>1. i \in 1..L /\ (i = st \/ st < i)
      BY <1>1, <2>4
    <3>2. QED
      BY <1>1, <2>4, <3>1
  <2>7. QED
    BY <2>4, <2>5, <2>6 DEF st
<1>5. QED
  BY <1>3, <1>4

Around(p) == IF p <= Len(sortedHashes) THEN p ELSE p - Len(sortedHashes)

LEMMA MetPositions ==
  ASSUME Listed, NEW key \in Nat, NEW i \in 1..Len(sortedHashes)
  PROVE  HashMet(key, i) = sortedHashes[Around(Start(key) + i - 1)]
<1> DEFINE L == Len(sortedHashes)
           p == Start(key) + i - 1
<1>1. L \in Nat \ {0}
  BY DEF Listed
<1>2. Start(key) \in 1..L
  BY StartPosition
<1> HIDE DEF L
<1>3. p \in Nat /\ p - 1 \in 0..(2 * L - 1)
  BY <1>1, <1>2 DEF L
<1>4. HashMet(key, i) = sortedHashes[Spot(p)]
  BY DEF HashMet
<1>5. Around(p) = IF p <= L THEN p ELSE p - L
  BY DEF Around, L
<1> HIDE DEF p
<1>6. (p - 1) % L = IF p - 1 < L THEN p - 1 ELSE (p - 1) - L
  BY <1>1, <1>3, OneTurn
<1>7. Spot(p) = Around(p)
  <2>1. Spot(p) = ((p - 1) % L) + 1
    BY DEF Spot, L
  <2>2. QED
    BY <1>1, <1>3, <1>5, <1>6, <2>1
<1>8. QED
  BY <1>4, <1>7 DEF p

(* The walk lists every hash of the ring, none nearer than the one before. *)
LEMMA HashesMet ==
  ASSUME Listed, DOMAIN ring \subseteq Hash, NEW key \in Hash
  PROVE  /\ \A i \in 1..Len(sortedHashes) : HashMet(key, i) \in DOMAIN ring
         /\ \A h \in DOMAIN ring : \E i \in 1..Len(sortedHashes) : HashMet(key, i) = h
         /\ \A i, j \in 1..Len(sortedHashes) :
              i < j => Away(HashMet(key, i), key) <= Away(HashMet(key, j), key)
<1> DEFINE L == Len(sortedHashes)
           st == Start(key)
           s(i) == sortedHashes[i]
           at(i) == Around(st + i - 1)
<1>1. /\ L \in Nat \ {0} /\ \A i \in 1..L : s(i) \in DOMAIN ring
      /\ \A i, j \in 1..L : i < j => s(i) <= s(j)
      /\ \A h \in DOMAIN ring : \E i \in 1..L : s(i) = h
  BY DEF Listed
<1>2. HashSpace \in Nat \ {0} /\ key \in 0..(HashSpace - 1) /\ key \in Nat
  BY HashAssumption DEF Hash
<1>3. /\ st \in 1..L
      /\ \/ (\A i \in 1..(st - 1) : s(i) < key) /\ (\A i \in st..L : s(i) >= key)
         \/ st = 1 /\ \A i \in 1..L : s(i) < key
  BY <1>2, StartPosition
<1>4. \A i \in 1..L : HashMet(key, i) = s(at(i))
  BY <1>2, MetPositions
<1>5. \A p \in Nat : Around(p) = IF p <= L THEN p ELSE p - L
  BY DEF Around
<1> HIDE DEF L, st, s
<1>6. \A i \in 1..L : at(i) = IF st + i - 1 <= L THEN st + i - 1 ELSE st + i - 1 - L
  BY <1>1, <1>3, <1>5
<1> HIDE DEF at
<1>7. \A i \in 1..L : at(i) \in 1..L
  BY <1>1, <1>3, <1>6
<1>8. \A i \in 1..L : HashMet(key, i) \in DOMAIN ring
  BY <1>1, <1>4, <1>7
<1>9. ASSUME NEW h \in DOMAIN ring PROVE \E i \in 1..L : HashMet(key, i) = h
  <2>1. PICK p \in 1..L : s(p) = h
    BY <1>1
  <2>2. CASE p >= st
    <3>1. p - st + 1 \in 1..L /\ at(p - st + 1) = p
      BY <1>1, <1>3, <1>6, <2>2
    <3>2. QED
      BY <1>4, <2>1, <3>1
  <2>3. CASE p < st
    <3>1. p - st + 1 + L \in 1..L /\ at(p - st + 1 + L) = p
      BY <1>1, <1>3, <1>6, <2>3
    <3>2. QED
      BY <1>4, <2>1, <3>1
  <2>4. QED
    BY <1>1, <1>3, <2>2, <2>3
<1>10. ASSUME NEW i \in 1..L, NEW j \in 1..L, i < j
       PROVE  Away(s(at(i)), key) <= Away(s(at(j)), key)
  <2> DEFINE g == s(at(i))
             h == s(at(j))
  <2>1. g \in Hash /\ h \in Hash
    BY <1>1, <1>7
  <2>2. g \in 0..(HashSpace - 1) /\ h \in 0..(HashSpace - 1)
    BY <2>1 DEF Hash
  <2>3. /\ Away(g, key) = IF g >= key THEN g - key ELSE g + HashSpace - key
        /\ Away(h, key) = IF h >= key THEN h - key ELSE h + HashSpace - key
    BY <2>1, AwayValue
  <2>4. (g <= h /\ (g >= key <=> h >= key)) \/ (g >= key /\ h < key)
    <3>1. CASE st = 1 /\ \A k \in 1..L : s(k) < key
      <4>1. at(i) < at(j)
        BY <1>1, <1>6, <1>10, <3>1
      <4>2. g <= h /\ g < key /\ h < key
        BY <1>1, <1>7, <3>1, <4>1
      <4>3. QED
        BY <1>2, <2>2, <4>2
    <3>2. CASE (\A k \in 1..(st - 1) : s(k) < key) /\ (\A k \in st..L : s(k) >= key)
      <4>1. \/ at(i) \in st..L /\ at(j) \in st..L /\ at(i) < at(j)
            \/ at(i) \in 1..(st - 1) /\ at(j) \in 1..(st - 1) /\ at(i) < at(j)
            \/ at(i) \in st..L /\ at(j) \in 1..(st - 1)
        BY <1>1, <1>3, <1>6, <1>10
      <4>2. \/ g >= key /\ h >= key /\ g <= h
            \/ g < key /\ h < key /\ g <= h
            \/ g >= key /\ h < key
        BY <1>1, <1>7, <3>2, <4>1
      <4>3. QED
        BY <1>2, <2>2, <4>2
    <3>3. QED
      BY <1>3, <3>1, <3>2
  <2> HIDE DEF g, h
  <2>5. Away(g, key) <= Away(h, key)
    BY <1>2, <2>2, <2>3, <2>4
  <2>6. QED
    BY <2>5 DEF g, h
<1>11. QED
  BY <1>4, <1>8, <1>9, <1>10 DEF L

-----------------------------------------------------------------------------
(* The owners of a key.                                                    *)

Wanted == IF factor > Cardinality(members) THEN Cardinality(members) ELSE factor
Owners(key) == GetNodes(key, factor)

LEMMA WantedOwners ==
  ASSUME RingInv
  PROVE  /\ Wanted \in Nat /\ Cardinality(members) \in Nat
         /\ Wanted <= factor /\ Wanted <= Cardinality(members)
         /\ members # {} => Wanted # 0
<1>1. Cardinality(members) \in Nat /\ (members # {} => Cardinality(members) # 0)
  BY FS_CardinalityType, FS_EmptySet DEF RingInv, MembersPlaced
<1>2. factor \in Nat \ {0}
  BY DEF RingInv, RingTypeOK
<1>3. QED
  BY <1>1, <1>2 DEF Wanted

LEMMA Lookup ==
  ASSUME RingInv, DOMAIN ring # {}, NEW key \in Hash
  PROVE  /\ Met(key) \in Seq(members) /\ Len(Met(key)) = Len(sortedHashes)
         /\ \A i \in 1..Len(sortedHashes) : Met(key)[i] = ring[HashMet(key, i)]
         /\ Walked(Owners(key), members, Met(key), Wanted, Len(sortedHashes))
<1> DEFINE L == Len(sortedHashes)
<1>1. Listed /\ L \in Nat
  BY RingListed DEF Listed
<1>2. \A i \in 1..L : HashMet(key, i) \in DOMAIN ring
  BY <1>1, HashesMet DEF RingInv, RingTypeOK
<1>3. \A i \in 1..L : NodeAt(Start(key) + i - 1) = ring[HashMet(key, i)]
  BY DEF NodeAt, HashMet, Spot
<1>4. \A h \in DOMAIN ring : ring[h] \in members
  BY DEF RingInv, RingConsistent
<1>5. Met(key) = [i \in 1..L |-> ring[HashMet(key, i)]]
  BY <1>3 DEF Met
<1>6. Met(key) \in [1..L -> members]
  BY <1>2, <1>4, <1>5
<1>7. Met(key) \in Seq(members) /\ Len(Met(key)) = L
  BY <1>1, <1>6
<1>8. Owners(key) = Taken(Met(key), Wanted)[L]
  BY DEF Owners, GetNodes, Wanted
<1>9. Wanted \in Nat
  BY WantedOwners
<1>10. Walked(Taken(Met(key), Wanted)[Len(Met(key))], members, Met(key), Wanted, Len(Met(key)))
  BY <1>7, <1>9, WholeWalk
<1>11. QED
  BY <1>5, <1>7, <1>8, <1>10

LEMMA SomeOwner ==
  ASSUME RingInv, DOMAIN ring # {}, NEW key \in Hash
  PROVE  Owners(key) # <<>>
<1> DEFINE s == Owners(key)
           L == Len(sortedHashes)
<1>1. Walked(s, members, Met(key), Wanted, L)
  BY Lookup
<1>2. 1 \in 1..L
  BY RingListed DEF Listed
<1>3. Wanted # 0
  BY WantedOwners DEF RingInv, RingConsistent
<1>4. Complete(s, Met(key), Wanted, L)
  BY <1>1 DEF Walked
<1> HIDE DEF s, L
<1>5. Met(key)[1] \in ToSet(s) \/ Len(s) = Wanted
  BY <1>2, <1>4 DEF Complete
<1>6. ASSUME s = <<>> PROVE FALSE
  <2>1. ToSet(s) = {} /\ Len(s) = 0
    BY <1>6 DEF ToSet
  <2>2. QED
    BY <1>3, <1>5, <2>1
<1>7. QED
  BY <1>6 DEF s

(* A Put through any node reaches every node that counts itself an owner,  *)
(* whatever happened to the ring and the factor before; partitioning on an *)
(* empty ring excepted.                                                    *)
THEOREM PutReaches == Spec => []PutReachesOwners
<1>1. RingInv => PutReachesOwners
  <2> SUFFICES ASSUME RingInv, enabled => DOMAIN ring # {},
                      NEW m \in Node, NEW key \in Hash, IsOwner(m, key), NEW n \in Node
               PROVE  m \in PutTargets(n, key)
    BY DEF PutReachesOwners, EveryPutReaches
  <2>1. CASE ~enabled
    BY <2>1 DEF PutTargets
  <2>2. CASE enabled
    <3>1. GetPartitionOwners(key) = Owners(key)
      BY <2>2 DEF GetPartitionOwners, Owners
    <3>2. Owners(key) # <<>>
      BY <2>2, SomeOwner
    <3>3. m \in ToSet(Owners(key))
      BY <3>1, <3>2 DEF IsOwner
    <3>4. QED
      BY <2>2, <3>1, <3>3 DEF PutTargets
  <2>3. QED
    BY <2>1, <2>2 DEF RingInv, RingTypeOK
<1>2. QED
  BY <1>1, RingInvariant, PTL

-----------------------------------------------------------------------------
(* The owners are the members closest to the key.                          *)

LEMMA AwayDistinct ==
  ASSUME NEW g \in Hash, NEW h \in Hash, NEW key \in Hash, Away(g, key) = Away(h, key)
  PROVE  g = h
<1>1. /\ HashSpace \in Nat \ {0} /\ g \in 0..(HashSpace - 1) /\ h \in 0..(HashSpace - 1)
      /\ key \in 0..(HashSpace - 1)
  BY HashAssumption DEF Hash
<1>2. /\ Away(g, key) = IF g >= key THEN g - key ELSE g + HashSpace - key
      /\ Away(h, key) = IF h >= key THEN h - key ELSE h + HashSpace - key
  BY AwayValue
<1>3. (IF g >= key THEN g - key ELSE g + HashSpace - key)
        = (IF h >= key THEN h - key ELSE h + HashSpace - key)
  BY <1>2
<1>4. CASE g >= key /\ h >= key
  <2>1. g - key = h - key
    BY <1>3, <1>4
  <2>2. QED
    BY <1>1, <2>1
<1>5. CASE ~(g >= key) /\ ~(h >= key)
  <2>1. g + HashSpace - key = h + HashSpace - key
    BY <1>3, <1>5
  <2>2. QED
    BY <1>1, <2>1
<1>6. CASE g >= key /\ ~(h >= key)
  <2>1. g - key = h + HashSpace - key
    BY <1>3, <1>6
  <2>2. QED
    BY <1>1, <2>1
<1>7. CASE ~(g >= key) /\ h >= key
  <2>1. g + HashSpace - key = h - key
    BY <1>3, <1>7
  <2>2. QED
    BY <1>1, <2>1
<1>8. QED
  BY <1>4, <1>5, <1>6, <1>7

LEMMA DistanceValue ==
  ASSUME point \in Placements, NEW m \in Node, NEW key \in Hash
  PROVE  /\ Distance(m, key) \in Nat
         /\ \E h \in point[m] : Away(h, key) = Distance(m, key)
         /\ \A h \in point[m] : Distance(m, key) <= Away(h, key)
<1> DEFINE D == {Away(h, key) : h \in point[m]}
<1>1. Distance(m, key) = CHOOSE x \in D : \A y \in D : x <= y
  BY DEF Distance, Away
<1>2. D \subseteq Nat /\ D # {}
  BY PointsOfNode, AwayValue
<1> HIDE DEF D
<1>3. Distance(m, key) \in D /\ \A y \in D : Distance(m, key) <= y
  BY <1>1, <1>2, LeastNumber
<1>4. QED
  BY <1>2, <1>3 DEF D

Distances(key) == [m \in Node |-> Distance(m, key)]

LEMMA DistancesDiffer ==
  ASSUME point \in Placements, NoCollision, NEW key \in Hash
  PROVE  /\ Distances(key) \in [Node -> Nat]
         /\ \A m, n \in Node : Distances(key)[m] = Distances(key)[n] => m = n
<1>1. Distances(key) \in [Node -> Nat]
  BY DistanceValue DEF Distances
<1>2. ASSUME NEW m \in Node, NEW n \in Node, Distance(m, key) = Distance(n, key)
      PROVE  m = n
  <2>1. PICK g \in point[m] : Away(g, key) = Distance(m, key)
    BY DistanceValue
  <2>2. PICK h \in point[n] : Away(h, key) = Distance(n, key)
    BY DistanceValue
  <2>3. g \in Hash /\ h \in Hash
    BY PointsOfNode
  <2>4. g = h
    BY <1>2, <2>1, <2>2, <2>3, AwayDistinct
  <2>5. QED
    BY <2>1, <2>2, <2>4 DEF NoCollision
<1>3. QED
  BY <1>1, <1>2 DEF Distances

(* s lists members of M by ascending distance, and those nearer than any   *)
(* that it does not list.                                                  *)
Ascending(s, d) == \A i, j \in DOMAIN s : i < j => d[s[i]] < d[s[j]]
Nearest(s, M, d) == \A i \in DOMAIN s, m \in M \ ToSet(s) : d[s[i]] < d[m]
Closest(s, M, d) == s \in Seq(M) /\ Ascending(s, d) /\ Nearest(s, M, d)

(* A member is met at its distance, and not before.                        *)
LEMMA MemberMet ==
  ASSUME RingInv, NoCollision, DOMAIN ring # {}, NEW key \in Hash, NEW m \in members
  PROVE  /\ \E p \in 1..Len(sortedHashes) :
              Met(key)[p] = m /\ Away(HashMet(key, p), key) = Distances(key)[m]
         /\ \A p \in 1..Len(sortedHashes) :
              Met(key)[p] = m => Distances(key)[m] <= Away(HashMet(key, p), key)
<1> DEFINE L == Len(sortedHashes)
<1>1. Listed /\ DOMAIN ring \subseteq Hash
  BY RingListed DEF RingInv, RingTypeOK
<1>2. /\ \A p \in 1..L : HashMet(key, p) \in DOMAIN ring
      /\ \A h \in DOMAIN ring : \E p \in 1..L : HashMet(key, p) = h
  BY <1>1, HashesMet
<1>3. \A p \in 1..L : Met(key)[p] = ring[HashMet(key, p)]
  BY Lookup
<1>4. m \in Node /\ point \in Placements /\ Distances(key)[m] = Distance(m, key)
  BY DEF RingInv, RingTypeOK, Distances
<1>5. PICK h \in point[m] : Away(h, key) = Distance(m, key)
  BY <1>4, DistanceValue
<1>6. h \in DOMAIN ring /\ ring[h] = m
  BY DEF RingInv, MembersPlaced
<1>7. \E p \in 1..L : Met(key)[p] = m /\ Away(HashMet(key, p), key) = Distances(key)[m]
  BY <1>2, <1>3, <1>4, <1>5, <1>6
<1>8. ASSUME NEW p \in 1..L, Met(key)[p] = m
      PROVE  Distances(key)[m] <= Away(HashMet(key, p), key)
  <2>1. HashMet(key, p) \in point[m]
    BY <1>2, <1>3, <1>8 DEF RingInv, RingConsistent
  <2>2. QED
    BY <1>4, <2>1, DistanceValue
<1>9. QED
  BY <1>7, <1>8

(* Of two members, the one met first is the nearer.                        *)
LEMMA MetFirst ==
  ASSUME RingInv, NoCollision, DOMAIN ring # {}, NEW key \in Hash,
         NEW m \in members, NEW n \in members, m # n,
         NEW p \in 1..Len(sortedHashes), Met(key)[p] = m,
         \A q \in 1..Len(sortedHashes) : Met(key)[q] = n => p < q
  PROVE  Distances(key)[m] < Distances(key)[n]
<1> DEFINE L == Len(sortedHashes)
           d == Distances(key)
           away(i) == Away(HashMet(key, i), key)
<1>1. m \in Node /\ n \in Node /\ point \in Placements
  BY DEF RingInv, RingTypeOK
<1>2. d[m] \in Nat /\ d[n] \in Nat /\ d[m] # d[n]
  BY <1>1, DistancesDiffer
<1>3. PICK q \in 1..L : Met(key)[q] = n /\ away(q) = d[n]
  BY MemberMet
<1>4. p < q
  BY <1>3
<1>5. Listed /\ DOMAIN ring \subseteq Hash
  BY RingListed DEF RingInv, RingTypeOK
<1>6. away(p) <= away(q)
  BY <1>4, <1>5, HashesMet
<1>7. d[m] <= away(p)
  BY MemberMet
<1>8. away(p) \in Nat
  BY <1>5, HashesMet, AwayValue
<1> HIDE DEF d, away
<1>9. d[m] < d[n]
  BY <1>2, <1>3, <1>6, <1>7, <1>8
<1>10. QED
  BY <1>9 DEF d

(* A list without repetitions is no longer than the set it lists from, and *)
(* a list of a whole set no shorter.                                       *)
LEMMA ListLength ==
  ASSUME NEW M, IsFiniteSet(M), NEW s \in Seq(M)
  PROVE  /\ M \subseteq ToSet(s) => Cardinality(M) <= Len(s)
         /\ (\A i, j \in DOMAIN s : s[i] = s[j] => i = j) => Len(s) <= Cardinality(M)
<1>1. Len(s) \in Nat /\ DOMAIN s = 1..Len(s) /\ s \in [1..Len(s) -> M]
  OBVIOUS
<1>2. IsFiniteSet(1..Len(s)) /\ Cardinality(1..Len(s)) = Len(s)
  BY <1>1, FS_Interval
<1>3. ASSUME M \subseteq ToSet(s) PROVE Cardinality(M) <= Len(s)
  <2>1. s \in Surjection(1..Len(s), M)
    BY <1>1, <1>3 DEF Surjection, ToSet
  <2>2. QED
    BY <1>2, <2>1, FS_Surjection
<1>4. ASSUME \A i, j \in DOMAIN s : s[i] = s[j] => i = j PROVE Len(s) <= Cardinality(M)
  <2>1. s \in Injection(1..Len(s), M)
    BY <1>1, <1>4 DEF Injection, IsInjective
  <2>2. QED
    BY <1>2, <2>1, FS_Injection
<1>5. QED
  BY <1>3, <1>4

(* Without collisions the owners are the members closest to the key, the   *)
(* closest first, as many as wanted.                                       *)
OwnersListed ==
  NoCollision =>
    \A key \in Hash : /\ Closest(Owners(key), members, Distances(key))
                      /\ Len(Owners(key)) = Wanted

LEMMA OwnersOfRing ==
  ASSUME RingInv, NoCollision, DOMAIN ring # {}, NEW key \in Hash
  PROVE  Closest(Owners(key), members, Distances(key)) /\ Len(Owners(key)) = Wanted
<1> DEFINE L == Len(sortedHashes)
           s == Owners(key)
           d == Distances(key)
           met == Met(key)
<1>1. /\ met \in Seq(members) /\ Len(met) = L
      /\ Walked(s, members, met, Wanted, L)
  BY Lookup
<1>2. /\ s \in Seq(members) /\ Len(s) <= Wanted
      /\ Ordered(s, met, L) /\ Complete(s, met, Wanted, L)
  BY <1>1 DEF Walked
<1>3. /\ Len(s) \in Nat /\ DOMAIN s = 1..Len(s) /\ \A i \in DOMAIN s : s[i] \in members
  BY <1>2
<1>4. L \in Nat
  BY RingListed DEF Listed
<1>5. ASSUME NEW m \in members, NEW n \in members, m # n,
             NEW p \in 1..L, met[p] = m, \A q \in 1..L : met[q] = n => p < q
      PROVE  d[m] < d[n]
  BY <1>5, MetFirst
<1>6. \A m \in members : \E p \in 1..L : met[p] = m
  BY MemberMet
<1>7. \A m, n \in members : d[m] = d[n] => m = n
  BY DistancesDiffer DEF RingInv, RingTypeOK
<1> HIDE DEF s, d, met, L
<1>8. \A i, j \in DOMAIN s : i < j => s[i] # s[j]
  <2> SUFFICES ASSUME NEW i \in DOMAIN s, NEW j \in DOMAIN s, i < j, s[i] = s[j]
               PROVE  FALSE
    OBVIOUS
  <2>1. PICK p \in 1..L : met[p] = s[i] /\ \A q \in 1..L : met[q] = s[j] => p < q
    BY <1>2 DEF Ordered
  <2>2. p < p
    BY <2>1
  <2>3. QED
    BY <1>4, <2>2
<1>9. Ascending(s, d)
  <2> SUFFICES ASSUME NEW i \in DOMAIN s, NEW j \in DOMAIN s, i < j
               PROVE  d[s[i]] < d[s[j]]
    BY DEF Ascending
  <2>1. PICK p \in 1..L : met[p] = s[i] /\ \A q \in 1..L : met[q] = s[j] => p < q
    BY <1>2 DEF Ordered
  <2>2. s[i] \in members /\ s[j] \in members /\ s[i] # s[j]
    BY <1>3, <1>8
  <2>3. QED
    BY <1>5, <2>1, <2>2
<1>10. Nearest(s, members, d)
  <2> SUFFICES ASSUME NEW i \in DOMAIN s, NEW m \in members \ ToSet(s)
               PROVE  d[s[i]] < d[m]
    BY DEF Nearest
  <2>1. \A q \in 1..L : met[q] = m => \E p \in 1..(q - 1) : met[p] = s[i]
    BY <1>2 DEF Complete
  <2> DEFINE Visits == {p \in 1..L : met[p] = s[i]}
  <2>2. PICK p \in Visits : \A q \in Visits : p <= q
    <3>1. Visits # {} /\ Visits \subseteq Nat
      BY <1>3, <1>6
    <3> HIDE DEF Visits
    <3>2. QED
      BY <3>1, LeastNumber
  <2>3. \A q \in 1..L : met[q] = m => p < q
    <3> SUFFICES ASSUME NEW q \in 1..L, met[q] = m PROVE p < q
      OBVIOUS
    <3>1. PICK r \in 1..(q - 1) : met[r] = s[i]
      BY <2>1
    <3>2. r \in Visits /\ r < q
      BY <1>4, <3>1
    <3>3. p <= r /\ p \in Nat /\ r \in Nat /\ q \in Nat
      BY <2>2, <3>2
    <3>4. QED
      BY <3>2, <3>3
  <2>4. s[i] \in members /\ s[i] # m
    BY <1>3 DEF ToSet
  <2>5. QED
    BY <1>5, <2>2, <2>3, <2>4
<1>11. Len(s) = Wanted
  <2> SUFFICES ASSUME Len(s) # Wanted PROVE FALSE
    OBVIOUS
  <2>1. members \subseteq ToSet(s)
    BY <1>2, <1>6 DEF Complete
  <2>2. Cardinality(members) <= Len(s)
    BY <1>2, <2>1, ListLength DEF RingInv, MembersPlaced
  <2>3. Wanted \in Nat /\ Cardinality(members) \in Nat /\ Wanted <= Cardinality(members)
    BY WantedOwners
  <2>4. Len(s) <= Wanted /\ Len(s) \in Nat
    BY <1>2, <1>3
  <2>5. QED
    BY <2>2, <2>3, <2>4
<1>12. QED
  BY <1>2, <1>9, <1>10, <1>11 DEF Closest, s, d

LEMMA RingOwners == RingInv => OwnersListed
<1> SUFFICES ASSUME RingInv, NoCollision, NEW key \in Hash
             PROVE  Closest(Owners(key), members, Distances(key)) /\ Len(Owners(key)) = Wanted
  BY DEF OwnersListed
<1>1. CASE DOMAIN ring = {}
  <2>1. members = {}
    BY <1>1, PointsOfNode DEF RingInv, RingTypeOK, MembersPlaced
  <2>2. Owners(key) = <<>> /\ <<>> \in Seq(members) /\ DOMAIN <<>> = {} /\ Len(<<>>) = 0
    BY <1>1 DEF Owners, GetNodes
  <2>3. Wanted = 0
    <3>1. Wanted \in Nat /\ Cardinality(members) \in Nat /\ Wanted <= Cardinality(members)
      BY WantedOwners
    <3>2. Cardinality(members) = 0
      BY <2>1, FS_EmptySet
    <3>3. QED
      BY <3>1, <3>2
  <2>4. QED
    BY <2>2, <2>3 DEF Closest, Ascending, Nearest
<1>2. CASE DOMAIN ring # {}
  BY <1>2, OwnersOfRing
<1>3. QED
  BY <1>1, <1>2

(* Without collisions of virtual nodes the owners of a key are the members *)
(* closest to it clockwise, the closest first, as many as the factor asks  *)
(* for and the ring has: whatever order the nodes were added in.           *)
THEOREM OwnersClosest == Spec => []OwnersAreClosest
<1>1. RingInv => OwnersAreClosest
  <2> SUFFICES ASSUME RingInv, NoCollision, NEW key \in Hash
               PROVE  LET s == GetNodes(key, factor) IN
                        /\ Len(s) = IF factor > Cardinality(members)
                                    THEN Cardinality(members) ELSE factor
                        /\ \A i, j \in DOMAIN s :
                             i < j => Distance(s[i], key) < Distance(s[j], key)
                        /\ \A i \in DOMAIN s, m \in members \ ToSet(s) :
                             Distance(s[i], key) < Distance(m, key)
    BY DEF OwnersAreClosest
  <2> DEFINE s == GetNodes(key, factor)
             d == Distances(key)
  <2>1. Closest(s, members, d) /\ Len(s) = Wanted
    BY RingOwners DEF OwnersListed, Owners
  <2> HIDE DEF s
  <2>2. members \subseteq Node /\ \A i \in DOMAIN s : s[i] \in members
    BY <2>1 DEF RingInv, RingTypeOK, Closest
  <2>3. \A m \in members : d[m] = Distance(m, key)
    BY <2>2 DEF Distances
  <2> HIDE DEF d
  <2>4. \A i, j \in DOMAIN s : i < j => Distance(s[i], key) < Distance(s[j], key)
    BY <2>1, <2>2, <2>3 DEF Closest, Ascending
  <2>5. \A i \in DOMAIN s, m \in members \ ToSet(s) : Distance(s[i], key) < Distance(m, key)
    BY <2>1, <2>2, <2>3 DEF Closest, Nearest
  <2>6. QED
    BY <2>1, <2>4, <2>5 DEF Wanted, s
<1>2. QED
  BY <1>1, RingInvariant, PTL

-----------------------------------------------------------------------------
(* When a node joins or leaves.                                            *)

(* Of two lists of the closest members of M, the shorter begins the other. *)
LEMMA ClosestAgree ==
  ASSUME NEW M, NEW d, \A m \in M : d[m] \in Nat,
         \A m, n \in M : d[m] = d[n] => m = n,
         NEW s, Closest(s, M, d), NEW t, Closest(t, M, d), Len(s) <= Len(t)
  PROVE  \A i \in 1..Len(s) : s[i] = t[i]
<1>1. /\ s \in Seq(M) /\ Len(s) \in Nat /\ DOMAIN s = 1..Len(s)
      /\ t \in Seq(M) /\ Len(t) \in Nat /\ DOMAIN t = 1..Len(t)
      /\ \A i \in 1..Len(s) : s[i] \in M /\ i \in 1..Len(t)
      /\ \A i \in 1..Len(t) : t[i] \in M
  BY DEF Closest
<1>2. /\ Ascending(s, d) /\ Nearest(s, M, d) /\ Ascending(t, d) /\ Nearest(t, M, d)
  BY DEF Closest
<1> DEFINE Differ == {i \in 1..Len(s) : s[i] # t[i]}
<1> SUFFICES ASSUME Differ # {} PROVE FALSE
  OBVIOUS
<1>3. PICK i \in Differ : \A j \in Differ : i <= j
  <2>1. Differ \subseteq Nat
    BY <1>1
  <2> HIDE DEF Differ
  <2>2. QED
    BY <2>1, LeastNumber
<1>4. /\ i \in 1..Len(s) /\ i \in 1..Len(t) /\ s[i] # t[i] /\ s[i] \in M /\ t[i] \in M
      /\ \A j \in 1..Len(s) : j < i => s[j] = t[j]
  <2>1. i \in 1..Len(s) /\ s[i] # t[i]
    OBVIOUS
  <2>2. \A j \in 1..Len(s) : j < i => j \notin Differ
    BY <1>1, <1>3, <2>1
  <2>3. QED
    BY <1>1, <2>1, <2>2
<1> HIDE DEF Differ
<1>5. d[s[i]] \in Nat /\ d[t[i]] \in Nat /\ d[s[i]] # d[t[i]]
  BY <1>4
<1>6. ASSUME d[s[i]] < d[t[i]] PROVE FALSE
  <2>1. s[i] \in ToSet(t)
    <3>1. s[i] \notin ToSet(t) => d[t[i]] < d[s[i]]
      BY <1>1, <1>2, <1>4 DEF Nearest
    <3>2. QED
      BY <1>5, <1>6, <3>1
  <2>2. PICK k \in 1..Len(t) : t[k] = s[i]
    BY <1>1, <2>1 DEF ToSet
  <2>3. k < i
    <3>1. i < k => d[t[i]] < d[t[k]]
      BY <1>1, <1>2, <1>4 DEF Ascending
    <3>2. k # i
      BY <1>4, <2>2
    <3>3. ~(i < k)
      BY <1>5, <1>6, <2>2, <3>1
    <3>4. QED
      BY <1>1, <1>4, <3>2, <3>3
  <2>4. k \in 1..Len(s) /\ s[k] = t[k]
    BY <1>1, <1>4, <2>3
  <2>5. d[s[k]] < d[s[i]]
    BY <1>1, <1>2, <1>4, <2>3, <2>4 DEF Ascending
  <2>6. QED
    BY <1>5, <2>2, <2>4, <2>5
<1>7. ASSUME d[t[i]] < d[s[i]] PROVE FALSE
  <2>1. t[i] \in ToSet(s)
    <3>1. t[i] \notin ToSet(s) => d[s[i]] < d[t[i]]
      BY <1>1, <1>2, <1>4 DEF Nearest
    <3>2. QED
      BY <1>5, <1>7, <3>1
  <2>2. PICK k \in 1..Len(s) : s[k] = t[i]
    BY <1>1, <2>1 DEF ToSet
  <2>3. k < i
    <3>1. i < k => d[s[i]] < d[s[k]]
      BY <1>1, <1>2, <1>4 DEF Ascending
    <3>2. k # i
      BY <1>4, <2>2
    <3>3. ~(i < k)
      BY <1>5, <1>7, <2>2, <3>1
    <3>4. QED
      BY <1>1, <1>4, <3>2, <3>3
  <2>4. k \in 1..Len(t) /\ s[k] = t[k]
    BY <1>1, <1>4, <2>3
  <2>5. d[t[k]] < d[t[i]]
    BY <1>1, <1>2, <1>4, <2>3, <2>4 DEF Ascending
  <2>6. QED
    BY <1>5, <2>2, <2>4, <2>5
<1>8. QED
  BY <1>5, <1>6, <1>7

LEMMA RemovedAt ==
  ASSUME NEW M, NEW s \in Seq(M), NEW k \in 1..Len(s)
  PROVE  /\ RemoveAt(s, k) \in Seq(M) /\ Len(RemoveAt(s, k)) = Len(s) - 1
         /\ \A i \in 1..(Len(s) - 1) : RemoveAt(s, k)[i] = s[IF i < k THEN i ELSE i + 1]
<1> DEFINE a == SubSeq(s, 1, k - 1)
           b == SubSeq(s, k + 1, Len(s))
<1>1. Len(s) \in Nat /\ k \in Int /\ \A i \in 1..Len(s) : s[i] \in M
  OBVIOUS
<1>2. /\ a \in Seq(M) /\ Len(a) = k - 1
      /\ \A i \in 1..(k - 1) : a[i] = s[i]
  <2>1. \A i \in 1..(k - 1) : s[i] \in M
    BY <1>1
  <2>2. /\ a \in Seq(M)
        /\ Len(a) = IF 1 <= k - 1 THEN (k - 1) - 1 + 1 ELSE 0
        /\ \A i \in 1..((k - 1) - 1 + 1) : a[i] = s[1 + i - 1]
    BY <2>1, SubSeqProperties
  <2> HIDE DEF a
  <2>3. Len(a) = k - 1
    BY <2>2
  <2>4. \A i \in 1..(k - 1) : a[i] = s[i]
    BY <2>2
  <2>5. QED
    BY <2>2, <2>3, <2>4
<1>3. /\ b \in Seq(M) /\ Len(b) = Len(s) - k
      /\ \A i \in 1..(Len(s) - k) : b[i] = s[k + i]
  <2>1. \A i \in (k + 1)..Len(s) : s[i] \in M
    BY <1>1
  <2>2. /\ b \in Seq(M)
        /\ Len(b) = IF k + 1 <= Len(s) THEN Len(s) - (k + 1) + 1 ELSE 0
        /\ \A i \in 1..(Len(s) - (k + 1) + 1) : b[i] = s[(k + 1) + i - 1]
    BY <1>1, <2>1, SubSeqProperties
  <2> HIDE DEF b
  <2>3. Len(b) = Len(s) - k
    BY <1>1, <2>2
  <2>4. \A i \in 1..(Len(s) - k) : b[i] = s[k + i]
    BY <1>1, <2>2
  <2>5. QED
    BY <2>2, <2>3, <2>4
<1> HIDE DEF a, b
<1>4. /\ a \o b \in Seq(M) /\ Len(a \o b) = Len(a) + Len(b)
      /\ \A i \in 1..(Len(a) + Len(b)) :
           (a \o b)[i] = IF i <= Len(a) THEN a[i] ELSE b[i - Len(a)]
  BY <1>2, <1>3, ConcatProperties
<1>5. RemoveAt(s, k) = a \o b
  BY DEF RemoveAt, a, b
<1> DEFINE u == a \o b
<1> HIDE DEF u
<1>6. Len(u) = Len(s) - 1
  BY <1>1, <1>2, <1>3, <1>4 DEF u
<1>7. ASSUME NEW i \in 1..(Len(s) - 1)
      PROVE  u[i] = s[IF i < k THEN i ELSE i + 1]
  <2>1. i \in 1..(Len(a) + Len(b))
    BY <1>1, <1>2, <1>3
  <2>2. u[i] = IF i <= Len(a) THEN a[i] ELSE b[i - Len(a)]
    BY <1>4, <2>1 DEF u
  <2>3. CASE i < k
    <3>1. i <= Len(a) /\ i \in 1..(k - 1)
      BY <1>2, <2>3
    <3>2. QED
      BY <1>2, <2>2, <2>3, <3>1
  <2>4. CASE ~(i < k)
    <3>1. ~(i <= Len(a)) /\ i - Len(a) \in 1..(Len(s) - k) /\ k + (i - Len(a)) = i + 1
      BY <1>1, <1>2, <2>4
    <3>2. b[i - Len(a)] = s[i + 1]
      BY <1>3, <3>1
    <3>3. QED
      BY <2>2, <2>4, <3>1, <3>2
  <2>5. QED
    BY <2>3, <2>4
<1>8. QED
  BY <1>4, <1>5, <1>6, <1>7 DEF u

LEMMA PrefixByPosition ==
  ASSUME NEW M, NEW s \in Seq(M), NEW t \in Seq(M), Len(s) <= Len(t),
         \A i \in 1..Len(s) : s[i] = t[i]
  PROVE  IsPrefix(s, t)
<1> DEFINE a == SubSeq(s, 1, Len(s))
           b == SubSeq(t, 1, Len(s))
<1>1. Len(s) \in Nat /\ Len(t) \in Nat
  OBVIOUS
<1>2. \A i \in 1..Len(s) : s[i] \in M /\ t[i] \in M
  OBVIOUS
<1>3. /\ a \in Seq(M) /\ Len(a) = IF 1 <= Len(s) THEN Len(s) - 1 + 1 ELSE 0
      /\ \A i \in 1..(Len(s) - 1 + 1) : a[i] = s[1 + i - 1]
  BY <1>1, <1>2, SubSeqProperties
<1>4. /\ b \in Seq(M) /\ Len(b) = IF 1 <= Len(s) THEN Len(s) - 1 + 1 ELSE 0
      /\ \A i \in 1..(Len(s) - 1 + 1) : b[i] = t[1 + i - 1]
  BY <1>1, <1>2, SubSeqProperties
<1> HIDE DEF a, b
<1>5. Len(a) = Len(b) /\ \A i \in 1..Len(a) : a[i] = b[i]
  <2>1. Len(a) = Len(s) /\ Len(b) = Len(s)
    BY <1>1, <1>3, <1>4
  <2>2. \A i \in 1..Len(s) : a[i] = s[i] /\ b[i] = t[i]
    BY <1>1, <1>3, <1>4
  <2>3. QED
    BY <2>1, <2>2
<1>6. a = b
  BY <1>3, <1>4, <1>5, SeqEqual
<1>7. QED
  BY <1>6 DEF IsPrefix, a, b

(* Any list of the wanted length that has the closest members in order is  *)
(* the one GetNodes returns.                                               *)
OwnersDetermined ==
  NoCollision =>
    \A key \in Hash, s \in Seq(members) :
      /\ Len(s) = IF factor > Cardinality(members) THEN Cardinality(members) ELSE factor
      /\ \A i, j \in DOMAIN s : i < j => Distance(s[i], key) < Distance(s[j], key)
      /\ \A i \in DOMAIN s, m \in members \ ToSet(s) : Distance(s[i], key) < Distance(m, key)
      => s = GetNodes(key, factor)

(* The owners depend on nothing but the members, their virtual nodes and   *)
(* the factor: nodes whose rings were filled in different orders agree on  *)
(* the owners of every key.                                                *)
THEOREM OwnersAgreed == Spec => []OwnersDetermined
<1>1. RingInv => OwnersDetermined
  <2> SUFFICES ASSUME RingInv, NoCollision, NEW key \in Hash, NEW s \in Seq(members),
                      Len(s) = IF factor > Cardinality(members)
                               THEN Cardinality(members) ELSE factor,
                      \A i, j \in DOMAIN s : i < j => Distance(s[i], key) < Distance(s[j], key),
                      \A i \in DOMAIN s, m \in members \ ToSet(s) :
                        Distance(s[i], key) < Distance(m, key)
               PROVE  s = GetNodes(key, factor)
    BY DEF OwnersDetermined
  <2> DEFINE d == Distances(key)
             t == Owners(key)
  <2>1. Closest(t, members, d) /\ Len(t) = Wanted
    BY RingOwners DEF OwnersListed
  <2>2. members \subseteq Node /\ point \in Placements
    BY DEF RingInv, RingTypeOK
  <2>3. \A m \in members : d[m] = Distance(m, key) /\ d[m] \in Nat
    BY <2>2, DistancesDiffer DEF Distances
  <2>4. \A m, n \in members : d[m] = d[n] => m = n
    BY <2>2, DistancesDiffer
  <2>5. \A i \in DOMAIN s : s[i] \in members
    OBVIOUS
  <2> HIDE DEF d, t
  <2>6. Closest(s, members, d)
    <3>1. Ascending(s, d)
      BY <2>3, <2>5 DEF Ascending
    <3>2. Nearest(s, members, d)
      BY <2>3, <2>5 DEF Nearest
    <3>3. QED
      BY <3>1, <3>2 DEF Closest
  <2>7. Len(s) = Len(t) /\ t \in Seq(members) /\ Len(s) \in Nat
    BY <2>1 DEF Wanted, Closest
  <2>8. \A i \in 1..Len(s) : s[i] = t[i]
    BY <2>1, <2>3, <2>4, <2>6, <2>7, ClosestAgree
  <2>9. s = t
    BY <2>7, <2>8, SeqEqual
  <2>10. QED
    BY <2>9 DEF t, Owners
<1>2. QED
  BY <1>1, RingInvariant, PTL

(* Without one of the members, the others are still the closest in order.  *)
LEMMA OthersClosest ==
  ASSUME NEW M, NEW n, n \notin M, NEW d, \A m \in M \cup {n} : d[m] \in Nat,
         NEW t, Closest(t, M \cup {n}, d)
  PROVE  /\ Closest(Others(t, n), M, d)
         /\ Len(Others(t, n)) <= Len(t)
<1> DEFINE N == M \cup {n}
           u == Others(t, n)
<1>1. /\ t \in Seq(N) /\ Len(t) \in Nat /\ DOMAIN t = 1..Len(t)
      /\ \A i \in 1..Len(t) : t[i] \in N
  BY DEF Closest
<1>2. Ascending(t, d) /\ Nearest(t, N, d)
  BY DEF Closest
<1>3. CASE n \notin ToSet(t)
  <2>1. u = t
    BY <1>3 DEF Others
  <2>2. \A i \in 1..Len(t) : t[i] \in M
    BY <1>1, <1>3 DEF ToSet
  <2>3. t \in Seq(M)
    BY <1>1, <2>2
  <2>4. Nearest(t, M, d)
    BY <1>2 DEF Nearest
  <2>5. Len(u) <= Len(t)
    BY <1>1, <2>1
  <2>6. QED
    BY <1>2, <2>1, <2>3, <2>4, <2>5 DEF Closest
<1>4. CASE n \in ToSet(t)
  <2> DEFINE k == CHOOSE i \in DOMAIN t : t[i] = n
  <2>1. k \in 1..Len(t) /\ t[k] = n
    BY <1>1, <1>4 DEF ToSet
  <2>2. u = RemoveAt(t, k)
    BY <1>4 DEF Others
  <2> HIDE DEF k, u, N
  <2> DEFINE was(i) == IF i < k THEN i ELSE i + 1
  <2>3. u \in Seq(N) /\ Len(u) = Len(t) - 1
    BY <1>1, <2>1, <2>2, RemovedAt
  <2>4. \A i \in 1..(Len(t) - 1) : u[i] = t[was(i)]
    BY <1>1, <2>1, <2>2, RemovedAt
  <2>5. DOMAIN u = 1..(Len(t) - 1) /\ Len(u) \in Nat
    BY <1>1, <2>1, <2>3
  <2>6. \A i, j \in 1..Len(t) : t[i] = t[j] => i = j
    <3> SUFFICES ASSUME NEW i \in 1..Len(t), NEW j \in 1..Len(t), t[i] = t[j], i < j
                 PROVE  FALSE
      BY <1>1
    <3>1. d[t[i]] < d[t[j]]
      BY <1>1, <1>2 DEF Ascending
    <3>2. d[t[i]] \in Nat
      BY <1>1 DEF N
    <3>3. QED
      BY <3>1, <3>2
  <2>7. \A i \in 1..(Len(t) - 1) : was(i) \in 1..Len(t) /\ was(i) # k
    BY <1>1, <2>1
  <2>8. \A i, j \in 1..(Len(t) - 1) : i < j => was(i) < was(j)
    BY <1>1, <2>1
  <2> HIDE DEF was
  <2>9. \A i \in 1..(Len(t) - 1) : u[i] \in M
    <3> SUFFICES ASSUME NEW i \in 1..(Len(t) - 1) PROVE u[i] \in M
      OBVIOUS
    <3>1. u[i] = t[was(i)] /\ was(i) \in 1..Len(t) /\ was(i) # k
      BY <2>4, <2>7
    <3>2. t[was(i)] # n
      BY <2>1, <2>6, <3>1
    <3>3. QED
      BY <1>1, <3>1, <3>2 DEF N
  <2>10. u \in Seq(M)
    BY <2>3, <2>5, <2>9
  <2>11. Ascending(u, d)
    <3> SUFFICES ASSUME NEW i \in 1..(Len(t) - 1), NEW j \in 1..(Len(t) - 1), i < j
                 PROVE  d[u[i]] < d[u[j]]
      BY <2>5 DEF Ascending
    <3>1. u[i] = t[was(i)] /\ u[j] = t[was(j)] /\ was(i) < was(j)
      BY <2>4, <2>8
    <3>2. was(i) \in DOMAIN t /\ was(j) \in DOMAIN t
      BY <1>1, <2>7
    <3>3. d[t[was(i)]] < d[t[was(j)]]
      BY <1>2, <3>1, <3>2 DEF Ascending
    <3>4. QED
      BY <3>1, <3>3
  <2>12. ToSet(t) \subseteq ToSet(u) \cup {n}
    <3> SUFFICES ASSUME NEW i \in 1..Len(t), t[i] # n PROVE t[i] \in ToSet(u)
      BY <1>1 DEF ToSet
    <3>1. i # k
      BY <2>1
    <3>2. CASE i < k
      <4>1. i \in 1..(Len(t) - 1) /\ was(i) = i
        BY <1>1, <2>1, <3>2 DEF was
      <4>2. QED
        BY <2>4, <2>5, <4>1 DEF ToSet
    <3>3. CASE i > k
      <4>1. i - 1 \in 1..(Len(t) - 1) /\ was(i - 1) = i
        BY <1>1, <2>1, <3>3 DEF was
      <4>2. u[i - 1] = t[i]
        BY <2>4, <4>1
      <4>3. QED
        BY <2>5, <4>1, <4>2 DEF ToSet
    <3>4. QED
      BY <2>1, <3>1, <3>2, <3>3
  <2>13. Nearest(u, M, d)
    <3> SUFFICES ASSUME NEW i \in 1..(Len(t) - 1), NEW m \in M \ ToSet(u)
                 PROVE  d[u[i]] < d[m]
      BY <2>5 DEF Nearest
    <3>1. m \in N \ ToSet(t)
      BY <2>12 DEF N
    <3>2. u[i] = t[was(i)] /\ was(i) \in DOMAIN t
      BY <1>1, <2>4, <2>7
    <3>3. QED
      BY <1>2, <3>1, <3>2 DEF Nearest
  <2>14. Len(u) <= Len(t)
    BY <1>1, <2>3
  <2>15. QED
    BY <2>10, <2>11, <2>13, <2>14 DEF Closest, u
<1>5. QED
  BY <1>3, <1>4

(* A node more among the members displaces at most the last of the list.   *)
LEMMA JoinedPrefix ==
  ASSUME NEW M, IsFiniteSet(M), NEW n, n \notin M, NEW f \in Nat,
         NEW d, \A m \in M \cup {n} : d[m] \in Nat,
         \A m, k \in M \cup {n} : d[m] = d[k] => m = k,
         NEW s, Closest(s, M, d),
         Len(s) = IF f > Cardinality(M) THEN Cardinality(M) ELSE f,
         NEW t, Closest(t, M \cup {n}, d),
         Len(t) = IF f > Cardinality(M \cup {n}) THEN Cardinality(M \cup {n}) ELSE f
  PROVE  IsPrefix(Others(t, n), s)
<1> DEFINE u == Others(t, n)
           c == Cardinality(M)
<1> HIDE DEF u, c
<1>1. Closest(u, M, d) /\ Len(u) <= Len(t)
  <2>1. Closest(Others(t, n), M, d)
    BY OthersClosest, Zenon
  <2>2. Len(Others(t, n)) <= Len(t)
    BY OthersClosest, Zenon
  <2>3. QED
    BY <2>1, <2>2 DEF u
<1> USE DEF c
<1>2. c \in Nat /\ Cardinality(M \cup {n}) = c + 1
  BY FS_CardinalityType, FS_AddElement
<1>3. u \in Seq(M) /\ s \in Seq(M) /\ t \in Seq(M \cup {n})
  BY <1>1 DEF Closest
<1>4. Len(u) \in Nat /\ Len(s) \in Nat /\ Len(t) \in Nat
  BY <1>3
<1>5. Len(u) <= c
  <2>1. ASSUME NEW i \in DOMAIN u, NEW j \in DOMAIN u, u[i] = u[j] PROVE i = j
    <3>1. i \in Nat /\ j \in Nat /\ u[i] \in M
      BY <1>3
    <3>2. d[u[i]] \in Nat
      BY <3>1
    <3>3. ~(i < j) /\ ~(j < i)
      <4>1. i < j => d[u[i]] < d[u[j]]
        BY <1>1 DEF Closest, Ascending
      <4>2. j < i => d[u[j]] < d[u[i]]
        BY <1>1 DEF Closest, Ascending
      <4>3. d[u[j]] = d[u[i]]
        BY <2>1
      <4>4. QED
        BY <3>2, <4>1, <4>2, <4>3
    <3>4. QED
      BY <3>1, <3>3
  <2>2. QED
    BY <1>3, <2>1, ListLength
<1> HIDE DEF c
<1>6. Len(s) = (IF f > c THEN c ELSE f) /\ Len(t) = (IF f > c + 1 THEN c + 1 ELSE f)
  BY <1>2 DEF c
<1>7. Len(u) <= Len(s)
  <2>1. Len(u) <= Len(t)
    BY <1>1
  <2>2. QED
    BY <1>2, <1>4, <1>5, <1>6, <2>1
<1>8. \A m, k \in M : d[m] = d[k] => m = k
  OBVIOUS
<1>9. \A i \in 1..Len(u) : u[i] = s[i]
  BY <1>1, <1>7, <1>8, ClosestAgree
<1>10. QED
  BY <1>3, <1>7, <1>9, PrefixByPosition DEF u

(* A node that joins or leaves while no virtual nodes collide changes the  *)
(* owners of a key by its own place only: the others keep their order, and *)
(* at most the last is displaced, or one moves up at the end.              *)
THEOREM OwnersStay == Spec => OwnersStable
<1>1. RingInv => OwnersListed
  BY RingOwners
<1>2. ASSUME RingInv, RingInv', OwnersListed, OwnersListed', [Next]_vars
      PROVE  [members' # members => KeepsOwners]_vars
  <2> SUFFICES ASSUME members' # members, NoCollision, NEW key \in Hash
               PROVE  /\ \A n \in members' \ members :
                           IsPrefix(Others(GetNodes(key, factor)', n), GetNodes(key, factor))
                      /\ \A n \in members \ members' :
                           IsPrefix(Others(GetNodes(key, factor), n), GetNodes(key, factor)')
    BY DEF KeepsOwners
  <2> DEFINE s == Owners(key)
             d == Distances(key)
  <2>1. /\ point' = point /\ factor' = factor
        /\ \E n \in Node : (n \notin members /\ members' = members \cup {n})
                            \/ (n \in members /\ members' = members \ {n})
    BY <1>2 DEF Next, vars, AddNode, RemoveNode, SetEnabled, SetReplicationFactor
  <2>2. NoCollision' /\ d' = d
    BY <2>1 DEF NoCollision, Distances, Distance
  <2>3. /\ Closest(s, members, d)
        /\ Len(s) = IF factor > Cardinality(members) THEN Cardinality(members) ELSE factor
    BY <1>2 DEF OwnersListed, Wanted
  <2>4. /\ Closest(s', members', d)
        /\ Len(s') = IF factor > Cardinality(members') THEN Cardinality(members') ELSE factor
    BY <1>2, <2>1, <2>2 DEF OwnersListed, Wanted
  <2>5. /\ members \subseteq Node /\ members' \subseteq Node /\ factor \in Nat
        /\ IsFiniteSet(members) /\ IsFiniteSet(members') /\ point \in Placements
    BY <1>2 DEF RingInv, RingTypeOK, MembersPlaced
  <2>6. /\ \A m \in Node : d[m] \in Nat
        /\ \A m, n \in Node : d[m] = d[n] => m = n
    BY <2>5, DistancesDiffer
  <2>7. s = GetNodes(key, factor) /\ s' = GetNodes(key, factor)'
    BY DEF Owners
  <2> HIDE DEF s, d
  <2>8. PICK after : after = s'
    OBVIOUS
  <2>9. PICK there : there = members'
    OBVIOUS
  <2>10. ASSUME NEW n \in members' \ members PROVE IsPrefix(Others(after, n), s)
    <3>1. n \notin members /\ n \in Node /\ there = members \cup {n}
      BY <2>1, <2>5, <2>9, <2>10
    <3>2. /\ Closest(after, members \cup {n}, d)
          /\ Len(after) = IF factor > Cardinality(members \cup {n})
                          THEN Cardinality(members \cup {n}) ELSE factor
      BY <2>4, <2>8, <2>9, <3>1
    <3>3. members \cup {n} \subseteq Node
      BY <2>5, <3>1
    <3>4. QED
      BY <2>3, <2>5, <2>6, <3>1, <3>2, <3>3, JoinedPrefix
  <2>11. ASSUME NEW n \in members \ members' PROVE IsPrefix(Others(s, n), after)
    <3>1. n \notin there /\ n \in Node /\ members = there \cup {n}
      BY <2>1, <2>5, <2>9, <2>11
    <3>2. /\ Closest(s, there \cup {n}, d)
          /\ Len(s) = IF factor > Cardinality(there \cup {n})
                      THEN Cardinality(there \cup {n}) ELSE factor
      BY <2>3, <3>1
    <3>3. /\ Closest(after, there, d)
          /\ Len(after) = IF factor > Cardinality(there) THEN Cardinality(there) ELSE factor
      BY <2>4, <2>8, <2>9
    <3>4. there \cup {n} \subseteq Node /\ IsFiniteSet(there)
      BY <2>5, <2>9, <3>1
    <3>5. QED
      BY <2>5, <2>6, <3>1, <3>2, <3>3, <3>4, JoinedPrefix
  <2>12. QED
    BY <2>7, <2>8, <2>10, <2>11
<1>3. QED
  BY <1>1, <1>2, RingInvariant, PTL DEF Spec, OwnersStable
=============================================================================
