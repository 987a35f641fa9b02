--------------------------- MODULE FiltersProofs ---------------------------
(***************************************************************************)
(* What OnlyIn returns, for every sequence, by induction over its length.  *)
(* The induction theorems of the library have an operator as parameter;    *)
(* here induction is over a set: a set of numbers that has zero and the    *)
(* successor of each of its members is all of Nat.                         *)
(***************************************************************************)
EXTENDS Filters, SequenceTheorems, WellFoundedInduction, TLAPS

(***************************************************************************)
(* Induction over numbers and sequences.                                   *)
(***************************************************************************)

\* Every set of numbers has a least one.
LEMMA LeastNat ==
    ASSUME NEW T, T \subseteq Nat, T # {}
    PROVE  \E n \in T : \A m \in T : n <= m
<1> DEFINE R == OpToRel(<, Nat)
<1>1. IsWellFoundedOn(R, Nat)
  BY NatLessThanWellFounded
<1>2. \A m, n \in Nat : m < n => <<m, n>> \in R
  BY DEF OpToRel
<1> HIDE DEF R
<1>3. PICK n \in T : \A m \in T : <<m, n>> \notin R
  BY <1>1, WFMin, Zenon
<1>4. ASSUME NEW m \in T PROVE n <= m
  <2>1. n \in Nat /\ m \in Nat
    OBVIOUS
  <2>2. ~(m < n)
    BY <1>2, <1>3, <2>1
  <2>3. QED
    BY <2>1, <2>2
<1>5. QED
  BY <1>4

\* Induction over the numbers.
LEMMA NatInductionSet ==
    ASSUME NEW T \in SUBSET Nat, 0 \in T, \A n \in T : n + 1 \in T
    PROVE  T = Nat
<1> SUFFICES ASSUME T # Nat PROVE FALSE
  OBVIOUS
<1> DEFINE U == Nat \ T
<1>1. U \subseteq Nat /\ U # {}
  OBVIOUS
<1> HIDE DEF U
<1>2. PICK n \in U : \A m \in U : n <= m
  BY <1>1, LeastNat
<1>3. n \in Nat /\ n \notin T
  BY DEF U
<1>4. n # 0
  BY <1>3
<1>5. n - 1 \in Nat
  BY <1>3, <1>4
<1>6. n - 1 \in T
  <2> SUFFICES ASSUME n - 1 \notin T PROVE FALSE
    OBVIOUS
  <2>1. n - 1 \in U
    BY <1>5 DEF U
  <2>2. n <= n - 1
    BY <1>2, <2>1
  <2>3. QED
    BY <1>3, <2>2
<1>7. (n - 1) + 1 \in T
  BY <1>6
<1>8. QED
  BY <1>3, <1>7

\* Induction over the sequences: a set with the empty one that is closed under
\* Append has them all.
LEMMA SeqInductionSet ==
    ASSUME NEW S, NEW T \in SUBSET Seq(S), <<>> \in T,
           \A s \in T, e \in S : Append(s, e) \in T
    PROVE  T = Seq(S)
<1> DEFINE N == {n \in Nat : \A s \in Seq(S) : Len(s) = n => s \in T}
<1>1. 0 \in N
  <2>1. \A s \in Seq(S) : Len(s) = 0 => s = <<>>
    BY EmptySeq
  <2>2. QED
    BY <2>1
<1>2. ASSUME NEW n \in N PROVE n + 1 \in N
  <2> SUFFICES ASSUME NEW s \in Seq(S), Len(s) = n + 1 PROVE s \in T
    BY DEF N
  <2>1. n \in Nat /\ s # <<>>
    <3>1. n \in Nat
      BY DEF N
    <3>2. QED
      BY <3>1, EmptySeq
  <2>2. PICK r \in Seq(S), e \in S : s = Append(r, e)
    BY <2>1, SequenceEmptyOrAppend
  <2>3. Len(s) = Len(r) + 1 /\ Len(r) \in Nat
    BY <2>2, AppendProperties, LenProperties
  <2>4. Len(r) = n
    BY <2>1, <2>3
  <2>5. r \in T
    BY <2>4 DEF N
  <2>6. QED
    BY <2>2, <2>5
<1>3. N = Nat
  <2> HIDE DEF N
  <2>1. N \in SUBSET Nat
    BY DEF N
  <2>2. QED
    BY <1>1, <1>2, <2>1, NatInductionSet
<1>4. ASSUME NEW s \in Seq(S) PROVE s \in T
  <2>1. Len(s) \in N
    BY <1>3, LenProperties
  <2>2. QED
    BY <2>1
<1>5. QED
  BY <1>4

(***************************************************************************)
(* OnlyIn.                                                                 *)
(***************************************************************************)

\* The functions that satisfy the recursion of OnlyIn.
IsKept(f, s, K) ==
    f = [i \in 0..Len(s) |->
           IF i = 0 THEN <<>>
           ELSE IF s[i] \in K THEN Append(f[i - 1], s[i]) ELSE f[i - 1]]

\* What follows of the recursion.
LEMMA IsKeptFacts ==
    ASSUME NEW S, NEW s \in Seq(S), NEW K, NEW f, IsKept(f, s, K)
    PROVE  /\ f[0] = <<>>
           /\ \A i \in 1..Len(s) :
                f[i] = IF s[i] \in K THEN Append(f[i - 1], s[i]) ELSE f[i - 1]
<1>1. Len(s) \in Nat
  OBVIOUS
<1>2. f[0] = <<>>
  BY <1>1 DEF IsKept
<1>3. ASSUME NEW i \in 1..Len(s)
      PROVE  f[i] = IF s[i] \in K THEN Append(f[i - 1], s[i]) ELSE f[i - 1]
  <2>1. i \in 0..Len(s) /\ i # 0
    BY <1>1
  <2>2. QED
    BY <2>1 DEF IsKept
<1>4. QED
  BY <1>2, <1>3

\* There is one such function for the empty sequence.
LEMMA KeptOfEmpty == ASSUME NEW K PROVE IsKept([i \in 0..0 |-> <<>>], <<>>, K)
<1>1. Len(<<>>) = 0
  OBVIOUS
<1>2. QED
  BY <1>1 DEF IsKept

\* And one for a sequence with one more element.
LEMMA KeptOfAppend ==
    ASSUME NEW S, NEW s \in Seq(S), NEW e \in S, NEW K, NEW f, IsKept(f, s, K)
    PROVE  \E g : IsKept(g, Append(s, e), K)
<1> DEFINE n == Len(s)
           t == Append(s, e)
           g == [i \in 0..(n + 1) |->
                   IF i <= n THEN f[i]
                   ELSE IF e \in K THEN Append(f[n], e) ELSE f[n]]
<1>1. /\ n \in Nat /\ Len(t) = n + 1 /\ t[n + 1] = e
      /\ \A i \in 1..n : t[i] = s[i]
  BY AppendProperties, LenProperties
<1>2. /\ f[0] = <<>>
      /\ \A i \in 1..n : f[i] = IF s[i] \in K THEN Append(f[i - 1], s[i]) ELSE f[i - 1]
  BY IsKeptFacts
<1> HIDE DEF n, t
<1>3. \A i \in 0..n : g[i] = f[i]
  BY <1>1
<1>4. g[n + 1] = IF e \in K THEN Append(f[n], e) ELSE f[n]
  BY <1>1
<1> DEFINE h == [i \in 0..Len(t) |->
                   IF i = 0 THEN <<>>
                   ELSE IF t[i] \in K THEN Append(g[i - 1], t[i]) ELSE g[i - 1]]
<1>5. DOMAIN g = 0..(n + 1) /\ DOMAIN h = 0..(n + 1)
  BY <1>1
<1>6. ASSUME NEW i \in 0..(n + 1) PROVE g[i] = h[i]
  <2>0. i \in 0..Len(t) /\ h[i] = IF i = 0 THEN <<>>
                 ELSE IF t[i] \in K THEN Append(g[i - 1], t[i]) ELSE g[i - 1]
    BY <1>1
  <2> HIDE DEF g, h
  <2>1. CASE i = 0
    BY <1>1, <1>2, <1>3, <2>0, <2>1
  <2>2. CASE i \in 1..n
    <3>1. i \in 0..n /\ i - 1 \in 0..n /\ i # 0
      BY <1>1, <2>2
    <3>2. g[i] = f[i] /\ g[i - 1] = f[i - 1] /\ t[i] = s[i]
      BY <1>1, <1>3, <2>2, <3>1
    <3>3. QED
      BY <1>2, <2>0, <2>2, <3>1, <3>2
  <2>3. CASE i = n + 1
    <3>1. i # 0 /\ i - 1 = n /\ n \in 0..n
      BY <1>1, <2>3
    <3>2. g[i - 1] = f[n] /\ t[i] = e
      BY <1>1, <1>3, <2>3, <3>1
    <3>3. QED
      BY <1>4, <2>0, <2>3, <3>1, <3>2
  <2>4. QED
    BY <1>1, <2>1, <2>2, <2>3
<1>7. g = h
  BY <1>5, <1>6
<1>8. IsKept(g, t, K)
  BY <1>7 DEF IsKept
<1>9. QED
  BY <1>8 DEF t

\* So there is one for every sequence.
LEMMA KeptExists ==
    ASSUME NEW S, NEW s \in Seq(S), NEW K
    PROVE  \E f : IsKept(f, s, K)
<1> DEFINE T == {r \in Seq(S) : \E f : IsKept(f, r, K)}
<1>1. <<>> \in T
  BY KeptOfEmpty, EmptySeq
<1>2. \A r \in T, e \in S : Append(r, e) \in T
  BY KeptOfAppend, AppendProperties
<1>3. T = Seq(S)
  <2> HIDE DEF T
  <2>1. T \in SUBSET Seq(S)
    BY DEF T
  <2>2. QED
    BY <1>1, <1>2, <2>1, SeqInductionSet
<1>4. QED
  BY <1>3

\* It is determined by the sequence: two sequences that begin alike have
\* functions that begin alike.
LEMMA KeptIsUnique ==
    ASSUME NEW S, NEW s \in Seq(S), NEW t \in Seq(S), NEW n \in Nat,
           n <= Len(s), n <= Len(t), \A i \in 1..n : s[i] = t[i],
           NEW K, NEW f, NEW g, IsKept(f, s, K), IsKept(g, t, K)
    PROVE  f[n] = g[n]
<1> DEFINE T == {i \in Nat : i <= n => f[i] = g[i]}
<1>1. /\ f[0] = <<>>
      /\ \A i \in 1..Len(s) : f[i] = IF s[i] \in K THEN Append(f[i - 1], s[i]) ELSE f[i - 1]
  BY IsKeptFacts
<1>2. /\ g[0] = <<>>
      /\ \A i \in 1..Len(t) : g[i] = IF t[i] \in K THEN Append(g[i - 1], t[i]) ELSE g[i - 1]
  BY IsKeptFacts
<1>3. 0 \in T
  BY <1>1, <1>2
<1>4. ASSUME NEW i \in T PROVE i + 1 \in T
  <2> SUFFICES ASSUME i + 1 <= n PROVE f[i + 1] = g[i + 1]
    OBVIOUS
  <2>1. i \in Nat /\ f[i] = g[i]
    OBVIOUS
  <2>2. /\ i + 1 \in 1..Len(s) /\ i + 1 \in 1..Len(t) /\ i + 1 \in 1..n /\ (i + 1) - 1 = i
        /\ s[i + 1] = t[i + 1]
    BY <2>1, LenProperties
  <2>3. QED
    BY <1>1, <1>2, <2>1, <2>2
<1>5. T = Nat
  <2> HIDE DEF T
  <2>1. T \in SUBSET Nat
    BY DEF T
  <2>2. QED
    BY <1>3, <1>4, <2>1, NatInductionSet
<1>6. QED
  BY <1>5

\* OnlyIn is the last value of it.
LEMMA OnlyInIsKept ==
    ASSUME NEW S, NEW s \in Seq(S), NEW K
    PROVE  \E f : IsKept(f, s, K) /\ OnlyIn(s, K) = f[Len(s)]
<1> DEFINE f == CHOOSE f : IsKept(f, s, K)
<1>1. IsKept(f, s, K)
  BY KeptExists
<1>2. OnlyIn(s, K) = f[Len(s)]
  BY DEF OnlyIn, IsKept
<1>3. QED
  BY <1>1, <1>2

\* Nothing of nothing.
LEMMA OnlyInEmpty == ASSUME NEW K PROVE OnlyIn(<<>>, K) = <<>>
<1>1. <<>> \in Seq({}) /\ Len(<<>>) = 0
  OBVIOUS
<1>2. PICK f : IsKept(f, <<>>, K) /\ OnlyIn(<<>>, K) = f[0]
  BY <1>1, OnlyInIsKept
<1>3. f = [i \in 0..0 |->
             IF i = 0 THEN <<>>
             ELSE IF <<>>[i] \in K THEN Append(f[i - 1], <<>>[i]) ELSE f[i - 1]]
  BY <1>1, <1>2 DEF IsKept
<1>4. f[0] = <<>>
  BY <1>3
<1>5. QED
  BY <1>2, <1>4

\* An element at the end is kept there, or left out.
LEMMA OnlyInAppend ==
    ASSUME NEW S, NEW s \in Seq(S), NEW e \in S, NEW K
    PROVE  OnlyIn(Append(s, e), K)
             = IF e \in K THEN Append(OnlyIn(s, K), e) ELSE OnlyIn(s, K)
<1> DEFINE t == Append(s, e)
<1>1. /\ t \in Seq(S) /\ Len(t) = Len(s) + 1 /\ Len(s) \in Nat
      /\ \A i \in 1..Len(s) : t[i] = s[i]
      /\ t[Len(s) + 1] = e
  BY AppendProperties, LenProperties
<1>2. PICK f : IsKept(f, s, K) /\ OnlyIn(s, K) = f[Len(s)]
  BY OnlyInIsKept
<1> HIDE DEF t
<1>3. PICK g : IsKept(g, t, K) /\ OnlyIn(t, K) = g[Len(t)]
  BY <1>1, OnlyInIsKept
<1>4. f[Len(s)] = g[Len(s)]
  BY <1>1, <1>2, <1>3, KeptIsUnique
<1>5. \A i \in 1..Len(t) : g[i] = IF t[i] \in K THEN Append(g[i - 1], t[i]) ELSE g[i - 1]
  BY <1>1, <1>3, IsKeptFacts
<1>6. Len(t) \in 1..Len(t) /\ Len(t) - 1 = Len(s)
  BY <1>1
<1>7. OnlyIn(t, K) = IF e \in K THEN Append(g[Len(s)], e) ELSE g[Len(s)]
  BY <1>1, <1>3, <1>5, <1>6
<1>8. QED
  BY <1>2, <1>4, <1>7 DEF t

\* What is kept is a sequence of the same kind, of elements of the set, and no
\* longer.
LEMMA OnlyInType ==
    ASSUME NEW S, NEW s \in Seq(S), NEW K
    PROVE  /\ OnlyIn(s, K) \in Seq(S) /\ OnlyIn(s, K) \in Seq(S \cap K)
           /\ Len(OnlyIn(s, K)) <= Len(s)
<1> DEFINE T == {r \in Seq(S) : OnlyIn(r, K) \in Seq(S \cap K) /\ Len(OnlyIn(r, K)) <= Len(r)}
<1>1. <<>> \in T
  <2>1. <<>> \in Seq(S) /\ <<>> \in Seq(S \cap K) /\ Len(<<>>) <= Len(<<>>)
    BY EmptySeq
  <2>2. OnlyIn(<<>>, K) = <<>>
    BY OnlyInEmpty
  <2>3. OnlyIn(<<>>, K) \in Seq(S \cap K) /\ Len(OnlyIn(<<>>, K)) <= Len(<<>>)
    BY <2>1, <2>2, Zenon
  <2>4. QED
    BY <2>1, <2>3
<1>2. ASSUME NEW r \in T, NEW e \in S PROVE Append(r, e) \in T
  <2>1. /\ r \in Seq(S) /\ OnlyIn(r, K) \in Seq(S \cap K) /\ Len(OnlyIn(r, K)) <= Len(r)
        /\ Len(r) \in Nat /\ Len(OnlyIn(r, K)) \in Nat
    BY LenProperties
  <2>2. Append(r, e) \in Seq(S) /\ Len(Append(r, e)) = Len(r) + 1
    BY <2>1, AppendProperties
  <2>3. CASE e \in K
    <3>1. OnlyIn(Append(r, e), K) = Append(OnlyIn(r, K), e)
      BY <2>1, <2>3, OnlyInAppend
    <3>2. /\ Append(OnlyIn(r, K), e) \in Seq(S \cap K)
          /\ Len(Append(OnlyIn(r, K), e)) = Len(OnlyIn(r, K)) + 1
      BY <2>1, <2>3, AppendProperties
    <3>3. QED
      BY <2>1, <2>2, <3>1, <3>2
  <2>4. CASE e \notin K
    <3>1. OnlyIn(Append(r, e), K) = OnlyIn(r, K)
      BY <2>1, <2>4, OnlyInAppend
    <3>2. QED
      BY <2>1, <2>2, <3>1
  <2>5. QED
    BY <2>3, <2>4
<1>3. T = Seq(S)
  <2> HIDE DEF T
  <2>1. T \in SUBSET Seq(S)
    BY DEF T
  <2>2. QED
    BY <1>1, <1>2, <2>1, SeqInductionSet
<1>4. OnlyIn(s, K) \in Seq(S \cap K) /\ Len(OnlyIn(s, K)) <= Len(s)
  BY <1>3
<1>5. S \cap K \subseteq S
  OBVIOUS
<1>6. QED
  BY <1>4, <1>5, SeqMonotonic

\* The elements of what is kept are those of the sequence that are in the set.
LEMMA OnlyInElements ==
    ASSUME NEW S, NEW s \in Seq(S), NEW K, NEW x
    PROVE  (\E i \in 1..Len(OnlyIn(s, K)) : OnlyIn(s, K)[i] = x)
             <=> x \in K /\ \E i \in 1..Len(s) : s[i] = x
<1> DEFINE T == {r \in Seq(S) :
                   (\E i \in 1..Len(OnlyIn(r, K)) : OnlyIn(r, K)[i] = x)
                     <=> x \in K /\ \E i \in 1..Len(r) : r[i] = x}
<1>0. ASSUME NEW r \in Seq(S), NEW e \in S
      PROVE  (\E i \in 1..Len(Append(r, e)) : Append(r, e)[i] = x)
               <=> x = e \/ \E i \in 1..Len(r) : r[i] = x
  <2> DEFINE t == Append(r, e)
  <2>1. /\ Len(t) = Len(r) + 1 /\ Len(r) \in Nat
        /\ \A i \in 1..Len(r) : t[i] = r[i]
        /\ t[Len(r) + 1] = e
    BY AppendProperties, LenProperties
  <2> HIDE DEF t
  <2>2. \A i \in 1..Len(t) : i \in 1..Len(r) \/ i = Len(r) + 1
    BY <2>1
  <2>3. Len(r) + 1 \in 1..Len(t) /\ \A i \in 1..Len(r) : i \in 1..Len(t)
    BY <2>1
  <2>4. (\E i \in 1..Len(t) : t[i] = x) <=> x = e \/ \E i \in 1..Len(r) : r[i] = x
    BY <2>1, <2>2, <2>3
  <2>5. QED
    BY <2>4 DEF t
<1>1. <<>> \in T
  <2>1. <<>> \in Seq(S) /\ Len(<<>>) = 0 /\ 1..0 = {}
    BY EmptySeq
  <2>2. ~(\E i \in 1..Len(<<>>) : <<>>[i] = x)
    BY <2>1
  <2>3. OnlyIn(<<>>, K) = <<>>
    BY OnlyInEmpty
  <2>4. ~(\E i \in 1..Len(OnlyIn(<<>>, K)) : OnlyIn(<<>>, K)[i] = x)
    BY <2>2, <2>3
  <2>5. QED
    BY <2>1, <2>2, <2>4
<1>2. ASSUME NEW r \in T, NEW e \in S PROVE Append(r, e) \in T
  <2> DEFINE k == OnlyIn(r, K)
  <2>1. /\ r \in Seq(S) /\ Append(r, e) \in Seq(S) /\ k \in Seq(S)
        /\ (\E i \in 1..Len(k) : k[i] = x) <=> x \in K /\ \E i \in 1..Len(r) : r[i] = x
    BY OnlyInType, AppendProperties
  <2>2. OnlyIn(Append(r, e), K) = IF e \in K THEN Append(k, e) ELSE k
    BY <2>1, OnlyInAppend
  <2> HIDE DEF k
  <2>3. (\E i \in 1..Len(Append(k, e)) : Append(k, e)[i] = x)
          <=> x = e \/ \E i \in 1..Len(k) : k[i] = x
    BY <1>0, <2>1
  <2>4. (\E i \in 1..Len(Append(r, e)) : Append(r, e)[i] = x)
          <=> x = e \/ \E i \in 1..Len(r) : r[i] = x
    BY <1>0, <2>1
  <2>5. (\E i \in 1..Len(OnlyIn(Append(r, e), K)) : OnlyIn(Append(r, e), K)[i] = x)
          <=> x \in K /\ \E i \in 1..Len(Append(r, e)) : Append(r, e)[i] = x
    <3>1. CASE e \in K
      BY <2>1, <2>2, <2>3, <2>4, <3>1
    <3>2. CASE e \notin K
      BY <2>1, <2>2, <2>4, <3>2
    <3>3. QED
      BY <3>1, <3>2
  <2>6. QED
    BY <2>1, <2>5
<1>3. T = Seq(S)
  <2> HIDE DEF T
  <2>1. T \in SUBSET Seq(S)
    BY DEF T
  <2>2. QED
    BY <1>1, <1>2, <2>1, SeqInductionSet
<1>4. QED
  BY <1>3

\* Nothing is kept twice that was not there twice.
LEMMA OnlyInDistinct ==
    ASSUME NEW S, NEW s \in Seq(S), NEW K,
           \A i, j \in 1..Len(s) : s[i] = s[j] => i = j
    PROVE  \A i, j \in 1..Len(OnlyIn(s, K)) : OnlyIn(s, K)[i] = OnlyIn(s, K)[j] => i = j
<1> DEFINE Distinct(r) == \A i, j \in 1..Len(r) : r[i] = r[j] => i = j
           T == {r \in Seq(S) : Distinct(r) => Distinct(OnlyIn(r, K))}
<1>0. ASSUME NEW r \in Seq(S), NEW e \in S
      PROVE  Distinct(Append(r, e)) <=> Distinct(r) /\ \A i \in 1..Len(r) : r[i] # e
  <2> DEFINE t == Append(r, e)
  <2>1. /\ Len(t) = Len(r) + 1 /\ Len(r) \in Nat
        /\ \A i \in 1..Len(r) : t[i] = r[i]
        /\ t[Len(r) + 1] = e
    BY AppendProperties, LenProperties
  <2> HIDE DEF t
  <2>2. \A i \in 1..Len(t) : i \in 1..Len(r) \/ i = Len(r) + 1
    BY <2>1
  <2>3. /\ Len(r) + 1 \in 1..Len(t) /\ Len(r) + 1 \notin 1..Len(r)
        /\ \A i \in 1..Len(r) : i \in 1..Len(t)
    BY <2>1
  <2>4. ASSUME Distinct(t) PROVE Distinct(r) /\ \A i \in 1..Len(r) : r[i] # e
    BY <2>1, <2>3, <2>4
  <2>5. ASSUME Distinct(r), \A i \in 1..Len(r) : r[i] # e PROVE Distinct(t)
    BY <2>1, <2>2, <2>5
  <2>6. QED
    BY <2>4, <2>5 DEF t
<1>1. <<>> \in T
  <2>1. <<>> \in Seq(S) /\ Distinct(<<>>)
    BY EmptySeq
  <2>2. OnlyIn(<<>>, K) = <<>>
    BY OnlyInEmpty
  <2>3. Distinct(OnlyIn(<<>>, K))
    BY <2>1, <2>2, Zenon
  <2>4. QED
    BY <2>1, <2>3
<1>2. ASSUME NEW r \in T, NEW e \in S PROVE Append(r, e) \in T
  <2>1. /\ r \in Seq(S) /\ Append(r, e) \in Seq(S) /\ OnlyIn(r, K) \in Seq(S)
        /\ Distinct(r) => Distinct(OnlyIn(r, K))
    BY OnlyInType, AppendProperties
  <2> SUFFICES ASSUME Distinct(Append(r, e)) PROVE Distinct(OnlyIn(Append(r, e), K))
    BY <2>1
  <2>2. Distinct(r) /\ \A i \in 1..Len(r) : r[i] # e
    BY <1>0, <2>1
  <2>3. Distinct(OnlyIn(r, K))
    BY <2>1, <2>2
  <2>4. \A i \in 1..Len(OnlyIn(r, K)) : OnlyIn(r, K)[i] # e
    <3>1. (\E i \in 1..Len(OnlyIn(r, K)) : OnlyIn(r, K)[i] = e)
            <=> e \in K /\ \E i \in 1..Len(r) : r[i] = e
      BY <2>1, OnlyInElements
    <3>2. QED
      BY <2>2, <3>1
  <2>5. Distinct(Append(OnlyIn(r, K), e))
    <3> HIDE DEF Distinct
    <3>1. QED
      BY <1>0, <2>1, <2>3, <2>4
  <2>6. OnlyIn(Append(r, e), K) = Append(OnlyIn(r, K), e)
          \/ OnlyIn(Append(r, e), K) = OnlyIn(r, K)
    BY <2>1, OnlyInAppend
  <2>7. QED
    <3> HIDE DEF Distinct
    <3>1. QED
      BY <2>3, <2>5, <2>6
<1>3. T = Seq(S)
  <2> HIDE DEF T
  <2>1. T \in SUBSET Seq(S)
    BY DEF T
  <2>2. QED
    BY <1>1, <1>2, <2>1, SeqInductionSet
<1>4. QED
  BY <1>3

\* An element is put at the end of a whole by putting it at the end of its
\* last part.
LEMMA AppendToConcat ==
    ASSUME NEW S, NEW r \in Seq(S), NEW s \in Seq(S), NEW e \in S
    PROVE  r \o Append(s, e) = Append(r \o s, e)
<1>1. <<e>> \in Seq(S) /\ r \o s \in Seq(S)
  BY ConcatProperties
<1>2. Append(s, e) = s \o <<e>> /\ Append(r \o s, e) = (r \o s) \o <<e>>
  BY <1>1, AppendIsConcat
<1>3. (r \o s) \o <<e>> = r \o (s \o <<e>>)
  BY <1>1, ConcatAssociative
<1>4. QED
  BY <1>2, <1>3

\* The parts of a sequence can be filtered one by one.
LEMMA OnlyInConcat ==
    ASSUME NEW S, NEW r \in Seq(S), NEW s \in Seq(S), NEW K
    PROVE  OnlyIn(r \o s, K) = OnlyIn(r, K) \o OnlyIn(s, K)
<1> DEFINE k == OnlyIn(r, K)
           T == {t \in Seq(S) : OnlyIn(r \o t, K) = k \o OnlyIn(t, K)}
<1>0. k \in Seq(S)
  BY OnlyInType
<1> HIDE DEF k
<1>1. <<>> \in T
  <2>1. <<>> \in Seq(S) /\ r \o <<>> = r /\ k \o <<>> = k
    BY <1>0, EmptySeq, ConcatEmptySeq
  <2>2. OnlyIn(<<>>, K) = <<>>
    BY OnlyInEmpty
  <2>3. OnlyIn(r \o <<>>, K) = k \o OnlyIn(<<>>, K)
    BY <2>1, <2>2, Zenon DEF k
  <2>4. QED
    BY <2>1, <2>3
<1>2. ASSUME NEW t \in T, NEW e \in S PROVE Append(t, e) \in T
  <2>1. /\ t \in Seq(S) /\ Append(t, e) \in Seq(S)
        /\ r \o t \in Seq(S) /\ OnlyIn(t, K) \in Seq(S)
        /\ OnlyIn(r \o t, K) = k \o OnlyIn(t, K)
    BY AppendProperties, ConcatProperties, OnlyInType
  <2>2. r \o Append(t, e) = Append(r \o t, e)
    BY <2>1, AppendToConcat
  <2>3. CASE e \in K
    <3>1. OnlyIn(Append(r \o t, e), K) = Append(k \o OnlyIn(t, K), e)
      BY <2>1, <2>3, OnlyInAppend
    <3>2. OnlyIn(Append(t, e), K) = Append(OnlyIn(t, K), e)
      BY <2>1, <2>3, OnlyInAppend
    <3>3. k \o Append(OnlyIn(t, K), e) = Append(k \o OnlyIn(t, K), e)
      BY <1>0, <2>1, AppendToConcat
    <3>4. OnlyIn(r \o Append(t, e), K) = k \o OnlyIn(Append(t, e), K)
      BY <2>2, <3>1, <3>2, <3>3, Zenon
    <3>5. QED
      BY <2>1, <3>4
  <2>4. CASE e \notin K
    <3>1. OnlyIn(Append(r \o t, e), K) = k \o OnlyIn(t, K)
      BY <2>1, <2>4, OnlyInAppend
    <3>2. OnlyIn(Append(t, e), K) = OnlyIn(t, K)
      BY <2>1, <2>4, OnlyInAppend
    <3>3. OnlyIn(r \o Append(t, e), K) = k \o OnlyIn(Append(t, e), K)
      BY <2>2, <3>1, <3>2, Zenon
    <3>4. QED
      BY <2>1, <3>3
  <2>5. QED
    BY <2>3, <2>4
<1>3. T = Seq(S)
  <2> HIDE DEF T
  <2>1. T \in SUBSET Seq(S)
    BY DEF T
  <2>2. QED
    BY <1>1, <1>2, <2>1, SeqInductionSet
<1>4. QED
  BY <1>3 DEF k

\* Nothing is kept of a sequence that has nothing of the set.
LEMMA OnlyInNone ==
    ASSUME NEW S, NEW s \in Seq(S), NEW K, \A i \in 1..Len(s) : s[i] \notin K
    PROVE  OnlyIn(s, K) = <<>>
<1> DEFINE k == OnlyIn(s, K)
<1>1. k \in Seq(S)
  BY OnlyInType
<1>2. ASSUME NEW i \in 1..Len(k) PROVE FALSE
  <2>1. (\E j \in 1..Len(k) : k[j] = k[i]) <=> k[i] \in K /\ \E j \in 1..Len(s) : s[j] = k[i]
    BY OnlyInElements
  <2>2. QED
    BY <1>2, <2>1
<1> HIDE DEF k
<1>3. Len(k) = 0
  <2>1. Len(k) \in Nat
    BY <1>1, LenProperties
  <2>2. Len(k) # 0 => 1 \in 1..Len(k)
    BY <2>1
  <2>3. QED
    BY <1>2, <2>2
<1>4. k = <<>>
  BY <1>1, <1>3, EmptySeq
<1>5. QED
  BY <1>4 DEF k

\* Each element that is kept was there.
LEMMA OnlyInFrom ==
    ASSUME NEW S, NEW s \in Seq(S), NEW K
    PROVE  \A i \in 1..Len(OnlyIn(s, K)) :
             OnlyIn(s, K)[i] \in K /\ \E j \in 1..Len(s) : OnlyIn(s, K)[i] = s[j]
<1>1. ASSUME NEW x
      PROVE  (\E i \in 1..Len(OnlyIn(s, K)) : OnlyIn(s, K)[i] = x)
               <=> x \in K /\ \E i \in 1..Len(s) : s[i] = x
  BY OnlyInElements
<1> SUFFICES ASSUME NEW i \in 1..Len(OnlyIn(s, K))
             PROVE  OnlyIn(s, K)[i] \in K /\ \E j \in 1..Len(s) : OnlyIn(s, K)[i] = s[j]
  OBVIOUS
<1> DEFINE x == OnlyIn(s, K)[i]
<1>2. \E k \in 1..Len(OnlyIn(s, K)) : OnlyIn(s, K)[k] = x
  OBVIOUS
<1>3. x \in K /\ \E j \in 1..Len(s) : s[j] = x
  <2> HIDE DEF x
  <2>1. QED
    BY <1>1, <1>2, Zenon
<1>4. QED
  BY <1>3

\* What holds of every element and each later one still does.
LEMMA OnlyInOrdered ==
    ASSUME NEW S, NEW s \in Seq(S), NEW K, NEW R
    PROVE  (\A i, j \in 1..Len(s) : i < j => <<s[i], s[j]>> \in R)
             => \A i, j \in 1..Len(OnlyIn(s, K)) :
                  i < j => <<OnlyIn(s, K)[i], OnlyIn(s, K)[j]>> \in R
<1> DEFINE Ordered(r) == \A i, j \in 1..Len(r) : i < j => <<r[i], r[j]>> \in R
           T == {r \in Seq(S) : Ordered(r) => Ordered(OnlyIn(r, K))}
<1>0. ASSUME NEW r \in Seq(S), NEW e \in S
      PROVE  Ordered(Append(r, e)) <=> Ordered(r) /\ \A i \in 1..Len(r) : <<r[i], e>> \in R
  <2> DEFINE t == Append(r, e)
  <2>1. /\ Len(t) = Len(r) + 1 /\ Len(r) \in Nat
        /\ \A i \in 1..Len(r) : t[i] = r[i]
        /\ t[Len(r) + 1] = e
    BY AppendProperties, LenProperties
  <2> HIDE DEF t
  <2>2. \A i \in 1..Len(t) : i \in 1..Len(r) \/ i = Len(r) + 1
    BY <2>1
  <2>3. /\ Len(r) + 1 \in 1..Len(t) /\ Len(r) + 1 \notin 1..Len(r)
        /\ \A i \in 1..Len(r) : i \in 1..Len(t) /\ i < Len(r) + 1
    BY <2>1
  <2>4. ASSUME Ordered(t) PROVE Ordered(r) /\ \A i \in 1..Len(r) : <<r[i], e>> \in R
    BY <2>1, <2>3, <2>4
  <2>5. ASSUME Ordered(r), \A i \in 1..Len(r) : <<r[i], e>> \in R PROVE Ordered(t)
    <3> SUFFICES ASSUME NEW i \in 1..Len(t), NEW j \in 1..Len(t), i < j
                 PROVE  <<t[i], t[j]>> \in R
      OBVIOUS
    <3>1. i \in 1..Len(r)
      BY <2>1
    <3>2. QED
      BY <2>1, <2>2, <2>5, <3>1
  <2>6. QED
    BY <2>4, <2>5 DEF t
<1>1. <<>> \in T
  <2>1. <<>> \in Seq(S) /\ Ordered(<<>>)
    BY EmptySeq
  <2>2. OnlyIn(<<>>, K) = <<>>
    BY OnlyInEmpty
  <2>3. Ordered(OnlyIn(<<>>, K))
    BY <2>1, <2>2, Zenon
  <2>4. QED
    BY <2>1, <2>3
<1>2. ASSUME NEW r \in T, NEW e \in S PROVE Append(r, e) \in T
  <2>0. \A i \in 1..Len(OnlyIn(r, K)) :
          OnlyIn(r, K)[i] \in K /\ \E j \in 1..Len(r) : OnlyIn(r, K)[i] = r[j]
    <3>1. r \in Seq(S)
      OBVIOUS
    <3> HIDE DEF T
    <3>2. QED
      BY <3>1, OnlyInFrom
  <2>1. /\ r \in Seq(S) /\ Append(r, e) \in Seq(S) /\ OnlyIn(r, K) \in Seq(S)
        /\ Ordered(r) => Ordered(OnlyIn(r, K))
    BY OnlyInType, AppendProperties
  <2> SUFFICES ASSUME Ordered(Append(r, e)) PROVE Ordered(OnlyIn(Append(r, e), K))
    BY <2>1
  <2>2. Ordered(r) /\ \A i \in 1..Len(r) : <<r[i], e>> \in R
    BY <1>0, <2>1
  <2>3. Ordered(OnlyIn(r, K))
    BY <2>1, <2>2
  <2>4. \A i \in 1..Len(OnlyIn(r, K)) : <<OnlyIn(r, K)[i], e>> \in R
    BY <2>0, <2>2
  <2>5. Ordered(Append(OnlyIn(r, K), e))
    <3> HIDE DEF Ordered
    <3>1. QED
      BY <1>0, <2>1, <2>3, <2>4
  <2>6. OnlyIn(Append(r, e), K) = Append(OnlyIn(r, K), e)
          \/ OnlyIn(Append(r, e), K) = OnlyIn(r, K)
    BY <2>1, OnlyInAppend
  <2>7. QED
    <3> HIDE DEF Ordered
    <3>1. QED
      BY <2>3, <2>5, <2>6
<1>3. T = Seq(S)
  <2> HIDE DEF T
  <2>1. T \in SUBSET Seq(S)
    BY DEF T
  <2>2. QED
    BY <1>1, <1>2, <2>1, SeqInductionSet
<1>4. QED
  BY <1>3

=============================================================================
