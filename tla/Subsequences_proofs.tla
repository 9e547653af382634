------------------------- MODULE Subsequences_proofs -------------------------
(* What a subsequence, the end of a sequence and the elements of a sequence   *)
(* are, for the proofs about the files that are lists.                        *)
EXTENDS Subsequences, FiniteSetTheorems, SequenceTheorems, TLAPS

\* Two positions have two ranks, in their order.
LEMMA RankIncreases ==
  ASSUME NEW n \in Nat, NEW I \in SUBSET (1 .. n)
  PROVE  /\ IsFiniteSet(I) /\ Cardinality(I) \in Nat /\ Cardinality(I) <= n
         /\ \A i \in I : Rank(I, i) \in 1 .. Cardinality(I)
         /\ \A i, j \in I : i < j => Rank(I, i) < Rank(I, j)
<1>1. IsFiniteSet(1 .. n) /\ Cardinality(1 .. n) = n
  BY FS_Interval
<1>2. IsFiniteSet(I) /\ Cardinality(I) \in Nat /\ Cardinality(I) <= n
  <2>1. IsFiniteSet(I) /\ Cardinality(I) <= Cardinality(1 .. n)
    BY <1>1, FS_Subset
  <2> QED BY <1>1, <2>1, FS_CardinalityType
<1>3. ASSUME NEW i \in I PROVE Rank(I, i) \in 1 .. Cardinality(I)
  <2> DEFINE J == {j \in I : j <= i}
  <2>1. IsFiniteSet(J) /\ Cardinality(J) <= Cardinality(I)
    BY <1>2, FS_Subset
  <2>2. Cardinality(J) \in Nat
    BY <2>1, FS_CardinalityType
  <2>3. i \in J
    OBVIOUS
  <2>4. Cardinality(J) # 0
    <3>1. J # {}
      BY <2>3
    <3> HIDE DEF J
    <3> QED BY <2>1, <3>1, FS_EmptySet
  <2> QED BY <1>2, <2>1, <2>2, <2>4 DEF Rank
<1>4. ASSUME NEW i \in I, NEW j \in I, i < j PROVE Rank(I, i) < Rank(I, j)
  <2> DEFINE A == {k \in I : k <= i}
             B == {k \in I : k <= j}
  <2>1. A \subseteq B /\ j \in B /\ j \notin A
    <3>1. \A k \in I : k \in Nat
      OBVIOUS
    <3>2. i \in Nat /\ j \in Nat /\ ~(j <= i)
      BY <1>4, <3>1
    <3>3. ASSUME NEW k \in I, k <= i PROVE k <= j
      <4>1. k \in Nat
        BY <3>1
      <4> QED BY <1>4, <3>2, <3>3, <4>1
    <3>4. j <= j
      BY <3>2
    <3> QED BY <3>2, <3>3, <3>4
  <2>2. IsFiniteSet(B)
    BY <1>2, FS_Subset
  <2>3. IsFiniteSet(A) /\ Cardinality(A) <= Cardinality(B)
        /\ (Cardinality(B) = Cardinality(A) => B = A)
    BY <2>1, <2>2, FS_Subset
  <2>4. Cardinality(A) \in Nat /\ Cardinality(B) \in Nat
    BY <2>2, <2>3, FS_CardinalityType
  <2> QED BY <2>1, <2>3, <2>4 DEF Rank
<1> QED BY <1>2, <1>3, <1>4

\* Every rank up to their number is the rank of one position.
LEMMA RankOnto ==
  ASSUME NEW n \in Nat, NEW I \in SUBSET (1 .. n), NEW k \in 1 .. Cardinality(I)
  PROVE  \E i \in I : Rank(I, i) = k
<1> DEFINE m == Cardinality(I)
           f == [i \in I |-> Rank(I, i)]
<1>1. IsFiniteSet(I) /\ m \in Nat
  BY RankIncreases
<1>2. f \in [I -> 1 .. m]
  BY RankIncreases
<1>3. \A i, j \in I : f[i] = f[j] => i = j
  <2> SUFFICES ASSUME NEW i \in I, NEW j \in I, i # j PROVE f[i] # f[j]
    OBVIOUS
  <2>1. i \in Nat /\ j \in Nat
    OBVIOUS
  <2>2. i < j \/ j < i
    BY <2>1
  <2>3. f[i] \in Nat /\ f[j] \in Nat /\ (f[i] < f[j] \/ f[j] < f[i])
    BY <2>2, RankIncreases
  <2> QED BY <2>3
<1>4. IsFiniteSet(1 .. m) /\ Cardinality(1 .. m) = m
  BY <1>1, FS_Interval
<1>5. f \in Injection(I, 1 .. m)
  BY <1>2, <1>3 DEF Injection, IsInjective
<1>6. f \in Surjection(I, 1 .. m)
  BY <1>1, <1>4, <1>5, FS_Injection
<1> QED BY <1>6 DEF Surjection

\* t has the elements of s at the positions I, one for each.
Places(t, s, I) ==
  \E place \in [DOMAIN t -> I] :
    /\ \A k \in DOMAIN t : t[k] = s[place[k]]
    /\ \A j, k \in DOMAIN t : place[j] = place[k] => j = k
    /\ \A i \in I : \E k \in DOMAIN t : place[k] = i

\* A subsequence has the elements at its positions, one for each.
LEMMA SubElements ==
  ASSUME NEW S, NEW s \in Seq(S), NEW I \in SUBSET DOMAIN s
  PROVE  /\ Sub(s, I) \in Seq(S)
         /\ Len(Sub(s, I)) = Cardinality(I) /\ Len(Sub(s, I)) <= Len(s)
         /\ Places(Sub(s, I), s, I)
<1> DEFINE n == Cardinality(I)
           t == Sub(s, I)
           place == [k \in 1 .. n |-> CHOOSE i \in I : Rank(I, i) = k]
<1>1. Len(s) \in Nat /\ DOMAIN s = 1 .. Len(s)
  OBVIOUS
<1>2. n \in Nat /\ n <= Len(s)
  BY <1>1, RankIncreases
<1>3. \A k \in 1 .. n : place[k] \in I /\ Rank(I, place[k]) = k
  <2> SUFFICES ASSUME NEW k \in 1 .. n PROVE place[k] \in I /\ Rank(I, place[k]) = k
    OBVIOUS
  <2>1. \E i \in I : Rank(I, i) = k
    BY <1>1, RankOnto
  <2> QED BY <2>1
<1>4. t = [k \in 1 .. n |-> s[place[k]]]
  BY DEF Sub
<1>5. \A i \in I : Rank(I, i) \in 1 .. n
  BY <1>1, RankIncreases
<1>6. \A i, j \in I : Rank(I, i) = Rank(I, j) => i = j
  <2> SUFFICES ASSUME NEW i \in I, NEW j \in I, i # j PROVE Rank(I, i) # Rank(I, j)
    OBVIOUS
  <2>1. i \in Nat /\ j \in Nat
    BY <1>1
  <2>2. i < j \/ j < i
    BY <2>1
  <2>3. Rank(I, i) < Rank(I, j) \/ Rank(I, j) < Rank(I, i)
    BY <1>1, <2>2, RankIncreases
  <2> QED BY <1>2, <1>5, <2>3
<1>7. place = [k \in 1 .. n |-> place[k]]
  OBVIOUS
<1> HIDE DEF place
<1>8. \A k \in 1 .. n : s[place[k]] \in S
  BY <1>1, <1>3, ElementOfSeq
<1> HIDE DEF n
<1>9. t \in Seq(S) /\ Len(t) = n /\ DOMAIN t = 1 .. n
  BY <1>2, <1>4, <1>8
<1>10. /\ place \in [1 .. n -> I]
       /\ \A k \in 1 .. n : t[k] = s[place[k]]
       /\ \A j, k \in 1 .. n : place[j] = place[k] => j = k
       /\ \A i \in I : \E k \in 1 .. n : place[k] = i
  BY <1>3, <1>4, <1>5, <1>6, <1>7
<1> HIDE DEF t
<1>11. place \in [DOMAIN t -> I]
  BY <1>9, <1>10
<1>12. Places(t, s, I)
  <2> SUFFICES \E g \in [DOMAIN t -> I] :
         /\ \A k \in DOMAIN t : t[k] = s[g[k]]
         /\ \A j, k \in DOMAIN t : g[j] = g[k] => j = k
         /\ \A i \in I : \E k \in DOMAIN t : g[k] = i
    BY DEF Places
  <2>1. /\ \A k \in DOMAIN t : t[k] = s[place[k]]
        /\ \A j, k \in DOMAIN t : place[j] = place[k] => j = k
        /\ \A i \in I : \E k \in DOMAIN t : place[k] = i
    BY <1>9, <1>10
  <2> WITNESS place \in [DOMAIN t -> I]
  <2> QED BY <2>1
<1> QED BY <1>2, <1>9, <1>12 DEF n, t

-----------------------------------------------------------------------------
(* What a list holds *)

Elements(s) == {s[i] : i \in DOMAIN s}
Distinct(s) == \A i, k \in DOMAIN s : s[i] = s[k] => i = k

\* t has elements of s, each at most once for a position of s.
Inside(t, s) ==
  \E place \in [DOMAIN t -> DOMAIN s] :
    /\ \A k \in DOMAIN t : t[k] = s[place[k]]
    /\ \A j, k \in DOMAIN t : place[j] = place[k] => j = k

LEMMA ElementsTyped ==
  ASSUME NEW S, NEW s \in Seq(S)
  PROVE  Elements(s) \subseteq S
<1>1. \A i \in DOMAIN s : s[i] \in S
  OBVIOUS
<1> QED BY <1>1 DEF Elements

LEMMA SubInside ==
  ASSUME NEW S, NEW s \in Seq(S), NEW I \in SUBSET DOMAIN s
  PROVE  /\ Sub(s, I) \in Seq(S) /\ Len(Sub(s, I)) <= Len(s) /\ Inside(Sub(s, I), s)
         /\ \A i \in I : s[i] \in Elements(Sub(s, I))
         /\ \A e \in Elements(Sub(s, I)) : \E i \in I : e = s[i]
<1> DEFINE t == Sub(s, I)
<1>1. t \in Seq(S) /\ Len(t) <= Len(s)
  BY SubElements
<1>2. PICK place \in [DOMAIN t -> I] :
        /\ \A k \in DOMAIN t : t[k] = s[place[k]]
        /\ \A j, k \in DOMAIN t : place[j] = place[k] => j = k
        /\ \A i \in I : \E k \in DOMAIN t : place[k] = i
  <2>1. Places(t, s, I)
    BY SubElements
  <2> QED BY <2>1 DEF Places
<1> HIDE DEF t
<1>3. Inside(t, s)
  <2>1. place \in [DOMAIN t -> DOMAIN s]
    BY <1>2
  <2> QED BY <1>2, <2>1 DEF Inside
<1>4. \A i \in I : s[i] \in Elements(t)
  BY <1>2 DEF Elements
<1>5. \A e \in Elements(t) : \E i \in I : e = s[i]
  BY <1>2 DEF Elements
<1> QED BY <1>1, <1>3, <1>4, <1>5 DEF t

LEMMA AppendElements ==
  ASSUME NEW S, NEW s \in Seq(S), NEW e \in S
  PROVE  /\ Append(s, e) \in Seq(S) /\ Len(Append(s, e)) = Len(s) + 1
         /\ Elements(Append(s, e)) = Elements(s) \cup {e}
         /\ Distinct(s) /\ e \notin Elements(s) => Distinct(Append(s, e))
<1> DEFINE t == Append(s, e)
<1>1. /\ t \in Seq(S) /\ Len(t) = Len(s) + 1 /\ Len(s) \in Nat
      /\ DOMAIN s = 1 .. Len(s) /\ DOMAIN t = 1 .. (Len(s) + 1)
      /\ t[Len(s) + 1] = e /\ \A k \in 1 .. Len(s) : t[k] = s[k]
  OBVIOUS
<1> HIDE DEF t
<1>2. \A k \in DOMAIN t : k = Len(s) + 1 \/ (k \in DOMAIN s /\ t[k] = s[k])
  BY <1>1
<1>3. \A k \in DOMAIN s : k \in DOMAIN t /\ k # Len(s) + 1
  BY <1>1
<1>4. Len(s) + 1 \in DOMAIN t
  BY <1>1
<1>5. \A x : x \in Elements(t) <=> x \in Elements(s) \cup {e}
  BY <1>1, <1>2, <1>3, <1>4 DEF Elements
<1>6. Distinct(s) /\ e \notin Elements(s) => Distinct(t)
  BY <1>1, <1>2 DEF Distinct, Elements
<1> QED BY <1>1, <1>5, <1>6 DEF t
==============================================================================
