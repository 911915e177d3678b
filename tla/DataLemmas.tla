------------------------------ MODULE DataLemmas ------------------------------
(***************************************************************************)
(* Facts about numbers, finite sets and sequences that the proofs about    *)
(* the components cite: least and greatest elements, subsequences, the     *)
(* elements of a sequence, and sums.                                       *)
(***************************************************************************)
EXTENDS Integers, FiniteSetsExt, Functions, Subsequences, SequenceTheorems,
        FiniteSetTheorems, TLAPS

-----------------------------------------------------------------------------
(* Least and greatest elements.                                            *)

(* The greatest element is what Max picks.                                 *)
LEMMA MaxIs ==
    ASSUME NEW S \in SUBSET Int, NEW m \in S, \A y \in S : y <= m
    PROVE  Max(S) = m
<1>1. \A y \in S : m >= y OBVIOUS
<1>2. \A x \in S : (\A y \in S : x >= y) => x = m OBVIOUS
<1> QED BY <1>1, <1>2 DEF Max

(* The least element is what Min picks.                                    *)
LEMMA MinIs ==
    ASSUME NEW S \in SUBSET Int, NEW m \in S, \A y \in S : m <= y
    PROVE  Min(S) = m
<1>1. \A y \in S : m =< y OBVIOUS
<1>2. \A x \in S : (\A y \in S : x =< y) => x = m OBVIOUS
<1> QED BY <1>1, <1>2 DEF Min

(* The greater of two numbers.                                             *)
LEMMA MaxOfTwo ==
    ASSUME NEW a \in Int, NEW b \in Int
    PROVE  Max({a, b}) = IF a >= b THEN a ELSE b
<1>1. CASE a >= b BY <1>1, MaxIs
<1>2. CASE ~(a >= b)
  <2>1. Max({a, b}) = b BY <1>2, MaxIs
  <2> QED BY <1>2, <2>1
<1> QED BY <1>1, <1>2

(* The lesser of two numbers.                                              *)
LEMMA MinOfTwo ==
    ASSUME NEW a \in Int, NEW b \in Int
    PROVE  Min({a, b}) = IF a <= b THEN a ELSE b
<1>1. CASE a <= b BY <1>1, MinIs
<1>2. CASE ~(a <= b)
  <2>1. Min({a, b}) = b BY <1>2, MinIs
  <2> QED BY <1>2, <2>1
<1> QED BY <1>1, <1>2

(* A non-empty set of naturals has a least element: the form in which the  *)
(* proofs use induction.                                                   *)
LEMMA Least ==
    ASSUME NEW S \in SUBSET Nat, S # {}
    PROVE  \E m \in S : \A n \in S : m <= n
<1> DEFINE R == {p \in Nat \X Nat : p[1] < p[2]}
<1>1. R = OpToRel(<, Nat) BY DEF OpToRel
<1>2. IsWellFoundedOn(R, Nat) BY <1>1, NatLessThanWellFounded
<1>3. PICK x \in S : \A y \in S : ~(<<y, x>> \in R)
  <2> HIDE DEF R
  <2> QED BY <1>2, WFMin
<1>4. ASSUME NEW y \in S PROVE x <= y
  <2>1. x \in Nat /\ y \in Nat OBVIOUS
  <2>2. <<y, x>> \in Nat \X Nat /\ <<y, x>>[1] = y /\ <<y, x>>[2] = x BY <2>1
  <2>3. ~(y < x) BY <1>3, <2>2
  <2> QED BY <2>1, <2>3
<1> QED BY <1>4

(* Min finds it.                                                           *)
LEMMA MinOfSome ==
    ASSUME NEW S \in SUBSET Nat, S # {}
    PROVE  Min(S) \in S /\ \A n \in S : Min(S) <= n
<1>1. PICK m \in S : \A n \in S : m <= n BY Least
<1>2. S \in SUBSET Int OBVIOUS
<1>3. Min(S) = m BY <1>1, <1>2, MinIs
<1> QED BY <1>1, <1>3

(* A non-empty set of bounded naturals has a greatest element.             *)
LEMMA Greatest ==
    ASSUME NEW n \in Nat, NEW S \in SUBSET (0..n), S # {}
    PROVE  Max(S) \in S /\ \A y \in S : y <= Max(S)
<1> DEFINE T == {n - x : x \in S}
<1>1. T \subseteq Nat /\ T # {}
  <2>1. \A x \in S : n - x \in Nat OBVIOUS
  <2>2. T # {} OBVIOUS
  <2> QED BY <2>1, <2>2
<1>2. PICK t \in T : \A u \in T : t <= u
  <2> HIDE DEF T
  <2> QED BY <1>1, Least
<1>3. PICK m \in S : t = n - m OBVIOUS
<1>4. ASSUME NEW y \in S PROVE y <= m
  <2>1. t <= n - y BY <1>2
  <2> QED BY <1>3, <2>1
<1>5. S \in SUBSET Int OBVIOUS
<1>6. Max(S) = m BY <1>4, <1>5, MaxIs
<1> QED BY <1>4, <1>6

-----------------------------------------------------------------------------
(* Sequences.                                                              *)

(* The elements of a sequence are finitely many.                           *)
LEMMA RangeIsFinite ==
    ASSUME NEW S, NEW s \in Seq(S)
    PROVE  IsFiniteSet(Range(s))
<1>1. s \in [1..Len(s) -> S] /\ DOMAIN s = 1..Len(s) /\ Len(s) \in Nat BY LenProperties
<1>2. s \in Surjection(1..Len(s), Range(s)) BY <1>1 DEF Surjection, Range
<1>3. IsFiniteSet(1..Len(s)) BY <1>1, FS_Interval
<1> QED BY <1>2, <1>3, FS_Surjection

(* Of a finite set of numbers, there is one of every rank.                 *)
LEMMA EveryRankIsTaken ==
    ASSUME NEW S \in SUBSET Int, IsFiniteSet(S), NEW n \in 1..Cardinality(S)
    PROVE  \E i \in S : Cardinality({j \in S : j <= i}) = n
<1> DEFINE UpTo(i) == {j \in S : j <= i}
           rank == [i \in S |-> Cardinality(UpTo(i))]
<1>1. PICK c : c = Cardinality(S) OBVIOUS
<1>2. c \in Nat BY <1>1, FS_CardinalityType
<1>3. \A i \in S : IsFiniteSet(UpTo(i)) /\ Cardinality(UpTo(i)) <= c
  <2>1. \A i \in S : UpTo(i) \in SUBSET S OBVIOUS
  <2> HIDE DEF UpTo
  <2> QED BY <1>1, <2>1, FS_Subset
<1>4. ASSUME NEW i \in S PROVE Cardinality(UpTo(i)) \in 1..c
  <2>1. UpTo(i) # {} OBVIOUS
  <2> HIDE DEF UpTo
  <2>2. Cardinality(UpTo(i)) \in Nat BY <1>3, FS_CardinalityType
  <2>3. Cardinality(UpTo(i)) # 0 BY <1>3, <2>1, FS_EmptySet
  <2> QED BY <1>2, <1>3, <2>2, <2>3
<1>5. ASSUME NEW i \in S, NEW k \in S, i < k PROVE Cardinality(UpTo(i)) # Cardinality(UpTo(k))
  <2>1. UpTo(i) \in SUBSET UpTo(k)
    <3>1. \A j \in S : j <= i => j <= k BY <1>5
    <3> QED BY <3>1
  <2>2. UpTo(i) # UpTo(k)
    <3>1. k \in UpTo(k) /\ k \notin UpTo(i) BY <1>5
    <3> HIDE DEF UpTo
    <3> QED BY <3>1
  <2> HIDE DEF UpTo
  <2> QED BY <1>3, <2>1, <2>2, FS_Subset
<1>6. rank \in Injection(S, 1..c)
  <2>1. rank \in [S -> 1..c]
    <3> HIDE DEF UpTo
    <3> QED BY <1>4
  <2>2. ASSUME NEW i \in S, NEW k \in S, rank[i] = rank[k] PROVE i = k
    <3>1. Cardinality(UpTo(i)) = Cardinality(UpTo(k))
      <4> HIDE DEF UpTo
      <4> QED BY <2>2
    <3>2. ~(i < k) BY <1>5, <3>1
    <3>3. ~(k < i) BY <1>5, <3>1
    <3> QED BY <3>2, <3>3
  <2>3. DOMAIN rank = S OBVIOUS
  <2>4. IsInjective(rank)
    <3> HIDE DEF rank
    <3> QED BY <2>2, <2>3 DEF IsInjective
  <2> HIDE DEF rank
  <2> QED BY <2>1, <2>4 DEF Injection
<1>7. IsFiniteSet(1..c) /\ Cardinality(1..c) = c BY <1>2, FS_Interval
<1>8. rank \in Surjection(S, 1..c)
  <2> HIDE DEF rank
  <2> QED BY <1>1, <1>6, <1>7, FS_Injection
<1>9. PICK i \in S : rank[i] = n
  <2> HIDE DEF rank
  <2> QED BY <1>1, <1>8 DEF Surjection
<1>10. Cardinality(UpTo(i)) = n
  <2> HIDE DEF UpTo
  <2> QED BY <1>9
<1> QED BY <1>10


(* No two of a finite set of numbers have the same rank.                   *)
LEMMA RankTells ==
    ASSUME NEW S \in SUBSET Int, IsFiniteSet(S), NEW i \in S, NEW k \in S,
           Cardinality({j \in S : j <= i}) = Cardinality({j \in S : j <= k})
    PROVE  i = k
<1>1. ASSUME NEW x \in S, NEW y \in S, x < y
      PROVE  Cardinality({j \in S : j <= x}) # Cardinality({j \in S : j <= y})
  <2>1. PICK A, B : A = {j \in S : j <= x} /\ B = {j \in S : j <= y} OBVIOUS
  <2>2. \A j \in S : j <= x => j <= y BY <1>1
  <2>3. A \in SUBSET B /\ B \in SUBSET S BY <2>1, <2>2
  <2>4. x \in Int /\ y \in Int OBVIOUS
  <2>5. y <= y /\ ~(y <= x) BY <1>1, <2>4
  <2>6. y \in B /\ y \notin A BY <2>1, <2>5
  <2>7. IsFiniteSet(B) BY <2>3, FS_Subset
  <2>8. Cardinality(A) # Cardinality(B) BY <2>3, <2>6, <2>7, FS_Subset
  <2> QED BY <2>1, <2>8
<1>2. i = k \/ i < k \/ k < i OBVIOUS
<1> QED BY <1>1, <1>2

(* And one that so many are greater than.                                  *)
LEMMA EveryRankFromAbove ==
    ASSUME NEW S \in SUBSET Int, IsFiniteSet(S), NEW n \in 1..Cardinality(S)
    PROVE  \E i \in S : Cardinality({j \in S : j > i}) = n - 1
<1>1. PICK c : c = Cardinality(S) OBVIOUS
<1>2. c \in Nat /\ n \in 1..c BY <1>1, FS_CardinalityType
<1>3. c - (n - 1) \in 1..c BY <1>2
<1>4. PICK i \in S : Cardinality({j \in S : j <= i}) = c - (n - 1)
  BY <1>1, <1>3, EveryRankIsTaken
<1>5. PICK T : T = {j \in S : j <= i} OBVIOUS
<1>6. {j \in S : j > i} = S \ T
  <2>1. \A j \in S : j > i <=> ~(j <= i) OBVIOUS
  <2> QED BY <1>5, <2>1
<1>7. S \cap T = T BY <1>5
<1>8. Cardinality(S \ T) = c - Cardinality(T) BY <1>1, <1>7, FS_Difference
<1>9. PICK t : t = Cardinality(T) OBVIOUS
<1>10. t = c - (n - 1) BY <1>4, <1>5, <1>9
<1>11. c - t = n - 1 BY ONLY <1>2, <1>10
<1> QED BY <1>6, <1>8, <1>9, <1>11

(* What corresponds one to one counts the same.                            *)
LEMMA SameCount ==
    ASSUME NEW S, NEW T, IsFiniteSet(T), NEW f \in [S -> T],
           \A x, y \in S : f[x] = f[y] => x = y,
           \A t \in T : \E x \in S : f[x] = t
    PROVE  IsFiniteSet(S) /\ Cardinality(S) = Cardinality(T)
<1>1. DOMAIN f = S OBVIOUS
<1>2. IsInjective(f) BY <1>1 DEF IsInjective
<1>3. f \in Injection(S, T) BY <1>2 DEF Injection
<1>4. f \in Surjection(S, T) BY DEF Surjection
<1> QED BY <1>3, <1>4, FS_Injection

(* t has the elements of s at the positions P, all of them, once each and  *)
(* in order: pos tells where each comes from.                              *)
Picks(t, s, P, pos) ==
    /\ pos \in [1..Len(t) -> P]
    /\ \A n \in 1..Len(t) : t[n] = s[pos[n]]
    /\ \A n, m \in 1..Len(t) : n < m => pos[n] < pos[m]
    /\ \A i \in P : \E n \in 1..Len(t) : pos[n] = i

LEMMA SubsequenceProperties ==
    ASSUME NEW S, NEW s \in Seq(S), NEW P \in SUBSET (DOMAIN s),
           NEW t, t = Subsequence(s, P)
    PROVE  /\ t \in Seq(S)
           /\ Len(t) = Cardinality(P)
           /\ \E pos : Picks(t, s, P, pos)
<1> DEFINE rank(i) == Cardinality({j \in P : j <= i})
           Nth(n) == CHOOSE i \in P : Cardinality({j \in P : j <= i}) = n
<1>1. Len(s) \in Nat /\ DOMAIN s = 1..Len(s) BY LenProperties
<1>2. P \in SUBSET (1..Len(s)) /\ P \in SUBSET Int BY <1>1
<1>3. IsFiniteSet(P)
  <2>1. IsFiniteSet(1..Len(s)) BY <1>1, FS_Interval
  <2> QED BY <1>2, <2>1, FS_Subset
<1>4. PICK c : c = Cardinality(P) OBVIOUS
<1>5. c \in Nat BY <1>3, <1>4, FS_CardinalityType
<1>6. \A n \in 1..c : Nth(n) \in P /\ rank(Nth(n)) = n
  <2>1. \A n \in 1..c : \E i \in P : Cardinality({j \in P : j <= i}) = n
    BY <1>2, <1>3, <1>4, EveryRankIsTaken
  <2> QED BY <2>1
<1>7. t = [n \in 1..c |-> s[Nth(n)]] BY <1>4 DEF Subsequence
<1>8. \A i, k \in P : i <= k => rank(i) <= rank(k)
  <2>1. ASSUME NEW i \in P, NEW k \in P, i <= k PROVE rank(i) <= rank(k)
    <3> DEFINE A == {j \in P : j <= i}  B == {j \in P : j <= k}
    <3>1. \A j \in P : j <= i => j <= k BY <1>2, <2>1
    <3>2. A \in SUBSET B /\ B \in SUBSET P BY <3>1
    <3>3. Cardinality(A) <= Cardinality(B)
      <4> HIDE DEF A, B
      <4>1. IsFiniteSet(B) BY <1>3, <3>2, FS_Subset
      <4> QED BY <3>2, <4>1, FS_Subset
    <3> QED BY <3>3
  <2> QED BY <2>1
<1>9. \A i, k \in P : rank(i) = rank(k) => i = k BY <1>2, <1>3, RankTells
<1> HIDE DEF rank, Nth
<1>10. \A n \in 1..c : s[Nth(n)] \in S BY <1>2, <1>6, ElementOfSeq
<1>11. t \in Seq(S) /\ Len(t) = c
  <2>1. t \in Seq(S) BY <1>5, <1>7, <1>10, IsASeq
  <2>2. DOMAIN t = 1..c /\ DOMAIN t = 1..Len(t) /\ Len(t) \in Nat BY <1>7, <2>1, LenProperties
  <2> QED BY <1>5, <2>1, <2>2
<1>12. PICK pos : pos = [n \in 1..c |-> Nth(n)] OBVIOUS
<1>13. pos \in [1..c -> P] /\ \A n \in 1..c : t[n] = s[pos[n]] BY <1>6, <1>7, <1>12
<1>14. ASSUME NEW n \in 1..c, NEW m \in 1..c, n < m PROVE pos[n] < pos[m]
  <2>1. pos[n] \in P /\ pos[m] \in P /\ rank(pos[n]) = n /\ rank(pos[m]) = m BY <1>6, <1>12
  <2>2. pos[n] \in Int /\ pos[m] \in Int BY <1>2, <2>1
  <2>3. ASSUME pos[m] <= pos[n] PROVE FALSE
    <3>1. m <= n BY <1>8, <2>1, <2>3
    <3> QED BY <1>14, <3>1
  <2> QED BY <2>2, <2>3
<1>15. ASSUME NEW i \in P PROVE \E n \in 1..c : pos[n] = i
  <2> DEFINE A == {j \in P : j <= i}
  <2>1. A \in SUBSET P /\ i \in A BY <1>2
  <2>2. Cardinality(A) \in 1..c
    <3> HIDE DEF A
    <3>1. IsFiniteSet(A) /\ Cardinality(A) <= c BY <1>3, <1>4, <2>1, FS_Subset
    <3>2. Cardinality(A) \in Nat BY <3>1, FS_CardinalityType
    <3>3. Cardinality(A) # 0 BY <2>1, <3>1, FS_EmptySet
    <3> QED BY <1>5, <3>1, <3>2, <3>3
  <2>3. rank(i) \in 1..c BY <2>2 DEF rank
  <2>4. PICK n \in 1..c : n = rank(i) BY <2>3
  <2>5. pos[n] \in P /\ rank(pos[n]) = rank(i) BY <1>6, <1>12, <2>4
  <2> QED BY <1>9, <2>5
<1>16. Len(t) = c BY <1>11
<1>17. Picks(t, s, P, pos) BY ONLY <1>13, <1>14, <1>15, <1>16 DEF Picks
<1> QED BY <1>4, <1>11, <1>17

-----------------------------------------------------------------------------
(* The two ends of a sequence.                                             *)

(* The first n elements, or all there are.                                 *)
LEMMA FirstOfProperties ==
    ASSUME NEW S, NEW s \in Seq(S), NEW n \in Nat
    PROVE  /\ FirstOf(s, n) \in Seq(S)
           /\ Len(FirstOf(s, n)) <= n
           /\ Range(FirstOf(s, n)) \subseteq Range(s)
<1>1. PICK m : m = Min({n, Len(s)}) OBVIOUS
<1>2. m \in Nat /\ m <= n /\ m <= Len(s) BY <1>1, MinOfTwo, LenProperties
<1>3. \A i \in 1..m : s[i] \in S BY <1>2, ElementOfSeq
<1>4. FirstOf(s, n) = SubSeq(s, 1, m) BY <1>1 DEF FirstOf
<1>5. PICK f : f = SubSeq(s, 1, m) OBVIOUS
<1>6. f \in Seq(S) /\ Len(f) = m /\ \A i \in 1..m : f[i] = s[i]
  <2>1. /\ SubSeq(s, 1, m) \in Seq(S)
        /\ Len(SubSeq(s, 1, m)) = IF 1 <= m THEN m - 1 + 1 ELSE 0
        /\ \A i \in 1..(m - 1 + 1) : SubSeq(s, 1, m)[i] = s[1 + i - 1]
    BY <1>2, <1>3, SubSeqProperties
  <2> QED BY <1>2, <1>5, <2>1
<1>7. Range(f) \subseteq Range(s)
  <2>1. Range(f) = {f[i] : i \in 1..Len(f)} BY <1>6, RangeEquality
  <2>2. Range(s) = {s[i] : i \in 1..Len(s)} BY RangeEquality
  <2> QED BY <1>2, <1>6, <2>1, <2>2, LenProperties
<1> QED BY <1>2, <1>4, <1>5, <1>6, <1>7

(* The last n elements, or all there are.                                  *)
LEMMA LastOfProperties ==
    ASSUME NEW S, NEW s \in Seq(S), NEW n \in Nat
    PROVE  /\ LastOf(s, n) \in Seq(S)
           /\ Len(LastOf(s, n)) = IF n <= Len(s) THEN n ELSE Len(s)
           /\ \A i \in 1..Len(LastOf(s, n)) :
                 LastOf(s, n)[i] = s[Len(s) - Len(LastOf(s, n)) + i]
           /\ Range(LastOf(s, n)) \subseteq Range(s)
<1>1. PICK m : m = Min({n, Len(s)}) OBVIOUS
<1>2. m \in Nat /\ m = IF n <= Len(s) THEN n ELSE Len(s) BY <1>1, MinOfTwo, LenProperties
<1>3. PICK k : k = Len(s) - m + 1 OBVIOUS
<1>4. k \in Nat /\ k >= 1 /\ Len(s) \in Nat BY <1>2, <1>3, LenProperties
<1>5. \A i \in k..Len(s) : s[i] \in S BY <1>4, ElementOfSeq
<1>6. LastOf(s, n) = SubSeq(s, k, Len(s)) BY <1>1, <1>3 DEF LastOf
<1>7. PICK f : f = SubSeq(s, k, Len(s)) OBVIOUS
<1>8. f \in Seq(S) /\ Len(f) = m /\ \A i \in 1..m : f[i] = s[Len(s) - m + i]
  <2>1. /\ SubSeq(s, k, Len(s)) \in Seq(S)
        /\ Len(SubSeq(s, k, Len(s))) = IF k <= Len(s) THEN Len(s) - k + 1 ELSE 0
        /\ \A i \in 1..(Len(s) - k + 1) : SubSeq(s, k, Len(s))[i] = s[k + i - 1]
    BY <1>4, <1>5, SubSeqProperties
  <2>2. Len(s) - k + 1 = m /\ (k <= Len(s) <=> m >= 1) BY <1>2, <1>3, <1>4
  <2>3. f \in Seq(S) /\ Len(f) = m BY <1>2, <1>4, <1>7, <2>1, <2>2
  <2>4. ASSUME NEW i \in 1..m PROVE f[i] = s[Len(s) - m + i]
    <3>1. k + i - 1 = Len(s) - m + i BY <1>2, <1>3, <1>4
    <3> QED BY <1>7, <2>1, <2>2, <3>1
  <2> QED BY <2>3, <2>4
<1>9. Range(f) \subseteq Range(s)
  <2>1. Range(f) = {f[i] : i \in 1..Len(f)} BY <1>8, RangeEquality
  <2>2. Range(s) = {s[i] : i \in 1..Len(s)} BY RangeEquality
  <2>3. \A i \in 1..m : Len(s) - m + i \in 1..Len(s) BY <1>2, <1>4
  <2> QED BY <1>8, <2>1, <2>2, <2>3
<1> QED BY <1>2, <1>6, <1>7, <1>8, <1>9

-----------------------------------------------------------------------------
(* Sizes of sets that change by an element.                                *)

(* A set that gains at most one element counts at most one more.           *)
LEMMA OneMore ==
    ASSUME NEW A, NEW B, NEW x, IsFiniteSet(A), B \subseteq A \cup {x}
    PROVE  IsFiniteSet(B) /\ Cardinality(B) <= Cardinality(A) + 1
<1>1. IsFiniteSet(A \cup {x}) /\ Cardinality(A \cup {x}) <= Cardinality(A) + 1
  <2>1. Cardinality(A) \in Nat BY FS_CardinalityType
  <2>2. /\ IsFiniteSet(A \cup {x})
        /\ Cardinality(A \cup {x}) = IF x \in A THEN Cardinality(A) ELSE Cardinality(A) + 1
    BY FS_AddElement
  <2>3. PICK c : c = Cardinality(A) OBVIOUS
  <2>4. PICK d : d = Cardinality(A \cup {x}) OBVIOUS
  <2>5. d = c \/ d = c + 1 BY <2>2, <2>3, <2>4
  <2>6. d <= c + 1 BY ONLY <2>5, <2>1, <2>3
  <2> QED BY <2>2, <2>3, <2>4, <2>6
<1>2. B \in SUBSET (A \cup {x}) OBVIOUS
<1>3. IsFiniteSet(B) /\ Cardinality(B) <= Cardinality(A \cup {x}) BY <1>1, <1>2, FS_Subset
<1>4. Cardinality(A) \in Nat /\ Cardinality(B) \in Nat /\ Cardinality(A \cup {x}) \in Nat
  BY <1>1, <1>3, FS_CardinalityType
<1> QED BY <1>1, <1>3, <1>4

(* One that loses an element counts at least one less.                     *)
LEMMA OneLess ==
    ASSUME NEW A, NEW B, NEW x \in A, IsFiniteSet(A), B \subseteq A \ {x}
    PROVE  IsFiniteSet(B) /\ Cardinality(B) + 1 <= Cardinality(A)
<1>1. IsFiniteSet(A \ {x}) /\ Cardinality(A \ {x}) = Cardinality(A) - 1 BY FS_RemoveElement
<1>2. B \in SUBSET (A \ {x}) OBVIOUS
<1>3. IsFiniteSet(B) /\ Cardinality(B) <= Cardinality(A \ {x}) BY <1>1, <1>2, FS_Subset
<1>4. Cardinality(A) \in Nat /\ Cardinality(B) \in Nat BY <1>3, FS_CardinalityType
<1> QED BY <1>1, <1>3, <1>4

(* A column of n pairs.                                                    *)
LEMMA Column ==
    ASSUME NEW x, NEW n \in Nat
    PROVE  IsFiniteSet({x} \X (1..n)) /\ Cardinality({x} \X (1..n)) = n
<1> DEFINE f == [i \in 1..n |-> <<x, i>>]
<1>1. f \in Bijection(1..n, {x} \X (1..n))
  <2>1. f \in [1..n -> {x} \X (1..n)] OBVIOUS
  <2>2. \A i, j \in 1..n : f[i] = f[j] => i = j OBVIOUS
  <2>3. \A t \in {x} \X (1..n) : \E i \in 1..n : f[i] = t
    <3>1. ASSUME NEW t \in {x} \X (1..n) PROVE \E i \in 1..n : f[i] = t
      <4>1. PICK i \in 1..n : t = <<x, i>> OBVIOUS
      <4> QED BY <4>1
    <3> QED BY <3>1
  <2> HIDE DEF f
  <2>4. f \in Injection(1..n, {x} \X (1..n)) BY <2>1, <2>2 DEF Injection, IsInjective
  <2>5. f \in Surjection(1..n, {x} \X (1..n)) BY <2>1, <2>3 DEF Surjection
  <2> QED BY <2>4, <2>5 DEF Bijection
<1>2. ExistsBijection(1..n, {x} \X (1..n))
  <2> HIDE DEF f
  <2> QED BY <1>1 DEF ExistsBijection
<1>3. IsFiniteSet(1..n) /\ Cardinality(1..n) = n
  <2>1. /\ IsFiniteSet(1..n)
        /\ Cardinality(1..n) = IF 1 > n THEN 0 ELSE n - 1 + 1
    BY FS_Interval
  <2> QED BY <2>1
<1> QED BY <1>2, <1>3, FS_Bijection

-----------------------------------------------------------------------------
(* Sums: the sum of a function is the number of the units it adds up.      *)

Units(fun, s) == {p \in s \X Nat : p[2] \in 1..fun[p[1]]}

(* Finitely many.                                                          *)
LEMMA UnitsAreFinite ==
    ASSUME NEW S, IsFiniteSet(S), NEW fun \in [S -> Nat]
    PROVE  IsFiniteSet(Units(fun, S))
<1> DEFINE f == [x \in S |-> {x} \X (1..fun[x])]
           Sets == {{x} \X (1..fun[x]) : x \in S}
<1>1. f \in Surjection(S, Sets) BY DEF Surjection
<1>2. IsFiniteSet(Sets)
  <2> HIDE DEF f, Sets
  <2> QED BY <1>1, FS_Surjection
<1>3. ASSUME NEW T \in Sets PROVE IsFiniteSet(T)
  <2>1. PICK x \in S : T = {x} \X (1..fun[x]) OBVIOUS
  <2>2. IsFiniteSet({x}) BY FS_Singleton
  <2>3. fun[x] \in Nat OBVIOUS
  <2>4. IsFiniteSet(1..fun[x]) BY <2>3, FS_Interval
  <2> QED BY <2>1, <2>2, <2>4, FS_Product
<1>4. IsFiniteSet(UNION Sets)
  <2> HIDE DEF Sets
  <2> QED BY <1>2, <1>3, FS_UNION
<1>5. Units(fun, S) \in SUBSET (UNION Sets)
  <2>1. ASSUME NEW p \in Units(fun, S) PROVE p \in UNION Sets
    <3>1. p \in S \X Nat /\ p[2] \in 1..fun[p[1]] BY DEF Units
    <3>2. p \in {p[1]} \X (1..fun[p[1]]) BY <3>1
    <3> QED BY <3>1, <3>2
  <2> QED BY <2>1
<1> HIDE DEF Sets
<1> QED BY <1>4, <1>5, FS_Subset

(* One argument less.                                                      *)
LEMMA UnitsOfOne ==
    ASSUME NEW S, IsFiniteSet(S), NEW fun \in [S -> Nat], NEW s \in SUBSET S, NEW x \in s
    PROVE  Cardinality(Units(fun, s)) = fun[x] + Cardinality(Units(fun, s \ {x}))
<1>1. PICK A, B, C : A = Units(fun, s) /\ B = Units(fun, s \ {x}) /\ C = {x} \X (1..fun[x])
  OBVIOUS
<1>2. fun[x] \in Nat OBVIOUS
<1>3. A = B \cup C
  <2>1. ASSUME NEW p PROVE p \in A <=> p \in B \cup C
    <3>1. p \in A <=> p \in s \X Nat /\ p[2] \in 1..fun[p[1]] BY <1>1 DEF Units
    <3>2. p \in B <=> p \in (s \ {x}) \X Nat /\ p[2] \in 1..fun[p[1]] BY <1>1 DEF Units
    <3>3. p \in C <=> p \in {x} \X Nat /\ p[2] \in 1..fun[p[1]] BY <1>1, <1>2
    <3> QED BY <3>1, <3>2, <3>3
  <2> QED BY <2>1
<1>4. B \cap C = {}
  <2>1. \A p \in B : p[1] # x BY <1>1 DEF Units
  <2>2. \A p \in C : p[1] = x BY <1>1
  <2> QED BY <2>1, <2>2
<1>5. IsFiniteSet(B)
  <2>1. IsFiniteSet(Units(fun, S)) BY UnitsAreFinite
  <2>2. Units(fun, s \ {x}) \in SUBSET Units(fun, S) BY DEF Units
  <2> QED BY <1>1, <2>1, <2>2, FS_Subset
<1>6. IsFiniteSet(C) /\ Cardinality(C) = fun[x]
  <2>1. IsFiniteSet({x}) /\ Cardinality({x}) = 1 BY FS_Singleton
  <2>2. IsFiniteSet(1..fun[x]) /\ Cardinality(1..fun[x]) = fun[x] BY <1>2, FS_Interval
  <2>3. IsFiniteSet(C) /\ Cardinality(C) = 1 * fun[x] BY <1>1, <2>1, <2>2, FS_Product
  <2> QED BY <1>2, <2>3
<1>7. Cardinality(B \cup C) = Cardinality(B) + Cardinality(C) - Cardinality({})
  BY <1>4, <1>5, <1>6, FS_Union
<1>8. Cardinality({}) = 0 /\ Cardinality(B) \in Nat BY <1>5, FS_EmptySet, FS_CardinalityType
<1>9. PICK b, c : b = Cardinality(B) /\ c = Cardinality(C) OBVIOUS
<1>10. b \in Nat /\ c = fun[x] /\ Cardinality(A) = b + c - 0 BY <1>3, <1>6, <1>7, <1>8, <1>9
<1>11. Cardinality(A) = fun[x] + b BY ONLY <1>2, <1>10
<1> QED BY <1>1, <1>9, <1>11

(* What a fold over the subsets of S computes for the sum.                 *)
SumsUp(it, fun, S) ==
    it = [s \in SUBSET S |->
            IF s = {} THEN 0
            ELSE LET x == CHOOSE y \in s : TRUE
                 IN  fun[x] + it[s \ {x}]]

(* It counts the units: no other function solves the equation.             *)
LEMMA SumsCount ==
    ASSUME NEW S, IsFiniteSet(S), NEW fun \in [S -> Nat], NEW it, SumsUp(it, fun, S),
           NEW s \in SUBSET S
    PROVE  it[s] = Cardinality(Units(fun, s))
<1> DEFINE Wrong == {n \in Nat : \E r \in SUBSET S :
                        Cardinality(r) = n /\ it[r] # Cardinality(Units(fun, r))}
<1>1. \A r \in SUBSET S : IsFiniteSet(r) /\ Cardinality(r) \in Nat
  BY FS_Subset, FS_CardinalityType
<1>2. SUFFICES Wrong = {}
  <2>1. Cardinality(s) \in Nat BY <1>1
  <2> QED BY <1>2, <2>1
<1>3. ASSUME Wrong # {} PROVE FALSE
  <2>1. PICK n \in Wrong : \A m \in Wrong : n <= m
    <3>1. Wrong \in SUBSET Nat OBVIOUS
    <3> HIDE DEF Wrong
    <3> QED BY <1>3, <3>1, Least
  <2>2. PICK r \in SUBSET S : Cardinality(r) = n /\ it[r] # Cardinality(Units(fun, r))
    OBVIOUS
  <2>3. CASE r = {}
    <3>1. it[r] = 0 BY <2>3 DEF SumsUp
    <3>2. Units(fun, r) = {} BY <2>3 DEF Units
    <3> QED BY <2>2, <3>1, <3>2, FS_EmptySet
  <2>4. CASE r # {}
    <3>1. PICK x : x = CHOOSE y \in r : TRUE OBVIOUS
    <3>2. x \in r BY <2>4, <3>1
    <3>3. it[r] = fun[x] + it[r \ {x}] BY <2>4, <3>1 DEF SumsUp
    <3>4. PICK q : q = r \ {x} OBVIOUS
    <3>5. q \in SUBSET S /\ Cardinality(q) = n - 1 BY <1>1, <2>2, <3>2, <3>4, FS_RemoveElement
    <3>6. Cardinality(q) \in Nat /\ n \in Nat BY <1>1, <3>5
    <3>7. it[q] = Cardinality(Units(fun, q))
      <4>1. Cardinality(q) \notin Wrong
        <5>1. ~(n <= Cardinality(q)) BY ONLY <3>5, <3>6
        <5> HIDE DEF Wrong
        <5> QED BY <2>1, <5>1
      <4> QED BY <3>5, <3>6, <4>1
    <3>8. Cardinality(Units(fun, r)) = fun[x] + Cardinality(Units(fun, q))
      BY <3>2, <3>4, UnitsOfOne
    <3> QED BY <2>2, <3>3, <3>4, <3>7, <3>8
  <2> QED BY <2>3, <2>4
<1> QED BY <1>3

(* There is one that does.                                                 *)
LEMMA SumsExist ==
    ASSUME NEW S, IsFiniteSet(S), NEW fun \in [S -> Nat]
    PROVE  \E it : SumsUp(it, fun, S)
<1> DEFINE it == [s \in SUBSET S |-> Cardinality(Units(fun, s))]
<1>1. ASSUME NEW s \in SUBSET S
      PROVE  it[s] = IF s = {} THEN 0
                     ELSE LET x == CHOOSE y \in s : TRUE IN fun[x] + it[s \ {x}]
  <2>1. CASE s = {}
    <3>1. Units(fun, s) = {} BY <2>1 DEF Units
    <3> QED BY <2>1, <3>1, FS_EmptySet
  <2>2. CASE s # {}
    <3>1. PICK x : x = CHOOSE y \in s : TRUE OBVIOUS
    <3>2. x \in s BY <2>2, <3>1
    <3>3. Cardinality(Units(fun, s)) = fun[x] + Cardinality(Units(fun, s \ {x}))
      BY <3>2, UnitsOfOne
    <3>4. s \ {x} \in SUBSET S OBVIOUS
    <3>5. it[s] = fun[x] + it[s \ {x}] BY <3>3, <3>4
    <3> HIDE DEF it
    <3> QED BY <2>2, <3>1, <3>5
  <2> QED BY <2>1, <2>2
<1>2. it = [s \in SUBSET S |-> it[s]] OBVIOUS
<1>3. SumsUp(it, fun, S)
  <2> HIDE DEF it
  <2> QED BY <1>1, <1>2 DEF SumsUp
<1> QED BY <1>3

(* The sum of a function with a finite domain is the number of its units.  *)
LEMMA SumIsCount ==
    ASSUME NEW S, IsFiniteSet(S), NEW fun \in [S -> Nat]
    PROVE  SumFunction(fun) = Cardinality(Units(fun, S))
<1>1. DOMAIN fun = S OBVIOUS
<1>2. SumFunction(fun) = (CHOOSE it : SumsUp(it, fun, S))[S]
  BY <1>1 DEF SumFunction, SumFunctionOnSet, FoldFunctionOnSet, MapThenFoldSet, SumsUp
<1>3. PICK it : it = CHOOSE f : SumsUp(f, fun, S) OBVIOUS
<1>4. SumsUp(it, fun, S) BY <1>3, SumsExist
<1> QED BY <1>2, <1>3, <1>4, SumsCount

-----------------------------------------------------------------------------
(* Sequences that grow.                                                    *)

(* A sequence no longer than asked for is all of its own end.              *)
LEMMA LastOfWhole ==
    ASSUME NEW S, NEW s \in Seq(S), NEW n \in Nat, Len(s) <= n
    PROVE  LastOf(s, n) = s
<1>1. PICK t, l : t = LastOf(s, n) /\ l = Len(s) OBVIOUS
<1>2. l \in Nat BY <1>1, LenProperties
<1>3. t \in Seq(S) /\ Len(t) = l /\ \A i \in 1..l : t[i] = s[l - l + i]
  BY <1>1, <1>2, LastOfProperties
<1>4. \A i \in 1..l : t[i] = s[i] BY <1>2, <1>3
<1> QED BY <1>1, <1>3, <1>4, SeqEqual

(* The end of an end.                                                      *)
LEMMA LastOfLast ==
    ASSUME NEW S, NEW s \in Seq(S), NEW n \in Nat, NEW k \in Nat, k <= n
    PROVE  LastOf(LastOf(s, n), k) = LastOf(s, k)
<1>1. PICK t, u, v, l : /\ t = LastOf(s, n) /\ u = LastOf(t, k) /\ v = LastOf(s, k)
                        /\ l = Len(s)
  OBVIOUS
<1>2. l \in Nat BY <1>1, LenProperties
<1>3. PICK a : a = Len(t) OBVIOUS
<1>4. t \in Seq(S) /\ a = (IF n <= l THEN n ELSE l) /\ \A i \in 1..a : t[i] = s[l - a + i]
  BY <1>1, <1>3, LastOfProperties
<1>5. PICK b : b = Len(u) OBVIOUS
<1>6. u \in Seq(S) /\ b = (IF k <= a THEN k ELSE a) /\ \A i \in 1..b : u[i] = t[a - b + i]
  <2>1. t \in Seq(S) BY <1>4
  <2>2. /\ LastOf(t, k) \in Seq(S)
        /\ Len(LastOf(t, k)) = IF k <= Len(t) THEN k ELSE Len(t)
        /\ \A i \in 1..Len(LastOf(t, k)) :
              LastOf(t, k)[i] = t[Len(t) - Len(LastOf(t, k)) + i]
    BY <2>1, LastOfProperties
  <2>3. u = LastOf(t, k) BY <1>1
  <2> QED BY ONLY <1>3, <1>5, <2>2, <2>3
<1>7. PICK c : c = Len(v) OBVIOUS
<1>8. v \in Seq(S) /\ c = (IF k <= l THEN k ELSE l) /\ \A i \in 1..c : v[i] = s[l - c + i]
  BY <1>1, <1>7, LastOfProperties
<1>9. a \in Nat /\ b \in Nat /\ b <= a /\ a <= l /\ b = c BY <1>2, <1>4, <1>6, <1>8
<1>10. ASSUME NEW i \in 1..b PROVE u[i] = v[i]
  <2>1. PICK j : j = a - b + i OBVIOUS
  <2>2. j \in 1..a /\ l - a + j = l - c + i BY <1>2, <1>9, <2>1
  <2>3. u[i] = t[j] /\ t[j] = s[l - a + j] BY <1>4, <1>6, <2>1, <2>2
  <2>4. v[i] = s[l - c + i] BY <1>8, <1>9
  <2> QED BY <2>2, <2>3, <2>4
<1> QED BY <1>1, <1>5, <1>6, <1>7, <1>8, <1>9, <1>10, SeqEqual

(* One more of the end of a sequence that has one more.                    *)
LEMMA LastOfAppend ==
    ASSUME NEW S, NEW s \in Seq(S), NEW e \in S, NEW n \in Nat, n <= Len(s)
    PROVE  LastOf(Append(s, e), n + 1) = Append(LastOf(s, n), e)
<1>1. PICK t, l : t = Append(s, e) /\ l = Len(s) OBVIOUS
<1>2. /\ l \in Nat /\ t \in Seq(S) /\ Len(t) = l + 1
      /\ \A i \in 1..l : t[i] = s[i]
      /\ t[l + 1] = e
  BY <1>1, LenProperties, AppendProperties
<1>3. PICK u, v : u = LastOf(t, n + 1) /\ v = LastOf(s, n) OBVIOUS
<1>4. u \in Seq(S) /\ Len(u) = n + 1 /\ \A i \in 1..(n + 1) : u[i] = t[l + 1 - (n + 1) + i]
  <2>1. PICK m : m = n + 1 OBVIOUS
  <2>2. m \in Nat /\ m <= Len(t) BY <1>1, <1>2, <2>1
  <2>3. /\ LastOf(t, m) \in Seq(S) /\ Len(LastOf(t, m)) = m
        /\ \A i \in 1..Len(LastOf(t, m)) :
              LastOf(t, m)[i] = t[Len(t) - Len(LastOf(t, m)) + i]
    BY <1>2, <2>2, LastOfProperties
  <2>4. u = LastOf(t, m) BY <1>3, <2>1
  <2> QED BY ONLY <1>2, <2>1, <2>3, <2>4
<1>5. v \in Seq(S) /\ Len(v) = n /\ \A i \in 1..n : v[i] = s[l - n + i]
  BY <1>1, <1>3, LastOfProperties
<1>6. PICK w : w = Append(v, e) OBVIOUS
<1>7. w \in Seq(S) /\ Len(w) = n + 1 /\ (\A i \in 1..n : w[i] = v[i]) /\ w[n + 1] = e
  BY <1>5, <1>6, AppendProperties
<1>8. ASSUME NEW i \in 1..(n + 1) PROVE u[i] = w[i]
  <2>1. PICK j : j = l - n + i OBVIOUS
  <2>2. j \in Int /\ l + 1 - (n + 1) + i = j BY <1>2, <2>1
  <2>3. u[i] = t[j] BY <1>4, <2>2
  <2>4. CASE i \in 1..n
    <3>1. j \in 1..l BY <1>1, <1>2, <2>1, <2>4
    <3> QED BY <1>2, <1>5, <1>7, <2>1, <2>3, <2>4, <3>1
  <2>5. CASE i = n + 1
    <3>1. j = l + 1 BY <1>2, <2>1, <2>5
    <3> QED BY <1>2, <1>7, <2>3, <2>5, <3>1
  <2> QED BY <2>4, <2>5
<1> QED BY <1>1, <1>3, <1>4, <1>6, <1>7, <1>8, SeqEqual

(* What comes n-th in a subsequence is what has n positions up to its own. *)
LEMMA SubsequenceAt ==
    ASSUME NEW S, NEW s \in Seq(S), NEW P \in SUBSET (DOMAIN s), NEW i \in P,
           NEW n, n = Cardinality({j \in P : j <= i})
    PROVE  n \in 1..Cardinality(P) /\ Subsequence(s, P)[n] = s[i]
<1>1. DOMAIN s = 1..Len(s) /\ Len(s) \in Nat BY LenProperties
<1>2. P \in SUBSET Int /\ IsFiniteSet(P)
  <2>1. IsFiniteSet(1..Len(s)) BY <1>1, FS_Interval
  <2> QED BY <1>1, <2>1, FS_Subset
<1>3. PICK c : c = Cardinality(P) OBVIOUS
<1>4. n \in 1..c
  <2>1. PICK A : A = {j \in P : j <= i} OBVIOUS
  <2>2. i \in A /\ A \subseteq P BY <1>2, <2>1
  <2>3. IsFiniteSet(A) /\ Cardinality(A) <= c BY <1>2, <1>3, <2>2, FS_Subset
  <2>4. n \in Nat /\ n # 0 BY <2>1, <2>2, <2>3, FS_CardinalityType, FS_EmptySet
  <2>5. c \in Nat BY <1>2, <1>3, FS_CardinalityType
  <2> QED BY <2>1, <2>3, <2>4, <2>5
<1>5. \A x \in P : Cardinality({j \in P : j <= x}) = n => x = i
  BY <1>2, RankTells
<1>6. (CHOOSE x \in P : Cardinality({j \in P : j <= x}) = n) = i BY <1>5
<1> QED BY <1>3, <1>4, <1>6 DEF Subsequence

(* The positions P, and the one that comes after s.                        *)
AndNext(P, s) == P \cup {Len(s) + 1}

(* What is appended changes nothing about the positions before it.         *)
LEMMA SubsequenceOfAppend ==
    ASSUME NEW S, NEW s \in Seq(S), NEW e \in S, NEW P \in SUBSET (DOMAIN s),
           NEW t, t = Append(s, e)
    PROVE  /\ Subsequence(t, P) = Subsequence(s, P)
           /\ Subsequence(t, AndNext(P, s)) = Append(Subsequence(s, P), e)
<1>0. PICK Q : Q = AndNext(P, s) OBVIOUS
<1>1. PICK l, c : l = Len(s) /\ c = Cardinality(P) /\ Q = P \cup {Len(s) + 1}
  BY <1>0 DEF AndNext
<1>2. /\ l \in Nat /\ t \in Seq(S) /\ Len(t) = l + 1
      /\ \A i \in 1..l : t[i] = s[i]
      /\ t[l + 1] = e
  BY <1>1, LenProperties, AppendProperties
<1>3. DOMAIN s = 1..l /\ DOMAIN t = 1..(l + 1) BY <1>1, <1>2, LenProperties
<1>4. P \in SUBSET (DOMAIN t) /\ Q \in SUBSET (DOMAIN t) BY <1>1, <1>2, <1>3
<1>5. P \in SUBSET Int /\ IsFiniteSet(P) /\ c \in Nat
  <2>1. IsFiniteSet(1..l) BY <1>2, FS_Interval
  <2>2. IsFiniteSet(P) BY <1>3, <2>1, FS_Subset
  <2> QED BY <1>1, <1>3, <2>2, FS_CardinalityType
<1>6. Cardinality(Q) = c + 1
  <2>1. l + 1 \notin P BY <1>2, <1>3
  <2> QED BY <1>1, <1>5, <2>1, FS_AddElement
<1>7. PICK u, v, w : /\ u = Subsequence(s, P) /\ v = Subsequence(t, P)
                     /\ w = Subsequence(t, Q)
  OBVIOUS
<1>8. u \in Seq(S) /\ Len(u) = c BY <1>1, <1>7, SubsequenceProperties
<1>9. v \in Seq(S) /\ Len(v) = c BY <1>1, <1>2, <1>4, <1>7, SubsequenceProperties
<1>10. w \in Seq(S) /\ Len(w) = c + 1 BY <1>2, <1>4, <1>6, <1>7, SubsequenceProperties
<1>11. ASSUME NEW n \in 1..c PROVE v[n] = u[n] /\ w[n] = u[n]
  <2>1. PICK i \in P : Cardinality({j \in P : j <= i}) = n
    BY <1>1, <1>5, EveryRankIsTaken
  <2>2. u[n] = s[i] BY <1>7, <2>1, SubsequenceAt
  <2>3. v[n] = t[i] BY <1>2, <1>4, <1>7, <2>1, SubsequenceAt
  <2>4. i \in Q /\ {j \in Q : j <= i} = {j \in P : j <= i}
    <3>1. i \in 1..l BY <1>3, <2>1
    <3>2. ~(l + 1 <= i) BY <1>2, <3>1
    <3> QED BY <1>1, <2>1, <3>2
  <2>5. w[n] = t[i] BY <1>2, <1>4, <1>7, <2>1, <2>4, SubsequenceAt
  <2>6. t[i] = s[i] BY <1>2, <1>3, <2>1
  <2> QED BY <2>2, <2>3, <2>5, <2>6
<1>12. w[c + 1] = e
  <2>1. PICK m, k : m = l + 1 /\ k = c + 1 OBVIOUS
  <2>2. m \in Q /\ \A j \in Q : j <= m BY <1>1, <1>2, <1>3, <2>1
  <2>3. {j \in Q : j <= m} = Q BY ONLY <2>2
  <2>4. k = Cardinality({j \in Q : j <= m}) BY <1>6, <2>1, <2>3
  <2>5. Subsequence(t, Q)[k] = t[m]
    <3>1. t \in Seq(S) /\ Q \in SUBSET (DOMAIN t) BY <1>2, <1>4
    <3> QED BY ONLY <2>2, <2>4, <3>1, SubsequenceAt
  <2> QED BY <1>2, <1>7, <2>1, <2>5
<1>13. v = u BY <1>8, <1>9, <1>11, SeqEqual
<1>14. w = Append(u, e)
  <2>1. PICK z : z = Append(u, e) OBVIOUS
  <2>2. z \in Seq(S) /\ Len(z) = c + 1 /\ (\A i \in 1..c : z[i] = u[i]) /\ z[c + 1] = e
    BY <1>8, <2>1, AppendProperties
  <2>3. \A i \in 1..(c + 1) : i \in 1..c \/ i = c + 1 BY <1>5
  <2>4. \A i \in 1..(c + 1) : w[i] = z[i] BY <1>11, <1>12, <2>2, <2>3
  <2> QED BY <1>10, <2>1, <2>2, <2>4, SeqEqual
<1> QED BY <1>0, <1>7, <1>13, <1>14
=============================================================================
