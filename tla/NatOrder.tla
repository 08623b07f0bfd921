------------------------------ MODULE NatOrder ------------------------------
(* Facts about numbers, ascending lists and pages that the proofs of the    *)
(* components share.                                                        *)
EXTENDS Iteration, FiniteSetTheorems, SequenceTheorems, TLAPS

\* A non-empty set of naturals has a least element.
LEMMA NatMin ==
    ASSUME NEW T, T \subseteq Nat, T # {}
    PROVE  \E x \in T : \A y \in T : x <= y
<1> DEFINE R == OpToRel(<, Nat)
<1>1. IsWellFoundedOn(R, Nat)
    BY NatLessThanWellFounded
<1>2. \A x, y \in Nat : <<y, x>> \in R <=> y < x
    BY DEF OpToRel
<1> HIDE DEF R
<1>3. PICK x \in T : \A y \in T : ~(<<y, x>> \in R)
    BY <1>1, WFMin, Zenon
<1>4. x \in Nat
    OBVIOUS
<1>5. \A y \in T : ~(y < x)
    BY <1>2, <1>3, <1>4, Zenon
<1>6. \A y \in T : x <= y
    BY <1>4, <1>5
<1> QED BY <1>6

\* A non-empty bounded set of naturals has a greatest element.
LEMMA NatMax ==
    ASSUME NEW n \in Nat, NEW T, T \subseteq 0 .. n, T # {}
    PROVE  \E x \in T : \A y \in T : y <= x
<1> DEFINE U == {n - i : i \in T}
<1>0. \A i \in T : i \in Int /\ n - i \in Nat
    OBVIOUS
<1>1. U \subseteq Nat /\ U # {}
    BY <1>0
<1>2. PICK u \in U : \A y \in U : u <= y
    <2> HIDE DEF U
    <2> QED BY <1>1, NatMin
<1>3. PICK x \in T : u = n - x
    OBVIOUS
<1>4. \A y \in T : n - x <= n - y
    BY <1>2, <1>3
<1>5. \A y \in T : y <= x
    BY <1>4
<1> QED BY <1>5

\* Induction, for a set in place of a predicate.
LEMMA NatSteps ==
    ASSUME NEW T, 0 \in T, \A n \in Nat : n \in T => n + 1 \in T
    PROVE  Nat \subseteq T
<1> SUFFICES ASSUME Nat \ T # {} PROVE FALSE
    OBVIOUS
<1>1. PICK n \in Nat \ T : \A m \in Nat \ T : n <= m
    BY NatMin
<1>2. n - 1 \in Nat /\ n - 1 \in T
    BY <1>1
<1> QED BY <1>1, <1>2

\* A finite function has finitely many values.
LEMMA FiniteRange ==
    ASSUME NEW f, IsFiniteSet(DOMAIN f)
    PROVE  IsFiniteSet({f[x] : x \in DOMAIN f})
<1> DEFINE R == {f[x] : x \in DOMAIN f}
           g == [x \in DOMAIN f |-> f[x]]
<1>1. g \in Surjection(DOMAIN f, R)
    BY DEF Surjection
<1> QED BY <1>1, FS_Surjection

\* A number below the modulus is its own remainder.
LEMMA ModSmall ==
    ASSUME NEW x \in Nat, NEW n \in Nat, x < n
    PROVE  x % n = x
  OBVIOUS

\* The position of a number in a set.
LEMMA Ranks ==
    ASSUME NEW S, S \subseteq Nat, IsFiniteSet(S)
    PROVE  /\ Cardinality(S) \in Nat
           /\ \A x \in S : /\ Cardinality(Below(S, x)) \in Nat
                           /\ Cardinality(Below(S, x)) < Cardinality(S)
<1>1. Cardinality(S) \in Nat
    BY FS_CardinalityType
<1>2. ASSUME NEW x \in S PROVE /\ Cardinality(Below(S, x)) \in Nat
                               /\ Cardinality(Below(S, x)) < Cardinality(S)
    <2>1. Below(S, x) \in SUBSET S /\ x \notin Below(S, x)
        BY DEF Below
    <2>2. Cardinality(Below(S, x)) <= Cardinality(S) /\ Cardinality(Below(S, x)) # Cardinality(S)
        BY <2>1, FS_Subset
    <2>3. Cardinality(Below(S, x)) \in Nat
        BY <2>1, FS_Subset, FS_CardinalityType
    <2> QED BY <1>1, <2>2, <2>3
<1> QED BY <1>1, <1>2

LEMMA RanksGrow ==
    ASSUME NEW S, S \subseteq Nat, IsFiniteSet(S), NEW x \in S, NEW y \in S, x < y
    PROVE  Cardinality(Below(S, x)) < Cardinality(Below(S, y))
<1>0. \A z \in S : z < x => z < y
    <2>1. \A z \in S : z \in Nat
        OBVIOUS
    <2> QED BY <2>1
<1>1. Below(S, y) \in SUBSET S /\ Below(S, x) \in SUBSET Below(S, y)
    BY <1>0, Zenon DEF Below
<1>2. x \in Below(S, y) /\ x \notin Below(S, x)
    BY DEF Below
<1>3. IsFiniteSet(Below(S, y))
    BY <1>1, FS_Subset
<1>4. Cardinality(Below(S, x)) <= Cardinality(Below(S, y))
    BY <1>1, <1>3, FS_Subset
<1>5. Cardinality(Below(S, x)) # Cardinality(Below(S, y))
    BY <1>1, <1>2, <1>3, FS_Subset
<1>6. Cardinality(Below(S, x)) \in Nat /\ Cardinality(Below(S, y)) \in Nat
    BY Ranks, Zenon
<1> QED BY <1>4, <1>5, <1>6

\* Every position is taken.
LEMMA RanksMeet ==
    ASSUME NEW S, S \subseteq Nat, IsFiniteSet(S), NEW i \in 1 .. Cardinality(S)
    PROVE  \E x \in S : Cardinality(Below(S, x)) = i - 1
<1> DEFINE n == Cardinality(S)
           Rank(x) == Cardinality(Below(S, x))
           f == [x \in S |-> Rank(x) + 1]
<1>0. n \in Nat /\ \A x \in S : Rank(x) \in Nat /\ Rank(x) < n
    BY Ranks, Zenon
<1>00. \A x, y \in S : x < y => Rank(x) < Rank(y)
    BY RanksGrow, Zenon
<1> HIDE DEF n, Rank
<1>1. \A x \in S : f[x] \in 1 .. n
    BY <1>0
<1>2. f \in [S -> 1 .. n]
    BY <1>1
<1>3. ASSUME NEW x \in S, NEW y \in S, x # y PROVE f[x] # f[y]
    <2>1. x < y \/ y < x
        BY <1>3
    <2>2. Rank(x) # Rank(y)
        BY <1>0, <1>00, <2>1
    <2> QED BY <1>0, <2>2
<1>4. IsFiniteSet(1 .. n) /\ Cardinality(1 .. n) = n
    BY <1>0, FS_Interval
<1>5. f \in Injection(S, 1 .. n)
    <2> HIDE DEF f, n
    <2> QED BY <1>2, <1>3 DEF Injection, IsInjective
<1>6. f \in Surjection(S, 1 .. n)
    <2> HIDE DEF f
    <2> QED BY <1>4, <1>5, FS_Injection DEF n
<1>7. PICK x \in S : f[x] = i
    <2> HIDE DEF f
    <2> QED BY <1>6 DEF Surjection, n
<1>8. Rank(x) = i - 1
    BY <1>0, <1>7
<1> QED BY <1>8 DEF Rank

\* Ascending lists every element of a set once, in order.
LEMMA AscendingLists ==
    ASSUME NEW S, S \subseteq Nat, IsFiniteSet(S)
    PROVE  /\ Cardinality(S) \in Nat
           /\ Ascending(S) \in [1 .. Cardinality(S) -> S]
           /\ \A i, j \in 1 .. Cardinality(S) : i < j => Ascending(S)[i] < Ascending(S)[j]
           /\ \A x \in S : \E i \in 1 .. Cardinality(S) : Ascending(S)[i] = x
<1> DEFINE n == Cardinality(S)
           Rank(x) == Cardinality(Below(S, x))
<1>1. n \in Nat /\ \A x \in S : Rank(x) \in Nat /\ Rank(x) < n
    BY Ranks, Zenon
<1>0. \A x, y \in S : x < y => Rank(x) < Rank(y)
    BY RanksGrow, Zenon
<1>2. ASSUME NEW i \in 1 .. n PROVE Ascending(S)[i] \in S /\ Rank(Ascending(S)[i]) = i - 1
    <2>1. \E x \in S : Rank(x) = i - 1
        BY RanksMeet, Zenon
    <2>2. Ascending(S)[i] = CHOOSE x \in S : Rank(x) = i - 1
        BY DEF Ascending
    <2> QED BY <2>1, <2>2, Zenon
<1>3. Ascending(S) \in [1 .. n -> S]
    <2>1. Ascending(S) = [i \in 1 .. n |-> Ascending(S)[i]]
        BY DEF Ascending
    <2> HIDE DEF Rank
    <2> QED BY <1>2, <2>1, Zenon
<1> HIDE DEF Rank, n
<1>9. \A x, y \in S : x < y \/ y < x \/ x = y
    <2>1. \A x \in S : x \in Nat
        OBVIOUS
    <2> QED BY <2>1
<1>4. ASSUME NEW x \in S, NEW y \in S, Rank(x) < Rank(y) PROVE x < y
    BY <1>0, <1>1, <1>4, <1>9
<1>5. ASSUME NEW x \in S, NEW y \in S, Rank(x) = Rank(y) PROVE x = y
    BY <1>0, <1>1, <1>5, <1>9
<1>6. ASSUME NEW i \in 1 .. n, NEW j \in 1 .. n, i < j
      PROVE  Ascending(S)[i] < Ascending(S)[j]
    <2>1. Rank(Ascending(S)[i]) < Rank(Ascending(S)[j])
        BY <1>1, <1>2, <1>6
    <2> QED BY <1>2, <1>4, <2>1
<1>7. ASSUME NEW x \in S PROVE \E i \in 1 .. n : Ascending(S)[i] = x
    <2> DEFINE j == Rank(x) + 1
    <2>1. j \in 1 .. n /\ j - 1 = Rank(x)
        BY <1>1
    <2> HIDE DEF j
    <2>2. Rank(Ascending(S)[j]) = Rank(x) /\ Ascending(S)[j] \in S
        BY <1>2, <2>1, Zenon
    <2> QED BY <1>5, <2>1, <2>2, Zenon
<1> QED BY <1>1, <1>3, <1>6, <1>7 DEF n

\* The same of a set of positions.
LEMMA AscendingPositions ==
    ASSUME NEW n \in Nat, NEW S, S \subseteq 1 .. n
    PROVE  \E m \in Nat :
               /\ Ascending(S) \in [1 .. m -> S]
               /\ \A i, j \in 1 .. m : i < j => Ascending(S)[i] < Ascending(S)[j]
               /\ \A x \in S : \E i \in 1 .. m : Ascending(S)[i] = x
<1>1. IsFiniteSet(1 .. n)
    BY FS_Interval
<1>2. IsFiniteSet(S)
    BY <1>1, FS_Subset
<1>3. S \subseteq Nat
    OBVIOUS
<1> QED BY <1>2, <1>3, AscendingLists, Zenon

\* A set has as many elements as a list of them without repetition.
LEMMA CountList ==
    ASSUME NEW n \in Nat, NEW S, NEW f \in [1 .. n -> S],
           \A i, j \in 1 .. n : f[i] = f[j] => i = j,
           \A x \in S : \E i \in 1 .. n : f[i] = x
    PROVE  IsFiniteSet(S) /\ Cardinality(S) = n
<1>1. f \in Bijection(1 .. n, S)
    BY DEF Bijection, Injection, Surjection, IsInjective
<1>2. IsFiniteSet(1 .. n) /\ Cardinality(1 .. n) = n
    BY FS_Interval
<1> QED BY <1>1, <1>2, FS_Bijection DEF ExistsBijection

\* There is one ascending list of a set.
LEMMA AscendingUnique ==
    ASSUME NEW S, S \subseteq Nat, NEW n \in Nat, NEW f \in [1 .. n -> S],
           \A i, j \in 1 .. n : i < j => f[i] < f[j],
           \A x \in S : \E i \in 1 .. n : f[i] = x
    PROVE  Cardinality(S) = n /\ IsFiniteSet(S) /\ Ascending(S) = f
<1>1. \A i \in 1 .. n : f[i] \in S /\ f[i] \in Nat
    OBVIOUS
<1>2. \A i, j \in 1 .. n : f[i] = f[j] => i = j
    <2> SUFFICES ASSUME NEW i \in 1 .. n, NEW j \in 1 .. n, i < j PROVE f[i] # f[j]
        OBVIOUS
    <2>1. f[i] < f[j]
        OBVIOUS
    <2> QED BY <1>1, <2>1
<1>3. Cardinality(S) = n /\ IsFiniteSet(S)
    BY <1>2, CountList, Zenon
<1> DEFINE Rank(x) == Cardinality(Below(S, x))
<1>4. ASSUME NEW i \in 1 .. n PROVE Rank(f[i]) = i - 1
    <2> DEFINE B == Below(S, f[i])
               g == [j \in 1 .. i - 1 |-> f[j]]
    <2>1. \A j \in 1 .. n : f[j] < f[i] <=> j < i
        <3> SUFFICES ASSUME NEW j \in 1 .. n PROVE f[j] < f[i] <=> j < i
            OBVIOUS
        <3>1. CASE j < i
            BY <3>1
        <3>2. CASE i <= j
            <4>1. f[i] <= f[j]
                BY <1>1, <3>2
            <4> QED BY <1>1, <3>2, <4>1
        <3> QED BY <3>1, <3>2
    <2>2. i - 1 \in Nat /\ \A j \in 1 .. i - 1 : j \in 1 .. n /\ j < i
        OBVIOUS
    <2>3. g \in [1 .. i - 1 -> B]
        BY <2>1, <2>2 DEF Below
    <2>4. \A x \in B : \E j \in 1 .. i - 1 : g[j] = x
        <3> SUFFICES ASSUME NEW x \in S, x < f[i] PROVE \E j \in 1 .. i - 1 : f[j] = x
            BY DEF Below
        <3>1. PICK j \in 1 .. n : f[j] = x
            OBVIOUS
        <3>2. j \in 1 .. i - 1
            BY <2>1, <3>1
        <3> QED BY <3>1, <3>2
    <2>5. \A j, k \in 1 .. i - 1 : g[j] = g[k] => j = k
        BY <1>2, <2>2
    <2> HIDE DEF g, B
    <2>6. Cardinality(B) = i - 1
        BY <2>2, <2>3, <2>4, <2>5, CountList
    <2> QED BY <2>6 DEF B
<1>5. \A x, y \in S : x < y => Rank(x) < Rank(y)
    BY <1>3, RanksGrow, Zenon
<1>6. \A x \in S : Rank(x) \in Nat
    BY <1>3, Ranks, Zenon
<1> HIDE DEF Rank
<1>7. \A x, y \in S : Rank(x) = Rank(y) => x = y
    <2> SUFFICES ASSUME NEW x \in S, NEW y \in S, x # y PROVE Rank(x) # Rank(y)
        OBVIOUS
    <2>1. x < y \/ y < x
        OBVIOUS
    <2> QED BY <1>5, <1>6, <2>1
<1>8. ASSUME NEW i \in 1 .. n PROVE (CHOOSE x \in S : Rank(x) = i - 1) = f[i]
    <2> DEFINE c == CHOOSE x \in S : Rank(x) = i - 1
    <2>1. f[i] \in S /\ Rank(f[i]) = i - 1
        BY <1>1, <1>4
    <2>2. c \in S /\ Rank(c) = i - 1
        BY <2>1, Zenon
    <2> HIDE DEF c
    <2>3. c = f[i]
        BY <1>7, <2>1, <2>2
    <2> QED BY <2>3 DEF c
<1>9. Ascending(S) = [i \in 1 .. n |-> CHOOSE x \in S : Rank(x) = i - 1]
    BY <1>3 DEF Ascending, Rank
<1>10. Ascending(S) = [i \in 1 .. n |-> f[i]]
    BY <1>8, <1>9, Zenon
<1> QED BY <1>3, <1>10

\* What is left of an ascending list after its first elements is one itself.
LEMMA AscendingTail ==
    ASSUME NEW S, S \subseteq Nat, IsFiniteSet(S), NEW k \in 0 .. Cardinality(S), NEW T,
           T = {Ascending(S)[j] : j \in k + 1 .. Cardinality(S)}
    PROVE  /\ Cardinality(T) = Cardinality(S) - k
           /\ \A i \in 1 .. Cardinality(S) - k : Ascending(T)[i] = Ascending(S)[k + i]
<1> DEFINE n == Cardinality(S)
           A == Ascending(S)
           f == [i \in 1 .. n - k |-> A[k + i]]
<1>1. n \in Nat /\ A \in [1 .. n -> S]
    BY AscendingLists, Zenon
<1>2. \A i, j \in 1 .. n : i < j => A[i] < A[j]
    BY AscendingLists, Zenon
<1> HIDE DEF n, A
<1>3. k \in 0 .. n /\ T = {A[j] : j \in k + 1 .. n}
    BY DEF n, A
<1>4. n - k \in Nat /\ \A i \in 1 .. n - k : k + i \in k + 1 .. n /\ k + i \in 1 .. n
    BY <1>1, <1>3
<1>5. f \in [1 .. n - k -> T]
    BY <1>3, <1>4
<1>6. ASSUME NEW i \in 1 .. n - k, NEW j \in 1 .. n - k, i < j PROVE f[i] < f[j]
    <2>1. k + i \in 1 .. n /\ k + j \in 1 .. n /\ k + i < k + j
        BY <1>1, <1>3, <1>4, <1>6
    <2> QED BY <1>2, <2>1
<1>7. ASSUME NEW x \in T PROVE \E i \in 1 .. n - k : f[i] = x
    <2>1. PICK j \in k + 1 .. n : A[j] = x
        BY <1>3
    <2>2. j - k \in 1 .. n - k /\ k + (j - k) = j
        BY <1>1, <1>3
    <2>3. f[j - k] = x
        BY <2>1, <2>2
    <2> QED BY <2>2, <2>3
<1>8. T \subseteq Nat
    <2>1. \A j \in k + 1 .. n : j \in 1 .. n
        BY <1>1, <1>3
    <2> QED BY <1>1, <1>3, <2>1
<1>9. \A i \in 1 .. n - k : f[i] = A[k + i]
    OBVIOUS
<1> HIDE DEF f
<1>10. Cardinality(T) = n - k /\ Ascending(T) = f
    BY <1>4, <1>5, <1>6, <1>7, <1>8, AscendingUnique
<1> QED BY <1>9, <1>10 DEF n, A

-----------------------------------------------------------------------------
(* Pages.                                                                   *)

Least(x, y) == IF x <= y THEN x ELSE y

\* F joins the first parts, one after the other.
Joins(F, parts) ==
    F = [i \in 1 .. Len(parts) |-> IF i = 1 THEN parts[i] ELSE F[i - 1] \o parts[i]]

\* Parts of a sequence that follow each other from its beginning to its end join to it.
LEMMA PartsJoin ==
    ASSUME NEW T, NEW all \in Seq(T), NEW n \in Nat \ {0}, NEW parts, Len(parts) = n,
           NEW e \in [0 .. n -> 0 .. Len(all)], e[0] = 0, e[n] = Len(all),
           \A i \in 1 .. n : e[i - 1] <= e[i] /\ parts[i] = SubSeq(all, e[i - 1] + 1, e[i])
    PROVE  (CHOOSE F : Joins(F, parts))[n] = all
<1> DEFINE G == [i \in 1 .. n |-> SubSeq(all, 1, e[i])]
           F == CHOOSE f : Joins(f, parts)
<1>1. ASSUME NEW i \in 1 .. n
      PROVE  G[i] = IF i = 1 THEN parts[i] ELSE G[i - 1] \o parts[i]
    <2>1. /\ e[i - 1] \in 0 .. Len(all) /\ e[i] \in 0 .. Len(all) /\ e[i - 1] <= e[i]
          /\ Len(all) \in Nat
        OBVIOUS
    <2>2. CASE i = 1
        <3>1. parts[i] = SubSeq(all, e[i - 1] + 1, e[i])
            OBVIOUS
        <3>2. e[i - 1] + 1 = 1
            BY <2>2
        <3> QED BY <2>2, <3>1, <3>2
    <2>3. CASE i # 1
        <3>1. i - 1 \in 1 .. n
            BY <2>3
        <3>2. /\ 1 \in 1 .. Len(all) + 1 /\ e[i - 1] \in 1 - 1 .. Len(all)
              /\ e[i] \in e[i - 1] .. Len(all)
            BY <2>1
        <3>3. SubSeq(all, 1, e[i - 1]) \o SubSeq(all, e[i - 1] + 1, e[i])
                  = SubSeq(all, 1, e[i])
            BY <3>2, ConcatAdjacentSubSeq
        <3> QED BY <2>3, <3>1, <3>3
    <2> QED BY <2>2, <2>3
<1>2. Joins(G, parts)
    <2>1. G = [i \in 1 .. n |-> G[i]]
        OBVIOUS
    <2> HIDE DEF G
    <2> QED BY <1>1, <2>1 DEF Joins
<1>3. Joins(F, parts)
    BY <1>2
<1> HIDE DEF G, F
<1>4. \A i \in 1 .. n : F[i] = IF i = 1 THEN parts[i] ELSE F[i - 1] \o parts[i]
    BY <1>3 DEF Joins
<1> DEFINE Same == {i \in Nat : i \in 1 .. n => F[i] = G[i]}
<1>5. 0 \in Same
    OBVIOUS
<1>6. ASSUME NEW i \in Nat, i \in Same PROVE i + 1 \in Same
    <2> SUFFICES ASSUME i + 1 \in 1 .. n PROVE F[i + 1] = G[i + 1]
        OBVIOUS
    <2>1. /\ F[i + 1] = IF i + 1 = 1 THEN parts[i + 1] ELSE F[i + 1 - 1] \o parts[i + 1]
          /\ G[i + 1] = IF i + 1 = 1 THEN parts[i + 1] ELSE G[i + 1 - 1] \o parts[i + 1]
        BY <1>1, <1>4
    <2>2. i + 1 - 1 = i /\ (i + 1 # 1 => i \in 1 .. n)
        OBVIOUS
    <2>3. i + 1 # 1 => F[i] = G[i]
        BY <1>6, <2>2
    <2> QED BY <2>1, <2>2, <2>3
<1>7. n \in Same
    <2> HIDE DEF Same
    <2> QED BY <1>5, <1>6, NatSteps
<1>8. F[n] = G[n]
    BY <1>7
<1>9. G[n] = all
    BY SubSeqFull DEF G
<1> QED BY <1>8, <1>9 DEF F

-----------------------------------------------------------------------------
(* Recursion.                                                               *)

\* What holds of an element when it holds of all of lower rank holds of all.
LEMMA RankSteps ==
    ASSUME NEW D, NEW rank \in [D -> Nat], NEW P,
           \A x \in D : (\A y \in D : rank[y] < rank[x] => y \in P) => x \in P
    PROVE  D \subseteq P
<1> SUFFICES ASSUME D \ P # {} PROVE FALSE
    OBVIOUS
<1> DEFINE R == {rank[x] : x \in D \ P}
<1>1. R \subseteq Nat /\ R # {}
    OBVIOUS
<1>2. PICK r \in R : \A q \in R : r <= q
    <2> HIDE DEF R
    <2> QED BY <1>1, NatMin
<1>3. PICK x \in D \ P : rank[x] = r
    OBVIOUS
<1>4. ASSUME NEW y \in D, rank[y] < rank[x] PROVE y \in P
    <2>1. rank[y] \in Nat /\ rank[x] \in Nat
        OBVIOUS
    <2>2. y \in D \ P => rank[x] <= rank[y]
        BY <1>2, <1>3
    <2> QED BY <1>4, <2>1, <2>2
<1> QED BY <1>3, <1>4

\* g computes its values below rank n from those of lower rank.
Computes(g, n, D, V, rank, stop, base, next, step) ==
    /\ g \in [D -> V]
    /\ \A x \in D : rank[x] < n =>
           g[x] = IF x \in stop THEN base[x] ELSE step[<<x, g[next[x]]>>]

\* Each step leads to a lower rank.
Descends(D, V, rank, stop, base, next, step) ==
    /\ rank \in [D -> Nat] /\ base \in [D -> V]
    /\ next \in [D -> D] /\ step \in [(D \X V) -> V]
    /\ \A x \in D : x \notin stop => rank[next[x]] < rank[x]

\* A function can be defined by recursion to arguments of lower rank.
LEMMA Recursion ==
    ASSUME NEW D, NEW V, NEW rank, NEW stop, NEW base, NEW next, NEW step,
           Descends(D, V, rank, stop, base, next, step)
    PROVE  \E f \in [D -> V] :
               f = [x \in D |-> IF x \in stop THEN base[x] ELSE step[<<x, f[next[x]]>>]]
<1>a. /\ rank \in [D -> Nat] /\ base \in [D -> V]
      /\ next \in [D -> D] /\ step \in [(D \X V) -> V]
      /\ \A x \in D : x \notin stop => rank[next[x]] < rank[x]
    BY DEF Descends
<1> USE <1>a
<1> DEFINE Fits(g, n) == Computes(g, n, D, V, rank, stop, base, next, step)
           N    == {n \in Nat : \E g : Fits(g, n)}
           G(n) == CHOOSE g : Fits(g, n)
           F    == [x \in D |-> G(rank[x] + 1)[x]]
<1>0. \A x \in D : rank[x] \in Nat /\ next[x] \in D
    OBVIOUS
<1>1. 0 \in N
    <2>1. Fits(base, 0)
        BY <1>0 DEF Computes
    <2> QED BY <2>1
<1>2. ASSUME NEW n \in Nat, n \in N PROVE n + 1 \in N
    <2>1. PICK g : Fits(g, n)
        BY <1>2
    <2> DEFINE h == [x \in D |-> IF x \in stop THEN base[x] ELSE step[<<x, g[next[x]]>>]]
    <2>2. g \in [D -> V] /\ h \in [D -> V]
        BY <2>1 DEF Computes
    <2>3. ASSUME NEW x \in D, rank[x] < n + 1
          PROVE  h[x] = IF x \in stop THEN base[x] ELSE step[<<x, h[next[x]]>>]
        <3>1. CASE x \in stop
            BY <3>1
        <3>2. CASE x \notin stop
            <4>1. next[x] \in D /\ rank[next[x]] < n
                BY <1>0, <2>3, <3>2
            <4>2. g[next[x]] = h[next[x]]
                BY <2>1, <4>1 DEF Computes
            <4> QED BY <3>2, <4>2
        <3> QED BY <3>1, <3>2
    <2> HIDE DEF h
    <2>4. Fits(h, n + 1)
        BY <2>2, <2>3 DEF Computes
    <2> QED BY <2>4
<1>3. \A n \in Nat : Fits(G(n), n)
    <2>1. Nat \subseteq N
        <3> HIDE DEF N
        <3> QED BY <1>1, <1>2, NatSteps
    <2> HIDE DEF Fits
    <2> QED BY <2>1
<1>4. ASSUME NEW g, NEW h, NEW n \in Nat, NEW m \in Nat, Fits(g, n), Fits(h, m)
      PROVE  \A x \in D : rank[x] < n /\ rank[x] < m => g[x] = h[x]
    <2> DEFINE P == {x \in D : rank[x] < n /\ rank[x] < m => g[x] = h[x]}
    <2>1. ASSUME NEW x \in D, \A y \in D : rank[y] < rank[x] => y \in P
          PROVE  x \in P
        <3> SUFFICES ASSUME rank[x] < n, rank[x] < m PROVE g[x] = h[x]
            OBVIOUS
        <3>1. CASE x \in stop
            BY <1>4, <3>1 DEF Computes
        <3>2. CASE x \notin stop
            <4>1. next[x] \in D /\ rank[next[x]] < rank[x]
                BY <1>0, <3>2
            <4>2. rank[next[x]] < n /\ rank[next[x]] < m
                BY <1>0, <4>1
            <4>3. g[next[x]] = h[next[x]]
                BY <2>1, <4>1, <4>2
            <4>4. g[x] = step[<<x, g[next[x]]>>] /\ h[x] = step[<<x, h[next[x]]>>]
                BY <1>4, <3>2 DEF Computes
            <4> QED BY <4>3, <4>4
        <3> QED BY <3>1, <3>2
    <2>2. D \subseteq P
        <3> HIDE DEF P
        <3> QED BY <2>1, RankSteps
    <2> QED BY <2>2
<1> HIDE DEF G
<1>5. ASSUME NEW x \in D
      PROVE  F[x] \in V /\ F[x] = IF x \in stop THEN base[x] ELSE step[<<x, F[next[x]]>>]
    <2>1. rank[x] \in Nat /\ rank[x] + 1 \in Nat /\ rank[x] < rank[x] + 1 /\ next[x] \in D
        BY <1>0
    <2> DEFINE g == G(rank[x] + 1)
    <2>2. Fits(g, rank[x] + 1)
        BY <1>3, <2>1
    <2>3. F[x] = g[x] /\ F[next[x]] = G(rank[next[x]] + 1)[next[x]]
        BY <2>1
    <2> HIDE DEF g, F
    <2>4. g \in [D -> V] /\ g[x] = IF x \in stop THEN base[x] ELSE step[<<x, g[next[x]]>>]
        BY <2>1, <2>2 DEF Computes
    <2>5. CASE x \in stop
        BY <2>3, <2>4, <2>5
    <2>6. CASE x \notin stop
        <3>1. rank[next[x]] < rank[x] /\ rank[next[x]] \in Nat
            BY <1>0, <2>6
        <3>2. /\ rank[next[x]] + 1 \in Nat /\ rank[next[x]] < rank[next[x]] + 1
              /\ rank[next[x]] < rank[x] + 1
            BY <2>1, <3>1
        <3>3. Fits(G(rank[next[x]] + 1), rank[next[x]] + 1)
            BY <1>3, <3>2
        <3> HIDE DEF Fits
        <3>4. G(rank[next[x]] + 1)[next[x]] = g[next[x]]
            BY <1>4, <2>1, <2>2, <3>2, <3>3
        <3> QED BY <2>3, <2>4, <2>6, <3>4
    <2> QED BY <2>5, <2>6
<1>6. F \in [D -> V] /\ F = [x \in D |-> F[x]]
    <2>1. F = [x \in D |-> F[x]]
        OBVIOUS
    <2> HIDE DEF F
    <2> QED BY <1>5, <2>1
<1> HIDE DEF F
<1>7. F = [x \in D |-> IF x \in stop THEN base[x] ELSE step[<<x, F[next[x]]>>]]
    BY <1>5, <1>6
<1> QED BY <1>6, <1>7
=============================================================================
