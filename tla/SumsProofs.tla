------------------------------ MODULE SumsProofs ------------------------------
(* Sums over finite sets, SumFunction(f) of the community modules: a fold is   *)
(* a recursive function, and what it computes is shown by induction over the   *)
(* subsets of its domain. Induction is a fact about sets here (a set of        *)
(* naturals with 0 and all successors is Nat), not about predicates.           *)
EXTENDS FiniteSetsExt, FiniteSetTheorems, TLAPS

\* A set of naturals has a least element, which is its Min.
LEMMA LeastNatural ==
    ASSUME NEW S \in SUBSET Nat, S # {}
    PROVE  Min(S) \in S /\ \A y \in S : Min(S) <= y
  <1>1. PICK n \in S : \A m \in S : ~(<<m, n>> \in OpToRel(<, Nat))
    BY WFMin, NatLessThanWellFounded, Zenon
  <1>2. \A m \in S : ~(m < n)
    BY <1>1 DEF OpToRel
  <1>3. \A m \in S : n <= m
    BY <1>2
  <1> QED
    BY <1>3 DEF Min

\* Induction over the naturals
LEMMA SetOfNaturals ==
    ASSUME NEW S, 0 \in S, \A n \in Nat : n \in S => n + 1 \in S
    PROVE  Nat \subseteq S
  <1> SUFFICES ASSUME Nat \ S # {}
               PROVE  FALSE
    OBVIOUS
  <1>1. PICK n \in Nat \ S : \A m \in Nat \ S : n <= m
    BY LeastNatural
  <1>2. n # 0 /\ n - 1 \in Nat /\ n - 1 \in S
    BY <1>1
  <1> QED
    BY <1>2

LEMMA MinOfTwo ==
    ASSUME NEW m \in Int, NEW n \in Int
    PROVE  Min({m, n}) = IF m <= n THEN m ELSE n
  <1>1. Min({m, n}) = CHOOSE x \in {m, n} : \A y \in {m, n} : x <= y
    BY DEF Min
  <1>2. \E x \in {m, n} : \A y \in {m, n} : x <= y
    OBVIOUS
  <1> QED
    BY <1>1, <1>2

LEMMA MaxOfTwo ==
    ASSUME NEW m \in Int, NEW n \in Int
    PROVE  Max({m, n}) = IF m >= n THEN m ELSE n
  <1>1. Max({m, n}) = CHOOSE x \in {m, n} : \A y \in {m, n} : x >= y
    BY DEF Max
  <1>2. \E x \in {m, n} : \A y \in {m, n} : x >= y
    OBVIOUS
  <1> QED
    BY <1>1, <1>2

\* The element a fold takes next, and what it leaves
Taken(s) == CHOOSE x \in s : TRUE
Left(s)  == s \ {Taken(s)}

LEMMA TakeOne ==
    ASSUME NEW D, IsFiniteSet(D), NEW s \in SUBSET D
    PROVE  /\ Cardinality(s) \in Nat
           /\ Cardinality(s) <= Cardinality(D)
           /\ s = {} <=> Cardinality(s) = 0
           /\ s # {} => /\ Taken(s) \in s
                        /\ Left(s) \in SUBSET D
                        /\ Cardinality(Left(s)) = Cardinality(s) - 1
  <1>1. IsFiniteSet(s) /\ Cardinality(s) \in Nat /\ Cardinality(s) <= Cardinality(D)
    BY FS_Subset, FS_CardinalityType
  <1>2. s # {} => Taken(s) \in s
    BY DEF Taken
  <1> QED
    BY <1>1, <1>2, FS_EmptySet, FS_RemoveElement DEF Left

\* What holds of the empty set, and of a set when it holds of what a fold leaves of it,
\* holds of every subset of a finite set.
LEMMA SubsetInduction ==
    ASSUME NEW D, IsFiniteSet(D), NEW G, {} \in G,
           \A s \in SUBSET D : s # {} /\ Left(s) \in G => s \in G
    PROVE  SUBSET D \subseteq G
  <1> DEFINE upTo(n) == \A s \in SUBSET D : Cardinality(s) <= n => s \in G
             good    == {n \in Nat : upTo(n)}
  <1>1. upTo(0)
    <2>1. \A s \in SUBSET D : Cardinality(s) <= 0 => s = {}
      BY TakeOne
    <2> QED
      BY <2>1
  <1>2. ASSUME NEW n \in Nat, upTo(n)
        PROVE  upTo(n + 1)
    BY <1>2, TakeOne
  <1>3. 0 \in good /\ \A n \in Nat : n \in good => n + 1 \in good
    <2> HIDE DEF upTo
    <2> QED
      BY <1>1, <1>2
  <1>4. Cardinality(D) \in good
    <2> HIDE DEF good
    <2> QED
      BY <1>3, SetOfNaturals, TakeOne
  <1> QED
    BY <1>4, TakeOne

-----------------------------------------------------------------------------
(* The sum exists.                                                         *)

\* it holds the sums of the subsets of D.
Summing(f, D, it) ==
    it = [s \in SUBSET D |-> IF s = {} THEN 0 ELSE f[Taken(s)] + it[Left(s)]]

LEMMA SummingExists ==
    ASSUME NEW D, IsFiniteSet(D), NEW f \in [D -> Int]
    PROVE  \E it : Summing(f, D, it)
  <1> DEFINE upTo(it, n) ==
                 \A s \in SUBSET D :
                     Cardinality(s) <= n =>
                         it[s] = IF s = {} THEN 0 ELSE f[Taken(s)] + it[Left(s)]
             good == {n \in Nat : \E it \in [SUBSET D -> Int] : upTo(it, n)}
  <1>1. 0 \in good
    <2> DEFINE zero == [s \in SUBSET D |-> 0]
    <2>1. zero \in [SUBSET D -> Int] /\ upTo(zero, 0)
      BY TakeOne
    <2> HIDE DEF upTo, zero
    <2> QED
      BY <2>1
  <1>2. ASSUME NEW n \in Nat, n \in good
        PROVE  n + 1 \in good
    <2>1. PICK it \in [SUBSET D -> Int] : upTo(it, n)
      BY <1>2
    <2> DEFINE next == [s \in SUBSET D |-> IF Cardinality(s) <= n THEN it[s]
                                           ELSE f[Taken(s)] + it[Left(s)]]
    <2>2. next \in [SUBSET D -> Int]
      BY TakeOne
    <2>3. upTo(next, n + 1)
      BY <2>1, TakeOne
    <2> HIDE DEF upTo, next
    <2> QED
      BY <2>2, <2>3
  <1>3. Cardinality(D) \in good
    <2> HIDE DEF good
    <2> QED
      BY <1>1, <1>2, SetOfNaturals, TakeOne
  <1>4. PICK it \in [SUBSET D -> Int] : upTo(it, Cardinality(D))
    BY <1>3
  <1> QED
    BY <1>4, TakeOne DEF Summing

\* The sum of f is that of the last of the partial sums.
LEMMA PartialSums ==
    ASSUME NEW D, IsFiniteSet(D), NEW f \in [D -> Int]
    PROVE  \E it \in [SUBSET D -> Int] :
               /\ it[{}] = 0
               /\ \A s \in SUBSET D : s # {} => it[s] = f[Taken(s)] + it[Left(s)]
               /\ SumFunction(f) = it[D]
  <1> DEFINE it == CHOOSE it : Summing(f, D, it)
  <1>1. SumFunction(f) = it[D]
    <2>1. DOMAIN f = D
      OBVIOUS
    <2>2. SumFunction(f) = (CHOOSE p : Summing(f, DOMAIN f, p))[DOMAIN f]
      BY Zenon DEF SumFunction, SumFunctionOnSet, FoldFunctionOnSet, MapThenFoldSet,
                   Summing, Taken, Left
    <2> QED
      BY <2>1, <2>2
  <1>2. Summing(f, D, it)
    BY SummingExists, Zenon
  <1> HIDE DEF it
  <1> DEFINE typed == {s \in SUBSET D : it[s] \in Int}
  <1>3. SUBSET D \subseteq typed
    <2>1. {} \in typed
      BY <1>2 DEF Summing
    <2>2. \A s \in SUBSET D : s # {} /\ Left(s) \in typed => s \in typed
      BY <1>2, TakeOne DEF Summing
    <2> HIDE DEF typed
    <2> QED
      BY <2>1, <2>2, SubsetInduction
  <1>4. it \in [SUBSET D -> Int]
    BY <1>2, <1>3 DEF Summing
  <1>5. it[{}] = 0 /\ \A s \in SUBSET D : s # {} => it[s] = f[Taken(s)] + it[Left(s)]
    BY <1>2 DEF Summing
  <1> QED
    BY <1>1, <1>4, <1>5

-----------------------------------------------------------------------------
(* What the sums satisfy.                                                  *)

LEMMA SumType ==
    ASSUME NEW D, IsFiniteSet(D), NEW f \in [D -> Int]
    PROVE  SumFunction(f) \in Int
  <1>1. PICK F \in [SUBSET D -> Int] : SumFunction(f) = F[D]
    BY PartialSums
  <1> QED
    BY <1>1

LEMMA SumIsLinear ==
    ASSUME NEW D, IsFiniteSet(D), NEW f \in [D -> Int], NEW g \in [D -> Int],
           NEW a \in Int, NEW b \in Int
    PROVE  SumFunction([d \in D |-> a * f[d] + b * g[d]])
               = a * SumFunction(f) + b * SumFunction(g)
  <1> DEFINE h == [d \in D |-> a * f[d] + b * g[d]]
  <1>1. h \in [D -> Int]
    OBVIOUS
  <1>2. PICK F \in [SUBSET D -> Int] :
            /\ F[{}] = 0
            /\ \A s \in SUBSET D : s # {} => F[s] = f[Taken(s)] + F[Left(s)]
            /\ SumFunction(f) = F[D]
    BY PartialSums
  <1>3. PICK G \in [SUBSET D -> Int] :
            /\ G[{}] = 0
            /\ \A s \in SUBSET D : s # {} => G[s] = g[Taken(s)] + G[Left(s)]
            /\ SumFunction(g) = G[D]
    BY PartialSums
  <1>4. PICK H \in [SUBSET D -> Int] :
            /\ H[{}] = 0
            /\ \A s \in SUBSET D : s # {} => H[s] = h[Taken(s)] + H[Left(s)]
            /\ SumFunction(h) = H[D]
    <2> HIDE DEF h
    <2> QED
      BY <1>1, PartialSums
  <1> DEFINE linear == {s \in SUBSET D : H[s] = a * F[s] + b * G[s]}
  <1>5. {} \in linear
    BY <1>2, <1>3, <1>4
  <1>6. ASSUME NEW s \in SUBSET D, s # {}, Left(s) \in linear
        PROVE  s \in linear
    <2>1. Taken(s) \in D /\ Left(s) \in SUBSET D
      BY <1>6, TakeOne
    <2>2. H[s] = a * f[Taken(s)] + b * g[Taken(s)] + H[Left(s)]
      BY <1>4, <1>6, <2>1
    <2>3. H[Left(s)] = a * F[Left(s)] + b * G[Left(s)]
      BY <1>6
    <2>4. F[s] = f[Taken(s)] + F[Left(s)] /\ G[s] = g[Taken(s)] + G[Left(s)]
      BY <1>2, <1>3, <1>6
    <2> QED
      BY <2>1, <2>2, <2>3, <2>4
  <1>7. SUBSET D \subseteq linear
    <2> HIDE DEF linear
    <2> QED
      BY <1>5, <1>6, SubsetInduction
  <1> QED
    BY <1>2, <1>3, <1>4, <1>7

LEMMA SumIsMonotonic ==
    ASSUME NEW D, IsFiniteSet(D), NEW f \in [D -> Int], NEW g \in [D -> Int],
           \A d \in D : f[d] <= g[d]
    PROVE  SumFunction(f) <= SumFunction(g)
  <1>2. PICK F \in [SUBSET D -> Int] :
            /\ F[{}] = 0
            /\ \A s \in SUBSET D : s # {} => F[s] = f[Taken(s)] + F[Left(s)]
            /\ SumFunction(f) = F[D]
    BY PartialSums
  <1>3. PICK G \in [SUBSET D -> Int] :
            /\ G[{}] = 0
            /\ \A s \in SUBSET D : s # {} => G[s] = g[Taken(s)] + G[Left(s)]
            /\ SumFunction(g) = G[D]
    BY PartialSums
  <1> DEFINE below == {s \in SUBSET D : F[s] <= G[s]}
  <1>4. {} \in below
    BY <1>2, <1>3
  <1>5. ASSUME NEW s \in SUBSET D, s # {}, Left(s) \in below
        PROVE  s \in below
    BY <1>2, <1>3, <1>5, TakeOne
  <1>6. SUBSET D \subseteq below
    <2> HIDE DEF below
    <2> QED
      BY <1>4, <1>5, SubsetInduction
  <1> QED
    BY <1>2, <1>3, <1>6

\* Of a function that is c at the elements of S, and 0 elsewhere
LEMMA SumOfIndicator ==
    ASSUME NEW D, IsFiniteSet(D), NEW S \in SUBSET D, NEW c \in Int
    PROVE  SumFunction([d \in D |-> IF d \in S THEN c ELSE 0]) = c * Cardinality(S)
  <1> DEFINE f == [d \in D |-> IF d \in S THEN c ELSE 0]
  <1>1. f \in [D -> Int]
    OBVIOUS
  <1>2. PICK F \in [SUBSET D -> Int] :
            /\ F[{}] = 0
            /\ \A s \in SUBSET D : s # {} => F[s] = f[Taken(s)] + F[Left(s)]
            /\ SumFunction(f) = F[D]
    <2> HIDE DEF f
    <2> QED
      BY <1>1, PartialSums
  <1> DEFINE counted == {s \in SUBSET D : F[s] = c * Cardinality(s \cap S)}
  <1>3. {} \in counted
    BY <1>2, FS_EmptySet
  <1>4. ASSUME NEW s \in SUBSET D, s # {}, Left(s) \in counted
        PROVE  s \in counted
    <2>1. Taken(s) \in s /\ Left(s) \in SUBSET D
      BY <1>4, TakeOne
    <2>2. F[s] = f[Taken(s)] + c * Cardinality(Left(s) \cap S)
      BY <1>2, <1>4
    <2>3. IsFiniteSet(s \cap S) /\ Cardinality(s \cap S) \in Nat
      BY FS_Subset, FS_CardinalityType
    <2>4. Left(s) \cap S = (s \cap S) \ {Taken(s)}
      BY DEF Left
    <2>5. Cardinality(Left(s) \cap S) =
              IF Taken(s) \in S THEN Cardinality(s \cap S) - 1 ELSE Cardinality(s \cap S)
      <3>1. Cardinality((s \cap S) \ {Taken(s)}) =
                IF Taken(s) \in s \cap S THEN Cardinality(s \cap S) - 1
                                        ELSE Cardinality(s \cap S)
        BY <2>3, FS_RemoveElement
      <3> QED
        BY <2>1, <2>4, <3>1
    <2> QED
      BY <2>1, <2>2, <2>3, <2>5
  <1>5. SUBSET D \subseteq counted
    <2> HIDE DEF counted
    <2> QED
      BY <1>3, <1>4, SubsetInduction
  <1>6. D \cap S = S
    OBVIOUS
  <1> QED
    BY <1>2, <1>5, <1>6

LEMMA SumOfNaturals ==
    ASSUME NEW D, IsFiniteSet(D), NEW f \in [D -> Nat]
    PROVE  SumFunction(f) \in Nat
  <1> DEFINE zero == [d \in D |-> IF d \in {} THEN 0 ELSE 0]
  <1>1. SumFunction(zero) = 0 * Cardinality({})
    BY SumOfIndicator
  <1>2. SumFunction(zero) = 0
    BY <1>1, FS_EmptySet
  <1>3. SumFunction(zero) <= SumFunction(f)
    <2>1. zero \in [D -> Int] /\ f \in [D -> Int] /\ \A d \in D : zero[d] <= f[d]
      OBVIOUS
    <2> HIDE DEF zero
    <2> QED
      BY <2>1, SumIsMonotonic
  <1>4. SumFunction(f) \in Int
    BY SumType
  <1> QED
    BY <1>2, <1>3, <1>4

LEMMA SumWithout ==
    ASSUME NEW D, IsFiniteSet(D), NEW f \in [D -> Int], NEW x \in D
    PROVE  SumFunction(f) = f[x] + SumFunction([d \in D |-> IF d = x THEN 0 ELSE f[d]])
  <1> DEFINE alone == [d \in D |-> IF d \in {x} THEN f[x] ELSE 0]
             rest == [d \in D |-> IF d = x THEN 0 ELSE f[d]]
  <1>1. alone \in [D -> Int] /\ rest \in [D -> Int]
    OBVIOUS
  <1>2. SumFunction(alone) = f[x]
    <2>1. SumFunction(alone) = f[x] * Cardinality({x})
      <3>1. f[x] \in Int /\ {x} \in SUBSET D
        OBVIOUS
      <3> QED
        BY <3>1, SumOfIndicator
    <2>2. Cardinality({x}) = 1
      BY FS_Singleton
    <2> QED
      BY <2>1, <2>2
  <1>3. f = [d \in D |-> 1 * alone[d] + 1 * rest[d]]
    <2>1. \A d \in D : f[d] = 1 * alone[d] + 1 * rest[d]
      OBVIOUS
    <2> HIDE DEF alone, rest
    <2> QED
      BY <2>1
  <1>4. SumFunction(rest) \in Int
    <2> HIDE DEF rest
    <2> QED
      BY <1>1, SumType
  <1>5. SumFunction([d \in D |-> 1 * alone[d] + 1 * rest[d]])
            = 1 * SumFunction(alone) + 1 * SumFunction(rest)
    <2> HIDE DEF alone, rest
    <2> QED
      BY <1>1, SumIsLinear
  <1> QED
    BY <1>2, <1>3, <1>4, <1>5

\* The inequality of Cauchy and Schwarz, for a function that is 0 outside of T
LEMMA SquareOfSum ==
    ASSUME NEW D, IsFiniteSet(D), NEW f \in [D -> Int], NEW T \in SUBSET D,
           \A d \in D \ T : f[d] = 0
    PROVE  SumFunction(f) * SumFunction(f)
               <= Cardinality(T) * SumFunction([d \in D |-> f[d] * f[d]])
  <1> DEFINE c == Cardinality(T)
             s == SumFunction(f)
             square == [d \in D |-> f[d] * f[d]]
             q == SumFunction(square)
             one == [d \in D |-> IF d \in T THEN 1 ELSE 0]
             cc == c * c
             cs == -(2 * c * s)
             ss == s * s
             part == [d \in D |-> cc * square[d] + cs * f[d]]
             spread == [d \in D |-> 1 * part[d] + ss * one[d]]
  <1>1. c \in Nat /\ s \in Int /\ q \in Int
    <2>1. square \in [D -> Int]
      OBVIOUS
    <2> HIDE DEF square
    <2> QED
      BY <2>1, SumType, FS_Subset, FS_CardinalityType
  <1>2. square \in [D -> Int] /\ one \in [D -> Int] /\ SumFunction(one) = c
    BY <1>1, SumOfIndicator
  <1>3. part \in [D -> Int] /\ SumFunction(part) = cc * q + cs * s
    <2>1. part \in [D -> Int] /\ cc \in Int /\ cs \in Int
      BY <1>1, <1>2
    <2> HIDE DEF cc, cs, square
    <2> QED
      BY <1>2, <2>1, SumIsLinear
  <1>4. SumFunction(spread) = c * (c * q - s * s)
    <2>1. 1 \in Int /\ ss \in Int
      BY <1>1
    <2>2. SumFunction(spread) = 1 * SumFunction(part) + ss * SumFunction(one)
      <3> HIDE DEF ss, part, one
      <3> QED
        BY <1>2, <1>3, <2>1, SumIsLinear
    <2>3. SumFunction(spread) = (cc * q + cs * s) + ss * c
      <3> HIDE DEF part, one, spread
      <3> QED
        BY <1>1, <1>2, <1>3, <2>2
    <2> HIDE DEF spread
    <2> QED
      BY <1>1, <2>3
  <1>5. spread \in [D -> Nat]
    <2>1. ASSUME NEW d \in D
          PROVE  spread[d] \in Nat
      <3> DEFINE y == c * f[d] - s
      <3>1. y \in Int
        BY <1>1
      <3>2. \A z \in Int : z * z \in Nat
        OBVIOUS
      <3>3. CASE d \in T
        <4>1. spread[d] = y * y
          BY <1>1, <3>3
        <4> HIDE DEF y
        <4> QED
          BY <3>1, <3>2, <4>1
      <3>4. CASE d \notin T
        <4>1. f[d] = 0 /\ square[d] = 0 /\ one[d] = 0
          BY <3>4
        <4>2. spread[d] = 1 * (cc * 0 + cs * 0) + ss * 0
          BY <4>1
        <4> QED
          BY <1>1, <4>2
      <3> QED
        BY <3>3, <3>4
    <2> QED
      BY <2>1
  <1>6. c * (c * q - s * s) >= 0
    <2> HIDE DEF spread
    <2> QED
      BY <1>4, <1>5, SumOfNaturals
  <1>7. CASE c = 0
    <2>1. T = {}
      BY <1>7, FS_Subset, FS_EmptySet
    <2>2. f = [d \in D |-> IF d \in T THEN 0 ELSE 0]
      BY <2>1
    <2>3. s = 0 * c
      BY <2>2, SumOfIndicator
    <2> QED
      BY <1>1, <1>7, <2>3
  <1>8. CASE c # 0
    <2>1. c * q - s * s >= 0
      BY <1>1, <1>6, <1>8
    <2> QED
      BY <1>1, <2>1
  <1> QED
    BY <1>7, <1>8

\* What d is related to, and what is related to e
Related(R, d, E) == {e \in E : <<d, e>> \in R}
Relating(R, D, e) == {d \in D : <<d, e>> \in R}

\* Counting the pairs of R by the one side or by the other
LEMMA CountedTwice ==
    ASSUME NEW D, IsFiniteSet(D), NEW E, IsFiniteSet(E), NEW R
    PROVE  SumFunction([d \in D |-> Cardinality(Related(R, d, E))])
               = SumFunction([e \in E |-> Cardinality(Relating(R, D, e))])
  <1> DEFINE with(d) == {e \in E : <<d, e>> \in R}
             among(s, e) == {d \in s : <<d, e>> \in R}
             f == [d \in D |-> Cardinality(with(d))]
             counts(s) == [e \in E |-> Cardinality(among(s, e))]
  <1>1. \A d \in D : with(d) \in SUBSET E /\ Cardinality(with(d)) \in Nat
    BY FS_Subset, FS_CardinalityType
  <1>2. \A s \in SUBSET D : \A e \in E :
            IsFiniteSet(among(s, e)) /\ Cardinality(among(s, e)) \in Nat
    <2> SUFFICES ASSUME NEW s \in SUBSET D, NEW e \in E
                 PROVE  IsFiniteSet(among(s, e)) /\ Cardinality(among(s, e)) \in Nat
      OBVIOUS
    <2>1. among(s, e) \in SUBSET D
      OBVIOUS
    <2> HIDE DEF among
    <2> QED
      BY <2>1, FS_Subset, FS_CardinalityType
  <1>3. f \in [D -> Int]
    BY <1>1
  <1>4. PICK F \in [SUBSET D -> Int] :
            /\ F[{}] = 0
            /\ \A s \in SUBSET D : s # {} => F[s] = f[Taken(s)] + F[Left(s)]
            /\ SumFunction(f) = F[D]
    <2> HIDE DEF f
    <2> QED
      BY <1>3, PartialSums
  <1> DEFINE agreed == {s \in SUBSET D : F[s] = SumFunction(counts(s))}
  <1>5. {} \in agreed
    <2>1. counts({}) = [e \in E |-> IF e \in {} THEN 0 ELSE 0]
      <3>1. \A e \in E : among({}, e) = {}
        OBVIOUS
      <3> QED
        BY <3>1, FS_EmptySet
    <2>2. SumFunction(counts({})) = 0 * Cardinality({})
      <3> HIDE DEF counts
      <3> QED
        BY <2>1, SumOfIndicator
    <2> QED
      BY <1>4, <2>2, FS_EmptySet
  <1>6. ASSUME NEW s \in SUBSET D, s # {}, Left(s) \in agreed
        PROVE  s \in agreed
    <2> DEFINE x == Taken(s)
               before == counts(Left(s))
               one == [e \in E |-> IF e \in with(x) THEN 1 ELSE 0]
    <2>1. x \in s /\ x \in D /\ Left(s) \in SUBSET D /\ Left(s) = s \ {x}
      BY <1>6, TakeOne DEF Left
    <2>2. ASSUME NEW e \in E
          PROVE  counts(s)[e] = 1 * before[e] + 1 * one[e]
      <3>1. IsFiniteSet(among(s, e)) /\ Cardinality(among(s, e)) \in Nat
        BY <1>2
      <3>2. among(Left(s), e) = among(s, e) \ {x}
        BY <2>1
      <3>3. x \in among(s, e) <=> e \in with(x)
        BY <2>1
      <3>4. Cardinality(among(s, e) \ {x}) =
                IF x \in among(s, e) THEN Cardinality(among(s, e)) - 1
                                    ELSE Cardinality(among(s, e))
        <4> HIDE DEF among, x
        <4> QED
          BY <3>1, FS_RemoveElement
      <3>5. /\ counts(s)[e] = Cardinality(among(s, e))
            /\ before[e] = Cardinality(among(Left(s), e))
            /\ one[e] = IF e \in with(x) THEN 1 ELSE 0
        <4> HIDE DEF among, x, with
        <4> QED
          OBVIOUS
      <3> HIDE DEF among, with, x, counts, before, one
      <3> QED
        BY <3>1, <3>2, <3>3, <3>4, <3>5
    <2>3. counts(s) = [e \in E |-> 1 * before[e] + 1 * one[e]]
      BY <2>2
    <2>4. before \in [E -> Int] /\ one \in [E -> Int]
      <3>1. \A e \in E : Cardinality(among(Left(s), e)) \in Int
        <4> HIDE DEF among
        <4> QED
          BY <1>2, <2>1
      <3> HIDE DEF among, with, x
      <3> QED
        BY <3>1
    <2>5. SumFunction(counts(s)) = 1 * SumFunction(before) + 1 * SumFunction(one)
      <3> HIDE DEF counts, before, one
      <3> QED
        BY <2>3, <2>4, SumIsLinear
    <2>6. SumFunction(one) = 1 * Cardinality(with(x))
      <3>1. with(x) \in SUBSET E
        OBVIOUS
      <3> HIDE DEF with
      <3> QED
        BY <3>1, SumOfIndicator
    <2>7. F[s] = f[x] + F[Left(s)] /\ f[x] = Cardinality(with(x)) /\ F[Left(s)] = SumFunction(before)
      BY <1>4, <1>6, <2>1
    <2>8. SumFunction(before) \in Int /\ Cardinality(with(x)) \in Int
      <3>1. SumFunction(before) \in Int
        <4> HIDE DEF before
        <4> QED
          BY <2>4, SumType
      <3> QED
        BY <1>1, <2>1, <3>1
    <2> HIDE DEF counts, before, one, with, x
    <2> QED
      BY <2>5, <2>6, <2>7, <2>8
  <1>7. SUBSET D \subseteq agreed
    <2> HIDE DEF agreed
    <2> QED
      BY <1>5, <1>6, SubsetInduction
  <1>8. SumFunction(f) = SumFunction(counts(D))
    BY <1>4, <1>7
  <1>9. f = [d \in D |-> Cardinality(Related(R, d, E))]
    BY DEF Related
  <1>10. counts(D) = [e \in E |-> Cardinality(Relating(R, D, e))]
    BY DEF Relating
  <1> QED
    BY <1>8, <1>9, <1>10

\* A set is as large as the parts of it a function tells apart, together.
LEMMA SumOfFibres ==
    ASSUME NEW D, IsFiniteSet(D), NEW P, IsFiniteSet(P), NEW f \in [P -> D]
    PROVE  SumFunction([d \in D |-> Cardinality({p \in P : f[p] = d})]) = Cardinality(P)
  <1> DEFINE R == {r \in D \X P : f[r[2]] = r[1]}
  <1>1. \A d \in D : Related(R, d, P) = {p \in P : f[p] = d}
    BY DEF Related
  <1>2. \A p \in P : Cardinality(Relating(R, D, p)) = 1
    <2> SUFFICES ASSUME NEW p \in P
                 PROVE  Cardinality(Relating(R, D, p)) = 1
      OBVIOUS
    <2>1. Relating(R, D, p) = {f[p]}
      BY DEF Relating
    <2> QED
      BY <2>1, FS_Singleton
  <1> HIDE DEF R
  <1>3. [d \in D |-> Cardinality({p \in P : f[p] = d})] = [d \in D |-> Cardinality(Related(R, d, P))]
    BY <1>1
  <1>4. [p \in P |-> Cardinality(Relating(R, D, p))] = [p \in P |-> IF p \in P THEN 1 ELSE 0]
    BY <1>2
  <1>5. SumFunction([p \in P |-> IF p \in P THEN 1 ELSE 0]) = 1 * Cardinality(P)
    BY SumOfIndicator
  <1>6. SumFunction([d \in D |-> Cardinality(Related(R, d, P))])
            = SumFunction([p \in P |-> Cardinality(Relating(R, D, p))])
    BY CountedTwice
  <1>7. 1 * Cardinality(P) = Cardinality(P)
    BY FS_CardinalityType
  <1> QED
    BY <1>3, <1>4, <1>5, <1>6, <1>7, Zenon

===============================================================================
