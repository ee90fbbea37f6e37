--------------------------- MODULE EvaluationProofs ---------------------------
(***************************************************************************)
(* What is computed offline, for all data: the living-population files and *)
(* the estimates fitted to them (LivingData), the comparison of predictors *)
(* on held-out days (Evaluation), the backtests that decide what is        *)
(* promoted (Backtests).  Built on the lemmas of ServingProofs: sums over  *)
(* finite sets, ranks, least elements.                                     *)
(***************************************************************************)
EXTENDS ServingProofs

-----------------------------------------------------------------------------
(* Offline data: statistics of lists, then what is read and added up. *)

\* Of two finite sets one within the other.
LEMMA PartsAreFewer ==
    ASSUME NEW T, IsFiniteSet(T), NEW S, S \subseteq T
    PROVE  /\ IsFiniteSet(S) /\ Cardinality(S) \in Nat /\ Cardinality(T) \in Nat
           /\ Cardinality(S) <= Cardinality(T)
<1>1. S \in SUBSET T
  OBVIOUS
<1> QED
  BY <1>1, FS_Subset, FS_CardinalityType

\* A total is the sum of its parts, over a finite set of numbers.
LEMMA TotalIs ==
    ASSUME NEW f, NEW S, DOMAIN f = S
    PROVE  SumFunction(f) = SumFunctionOnSet(f, S)
  BY SumOfAll

\* Finitely many values, all numbers.
Numbers(values) == IsFiniteSet(DOMAIN values) /\ \A i \in DOMAIN values : values[i] \in Int

UpTo(values, v) == {i \in DOMAIN values : values[i] <= v}
Under(values, v) == {i \in DOMAIN values : values[i] < v}

\* There is a value at every rank.
LEMMA RanksHaveValues ==
    ASSUME NEW values, Numbers(values), NEW k \in 1..Cardinality(DOMAIN values)
    PROVE  /\ AtRank(values, k) \in Int
           /\ \E i \in DOMAIN values : values[i] = AtRank(values, k)
           /\ Cardinality(Under(values, AtRank(values, k))) < k
           /\ k <= Cardinality(UpTo(values, AtRank(values, k)))
<1> DEFINE S == DOMAIN values
           V == {values[i] : i \in S}
           High == {v \in V : k <= Cardinality(UpTo(values, v))}
<1>1. IsFiniteSet(S) /\ \A i \in S : values[i] \in Int
  BY DEF Numbers
<1>2. \A v : UpTo(values, v) \in SUBSET S /\ Under(values, v) \in SUBSET S
  BY DEF UpTo, Under
<1>3. \A v : /\ IsFiniteSet(UpTo(values, v)) /\ Cardinality(UpTo(values, v)) \in Nat
             /\ IsFiniteSet(Under(values, v)) /\ Cardinality(Under(values, v)) \in Nat
  BY <1>1, <1>2, PartsAreFewer
<1>4. V \in SUBSET Int /\ IsFiniteSet(V) /\ \A i \in S : values[i] \in V
  <2>1. V \in SUBSET Int /\ \A i \in S : values[i] \in V
    BY <1>1
  <2>2. IsFiniteSet(V)
    <3> HIDE DEF S
    <3> QED
      BY <1>1, ImagesAreFinite
  <2> QED
    BY <2>1, <2>2
<1>5. k \in Nat \ {0} /\ k <= Cardinality(S) /\ Cardinality(S) \in Nat
  BY <1>1, FS_CardinalityType
<1>6. S # {}
  BY <1>5, FS_EmptySet
<1> HIDE DEF S
<1>7. V # {}
  BY <1>6
<1>8. Max(V) \in V /\ \A v \in V : v <= Max(V)
  <2> HIDE DEF V
  <2> QED
    BY <1>4, <1>7, Extremes
<1>9. UpTo(values, Max(V)) = S
  <2> DEFINE top == Max(V)
  <2>1. \A i \in S : values[i] <= top
    BY <1>4, <1>8
  <2> HIDE DEF top
  <2>2. UpTo(values, top) = S
    BY <2>1 DEF UpTo, S
  <2> QED
    BY <2>2 DEF top
<1>10. Max(V) \in High
  BY <1>5, <1>8, <1>9
<1>11. High \in SUBSET Int /\ IsFiniteSet(High) /\ High \in SUBSET V
  <2>1. High \in SUBSET V
    OBVIOUS
  <2> QED
    BY <1>4, <2>1, FS_Subset
<1> HIDE DEF V
<1>12. PICK v \in High : \A w \in High : v <= w
  <2> HIDE DEF High
  <2> QED
    BY <1>10, <1>11, FiniteHasLeast
<1>13. v \in V /\ v \in Int /\ k <= Cardinality(UpTo(values, v))
  BY <1>11, <1>12
<1>14. Cardinality(Under(values, v)) < k
  <2> DEFINE B == Under(values, v)
  <2>1. CASE B = {}
    <3>1. Cardinality(B) = 0
      BY <2>1, FS_EmptySet
    <3> QED
      BY <1>5, <3>1
  <2>2. CASE B # {}
    <3> DEFINE U == {values[i] : i \in B}
    <3>1. U \in SUBSET Int /\ U # {} /\ U \in SUBSET V /\ (\A u \in U : u < v) /\ \A i \in B : values[i] \in U
      BY <1>1, <2>2 DEF Under, V, S
    <3>2. IsFiniteSet(U)
      BY <1>4, <3>1, FS_Subset
    <3> HIDE DEF U
    <3>3. Max(U) \in U /\ \A u \in U : u <= Max(U)
      BY <3>1, <3>2, Extremes
    <3> DEFINE top == Max(U)
    <3>4. top \in V /\ top \in Int /\ top < v /\ \A i \in B : values[i] <= top
      BY <3>1, <3>3
    <3> HIDE DEF top
    <3>5. UpTo(values, top) = B
      BY <1>1, <1>13, <3>4 DEF UpTo, Under, S
    <3>6. top \notin High
      BY <1>11, <1>12, <1>13, <3>4
    <3>7. ~(k <= Cardinality(B))
      BY <3>4, <3>5, <3>6
    <3> QED
      BY <1>3, <1>5, <3>7
  <2> QED
    BY <2>1, <2>2
<1> DEFINE at == AtRank(values, k)
<1>15. /\ at \in Range(values) /\ Cardinality({i \in DOMAIN values : values[i] < at}) < k
       /\ k <= Cardinality({i \in DOMAIN values : values[i] <= at})
  <2>1. v \in Range(values)
    BY <1>13 DEF V, S, Range
  <2>2. \E u \in Range(values) : /\ Cardinality({i \in DOMAIN values : values[i] < u}) < k
                                 /\ k <= Cardinality({i \in DOMAIN values : values[i] <= u})
    BY <1>13, <1>14, <2>1 DEF UpTo, Under
  <2> QED
    BY <2>2, Zenon DEF AtRank
<1>16. \E i \in S : values[i] = at
  BY <1>15 DEF Range, S
<1> HIDE DEF at
<1>17. at \in Int
  BY <1>1, <1>16
<1> QED
  BY <1>15, <1>16, <1>17 DEF UpTo, Under, at, S

\* Each value of f has its own value of g, which is no less.
Dominates(m, f, g) ==
    /\ \A x \in DOMAIN f : m[x] \in DOMAIN g /\ f[x] <= g[m[x]]
    /\ \A x, y \in DOMAIN f : m[x] = m[y] => x = y
    /\ \A y \in DOMAIN g : \E x \in DOMAIN f : m[x] = y

\* A greater value, or a greater rank, gives no less.
LEMMA RanksGrow ==
    ASSUME NEW f, Numbers(f), NEW g, Numbers(g), NEW m, Dominates(m, f, g),
           NEW k \in 1..Cardinality(DOMAIN f), NEW l \in 1..Cardinality(DOMAIN g), k <= l
    PROVE  AtRank(f, k) <= AtRank(g, l)
<1> DEFINE u == AtRank(f, k)
           v == AtRank(g, l)
<1>1. u \in Int /\ Cardinality(Under(f, u)) < k
  BY RanksHaveValues
<1>2. v \in Int /\ l <= Cardinality(UpTo(g, v))
  BY RanksHaveValues
<1> HIDE DEF u, v
<1> SUFFICES ASSUME v < u PROVE FALSE
  BY <1>1, <1>2 DEF u, v
<1> DEFINE A == Under(f, u)
           B == UpTo(g, v)
           to == [x \in A |-> m[x]]
<1>3. A \in SUBSET DOMAIN f /\ B \in SUBSET DOMAIN g /\ IsFiniteSet(DOMAIN f) /\ IsFiniteSet(DOMAIN g)
  BY DEF Under, UpTo, Numbers
<1>4. IsFiniteSet(A) /\ IsFiniteSet(B) /\ Cardinality(A) \in Nat /\ Cardinality(B) \in Nat
  <2> HIDE DEF A, B
  <2> QED
    BY <1>3, PartsAreFewer
<1>5. B \subseteq {to[x] : x \in A}
  <2> SUFFICES ASSUME NEW y \in B PROVE \E x \in A : to[x] = y
    OBVIOUS
  <2>1. y \in DOMAIN g /\ g[y] \in Int /\ g[y] <= v
    BY DEF UpTo, Numbers
  <2>2. PICK x \in DOMAIN f : m[x] = y
    BY <2>1 DEF Dominates
  <2>3. f[x] \in Int /\ f[x] <= g[y]
    BY <2>2 DEF Dominates, Numbers
  <2>4. f[x] < u
    BY <1>1, <1>2, <2>1, <2>3
  <2> QED
    BY <2>2, <2>4 DEF Under
<1>6. to \in [A -> {to[x] : x \in A}] /\ \A x, y \in A : to[x] = to[y] => x = y
  BY <1>3 DEF Dominates
<1> HIDE DEF to, A, B
<1>7. IsFiniteSet({to[x] : x \in A}) /\ Cardinality({to[x] : x \in A}) = Cardinality(A)
  BY <1>4, <1>6, ImagesAreAsMany
<1>8. Cardinality(B) <= Cardinality(A)
  BY <1>5, <1>7, PartsAreFewer
<1> QED
  BY <1>1, <1>2, <1>4, <1>8 DEF A, B

\* As many members, one for one.
OneForOne(m, S, T) ==
    /\ \A x \in S : m[x] \in T
    /\ \A x, y \in S : m[x] = m[y] => x = y
    /\ \A y \in T : \E x \in S : m[x] = y

LEMMA OneForOneAreAsMany ==
    ASSUME NEW S, IsFiniteSet(S), NEW T, NEW m, OneForOne(m, S, T)
    PROVE  IsFiniteSet(T) /\ Cardinality(T) = Cardinality(S) /\ Cardinality(S) \in Nat
<1> DEFINE to == [x \in S |-> m[x]]
<1>1. to \in [S -> {to[x] : x \in S}] /\ \A x, y \in S : to[x] = to[y] => x = y
  BY DEF OneForOne
<1>2. T = {to[x] : x \in S}
  BY DEF OneForOne
<1> HIDE DEF to
<1>3. IsFiniteSet({to[x] : x \in S}) /\ Cardinality({to[x] : x \in S}) = Cardinality(S)
  BY <1>1, ImagesAreAsMany
<1> QED
  BY <1>2, <1>3, FS_CardinalityType

\* The middle of greater values is no less.
LEMMA MediansGrow ==
    ASSUME NEW f, Numbers(f), NEW g, Numbers(g), NEW m, Dominates(m, f, g), DOMAIN f # {}
    PROVE  Median(f) \in Int /\ Median(g) \in Int /\ Median(f) <= Median(g)
<1> DEFINE n == Cardinality(DOMAIN f)
           low == (n + 1) \div 2
           high == (n + 2) \div 2
<1>1. OneForOne(m, DOMAIN f, DOMAIN g)
  BY DEF Dominates, OneForOne
<1>2. Cardinality(DOMAIN g) = n /\ n \in Nat
  BY <1>1, OneForOneAreAsMany DEF Numbers
<1>3. n # 0
  BY <1>2, FS_EmptySet DEF Numbers
<1> HIDE DEF n
<1>4. low \in 1..n /\ high \in 1..n
  BY <1>2, <1>3
<1>5. Median(f) = AtRank(f, low) + AtRank(f, high) /\ Median(g) = AtRank(g, low) + AtRank(g, high)
  BY <1>2, Zenon DEF Median, n
<1> HIDE DEF low, high
<1>6. low \in 1..Cardinality(DOMAIN f) /\ high \in 1..Cardinality(DOMAIN f)
      /\ low \in 1..Cardinality(DOMAIN g) /\ high \in 1..Cardinality(DOMAIN g)
      /\ low <= low /\ high <= high
  BY <1>2, <1>4 DEF n
<1>7. /\ AtRank(f, low) \in Int /\ AtRank(f, high) \in Int
      /\ AtRank(g, low) \in Int /\ AtRank(g, high) \in Int
  BY <1>6, RanksHaveValues
<1>8. AtRank(f, low) <= AtRank(g, low)
  BY <1>6, RanksGrow
<1>9. AtRank(f, high) <= AtRank(g, high)
  BY <1>6, RanksGrow
<1> QED
  BY <1>5, <1>7, <1>8, <1>9

\* A tail is a tenth of the zones, the outermost of them (_rank_tail).
LEMMA TailsAreTenths ==
    ASSUME NEW n \in Nat, NEW values \in [1..n -> Int], NEW top \in BOOLEAN
    PROVE  /\ Cardinality(RankTail(values, top)) = (n + 9) \div 10
           /\ \A z \in RankTail(values, top), y \in DOMAIN values \ RankTail(values, top) :
                  IF top THEN values[z] >= values[y] ELSE values[z] <= values[y]
<1> DEFINE S == 1..n
           before(a, b) == \/ (top /\ values[a] > values[b]) \/ (~top /\ values[a] < values[b])
                           \/ values[a] = values[b] /\ a < b
           R == {x \in S \X S : before(x[1], x[2])}
           k == (n + 9) \div 10
           tail == RankTail(values, top)
<1>1. DOMAIN values = S /\ (\A i \in S : values[i] \in Int /\ i \in Int)
      /\ IsFiniteSet(S) /\ Cardinality(S) = n
  BY FS_Interval
<1>2. \A a, b \in S : <<a, b>> \in R <=> before(a, b)
  OBVIOUS
<1>3. Orders(R, S)
  <2>1. \A c \in S : ~before(c, c)
    BY <1>1
  <2>2. \A c, d \in S : c # d => before(c, d) \/ before(d, c)
    BY <1>1
  <2>3. \A c, d, e \in S : before(c, d) /\ before(d, e) => before(c, e)
    BY <1>1
  <2>4. \A x, y : <<x, y>> \in R => x \in S /\ y \in S
    OBVIOUS
  <2> HIDE DEF R, before
  <2> QED
    BY <1>2, <2>1, <2>2, <2>3, <2>4 DEF Orders
<1>4. \A z \in S : {y \in S : before(y, z)} = {y \in S : <<y, z>> \in R}
  BY <1>2
<1>5. tail = {z \in DOMAIN values : Cardinality({y \in DOMAIN values : before(y, z)})
                                        < (Cardinality(DOMAIN values) + 9) \div 10}
  BY Zenon DEF RankTail
<1>6. k \in Nat /\ k <= n
  OBVIOUS
<1> HIDE DEF R, before, S, k
<1>7. tail = {z \in S : Preceding(R, S, z) < k}
  <2>1. \A z \in S : Preceding(R, S, z) = Cardinality({y \in S : before(y, z)})
    BY <1>4 DEF Preceding
  <2>2. tail = {z \in S : Cardinality({y \in S : before(y, z)}) < k}
    BY <1>1, <1>5 DEF k
  <2> QED
    BY <2>1, <2>2
<1>8. Cardinality(tail) = Min({k, n})
  BY <1>1, <1>3, <1>6, <1>7, FirstAreAsMany
<1>9. Min({k, n}) = k
  <2>1. k \in Int /\ n \in Int
    BY <1>6
  <2>2. Min({k, n}) = IF k <= n THEN k ELSE n
    BY <2>1, MaxOfTwo
  <2> QED
    BY <1>6, <2>2
<1>10. /\ \A c \in S : Preceding(R, S, c) \in 0..(n - 1)
       /\ \A c, d \in S : <<c, d>> \in R <=> Preceding(R, S, c) < Preceding(R, S, d)
  BY <1>1, <1>3, RanksAreNumbers
<1> HIDE DEF tail
<1>11. ASSUME NEW z \in tail, NEW y \in S \ tail
       PROVE  IF top THEN values[z] >= values[y] ELSE values[z] <= values[y]
  <2>1. z \in S /\ y \in S /\ Preceding(R, S, z) < k /\ ~(Preceding(R, S, y) < k)
    BY <1>7
  <2>2. Preceding(R, S, z) \in Int /\ Preceding(R, S, y) \in Int
    BY <1>10, <2>1
  <2>3. Preceding(R, S, z) < Preceding(R, S, y)
    BY <1>6, <2>1, <2>2
  <2>4. before(z, y)
    BY <1>2, <1>10, <2>1, <2>3
  <2> QED
    BY <1>1, <2>1, <2>4 DEF before
<1> QED
  BY <1>1, <1>8, <1>9, <1>11 DEF tail, k

\* Of equally many values, the mid-ranks add up to as many times one more.
LEMMA RanksAddUp ==
    ASSUME NEW n \in Nat, NEW values \in [1..n -> Int]
    PROVE  /\ \A i \in 1..n : Rank(values, i) \in Nat
           /\ SumFunction([i \in DOMAIN values |-> Rank(values, i)]) = n * (n + 1)
<1> DEFINE S == 1..n
           P == {x \in S \X S : values[x[2]] < values[x[1]]}
           under(i) == {j \in S : values[j] < values[i]}
           level(i) == {j \in S : values[j] = values[i]}
           over(i) == {j \in S : values[j] > values[i]}
           less == [i \in S |-> Cardinality(under(i))]
           equal == [i \in S |-> Cardinality(level(i))]
           more == [i \in S |-> Cardinality(over(i))]
           rank == [i \in S |-> Rank(values, i)]
           one == [x \in P |-> 1]
           first == [x \in P |-> x[1]]
           second == [x \in P |-> x[2]]
<1>1. DOMAIN values = S /\ (\A i \in S : values[i] \in Int)
      /\ IsFiniteSet(S) /\ Cardinality(S) = n
  BY FS_Interval
<1>2. IsFiniteSet(P)
  <2>1. IsFiniteSet(S \X S)
    BY <1>1, FS_Product
  <2>2. P \in SUBSET (S \X S)
    OBVIOUS
  <2> HIDE DEF P, S
  <2> QED
    BY <2>1, <2>2, FS_Subset
<1>3. \A i : /\ IsFiniteSet(under(i)) /\ IsFiniteSet(level(i)) /\ IsFiniteSet(over(i))
             /\ Cardinality(under(i)) \in Nat /\ Cardinality(level(i)) \in Nat /\ Cardinality(over(i)) \in Nat
  <2>1. \A i : under(i) \in SUBSET S /\ level(i) \in SUBSET S /\ over(i) \in SUBSET S
    OBVIOUS
  <2> HIDE DEF under, level, over, S
  <2> QED
    BY <1>1, <2>1, PartsAreFewer
<1>4. ASSUME NEW i \in S PROVE n = less[i] + equal[i] + more[i]
  <2> DEFINE A == under(i) \cup level(i)
  <2>1. S = A \cup over(i) /\ A \cap over(i) = {} /\ under(i) \cap level(i) = {}
    BY <1>1
  <2>2. /\ less[i] = Cardinality(under(i)) /\ equal[i] = Cardinality(level(i))
        /\ more[i] = Cardinality(over(i))
    OBVIOUS
  <2> DEFINE u == under(i)  l == level(i)  o == over(i)
  <2>3. /\ IsFiniteSet(u) /\ IsFiniteSet(l) /\ IsFiniteSet(o)
        /\ Cardinality(u) \in Nat /\ Cardinality(l) \in Nat /\ Cardinality(o) \in Nat
    BY <1>3
  <2>4. S = (u \cup l) \cup o /\ (u \cup l) \cap o = {} /\ u \cap l = {}
    BY <2>1
  <2>5. less[i] = Cardinality(u) /\ equal[i] = Cardinality(l) /\ more[i] = Cardinality(o)
    BY <2>2
  <2> HIDE DEF under, level, over, less, equal, more, S, u, l, o
  <2>6. IsFiniteSet(u \cup l) /\ Cardinality(u \cup l) = Cardinality(u) + Cardinality(l)
    <3>1. Cardinality(u \cap l) = 0
      BY <2>4, FS_EmptySet
    <3>2. IsFiniteSet(u \cup l) /\ Cardinality(u \cup l) = Cardinality(u) + Cardinality(l) - Cardinality(u \cap l)
      BY <2>3, FS_Union
    <3> QED
      BY <2>3, <3>1, <3>2
  <2>7. Cardinality(S) = Cardinality(u \cup l) + Cardinality(o)
    <3> DEFINE ul == u \cup l
    <3>1. S = ul \cup o /\ ul \cap o = {} /\ IsFiniteSet(ul) /\ Cardinality(ul) \in Nat
      BY <2>3, <2>4, <2>6
    <3> HIDE DEF ul
    <3>2. Cardinality(ul \cap o) = 0
      BY <3>1, FS_EmptySet
    <3>3. Cardinality(ul \cup o) = Cardinality(ul) + Cardinality(o) - Cardinality(ul \cap o)
      BY <2>3, <3>1, FS_Union
    <3>4. Cardinality(S) = Cardinality(ul) + Cardinality(o)
      BY <2>3, <3>1, <3>2, <3>3
    <3> QED
      BY <3>4 DEF ul
  <2> QED
    BY <1>1, <2>3, <2>5, <2>6, <2>7
<1>5. \A x \in P : one[x] = 1 /\ one[x] \in Int /\ first[x] \in S /\ second[x] \in S
  OBVIOUS
<1>6. ASSUME NEW i \in S
      PROVE  /\ less[i] = SumFunctionOnSet(one, {x \in P : first[x] = i})
             /\ more[i] = SumFunctionOnSet(one, {x \in P : second[x] = i})
  <2> DEFINE A == {x \in P : first[x] = i}
             B == {x \in P : second[x] = i}
             u == under(i)
             o == over(i)
             toA == [j \in S |-> <<i, j>>]
             toB == [j \in S |-> <<j, i>>]
  <2>1. OneForOne(toA, u, A)
    <3>1. \A j \in u : toA[j] \in A
      OBVIOUS
    <3>2. \A j, k \in u : toA[j] = toA[k] => j = k
      OBVIOUS
    <3>3. \A x \in A : x[2] \in u /\ toA[x[2]] = x
      OBVIOUS
    <3> HIDE DEF u, A, toA
    <3> QED
      BY <3>1, <3>2, <3>3 DEF OneForOne
  <2>2. OneForOne(toB, o, B)
    <3>1. \A j \in o : toB[j] \in B
      BY <1>1
    <3>2. \A j, k \in o : toB[j] = toB[k] => j = k
      OBVIOUS
    <3>3. \A x \in B : x[1] \in o /\ toB[x[1]] = x
      BY <1>1
    <3> HIDE DEF o, B, toB
    <3> QED
      BY <3>1, <3>2, <3>3 DEF OneForOne
  <2>3. IsFiniteSet(u) /\ IsFiniteSet(o)
    BY <1>3
  <2>4. less[i] = Cardinality(u) /\ more[i] = Cardinality(o)
    OBVIOUS
  <2>5. (\A x \in A : one[x] = 1) /\ \A x \in B : one[x] = 1
    OBVIOUS
  <2> HIDE DEF A, B, u, o, toA, toB, less, more, one
  <2>6. IsFiniteSet(A) /\ Cardinality(A) = Cardinality(u) /\ IsFiniteSet(B) /\ Cardinality(B) = Cardinality(o)
    BY <2>1, <2>2, <2>3, OneForOneAreAsMany
  <2>7. SumFunctionOnSet(one, A) = Cardinality(A) /\ SumFunctionOnSet(one, B) = Cardinality(B)
    BY <2>5, <2>6, SumOfOnes
  <2> QED
    BY <2>4, <2>6, <2>7 DEF A, B
<1>7. \A i \in S : less[i] \in Nat /\ equal[i] \in Nat /\ more[i] \in Nat
  BY <1>3
<1>8. \A i \in S : rank[i] = 2 * less[i] + equal[i] + 1 /\ rank[i] = Rank(values, i)
  BY <1>1 DEF Rank
<1> HIDE DEF S, P, less, equal, more, rank, one, first, second
<1>9. SumFunctionOnSet(less, S) = SumFunctionOnSet(more, S)
  <2>1. SumsKinds(less, one, first, P, S) /\ SumsKinds(more, one, second, P, S)
    BY <1>6 DEF SumsKinds
  <2>2. SumFunctionOnSet(less, S) = SumFunctionOnSet(one, P)
    BY <1>1, <1>2, <1>5, <2>1, SumOfKinds
  <2>3. SumFunctionOnSet(more, S) = SumFunctionOnSet(one, P)
    BY <1>1, <1>2, <1>5, <2>1, SumOfKinds
  <2> QED
    BY <2>2, <2>3
<1> DEFINE rest == [i \in S |-> n + 1]
           above == [i \in S |-> rank[i] + more[i]]
<1>10. \A i \in S : /\ rank[i] \in Nat /\ less[i] \in Int /\ more[i] \in Int /\ rest[i] \in Int
                    /\ above[i] \in Int /\ above[i] = rank[i] + more[i] /\ above[i] = rest[i] + less[i]
  <2> SUFFICES ASSUME NEW i \in S
               PROVE  /\ rank[i] \in Nat /\ less[i] \in Int /\ more[i] \in Int /\ rest[i] \in Int
                      /\ above[i] \in Int /\ above[i] = rank[i] + more[i] /\ above[i] = rest[i] + less[i]
    OBVIOUS
  <2>1. less[i] \in Nat /\ equal[i] \in Nat /\ more[i] \in Nat /\ n = less[i] + equal[i] + more[i]
        /\ rank[i] = 2 * less[i] + equal[i] + 1
    BY <1>4, <1>7, <1>8
  <2>2. rest[i] = n + 1 /\ above[i] = rank[i] + more[i]
    OBVIOUS
  <2> HIDE DEF rest, above
  <2>3. rank[i] \in Nat
    BY <2>1
  <2>4. above[i] \in Int /\ rest[i] \in Int
    BY <2>1, <2>2, <2>3
  <2>5. above[i] = rest[i] + less[i]
    BY <2>1, <2>2
  <2> QED
    BY <2>1, <2>2, <2>3, <2>4, <2>5
<1>11. SumFunctionOnSet(rest, S) = n * (n + 1)
  <2> DEFINE ones == [i \in S |-> 1]
             a == n + 1
  <2>1. \A i \in S : ones[i] = 1 /\ ones[i] \in Int /\ rest[i] = a * ones[i]
    OBVIOUS
  <2>2. a \in Int
    OBVIOUS
  <2>3. n * (n + 1) = a * n
    OBVIOUS
  <2> HIDE DEF ones, a, rest
  <2>4. SumFunctionOnSet(rest, S) = a * SumFunctionOnSet(ones, S)
    BY <1>1, <2>1, <2>2, SumOfMultiples
  <2>5. SumFunctionOnSet(ones, S) = n
    BY <1>1, <2>1, SumOfOnes
  <2> QED
    BY <2>3, <2>4, <2>5
<1> HIDE DEF rest, above
<1>12. \A i \in S : rank[i] \in Int
  BY <1>10
<1>13. SumFunctionOnSet(above, S) = SumFunctionOnSet(rank, S) + SumFunctionOnSet(more, S)
  BY <1>1, <1>10, <1>12, SumOfSums
<1>14. SumFunctionOnSet(above, S) = SumFunctionOnSet(rest, S) + SumFunctionOnSet(less, S)
  BY <1>1, <1>10, SumOfSums
<1>15. SumFunctionOnSet(rank, S) \in Int /\ SumFunctionOnSet(more, S) \in Int
  BY <1>1, <1>10, <1>12, SumStep
<1>16. SumFunctionOnSet(rank, S) = n * (n + 1)
  <2> DEFINE total == n * (n + 1)
  <2>1. total \in Int /\ SumFunctionOnSet(rest, S) = total
    BY <1>11
  <2> HIDE DEF total
  <2>2. SumFunctionOnSet(rank, S) = total
    BY <1>9, <1>13, <1>14, <1>15, <2>1
  <2> QED
    BY <2>2 DEF total
<1>17. SumFunction([i \in DOMAIN values |-> Rank(values, i)]) = SumFunctionOnSet(rank, S)
  <2>1. [i \in DOMAIN values |-> Rank(values, i)] = rank
    BY <1>1 DEF rank
  <2>2. DOMAIN rank = S
    BY DEF rank
  <2> QED
    BY <2>1, <2>2, TotalIs
<1>18. \A i \in S : Rank(values, i) \in Nat
  BY <1>8, <1>10
<1> QED
  BY <1>16, <1>17, <1>18 DEF S

\* A step of the scale and what of the next one it takes.
LEMMA Percentages ==
    ASSUME NEW n \in Nat \ {0}, NEW p \in 0..100
    PROVE  LET at == (n - 1) * p  q == at \div 100  r == at % 100
               high == 1 + ((at + 99) \div 100) IN
           /\ at \in Nat /\ q \in Nat /\ r \in 0..99 /\ at = 100 * q + r
           /\ 1 + q \in 1..n /\ high \in 1..n
           /\ high = IF r = 0 THEN 1 + q ELSE 2 + q
<1> DEFINE at == (n - 1) * p
           q == at \div 100
           r == at % 100
<1>1. at \in Nat /\ at <= 100 * (n - 1)
  <2>1. n - 1 \in Nat /\ p \in Int /\ p <= 100 /\ 100 \in Int /\ p \in Nat /\ 0 \in Int /\ 0 <= p
    OBVIOUS
  <2>2. (n - 1) * p <= (n - 1) * 100 /\ (n - 1) * p \in Int
    BY <2>1, ProductsGrow
  <2>3. (n - 1) * 0 <= (n - 1) * p
    BY <2>1, ProductsGrow
  <2> QED
    BY <2>1, <2>2, <2>3
<1> HIDE DEF at
<1>2. q \in Nat /\ r \in 0..99 /\ at = 100 * q + r
  BY <1>1
<1>3. (at + 99) \div 100 = IF r = 0 THEN q ELSE 1 + q
  BY <1>1, <1>2
<1> HIDE DEF q, r
<1>4. 1 + q \in 1..n
  BY <1>1, <1>2
<1>5. r # 0 => 2 + q <= n
  BY <1>1, <1>2
<1> QED
  BY <1>1, <1>2, <1>3, <1>4, <1>5 DEF at, q, r

\* A quantile grows with its percentage; that of one half is the median.
LEMMA QuantilesGrow ==
    ASSUME NEW n \in Nat \ {0}, NEW values \in [1..n -> Int],
           NEW low \in 0..100, NEW high \in 0..100, low <= high
    PROVE  /\ Quantile(values, low) <= Quantile(values, high)
           /\ Quantile(values, 50) = 50 * Median(values)
<1> DEFINE A(k) == AtRank(values, k)
           at(p) == (n - 1) * p
           q(p) == at(p) \div 100
           r(p) == at(p) % 100
           h(p) == 1 + ((at(p) + 99) \div 100)
<1>1. Len(values) = n /\ values # <<>> /\ DOMAIN values = 1..n /\ Cardinality(DOMAIN values) = n /\ Numbers(values)
  <2>1. Len(values) = n /\ DOMAIN values = 1..n
    BY FunctionsAreSequences
  <2>2. IsFiniteSet(1..n) /\ Cardinality(1..n) = n
    BY FS_Interval
  <2>3. values # <<>>
    BY <2>1
  <2> QED
    BY <2>1, <2>2, <2>3 DEF Numbers
<1>2. \A k \in 1..n : A(k) \in Int
  BY <1>1, RanksHaveValues
<1>3. \A k \in 1..n : \A l \in 1..n : k <= l => A(k) <= A(l)
  <2> DEFINE m == [i \in 1..n |-> i]
  <2>1. Dominates(m, values, values)
    BY <1>1 DEF Dominates
  <2> HIDE DEF m
  <2> QED
    BY <1>1, <2>1, RanksGrow
<1>4. \A p \in 0..100 : /\ at(p) \in Nat /\ q(p) \in Nat /\ r(p) \in 0..99 /\ at(p) = 100 * q(p) + r(p)
                        /\ 1 + q(p) \in 1..n /\ h(p) \in 1..n
                        /\ h(p) = IF r(p) = 0 THEN 1 + q(p) ELSE 2 + q(p)
  BY Percentages
<1>5. \A p : Quantile(values, p) = A(1 + q(p)) * (100 - r(p)) + A(h(p)) * r(p)
  <2>1. \A p : Quantile(values, p) =
            IF values = <<>> THEN None
            ELSE AtRank(values, 1 + (((Len(values) - 1) * p) \div 100)) * (100 - (((Len(values) - 1) * p) % 100))
                 + AtRank(values, 1 + ((((Len(values) - 1) * p) + 99) \div 100)) * (((Len(values) - 1) * p) % 100)
    BY Zenon DEF Quantile
  <2> QED
    BY <1>1, <2>1, Zenon
<1>6. at(low) <= at(high)
  <2>1. n - 1 \in Nat /\ low \in Int /\ high \in Int
    OBVIOUS
  <2> QED
    BY <2>1, ProductsGrow
<1>7. Quantile(values, low) <= Quantile(values, high)
  <2> DEFINE a == A(1 + q(low))  b == A(h(low))  c == A(1 + q(high))  d == A(h(high))
             i == q(low)  j == q(high)  s == r(low)  t == r(high)
             k == h(low)  l == h(high)
  <2>1. /\ i \in Nat /\ s \in 0..99 /\ at(low) = 100 * i + s
        /\ 1 + i \in 1..n /\ k \in 1..n /\ k = IF s = 0 THEN 1 + i ELSE 2 + i
    BY <1>4
  <2>2. /\ j \in Nat /\ t \in 0..99 /\ at(high) = 100 * j + t
        /\ 1 + j \in 1..n /\ l \in 1..n /\ l = IF t = 0 THEN 1 + j ELSE 2 + j
    BY <1>4
  <2>3. Quantile(values, low) = a * (100 - s) + b * s /\ Quantile(values, high) = c * (100 - t) + d * t
    BY <1>5
  <2>4. a = A(1 + i) /\ b = A(k) /\ c = A(1 + j) /\ d = A(l)
    OBVIOUS
  <2>5. at(low) \in Nat /\ at(high) \in Nat
    BY <1>4
  <2> HIDE DEF A, at, q, r, h
  <2> HIDE DEF i, j, s, t, k, l, a, b, c, d
  <2>6. i <= j /\ (i = j => s <= t)
    BY <1>6, <2>1, <2>2, <2>5
  <2>7. a \in Int /\ b \in Int /\ c \in Int /\ d \in Int
    BY <1>2, <2>1, <2>2, <2>4
  <2>8. a <= b /\ c <= d
    <3>1. 1 + i <= k
      BY <2>1
    <3>2. 1 + j <= l
      BY <2>2
    <3> QED
      BY <1>3, <2>1, <2>2, <2>4, <3>1, <3>2
  <2>9. CASE i = j
    <3>1. a = c /\ s <= t
      BY <2>4, <2>6, <2>9
    <3>2. s # 0 => b = d
      BY <2>1, <2>2, <2>4, <2>9, <3>1
    <3> DEFINE x == b - a  y == d - c
    <3>3. x \in Nat /\ y \in Nat
      BY <2>7, <2>8
    <3>4. a * (100 - s) + b * s = 100 * a + x * s
      BY <2>1, <2>7
    <3>5. c * (100 - t) + d * t = 100 * a + y * t
      BY <2>2, <2>7, <3>1
    <3>6. x * s <= y * t /\ x * s \in Int /\ y * t \in Int
      <4>1. CASE s = 0
        <5>1. y * 0 <= y * t /\ y * t \in Int
          <6>1. y \in Nat /\ t \in Int /\ 0 <= t /\ 0 \in Int
            BY <2>2, <3>3
          <6> HIDE DEF x, y
          <6> QED
            BY <6>1, ProductsGrow
        <5>2. x * s = 0 /\ y * 0 = 0
          BY <3>3, <4>1
        <5> HIDE DEF x, y
        <5> QED
          BY <5>1, <5>2
      <4>2. CASE s # 0
        <5>1. x = y
          BY <3>1, <3>2, <4>2
        <5>2. y * s <= y * t /\ y * s \in Int /\ y * t \in Int
          BY <2>1, <2>2, <3>1, <3>3, ProductsGrow
        <5> QED
          BY <5>1, <5>2
      <4> QED
        BY <4>1, <4>2
    <3> HIDE DEF x, y
    <3> QED
      BY <2>3, <2>7, <3>4, <3>5, <3>6
  <2>10. CASE i < j
    <3>1. b <= c
      <4>1. k <= 1 + j
        BY <2>1, <2>2, <2>10
      <4> QED
        BY <1>3, <2>1, <2>2, <2>4, <4>1
    <3>2. a * (100 - s) + b * s <= 100 * b /\ a * (100 - s) + b * s \in Int
      <4>1. (100 - s) \in Nat /\ s \in Int
        BY <2>1
      <4>2. (100 - s) * a <= (100 - s) * b /\ (100 - s) * a \in Int /\ (100 - s) * b \in Int
        BY <2>7, <2>8, <4>1, ProductsGrow
      <4>3. (100 - s) * b = 100 * b - b * s /\ a * (100 - s) = (100 - s) * a /\ b * s \in Int
        BY <2>7, <4>1
      <4> QED
        BY <2>7, <4>2, <4>3
    <3>3. 100 * c <= c * (100 - t) + d * t /\ c * (100 - t) + d * t \in Int
      <4>1. t \in Nat /\ t \in Int
        BY <2>2
      <4>2. t * c <= t * d /\ t * c \in Int /\ t * d \in Int
        BY <2>7, <2>8, <4>1, ProductsGrow
      <4>3. c * (100 - t) = 100 * c - t * c /\ d * t = t * d
        BY <2>7, <4>1
      <4> QED
        BY <2>7, <4>2, <4>3
    <3>4. 100 * b <= 100 * c
      BY <2>7, <3>1
    <3> QED
      BY <2>3, <2>7, <3>2, <3>3, <3>4
  <2> QED
    BY <2>1, <2>2, <2>6, <2>9, <2>10
<1>8. Quantile(values, 50) = 50 * Median(values)
  <2> DEFINE i == q(50)  s == r(50)  k == h(50)
  <2>1. /\ i \in Nat /\ s \in 0..99 /\ (n - 1) * 50 = 100 * i + s
        /\ 1 + i \in 1..n /\ k \in 1..n /\ k = IF s = 0 THEN 1 + i ELSE 2 + i
    <3>1. 50 \in 0..100 /\ at(50) = (n - 1) * 50
      OBVIOUS
    <3> HIDE DEF at, q, r, h
    <3> QED
      BY <1>4, <3>1
  <2>2. Quantile(values, 50) = A(1 + i) * (100 - s) + A(k) * s
    BY <1>5
  <2>3. Median(values) = A((n + 1) \div 2) + A((n + 2) \div 2)
    BY <1>1, Zenon DEF Median
  <2>4. A(1 + i) \in Int /\ A(k) \in Int
    BY <1>2, <2>1
  <2> HIDE DEF A, i, s, k
  <2>5. s = 0 \/ s = 50
    BY <2>1
  <2>6. CASE s = 0
    <3>1. (n + 1) \div 2 = 1 + i /\ (n + 2) \div 2 = 1 + i /\ k = 1 + i
      BY <2>1, <2>6
    <3> QED
      BY <2>2, <2>3, <2>4, <2>6, <3>1
  <2>7. CASE s = 50
    <3>1. (n + 1) \div 2 = 1 + i /\ (n + 2) \div 2 = k
      BY <2>1, <2>7
    <3> QED
      BY <2>2, <2>3, <2>4, <2>7, <3>1
  <2> QED
    BY <2>5, <2>6, <2>7
<1> QED
  BY <1>7, <1>8

\* The root of a square.
LEMMA RootOfSquare ==
    ASSUME NEW c \in Nat
    PROVE  Root(c * c) = c
<1> DEFINE n == c * c
           Is(r) == r * r <= n /\ (r + 1) * (r + 1) > n
<1>1. n \in Nat /\ c <= n
  <2>1. CASE c = 0
    BY <2>1
  <2>2. CASE c # 0
    <3>1. 1 \in Int /\ c \in Int /\ 1 <= c
      BY <2>2
    <3>2. c * 1 <= c * c /\ c * c \in Int
      BY <3>1, ProductsGrow
    <3> QED
      BY <3>2
  <2> QED
    BY <2>1, <2>2
<1>2. c \in 0..n
  BY <1>1
<1>3. Is(c)
  <2>1. (c + 1) * (c + 1) = c * c + 2 * c + 1
    OBVIOUS
  <2> QED
    BY <1>1, <2>1
<1>4. ASSUME NEW r \in 0..n, Is(r) PROVE r = c
  <2>1. r \in Nat
    BY <1>1
  <2>2. CASE r < c
    <3>1. r + 1 \in Nat /\ r + 1 <= c /\ c \in Int /\ r + 1 \in Int
      BY <2>1, <2>2
    <3>2. (r + 1) * (r + 1) <= (r + 1) * c /\ (r + 1) * (r + 1) \in Int /\ (r + 1) * c \in Int
      BY <3>1, ProductsGrow
    <3>3. c * (r + 1) <= c * c /\ c * (r + 1) = (r + 1) * c
      BY <3>1, ProductsGrow
    <3> DEFINE x == (r + 1) * (r + 1)  y == (r + 1) * c
    <3>4. x <= y /\ x \in Int /\ y \in Int /\ y <= n /\ x > n
      BY <1>4, <3>2, <3>3
    <3> HIDE DEF x, y, n
    <3> QED
      BY <1>1, <3>4
  <2>3. CASE r > c
    <3>1. c + 1 \in Nat /\ c + 1 <= r /\ r \in Int /\ c + 1 \in Int
      BY <2>1, <2>3
    <3>2. (c + 1) * (c + 1) <= (c + 1) * r /\ (c + 1) * (c + 1) \in Int /\ (c + 1) * r \in Int
      BY <3>1, ProductsGrow
    <3>3. r * (c + 1) <= r * r /\ r * (c + 1) = (c + 1) * r /\ r * r \in Int
      BY <2>1, <3>1, ProductsGrow
    <3> DEFINE x == (c + 1) * (c + 1)  y == (c + 1) * r  z == r * r
    <3>4. x <= y /\ y <= z /\ x \in Int /\ y \in Int /\ z \in Int /\ z <= n /\ x > n
      BY <1>3, <1>4, <3>2, <3>3
    <3> HIDE DEF x, y, z, n
    <3> QED
      BY <1>1, <3>4
  <2> QED
    BY <2>1, <2>2, <2>3
<1>5. Root(n) = CHOOSE r \in 0..n : Is(r)
  BY Zenon DEF Root
<1> HIDE DEF Is, n
<1>6. Root(n) \in 0..n /\ Is(Root(n))
  BY <1>2, <1>3, <1>5
<1>7. Root(n) = c
  BY <1>4, <1>6
<1> QED
  BY <1>7 DEF n

\* A list correlates fully with itself, or not at all.
LEMMA SelfCorrelates ==
    ASSUME NEW n \in Nat, NEW values \in [1..n -> Int]
    PROVE  Spearman(values, values) \in {None, 100}
<1> DEFINE off == [i \in 1..n |-> n * Rank(values, i) - n * (n + 1)]
           square == [i \in 1..n |-> off[i] * off[i]]
           c == SumFunctionOnSet(square, 1..n)
<1>1. DOMAIN values = 1..n /\ Cardinality(DOMAIN values) = n /\ IsFiniteSet(1..n)
  BY FS_Interval
<1>2. /\ \A i \in 1..n : Rank(values, i) \in Nat
      /\ SumFunction([i \in DOMAIN values |-> Rank(values, i)]) = n * (n + 1)
  BY RanksAddUp
<1>3. \A i \in 1..n : square[i] \in Nat
  <2> SUFFICES ASSUME NEW i \in 1..n PROVE square[i] \in Nat
    OBVIOUS
  <2> DEFINE x == n * Rank(values, i) - n * (n + 1)
  <2>1. x \in Int
    BY <1>2
  <2>2. square[i] = x * x
    OBVIOUS
  <2> HIDE DEF x, square
  <2>3. x * x \in Nat
    <3>1. CASE x >= 0
      BY <2>1, <3>1
    <3>2. CASE x < 0
      <4>1. x * x = (-x) * (-x) /\ -x \in Nat
        BY <2>1, <3>2
      <4> QED
        BY <4>1
    <3> QED
      BY <2>1, <3>1, <3>2
  <2> QED
    BY <2>2, <2>3
<1>4. Covariance(values, values) = c
  <2>1. Covariance(values, values)
            = SumFunction([i \in DOMAIN values |->
                  (Cardinality(DOMAIN values) * Rank(values, i)
                      - SumFunction([j \in DOMAIN values |-> Rank(values, j)]))
                  * (Cardinality(DOMAIN values) * Rank(values, i)
                      - SumFunction([j \in DOMAIN values |-> Rank(values, j)]))])
    BY Zenon DEF Covariance, Total
  <2>2. Covariance(values, values) = SumFunction([i \in 1..n |->
             (n * Rank(values, i) - n * (n + 1)) * (n * Rank(values, i) - n * (n + 1))])
    BY <1>1, <1>2, <2>1
  <2>3. square = [i \in 1..n |-> (n * Rank(values, i) - n * (n + 1)) * (n * Rank(values, i) - n * (n + 1))]
    BY Zenon
  <2>4. SumFunction(square) = SumFunctionOnSet(square, 1..n)
    BY TotalIs
  <2> QED
    BY <2>2, <2>3, <2>4
<1>5. c \in Nat
  <2> HIDE DEF square
  <2> QED
    BY <1>1, <1>3, SumIsPositive
<1> HIDE DEF c
<1>6. Spearman(values, values) = IF n < 2 THEN None ELSE IF c = 0 THEN None ELSE (100 * c) \div Root(c * c)
  <2>1. Spearman(values, values) =
            IF DOMAIN values # DOMAIN values \/ Cardinality(DOMAIN values) < 2 THEN None
            ELSE Correlation(Covariance(values, values), Covariance(values, values), Covariance(values, values))
    BY Zenon DEF Spearman
  <2> QED
    BY <1>1, <1>4, <2>1 DEF Correlation
<1>7. Root(c * c) = c
  BY <1>5, RootOfSquare
<1>8. c # 0 => (100 * c) \div c = 100
  <2> SUFFICES ASSUME c # 0 PROVE (100 * c) \div c = 100
    OBVIOUS
  <2> DEFINE p == (100 * c) \div c
  <2>1. c \in Nat \ {0} /\ 100 * c \in Int
    BY <1>5
  <2>2. p \in Int /\ c * p <= 100 * c /\ 100 * c < c * p + c /\ c * p \in Int
    BY <2>1, Quotient
  <2> HIDE DEF p
  <2>3. CASE p > 100
    <3>1. c * 100 + c <= c * p
      BY <2>1, <2>2, <2>3, MultiplesGrow
    <3> QED
      BY <2>1, <2>2, <3>1
  <2>4. CASE p < 100
    <3>1. c * p + c <= c * 100
      BY <2>1, <2>2, <2>4, MultiplesGrow
    <3> QED
      BY <2>1, <2>2, <3>1
  <2> QED
    BY <2>2, <2>3, <2>4 DEF p
<1> QED
  BY <1>6, <1>7, <1>8

\* Tails are tenths whatever the ties, quantiles grow and meet the median, and
\* mid-ranks add up as if there were none (_rank_tail, _quantile, _average_ranks).
THEOREM StatisticsFollowTheOrder ==
    ASSUME NEW n \in Nat, NEW values \in [1..n -> Int], NEW low \in 0..100, NEW high \in 0..100
    PROVE  StatisticsAreOrdered(values, low, high)
<1>1. DOMAIN values = 1..n /\ Len(values) = n
  BY FunctionsAreSequences
<1>2. ASSUME NEW top \in BOOLEAN
      PROVE  /\ Cardinality(RankTail(values, top)) = (Len(values) + 9) \div 10
             /\ \A z \in RankTail(values, top), y \in DOMAIN values \ RankTail(values, top) :
                    IF top THEN values[z] >= values[y] ELSE values[z] <= values[y]
  BY <1>1, TailsAreTenths
<1>3. ASSUME values # <<>>
      PROVE  /\ low <= high => Quantile(values, low) <= Quantile(values, high)
             /\ Quantile(values, 50) = 50 * Median(values)
  <2>1. n # 0
    <3> SUFFICES ASSUME n = 0 PROVE FALSE
      OBVIOUS
    <3>1. values \in [1..0 -> Int]
      OBVIOUS
    <3>2. values = <<>>
      BY <3>1
    <3> QED
      BY <1>3, <3>2
  <2>2. n \in Nat \ {0}
    BY <2>1
  <2>3. low <= high => Quantile(values, low) <= Quantile(values, high)
    BY <2>2, QuantilesGrow
  <2>4. Quantile(values, 50) = 50 * Median(values)
    <3>1. 0 \in 0..100 /\ 0 <= 0
      OBVIOUS
    <3> QED
      BY <2>2, <3>1, QuantilesGrow
  <2> QED
    BY <2>3, <2>4
<1>4. SumFunction([i \in DOMAIN values |-> Rank(values, i)]) = Len(values) * (Len(values) + 1)
  BY <1>1, RanksAddUp
<1>5. Spearman(values, values) \in {None, 100}
  BY SelfCorrelates
<1> QED
  BY <1>2, <1>3, <1>4, <1>5, Zenon DEF StatisticsAreOrdered, Total

\* The artifact of some hours has of them the movements of the whole day: it
\* reads every trip that leaves or arrives in them (build_purpose_od_shadow).
THEOREM HoursReadAllTheirTrips ==
    ASSUME NEW trips, NEW date, NEW points, NEW hours,
           PurposeArtifact(trips, date, points, hours) # Refused
    PROVE  LET day == Flows(trips, points) IN
           PurposeArtifact(trips, date, points, hours).movements
               = [k \in {k \in DOMAIN day : k[2] \in hours} |-> day[k]]
<1> DEFINE read == {o \in trips : Touches(o, hours)}
           live(set) == {o \in set : o.flow > 0}
           into(set, k) == {o \in live(set) : <<o.to, o.arr>> = k}
           outOf(set, k) == {o \in live(set) : <<o.from, o.dep>> = k}
           keys(set) == {<<o.to, o.arr>> : o \in live(set)} \cup {<<o.from, o.dep>> : o \in live(set)}
<1>1. {k \in keys(read) : k[2] \in hours} = {k \in keys(trips) : k[2] \in hours}
  BY DEF Touches
<1>2. ASSUME NEW k \in keys(trips), k[2] \in hours
      PROVE  into(read, k) = into(trips, k) /\ outOf(read, k) = outOf(trips, k)
  BY <1>2 DEF Touches
<1>3. ASSUME NEW set
      PROVE  DOMAIN Flows(set, points) = keys(set)
  BY Zenon DEF Flows
<1>4. ASSUME NEW k \in keys(trips), k[2] \in hours
      PROVE  Flows(read, points)[k] = Flows(trips, points)[k]
  <2>1. k \in keys(read)
    BY <1>1, <1>4
  <2>2. into(read, k) = into(trips, k) /\ outOf(read, k) = outOf(trips, k)
    BY <1>2, <1>4
  <2> QED
    BY <2>1, <2>2, Zenon DEF Flows
<1>5. PurposeArtifact(trips, date, points, hours).movements
          = [k \in {k \in DOMAIN Flows(read, points) : k[2] \in hours} |-> Flows(read, points)[k]]
  BY DEF PurposeArtifact
<1> QED
  BY <1>1, <1>3, <1>4, <1>5

\* The trips of Flows: those with a flow, those into and out of a district's
\* hour, those between districts; and what a set of them carries.
LiveTrips(trips) == {o \in trips : o.flow > 0}
TripKeys(trips) == {<<o.to, o.arr>> : o \in LiveTrips(trips)} \cup {<<o.from, o.dep>> : o \in LiveTrips(trips)}
Arriving(trips, k) == {o \in LiveTrips(trips) : <<o.to, o.arr>> = k}
Leaving(trips, k) == {o \in LiveTrips(trips) : <<o.from, o.dep>> = k}
Crossing(trips) == {o \in trips : o.from # o.to}
Carried(trips) == SumFunction([o \in trips |-> o.flow])

\* There are finitely many trips, of whole numbers.
Carrying(trips) == IsFiniteSet(trips) /\ \A o \in trips : o.flow \in Int

LEMMA FlowIs ==
    ASSUME NEW trips, NEW points
    PROVE  LET day == Flows(trips, points) IN
           /\ DOMAIN day = TripKeys(trips)
           /\ \A k \in TripKeys(trips) :
                /\ day[k].inbound = Carried(Arriving(trips, k))
                /\ day[k].net = Carried(Arriving(trips, k)) - Carried(Leaving(trips, k))
                /\ day[k].withinIn = Carried(Arriving(trips, k)) - Carried(Crossing(Arriving(trips, k)))
                /\ day[k].withinOut = Carried(Leaving(trips, k)) - Carried(Crossing(Leaving(trips, k)))
                /\ day[k].eligible = Carried(Crossing(Arriving(trips, k)))
                /\ day[k].directed = Carried({o \in Crossing(Arriving(trips, k)) : HasBearing(o, points)})
                /\ day[k].purposes = [p \in {o.purpose : o \in Arriving(trips, k)} |->
                                        Carried({o \in Arriving(trips, k) : o.purpose = p})]
<1> DEFINE row(k) == [inbound |-> Carried(Arriving(trips, k)),
                      outbound |-> Carried(Leaving(trips, k)),
                      net |-> Carried(Arriving(trips, k)) - Carried(Leaving(trips, k)),
                      withinIn |-> Carried(Arriving(trips, k)) - Carried(Crossing(Arriving(trips, k))),
                      withinOut |-> Carried(Leaving(trips, k)) - Carried(Crossing(Leaving(trips, k))),
                      purposes |-> [p \in {o.purpose : o \in Arriving(trips, k)} |->
                                        Carried({o \in Arriving(trips, k) : o.purpose = p})],
                      eligible |-> Carried(Crossing(Arriving(trips, k))),
                      directed |-> Carried({o \in Crossing(Arriving(trips, k)) : HasBearing(o, points)})]
<1>1. Flows(trips, points) = [k \in TripKeys(trips) |-> row(k)]
  BY Zenon DEF Flows, Total, Carried, Arriving, Leaving, Crossing, TripKeys, LiveTrips
<1> DEFINE day == Flows(trips, points)
<1>2. DOMAIN day = TripKeys(trips) /\ \A k \in TripKeys(trips) : day[k] = row(k)
  BY <1>1
<1> HIDE DEF day
<1>3. ASSUME NEW k \in TripKeys(trips)
      PROVE  /\ day[k].inbound = Carried(Arriving(trips, k))
             /\ day[k].net = Carried(Arriving(trips, k)) - Carried(Leaving(trips, k))
             /\ day[k].withinIn = Carried(Arriving(trips, k)) - Carried(Crossing(Arriving(trips, k)))
             /\ day[k].withinOut = Carried(Leaving(trips, k)) - Carried(Crossing(Leaving(trips, k)))
             /\ day[k].eligible = Carried(Crossing(Arriving(trips, k)))
             /\ day[k].directed = Carried({o \in Crossing(Arriving(trips, k)) : HasBearing(o, points)})
             /\ day[k].purposes = [p \in {o.purpose : o \in Arriving(trips, k)} |->
                                     Carried({o \in Arriving(trips, k) : o.purpose = p})]
  <2>1. day[k] = row(k)
    BY <1>2
  <2> QED
    BY <2>1
<1> QED
  BY <1>2, <1>3 DEF day

\* What sets of trips carry together.
LEMMA CarriedAddsUp ==
    ASSUME NEW trips, Carrying(trips)
    PROVE  /\ \A A \in SUBSET trips : Carrying(A) /\ Carried(A) \in Int
           /\ Carrying(LiveTrips(trips))
           /\ \A A \in SUBSET LiveTrips(trips) : \A B \in SUBSET A : Carried(B) <= Carried(A)
<1>1. \A A \in SUBSET trips : Carrying(A)
  BY FS_Subset DEF Carrying
<1>2. ASSUME NEW A, Carrying(A) PROVE Carried(A) = SumFunctionOnSet([o \in A |-> o.flow], A) /\ Carried(A) \in Int
  <2> DEFINE f == [o \in A |-> o.flow]
  <2>1. Carried(A) = SumFunctionOnSet(f, A)
    BY TotalIs DEF Carried
  <2>2. IsFiniteSet(A) /\ \A o \in A : f[o] \in Int
    BY <1>2 DEF Carrying
  <2> HIDE DEF f
  <2>3. SumFunctionOnSet(f, A) \in Int
    BY <2>2, SumStep
  <2> QED
    BY <2>1, <2>3 DEF f
<1>3. Carrying(LiveTrips(trips))
  BY <1>1 DEF LiveTrips
<1>4. ASSUME NEW A \in SUBSET LiveTrips(trips), NEW B \in SUBSET A PROVE Carried(B) <= Carried(A)
  <2> DEFINE f == [o \in A |-> o.flow]  g == [o \in B |-> o.flow]
  <2>0. Carrying(A) /\ Carrying(B)
    BY <1>1 DEF LiveTrips
  <2>1. Carried(A) = SumFunctionOnSet(f, A) /\ Carried(B) = SumFunctionOnSet(g, B)
    BY <1>2, <2>0
  <2>2. IsFiniteSet(A) /\ IsFiniteSet(B) /\ (\A o \in A : f[o] \in Nat) /\ (\A o \in B : f[o] \in Int /\ f[o] = g[o])
    <3>1. IsFiniteSet(A) /\ IsFiniteSet(B)
      BY <2>0 DEF Carrying
    <3>2. \A o \in A : o.flow \in Int /\ o.flow > 0
      BY <2>0 DEF Carrying, LiveTrips
    <3> QED
      BY <3>1, <3>2
  <2> HIDE DEF f, g
  <2>3. SumFunctionOnSet(f, B) = SumFunctionOnSet(g, B)
    BY <2>2, SumAgrees
  <2>4. SumFunctionOnSet(f, B) <= SumFunctionOnSet(f, A)
    BY <2>2, SumOfSome
  <2> QED
    BY <2>1, <2>3, <2>4
<1> QED
  BY <1>1, <1>2, <1>3, <1>4

\* What is carried is what is carried by each kind of the trips.
CarriesKinds(h, kind, T, K) ==
    /\ \A o \in T : kind[o] \in K
    /\ \A k \in K : h[k] = Carried({o \in T : kind[o] = k})

LEMMA CarriedByKind ==
    ASSUME NEW T, Carrying(T), NEW K, IsFiniteSet(K), NEW kind, NEW h, CarriesKinds(h, kind, T, K)
    PROVE  SumFunctionOnSet(h, K) = Carried(T)
<1> DEFINE f == [o \in T |-> o.flow]
<1>1. IsFiniteSet(T) /\ \A o \in T : f[o] \in Int
  BY DEF Carrying
<1>2. \A A \in SUBSET T : Carried(A) = SumFunctionOnSet(f, A)
  <2> SUFFICES ASSUME NEW A \in SUBSET T PROVE Carried(A) = SumFunctionOnSet(f, A)
    OBVIOUS
  <2> DEFINE g == [o \in A |-> o.flow]
  <2>1. Carried(A) = SumFunctionOnSet(g, A)
    BY TotalIs DEF Carried
  <2>2. IsFiniteSet(A) /\ \A o \in A : g[o] \in Int /\ g[o] = f[o]
    BY <1>1, FS_Subset
  <2> HIDE DEF f, g
  <2> QED
    BY <2>1, <2>2, SumAgrees
<1> HIDE DEF f
<1>3. SumsKinds(h, f, kind, T, K)
  <2> SUFFICES ASSUME NEW k \in K PROVE h[k] = SumFunctionOnSet(f, {x \in T : kind[x] = k})
    BY DEF SumsKinds
  <2> DEFINE A == {x \in T : kind[x] = k}
  <2>1. h[k] = Carried(A)
    BY DEF CarriesKinds
  <2>2. A \in SUBSET T
    OBVIOUS
  <2> HIDE DEF A
  <2>3. h[k] = SumFunctionOnSet(f, A)
    BY <1>2, <2>1, <2>2
  <2> QED
    BY <2>3 DEF A
<1>4. \A o \in T : kind[o] \in K
  BY DEF CarriesKinds
<1>5. SumFunctionOnSet(h, K) = SumFunctionOnSet(f, T)
  BY <1>1, <1>3, <1>4, SumOfKinds
<1> QED
  BY <1>2, <1>5

\* An artifact of some hours is that of the day, cut; in a day what arrives is
\* what left, net and within the districts, and purposes and directions are
\* shares of it (build_purpose_od_shadow, aggregate_od_flow_shadow).
THEOREM HoursAreWhole ==
    ASSUME NEW trips, Carrying(trips), NEW date, NEW points, NEW hours
    PROVE  HoursAreOfTheDay(trips, date, points, hours)
<1> DEFINE day == Flows(trips, points)
           T == LiveTrips(trips)
           X == Crossing(T)
           K == TripKeys(trips)
           passed == [o \in T |-> <<o.to, o.arr>>]
           left == [o \in T |-> <<o.from, o.dep>>]
           in == [k \in K |-> Carried(Arriving(trips, k))]
           out == [k \in K |-> Carried(Leaving(trips, k))]
           inAcross == [k \in K |-> Carried(Crossing(Arriving(trips, k)))]
           outAcross == [k \in K |-> Carried(Crossing(Leaving(trips, k)))]
           net == [k \in K |-> day[k].net]
           withinIn == [k \in K |-> day[k].withinIn]
           withinOut == [k \in K |-> day[k].withinOut]
<1>1. /\ DOMAIN day = K
      /\ \A k \in K :
           /\ day[k].inbound = in[k]
           /\ net[k] = in[k] - out[k]
           /\ withinIn[k] = in[k] - inAcross[k]
           /\ withinOut[k] = out[k] - outAcross[k]
           /\ day[k].withinIn = withinIn[k]
           /\ day[k].eligible = inAcross[k]
           /\ day[k].directed = Carried({o \in Crossing(Arriving(trips, k)) : HasBearing(o, points)})
           /\ day[k].purposes = [p \in {o.purpose : o \in Arriving(trips, k)} |->
                                   Carried({o \in Arriving(trips, k) : o.purpose = p})]
  <2> HIDE DEF day
  <2>1. /\ DOMAIN day = K
        /\ \A k \in K :
                /\ day[k].inbound = Carried(Arriving(trips, k))
                /\ day[k].net = Carried(Arriving(trips, k)) - Carried(Leaving(trips, k))
                /\ day[k].withinIn = Carried(Arriving(trips, k)) - Carried(Crossing(Arriving(trips, k)))
                /\ day[k].withinOut = Carried(Leaving(trips, k)) - Carried(Crossing(Leaving(trips, k)))
                /\ day[k].eligible = Carried(Crossing(Arriving(trips, k)))
                /\ day[k].directed = Carried({o \in Crossing(Arriving(trips, k)) : HasBearing(o, points)})
                /\ day[k].purposes = [p \in {o.purpose : o \in Arriving(trips, k)} |->
                                        Carried({o \in Arriving(trips, k) : o.purpose = p})]
    BY FlowIs DEF day
  <2> HIDE DEF K
  <2> QED
    BY <2>1
<1>2. /\ \A A \in SUBSET trips : Carrying(A) /\ Carried(A) \in Int
      /\ \A A \in SUBSET T : \A B \in SUBSET A : Carried(B) <= Carried(A)
  BY CarriedAddsUp
<1>3. \A k : /\ Arriving(trips, k) \in SUBSET T /\ Leaving(trips, k) \in SUBSET T
             /\ Crossing(Arriving(trips, k)) \in SUBSET X /\ Crossing(Leaving(trips, k)) \in SUBSET X
             /\ Crossing(Arriving(trips, k)) \in SUBSET Arriving(trips, k)
             /\ Arriving(trips, k) = {o \in T : passed[o] = k}
             /\ Leaving(trips, k) = {o \in T : left[o] = k}
             /\ Crossing(Arriving(trips, k)) = {o \in X : passed[o] = k}
             /\ Crossing(Leaving(trips, k)) = {o \in X : left[o] = k}
  BY DEF Arriving, Leaving, Crossing
<1>4. T \in SUBSET trips /\ X \in SUBSET trips /\ X \in SUBSET T
  BY DEF LiveTrips, Crossing
<1>5. \A o \in T : passed[o] \in K /\ left[o] \in K
  BY DEF TripKeys
<1>6. IsFiniteSet(K)
  <2>1. K = {passed[o] : o \in T} \cup {left[o] : o \in T}
    BY DEF TripKeys
  <2>2. IsFiniteSet(T)
    BY <1>2, <1>4 DEF Carrying
  <2>3. IsFiniteSet({passed[o] : o \in T}) /\ IsFiniteSet({left[o] : o \in T})
    <3> HIDE DEF T, passed, left
    <3> QED
      BY <2>2, ImagesAreFinite
  <2> HIDE DEF T, passed, left, K
  <2> QED
    BY <2>1, <2>3, FS_Union
<1>7. \A k \in K : /\ in[k] = Carried({o \in T : passed[o] = k}) /\ out[k] = Carried({o \in T : left[o] = k})
                   /\ inAcross[k] = Carried({o \in X : passed[o] = k})
                   /\ outAcross[k] = Carried({o \in X : left[o] = k})
                   /\ in[k] \in Int /\ out[k] \in Int /\ inAcross[k] \in Int /\ outAcross[k] \in Int
  <2> SUFFICES ASSUME NEW k \in K
               PROVE  /\ in[k] = Carried({o \in T : passed[o] = k}) /\ out[k] = Carried({o \in T : left[o] = k})
                      /\ inAcross[k] = Carried({o \in X : passed[o] = k})
                      /\ outAcross[k] = Carried({o \in X : left[o] = k})
                      /\ in[k] \in Int /\ out[k] \in Int /\ inAcross[k] \in Int /\ outAcross[k] \in Int
    OBVIOUS
  <2>1. /\ in[k] = Carried(Arriving(trips, k)) /\ out[k] = Carried(Leaving(trips, k))
        /\ inAcross[k] = Carried(Crossing(Arriving(trips, k)))
        /\ outAcross[k] = Carried(Crossing(Leaving(trips, k)))
    BY Zenon
  <2>2. Arriving(trips, k) \in SUBSET trips /\ Leaving(trips, k) \in SUBSET trips
        /\ Crossing(Arriving(trips, k)) \in SUBSET trips /\ Crossing(Leaving(trips, k)) \in SUBSET trips
    <3> HIDE DEF T, X
    <3> QED
      BY <1>3, <1>4
  <2> HIDE DEF in, out, inAcross, outAcross, passed, left, T, X, K
  <2> QED
    BY <2>1, <2>2, <1>2, <1>3
<1>8. Carrying(T) /\ Carrying(X)
  BY <1>2, <1>4
<1> HIDE DEF passed, left, K, T, X, in, out, inAcross, outAcross, net, withinIn, withinOut, day
<1>9. /\ SumFunctionOnSet(in, K) = Carried(T) /\ SumFunctionOnSet(out, K) = Carried(T)
      /\ SumFunctionOnSet(inAcross, K) = Carried(X) /\ SumFunctionOnSet(outAcross, K) = Carried(X)
  <2>1. /\ CarriesKinds(in, passed, T, K) /\ CarriesKinds(out, left, T, K)
        /\ CarriesKinds(inAcross, passed, X, K) /\ CarriesKinds(outAcross, left, X, K)
    BY <1>4, <1>5, <1>7 DEF CarriesKinds
  <2> QED
    BY <2>1, <1>6, <1>8, CarriedByKind
<1>10. \A k \in K : /\ net[k] \in Int /\ withinIn[k] \in Int /\ withinOut[k] \in Int
                    /\ in[k] \in Int /\ out[k] \in Int /\ inAcross[k] \in Int /\ outAcross[k] \in Int
  <2> SUFFICES ASSUME NEW k \in K
               PROVE  /\ net[k] \in Int /\ withinIn[k] \in Int /\ withinOut[k] \in Int
                      /\ in[k] \in Int /\ out[k] \in Int /\ inAcross[k] \in Int /\ outAcross[k] \in Int
    OBVIOUS
  <2>1. in[k] \in Int /\ out[k] \in Int /\ inAcross[k] \in Int /\ outAcross[k] \in Int
    BY <1>7
  <2>2. net[k] = in[k] - out[k] /\ withinIn[k] = in[k] - inAcross[k] /\ withinOut[k] = out[k] - outAcross[k]
    BY <1>1
  <2> QED
    BY <2>1, <2>2
<1>11. \A k \in K : in[k] = net[k] + out[k] /\ in[k] = withinIn[k] + inAcross[k]
                    /\ out[k] = withinOut[k] + outAcross[k]
  <2> SUFFICES ASSUME NEW k \in K
               PROVE in[k] = net[k] + out[k] /\ in[k] = withinIn[k] + inAcross[k]
                     /\ out[k] = withinOut[k] + outAcross[k]
    OBVIOUS
  <2>1. in[k] \in Int /\ out[k] \in Int /\ inAcross[k] \in Int /\ outAcross[k] \in Int
    BY <1>7
  <2>2. net[k] = in[k] - out[k] /\ withinIn[k] = in[k] - inAcross[k] /\ withinOut[k] = out[k] - outAcross[k]
    BY <1>1
  <2> QED
    BY <2>1, <2>2
<1>12. SumFunctionOnSet(in, K) = SumFunctionOnSet(net, K) + SumFunctionOnSet(out, K)
  BY <1>6, <1>10, <1>11, SumOfSums
<1>13. SumFunctionOnSet(in, K) = SumFunctionOnSet(withinIn, K) + SumFunctionOnSet(inAcross, K)
  BY <1>6, <1>10, <1>11, SumOfSums
<1>14. SumFunctionOnSet(out, K) = SumFunctionOnSet(withinOut, K) + SumFunctionOnSet(outAcross, K)
  BY <1>6, <1>10, <1>11, SumOfSums
<1>15. SumFunctionOnSet(net, K) \in Int /\ SumFunctionOnSet(withinIn, K) \in Int
       /\ SumFunctionOnSet(withinOut, K) \in Int /\ Carried(T) \in Int /\ Carried(X) \in Int
  BY <1>2, <1>4, <1>6, <1>10, SumStep
<1>16. SumFunctionOnSet(net, K) = 0 /\ SumFunctionOnSet(withinIn, K) = SumFunctionOnSet(withinOut, K)
  BY <1>9, <1>12, <1>13, <1>14, <1>15
<1>17. ASSUME NEW k \in K
       PROVE  /\ SumFunction(day[k].purposes) = day[k].inbound
              /\ day[k].directed <= day[k].eligible
              /\ day[k].inbound = day[k].withinIn + day[k].eligible
  <2> DEFINE A == Arriving(trips, k)
             P == {o.purpose : o \in A}
             why == [o \in A |-> o.purpose]
             h == [p \in P |-> Carried({o \in A : o.purpose = p})]
  <2>1. day[k].purposes = h /\ day[k].inbound = in[k] /\ day[k].eligible = inAcross[k]
    BY <1>1
  <2>2. Carrying(A)
    BY <1>2, <1>3, <1>4
  <2>3. IsFiniteSet(P)
    <3>1. P = {why[o] : o \in A}
      OBVIOUS
    <3>2. IsFiniteSet(A)
      BY <2>2 DEF Carrying
    <3> HIDE DEF A, P, why
    <3> QED
      BY <3>1, <3>2, ImagesAreFinite
  <2>4. \A o \in A : why[o] \in P
    OBVIOUS
  <2>5. \A p \in P : h[p] = Carried({o \in A : why[o] = p})
    <3> SUFFICES ASSUME NEW p \in P PROVE h[p] = Carried({o \in A : why[o] = p})
      OBVIOUS
    <3>1. {o \in A : why[o] = p} = {o \in A : o.purpose = p}
      BY Zenon
    <3> QED
      BY <3>1
  <2>6. SumFunction(h) = SumFunctionOnSet(h, P)
    BY TotalIs
  <2>7. Carried(A) = in[k]
    <3>1. in[k] = Carried({o \in T : passed[o] = k}) /\ A = {o \in T : passed[o] = k}
      BY <1>3, <1>7
    <3> QED
      BY <3>1
  <2>8. SumFunctionOnSet(h, P) = Carried(A)
    <3> HIDE DEF h, P, A, why
    <3>1. CarriesKinds(h, why, A, P)
      BY <2>4, <2>5 DEF CarriesKinds
    <3> QED
      BY <2>2, <2>3, <3>1, CarriedByKind
  <2>9. day[k].directed <= day[k].eligible
    <3> DEFINE C == Crossing(A)  D == {o \in C : HasBearing(o, points)}
    <3>1. D \in SUBSET C /\ C \in SUBSET T
      BY <1>3
    <3>2. day[k].directed = Carried(D)
      BY <1>1
    <3>3. Carried(C) = inAcross[k]
      <4>1. inAcross[k] = Carried({o \in X : passed[o] = k}) /\ C = {o \in X : passed[o] = k}
        BY <1>3, <1>7
      <4> QED
        BY <4>1
    <3> HIDE DEF C, D
    <3>4. Carried(D) <= Carried(C)
      BY <1>2, <3>1
    <3> QED
      BY <2>1, <3>2, <3>3, <3>4
  <2>10. day[k].inbound = day[k].withinIn + day[k].eligible
    <3>1. day[k].inbound = in[k] /\ day[k].withinIn = withinIn[k] /\ day[k].eligible = inAcross[k]
      BY <1>1
    <3> QED
      BY <3>1, <1>11
  <2> HIDE DEF h, P, A, why
  <2> QED
    BY <2>1, <2>6, <2>7, <2>8, <2>9, <2>10
<1>18. SumFunction([k \in DOMAIN day |-> day[k].net]) = 0
  <2>1. [k \in DOMAIN day |-> day[k].net] = net
    BY <1>1 DEF net
  <2>2. SumFunction(net) = SumFunctionOnSet(net, K)
    BY TotalIs DEF net
  <2> QED
    BY <1>16, <2>1, <2>2
<1>19. SumFunction([k \in DOMAIN day |-> day[k].withinIn]) = SumFunction([k \in DOMAIN day |-> day[k].withinOut])
  <2>1. [k \in DOMAIN day |-> day[k].withinIn] = withinIn /\ [k \in DOMAIN day |-> day[k].withinOut] = withinOut
    BY <1>1 DEF withinIn, withinOut
  <2>2. SumFunction(withinIn) = SumFunctionOnSet(withinIn, K)
    BY TotalIs DEF withinIn
  <2>3. SumFunction(withinOut) = SumFunctionOnSet(withinOut, K)
    BY TotalIs DEF withinOut
  <2> QED
    BY <1>16, <2>1, <2>2, <2>3
<1>20. \A k \in DOMAIN day : SumFunction([p \in DOMAIN day[k].purposes |-> day[k].purposes[p]]) = day[k].inbound
  <2> SUFFICES ASSUME NEW k \in K
               PROVE  SumFunction([p \in DOMAIN day[k].purposes |-> day[k].purposes[p]]) = day[k].inbound
    BY <1>1
  <2>1. day[k].purposes = [p \in {o.purpose : o \in Arriving(trips, k)} |->
                                   Carried({o \in Arriving(trips, k) : o.purpose = p})]
    BY <1>1
  <2>2. [p \in DOMAIN day[k].purposes |-> day[k].purposes[p]] = day[k].purposes
    BY <2>1
  <2> QED
    BY <2>2, <1>17
<1>21. LET part == PurposeArtifact(trips, date, points, hours) IN
       part # Refused => part.movements = [k \in {k \in DOMAIN day : k[2] \in hours} |-> day[k]]
  BY HoursReadAllTheirTrips DEF day
<1> QED
  BY <1>1, <1>17, <1>18, <1>19, <1>20, <1>21, Zenon DEF HoursAreOfTheDay, Total, day

\* The lines of the allowed cells, and of one of them at one time.
AllowedLines(R, allowed) == {x \in DOMAIN R : R[x].cell \in allowed}
CellKey(R, x) == <<R[x].slot, R[x].cell>>
CellLines(R, allowed, k) == {x \in AllowedLines(R, allowed) : CellKey(R, x) = k}
CellKeys(R, allowed) == {CellKey(R, x) : x \in AllowedLines(R, allowed)}

\* What Compact gives for lines that could all be read.
Gathered(R, allowed) ==
    IF Repeats(R) \/ {R[x].cell : x \in AllowedLines(R, allowed)} # allowed THEN Refused
    ELSE [k \in CellKeys(R, allowed) |-> CellRow(R, CellLines(R, allowed, k))]

\* Finitely many lines, whose counts are numbers or masked.
CellLinesAreCounted(R) ==
    IsFiniteSet(DOMAIN R) /\ \A x \in DOMAIN R : R[x].total \in Int \cup {None}

\* Each line of Q is one of R, and each of R one of Q.
SameLines(m, Q, R) ==
    /\ \A x \in DOMAIN Q : m[x] \in DOMAIN R /\ Q[x] = R[m[x]]
    /\ \A x, y \in DOMAIN Q : m[x] = m[y] => x = y
    /\ \A i \in DOMAIN R : \E x \in DOMAIN Q : m[x] = i

LEMMA CellRowsAreCounted ==
    ASSUME NEW R, NEW at, IsFiniteSet(at), \A x \in at : R[x].total \in Int \cup {None}
    PROVE  LET known == {i \in at : R[i].total # None}
               total == [i \in at |-> R[i].total] IN
           /\ CellRow(R, at).known = SumFunctionOnSet(total, known)
           /\ CellRow(R, at).fragments = Cardinality(at)
           /\ CellRow(R, at).masked = Cardinality(at \ known)
           /\ CellRow(R, at) = [known |-> SumFunctionOnSet(total, known),
                                fragments |-> Cardinality(at), masked |-> Cardinality(at \ known)]
<1> DEFINE known == {i \in at : R[i].total # None}
           total == [i \in at |-> R[i].total]
           some == [i \in known |-> R[i].total]
<1>1. CellRow(R, at) = [known |-> SumFunction(some), fragments |-> Cardinality(at),
                        masked |-> Cardinality(at \ known)]
  BY Zenon DEF CellRow, Total
<1>2. IsFiniteSet(known) /\ \A i \in known : some[i] \in Int /\ some[i] = total[i]
  BY FS_Subset
<1>3. SumFunction(some) = SumFunctionOnSet(some, known)
  BY TotalIs
<1> HIDE DEF known, total, some
<1>4. SumFunctionOnSet(some, known) = SumFunctionOnSet(total, known)
  BY <1>2, SumAgrees
<1>5. CellRow(R, at) = [known |-> SumFunctionOnSet(total, known),
                        fragments |-> Cardinality(at), masked |-> Cardinality(at \ known)]
  BY <1>1, <1>3, <1>4
<1> QED
  BY <1>5 DEF known, total

\* The same lines are gathered alike, whatever they are called.
LEMMA GatheredAlike ==
    ASSUME NEW R, CellLinesAreCounted(R), NEW Q, NEW m, SameLines(m, Q, R), NEW allowed,
           IsFiniteSet(DOMAIN Q)
    PROVE  Gathered(Q, allowed) = Gathered(R, allowed)
<1>1. Repeats(Q) <=> Repeats(R)
  <2>1. ASSUME Repeats(Q) PROVE Repeats(R)
    <3>1. PICK i \in DOMAIN Q, j \in DOMAIN Q :
              i # j /\ [Q[i] EXCEPT !.total = 0] = [Q[j] EXCEPT !.total = 0]
      BY <2>1 DEF Repeats
    <3>2. m[i] \in DOMAIN R /\ m[j] \in DOMAIN R /\ m[i] # m[j] /\ Q[i] = R[m[i]] /\ Q[j] = R[m[j]]
      BY <3>1 DEF SameLines
    <3> QED
      BY <3>1, <3>2, Zenon DEF Repeats
  <2>2. ASSUME Repeats(R) PROVE Repeats(Q)
    <3>1. PICK i \in DOMAIN R, j \in DOMAIN R :
              i # j /\ [R[i] EXCEPT !.total = 0] = [R[j] EXCEPT !.total = 0]
      BY <2>2 DEF Repeats
    <3>2. PICK x \in DOMAIN Q : m[x] = i
      BY <3>1 DEF SameLines
    <3>3. PICK y \in DOMAIN Q : m[y] = j
      BY <3>1 DEF SameLines
    <3>4. x # y /\ Q[x] = R[i] /\ Q[y] = R[j]
      BY <3>1, <3>2, <3>3 DEF SameLines
    <3> QED
      BY <3>1, <3>4, Zenon DEF Repeats
  <2> QED
    BY <2>1, <2>2
<1>2. /\ {Q[x].cell : x \in AllowedLines(Q, allowed)} = {R[x].cell : x \in AllowedLines(R, allowed)}
      /\ CellKeys(Q, allowed) = CellKeys(R, allowed)
  <2>1. \A x \in AllowedLines(Q, allowed) :
            m[x] \in AllowedLines(R, allowed) /\ Q[x] = R[m[x]] /\ CellKey(Q, x) = CellKey(R, m[x])
    BY DEF AllowedLines, SameLines, CellKey
  <2>2. \A i \in AllowedLines(R, allowed) : \E x \in AllowedLines(Q, allowed) : m[x] = i
    BY DEF AllowedLines, SameLines
  <2> QED
    BY <2>1, <2>2 DEF CellKeys
<1>3. ASSUME NEW k PROVE CellRow(Q, CellLines(Q, allowed, k)) = CellRow(R, CellLines(R, allowed, k))
  <2> DEFINE A == CellLines(Q, allowed, k)
             B == CellLines(R, allowed, k)
             knownA == {i \in A : Q[i].total # None}
             knownB == {i \in B : R[i].total # None}
             totalA == [i \in A |-> Q[i].total]
             totalB == [i \in B |-> R[i].total]
  <2>1. A \in SUBSET DOMAIN Q /\ B \in SUBSET DOMAIN R
    BY DEF CellLines, AllowedLines
  <2>2. IsFiniteSet(A) /\ IsFiniteSet(B)
    BY <2>1, FS_Subset DEF CellLinesAreCounted
  <2>3. \A x \in A : m[x] \in B /\ Q[x] = R[m[x]]
    BY DEF CellLines, AllowedLines, CellKey, SameLines
  <2>4. \A i \in B : \E x \in A : m[x] = i
    BY DEF CellLines, AllowedLines, CellKey, SameLines
  <2>5. \A x, y \in A : m[x] = m[y] => x = y
    BY <2>1 DEF SameLines
  <2>6. \A i \in B : R[i].total \in Int \cup {None}
    BY <2>1 DEF CellLinesAreCounted
  <2>7. \A x \in A : Q[x].total \in Int \cup {None}
    BY <2>3, <2>6
  <2> HIDE DEF A, B
  <2>8. \A S \in SUBSET A : IsFiniteSet(S) /\ Cardinality({m[x] : x \in S}) = Cardinality(S)
    <3> SUFFICES ASSUME NEW S \in SUBSET A
                 PROVE IsFiniteSet(S) /\ Cardinality({m[x] : x \in S}) = Cardinality(S)
      OBVIOUS
    <3> DEFINE f == [x \in S |-> m[x]]
    <3>1. IsFiniteSet(S)
      BY <2>2, FS_Subset
    <3>2. f \in [S -> {f[x] : x \in S}] /\ \A x, y \in S : f[x] = f[y] => x = y
      BY <2>5
    <3>3. {m[x] : x \in S} = {f[x] : x \in S}
      OBVIOUS
    <3> HIDE DEF f
    <3> QED
      BY <3>1, <3>2, <3>3, ImagesAreAsMany
  <2>9. B = {m[x] : x \in A} /\ knownB = {m[x] : x \in knownA} /\ B \ knownB = {m[x] : x \in A \ knownA}
    BY <2>3, <2>4, <2>5
  <2>10. knownA \in SUBSET A /\ A \ knownA \in SUBSET A /\ A \in SUBSET A
    OBVIOUS
  <2>11. Renames(m, totalA, totalB, knownA)
    <3>1. \A x \in knownA : totalA[x] \in Int /\ totalB[m[x]] = totalA[x]
      BY <2>3, <2>7
    <3> QED
      BY <3>1, <2>5 DEF Renames
  <2>12. CellRow(Q, A) = [known |-> SumFunctionOnSet(totalA, knownA), fragments |-> Cardinality(A),
                          masked |-> Cardinality(A \ knownA)]
    BY <2>2, <2>7, CellRowsAreCounted
  <2>13. CellRow(R, B) = [known |-> SumFunctionOnSet(totalB, knownB), fragments |-> Cardinality(B),
                          masked |-> Cardinality(B \ knownB)]
    BY <2>2, <2>6, CellRowsAreCounted
  <2> HIDE DEF knownA, knownB, totalA, totalB
  <2>14. SumFunctionOnSet(totalB, knownB) = SumFunctionOnSet(totalA, knownA)
    BY <2>8, <2>9, <2>10, <2>11, SumOfImages
  <2>15. Cardinality(B) = Cardinality(A) /\ Cardinality(B \ knownB) = Cardinality(A \ knownA)
    BY <2>8, <2>9, <2>10
  <2>16. CellRow(Q, A) = CellRow(R, B)
    BY <2>12, <2>13, <2>14, <2>15
  <2> QED
    BY <2>16 DEF A, B
<1> QED
  BY <1>1, <1>2, <1>3, Zenon DEF Gathered

\* The lines of inputs, each under its file and place.
LinesOf(inputs) == UNION {{f} \X DOMAIN inputs[f] : f \in DOMAIN inputs}
ReadFrom(inputs) == [x \in LinesOf(inputs) |-> inputs[x[1]][x[2]]]

LEMMA CompactIs ==
    ASSUME NEW inputs, NEW allowed
    PROVE  Compact(inputs, allowed) =
               IF allowed = {} \/ inputs = <<>> \/ \E f \in DOMAIN inputs : ~ReadableLines(inputs[f]) THEN Refused
               ELSE Gathered(ReadFrom(inputs), allowed)
<1>1. \A R : AllowedLines(R, allowed) = {i \in DOMAIN R : R[i].cell \in allowed}
  BY DEF AllowedLines
<1> QED
  BY Zenon DEF Compact, Gathered, ReadFrom, LinesOf, AllowedLines, CellLines, CellKeys, CellKey

\* A line is refused, or has a count or none.
LinesAreRead(lines, n) ==
    /\ n \in Nat /\ IsFiniteSet(1..n) /\ DOMAIN lines = 1..n
    /\ \A i \in 1..n : lines[i] # Refused => lines[i].total \in Int \cup {None}

AsRead(lines, n, allowed) ==
    IF allowed = {} \/ \E i \in 1..n : lines[i] = Refused THEN Refused ELSE Gathered(lines, allowed)

LEMMA HoweverCut ==
    ASSUME NEW n, NEW lines, LinesAreRead(lines, n), NEW inputs, inputs # <<>>, NEW m, NEW allowed,
           SameLines(m, ReadFrom(inputs), lines), IsFiniteSet(LinesOf(inputs))
    PROVE  Compact(inputs, allowed) = AsRead(lines, n, allowed)
<1>1. DOMAIN ReadFrom(inputs) = LinesOf(inputs)
  BY DEF ReadFrom
<1>2. (\E f \in DOMAIN inputs : ~ReadableLines(inputs[f])) <=> \E x \in LinesOf(inputs) : ReadFrom(inputs)[x] = Refused
  <2>1. ASSUME NEW f \in DOMAIN inputs, ~ReadableLines(inputs[f])
        PROVE \E x \in LinesOf(inputs) : ReadFrom(inputs)[x] = Refused
    <3>1. PICK i \in DOMAIN inputs[f] : inputs[f][i] = Refused
      BY <2>1 DEF ReadableLines
    <3>2. <<f, i>> \in LinesOf(inputs)
      BY DEF LinesOf
    <3> QED
      BY <3>1, <3>2 DEF ReadFrom
  <2>2. ASSUME NEW x \in LinesOf(inputs), ReadFrom(inputs)[x] = Refused
        PROVE \E f \in DOMAIN inputs : ~ReadableLines(inputs[f])
    <3>1. PICK f \in DOMAIN inputs : x \in {f} \X DOMAIN inputs[f]
      BY DEF LinesOf
    <3>2. x[1] = f /\ x[2] \in DOMAIN inputs[f] /\ inputs[f][x[2]] = Refused
      BY <2>2, <3>1 DEF ReadFrom
    <3> QED
      BY <3>2 DEF ReadableLines
  <2> QED
    BY <2>1, <2>2
<1>3. (\E x \in LinesOf(inputs) : ReadFrom(inputs)[x] = Refused) <=> \E i \in 1..n : lines[i] = Refused
  <2>1. \A x \in LinesOf(inputs) : \E i \in 1..n : ReadFrom(inputs)[x] = lines[i]
    BY <1>1 DEF SameLines, LinesAreRead
  <2>2. ASSUME NEW i \in 1..n PROVE \E x \in LinesOf(inputs) : ReadFrom(inputs)[x] = lines[i]
    <3>1. i \in DOMAIN lines
      BY DEF LinesAreRead
    <3>2. PICK x \in LinesOf(inputs) : m[x] = i
      BY <1>1, <3>1 DEF SameLines
    <3>3. ReadFrom(inputs)[x] = lines[m[x]]
      BY <1>1 DEF SameLines
    <3> QED
      BY <3>2, <3>3
  <2> QED
    BY <2>1, <2>2
<1>4. ASSUME \A i \in 1..n : lines[i] # Refused
      PROVE  Gathered(ReadFrom(inputs), allowed) = Gathered(lines, allowed)
  <2>1. CellLinesAreCounted(lines)
    BY <1>4 DEF CellLinesAreCounted, LinesAreRead
  <2> QED
    BY <1>1, <2>1, GatheredAlike
<1>5. Compact(inputs, allowed) =
          IF allowed = {} \/ inputs = <<>> \/ \E f \in DOMAIN inputs : ~ReadableLines(inputs[f]) THEN Refused
          ELSE Gathered(ReadFrom(inputs), allowed)
  BY CompactIs
<1> QED
  BY <1>2, <1>3, <1>4, <1>5 DEF AsRead

\* What is gathered is all that was read of the allowed cells.
LEMMA GatheredIsWhole ==
    ASSUME NEW R, CellLinesAreCounted(R), NEW allowed, Gathered(R, allowed) # Refused
    PROVE  LET whole == Gathered(R, allowed)
               mine == AllowedLines(R, allowed)
               known == {i \in mine : R[i].total # None} IN
           /\ DOMAIN whole = CellKeys(R, allowed)
           /\ SumFunction([k \in DOMAIN whole |-> whole[k].known])
                  = SumFunction([i \in known |-> R[i].total])
           /\ SumFunction([k \in DOMAIN whole |-> whole[k].fragments]) = Cardinality(mine)
           /\ \A k \in DOMAIN whole :
                  whole[k].masked = Cardinality({i \in mine : CellKey(R, i) = k /\ R[i].total = None})
<1> DEFINE whole == Gathered(R, allowed)
           mine == AllowedLines(R, allowed)
           known == {i \in mine : R[i].total # None}
           total == [i \in known |-> R[i].total]
           one == [i \in mine |-> 1]
           key == [i \in mine |-> CellKey(R, i)]
           K == CellKeys(R, allowed)
           knowns == [k \in K |-> whole[k].known]
           many == [k \in K |-> whole[k].fragments]
<1>1. whole = [k \in K |-> CellRow(R, CellLines(R, allowed, k))]
  BY Zenon DEF Gathered
<1>2. IsFiniteSet(mine) /\ IsFiniteSet(known)
  <2>1. mine \in SUBSET DOMAIN R /\ known \in SUBSET DOMAIN R
    BY DEF AllowedLines
  <2> QED
    BY <2>1, FS_Subset DEF CellLinesAreCounted
<1>3. IsFiniteSet(K)
  <2>1. K = {key[i] : i \in mine}
    BY DEF CellKeys
  <2> HIDE DEF key, mine, K
  <2> QED
    BY <1>2, <2>1, ImagesAreFinite
<1>4. \A i \in mine : R[i].total \in Int \cup {None}
  BY DEF AllowedLines, CellLinesAreCounted
<1>5. ASSUME NEW k \in K
      PROVE  /\ knowns[k] = SumFunctionOnSet(total, {i \in known : key[i] = k})
             /\ many[k] = SumFunctionOnSet(one, {i \in mine : key[i] = k})
             /\ whole[k].masked = Cardinality({i \in mine : CellKey(R, i) = k /\ R[i].total = None})
  <2> DEFINE at == CellLines(R, allowed, k)
             ofIt == {i \in at : R[i].total # None}
             its == [i \in at |-> R[i].total]
  <2>1. at = {i \in mine : key[i] = k}
    BY DEF CellLines
  <2>2. IsFiniteSet(at) /\ \A i \in at : R[i].total \in Int \cup {None}
    <3>1. at \in SUBSET mine
      BY <2>1
    <3> HIDE DEF at, mine
    <3> QED
      BY <1>2, <1>4, <3>1, FS_Subset
  <2>3. /\ CellRow(R, at).known = SumFunctionOnSet(its, ofIt)
        /\ CellRow(R, at).fragments = Cardinality(at)
        /\ CellRow(R, at).masked = Cardinality(at \ ofIt)
    BY <2>2, CellRowsAreCounted
  <2>4. whole[k] = CellRow(R, at)
    BY <1>1
  <2>5. ofIt = {i \in known : key[i] = k} /\ at \ ofIt = {i \in mine : CellKey(R, i) = k /\ R[i].total = None}
    BY <2>1
  <2>6. SumFunctionOnSet(its, ofIt) = SumFunctionOnSet(total, ofIt)
    <3>1. IsFiniteSet(ofIt)
      BY <2>2, FS_Subset
    <3>2. \A i \in ofIt : its[i] \in Int /\ its[i] = total[i]
      BY <2>1, <2>2
    <3> HIDE DEF its, total, ofIt
    <3> QED
      BY <3>1, <3>2, SumAgrees
  <2>7. SumFunctionOnSet(one, at) = Cardinality(at)
    <3>1. \A i \in at : one[i] = 1
      BY <2>1
    <3> HIDE DEF one, at
    <3> QED
      BY <2>2, <3>1, SumOfOnes
  <2> HIDE DEF at, ofIt, its, one, total, key, whole
  <2> QED
    BY <2>1, <2>3, <2>4, <2>5, <2>6, <2>7
<1>6. SumFunctionOnSet(knowns, K) = SumFunctionOnSet(total, known)
  <2>1. \A i \in known : total[i] \in Int /\ key[i] \in K
    <3>1. \A i \in known : R[i].total \in Int
      BY <1>4
    <3>2. \A i \in mine : key[i] \in K
      BY DEF CellKeys
    <3> HIDE DEF key, K, mine
    <3> QED
      BY <3>1, <3>2
  <2> HIDE DEF total, knowns, key, K, known, mine, one, many
  <2>2. SumsKinds(knowns, total, key, known, K)
    BY <1>5 DEF SumsKinds
  <2> QED
    BY <1>2, <1>3, <2>1, <2>2, SumOfKinds
<1>7. SumFunctionOnSet(many, K) = Cardinality(mine)
  <2>1. \A i \in mine : one[i] = 1 /\ one[i] \in Int /\ key[i] \in K
    BY DEF CellKeys
  <2> HIDE DEF total, knowns, key, K, known, mine, one, many
  <2>2. SumsKinds(many, one, key, mine, K)
    BY <1>5 DEF SumsKinds
  <2>3. SumFunctionOnSet(many, K) = SumFunctionOnSet(one, mine)
    BY <1>2, <1>3, <2>1, <2>2, SumOfKinds
  <2>4. SumFunctionOnSet(one, mine) = Cardinality(mine)
    BY <1>2, <2>1, SumOfOnes
  <2> QED
    BY <2>3, <2>4
<1>8. DOMAIN whole = K
  BY <1>1
<1>9. /\ SumFunction(knowns) = SumFunctionOnSet(knowns, K)
      /\ SumFunction(many) = SumFunctionOnSet(many, K)
      /\ SumFunction(total) = SumFunctionOnSet(total, known)
  BY TotalIs
<1>10. \A k \in K : whole[k].masked = Cardinality({i \in mine : CellKey(R, i) = k /\ R[i].total = None})
  BY <1>5
<1>11. [k \in DOMAIN whole |-> whole[k].known] = knowns /\ [k \in DOMAIN whole |-> whole[k].fragments] = many
  BY <1>8
<1> QED
  BY <1>6, <1>7, <1>8, <1>9, <1>10, <1>11

\* However a month's lines are cut into inputs, the same cells come out, and all
\* that was counted of them (compact_living_population).
THEOREM CompactionsAreWhole ==
    ASSUME NEW n, NEW lines, LinesAreRead(lines, n), NEW Line, lines \in [1..n -> Line], NEW allowed
    PROVE  CompactIsWhole(lines, allowed)
<1> DEFINE out == AsRead(lines, n, allowed)
           whole == Compact(<<lines>>, allowed)
<1>1. n \in Nat /\ DOMAIN lines = 1..n /\ IsFiniteSet(1..n)
  BY DEF LinesAreRead
<1>2. lines \in Seq(Line) /\ Len(lines) = n
  BY <1>1, FunctionsAreSequences
<1>3. whole = out
  <2> DEFINE inputs == <<lines>>
             m == [x \in {1} \X (1..n) |-> x[2]]
  <2>1. inputs # <<>> /\ LinesOf(inputs) = {1} \X (1..n)
    <3>1. DOMAIN inputs = {1} /\ inputs[1] = lines
      OBVIOUS
    <3> HIDE DEF inputs
    <3>2. LinesOf(inputs) = {1} \X (1..n)
      BY <1>1, <3>1 DEF LinesOf
    <3> QED
      BY <3>1, <3>2
  <2>2. SameLines(m, ReadFrom(inputs), lines)
    <3>1. DOMAIN ReadFrom(inputs) = {1} \X (1..n)
      BY <2>1 DEF ReadFrom
    <3>2. \A x \in {1} \X (1..n) : m[x] \in 1..n /\ ReadFrom(inputs)[x] = lines[m[x]]
      <4> SUFFICES ASSUME NEW x \in {1} \X (1..n)
                   PROVE  m[x] \in 1..n /\ ReadFrom(inputs)[x] = lines[m[x]]
        OBVIOUS
      <4>1. ReadFrom(inputs)[x] = inputs[x[1]][x[2]] /\ x[1] = 1 /\ x[2] \in 1..n /\ m[x] = x[2]
        BY <2>1 DEF ReadFrom
      <4>2. inputs[1] = lines
        OBVIOUS
      <4> HIDE DEF inputs, m
      <4> QED
        BY <4>1, <4>2
    <3>3. \A x, y \in {1} \X (1..n) : m[x] = m[y] => x = y
      OBVIOUS
    <3>4. \A i \in 1..n : <<1, i>> \in {1} \X (1..n) /\ m[<<1, i>>] = i
      OBVIOUS
    <3> HIDE DEF inputs, m
    <3> QED
      BY <1>1, <3>1, <3>2, <3>3, <3>4 DEF SameLines
  <2>3. IsFiniteSet({1} \X (1..n))
    BY <1>1, FS_Singleton, FS_Product
  <2> HIDE DEF inputs, m
  <2>4. Compact(inputs, allowed) = out
    BY <2>1, <2>2, <2>3, HoweverCut
  <2> QED
    BY <2>4 DEF inputs
<1>4. ASSUME NEW cut \in 0..n
      PROVE  Compact(<<SubSeq(lines, cut + 1, n), SubSeq(lines, 1, cut)>>, allowed) = out
  <2> DEFINE late == SubSeq(lines, cut + 1, n)
             early == SubSeq(lines, 1, cut)
             inputs == <<late, early>>
             places == ({1} \X (1..(n - cut))) \cup ({2} \X (1..cut))
             m == [x \in places |-> IF x[1] = 1 THEN cut + x[2] ELSE x[2]]
  <2>0. cut \in Nat /\ n - cut \in Nat
    BY <1>1
  <2>1. DOMAIN late = 1..(n - cut) /\ \A i \in 1..(n - cut) : late[i] = lines[cut + i]
    BY <1>1, <1>2, <2>0
  <2>2. DOMAIN early = 1..cut /\ \A i \in 1..cut : early[i] = lines[i]
    BY <1>1, <1>2, <2>0
  <2>3. inputs # <<>> /\ LinesOf(inputs) = places /\ inputs[1] = late /\ inputs[2] = early
    <3> HIDE DEF late, early
    <3>1. DOMAIN inputs = {1, 2} /\ inputs[1] = late /\ inputs[2] = early
      OBVIOUS
    <3> HIDE DEF inputs
    <3>2. LinesOf(inputs) = ({1} \X DOMAIN late) \cup ({2} \X DOMAIN early)
      BY <3>1 DEF LinesOf
    <3> QED
      BY <2>1, <2>2, <3>1, <3>2
  <2> HIDE DEF late, early, inputs
  <2>4. \A x \in places : m[x] \in 1..n /\ ReadFrom(inputs)[x] = lines[m[x]]
    <3> SUFFICES ASSUME NEW x \in places PROVE m[x] \in 1..n /\ ReadFrom(inputs)[x] = lines[m[x]]
      OBVIOUS
    <3>1. ReadFrom(inputs)[x] = inputs[x[1]][x[2]]
      BY <2>3 DEF ReadFrom
    <3>2. CASE x \in {1} \X (1..(n - cut))
      <4>1. x[1] = 1 /\ x[2] \in 1..(n - cut) /\ m[x] = cut + x[2]
        BY <3>2
      <4>2. cut + x[2] \in 1..n
        BY <1>1, <2>0, <4>1
      <4> HIDE DEF m, places
      <4> QED
        BY <2>1, <2>3, <3>1, <4>1, <4>2
    <3>3. CASE x \in {2} \X (1..cut)
      <4>1. x[1] = 2 /\ x[2] \in 1..cut /\ m[x] = x[2]
        BY <3>3
      <4>2. x[2] \in 1..n
        BY <1>1, <2>0, <4>1
      <4> HIDE DEF m, places
      <4> QED
        BY <2>2, <2>3, <3>1, <4>1, <4>2
    <3> QED
      BY <3>2, <3>3
  <2>5. \A x, y \in places : m[x] = m[y] => x = y
    <3> SUFFICES ASSUME NEW x \in places, NEW y \in places, m[x] = m[y] PROVE x = y
      OBVIOUS
    <3>1. /\ x = <<x[1], x[2]>> /\ y = <<y[1], y[2]>> /\ x[2] \in Int /\ y[2] \in Int
          /\ (x[1] = 1 /\ x[2] \in 1..(n - cut)) \/ (x[1] = 2 /\ x[2] \in 1..cut)
          /\ (y[1] = 1 /\ y[2] \in 1..(n - cut)) \/ (y[1] = 2 /\ y[2] \in 1..cut)
      BY <2>0
    <3>2. /\ m[x] = IF x[1] = 1 THEN cut + x[2] ELSE x[2]
          /\ m[y] = IF y[1] = 1 THEN cut + y[2] ELSE y[2]
      OBVIOUS
    <3> DEFINE a == x[1]  b == x[2]  c == y[1]  d == y[2]
    <3>3. (IF a = 1 THEN cut + b ELSE b) = (IF c = 1 THEN cut + d ELSE d)
      BY <3>2
    <3>4. /\ b \in Int /\ d \in Int
          /\ (a = 1 /\ b \in 1..(n - cut)) \/ (a = 2 /\ b \in 1..cut)
          /\ (c = 1 /\ d \in 1..(n - cut)) \/ (c = 2 /\ d \in 1..cut)
      BY <3>1
    <3> HIDE DEF m, places, a, b, c, d
    <3>5. a = c /\ b = d
      BY <2>0, <3>3, <3>4
    <3>6. x[1] = y[1] /\ x[2] = y[2]
      BY <3>5 DEF a, b, c, d
    <3> QED
      BY <3>1, <3>6
  <2>6. \A i \in 1..n : \E x \in places : m[x] = i
    <3> SUFFICES ASSUME NEW i \in 1..n PROVE \E x \in places : m[x] = i
      OBVIOUS
    <3>1. CASE i <= cut
      <4>1. i \in 1..cut
        BY <1>1, <2>0, <3>1
      <4>2. <<2, i>> \in places /\ m[<<2, i>>] = i
        BY <4>1
      <4> QED
        BY <4>2
    <3>2. CASE i > cut
      <4>1. i - cut \in 1..(n - cut) /\ cut + (i - cut) = i
        BY <1>1, <2>0, <3>2
      <4>2. <<1, i - cut>> \in places /\ m[<<1, i - cut>>] = cut + (i - cut)
        BY <4>1
      <4> QED
        BY <4>1, <4>2
    <3>3. i \in Int
      BY <1>1
    <3> HIDE DEF m, places
    <3> QED
      BY <2>0, <3>1, <3>2, <3>3
  <2>7. DOMAIN ReadFrom(inputs) = places
    BY <2>3 DEF ReadFrom
  <2>8. IsFiniteSet(places)
    <3>1. IsFiniteSet(1..(n - cut)) /\ IsFiniteSet(1..cut)
      BY <2>0, FS_Interval
    <3>2. IsFiniteSet({1} \X (1..(n - cut))) /\ IsFiniteSet({2} \X (1..cut))
      BY <3>1, FS_Singleton, FS_Product
    <3> QED
      BY <3>2, FS_Union
  <2> HIDE DEF m, places
  <2>9. SameLines(m, ReadFrom(inputs), lines)
    BY <1>1, <2>4, <2>5, <2>6, <2>7 DEF SameLines
  <2>10. Compact(inputs, allowed) = out
    <3>1. IsFiniteSet(LinesOf(inputs)) /\ inputs # <<>>
      BY <2>3, <2>8
    <3>2. LinesAreRead(lines, n)
      OBVIOUS
    <3>3. SameLines(m, ReadFrom(inputs), lines)
      BY <2>9
    <3>4. Compact(inputs, allowed) = AsRead(lines, n, allowed)
      BY <3>1, <3>2, <3>3, HoweverCut
    <3> QED
      BY <3>4
  <2> QED
    BY <2>10 DEF inputs, late, early
<1>5. ASSUME whole # Refused
      PROVE  LET mine == {i \in DOMAIN lines : lines[i].cell \in allowed} IN
             /\ SumFunction([k \in DOMAIN whole |-> whole[k].known])
                    = SumFunction([i \in {i \in mine : lines[i].total # None} |-> lines[i].total])
             /\ SumFunction([k \in DOMAIN whole |-> whole[k].fragments]) = Cardinality(mine)
             /\ \A k \in DOMAIN whole :
                    whole[k].masked = Cardinality({i \in mine :
                        <<lines[i].slot, lines[i].cell>> = k /\ lines[i].total = None})
  <2>1. whole = Gathered(lines, allowed) /\ \A i \in 1..n : lines[i] # Refused
    BY <1>3, <1>5 DEF AsRead
  <2>2. CellLinesAreCounted(lines)
    BY <2>1 DEF CellLinesAreCounted, LinesAreRead
  <2> DEFINE mine == AllowedLines(lines, allowed)
             known == {i \in mine : lines[i].total # None}
  <2> DEFINE gathered == Gathered(lines, allowed)
  <2>3. /\ SumFunction([k \in DOMAIN gathered |-> gathered[k].known])
                  = SumFunction([i \in known |-> lines[i].total])
        /\ SumFunction([k \in DOMAIN gathered |-> gathered[k].fragments]) = Cardinality(mine)
        /\ \A k \in DOMAIN gathered :
                  gathered[k].masked = Cardinality({i \in mine : CellKey(lines, i) = k /\ lines[i].total = None})
    <3>1. Gathered(lines, allowed) # Refused
      BY <1>5, <2>1
    <3> HIDE DEF whole
    <3> QED
      BY <2>2, <3>1, GatheredIsWhole
  <2>4. whole = gathered
    BY <2>1
  <2> HIDE DEF whole, gathered
  <2> QED
    BY <2>3, <2>4, Zenon DEF AllowedLines, CellKey
<1> HIDE DEF out
<1>6. \A cut \in 0..Len(lines) :
          Compact(<<SubSeq(lines, cut + 1, Len(lines)), SubSeq(lines, 1, cut)>>, allowed) = whole
  BY <1>2, <1>3, <1>4
<1> QED
  BY <1>5, <1>6, Zenon DEF CompactIsWhole, Total

\* The counts of living are integers or masked, and finitely many.
MaskedOrCounted(living) ==
    IsFiniteSet(DOMAIN living) /\ \A k \in DOMAIN living : living[k] \in Int \cup {None}

\* A zone's change from one hour to another is the opposite of the change back:
\* the cells compared are those of either hour (_paired_zone_stocks).
THEOREM ChangesHaveTheirSign ==
    ASSUME NEW living, MaskedOrCounted(living), NEW zone, NEW left, NEW right
    PROVE  ChangesAreSigned(living, zone, left, right)
<1> SUFFICES ASSUME NEW v \in Variants
             PROVE  StockChange(living, zone, left, right, v[1], v[2])
                        = -StockChange(living, zone, right, left, v[1], v[2])
  BY Zenon DEF ChangesAreSigned
<1>1. v[1] \in Int /\ v[2] \in Int
  BY DEF Variants
<1> DEFINE at(c, h) == IF <<zone, c, h>> \notin DOMAIN living THEN v[2]
                       ELSE IF living[<<zone, c, h>>] = None THEN v[1]
                       ELSE living[<<zone, c, h>>]
           cells == ComparedCells(living, zone, left, right)
           there == [c \in cells |-> at(c, right) - at(c, left)]
           back == [c \in cells |-> at(c, left) - at(c, right)]
<1>2. \A c, h : at(c, h) \in Int
  BY <1>1 DEF MaskedOrCounted
<1>3. IsFiniteSet(cells)
  <2>1. \A h : IsFiniteSet(CellsOf(living, zone, h))
    <3> SUFFICES ASSUME NEW h PROVE IsFiniteSet(CellsOf(living, zone, h))
      OBVIOUS
    <3> DEFINE Q == {q \in DOMAIN living : q[1] = zone /\ q[3] = h}
               m == [q \in Q |-> q[2]]
    <3>1. IsFiniteSet(Q)
      BY FS_Subset DEF MaskedOrCounted
    <3>2. IsFiniteSet({m[q] : q \in Q})
      <4> HIDE DEF Q, m
      <4> QED
        BY <3>1, ImagesAreFinite
    <3>3. CellsOf(living, zone, h) = {m[q] : q \in Q}
      BY DEF CellsOf
    <3> QED
      BY <3>2, <3>3
  <2> QED
    BY <2>1, FS_Union DEF ComparedCells
<1>4. StockChange(living, zone, left, right, v[1], v[2]) = SumFunctionOnSet(there, cells)
  <2>1. StockChange(living, zone, left, right, v[1], v[2]) = SumFunction(there)
    BY Zenon DEF StockChange, Total
  <2> QED
    BY <2>1, TotalIs
<1>5. StockChange(living, zone, right, left, v[1], v[2]) = SumFunctionOnSet(back, cells)
  <2>1. cells = ComparedCells(living, zone, right, left)
    BY DEF ComparedCells
  <2>2. StockChange(living, zone, right, left, v[1], v[2])
            = SumFunction([c \in ComparedCells(living, zone, right, left) |-> at(c, left) - at(c, right)])
    BY Zenon DEF StockChange, Total
  <2>3. StockChange(living, zone, right, left, v[1], v[2]) = SumFunction(back)
    BY <2>1, <2>2
  <2> QED
    BY <2>3, TotalIs
<1>6. \A c \in cells : back[c] \in Int /\ there[c] = (-1) * back[c]
  <2> SUFFICES ASSUME NEW c \in cells PROVE back[c] \in Int /\ there[c] = (-1) * back[c]
    OBVIOUS
  <2> DEFINE x == at(c, left)  y == at(c, right)
  <2>1. x \in Int /\ y \in Int /\ back[c] = x - y /\ there[c] = y - x
    BY <1>2
  <2> HIDE DEF x, y, back, there
  <2> QED
    BY <2>1
<1> HIDE DEF there, back, cells
<1>7. SumFunctionOnSet(there, cells) = (-1) * SumFunctionOnSet(back, cells)
  BY <1>3, <1>6, SumOfMultiples
<1>8. SumFunctionOnSet(back, cells) \in Int
  BY <1>3, <1>6, SumStep
<1> QED
  BY <1>4, <1>5, <1>7, <1>8

\* Greater correlations, defined where the others are, have no worse verdict.
Raises(m, f, g) ==
    /\ OneForOne(m, DOMAIN f, DOMAIN g)
    /\ \A x \in DOMAIN f : \/ f[x] = None /\ g[m[x]] = None
                           \/ f[x] \in Int /\ g[m[x]] \in Int /\ f[x] <= g[m[x]]

\* Those that are defined at all.
LEMMA RaisedTogether ==
    ASSUME NEW f, IsFiniteSet(DOMAIN f), NEW g, NEW m, Raises(m, f, g)
    PROVE  LET up(h) == {x \in DOMAIN h : h[x] > 0} IN
           /\ (\E x \in DOMAIN f : f[x] = None) <=> (\E y \in DOMAIN g : g[y] = None)
           /\ (\A x \in DOMAIN f : f[x] # None) =>
                  /\ up(f) = DOMAIN f => up(g) = DOMAIN g
                  /\ Cardinality(up(f)) \in Nat /\ Cardinality(up(g)) \in Nat
                  /\ Cardinality(up(f)) <= Cardinality(up(g))
                  /\ DOMAIN f # {} => /\ Median(f) \in Int /\ Median(g) \in Int
                                      /\ Median(f) <= Median(g)
<1> DEFINE up(h) == {x \in DOMAIN h : h[x] > 0}
<1>1. /\ \A x \in DOMAIN f : m[x] \in DOMAIN g
      /\ \A x, y \in DOMAIN f : m[x] = m[y] => x = y
      /\ \A y \in DOMAIN g : \E x \in DOMAIN f : m[x] = y
  BY DEF Raises, OneForOne
<1>2. IsFiniteSet(DOMAIN g)
  BY OneForOneAreAsMany DEF Raises
<1>3. (\E x \in DOMAIN f : f[x] = None) <=> (\E y \in DOMAIN g : g[y] = None)
  <2>1. \A x \in DOMAIN f : f[x] = None <=> g[m[x]] = None
    BY OutcomesAssumption DEF Raises
  <2> QED
    BY <1>1, <2>1
<1>4. ASSUME \A x \in DOMAIN f : f[x] # None
      PROVE  /\ up(f) = DOMAIN f => up(g) = DOMAIN g
             /\ Cardinality(up(f)) \in Nat /\ Cardinality(up(g)) \in Nat
             /\ Cardinality(up(f)) <= Cardinality(up(g))
             /\ DOMAIN f # {} => /\ Median(f) \in Int /\ Median(g) \in Int
                                 /\ Median(f) <= Median(g)
  <2>1. \A x \in DOMAIN f : f[x] \in Int /\ g[m[x]] \in Int /\ f[x] <= g[m[x]]
    BY <1>4 DEF Raises
  <2>2. Numbers(f) /\ Numbers(g) /\ Dominates(m, f, g)
    <3>1. \A y \in DOMAIN g : g[y] \in Int
      BY <1>1, <2>1
    <3> QED
      BY <1>1, <1>2, <2>1, <3>1 DEF Numbers, Dominates
  <2>3. \A x \in up(f) : m[x] \in up(g)
    BY <1>1, <2>1
  <2>4. up(f) = DOMAIN f => up(g) = DOMAIN g
    BY <1>1, <2>3
  <2>5. /\ IsFiniteSet(up(f)) /\ Cardinality(up(f)) \in Nat
        /\ IsFiniteSet(up(g)) /\ Cardinality(up(g)) \in Nat
    <3>1. up(f) \in SUBSET DOMAIN f /\ up(g) \in SUBSET DOMAIN g
      OBVIOUS
    <3> HIDE DEF up
    <3> QED
      BY <1>2, <3>1, PartsAreFewer
  <2>6. Cardinality(up(f)) <= Cardinality(up(g))
    <3> DEFINE T == {m[x] : x \in up(f)}
    <3>1. OneForOne(m, up(f), T)
      BY <1>1 DEF OneForOne
    <3>2. T \in SUBSET up(g)
      BY <2>3
    <3> HIDE DEF up, T
    <3>3. Cardinality(T) = Cardinality(up(f))
      BY <2>5, <3>1, OneForOneAreAsMany
    <3>4. Cardinality(T) <= Cardinality(up(g))
      BY <2>5, <3>2, PartsAreFewer
    <3> QED
      BY <3>3, <3>4
  <2>7. DOMAIN f # {} => Median(f) \in Int /\ Median(g) \in Int /\ Median(f) <= Median(g)
    BY <2>2, MediansGrow
  <2> HIDE DEF up
  <2> QED
    BY <2>4, <2>5, <2>6, <2>7
<1> QED
  BY <1>3, <1>4, Zenon

LEMMA VerdictsGrow ==
    ASSUME NEW f, IsFiniteSet(DOMAIN f), NEW g, NEW m, Raises(m, f, g), DOMAIN f # {}
    PROVE  /\ Verdict(f) \in {"screening", "conditional", "not_supported"}
           /\ Verdict(g) \in {"screening", "conditional", "not_supported"}
           /\ Standing(Verdict(f)) <= Standing(Verdict(g))
<1> DEFINE up(h) == {x \in DOMAIN h : h[x] > 0}
           a == Median(f)
           b == Median(g)
           c == Cardinality(up(f))
           d == Cardinality(up(g))
           undefined == \E x \in DOMAIN f : f[x] = None
           all == up(f) = DOMAIN f
           every == up(g) = DOMAIN g
<1>1. /\ (\E x \in DOMAIN f : f[x] = None) <=> (\E y \in DOMAIN g : g[y] = None)
      /\ ~undefined => /\ all => every
                       /\ c \in Nat /\ d \in Nat /\ c <= d
                       /\ a \in Int /\ b \in Int /\ a <= b
  BY RaisedTogether
<1>2. /\ Verdict(f) = IF undefined THEN "not_supported"
                      ELSE IF all /\ a >= 2 * 30 THEN "screening"
                      ELSE IF a >= 2 * 20 /\ c >= 2 THEN "conditional" ELSE "not_supported"
      /\ Verdict(g) = IF \E y \in DOMAIN g : g[y] = None THEN "not_supported"
                      ELSE IF every /\ b >= 2 * 30 THEN "screening"
                      ELSE IF b >= 2 * 20 /\ d >= 2 THEN "conditional" ELSE "not_supported"
  BY Zenon DEF Verdict
<1> HIDE DEF a, b, c, d, all, every
<1>3. Verdict(g) = IF undefined THEN "not_supported"
                      ELSE IF every /\ b >= 2 * 30 THEN "screening"
                      ELSE IF b >= 2 * 20 /\ d >= 2 THEN "conditional" ELSE "not_supported"
  BY <1>1, <1>2
<1> HIDE DEF undefined
<1> QED
  BY <1>1, <1>2, <1>3 DEF Standing

\* The hours of some days together, and what the pooled verdict makes of them.
DayHours(held) == UNION {{d} \X DOMAIN d.rhos : d \in held}
DayRhos(held) == [x \in DayHours(held) |-> x[1].rhos[x[2]]]
WithVerdict(held, verdicts) == {d \in held : d.base \in verdicts}
PooledBase(held) ==
    LET rhos == DayRhos(held)
        positive == {x \in DayHours(held) : rhos[x] > 0}
    IN  IF DayHours(held) = {} \/ \E x \in DayHours(held) : rhos[x] = None THEN "not_supported"
        ELSE IF /\ Cardinality(WithVerdict(held, {"screening"})) = Cardinality(held)
                /\ Median(rhos) >= 2 * 30 /\ positive = DayHours(held) THEN "supported"
        ELSE IF /\ Cardinality(WithVerdict(held, {"screening", "conditional"})) >= 2
                /\ Median(rhos) >= 2 * 20 /\ Cardinality(positive) >= 7 THEN "conditional"
        ELSE "not_supported"

LEMMA RepeatsVerdictIs ==
    ASSUME NEW days
    PROVE  RepeatsVerdict(days) = IF \E d \in Pooled(days) : d.sensitive THEN Degrade(PooledBase(Pooled(days)))
                                  ELSE PooledBase(Pooled(days))
<1> DEFINE held == Pooled(days)
<1>1. (None \notin Range(DayRhos(held))) <=> ~\E x \in DayHours(held) : DayRhos(held)[x] = None
  BY DEF Range, DayRhos
<1>2. (DayHours(held) # {} /\ None \notin Range(DayRhos(held)))
          <=> ~(DayHours(held) = {} \/ \E x \in DayHours(held) : DayRhos(held)[x] = None)
  BY <1>1
<1> DEFINE base == IF ~(DayHours(held) # {} /\ None \notin Range(DayRhos(held))) THEN "not_supported"
                   ELSE IF /\ Cardinality(WithVerdict(held, {"screening"})) = Cardinality(held)
                           /\ Median(DayRhos(held)) >= 2 * 30
                           /\ {x \in DayHours(held) : DayRhos(held)[x] > 0} = DayHours(held) THEN "supported"
                   ELSE IF /\ Cardinality(WithVerdict(held, {"screening", "conditional"})) >= 2
                           /\ Median(DayRhos(held)) >= 2 * 20
                           /\ Cardinality({x \in DayHours(held) : DayRhos(held)[x] > 0}) >= 7 THEN "conditional"
                   ELSE "not_supported"
<1>3. RepeatsVerdict(days) = IF \E d \in held : d.sensitive THEN Degrade(base) ELSE base
  BY Zenon DEF RepeatsVerdict, WithVerdict, DayHours, DayRhos
<1>4. base = PooledBase(held)
  BY <1>2, Zenon DEF PooledBase
<1> QED
  BY <1>3, <1>4

\* m takes the days of D one for one to those of E, which are no worse.
Improves(m, D, E) ==
    /\ OneForOne(m, D, E)
    /\ \A d \in D :
          /\ DOMAIN m[d].rhos = DOMAIN d.rhos
          /\ \A i \in DOMAIN d.rhos : \/ d.rhos[i] = None /\ m[d].rhos[i] = None
                                      \/ /\ d.rhos[i] \in Int /\ m[d].rhos[i] \in Int
                                         /\ d.rhos[i] <= m[d].rhos[i]
          /\ d.base = "screening" => m[d].base = "screening"
          /\ d.base = "conditional" => m[d].base \in {"screening", "conditional"}
          /\ m[d].sensitive = d.sensitive

\* Finitely many days, of finitely many hours.
DaysAreFinite(D) == IsFiniteSet(D) /\ \A d \in D : IsFiniteSet(DOMAIN d.rhos)

LEMMA DayHoursAreFinite ==
    ASSUME NEW D, DaysAreFinite(D)
    PROVE  IsFiniteSet(DayHours(D))
<1> DEFINE of == [d \in D |-> {d} \X DOMAIN d.rhos]
<1>1. IsFiniteSet(D) /\ \A d \in D : IsFiniteSet(of[d])
  <2>1. \A d \in D : IsFiniteSet({d} \X DOMAIN d.rhos)
    BY FS_Singleton, FS_Product DEF DaysAreFinite
  <2> QED
    BY <2>1 DEF DaysAreFinite
<1>2. DayHours(D) = UNION {of[d] : d \in D}
  BY DEF DayHours
<1> HIDE DEF of
<1>3. IsFiniteSet({of[d] : d \in D})
  BY <1>1, ImagesAreFinite
<1>4. \A S \in {of[d] : d \in D} : IsFiniteSet(S)
  BY <1>1
<1> QED
  BY <1>2, <1>3, <1>4, FS_UNION

LEMMA HoursAreRaised ==
    ASSUME NEW D, NEW E, NEW m, Improves(m, D, E)
    PROVE  Raises([x \in DayHours(D) |-> <<m[x[1]], x[2]>>], DayRhos(D), DayRhos(E))
<1> DEFINE M == [x \in DayHours(D) |-> <<m[x[1]], x[2]>>]
<1>1. \A S : DOMAIN DayRhos(S) = DayHours(S)
  BY DEF DayRhos
<1>2. \A x \in DayHours(D) : /\ x = <<x[1], x[2]>> /\ x[1] \in D /\ x[2] \in DOMAIN x[1].rhos
                             /\ DayRhos(D)[x] = x[1].rhos[x[2]] /\ M[x] = <<m[x[1]], x[2]>>
  BY DEF DayHours, DayRhos
<1>3. \A e \in E : \A i \in DOMAIN e.rhos : <<e, i>> \in DayHours(E) /\ DayRhos(E)[<<e, i>>] = e.rhos[i]
  BY DEF DayHours, DayRhos
<1>4. \A d \in D : \A i \in DOMAIN d.rhos : <<d, i>> \in DayHours(D)
  BY DEF DayHours
<1>5. \A y \in DayHours(E) : y = <<y[1], y[2]>> /\ y[1] \in E /\ y[2] \in DOMAIN y[1].rhos
  BY DEF DayHours
<1> HIDE DEF M
<1>6. ASSUME NEW x \in DayHours(D)
      PROVE  /\ M[x] \in DayHours(E)
             /\ \/ DayRhos(D)[x] = None /\ DayRhos(E)[M[x]] = None
                \/ DayRhos(D)[x] \in Int /\ DayRhos(E)[M[x]] \in Int /\ DayRhos(D)[x] <= DayRhos(E)[M[x]]
  <2> DEFINE d == x[1]  i == x[2]
  <2>1. d \in D /\ i \in DOMAIN d.rhos /\ M[x] = <<m[d], i>> /\ DayRhos(D)[x] = d.rhos[i]
    BY <1>2
  <2> HIDE DEF d, i
  <2>2. m[d] \in E /\ i \in DOMAIN m[d].rhos
    BY <2>1 DEF Improves, OneForOne
  <2>3. M[x] \in DayHours(E) /\ DayRhos(E)[M[x]] = m[d].rhos[i]
    BY <1>3, <2>1, <2>2
  <2>4. \/ d.rhos[i] = None /\ m[d].rhos[i] = None
        \/ d.rhos[i] \in Int /\ m[d].rhos[i] \in Int /\ d.rhos[i] <= m[d].rhos[i]
    BY <2>1 DEF Improves
  <2> QED
    BY <2>1, <2>3, <2>4
<1>7. \A x, y \in DayHours(D) : M[x] = M[y] => x = y
  <2> SUFFICES ASSUME NEW x \in DayHours(D), NEW y \in DayHours(D), M[x] = M[y] PROVE x = y
    OBVIOUS
  <2>1. m[x[1]] = m[y[1]] /\ x[2] = y[2] /\ x[1] \in D /\ y[1] \in D
    BY <1>2
  <2>2. x[1] = y[1]
    BY <2>1 DEF Improves, OneForOne
  <2> QED
    BY <1>2, <2>1, <2>2
<1>8. ASSUME NEW y \in DayHours(E) PROVE \E x \in DayHours(D) : M[x] = y
  <2>1. y = <<y[1], y[2]>> /\ y[1] \in E /\ y[2] \in DOMAIN y[1].rhos
    BY <1>5
  <2>2. PICK d \in D : m[d] = y[1]
    BY <2>1 DEF Improves, OneForOne
  <2>3. y[2] \in DOMAIN d.rhos
    BY <2>1, <2>2 DEF Improves
  <2>4. <<d, y[2]>> \in DayHours(D)
    BY <1>4, <2>3
  <2>5. M[<<d, y[2]>>] = <<m[d], y[2]>>
    BY <2>4 DEF M
  <2> QED
    BY <2>1, <2>2, <2>4, <2>5
<1> QED
  BY <1>1, <1>6, <1>7, <1>8 DEF Raises, OneForOne, M

\* No worse days, no worse verdict.
LEMMA RepeatsGrow ==
    ASSUME NEW D, DaysAreFinite(D), NEW E, DaysAreFinite(E), NEW m, Improves(m, D, E),
           Pooled(D) = D, Pooled(E) = E
    PROVE  Standing(RepeatsVerdict(E)) >= Standing(RepeatsVerdict(D))
<1> DEFINE f == DayRhos(D)
           g == DayRhos(E)
           M == [x \in DayHours(D) |-> <<m[x[1]], x[2]>>]
           up(h) == {x \in DOMAIN h : h[x] > 0}
           a == Median(f)
           b == Median(g)
           c == Cardinality(up(f))
           d == Cardinality(up(g))
           undefined == \E x \in DOMAIN f : f[x] = None
           all == up(f) = DOMAIN f
           every == up(g) = DOMAIN g
           count(S, verdicts) == Cardinality(WithVerdict(S, verdicts))
           one == {"screening"}
           two == {"screening", "conditional"}
<1>1. DOMAIN f = DayHours(D) /\ DOMAIN g = DayHours(E)
  BY DEF DayRhos
<1>2. IsFiniteSet(DOMAIN f) /\ Raises(M, f, g)
  BY <1>1, DayHoursAreFinite, HoursAreRaised
<1>3. /\ (\E x \in DOMAIN f : f[x] = None) <=> (\E y \in DOMAIN g : g[y] = None)
      /\ ~undefined => /\ all => every
                       /\ c \in Nat /\ d \in Nat /\ c <= d
                       /\ DOMAIN f # {} => a \in Int /\ b \in Int /\ a <= b
  <2> HIDE DEF M, f, g
  <2> QED
    BY <1>2, RaisedTogether
<1>4. DOMAIN f = {} <=> DOMAIN g = {}
  <2> HIDE DEF M, f, g
  <2> QED
    BY <1>2 DEF Raises, OneForOne
<1>5. ASSUME NEW verdicts \in {one, two}
      PROVE  /\ count(D, verdicts) \in Nat /\ count(E, verdicts) \in Nat
             /\ count(D, verdicts) <= count(E, verdicts)
             /\ count(D, verdicts) <= Cardinality(D) /\ count(E, verdicts) <= Cardinality(E)
  <2> DEFINE A == WithVerdict(D, verdicts)
             B == WithVerdict(E, verdicts)
             T == {m[x] : x \in A}
  <2>1. A \in SUBSET D /\ B \in SUBSET E
    BY DEF WithVerdict
  <2>2. OneForOne(m, A, T)
    BY <2>1 DEF OneForOne, Improves
  <2>3. T \in SUBSET B
    <3>1. \A x \in A : m[x] \in B
      BY DEF WithVerdict, Improves, OneForOne
    <3> QED
      BY <3>1
  <2> HIDE DEF A, B, T
  <2>4. IsFiniteSet(A) /\ Cardinality(A) \in Nat /\ Cardinality(A) <= Cardinality(D)
    BY <2>1, PartsAreFewer DEF DaysAreFinite
  <2>5. IsFiniteSet(B) /\ Cardinality(B) \in Nat /\ Cardinality(B) <= Cardinality(E)
    BY <2>1, PartsAreFewer DEF DaysAreFinite
  <2>6. Cardinality(T) = Cardinality(A)
    BY <2>2, <2>4, OneForOneAreAsMany
  <2>7. Cardinality(T) <= Cardinality(B)
    BY <2>3, <2>5, PartsAreFewer
  <2> QED
    BY <2>4, <2>5, <2>6, <2>7 DEF A, B
<1>6. Cardinality(D) \in Nat /\ Cardinality(E) = Cardinality(D)
  BY OneForOneAreAsMany DEF Improves, DaysAreFinite
<1>7. /\ count(D, one) = Cardinality(D) => count(E, one) = Cardinality(E)
      /\ count(D, two) >= 2 => count(E, two) >= 2
  <2>1. /\ count(D, one) \in Nat /\ count(E, one) \in Nat
        /\ count(D, one) <= count(E, one)
        /\ count(D, one) <= Cardinality(D) /\ count(E, one) <= Cardinality(E)
    BY <1>5
  <2>2. /\ count(D, two) \in Nat /\ count(E, two) \in Nat
        /\ count(D, two) <= count(E, two)
    BY <1>5
  <2> HIDE DEF count, one, two
  <2> QED
    BY <1>6, <2>1, <2>2
<1> DEFINE most == count(D, one) = Cardinality(D)
           many == count(D, two) >= 2
           most2 == count(E, one) = Cardinality(E)
           many2 == count(E, two) >= 2
           none == DOMAIN f = {} \/ undefined
<1>8. PooledBase(D) = IF none THEN "not_supported"
                      ELSE IF most /\ a >= 2 * 30 /\ all THEN "supported"
                      ELSE IF many /\ a >= 2 * 20 /\ c >= 7 THEN "conditional" ELSE "not_supported"
  <2>1. PooledBase(D) = IF DayHours(D) = {} \/ \E x \in DayHours(D) : f[x] = None THEN "not_supported"
                        ELSE IF /\ count(D, one) = Cardinality(D) /\ a >= 2 * 30
                                /\ {x \in DayHours(D) : f[x] > 0} = DayHours(D) THEN "supported"
                        ELSE IF /\ count(D, two) >= 2 /\ a >= 2 * 20
                                /\ Cardinality({x \in DayHours(D) : f[x] > 0}) >= 7 THEN "conditional"
                        ELSE "not_supported"
    BY Zenon DEF PooledBase
  <2> QED
    BY <1>1, <2>1, Zenon
<1>9. PooledBase(E) = IF DOMAIN g = {} \/ \E y \in DOMAIN g : g[y] = None THEN "not_supported"
                      ELSE IF most2 /\ b >= 2 * 30 /\ every THEN "supported"
                      ELSE IF many2 /\ b >= 2 * 20 /\ d >= 7 THEN "conditional" ELSE "not_supported"
  <2>1. PooledBase(E) = IF DayHours(E) = {} \/ \E x \in DayHours(E) : g[x] = None THEN "not_supported"
                        ELSE IF /\ count(E, one) = Cardinality(E) /\ b >= 2 * 30
                                /\ {x \in DayHours(E) : g[x] > 0} = DayHours(E) THEN "supported"
                        ELSE IF /\ count(E, two) >= 2 /\ b >= 2 * 20
                                /\ Cardinality({x \in DayHours(E) : g[x] > 0}) >= 7 THEN "conditional"
                        ELSE "not_supported"
    BY Zenon DEF PooledBase
  <2> QED
    BY <1>1, <2>1, Zenon
<1>10. PooledBase(E) = IF none THEN "not_supported"
                      ELSE IF most2 /\ b >= 2 * 30 /\ every THEN "supported"
                      ELSE IF many2 /\ b >= 2 * 20 /\ d >= 7 THEN "conditional" ELSE "not_supported"
  <2>1. none <=> (DOMAIN g = {} \/ \E y \in DOMAIN g : g[y] = None)
    BY <1>3, <1>4
  <2> HIDE DEF none, most2, many2, every, b, d
  <2> QED
    BY <1>9, <2>1
<1>11. /\ most => most2
       /\ many => many2
       /\ ~none => /\ all => every
                   /\ c \in Nat /\ d \in Nat /\ c <= d
                   /\ a \in Int /\ b \in Int /\ a <= b
  BY <1>3, <1>7
<1> HIDE DEF a, b, c, d, all, every, most, many, most2, many2, none
<1> DEFINE v == PooledBase(D)
           w == PooledBase(E)
<1>12. /\ v \in {"supported", "conditional", "not_supported"}
       /\ w \in {"supported", "conditional", "not_supported"}
       /\ v = "supported" => w = "supported"
       /\ v = "conditional" => w # "not_supported"
  BY <1>8, <1>10, <1>11
<1>13. (\E x \in D : x.sensitive) <=> \E x \in E : x.sensitive
  <2>1. \A x \in D : m[x] \in E /\ m[x].sensitive = x.sensitive
    BY DEF Improves, OneForOne
  <2>2. \A y \in E : \E x \in D : m[x] = y
    BY DEF Improves, OneForOne
  <2> QED
    BY <2>1, <2>2
<1>14. /\ RepeatsVerdict(D) = IF \E x \in D : x.sensitive THEN Degrade(v) ELSE v
       /\ RepeatsVerdict(E) = IF \E x \in E : x.sensitive THEN Degrade(w) ELSE w
  BY RepeatsVerdictIs
<1> HIDE DEF v, w
<1> QED
  BY <1>12, <1>13, <1>14 DEF Degrade, Standing

\* A day is its five fields, its correlations those of n hours, and no two days
\* have one date (_validate_pairs).
DaysAreRead(days, n) ==
    /\ IsFiniteSet(days) /\ n \in Nat
    /\ \A c, d \in days : c # d => c.date # d.date
    /\ \A d \in days :
          /\ d = [date |-> d.date, role |-> d.role, rhos |-> d.rhos, base |-> d.base,
                  sensitive |-> d.sensitive]
          /\ d.rhos \in [1..n -> Int \cup {None}]

\* A verdict is that of the days held out, and no correlation of theirs lowers it
\* by being greater (run_living_od_repeats).
THEOREM HeldOutDaysDecide ==
    ASSUME NEW days, NEW n, DaysAreRead(days, n), NEW better
    PROVE  OnlyHeldOutDecide(days, better)
<1> DEFINE held == Pooled(days)
<1>1. Pooled(held) = held /\ held \in SUBSET days /\ held = {d \in days : d.role = "held_out"}
  BY DEF Pooled
<1>2. RepeatsVerdict(days) = RepeatsVerdict(held)
  BY <1>1, RepeatsVerdictIs
<1> HIDE DEF held
<1>3. ASSUME \A d \in held : d.base = Verdict(d.rhos), better \in 1..100,
             NEW d \in held, NEW i \in {j \in DOMAIN d.rhos : d.rhos[j] # None}
      PROVE  LET up == [d.rhos EXCEPT ![i] = @ + better]
                 raised == (held \ {d}) \cup {[d EXCEPT !.rhos = up, !.base = Verdict(up)]}
             IN  /\ Standing(Verdict(up)) >= Standing(Verdict(d.rhos))
                 /\ Standing(RepeatsVerdict(raised)) >= Standing(RepeatsVerdict(held))
  <2> DEFINE up == [d.rhos EXCEPT ![i] = @ + better]
             e == [d EXCEPT !.rhos = up, !.base = Verdict(up)]
             raised == (held \ {d}) \cup {e}
             same == [j \in 1..n |-> j]
             m == [c \in held |-> IF c = d THEN e ELSE c]
  <2>1. /\ d = [date |-> d.date, role |-> d.role, rhos |-> d.rhos, base |-> d.base,
                sensitive |-> d.sensitive]
        /\ d.rhos \in [1..n -> Int \cup {None}] /\ IsFiniteSet(1..n) /\ d.role = "held_out"
    <3>1. IsFiniteSet(1..n)
      BY FS_Interval DEF DaysAreRead
    <3>2. d \in days /\ d.role = "held_out"
      BY <1>1
    <3> QED
      BY <3>1, <3>2 DEF DaysAreRead
  <2>2. i \in 1..n /\ d.rhos[i] \in Int
    BY <2>1
  <2>3. /\ DOMAIN up = 1..n /\ DOMAIN d.rhos = 1..n
        /\ \A j \in 1..n : \/ d.rhos[j] = None /\ up[j] = None
                           \/ d.rhos[j] \in Int /\ up[j] \in Int /\ d.rhos[j] <= up[j]
    <3>1. DOMAIN up = 1..n /\ DOMAIN d.rhos = 1..n
      BY <2>1
    <3>2. ASSUME NEW j \in 1..n
          PROVE  \/ d.rhos[j] = None /\ up[j] = None
                 \/ d.rhos[j] \in Int /\ up[j] \in Int /\ d.rhos[j] <= up[j]
      <4>1. d.rhos[j] \in Int \cup {None}
        BY <2>1
      <4>2. up[j] = IF j = i THEN d.rhos[i] + better ELSE d.rhos[j]
        BY <2>1
      <4>3. better \in Int /\ better >= 0
        BY <1>3
      <4> HIDE DEF up
      <4> QED
        BY <2>2, <4>1, <4>2, <4>3
    <3> QED
      BY <3>1, <3>2
  <2> HIDE DEF up
  <2>4. /\ e.rhos = up /\ e.base = Verdict(up) /\ e.date = d.date /\ e.role = "held_out"
        /\ e.sensitive = d.sensitive
    BY <2>1
  <2> HIDE DEF e
  <2>5. Raises(same, d.rhos, up)
    BY <2>3 DEF Raises, OneForOne
  <2>6. /\ Verdict(d.rhos) \in {"screening", "conditional", "not_supported"}
        /\ Verdict(up) \in {"screening", "conditional", "not_supported"}
        /\ Standing(Verdict(d.rhos)) <= Standing(Verdict(up))
    <3>1. DOMAIN d.rhos # {} /\ IsFiniteSet(DOMAIN d.rhos)
      BY <2>1, <2>2, <2>3
    <3> HIDE DEF same
    <3> QED
      BY <2>5, <3>1, VerdictsGrow
  <2>7. Improves(m, held, raised)
    <3>1. \A c \in held : c # d => c # e
      <4> SUFFICES ASSUME NEW c \in held, c # d, c = e PROVE FALSE
        OBVIOUS
      <4>1. c.date # d.date
        BY <1>1 DEF DaysAreRead
      <4> QED
        BY <2>4, <4>1
    <3>2. OneForOne(m, held, raised)
      BY <3>1 DEF OneForOne
    <3>3. ASSUME NEW c \in held
          PROVE  /\ DOMAIN m[c].rhos = DOMAIN c.rhos
                 /\ \A j \in DOMAIN c.rhos : \/ c.rhos[j] = None /\ m[c].rhos[j] = None
                                             \/ /\ c.rhos[j] \in Int /\ m[c].rhos[j] \in Int
                                                /\ c.rhos[j] <= m[c].rhos[j]
                 /\ c.base = "screening" => m[c].base = "screening"
                 /\ c.base = "conditional" => m[c].base \in {"screening", "conditional"}
                 /\ m[c].sensitive = c.sensitive
      <4>1. CASE c = d
        <5>1. m[c] = e /\ d.base = Verdict(d.rhos)
          BY <1>3, <4>1
        <5>2. /\ d.base = "screening" => e.base = "screening"
              /\ d.base = "conditional" => e.base \in {"screening", "conditional"}
          BY <2>4, <2>6, <5>1 DEF Standing
        <5> HIDE DEF m
        <5> QED
          BY <2>3, <2>4, <4>1, <5>1, <5>2
      <4>2. CASE c # d
        <5>1. m[c] = c
          BY <4>2
        <5>2. c.rhos \in [1..n -> Int \cup {None}]
          BY <1>1 DEF DaysAreRead
        <5>3. \A j \in DOMAIN c.rhos : c.rhos[j] \in Int \cup {None}
          BY <5>2
        <5>4. \A j \in DOMAIN c.rhos : \/ c.rhos[j] = None
                                       \/ c.rhos[j] \in Int /\ c.rhos[j] <= c.rhos[j]
          BY <5>3
        <5> HIDE DEF m
        <5> QED
          BY <5>1, <5>4
      <4> QED
        BY <4>1, <4>2
    <3> HIDE DEF m, raised
    <3> QED
      BY <3>2, <3>3 DEF Improves
  <2>8. DaysAreFinite(held) /\ DaysAreFinite(raised)
    <3>1. IsFiniteSet(held) /\ \A c \in held : IsFiniteSet(DOMAIN c.rhos)
      <4>1. \A c \in held : DOMAIN c.rhos = 1..n
        BY <1>1 DEF DaysAreRead
      <4>2. IsFiniteSet(held)
        BY <1>1, FS_Subset DEF DaysAreRead
      <4> QED
        BY <2>1, <4>1, <4>2
    <3>2. IsFiniteSet(raised)
      <4>1. IsFiniteSet(held \ {d})
        BY <3>1, FS_Subset
      <4> QED
        BY <4>1, FS_AddElement
    <3>3. IsFiniteSet(DOMAIN e.rhos)
      BY <2>1, <2>3, <2>4
    <3> QED
      BY <3>1, <3>2, <3>3 DEF DaysAreFinite
  <2>9. Pooled(raised) = raised
    <3>1. \A c \in raised : c.role = "held_out"
      BY <1>1, <2>4
    <3> HIDE DEF raised
    <3> QED
      BY <3>1 DEF Pooled
  <2> HIDE DEF m, raised
  <2>10. Standing(RepeatsVerdict(raised)) >= Standing(RepeatsVerdict(held))
    BY <1>1, <2>7, <2>8, <2>9, RepeatsGrow
  <2>11. Standing(Verdict(up)) >= Standing(Verdict(d.rhos))
    BY <2>6 DEF Standing
  <2> QED
    BY <2>10, <2>11, Zenon DEF raised, e, up
<1> QED
  BY <1>1, <1>2, <1>3, Zenon DEF OnlyHeldOutDecide, held

\* What the offline readers leave: lines with a count or none, trips and counts in
\* whole numbers, days of their own dates, and finite lists of numbers.
DataInput ==
    /\ Picked("compact") => /\ LinesAreRead(In(1), Len(In(1)))
                            /\ In(1) \in [1..Len(In(1)) -> Range(In(1))]
    /\ Picked("hours") => Carrying(In(1))
    /\ Picked("changes") => MaskedOrCounted(sample.in)
    /\ Picked("repeats") => \E n \in 0..24 : DaysAreRead(sample.in, n)
    /\ Picked("statistics") => sample.in \in [1..Len(sample.in) -> Int] /\ Len(sample.in) \in Nat

\* No line, hour or held-out day is lost, doubled or counted for another
\* (compact_living_population, build_purpose_od_shadow, run_living_od_same_day,
\* run_living_od_repeats and their statistics).
THEOREM OfflineDataAddUp == ASSUME DataInput PROVE DataRules
<1>1. Picked("compact") => CompactIsWhole(In(1), In(2))
  BY CompactionsAreWhole DEF DataInput
<1>2. Picked("hours") => HoursAreOfTheDay(In(1), 1, In(2), In(3))
  BY HoursAreWhole DEF DataInput
<1>3. Picked("changes") => ChangesAreSigned(sample.in, "z", 8, 9)
  BY ChangesHaveTheirSign DEF DataInput
<1>4. Picked("repeats") => OnlyHeldOutDecide(sample.in, 30)
  BY HeldOutDaysDecide DEF DataInput
<1>5. Picked("statistics") => StatisticsAreOrdered(sample.in, 10, 90)
  <2>1. 10 \in 0..100 /\ 90 \in 0..100
    OBVIOUS
  <2> QED
    BY <2>1, StatisticsFollowTheOrder DEF DataInput
<1> QED
  BY <1>1, <1>2, <1>3, <1>4, <1>5 DEF DataRules

-----------------------------------------------------------------------------
(* Evaluations and backtests. *)

\* An evaluation knows nothing of its future: whatever is observed or fetched
\* after a row's time leaves what its prediction is made from as it was
\* (evaluate, _observations_at).
THEOREM EvaluationsKnowNoFuture ==
    ASSUME NEW snapshots, NEW later, NEW t \in Int,
           \A s \in snapshots \cup later : s.observed \in Int /\ s.fetched \in Int
    PROVE  KnowsNoFuture(snapshots, later, t)
<1> DEFINE row == [cafe |-> 1, at |-> t, role |-> "primary"]
           given == [x \in {1} \X SUBSET (snapshots \cup later) |-> x[2]]
<1> SUFFICES ASSUME \A s \in later : s.observed > t \/ s.fetched > t
             PROVE  Evaluate(<<row>>, {1}, snapshots \cup later, given)
                        = Evaluate(<<row>>, {1}, snapshots, given)
  BY Zenon DEF KnowsNoFuture
<1>1. ObservationsAt(snapshots \cup later, t) = ObservationsAt(snapshots, t)
  BY DEF ObservationsAt
<1>2. \A i \in DOMAIN <<row>> : <<row>>[i].at = t
  OBVIOUS
<1> QED
  BY <1>1, <1>2 DEF Evaluate

-----------------------------------------------------------------------------
\* Two more of a set of three.
LEMMA TwoMoreOfThree ==
    ASSUME NEW S, IsFiniteSet(S), Cardinality(S) >= 3, NEW e \in S
    PROVE  \E x, y \in S : x # y /\ x # e /\ y # e
<1>1. /\ IsFiniteSet(S \ {e}) /\ Cardinality(S \ {e}) = Cardinality(S) - 1
      /\ Cardinality(S) \in Nat
  BY FS_RemoveElement, FS_CardinalityType
<1>2. PICK x \in S \ {e} : TRUE
  BY <1>1, FS_EmptySet
<1>3. /\ IsFiniteSet(S \ {e, x}) /\ Cardinality(S \ {e, x}) = Cardinality(S) - 2
  <2>1. S \ {e, x} = (S \ {e}) \ {x}
    OBVIOUS
  <2> QED
    BY <1>1, <1>2, <2>1, FS_RemoveElement
<1>4. PICK y \in S \ {e, x} : TRUE
  BY <1>1, <1>3, FS_EmptySet
<1> QED
  BY <1>2, <1>4

\* One of three days in a row is no day of a weekend.
LEMMA WeekendsAreShort ==
    ASSUME NEW a \in Int
    PROVE  \E f \in a..a + 2 : Weekday(f) < 6
<1>1. a % 7 \in 0..6 /\ (a % 7 = 5 => (a + 2) % 7 = 0) /\ (a % 7 = 6 => (a + 1) % 7 = 0)
  OBVIOUS
<1> QED
  BY <1>1 DEF Weekday

LEMMA BlockIs ==
    ASSUME NEW d \in Int, NEW holidays, NEW e
    PROVE  e \in Block(d, holidays) <=>
               /\ e \in d - 10 .. d + 10
               /\ \A f \in Int : (d <= f /\ f <= e) \/ (e <= f /\ f <= d) => NonWorking(f, holidays)
  BY DEF Block

\* Every day of a long holiday's block is a day of a long holiday, however long
\* the block is and wherever the ten days that are looked at cut it off: three
\* days in a row hold an official holiday, since a weekend has only two
\* (classify_temporal_day).
THEOREM LongHolidaysAreBlocks ==
    ASSUME NEW d \in Int, NEW holidays \in SUBSET Int
    PROVE  HolidaysAreBlocks(d, holidays)
<1>1. ASSUME DayType(d, holidays) = "long_holiday", NEW e \in Block(d, holidays)
      PROVE  DayType(e, holidays) = "long_holiday"
  <2> DEFINE S == Block(d, holidays)
             T == Block(e, holidays)
  <2>1. NonWorking(d, holidays) /\ Cardinality(S) >= 3
    BY <1>1 DEF DayType
  <2>2. S \subseteq d - 10 .. d + 10 /\ T \subseteq e - 10 .. e + 10 /\ e \in Int
    BY BlockIs DEF Block
  <2>3. IsFiniteSet(S) /\ IsFiniteSet(T)
    <3>1. IsFiniteSet(d - 10 .. d + 10)
      BY FS_Interval
    <3>2. IsFiniteSet(e - 10 .. e + 10)
      BY <2>2, FS_Interval
    <3> QED
      BY <2>2, <3>1, <3>2, FS_Subset
  <2>4. PICK x \in S, y \in S : x # y /\ x # e /\ y # e
    BY <2>1, <2>3, TwoMoreOfThree
  <2>5. \A s \in {x, y, e} : /\ s \in Int
                             /\ \A f \in Int : (d <= f /\ f <= s) \/ (s <= f /\ f <= d)
                                                   => NonWorking(f, holidays)
    BY <2>2, <2>4, BlockIs
  <2>6. PICK a \in Int : /\ a <= e /\ e <= a + 2
                         /\ \A f \in a..a + 2 : NonWorking(f, holidays)
    <3>1. PICK lo \in {x, y, e}, hi \in {x, y, e} :
              \A s \in {x, y, e} : lo <= s /\ s <= hi
      BY <2>5
    <3>2. lo + 2 <= hi /\ \A f \in lo..hi : NonWorking(f, holidays)
      BY <2>4, <2>5, <3>1
    <3> DEFINE b == IF e + 2 <= hi THEN e ELSE IF lo <= e - 2 THEN e - 2 ELSE e - 1
    <3>3. b \in Int /\ lo <= b /\ b + 2 <= hi /\ b <= e /\ e <= b + 2
      BY <2>5, <3>1, <3>2
    <3> QED
      BY <2>5, <3>1, <3>2, <3>3
  <2>7. a..a + 2 \subseteq T
    BY <2>2, <2>6, BlockIs
  <2>8. Cardinality(T) >= 3
    <3>1. IsFiniteSet(a..a + 2) /\ Cardinality(a..a + 2) = 3
      BY FS_Interval
    <3> QED
      BY <2>3, <2>7, <3>1, FS_Subset
  <2>9. T \cap holidays # {}
    <3>1. PICK f \in a..a + 2 : Weekday(f) < 6
      BY <2>6, WeekendsAreShort
    <3>2. f \in T /\ NonWorking(f, holidays) /\ Weekday(f) \in Int
      BY <2>6, <2>7 DEF Weekday
    <3>3. f \in holidays
      BY <3>1, <3>2 DEF NonWorking
    <3> QED
      BY <3>2, <3>3
  <2>10. NonWorking(e, holidays)
    BY <2>2, <2>6
  <2> QED
    BY <2>8, <2>9, <2>10 DEF DayType
<1>2. DayType(d, holidays) = "long_holiday" => \E e \in Block(d, holidays) : e \in holidays
  BY DEF DayType
<1>3. holidays = {} => DayType(d, holidays) \in {"working_day", "saturday", "sunday"}
  BY DEF DayType
<1>4. DayType(d, holidays) = "working_day" <=> ~NonWorking(d, holidays)
  BY DEF DayType
<1> QED
  BY <1>1, <1>2, <1>3, <1>4 DEF HolidaysAreBlocks

(* Persistence. *)

\* What is sorted is below a number up to a place, and not from there on.
LEMMA SortedIsCut ==
    ASSUME NEW n \in Nat, NEW f \in [1..n -> Int], NEW t \in Int,
           \A i, j \in 1..n : i <= j => f[i] <= f[j]
    PROVE  \E k \in 0..n : {i \in 1..n : f[i] < t} = 1..k /\ Cardinality(1..k) = k
<1> DEFINE S == {i \in 1..n + 1 : i = n + 1 \/ ~(f[i] < t)}
<1>1. S \in SUBSET Nat /\ n + 1 \in S
  OBVIOUS
<1>2. PICK m \in S : \A i \in S : m <= i
  BY <1>1, LeastExists
<1>3. m - 1 \in 0..n /\ \A i \in 1..n : i < m => f[i] < t
  BY <1>1, <1>2
<1>4. \A i \in 1..n : i >= m => ~(f[i] < t)
  BY <1>1, <1>2
<1>5. {i \in 1..n : f[i] < t} = 1..m - 1
  BY <1>3, <1>4
<1>6. Cardinality(1..m - 1) = m - 1
  BY <1>3, FS_Interval
<1> QED
  BY <1>3, <1>5, <1>6

\* Of any sorted observations, the three places around where bisect_left points
\* hold the one nearest to the target, the earlier of two (_nearest_actual).
THEOREM NeighboursHoldTheNearest ==
    ASSUME NEW n \in Nat, NEW Known, None \notin Known, \A a \in Known : a.observed \in Int,
           NEW items \in [1..n -> Known],
           \A i, j \in 1..n : i <= j => items[i].observed <= items[j].observed,
           NEW target \in Int, NEW tolerance \in Int
    PROVE  /\ NearestIsNearest(items, target, tolerance)
           /\ NearestActual(items, target, tolerance) \in Range(items) \cup {None}
<1> DEFINE near == Neighbours(items, target)
           off(a) == Abs(a.observed - target)
           better(a, b) == off(a) < off(b) \/ (off(a) = off(b) /\ a.observed <= b.observed)
           first == CHOOSE a \in near : \A b \in near : better(a, b)
           taken == NearestActual(items, target, tolerance)
<1>1. PICK k \in 0..n : /\ {i \in 1..n : items[i].observed < target} = 1..k
                        /\ Cardinality(1..k) = k
  <2> DEFINE f == [i \in 1..n |-> items[i].observed]
  <2>1. f \in [1..n -> Int] /\ \A i, j \in 1..n : i <= j => f[i] <= f[j]
    OBVIOUS
  <2>2. \A i \in 1..n : f[i] = items[i].observed
    OBVIOUS
  <2>3. {i \in 1..n : items[i].observed < target} = {i \in 1..n : f[i] < target}
    BY <2>2
  <2> HIDE DEF f
  <2>4. PICK k \in 0..n : {i \in 1..n : f[i] < target} = 1..k /\ Cardinality(1..k) = k
    BY <2>1, SortedIsCut
  <2> QED
    BY <2>3, <2>4
<1>2. DOMAIN items = 1..n /\ near = {items[i] : i \in 1..n \cap (k .. k + 2)}
  BY <1>1 DEF Neighbours
<1>3. Range(items) = {items[i] : i \in 1..n}
  BY <1>2 DEF Range
<1>4. \A i \in 1..n : /\ items[i].observed \in Int
                       /\ i <= k <=> items[i].observed < target
  BY <1>1
<1>5. ASSUME n # 0
      PROVE  \E i \in 1..n \cap (k .. k + 1) : \A j \in 1..n : better(items[i], items[j])
  <2>1. \A j \in 1..k : better(items[k], items[j])
    BY <1>4 DEF Abs
  <2>2. \A j \in k + 1 .. n : better(items[k + 1], items[j])
    BY <1>4 DEF Abs
  <2>3. CASE k = 0
    BY <1>5, <2>2, <2>3
  <2>4. CASE k = n
    BY <1>5, <2>1, <2>4
  <2>5. CASE k \in 1..n - 1
    <3>0. k \in 1..n /\ k + 1 \in 1..n
      BY <2>5
    <3>2. \A i \in {k, k + 1}, j \in 1..n : /\ off(items[i]) \in Int /\ off(items[j]) \in Int
                                             /\ items[i].observed \in Int /\ items[j].observed \in Int
      BY <1>4, <3>0 DEF Abs
    <3> HIDE DEF off
    <3>1. better(items[k], items[k + 1]) \/ better(items[k + 1], items[k])
      BY <3>0, <3>2
    <3>3. \A j \in 1..n : j \in 1..k \/ j \in k + 1 .. n
      OBVIOUS
    <3>4. CASE better(items[k], items[k + 1])
      <4>1. \A j \in 1..n : better(items[k], items[j])
        <5> SUFFICES ASSUME NEW j \in k + 1 .. n
                     PROVE  better(items[k], items[j])
          BY <2>1, <3>3
        <5>1. better(items[k + 1], items[j]) /\ j \in 1..n
          BY <2>2
        <5> QED
          BY <3>2, <3>4, <5>1
      <4> QED
        BY <2>5, <4>1
    <3>5. CASE better(items[k + 1], items[k])
      <4>1. \A j \in 1..n : better(items[k + 1], items[j])
        BY <2>1, <2>2, <2>5, <3>2, <3>3, <3>5
      <4> QED
        BY <2>5, <4>1
    <3> QED
      BY <3>1, <3>4, <3>5
  <2> QED
    BY <2>3, <2>4, <2>5
<1>6. CASE n = 0
  <2>1. near = {} /\ Range(items) = {}
    BY <1>2, <1>3, <1>6
  <2>2. taken = None
    BY <2>1 DEF NearestActual
  <2> QED
    BY <2>1, <2>2 DEF NearestIsNearest
<1>7. CASE n # 0
  <2>1. PICK a \in near : \A b \in Range(items) : better(a, b)
    <3>1. PICK i \in 1..n \cap (k .. k + 1) : \A j \in 1..n : better(items[i], items[j])
      BY <1>5, <1>7
    <3>2. i \in 1..n \cap (k .. k + 2)
      OBVIOUS
    <3> HIDE DEF better, near
    <3>3. items[i] \in near
      BY <1>2, <3>2
    <3>4. \A b \in Range(items) : better(items[i], b)
      BY <1>3, <3>1
    <3> QED
      BY <3>3, <3>4
  <2>2. near \subseteq Range(items) /\ near # {} /\ Range(items) \subseteq Known
    BY <1>2, <1>3, <2>1
  <2>3. first \in near /\ \A b \in near : better(first, b)
    <3>1. \E x \in near : \A b \in near : better(x, b)
      BY <2>1, <2>2
    <3> HIDE DEF better, near
    <3> QED
      BY <3>1, Zenon
  <2>4. \A b \in Range(items) : better(first, b)
    <3>1. better(first, a) /\ \A b \in Range(items) : off(b) \in Int /\ b.observed \in Int
      BY <2>1, <2>2, <2>3 DEF Abs
    <3> HIDE DEF off, near, first
    <3> QED
      BY <2>1, <2>2, <2>3, <3>1
  <2>5. taken = IF off(first) > tolerance THEN None ELSE first
    BY <2>2, Zenon DEF NearestActual
  <2>6. first \in Known /\ off(first) \in Int /\ \A b \in Range(items) : off(b) \in Int
    BY <2>2, <2>3 DEF Abs
  <2>7. first # None
    BY <2>6
  <2> HIDE DEF first, off, near
  <2>8. taken = None <=> off(first) > tolerance
    BY <2>5, <2>7
  <2>9. taken = None <=> \A b \in Range(items) : off(b) > tolerance
    BY <2>2, <2>3, <2>4, <2>6, <2>8
  <2>10. taken # None => \A b \in Range(items) : better(taken, b)
    BY <2>4, <2>5
  <2>11. taken \in Range(items) \cup {None}
    BY <2>2, <2>3, <2>5
  <2> HIDE DEF taken
  <2>12. NearestIsNearest(items, target, tolerance)
    BY <2>9, <2>10 DEF NearestIsNearest, taken, off
  <2> QED
    BY <2>11, <2>12 DEF taken
<1> QED
  BY <1>6, <1>7

\* The longer of the two windows.
LEMMA LongestIs ==
    ASSUME NEW longest, longest = Max({Window, SpecialWindow})
    PROVE  longest \in Int /\ Window <= longest /\ SpecialWindow <= longest
<1>1. Window \in Int /\ SpecialWindow \in Int
  BY BacktestAssumption
<1>2. longest = IF Window >= SpecialWindow THEN Window ELSE SpecialWindow
  BY <1>1, MaxOfTwo
<1> QED
  BY <1>1, <1>2

\* What the windows of a cutoff hold.
InWindow(obs, cutoff) ==
    {o \in obs : o.date < cutoff /\ o.date >= cutoff - Max({Window, SpecialWindow})}

\* A baseline is made of that: all other days may go without changing it.
LEMMA BaselinesAreOfTheWindow ==
    ASSUME NEW obs, \A o \in obs : o.date \in Int,
           NEW target \in Int, NEW cutoff \in Int, NEW holidays,
           TemporalBaseline(obs, target, cutoff, holidays) # Refused
    PROVE  TemporalBaseline(InWindow(obs, cutoff), target, cutoff, holidays)
               = TemporalBaseline(obs, target, cutoff, holidays)
<1> DEFINE longest == Max({Window, SpecialWindow})
           past == InWindow(obs, cutoff)
<1>1. longest \in Int /\ Window <= longest /\ SpecialWindow <= longest
  BY LongestIs
<1>0. past = {o \in obs : cutoff - longest <= o.date /\ o.date < cutoff}
  <2>1. past = {o \in obs : o.date < cutoff /\ o.date >= cutoff - longest}
    BY Zenon DEF InWindow
  <2> HIDE DEF longest, past
  <2> QED
    BY <1>1, <2>1
<1> HIDE DEF longest, past
<1>2. \A w \in {Window, SpecialWindow} : Eligible(past, cutoff, w) = Eligible(obs, cutoff, w)
  <2>0. Window \in Int /\ SpecialWindow \in Int
    BY BacktestAssumption
  <2> SUFFICES ASSUME NEW w \in {Window, SpecialWindow}
               PROVE  Eligible(past, cutoff, w) = Eligible(obs, cutoff, w)
    OBVIOUS
  <2>1. w \in Int /\ w <= longest
    BY <1>1, <2>0
  <2>2. \A o \in obs : (o \in past) <=> (cutoff - longest <= o.date /\ o.date < cutoff)
    BY <1>0
  <2>3. past \subseteq obs
    BY <1>0
  <2>4. \A o \in obs : (cutoff - w <= o.date /\ o.date < cutoff) => o \in past
    BY <1>1, <2>1, <2>2
  <2>5. \A S : Eligible(S, cutoff, w) = {o \in S : cutoff - w <= o.date /\ o.date < cutoff}
    BY Zenon DEF Eligible
  <2> QED
    BY <2>3, <2>4, <2>5
<1>3. ~(cutoff > target \/ \E a, b \in obs : a # b /\ a.date = b.date)
  BY DEF TemporalBaseline
<1>4. ~(cutoff > target \/ \E a, b \in past : a # b /\ a.date = b.date)
  BY <1>0, <1>3
<1> DEFINE special == DayType(target, holidays) \in {"public_holiday", "long_holiday"}
           window == IF special THEN SpecialWindow ELSE Window
<1>5. Eligible(past, cutoff, window) = Eligible(obs, cutoff, window)
  <2>1. window \in {Window, SpecialWindow}
    OBVIOUS
  <2> QED
    BY <1>2, <2>1, Zenon
<1> DEFINE baseline(all) ==
               IF all = {} THEN [depth |-> None, n |-> 0, masked |-> 0, num |-> None, den |-> 1]
               ELSE Pooling(Buckets(all, target, holidays, special), cutoff, special)
<1>6. TemporalBaseline(past, target, cutoff, holidays) = baseline(Eligible(past, cutoff, window))
  BY <1>4, Zenon DEF TemporalBaseline
<1>7. TemporalBaseline(obs, target, cutoff, holidays) = baseline(Eligible(obs, cutoff, window))
  BY <1>3, Zenon DEF TemporalBaseline
<1> HIDE DEF baseline, window
<1>8. TemporalBaseline(past, target, cutoff, holidays) = TemporalBaseline(obs, target, cutoff, holidays)
  BY <1>5, <1>6, <1>7
<1> QED
  BY <1>8, Zenon DEF past

-----------------------------------------------------------------------------
(* Nowcasts. *)

Point == [at : Int, level : Int, lo : Int, hi : Int]

\* A time by which all of some points are, or from which, has a last or a first.
LEMMA LatestIs ==
    ASSUME NEW S \in SUBSET Point, S # {}, NEW bound \in Int, \A p \in S : p.at <= bound
    PROVE  Latest(S) \in S /\ \A q \in S : q.at <= Latest(S).at
<1> DEFINE ages == {bound - p.at : p \in S}
<1>1. ages \in SUBSET Nat /\ ages # {}
  BY DEF Point
<1>2. PICK m \in ages : \A i \in ages : m <= i
  BY <1>1, LeastExists
<1>3. PICK p \in S : m = bound - p.at
  BY <1>2
<1>4. \A q \in S : q.at <= p.at
  <2> SUFFICES ASSUME NEW q \in S PROVE q.at <= p.at
    OBVIOUS
  <2>1. bound - q.at \in ages
    OBVIOUS
  <2> QED
    BY <1>2, <1>3, <2>1 DEF Point
<1>5. \E x \in S : \A q \in S : q.at <= x.at
  BY <1>4
<1> QED
  BY <1>5, Zenon DEF Latest

LEMMA EarliestIs ==
    ASSUME NEW S \in SUBSET Point, S # {}, NEW bound \in Int, \A p \in S : bound <= p.at
    PROVE  Earliest(S) \in S /\ \A q \in S : Earliest(S).at <= q.at
<1> DEFINE ages == {p.at - bound : p \in S}
<1>1. ages \in SUBSET Nat /\ ages # {}
  BY DEF Point
<1>2. PICK m \in ages : \A i \in ages : m <= i
  BY <1>1, LeastExists
<1>3. PICK p \in S : m = p.at - bound
  BY <1>2
<1>4. \A q \in S : p.at <= q.at
  <2> SUFFICES ASSUME NEW q \in S PROVE p.at <= q.at
    OBVIOUS
  <2>1. q.at - bound \in ages
    OBVIOUS
  <2> QED
    BY <1>2, <1>3, <2>1 DEF Point
<1>5. \E x \in S : \A q \in S : x.at <= q.at
  BY <1>4
<1> QED
  BY <1>5, Zenon DEF Earliest

\* Of points at different times, one further away is not the first.
LEMMA EarliestStays ==
    ASSUME NEW S \in SUBSET Point, S # {}, NEW bound \in Int, \A p \in S : bound <= p.at,
           \A p, q \in S : p.at = q.at => p = q,
           NEW r \in Point, Earliest(S).at < r.at
    PROVE  Earliest(S \cup {r}) = Earliest(S)
<1>1. Earliest(S) \in S /\ \A q \in S : Earliest(S).at <= q.at
  BY EarliestIs
<1> DEFINE T == S \cup {r}
           low == IF r.at < bound THEN r.at ELSE bound
<1>2. T \in SUBSET Point /\ T # {} /\ low \in Int /\ \A p \in T : low <= p.at
  BY DEF Point
<1>3. Earliest(T) \in T /\ \A q \in T : Earliest(T).at <= q.at
  <2> HIDE DEF T, low
  <2> QED
    BY <1>2, EarliestIs
<1>4. Earliest(T).at <= Earliest(S).at /\ Earliest(T) # r
  BY <1>1, <1>3 DEF Point
<1>5. Earliest(T) \in S /\ Earliest(T).at = Earliest(S).at
  BY <1>1, <1>3, <1>4 DEF Point
<1> QED
  BY <1>1, <1>5

\* What lies between two numbers is not beyond both of them.
LEMMA MixLiesBetween ==
    ASSUME NEW x \in Int, NEW y \in Int, NEW den \in Nat, NEW part \in 0..den
    PROVE  LET mixed == x * den + part * (y - x) IN
           /\ mixed \in Int
           /\ x * den <= mixed \/ y * den <= mixed
           /\ x * den >= mixed \/ y * den >= mixed
<1> DEFINE mixed == x * den + part * (y - x)
<1>1. mixed = y * den + (den - part) * (x - y)
  OBVIOUS
<1>2. CASE x <= y
  <2>1. part * (y - x) \in Nat /\ (den - part) * (y - x) \in Nat
    BY <1>2
  <2> QED
    BY <1>1, <2>1
<1>3. CASE y <= x
  <2>1. part * (x - y) \in Nat /\ (den - part) * (x - y) \in Nat
    BY <1>3
  <2> QED
    BY <1>1, <2>1
<1> QED
  BY <1>2, <1>3

\* The anchors of a nowcast: the observation itself and the points it may use.
Usable(s, points) == {p \in points : s.observed < p.at /\ p.at - s.observed <= MaxHorizon}
Anchors(s, points) ==
    Usable(s, points) \cup {[at |-> s.observed, level |-> s.level, lo |-> s.lo, hi |-> s.hi]}
EarlierOf(s, points, t) == {a \in Anchors(s, points) : a.at < t}
LaterOf(s, points, t) == {a \in Anchors(s, points) : a.at > t}
Away(p, t) == Abs(p.at - t)
ClosestOf(s, points, t) ==
    {p \in Usable(s, points) : \A q \in Usable(s, points) : Away(p, t) <= Away(q, t)}
Interpolates(s, points, t) ==
    /\ EarlierOf(s, points, t) # {} /\ LaterOf(s, points, t) # {}
    /\ Bridged(Latest(EarlierOf(s, points, t)), Earliest(LaterOf(s, points, t)))

\* What a snapshot and a forecast without two answers for one time are.
Snapshot(s) ==
    /\ s.observed \in Int /\ s.level \in Int /\ s.lo \in Int /\ s.hi \in Int
    /\ Refused \notin SUBSET Point

Consistent(points) == points \in SUBSET Point /\ \A p, q \in points : p.at = q.at => p = q

\* The nowcast from a set of points, as estimate_nowcast chooses it.
NowcastFrom(s, points, t) ==
    LET usable == Usable(s, points)
        closest == Earliest(ClosestOf(s, points, t))
    IN  IF t - s.observed \notin 0..MaxHorizon \/ usable = {} THEN None
        ELSE IF \E p \in usable : p.at = t
        THEN AsIs(CHOOSE p \in usable : p.at = t, "exact")
        ELSE IF Interpolates(s, points, t)
        THEN Between(Latest(EarlierOf(s, points, t)), Earliest(LaterOf(s, points, t)), t)
        ELSE IF Away(closest, t) > NearTolerance THEN None
        ELSE AsIs(closest, "nearest")

LEMMA NowcastIs ==
    ASSUME NEW s, Snapshot(s), Consistent(Range(s.forecast)), NEW t
    PROVE  EstimateNowcast(s, t) = NowcastFrom(s, Range(s.forecast), t)
<1> DEFINE points == Range(s.forecast)
<1>1. points # Refused /\ ForecastPoints(s.forecast) = points
  BY DEF Snapshot, Consistent, ForecastPoints
<1> HIDE DEF points
<1> QED
  BY <1>1, Zenon DEF EstimateNowcast, NowcastFrom, Usable, Anchors, EarlierOf, LaterOf, Away,
                    ClosestOf, Interpolates, points

LEMMA AnchorsAre ==
    ASSUME NEW s, Snapshot(s), NEW points, Consistent(points)
    PROVE  /\ Anchors(s, points) \in SUBSET Point
           /\ \A a \in Anchors(s, points) : s.observed <= a.at /\ a.at <= s.observed + MaxHorizon
           /\ \A a, b \in Anchors(s, points) : a.at = b.at => a = b
           /\ Usable(s, points) = {a \in Anchors(s, points) : a.at > s.observed}
<1> DEFINE own == [at |-> s.observed, level |-> s.level, lo |-> s.lo, hi |-> s.hi]
<1>1. own \in Point /\ own.at = s.observed /\ s.observed \in Int /\ MaxHorizon \in Nat
  BY BacktestAssumption DEF Snapshot, Point
<1>2. /\ Usable(s, points) \subseteq points /\ points \subseteq Point
      /\ \A p \in Usable(s, points) : s.observed < p.at /\ p.at - s.observed <= MaxHorizon
  BY DEF Usable, Consistent
<1>3. Anchors(s, points) = Usable(s, points) \cup {own}
  BY DEF Anchors
<1> HIDE DEF own
<1>4. Anchors(s, points) \in SUBSET Point
  BY <1>1, <1>2, <1>3
<1>5. \A p \in Point : p.at \in Int
  BY DEF Point
<1>6. \A a \in Anchors(s, points) : s.observed <= a.at /\ a.at <= s.observed + MaxHorizon
  BY <1>1, <1>2, <1>3, <1>5
<1>7. \A a, b \in Anchors(s, points) : a.at = b.at => a = b
  BY <1>1, <1>2, <1>3, <1>5 DEF Consistent
<1>8. Usable(s, points) = {a \in Anchors(s, points) : a.at > s.observed}
  BY <1>1, <1>2, <1>3, <1>5
<1> QED
  BY <1>4, <1>6, <1>7, <1>8

\* Whatever is not the latest of the earlier or the first of the later anchors
\* is not used: a point later than the first of the later ones changes neither.
LEMMA NeighboursAre ==
    ASSUME NEW s, Snapshot(s), NEW points, Consistent(points), NEW t \in Int
    PROVE  /\ EarlierOf(s, points, t) # {} =>
                  LET a == Latest(EarlierOf(s, points, t)) IN
                  a \in Anchors(s, points) /\ a.at < t
           /\ LaterOf(s, points, t) # {} =>
                  LET b == Earliest(LaterOf(s, points, t)) IN
                  /\ b \in Anchors(s, points) /\ b.at > t
                  /\ \A q \in LaterOf(s, points, t) : b.at <= q.at
<1>1. /\ Anchors(s, points) \in SUBSET Point
      /\ EarlierOf(s, points, t) \subseteq Anchors(s, points)
      /\ LaterOf(s, points, t) \subseteq Anchors(s, points)
  BY AnchorsAre DEF EarlierOf, LaterOf
<1>2. ASSUME EarlierOf(s, points, t) # {}
      PROVE  Latest(EarlierOf(s, points, t)) \in EarlierOf(s, points, t)
  <2>1. \A p \in EarlierOf(s, points, t) : p.at <= t
    BY <1>1 DEF EarlierOf, Point
  <2> QED
    BY <1>1, <1>2, <2>1, LatestIs
<1>3. ASSUME LaterOf(s, points, t) # {}
      PROVE  LET b == Earliest(LaterOf(s, points, t)) IN
             b \in LaterOf(s, points, t) /\ \A q \in LaterOf(s, points, t) : b.at <= q.at
  <2>1. \A p \in LaterOf(s, points, t) : t <= p.at
    BY <1>1 DEF LaterOf, Point
  <2> QED
    BY <1>1, <1>3, <2>1, EarliestIs
<1> QED
  BY <1>2, <1>3 DEF EarlierOf, LaterOf

\* The nearest point of all is usable.
LEMMA ClosestIs ==
    ASSUME NEW s, Snapshot(s), NEW points, Consistent(points), NEW t \in Int,
           Usable(s, points) # {}
    PROVE  LET c == Earliest(ClosestOf(s, points, t)) IN
           c \in ClosestOf(s, points, t)
<1> DEFINE usable == Usable(s, points)
           offs == {Away(p, t) : p \in usable}
<1>1. /\ usable \in SUBSET Point /\ \A p \in usable : s.observed <= p.at /\ s.observed \in Int
      /\ ClosestOf(s, points, t) \subseteq usable
  BY AnchorsAre DEF Snapshot, ClosestOf, Usable
<1>2. offs \in SUBSET Nat /\ offs # {}
  BY <1>1 DEF Away, Abs, Point
<1>3. PICK m \in offs : \A i \in offs : m <= i
  BY <1>2, LeastExists
<1>4. PICK p \in usable : m = Away(p, t)
  BY <1>3
<1>5. p \in ClosestOf(s, points, t)
  BY <1>3, <1>4 DEF ClosestOf
<1> HIDE DEF usable
<1>6. /\ ClosestOf(s, points, t) \in SUBSET Point /\ s.observed \in Int
      /\ \A q \in ClosestOf(s, points, t) : s.observed <= q.at
  BY <1>1 DEF Snapshot
<1> QED
  BY <1>5, <1>6, EarliestIs

\* What a nowcast says of its own making.
LEMMA NowcastIsOfItsPoints ==
    ASSUME NEW s, Snapshot(s), NEW points, Consistent(points), NEW t \in Int,
           NowcastFrom(s, points, t) # None
    PROVE  LET e == NowcastFrom(s, points, t) IN
           /\ e.after \in Int /\ e.after - s.observed \in 1..MaxHorizon
           /\ e.method = "interpolated" =>
                  /\ e.before < t /\ t < e.after /\ e.after - e.before <= MaxGap
                  /\ \E a \in {q.level : q \in points} \cup {s.level} : a * e.den <= e.level
                  /\ \E a \in {q.level : q \in points} \cup {s.level} : a * e.den >= e.level
           /\ e.method # "interpolated" => Abs(e.after - t) <= NearTolerance
<1> DEFINE e == NowcastFrom(s, points, t)
           usable == Usable(s, points)
<1>0. s.observed \in Int /\ MaxHorizon \in Nat /\ NearTolerance \in Nat /\ MaxGap \in Nat
  BY BacktestAssumption DEF Snapshot
<1>1. t - s.observed \in 0..MaxHorizon /\ usable # {}
  BY DEF NowcastFrom
<1>2. \A p \in usable : p \in Point /\ p.at - s.observed \in 1..MaxHorizon
  BY <1>0 DEF Usable, Consistent, Point
<1>3. CASE \E p \in usable : p.at = t
  <2> DEFINE p == CHOOSE p \in usable : p.at = t
  <2>1. p \in usable /\ p.at = t
    BY <1>3, Zenon
  <2>2. e = AsIs(p, "exact")
    BY <1>1, <1>3, Zenon DEF NowcastFrom
  <2> HIDE DEF p, e
  <2>3. e.after = t /\ e.method = "exact"
    BY <2>1, <2>2 DEF AsIs
  <2> QED
    BY <1>0, <1>2, <2>1, <2>3 DEF Abs, e, Point
<1>4. CASE ~(\E p \in usable : p.at = t) /\ Interpolates(s, points, t)
  <2> DEFINE a == Latest(EarlierOf(s, points, t))
             b == Earliest(LaterOf(s, points, t))
  <2>1. e = Between(a, b, t)
    BY <1>1, <1>4, Zenon DEF NowcastFrom
  <2>2. /\ a \in Anchors(s, points) /\ a.at < t
        /\ b \in Anchors(s, points) /\ b.at > t
        /\ b.at - a.at <= MaxGap
    BY <1>4, NeighboursAre DEF Interpolates, Bridged
  <2> HIDE DEF a, b, e
  <2>3. a \in Point /\ b \in Point
    BY <2>2, AnchorsAre
  <2>4. b \in usable /\ {a.level, b.level} \subseteq {q.level : q \in points} \cup {s.level}
    <3>1. \A x \in Anchors(s, points) : x \in points \/ x.level = s.level
      BY DEF Anchors, Usable
    <3>2. b.at > s.observed
      BY <1>0, <1>1, <2>2, <2>3 DEF Point
    <3> QED
      BY <2>2, <3>1, <3>2, AnchorsAre
  <2> DEFINE den == b.at - a.at
             part == t - a.at
  <2>5. /\ e.method = "interpolated" /\ e.before = a.at /\ e.after = b.at /\ e.den = den
        /\ e.level = a.level * den + part * (b.level - a.level)
    BY <2>1 DEF Between
  <2>6. den \in Nat /\ part \in 0..den /\ a.level \in Int /\ b.level \in Int
    BY <2>2, <2>3 DEF Point
  <2> HIDE DEF den, part
  <2>7. /\ a.level * den <= e.level \/ b.level * den <= e.level
        /\ a.level * den >= e.level \/ b.level * den >= e.level
    BY <2>5, <2>6, MixLiesBetween
  <2>8. /\ \E x \in {q.level : q \in points} \cup {s.level} : x * e.den <= e.level
        /\ \E x \in {q.level : q \in points} \cup {s.level} : x * e.den >= e.level
    BY <2>4, <2>5, <2>7
  <2>9. e.after \in Int /\ e.after - s.observed \in 1..MaxHorizon /\ e.before < t /\ t < e.after
        /\ e.after - e.before <= MaxGap
    BY <1>2, <2>2, <2>4, <2>5 DEF Point
  <2> QED
    BY <2>5, <2>8, <2>9 DEF e
<1>5. CASE ~(\E p \in usable : p.at = t) /\ ~Interpolates(s, points, t)
  <2> DEFINE c == Earliest(ClosestOf(s, points, t))
  <2>1. e = AsIs(c, "nearest") /\ ~(Away(c, t) > NearTolerance)
    BY <1>1, <1>5, Zenon DEF NowcastFrom
  <2>2. c \in usable
    BY <1>1, ClosestIs DEF ClosestOf
  <2> HIDE DEF c, e
  <2>3. e.after = c.at /\ e.method = "nearest"
    BY <2>1 DEF AsIs
  <2>4. Abs(e.after - t) <= NearTolerance
    BY <1>0, <1>2, <2>1, <2>2, <2>3 DEF Away, Abs, Point
  <2> QED
    BY <1>2, <2>2, <2>3, <2>4 DEF e, Point
<1> QED
  BY <1>3, <1>4, <1>5

\* A point past the horizon, or beyond the ones that were used, is not used.
LEMMA FurtherPointsChangeNothing ==
    ASSUME NEW s, Snapshot(s), NEW points, Consistent(points), NEW t \in Int,
           NowcastFrom(s, points, t) # None,
           NEW p \in Point, \A q \in points : q.at # p.at,
           \/ p.at <= s.observed \/ p.at > s.observed + MaxHorizon
           \/ /\ p.at > NowcastFrom(s, points, t).after
              /\ NowcastFrom(s, points, t).after >= t
    PROVE  NowcastFrom(s, points \cup {p}, t) = NowcastFrom(s, points, t)
<1> DEFINE e == NowcastFrom(s, points, t)
           more == points \cup {p}
           usable == Usable(s, points)
<1>0. s.observed \in Int /\ MaxHorizon \in Nat /\ p.at \in Int /\ \A q \in points : q.at \in Int
  BY BacktestAssumption DEF Snapshot, Point, Consistent
<1>1. t - s.observed \in 0..MaxHorizon /\ usable # {}
  BY DEF NowcastFrom
<1>2. CASE p.at <= s.observed \/ p.at > s.observed + MaxHorizon
  <2>1. Usable(s, more) = usable
    BY <1>0, <1>2 DEF Usable
  <2> QED
    BY <2>1, Zenon DEF NowcastFrom, Anchors, EarlierOf, LaterOf, ClosestOf, Interpolates
<1>3. CASE /\ s.observed < p.at /\ p.at <= s.observed + MaxHorizon
           /\ p.at > e.after /\ e.after >= t
  <2>1. /\ Usable(s, more) = usable \cup {p}
        /\ Anchors(s, more) = Anchors(s, points) \cup {p}
    BY <1>0, <1>3 DEF Usable, Anchors
  <2>2. e.after \in Int
    BY NowcastIsOfItsPoints
  <2>3. /\ EarlierOf(s, more, t) = EarlierOf(s, points, t)
        /\ LaterOf(s, more, t) = LaterOf(s, points, t) \cup {p}
    <3>1. t < p.at
      BY <1>0, <1>3, <2>2
    <3>2. /\ \A a : a \in Anchors(s, more) /\ a.at < t <=> a \in Anchors(s, points) /\ a.at < t
          /\ p.at > t
      BY <1>0, <2>1, <3>1
    <3> QED
      BY <2>1, <3>2 DEF EarlierOf, LaterOf
  <2>4. p.at # t /\ p.at > t
    BY <1>0, <1>3, <2>2
  <2>5. ASSUME NEW b \in LaterOf(s, points, t), b.at <= e.after
        PROVE  Earliest(LaterOf(s, more, t)) = Earliest(LaterOf(s, points, t))
    <3> DEFINE later == LaterOf(s, points, t)
    <3>1. /\ later \in SUBSET Point /\ later # {}
          /\ \A q \in later : t <= q.at
          /\ \A q, r \in later : q.at = r.at => q = r
      BY <2>5, AnchorsAre DEF LaterOf, Point
    <3>2. Earliest(later) \in Point /\ Earliest(later).at <= b.at
      BY <2>5, <3>1, NeighboursAre, AnchorsAre
    <3>3. Earliest(later).at < p.at
      BY <1>0, <1>3, <2>2, <2>5, <3>1, <3>2 DEF Point
    <3> HIDE DEF later
    <3>4. Earliest(later \cup {p}) = Earliest(later)
      BY <3>1, <3>3, EarliestStays
    <3> QED
      BY <2>3, <3>4 DEF later
  <2>6. CASE \E q \in usable : q.at = t
    <3>1. \A q : q \in Usable(s, more) /\ q.at = t <=> q \in usable /\ q.at = t
      BY <2>1, <2>4
    <3>2. PICK q \in usable : q.at = t
      BY <2>6
    <3>3. \A r \in usable : r.at = t => r = q
      BY <3>2 DEF Usable, Consistent
    <3>4. (CHOOSE r \in usable : r.at = t) = q
      BY <3>2, <3>3
    <3>5. (CHOOSE r \in Usable(s, more) : r.at = t) = q
      BY <3>1, <3>2, <3>3
    <3>6. Usable(s, more) # {} /\ \E r \in Usable(s, more) : r.at = t
      BY <3>1, <3>2
    <3>7. e = AsIs(q, "exact")
      BY <1>1, <2>6, <3>4, Zenon DEF NowcastFrom
    <3>8. NowcastFrom(s, more, t) = AsIs(q, "exact")
      BY <1>1, <3>5, <3>6, Zenon DEF NowcastFrom
    <3> QED
      BY <3>7, <3>8
  <2>7. ASSUME ~(\E q \in usable : q.at = t)
        PROVE  Usable(s, more) # {} /\ ~(\E q \in Usable(s, more) : q.at = t)
    BY <2>1, <2>4, <2>7
  <2>8. CASE ~(\E q \in usable : q.at = t) /\ Interpolates(s, points, t)
    <3> DEFINE b == Earliest(LaterOf(s, points, t))
               a == Latest(EarlierOf(s, points, t))
    <3>1. e = Between(a, b, t)
      BY <1>1, <2>8, Zenon DEF NowcastFrom
    <3>2. e.after = b.at
      BY <3>1 DEF Between
    <3>3. b \in LaterOf(s, points, t) /\ b.at <= e.after
      <4>1. b \in Anchors(s, points) /\ b.at > t
        BY <2>8, NeighboursAre DEF Interpolates
      <4> QED
        BY <2>2, <3>2, <4>1 DEF LaterOf
    <3>4. Earliest(LaterOf(s, more, t)) = b
      BY <2>5, <3>3
    <3>5. Interpolates(s, more, t)
      BY <2>3, <2>8, <3>4, Zenon DEF Interpolates
    <3>6. NowcastFrom(s, more, t) = Between(a, b, t)
      BY <1>1, <2>3, <2>7, <2>8, <3>4, <3>5, Zenon DEF NowcastFrom
    <3> QED
      BY <3>1, <3>6
  <2>9. CASE ~(\E q \in usable : q.at = t) /\ ~Interpolates(s, points, t)
    <3> DEFINE c == Earliest(ClosestOf(s, points, t))
    <3>1. e = AsIs(c, "nearest") /\ ~(Away(c, t) > NearTolerance)
      BY <1>1, <2>9, Zenon DEF NowcastFrom
    <3>2. c \in ClosestOf(s, points, t) /\ c \in usable
      BY <1>1, ClosestIs DEF ClosestOf
    <3>3. e.after = c.at /\ c.at > t /\ c.at \in Int
      <4>1. e.after = c.at
        BY <3>1 DEF AsIs
      <4> QED
        BY <1>3, <2>2, <2>9, <3>2, <4>1
    <3>4. Away(c, t) < Away(p, t)
      BY <1>0, <1>3, <3>3 DEF Away, Abs
    <3>5. ClosestOf(s, more, t) = ClosestOf(s, points, t)
      <4>1. \A q \in usable : Away(q, t) \in Int
        BY <1>0 DEF Away, Abs, Usable
      <4>2. Away(p, t) \in Int
        BY <1>0 DEF Away, Abs
      <4>3. \A q \in usable : Away(c, t) <= Away(q, t)
        BY <3>2 DEF ClosestOf
      <4>4. \A q \in usable : Away(q, t) <= Away(c, t) => Away(q, t) <= Away(p, t)
        BY <3>2, <3>4, <4>1, <4>2
      <4>5. ~(Away(p, t) <= Away(c, t))
        BY <3>2, <3>4, <4>1, <4>2
      <4>6. \A q : q \in ClosestOf(s, more, t) <=> q \in ClosestOf(s, points, t)
        BY <2>1, <3>2, <4>4, <4>5, Zenon DEF ClosestOf
      <4> QED
        BY <4>6
    <3>6. Earliest(LaterOf(s, more, t)) = Earliest(LaterOf(s, points, t))
      <4>1. c \in LaterOf(s, points, t)
        BY <3>2, <3>3 DEF LaterOf, Anchors
      <4> QED
        BY <2>5, <3>3, <4>1
    <3>7. LaterOf(s, points, t) # {}
      BY <3>2, <3>3 DEF LaterOf, Anchors
    <3>8. ~Interpolates(s, more, t)
      BY <2>3, <2>9, <3>6, <3>7, Zenon DEF Interpolates
    <3>9. NowcastFrom(s, more, t) = AsIs(c, "nearest")
      BY <1>1, <2>7, <2>9, <3>1, <3>5, <3>8, Zenon DEF NowcastFrom
    <3> QED
      BY <3>1, <3>9
  <2> QED
    BY <2>6, <2>8, <2>9
<1> QED
  BY <1>0, <1>2, <1>3

\* What is appended is added.
LEMMA AppendingAdds ==
    ASSUME NEW S, NEW s \in Seq(S), NEW p \in S
    PROVE  Range(Append(s, p)) = Range(s) \cup {p}
<1> DEFINE t == Append(s, p)
<1>1. /\ DOMAIN t = 1..Len(s) + 1 /\ DOMAIN s = 1..Len(s) /\ Len(s) \in Nat
      /\ \A i \in 1..Len(s) : t[i] = s[i]
      /\ t[Len(s) + 1] = p
  OBVIOUS
<1> HIDE DEF t
<1>2. {t[i] : i \in DOMAIN t} = {s[i] : i \in DOMAIN s} \cup {p}
  BY <1>1
<1> QED
  BY <1>2 DEF Range, t

\* A nowcast lies between the points it is made of, bridges no gap wider than
\* allowed and takes nothing from past the horizon; no point further away than
\* those it used changes it (estimate_nowcast).  Refused is no set of points.
THEOREM NowcastsAreLocal ==
    ASSUME NEW Hotspots,
           NEW s \in [hotspot : Hotspots, observed : Int, fetched : Int, level : Int,
                      lo : Int, hi : Int, forecast : Seq(Point)],
           Refused \notin SUBSET Point, NEW target \in Int
    PROVE  NowcastIsLocal(s, target)
<1> DEFINE points == Range(s.forecast)
           e == EstimateNowcast(s, target)
           with(p) == [s EXCEPT !.forecast = Append(@, p)]
<1>1. /\ s.forecast \in Seq(Point) /\ points \in SUBSET Point
      /\ Snapshot(s)
  BY DEF Range, Snapshot
<1>2. CASE \E p, q \in points : p.at = q.at /\ p # q
  <2>1. ForecastPoints(s.forecast) = Refused
    BY <1>2, Zenon DEF ForecastPoints
  <2>2. e = Refused \/ e = None
    BY <2>1, Zenon DEF EstimateNowcast
  <2> HIDE DEF e
  <2> QED
    BY <2>2, Zenon DEF NowcastIsLocal, e
<1>3. CASE Consistent(points)
  <2>1. e = NowcastFrom(s, points, target)
    BY <1>1, <1>3, NowcastIs
  <2> SUFFICES ASSUME e # None
               PROVE  NowcastIsLocal(s, target)
    BY Zenon DEF NowcastIsLocal
  <2>2. ASSUME NEW p \in Point,
               /\ \A q \in points : q.at # p.at
               /\ \/ p.at <= s.observed \/ p.at > s.observed + MaxHorizon
                  \/ p.at > e.after /\ e.after >= target
        PROVE  EstimateNowcast(with(p), target) = e
    <3>1. /\ with(p).forecast = Append(s.forecast, p) /\ with(p).observed = s.observed
          /\ with(p).level = s.level /\ with(p).lo = s.lo /\ with(p).hi = s.hi
      OBVIOUS
    <3>2. Range(with(p).forecast) = points \cup {p}
      BY <1>1, <3>1, AppendingAdds
    <3>3. Snapshot(with(p)) /\ Consistent(points \cup {p})
      BY <1>1, <1>3, <2>2, <3>1 DEF Snapshot, Consistent
    <3> HIDE DEF with, e, points
    <3>4. EstimateNowcast(with(p), target) = NowcastFrom(with(p), points \cup {p}, target)
      BY <3>2, <3>3, NowcastIs
    <3>5. NowcastFrom(with(p), points \cup {p}, target) = NowcastFrom(s, points \cup {p}, target)
      BY <3>1, Zenon DEF NowcastFrom, Usable, Anchors, EarlierOf, LaterOf, ClosestOf, Interpolates
    <3>6. NowcastFrom(s, points \cup {p}, target) = NowcastFrom(s, points, target)
      BY <1>1, <1>3, <2>1, <2>2, FurtherPointsChangeNothing
    <3> QED
      BY <2>1, <3>4, <3>5, <3>6
  <2>3. ASSUME NEW at \in s.observed - 1 .. s.observed + MaxHorizon + 2
        PROVE  [at |-> at, level |-> 4, lo |-> 0, hi |-> 9] \in Point
    BY <1>1, BacktestAssumption DEF Point, Snapshot
  <2>4. LET n == NowcastFrom(s, points, target) IN
        /\ n.after - s.observed \in 1..MaxHorizon
        /\ n.method = "interpolated" =>
               /\ n.before < target /\ target < n.after /\ n.after - n.before <= MaxGap
               /\ \E a \in {q.level : q \in points} \cup {s.level} : a * n.den <= n.level
               /\ \E a \in {q.level : q \in points} \cup {s.level} : a * n.den >= n.level
        /\ n.method # "interpolated" => Abs(n.after - target) <= NearTolerance
    BY <1>1, <1>3, <2>1, NowcastIsOfItsPoints
  <2> HIDE DEF e, with
  <2>5. ASSUME NEW at \in s.observed - 1 .. s.observed + MaxHorizon + 2,
               LET p == [at |-> at, level |-> 4, lo |-> 0, hi |-> 9] IN
               /\ \A q \in points : q.at # p.at
               /\ \/ p.at <= s.observed \/ p.at > s.observed + MaxHorizon
                  \/ p.at > e.after /\ e.after >= target
        PROVE  EstimateNowcast(with([at |-> at, level |-> 4, lo |-> 0, hi |-> 9]), target) = e
    BY <2>2, <2>3, <2>5
  <2> QED
    BY <2>1, <2>4, <2>5, Zenon DEF NowcastIsLocal, e, with
<1> QED
  BY <1>1, <1>2, <1>3 DEF Consistent

\* A table of numbers, and the same table under other names.
Mirrors(f, h, m, S, T) ==
    /\ DOMAIN f = S /\ DOMAIN h = T /\ OneForOne(m, S, T)
    /\ \A x \in S : f[x] \in Int /\ h[m[x]] = f[x]

\* Ranks do not depend on the names.
LEMMA RanksMirror ==
    ASSUME NEW S, IsFiniteSet(S), NEW T, NEW m, NEW f, NEW h, Mirrors(f, h, m, S, T), NEW x \in S
    PROVE  Rank(f, x) \in Nat /\ Rank(h, m[x]) = Rank(f, x)
<1> DEFINE A == {j \in S : f[j] < f[x]}
           B == {j \in S : f[j] = f[x]}
           C == {j \in T : h[j] < h[m[x]]}
           D == {j \in T : h[j] = h[m[x]]}
<1>1. DOMAIN f = S /\ DOMAIN h = T /\ OneForOne(m, S, T)
  BY DEF Mirrors
<1>2. \A j \in S : f[j] \in Int /\ h[m[j]] = f[j]
  BY DEF Mirrors
<1>3. IsFiniteSet(A) /\ IsFiniteSet(B)
  <2>1. A \in SUBSET S /\ B \in SUBSET S
    OBVIOUS
  <2> QED
    BY <2>1, FS_Subset
<1>4. OneForOne(m, A, C) /\ OneForOne(m, B, D)
  BY <1>1, <1>2 DEF OneForOne
<1>5. Cardinality(C) = Cardinality(A) /\ Cardinality(A) \in Nat
  BY <1>3, <1>4, OneForOneAreAsMany
<1>6. Cardinality(D) = Cardinality(B) /\ Cardinality(B) \in Nat
  BY <1>3, <1>4, OneForOneAreAsMany
<1>7. Rank(f, x) = 2 * Cardinality(A) + Cardinality(B) + 1
  BY <1>1 DEF Rank
<1>8. Rank(h, m[x]) = 2 * Cardinality(C) + Cardinality(D) + 1
  BY <1>1 DEF Rank
<1> HIDE DEF A, B, C, D
<1> QED
  BY <1>5, <1>6, <1>7, <1>8

\* How the ranks of a table deviate from their mean.
Deviation(f) == [i \in DOMAIN f |-> Cardinality(DOMAIN f) * Rank(f, i) - SumFunction([j \in DOMAIN f |-> Rank(f, j)])]

\* Nor do the deviations.
LEMMA DeviationsMirror ==
    ASSUME NEW S, IsFiniteSet(S), NEW T, NEW m, NEW f, NEW h, Mirrors(f, h, m, S, T), NEW x \in S
    PROVE  Deviation(f)[x] \in Int /\ Deviation(h)[m[x]] = Deviation(f)[x]
<1> DEFINE r == [j \in DOMAIN f |-> Rank(f, j)]
           s == [j \in DOMAIN h |-> Rank(h, j)]
<1>1. DOMAIN f = S /\ DOMAIN h = T /\ OneForOne(m, S, T)
  BY DEF Mirrors
<1>2. \A j \in S : Rank(f, j) \in Nat /\ Rank(h, m[j]) = Rank(f, j)
  BY RanksMirror
<1>3. Renames(m, r, s, S)
  BY <1>1, <1>2 DEF Renames, OneForOne
<1>4. T = {m[j] : j \in S}
  BY <1>1 DEF OneForOne
<1>5. SumFunctionOnSet(s, T) = SumFunctionOnSet(r, S)
  BY <1>3, <1>4, SumOfImages
<1>6. SumFunction(s) = SumFunction(r)
  BY <1>1, <1>5, TotalIs
<1>7. SumFunction(r) \in Int
  <2>1. \A j \in S : r[j] \in Int
    BY <1>1, <1>2
  <2>2. SumFunctionOnSet(r, S) \in Int
    BY <2>1, SumStep
  <2> QED
    BY <1>1, <2>2, TotalIs
<1>8. Cardinality(T) = Cardinality(S) /\ Cardinality(S) \in Nat
  BY <1>1, OneForOneAreAsMany
<1>9. m[x] \in T
  BY <1>1 DEF OneForOne
<1>10. Deviation(f)[x] = Cardinality(S) * Rank(f, x) - SumFunction(r)
  BY <1>1 DEF Deviation
<1>11. Deviation(h)[m[x]] = Cardinality(T) * Rank(h, m[x]) - SumFunction(s)
  BY <1>1, <1>9 DEF Deviation
<1> HIDE DEF r, s
<1>12. Cardinality(S) * Rank(f, x) \in Int
  BY <1>2, <1>8
<1> QED
  BY <1>2, <1>6, <1>7, <1>8, <1>10, <1>11, <1>12

\* What a covariance is the sum of.
LEMMA CovarianceIs ==
    ASSUME NEW S, NEW f, NEW g, DOMAIN f = S, DOMAIN g = S
    PROVE  Covariance(f, g) = SumFunctionOnSet([i \in S |-> Deviation(f)[i] * Deviation(g)[i]], S)
<1>1. Covariance(f, g)
          = SumFunction([i \in DOMAIN f |->
                (Cardinality(DOMAIN f) * Rank(f, i) - SumFunction([j \in DOMAIN f |-> Rank(f, j)]))
                * (Cardinality(DOMAIN g) * Rank(g, i) - SumFunction([j \in DOMAIN g |-> Rank(g, j)]))])
  BY Zenon DEF Covariance, Total
<1>2. \A i \in S : /\ Deviation(f)[i] = Cardinality(DOMAIN f) * Rank(f, i) - SumFunction([j \in DOMAIN f |-> Rank(f, j)])
                   /\ Deviation(g)[i] = Cardinality(DOMAIN g) * Rank(g, i) - SumFunction([j \in DOMAIN g |-> Rank(g, j)])
  BY DEF Deviation
<1>3. Covariance(f, g) = SumFunction([i \in S |-> Deviation(f)[i] * Deviation(g)[i]])
  BY <1>1, <1>2
<1> DEFINE p == [i \in S |-> Deviation(f)[i] * Deviation(g)[i]]
<1>4. DOMAIN p = S /\ Covariance(f, g) = SumFunction(p)
  BY <1>3
<1> HIDE DEF p
<1>5. Covariance(f, g) = SumFunctionOnSet(p, S)
  BY <1>4, TotalIs
<1> QED
  BY <1>5 DEF p

\* The square of a number is not negative.
LEMMA SquaresAreNatural == \A x \in Int : x * x \in Nat
<1> SUFFICES ASSUME NEW x \in Int PROVE x * x \in Nat
  OBVIOUS
<1>1. CASE x >= 0
  BY <1>1
<1>2. CASE x < 0
  <2>1. x * x = (-x) * (-x) /\ -x \in Nat
    BY <1>2
  <2> QED
    BY <2>1
<1> QED
  BY <1>1, <1>2

\* So covariances do not, and a variance is not negative.
LEMMA CovariancesMirror ==
    ASSUME NEW S, IsFiniteSet(S), NEW T, NEW m, NEW f, NEW h, Mirrors(f, h, m, S, T),
           NEW g, NEW k, Mirrors(g, k, m, S, T)
    PROVE  /\ Covariance(f, g) \in Int /\ Covariance(h, k) = Covariance(f, g)
           /\ Covariance(f, f) \in Nat
<1> DEFINE p == [i \in S |-> Deviation(f)[i] * Deviation(g)[i]]
           q == [i \in T |-> Deviation(h)[i] * Deviation(k)[i]]
           v == [i \in S |-> Deviation(f)[i] * Deviation(f)[i]]
<1>1. /\ DOMAIN f = S /\ DOMAIN h = T /\ DOMAIN g = S /\ DOMAIN k = T /\ OneForOne(m, S, T)
      /\ T = {m[j] : j \in S}
  BY DEF Mirrors, OneForOne
<1>2. \A x \in S : /\ Deviation(f)[x] \in Int /\ Deviation(h)[m[x]] = Deviation(f)[x]
                   /\ Deviation(g)[x] \in Int /\ Deviation(k)[m[x]] = Deviation(g)[x]
  BY DeviationsMirror
<1>3. Covariance(f, g) = SumFunctionOnSet(p, S) /\ Covariance(f, f) = SumFunctionOnSet(v, S)
  BY <1>1, CovarianceIs
<1>4. Covariance(h, k) = SumFunctionOnSet(q, T)
  BY <1>1, CovarianceIs
<1>5. Renames(m, p, q, S)
  BY <1>1, <1>2 DEF Renames, OneForOne
<1>6. SumFunctionOnSet(q, T) = SumFunctionOnSet(p, S)
  BY <1>1, <1>5, SumOfImages
<1>7. SumFunctionOnSet(p, S) \in Int
  <2>1. \A x \in S : p[x] \in Int
    BY <1>2
  <2> HIDE DEF p
  <2> QED
    BY <2>1, SumStep
<1>8. SumFunctionOnSet(v, S) \in Nat
  <2>1. \A x \in S : v[x] \in Nat
    BY <1>2, SquaresAreNatural
  <2> HIDE DEF v
  <2> QED
    BY <2>1, SumIsPositive
<1> HIDE DEF p, q, v
<1> QED
  BY <1>3, <1>4, <1>6, <1>7, <1>8

\* A correlation does not depend on the names of the items, and is a number or none.
LEMMA SpearmansMirror ==
    ASSUME NEW S, IsFiniteSet(S), NEW T, NEW m, NEW f, NEW h, Mirrors(f, h, m, S, T),
           NEW g, NEW k, Mirrors(g, k, m, S, T)
    PROVE  Spearman(h, k) = Spearman(f, g) /\ Spearman(f, g) \in Int \cup {None}
<1>1. DOMAIN f = S /\ DOMAIN h = T /\ DOMAIN g = S /\ DOMAIN k = T /\ OneForOne(m, S, T)
  BY DEF Mirrors
<1>2. Cardinality(T) = Cardinality(S)
  BY <1>1, OneForOneAreAsMany
<1>3. Covariance(f, g) \in Int /\ Covariance(h, k) = Covariance(f, g)
  BY CovariancesMirror
<1>4. Covariance(f, f) \in Nat /\ Covariance(h, h) = Covariance(f, f)
  BY CovariancesMirror
<1>5. Covariance(g, g) \in Nat /\ Covariance(k, k) = Covariance(g, g)
  BY CovariancesMirror
<1> DEFINE both == Covariance(f, g)
           l == Covariance(f, f)
           r == Covariance(g, g)
<1>6. Spearman(f, g) = IF Cardinality(S) < 2 THEN None ELSE Correlation(both, l, r)
  BY <1>1, Zenon DEF Spearman
<1>7. Spearman(h, k) = IF Cardinality(S) < 2 THEN None ELSE Correlation(both, l, r)
  <2>1. Spearman(h, k) = IF DOMAIN h # DOMAIN k \/ Cardinality(DOMAIN h) < 2 THEN None
                         ELSE Correlation(Covariance(h, k), Covariance(h, h), Covariance(k, k))
    BY Zenon DEF Spearman
  <2>2. DOMAIN h = DOMAIN k /\ Cardinality(DOMAIN h) = Cardinality(S)
    BY <1>1, <1>2
  <2> QED
    BY <1>3, <1>4, <1>5, <2>1, <2>2
<1>8. both \in Int /\ l \in Nat /\ r \in Nat
  BY <1>3, <1>4, <1>5
<1> HIDE DEF both, l, r
<1>9. l # 0 /\ r # 0 => (100 * both) \div Root(l * r) \in Int
  <2> SUFFICES ASSUME l # 0, r # 0 PROVE (100 * both) \div Root(l * r) \in Int
    OBVIOUS
  <2>1. l * 1 <= l * r /\ l * r \in Int /\ l * 1 = l
    BY <1>8, ProductsGrow
  <2>2. l * r \in Nat /\ l * r # 0
    BY <1>8, <2>1
  <2>3. Root(l * r) \in 0..(l * r) /\ Root(l * r) # 0
    BY <2>2, RootsExist
  <2>4. Root(l * r) \in Nat \ {0} /\ 100 * both \in Int
    BY <1>8, <2>2, <2>3
  <2> QED
    BY <2>4, Quotient
<1>10. Correlation(both, l, r) \in Int \cup {None}
  BY <1>9 DEF Correlation
<1> QED
  BY <1>6, <1>7, <1>10

-----------------------------------------------------------------------------
(* Comparisons. *)

\* Points whose predictions and truths are numbers or missing.
Judged(points) ==
    /\ IsFiniteSet(points)
    /\ \A p \in points :
          /\ p.predicted.score \in Int \cup {None} /\ p.predicted.level \in Int \cup {None}
          /\ p.truth.level \in Int \cup {None}

\* The same points but for what is neither truth nor prediction.
SaysTheSame(m, X, Y) ==
    /\ OneForOne(m, X, Y)
    /\ \A p \in X : /\ m[p].truth = p.truth
                    /\ m[p].predicted.score = p.predicted.score
                    /\ m[p].predicted.level = p.predicted.level

ScoredOf(X) == {p \in X : Predicts(p) /\ p.truth["level"] # None}
AtSlot(X, s) == {p \in X : p.truth.slot = s}
RhoOf(X) == Spearman([p \in X |-> p.predicted.score], [p \in X |-> p.truth["level"]])
AdjacentOf(X) == {p \in X : p.predicted.level - p.truth["level"] \in -1..1}

LEMMA SummaryIs ==
    ASSUME NEW X
    PROVE  LET scored == ScoredOf(X)
               rhos == [s \in {p.truth.slot : p \in scored} |-> RhoOf(AtSlot(scored, s))]
           IN  /\ Summarize(X, "level").n = Cardinality(scored)
               /\ Summarize(X, "level").rho = MeanCorrelation(rhos)
               /\ Summarize(X, "level").adjacent =
                      IF scored = {} THEN None
                      ELSE (100 * Cardinality(AdjacentOf(scored))) \div Cardinality(scored)
               /\ Summarize(X, "level") = [n |-> Summarize(X, "level").n,
                                           rho |-> Summarize(X, "level").rho,
                                           adjacent |-> Summarize(X, "level").adjacent]
<1> DEFINE scored == {p \in X : Predicts(p) /\ p.truth["level"] # None}
           adjacent == {p \in scored : p.predicted.level - p.truth["level"] \in -1..1}
           rhos == [s \in {p.truth.slot : p \in scored} |-> RhoOf(AtSlot(scored, s))]
<1>1. SlotCorrelations(scored, "level") = rhos
  BY Zenon DEF SlotCorrelations, RhoOf, AtSlot
<1>2. Summarize(X, "level") = [n |-> Cardinality(scored),
           rho |-> MeanCorrelation(SlotCorrelations(scored, "level")),
           adjacent |-> IF scored = {} THEN None
                        ELSE (100 * Cardinality(adjacent)) \div Cardinality(scored)]
  BY Zenon DEF Summarize
<1>3. scored = ScoredOf(X) /\ adjacent = AdjacentOf(scored)
  BY Zenon DEF ScoredOf, AdjacentOf
<1> HIDE DEF scored, adjacent, rhos
<1>4. Summarize(X, "level").rho = MeanCorrelation(rhos)
  BY <1>1, <1>2
<1>5. Summarize(X, "level").n = Cardinality(scored)
  BY <1>2
<1>6. Summarize(X, "level").adjacent = IF scored = {} THEN None
                        ELSE (100 * Cardinality(adjacent)) \div Cardinality(scored)
  BY <1>2
<1> QED
  BY <1>2, <1>3, <1>4, <1>5, <1>6 DEF rhos

\* Its correlations.
LEMMA RhosMirror ==
    ASSUME NEW X, IsFiniteSet(X), NEW Y, NEW m, SaysTheSame(m, X, Y),
           \A p \in X : p.predicted.score \in Int /\ p.truth["level"] \in Int
    PROVE  RhoOf(Y) = RhoOf(X) /\ RhoOf(X) \in Int \cup {None}
<1> DEFINE f == [p \in X |-> p.predicted.score]
           g == [p \in X |-> p.truth["level"]]
           h == [p \in Y |-> p.predicted.score]
           k == [p \in Y |-> p.truth["level"]]
<1>1. OneForOne(m, X, Y) /\ \A x \in X : m[x] \in Y
  BY DEF SaysTheSame, OneForOne
<1>2. Mirrors(f, h, m, X, Y)
  BY <1>1 DEF Mirrors, SaysTheSame
<1>3. Mirrors(g, k, m, X, Y)
  BY <1>1 DEF Mirrors, SaysTheSame
<1>4. RhoOf(X) = Spearman(f, g) /\ RhoOf(Y) = Spearman(h, k)
  BY DEF RhoOf
<1> HIDE DEF f, g, h, k
<1> QED
  BY <1>2, <1>3, <1>4, SpearmansMirror

LEMMA SummariesMirror ==
    ASSUME NEW X, Judged(X), NEW Y, NEW m, SaysTheSame(m, X, Y)
    PROVE  /\ Summarize(Y, "level") = Summarize(X, "level")
           /\ Summarize(X, "level").rho \in Int \cup {None}
           /\ Summarize(X, "level").adjacent \in Int \cup {None}
<1> DEFINE A == ScoredOf(X)
           B == ScoredOf(Y)
<1>1. OneForOne(m, X, Y)
  BY DEF SaysTheSame
<1>2. \A p \in X : /\ m[p].truth = p.truth /\ (Predicts(m[p]) <=> Predicts(p))
                   /\ m[p].predicted.score = p.predicted.score
                   /\ m[p].predicted.level = p.predicted.level
  BY DEF SaysTheSame, Predicts
<1>3. SaysTheSame(m, A, B)
  BY <1>1, <1>2 DEF SaysTheSame, OneForOne, ScoredOf
<1>4. IsFiniteSet(A) /\ \A p \in A : /\ p.predicted.score \in Int /\ p.predicted.level \in Int
                                      /\ p.truth["level"] \in Int
  <2>1. A \in SUBSET X
    BY DEF ScoredOf
  <2>2. \A p \in A : Predicts(p) /\ p.truth["level"] # None
    BY DEF ScoredOf
  <2> QED
    BY <2>1, <2>2, FS_Subset DEF Judged, Predicts
<1> HIDE DEF A, B
<1>5. Cardinality(B) = Cardinality(A) /\ Cardinality(A) \in Nat /\ (A = {} <=> B = {})
  <2>1. OneForOne(m, A, B)
    BY <1>3 DEF SaysTheSame
  <2>2. Cardinality(B) = Cardinality(A) /\ Cardinality(A) \in Nat
    BY <1>4, <2>1, OneForOneAreAsMany
  <2>3. A = {} <=> B = {}
    BY <2>1 DEF OneForOne
  <2> QED
    BY <2>2, <2>3
<1>6. Cardinality(AdjacentOf(B)) = Cardinality(AdjacentOf(A)) /\ Cardinality(AdjacentOf(A)) \in Nat
  <2>1. OneForOne(m, AdjacentOf(A), AdjacentOf(B))
    BY <1>3 DEF SaysTheSame, OneForOne, AdjacentOf
  <2>2. IsFiniteSet(AdjacentOf(A))
    BY <1>4, FS_Subset DEF AdjacentOf
  <2> QED
    BY <2>1, <2>2, OneForOneAreAsMany
<1> DEFINE slotsA == {p.truth.slot : p \in A}
           slotsB == {p.truth.slot : p \in B}
           rhosA == [s \in slotsA |-> RhoOf(AtSlot(A, s))]
           rhosB == [s \in slotsB |-> RhoOf(AtSlot(B, s))]
<1>7. slotsA = slotsB
  BY <1>3 DEF SaysTheSame, OneForOne
<1>8. \A s : RhoOf(AtSlot(B, s)) = RhoOf(AtSlot(A, s)) /\ RhoOf(AtSlot(A, s)) \in Int \cup {None}
  <2> TAKE s
  <2>1. SaysTheSame(m, AtSlot(A, s), AtSlot(B, s))
    BY <1>3 DEF SaysTheSame, OneForOne, AtSlot
  <2>2. IsFiniteSet(AtSlot(A, s))
    BY <1>4, FS_Subset DEF AtSlot
  <2>3. \A p \in AtSlot(A, s) : p.predicted.score \in Int /\ p.truth["level"] \in Int
    BY <1>4 DEF AtSlot
  <2> QED
    BY <2>1, <2>2, <2>3, RhosMirror
<1>9. rhosA = rhosB
  BY <1>7, <1>8
<1>10. MeanCorrelation(rhosA) \in Int \cup {None}
  <2> DEFINE defined == {s \in DOMAIN rhosA : rhosA[s] # None}
             h == [s \in defined |-> rhosA[s]]
  <2>1. MeanCorrelation(rhosA) = IF defined = {} THEN None
                                 ELSE SumFunction(h) \div Cardinality(defined)
    BY Zenon DEF MeanCorrelation, Total
  <2>2. IsFiniteSet(slotsA)
    <3> DEFINE w == [p \in A |-> p.truth.slot]
    <3>1. IsFiniteSet({w[p] : p \in A})
      BY <1>4, ImagesAreFinite
    <3>2. {w[p] : p \in A} = slotsA
      OBVIOUS
    <3> QED
      BY <3>1, <3>2
  <2>3. IsFiniteSet(defined)
    <3>1. defined \in SUBSET slotsA
      OBVIOUS
    <3> QED
      BY <2>2, <3>1, FS_Subset
  <2>4. \A s \in defined : h[s] \in Int
    <3> SUFFICES ASSUME NEW s \in defined PROVE h[s] \in Int
      OBVIOUS
    <3>1. s \in slotsA /\ rhosA[s] = RhoOf(AtSlot(A, s)) /\ h[s] = rhosA[s] /\ rhosA[s] # None
      OBVIOUS
    <3> QED
      BY <1>8, <3>1
  <2>5. DOMAIN h = defined
    OBVIOUS
  <2> HIDE DEF rhosA, h, defined
  <2>6. SumFunction(h) \in Int
    <3>1. SumFunctionOnSet(h, defined) \in Int
      BY <2>3, <2>4, SumStep
    <3> QED
      BY <2>5, <3>1, TotalIs
  <2>7. defined # {} => Cardinality(defined) \in Nat \ {0}
    BY <2>3, FS_CardinalityType, FS_EmptySet
  <2> QED
    BY <2>1, <2>6, <2>7, Quotient
<1>11. A # {} => (100 * Cardinality(AdjacentOf(A))) \div Cardinality(A) \in Int
  <2>1. A # {} => Cardinality(A) \in Nat \ {0}
    BY <1>4, FS_CardinalityType, FS_EmptySet
  <2> QED
    BY <1>6, <2>1, Quotient
<1>12. /\ Summarize(X, "level").n = Cardinality(A) /\ Summarize(X, "level").rho = MeanCorrelation(rhosA)
       /\ Summarize(X, "level").adjacent = IF A = {} THEN None
                      ELSE (100 * Cardinality(AdjacentOf(A))) \div Cardinality(A)
       /\ Summarize(X, "level") = [n |-> Summarize(X, "level").n,
                                   rho |-> Summarize(X, "level").rho,
                                   adjacent |-> Summarize(X, "level").adjacent]
  BY SummaryIs DEF A
<1>13. /\ Summarize(Y, "level").n = Cardinality(B) /\ Summarize(Y, "level").rho = MeanCorrelation(rhosB)
       /\ Summarize(Y, "level").adjacent = IF B = {} THEN None
                      ELSE (100 * Cardinality(AdjacentOf(B))) \div Cardinality(B)
       /\ Summarize(Y, "level") = [n |-> Summarize(Y, "level").n,
                                   rho |-> Summarize(Y, "level").rho,
                                   adjacent |-> Summarize(Y, "level").adjacent]
  BY SummaryIs DEF B
<1> HIDE DEF rhosA, rhosB
<1>14. /\ Summarize(Y, "level").n = Summarize(X, "level").n
       /\ Summarize(Y, "level").rho = Summarize(X, "level").rho
       /\ Summarize(Y, "level").adjacent = Summarize(X, "level").adjacent
  BY <1>5, <1>6, <1>9, <1>12, <1>13
<1>15. Summarize(Y, "level") = Summarize(X, "level")
  BY <1>12, <1>13, <1>14
<1>16. Summarize(X, "level").adjacent \in Int \cup {None}
  BY <1>11, <1>12
<1> QED
  BY <1>10, <1>12, <1>15, <1>16

ValidKeys(points) == {Key(p) : p \in {p \in points : Predicts(p)}}
PointsAt(points, at) == {p \in points : Key(p) \in at}
SegmentKeys(baseline, challenger, s) ==
    (ValidKeys(baseline) \cap ValidKeys(challenger)) \cap {Key(p) : p \in InSegment(baseline, challenger, s)}
GainAt(baseline, challenger, at) ==
    Delta(Summarize(PointsAt(baseline, at), "level"), Summarize(PointsAt(challenger, at), "level"))

ChecksAt(baseline, challenger, paired) ==
    ChecksOf({p.truth : p \in baseline} = {p.truth : p \in challenger},
             ValidKeys(baseline) \subseteq ValidKeys(challenger),
             Summarize(PointsAt(challenger, paired), "level"),
             GainAt(baseline, challenger, paired),
             GainAt(baseline, challenger, SegmentKeys(baseline, challenger, "covered")),
             GainAt(baseline, challenger, SegmentKeys(baseline, challenger, "fringe")))

LEMMA ChecksAre ==
    ASSUME NEW baseline, NEW challenger
    PROVE  Checks(baseline, challenger) =
               ChecksAt(baseline, challenger, ValidKeys(baseline) \cap ValidKeys(challenger))
  BY Zenon DEF Checks, ValidKeys, PointsAt, SegmentKeys, GainAt, ChecksAt

LEMMA PromotedIs ==
    ASSUME NEW baseline, NEW challenger, Promoted(baseline, challenger), NEW gain,
           gain = GainAt(baseline, challenger, SegmentKeys(baseline, challenger, "fringe"))
    PROVE  /\ {p.truth : p \in baseline} = {p.truth : p \in challenger}
           /\ ValidKeys(baseline) \subseteq ValidKeys(challenger)
           /\ gain.rho # None /\ gain.adjacent # None
           /\ gain.rho >= -MaxRegression /\ gain.adjacent >= -MaxRegression
           /\ gain.rho > 0 \/ gain.adjacent > 0
<1> DEFINE paired == ValidKeys(baseline) \cap ValidKeys(challenger)
           checks == Checks(baseline, challenger)
           truths == {p.truth : p \in baseline} = {p.truth : p \in challenger}
           kept == ValidKeys(baseline) \subseteq ValidKeys(challenger)
           whole == Summarize(PointsAt(challenger, paired), "level")
           all == GainAt(baseline, challenger, paired)
           covered == GainAt(baseline, challenger, SegmentKeys(baseline, challenger, "covered"))
<1>1. checks = ChecksOf(truths, kept, whole, all, covered, gain)
  <2>1. checks = ChecksAt(baseline, challenger, paired)
    BY ChecksAre
  <2> HIDE DEF checks
  <2> QED
    BY <2>1, Zenon DEF ChecksAt
<1>2. \A c \in DOMAIN checks : checks[c]
  BY Zenon DEF Promoted
<1> HIDE DEF paired, checks, truths, kept, whole, all, covered
<1> DEFINE steady(d) == /\ d.rho # None /\ d.adjacent # None
                        /\ d.rho >= -MaxRegression /\ d.adjacent >= -MaxRegression
<1>3. checks =
        [identical_primary_rows |-> truths, no_coverage_loss |-> kept,
         overall_spearman |-> all.rho # None /\ whole.rho >= MinSpearman /\ all.rho >= 0,
         overall_adjacent_accuracy |->
             all.adjacent # None /\ whole.adjacent >= MinAdjacent /\ all.adjacent >= 0,
         covered_no_serious_regression |-> steady(covered),
         fringe_no_serious_regression |-> steady(gain),
         fringe_improvement_evidence |-> /\ gain.rho # None /\ gain.adjacent # None
                                         /\ gain.rho > 0 \/ gain.adjacent > 0]
  BY <1>1, Zenon DEF ChecksOf
<1>4. {"identical_primary_rows", "no_coverage_loss", "fringe_no_serious_regression",
       "fringe_improvement_evidence"} \subseteq DOMAIN checks
  BY <1>3
<1>5. /\ checks.identical_primary_rows /\ checks.no_coverage_loss
      /\ checks.fringe_no_serious_regression /\ checks.fringe_improvement_evidence
  BY <1>2, <1>4
<1>6. truths
  <2>1. checks.identical_primary_rows = truths
    BY <1>3
  <2> QED
    BY <1>5, <2>1
<1>7. kept
  <2>1. checks.no_coverage_loss = kept
    BY <1>3
  <2> QED
    BY <1>5, <2>1
<1>8. steady(gain)
  <2> HIDE DEF steady
  <2>1. checks.fringe_no_serious_regression = steady(gain)
    BY <1>3
  <2> QED
    BY <1>5, <2>1
<1>9. gain.rho # None /\ gain.adjacent # None /\ (gain.rho > 0 \/ gain.adjacent > 0)
  <2> DEFINE better == gain.rho # None /\ gain.adjacent # None /\ (gain.rho > 0 \/ gain.adjacent > 0)
  <2>1. checks.fringe_improvement_evidence = better
    BY <1>3
  <2> HIDE DEF better
  <2>2. better
    BY <1>5, <2>1
  <2> QED
    BY <2>2 DEF better
<1> QED
  BY <1>6, <1>7, <1>8, <1>9 DEF truths, kept

\* Gains of one over the other are losses the other way round.
LEMMA GainsAreOpposite ==
    ASSUME NEW a, NEW b,
           a.rho \in Int \cup {None}, b.rho \in Int \cup {None},
           a.adjacent \in Int \cup {None}, b.adjacent \in Int \cup {None},
           NEW d, d = Delta(a, b), NEW e, e = Delta(b, a)
    PROVE  /\ d.rho # None /\ e.rho # None => d.rho \in Int /\ e.rho = -d.rho
           /\ d.adjacent # None /\ e.adjacent # None => d.adjacent \in Int /\ e.adjacent = -d.adjacent
<1>1. /\ d.rho = (IF b.rho = None \/ a.rho = None THEN None ELSE b.rho - a.rho)
      /\ d.adjacent = (IF b.adjacent = None \/ a.adjacent = None THEN None ELSE b.adjacent - a.adjacent)
  BY DEF Delta
<1>2. /\ e.rho = (IF a.rho = None \/ b.rho = None THEN None ELSE a.rho - b.rho)
      /\ e.adjacent = (IF a.adjacent = None \/ b.adjacent = None THEN None ELSE a.adjacent - b.adjacent)
  BY DEF Delta
<1> QED
  BY <1>1, <1>2

\* What two models said: one point a row, a record of its truth and of what was
\* predicted.
Answers(points) ==
    /\ Judged(points)
    /\ \A p, q \in points : Key(p) = Key(q) => p = q
    /\ \A p \in points : /\ {"truth", "predicted"} \subseteq DOMAIN p
                         /\ {"score", "level"} \subseteq DOMAIN p.predicted

LEMMA PartsAreJudged ==
    ASSUME NEW points, Judged(points), NEW at
    PROVE  Judged(PointsAt(points, at))
  BY FS_Subset DEF Judged, PointsAt

\* A challenger is promoted on the baseline's terms: its coverage labels change
\* nothing, it keeps every answer the baseline has, and no two models replace
\* each other where they agree on the segments (compare_evaluation_reports).
THEOREM PromotionsAreOnEqualTerms ==
    ASSUME NEW baseline, Answers(baseline), NEW challenger, Answers(challenger), NEW label
    PROVE  PromotionIsOnEqualTerms(baseline, challenger, label)
<1> DEFINE R(p) == [p EXCEPT !.predicted.coverage = label]
           relabelled == {R(p) : p \in challenger}
           seen(points) == {<<Key(p), p.predicted.coverage>> : p \in points}
<1>1. \A p \in challenger : /\ R(p).truth = p.truth
                            /\ R(p).predicted.score = p.predicted.score
                            /\ R(p).predicted.level = p.predicted.level
  BY DEF Answers
<1>2. \A p \in challenger : Key(R(p)) = Key(p) /\ (Predicts(R(p)) <=> Predicts(p))
  <2> TAKE p \in challenger
  <2> HIDE DEF R
  <2> QED
    BY <1>1 DEF Key, Predicts
<1> DEFINE m == [p \in challenger |-> R(p)]
<1>3. Checks(baseline, relabelled) = Checks(baseline, challenger)
  <2> HIDE DEF R
  <2>1. {p.truth : p \in relabelled} = {p.truth : p \in challenger}
    BY <1>1
  <2>2. ValidKeys(relabelled) = ValidKeys(challenger)
    BY <1>2 DEF ValidKeys
  <2>3. \A at : Summarize(PointsAt(relabelled, at), "level") = Summarize(PointsAt(challenger, at), "level")
    <3> TAKE at
    <3> DEFINE X == PointsAt(challenger, at)
               Y == PointsAt(relabelled, at)
    <3>1. \A p \in X : p \in challenger /\ m[p] = R(p) /\ R(p) \in Y
      BY <1>2 DEF PointsAt
    <3>2. \A q \in Y : \E p \in X : m[p] = q
      BY <1>2 DEF PointsAt
    <3>3. \A p, q \in challenger : Key(p) = Key(q) => p = q
      BY DEF Answers
    <3> HIDE DEF X, Y, m
    <3>4. SaysTheSame(m, X, Y)
      <4>1. \A p, q \in X : m[p] = m[q] => p = q
        BY <1>2, <3>1, <3>3
      <4> QED
        BY <1>1, <3>1, <3>2, <4>1 DEF SaysTheSame, OneForOne
    <3>5. Judged(X)
      BY PartsAreJudged DEF X, Answers
    <3>6. Summarize(Y, "level") = Summarize(X, "level")
      BY <3>4, <3>5, SummariesMirror
    <3> QED
      BY <3>6 DEF X, Y
  <2> DEFINE paired == ValidKeys(baseline) \cap ValidKeys(challenger)
  <2> HIDE DEF relabelled
  <2>4. \A at : GainAt(baseline, relabelled, at) = GainAt(baseline, challenger, at)
    BY <2>3, Zenon DEF GainAt
  <2>5. \A s : SegmentKeys(baseline, relabelled, s) = SegmentKeys(baseline, challenger, s)
    BY <2>2, Zenon DEF SegmentKeys, InSegment
  <2>6. paired = ValidKeys(baseline) \cap ValidKeys(relabelled)
    BY <2>2
  <2>7. Checks(baseline, challenger) = ChecksAt(baseline, challenger, paired)
    BY ChecksAre
  <2>8. Checks(baseline, relabelled) = ChecksAt(baseline, relabelled, paired)
    <3>1. Checks(baseline, relabelled)
              = ChecksAt(baseline, relabelled, ValidKeys(baseline) \cap ValidKeys(relabelled))
      BY ChecksAre
    <3> QED
      BY <2>6, <3>1
  <2>9. GainAt(baseline, relabelled, SegmentKeys(baseline, relabelled, "covered"))
            = GainAt(baseline, challenger, SegmentKeys(baseline, challenger, "covered"))
    BY <2>4, <2>5
  <2>10. GainAt(baseline, relabelled, SegmentKeys(baseline, relabelled, "fringe"))
            = GainAt(baseline, challenger, SegmentKeys(baseline, challenger, "fringe"))
    BY <2>4, <2>5
  <2>11. /\ Summarize(PointsAt(relabelled, paired), "level") = Summarize(PointsAt(challenger, paired), "level")
         /\ GainAt(baseline, relabelled, paired) = GainAt(baseline, challenger, paired)
    BY <2>3, <2>4
  <2> HIDE DEF paired
  <2>12. ChecksAt(baseline, relabelled, paired) = ChecksAt(baseline, challenger, paired)
    BY <2>1, <2>2, <2>9, <2>10, <2>11, Zenon DEF ChecksAt
  <2> QED
    BY <2>7, <2>8, <2>12
<1>4. ASSUME Promoted(baseline, challenger), NEW p \in baseline, Predicts(p)
      PROVE  \E q \in challenger : q.truth = p.truth /\ Predicts(q)
  <2>1. /\ {x.truth : x \in baseline} = {x.truth : x \in challenger}
        /\ ValidKeys(baseline) \subseteq ValidKeys(challenger)
    BY <1>4, PromotedIs
  <2>2. PICK q \in challenger : Predicts(q) /\ Key(q) = Key(p)
    BY <1>4, <2>1 DEF ValidKeys
  <2>3. PICK r \in challenger : r.truth = p.truth
    BY <2>1
  <2>4. Key(r) = Key(q)
    BY <2>2, <2>3 DEF Key
  <2>5. r = q
    BY <2>4 DEF Answers
  <2> QED
    BY <2>2, <2>3, <2>5
<1>5. ASSUME Promoted(baseline, challenger), MaxRegression = 0, seen(baseline) = seen(challenger),
             Promoted(challenger, baseline)
      PROVE  FALSE
  <2> DEFINE at == SegmentKeys(baseline, challenger, "fringe")
             gain == GainAt(baseline, challenger, at)
             loss == GainAt(challenger, baseline, at)
             a == Summarize(PointsAt(baseline, at), "level")
             b == Summarize(PointsAt(challenger, at), "level")
  <2>1. SegmentKeys(challenger, baseline, "fringe") = at
    <3>1. \A X, Y : {Key(p) : p \in InSegment(X, Y, "fringe")} = {k : k \in {k \in {Key(p) : p \in X} : <<k, "fringe">> \in seen(X)}}
      BY DEF InSegment
    <3>2. {Key(p) : p \in baseline} = {Key(p) : p \in challenger}
      <4>1. \A X : {Key(p) : p \in X} = {e[1] : e \in seen(X)}
        <5> TAKE X
        <5>1. \A p \in X : <<Key(p), p.predicted.coverage>> \in seen(X)
                           /\ <<Key(p), p.predicted.coverage>>[1] = Key(p)
          OBVIOUS
        <5>2. \A e \in seen(X) : \E p \in X : e[1] = Key(p)
          OBVIOUS
        <5> HIDE DEF seen
        <5> QED
          BY <5>1, <5>2
      <4> HIDE DEF seen
      <4> QED
        BY <1>5, <4>1
    <3> HIDE DEF seen
    <3>3. {Key(p) : p \in InSegment(baseline, challenger, "fringe")}
              = {Key(p) : p \in InSegment(challenger, baseline, "fringe")}
      BY <1>5, <3>1, <3>2
    <3> QED
      BY <3>3 DEF SegmentKeys
  <2>2. gain = Delta(a, b) /\ loss = Delta(b, a)
    BY Zenon DEF GainAt
  <2>3. /\ a.rho \in Int \cup {None} /\ a.adjacent \in Int \cup {None}
        /\ b.rho \in Int \cup {None} /\ b.adjacent \in Int \cup {None}
    <3>1. \A X : OneForOne([x \in X |-> x], X, X) /\ SaysTheSame([x \in X |-> x], X, X)
      BY DEF OneForOne, SaysTheSame
    <3>2. Judged(PointsAt(baseline, at)) /\ Judged(PointsAt(challenger, at))
      BY PartsAreJudged DEF Answers
    <3> QED
      BY <3>1, <3>2, SummariesMirror
  <2>4. /\ gain.rho # None /\ gain.adjacent # None /\ (gain.rho > 0 \/ gain.adjacent > 0)
        /\ gain.rho >= -MaxRegression /\ gain.adjacent >= -MaxRegression
    BY <1>5, PromotedIs
  <2>5. /\ loss.rho # None /\ loss.adjacent # None
        /\ loss.rho >= -MaxRegression /\ loss.adjacent >= -MaxRegression
    <3>1. loss = GainAt(challenger, baseline, SegmentKeys(challenger, baseline, "fringe"))
      BY <2>1
    <3> HIDE DEF loss, at
    <3> QED
      BY <1>5, <3>1, PromotedIs
  <2> HIDE DEF gain, loss, a, b, at
  <2>6. /\ gain.rho \in Int /\ loss.rho = -gain.rho
        /\ gain.adjacent \in Int /\ loss.adjacent = -gain.adjacent
    BY <2>2, <2>3, <2>4, <2>5, GainsAreOpposite
  <2> QED
    BY <1>5, <2>4, <2>5, <2>6
<1> HIDE DEF R, seen, relabelled
<1>6. Checks(baseline, relabelled) = Checks(baseline, challenger)
      /\ (Promoted(baseline, challenger) =>
              /\ \A p \in baseline : Predicts(p) => \E q \in challenger : q.truth = p.truth /\ Predicts(q)
              /\ (MaxRegression = 0 /\ seen(baseline) = seen(challenger)) =>
                     ~Promoted(challenger, baseline))
  BY <1>3, <1>4, <1>5
<1> QED
  BY <1>6, Zenon DEF PromotionIsOnEqualTerms, R, seen, relabelled

\* The parts of kappa.
LevelsOf(pairs, side) == {pairs[i][side] : i \in DOMAIN pairs}
CountOf(pairs, side, l) == Cardinality({i \in DOMAIN pairs : pairs[i][side] = l})
ApartOf(pairs) == [i \in DOMAIN pairs |-> (pairs[i][1] - pairs[i][2]) * (pairs[i][1] - pairs[i][2])]
ChanceOf(pairs) ==
    [c \in LevelsOf(pairs, 1) \X LevelsOf(pairs, 2) |->
        (c[1] - c[2]) * (c[1] - c[2]) * CountOf(pairs, 1, c[1]) * CountOf(pairs, 2, c[2])]
KappaOf(n, l, r, apart, chance) ==
    IF n < 2 \/ l < 2 \/ r < 2 \/ chance = 0 THEN None ELSE 100 - ((100 * n * apart) \div chance)

LEMMA KappaIs ==
    ASSUME NEW pairs
    PROVE  Kappa(pairs) = KappaOf(Cardinality(DOMAIN pairs), Cardinality(LevelsOf(pairs, 1)),
                                  Cardinality(LevelsOf(pairs, 2)),
                                  SumFunction(ApartOf(pairs)), SumFunction(ChanceOf(pairs)))
  BY Zenon DEF Kappa, Total, LevelsOf, CountOf, ApartOf, ChanceOf, KappaOf

RatedTwice(pairs) == IsFiniteSet(DOMAIN pairs) /\ \A i \in DOMAIN pairs : pairs[i][1] \in Int /\ pairs[i][2] \in Int

\* Their sums are natural numbers.
LEMMA KappaIsOfNumbers ==
    ASSUME NEW pairs, RatedTwice(pairs), NEW S, S = DOMAIN pairs,
           NEW U, U = LevelsOf(pairs, 1) \X LevelsOf(pairs, 2)
    PROVE  /\ \A i \in S : ApartOf(pairs)[i] \in Nat
           /\ IsFiniteSet(U) /\ \A c \in U : ChanceOf(pairs)[c] \in Nat
           /\ SumFunction(ApartOf(pairs)) = SumFunctionOnSet(ApartOf(pairs), S)
           /\ SumFunction(ChanceOf(pairs)) = SumFunctionOnSet(ChanceOf(pairs), U)
           /\ SumFunction(ApartOf(pairs)) \in Nat /\ SumFunction(ChanceOf(pairs)) \in Nat
<1>1. \A i \in S : ApartOf(pairs)[i] \in Nat
  <2> SUFFICES ASSUME NEW i \in S PROVE ApartOf(pairs)[i] \in Nat
    OBVIOUS
  <2>1. pairs[i][1] - pairs[i][2] \in Int
    BY DEF RatedTwice
  <2>2. ApartOf(pairs)[i] = (pairs[i][1] - pairs[i][2]) * (pairs[i][1] - pairs[i][2])
    BY Zenon DEF ApartOf
  <2> QED
    BY <2>1, <2>2, SquaresAreNatural
<1>2. \A side \in {1, 2} : IsFiniteSet(LevelsOf(pairs, side)) /\ LevelsOf(pairs, side) \subseteq Int
  <2> TAKE side \in {1, 2}
  <2> DEFINE w == [i \in S |-> pairs[i][side]]
  <2>1. IsFiniteSet({w[i] : i \in S})
    <3>1. IsFiniteSet(S)
      BY DEF RatedTwice
    <3> HIDE DEF w
    <3> QED
      BY <3>1, ImagesAreFinite
  <2>2. {w[i] : i \in S} = LevelsOf(pairs, side)
    BY DEF LevelsOf
  <2>3. \A i \in S : pairs[i][side] \in Int
    BY DEF RatedTwice
  <2> QED
    BY <2>1, <2>2, <2>3 DEF LevelsOf
<1>3. IsFiniteSet(U)
  BY <1>2, FS_Product
<1>4. \A side \in {1, 2} : \A l : CountOf(pairs, side, l) \in Nat
  <2> TAKE side \in {1, 2}
  <2> TAKE l
  <2>1. IsFiniteSet({i \in DOMAIN pairs : pairs[i][side] = l})
    <3>1. {i \in DOMAIN pairs : pairs[i][side] = l} \in SUBSET (DOMAIN pairs)
      OBVIOUS
    <3> QED
      BY <3>1, FS_Subset DEF RatedTwice
  <2> QED
    BY <2>1, FS_CardinalityType DEF CountOf
<1>5. \A c \in U : ChanceOf(pairs)[c] \in Nat
  <2> SUFFICES ASSUME NEW c \in U PROVE ChanceOf(pairs)[c] \in Nat
    OBVIOUS
  <2> DEFINE d == c[1] - c[2]
             k == CountOf(pairs, 1, c[1])
             l == CountOf(pairs, 2, c[2])
  <2>1. d \in Int /\ k \in Nat /\ l \in Nat
    BY <1>2, <1>4
  <2>2. ChanceOf(pairs)[c] = d * d * k * l
    BY Zenon DEF ChanceOf
  <2> HIDE DEF d, k, l
  <2>3. d * d \in Nat
    BY <2>1, SquaresAreNatural
  <2> DEFINE e == d * d
  <2>4. e \in Nat /\ ChanceOf(pairs)[c] = e * k * l
    BY <2>2, <2>3
  <2> HIDE DEF e
  <2>5. e * k \in Nat
    BY <2>1, <2>4, ProductStep
  <2>6. e * k * l \in Nat
    BY <2>1, <2>5, ProductStep
  <2> QED
    BY <2>4, <2>6
<1>6. DOMAIN ApartOf(pairs) = S /\ DOMAIN ChanceOf(pairs) = U
  BY DEF ApartOf, ChanceOf
<1>7. SumFunction(ApartOf(pairs)) = SumFunctionOnSet(ApartOf(pairs), S)
      /\ SumFunction(ChanceOf(pairs)) = SumFunctionOnSet(ChanceOf(pairs), U)
  BY <1>6, TotalIs
<1>8. SumFunctionOnSet(ApartOf(pairs), S) \in Nat
  BY <1>1, SumIsPositive DEF RatedTwice
<1>9. SumFunctionOnSet(ChanceOf(pairs), U) \in Nat
  BY <1>3, <1>5, SumIsPositive
<1> QED
  BY <1>1, <1>3, <1>5, <1>7, <1>8, <1>9

\* Neither the names of the items nor which rater is the first matter; side[i] is
\* where the other table has what this one has at i.
RatesAlike(m, side, f, h) ==
    /\ OneForOne(m, DOMAIN f, DOMAIN h) /\ side \in {<<1, 2>>, <<2, 1>>}
    /\ \A x \in DOMAIN f : \A i \in {1, 2} : h[m[x]][side[i]] = f[x][i]

LEMMA KappasMirror ==
    ASSUME NEW f, RatedTwice(f), NEW h, RatedTwice(h), NEW m, NEW side, RatesAlike(m, side, f, h)
    PROVE  Kappa(h) = Kappa(f)
<1> DEFINE S == DOMAIN f
           T == DOMAIN h
<1> USE DEF RatesAlike
<1>1. Cardinality(T) = Cardinality(S)
  BY OneForOneAreAsMany DEF RatedTwice
<1>2. \A i \in {1, 2} : side[i] \in {1, 2} /\ side[1] # side[2]
  OBVIOUS
<1>3. \A i \in {1, 2} : LevelsOf(h, side[i]) = LevelsOf(f, i)
  <2> TAKE i \in {1, 2}
  <2>1. \A x \in S : f[x][i] \in LevelsOf(h, side[i])
    BY DEF LevelsOf, OneForOne
  <2>2. \A y \in T : h[y][side[i]] \in LevelsOf(f, i)
    BY DEF LevelsOf, OneForOne
  <2> QED
    BY <2>1, <2>2 DEF LevelsOf
<1>4. \A i \in {1, 2} : \A l : CountOf(h, side[i], l) = CountOf(f, i, l)
  <2> TAKE i \in {1, 2}
  <2> TAKE l
  <2> DEFINE A == {x \in S : f[x][i] = l}
             B == {y \in T : h[y][side[i]] = l}
  <2>1. OneForOne(m, A, B)
    BY DEF OneForOne
  <2>2. IsFiniteSet(A)
    <3>1. A \in SUBSET S
      OBVIOUS
    <3> QED
      BY <3>1, FS_Subset DEF RatedTwice
  <2>3. Cardinality(B) = Cardinality(A)
    BY <2>1, <2>2, OneForOneAreAsMany
  <2> QED
    BY <2>3 DEF CountOf
<1>5. SumFunction(ApartOf(h)) = SumFunction(ApartOf(f))
  <2>1. \A x \in S : ApartOf(f)[x] \in Int /\ ApartOf(h)[m[x]] = ApartOf(f)[x]
    <3> SUFFICES ASSUME NEW x \in S
                 PROVE  ApartOf(f)[x] \in Int /\ ApartOf(h)[m[x]] = ApartOf(f)[x]
      OBVIOUS
    <3>1. ApartOf(f)[x] \in Nat
      BY KappaIsOfNumbers
    <3>2. ApartOf(f)[x] = (f[x][1] - f[x][2]) * (f[x][1] - f[x][2])
      BY Zenon DEF ApartOf
    <3>3. m[x] \in T
      BY DEF OneForOne
    <3>4. ApartOf(h)[m[x]] = (h[m[x]][1] - h[m[x]][2]) * (h[m[x]][1] - h[m[x]][2])
      BY <3>3, Zenon DEF ApartOf
    <3> DEFINE a == f[x][1]  b == f[x][2]
    <3>5. a \in Int /\ b \in Int
      BY DEF RatedTwice
    <3>6. (h[m[x]][1] = a /\ h[m[x]][2] = b) \/ (h[m[x]][1] = b /\ h[m[x]][2] = a)
      BY <1>2
    <3> HIDE DEF a, b
    <3>7. (a - b) * (a - b) = (b - a) * (b - a)
      BY <3>5
    <3> QED
      BY <3>1, <3>2, <3>4, <3>6, <3>7 DEF a, b
  <2>2. Renames(m, ApartOf(f), ApartOf(h), S)
    BY <2>1 DEF Renames, OneForOne
  <2>4. T = {m[x] : x \in S}
    <3>1. (\A x \in S : m[x] \in T) /\ \A y \in T : \E x \in S : m[x] = y
      BY DEF OneForOne
    <3> HIDE DEF S, T
    <3> QED
      BY <3>1
  <2>3. SumFunctionOnSet(ApartOf(h), T) = SumFunctionOnSet(ApartOf(f), S)
    BY <2>2, <2>4, SumOfImages DEF RatedTwice
  <2> QED
    BY <2>3, KappaIsOfNumbers
<1> DEFINE U == LevelsOf(f, 1) \X LevelsOf(f, 2)
           V == LevelsOf(h, 1) \X LevelsOf(h, 2)
           w == [c \in U |-> <<c[side[1]], c[side[2]]>>]
<1>6. SumFunction(ChanceOf(h)) = SumFunction(ChanceOf(f))
  <2>1. \A c \in U : ChanceOf(f)[c] \in Int /\ ChanceOf(h)[w[c]] = ChanceOf(f)[c]
    <3> SUFFICES ASSUME NEW c \in U
                 PROVE  ChanceOf(f)[c] \in Int /\ ChanceOf(h)[w[c]] = ChanceOf(f)[c]
      OBVIOUS
    <3>1. ChanceOf(f)[c] \in Nat
      BY KappaIsOfNumbers
    <3>2. ChanceOf(f)[c] = (c[1] - c[2]) * (c[1] - c[2]) * CountOf(f, 1, c[1]) * CountOf(f, 2, c[2])
      BY Zenon DEF ChanceOf
    <3> DEFINE a == c[1]  b == c[2]  k == CountOf(f, 1, a)  l == CountOf(f, 2, b)
    <3>3. a \in Int /\ b \in Int
      BY DEF LevelsOf, RatedTwice
    <3>4. k \in Nat /\ l \in Nat
      <4>1. \A i \in {1, 2} : \A v : IsFiniteSet({x \in S : f[x][i] = v})
        <5> TAKE i \in {1, 2}
        <5> TAKE v
        <5>1. {x \in S : f[x][i] = v} \in SUBSET S
          OBVIOUS
        <5> QED
          BY <5>1, FS_Subset DEF RatedTwice
      <4> QED
        BY <4>1, FS_CardinalityType DEF CountOf
    <3>5. CASE side = <<1, 2>>
      <4>1. w[c] = c /\ c \in V
        BY <1>3, <3>5
      <4>2. ChanceOf(h)[c] = (a - b) * (a - b) * CountOf(h, 1, a) * CountOf(h, 2, b)
        BY <4>1, Zenon DEF ChanceOf
      <4>3. CountOf(h, 1, a) = k /\ CountOf(h, 2, b) = l
        BY <1>4, <3>5
      <4> QED
        BY <3>1, <3>2, <4>1, <4>2, <4>3
    <3>6. CASE side = <<2, 1>>
      <4>1. w[c] = <<b, a>> /\ <<b, a>> \in V
        BY <1>3, <3>6
      <4>2. ChanceOf(h)[<<b, a>>] = (b - a) * (b - a) * CountOf(h, 1, b) * CountOf(h, 2, a)
        <5>1. ChanceOf(h)[<<b, a>>] = (<<b, a>>[1] - <<b, a>>[2]) * (<<b, a>>[1] - <<b, a>>[2])
                  * CountOf(h, 1, <<b, a>>[1]) * CountOf(h, 2, <<b, a>>[2])
          BY <4>1, Zenon DEF ChanceOf
        <5>2. <<b, a>>[1] = b /\ <<b, a>>[2] = a
          OBVIOUS
        <5> QED
          BY <5>1, <5>2
      <4>3. CountOf(h, 1, b) = l /\ CountOf(h, 2, a) = k
        BY <1>4, <3>6
      <4> DEFINE x == (a - b) * (a - b)
      <4>4. (b - a) * (b - a) = x /\ x \in Int
        BY <3>3
      <4>5. ChanceOf(f)[c] = x * k * l /\ ChanceOf(h)[w[c]] = x * l * k
        BY <3>2, <4>1, <4>2, <4>3, <4>4
      <4> HIDE DEF x, k, l, a, b, w
      <4>6. x * k * l = x * l * k
        BY <3>4, <4>4
      <4> QED
        BY <3>1, <4>5, <4>6
    <3> QED
      BY <3>5, <3>6
  <2>2. V = {w[c] : c \in U} /\ \A c, d \in U : w[c] = w[d] => c = d
    <3>1. CASE side = <<1, 2>>
      <4>1. \A c \in U : w[c] = c
        BY <3>1
      <4>2. U = V
        BY <1>3, <3>1
      <4> HIDE DEF w, U, V
      <4> QED
        BY <4>1, <4>2
    <3>2. CASE side = <<2, 1>>
      <4>1. \A c \in U : w[c] = <<c[2], c[1]>>
        BY <3>2
      <4>2. LevelsOf(h, 2) = LevelsOf(f, 1) /\ LevelsOf(h, 1) = LevelsOf(f, 2)
        BY <1>3, <3>2
      <4> HIDE DEF w
      <4>3. \A c \in V : \E d \in U : w[d] = c
        <5> SUFFICES ASSUME NEW c \in V PROVE \E d \in U : w[d] = c
          OBVIOUS
        <5>1. <<c[2], c[1]>> \in U /\ w[<<c[2], c[1]>>] = c
          BY <4>1, <4>2
        <5> QED
          BY <5>1
      <4>4. \A c \in U : w[c] \in V
        BY <4>1, <4>2
      <4>5. \A c, d \in U : w[c] = w[d] => c = d
        BY <4>1
      <4> QED
        BY <4>3, <4>4, <4>5
    <3> QED
      BY <3>1, <3>2
  <2>3. Renames(w, ChanceOf(f), ChanceOf(h), U)
    <3> HIDE DEF w, U
    <3> QED
      BY <2>1, <2>2 DEF Renames
  <2>4. IsFiniteSet(U)
    BY KappaIsOfNumbers
  <2> HIDE DEF w, U, V
  <2>5. SumFunctionOnSet(ChanceOf(h), V) = SumFunctionOnSet(ChanceOf(f), U)
    BY <2>2, <2>3, <2>4, SumOfImages
  <2> QED
    BY <2>5, KappaIsOfNumbers DEF U, V
<1>7. \/ /\ LevelsOf(h, 1) = LevelsOf(f, 1) /\ LevelsOf(h, 2) = LevelsOf(f, 2)
      \/ /\ LevelsOf(h, 1) = LevelsOf(f, 2) /\ LevelsOf(h, 2) = LevelsOf(f, 1)
  BY <1>3
<1>8. \A n, l, r, apart, chance : KappaOf(n, l, r, apart, chance) = KappaOf(n, r, l, apart, chance)
  BY DEF KappaOf
<1>9. Kappa(h) = KappaOf(Cardinality(S), Cardinality(LevelsOf(h, 1)), Cardinality(LevelsOf(h, 2)),
                         SumFunction(ApartOf(f)), SumFunction(ChanceOf(f)))
  BY <1>1, <1>5, <1>6, KappaIs
<1>10. Kappa(f) = KappaOf(Cardinality(S), Cardinality(LevelsOf(f, 1)), Cardinality(LevelsOf(f, 2)),
                          SumFunction(ApartOf(f)), SumFunction(ChanceOf(f)))
  BY KappaIs
<1> QED
  BY <1>7, <1>8, <1>9, <1>10

\* Kappa is the same whoever of two raters comes first and in whatever order the
\* rows are, at most 100, and 100 when the two always agree
\* (quadratic_weighted_cohen_kappa).
THEOREM KappasAreFair ==
    ASSUME NEW n \in Nat, NEW pairs \in [1..n -> Int \X Int]
    PROVE  KappaIsFair(pairs)
<1> DEFINE swapped == [i \in DOMAIN pairs |-> <<pairs[i][2], pairs[i][1]>>]
           back == Reverse(pairs)
           S == 1..n
<1>1. DOMAIN pairs = S /\ RatedTwice(pairs)
  <2>1. \A i \in S : pairs[i][1] \in Int /\ pairs[i][2] \in Int
    <3> TAKE i \in S
    <3>1. pairs[i] \in Int \X Int
      OBVIOUS
    <3> HIDE DEF S
    <3> QED
      BY <3>1
  <2> QED
    BY <2>1, FS_Interval DEF RatedTwice
<1>2. Kappa(swapped) = Kappa(pairs)
  <2> DEFINE m == [i \in S |-> i]
  <2>1. DOMAIN swapped = S /\ \A x \in S : swapped[m[x]][1] = pairs[x][2] /\ swapped[m[x]][2] = pairs[x][1]
    BY <1>1
  <2>2. OneForOne(m, S, S)
    BY DEF OneForOne
  <2>3. \A x \in S : m[x] = x
    OBVIOUS
  <2> DEFINE side == <<2, 1>>
  <2>4. side[1] = 2 /\ side[2] = 1
    OBVIOUS
  <2> HIDE DEF swapped, m, S, side
  <2>5. RatedTwice(swapped)
    BY <1>1, <2>1, <2>3 DEF RatedTwice
  <2>6. \A x \in S : \A i \in {1, 2} : swapped[m[x]][side[i]] = pairs[x][i]
    BY <2>1, <2>4
  <2>7. side \in {<<1, 2>>, <<2, 1>>}
    BY DEF side
  <2>8. RatesAlike(m, side, pairs, swapped)
    BY <1>1, <2>1, <2>2, <2>6, <2>7 DEF RatesAlike
  <2> QED
    BY <1>1, <2>5, <2>8, KappasMirror
<1>3. Kappa(back) = Kappa(pairs)
  <2> DEFINE m == [i \in S |-> (n - i) + 1]
  <2>1. Len(pairs) = n
    BY FunctionsAreSequences
  <2>2. back = [i \in S |-> pairs[(n - i) + 1]]
    BY <2>1, Zenon DEF Reverse
  <2>3. DOMAIN back = S /\ \A x \in S : back[m[x]] = pairs[x]
    <3> HIDE DEF back
    <3>1. DOMAIN back = S
      BY <2>2
    <3> SUFFICES ASSUME NEW x \in S PROVE back[m[x]] = pairs[x]
      BY <3>1
    <3>2. m[x] \in S /\ (n - m[x]) + 1 = x
      OBVIOUS
    <3>3. back[m[x]] = pairs[(n - m[x]) + 1]
      BY <2>2, <3>2
    <3> QED
      BY <3>2, <3>3
  <2>4. OneForOne(m, S, S)
    <3>1. \A y \in S : (n - y) + 1 \in S /\ m[(n - y) + 1] = y
      OBVIOUS
    <3>2. \A x, y \in S : m[x] = m[y] => x = y
      OBVIOUS
    <3>3. \A x \in S : m[x] \in S
      OBVIOUS
    <3> HIDE DEF m, S
    <3> QED
      BY <3>1, <3>2, <3>3 DEF OneForOne
  <2> DEFINE side == <<1, 2>>
  <2>5. side[1] = 1 /\ side[2] = 2
    OBVIOUS
  <2> HIDE DEF back, m, S, side
  <2>6. RatedTwice(back)
    <3>1. \A y \in S : \E x \in S : m[x] = y
      BY <2>4 DEF OneForOne
    <3>2. \A y \in S : back[y][1] \in Int /\ back[y][2] \in Int
      <4> SUFFICES ASSUME NEW y \in S PROVE back[y][1] \in Int /\ back[y][2] \in Int
        OBVIOUS
      <4>1. PICK x \in S : m[x] = y
        BY <3>1
      <4>2. back[y] = pairs[x]
        BY <2>3, <4>1
      <4> QED
        BY <1>1, <4>2 DEF RatedTwice
    <3> QED
      BY <1>1, <2>3, <3>2 DEF RatedTwice
  <2>7. \A x \in S : \A i \in {1, 2} : back[m[x]][side[i]] = pairs[x][i]
    BY <2>3, <2>5
  <2>8. side \in {<<1, 2>>, <<2, 1>>}
    BY DEF side
  <2>9. RatesAlike(m, side, pairs, back)
    BY <1>1, <2>3, <2>4, <2>7, <2>8 DEF RatesAlike
  <2> QED
    BY <1>1, <2>6, <2>9, KappasMirror
<1> DEFINE apart == SumFunction(ApartOf(pairs))
           chance == SumFunction(ChanceOf(pairs))
<1>4. apart \in Nat /\ chance \in Nat
  BY <1>1, KappaIsOfNumbers
<1>5. Kappa(pairs) # None => chance \in Nat \ {0} /\ Kappa(pairs) = 100 - ((100 * n * apart) \div chance)
  <2>1. Kappa(pairs) = KappaOf(n, Cardinality(LevelsOf(pairs, 1)), Cardinality(LevelsOf(pairs, 2)), apart, chance)
    <3>1. Cardinality(DOMAIN pairs) = n
      BY <1>1, FS_Interval
    <3> HIDE DEF apart, chance
    <3> QED
      BY <3>1, KappaIs DEF apart, chance
  <2> HIDE DEF apart, chance
  <2> QED
    BY <1>4, <2>1 DEF KappaOf
<1>6. (\A i \in DOMAIN pairs : pairs[i][1] = pairs[i][2]) => apart = 0
  <2> SUFFICES ASSUME \A i \in S : pairs[i][1] = pairs[i][2] PROVE apart = 0
    BY <1>1
  <2>1. \A i \in S : ApartOf(pairs)[i] = 0
    <3> SUFFICES ASSUME NEW i \in S PROVE ApartOf(pairs)[i] = 0
      OBVIOUS
    <3>1. pairs[i][1] - pairs[i][2] = 0
      BY <1>1 DEF RatedTwice
    <3> QED
      BY <1>1, <3>1 DEF ApartOf
  <2>2. SumFunctionOnSet(ApartOf(pairs), S) <= Cardinality(S) * 0
    <3>1. IsFiniteSet(S) /\ \A i \in S : ApartOf(pairs)[i] \in 0..0
      BY <2>1, FS_Interval
    <3> HIDE DEF S
    <3> QED
      BY <3>1, SumIsBounded
  <2>3. apart = SumFunctionOnSet(ApartOf(pairs), S)
    BY <1>1, KappaIsOfNumbers
  <2>4. Cardinality(S) = n
    BY FS_Interval
  <2> HIDE DEF apart, S
  <2> QED
    BY <1>4, <2>2, <2>3, <2>4
<1>7. Kappa(pairs) # None => /\ Kappa(pairs) <= 100
                             /\ (apart = 0 => Kappa(pairs) = 100)
  <2> HIDE DEF apart, chance
  <2> SUFFICES ASSUME chance \in Nat \ {0}
               PROVE  LET q == (100 * n * apart) \div chance
                      IN  q \in Int /\ q >= 0 /\ (apart = 0 => q = 0)
    BY <1>5
  <2> DEFINE x == 100 * n * apart
             q == x \div chance
  <2>1. x \in Nat /\ (apart = 0 => x = 0)
    <3>1. 100 * n \in Nat
      OBVIOUS
    <3> DEFINE y == 100 * n
    <3> HIDE DEF y
    <3>2. y * apart \in Nat /\ (apart = 0 => y * apart = 0)
      BY <1>4, <3>1, ProductStep DEF y
    <3> QED
      BY <3>2 DEF y
  <2> HIDE DEF x
  <2>2. q \in Int /\ chance * q <= x /\ x < chance * q + chance /\ chance * q \in Int
    BY <2>1, Quotient
  <2> HIDE DEF q
  <2>3. q >= 0
    <3> SUFFICES ASSUME q < 0 PROVE FALSE
      BY <2>2
    <3>1. chance * q + chance <= chance * 0 /\ chance * 0 = 0
      BY <2>2, MultiplesGrow
    <3> DEFINE y == chance * q
    <3> HIDE DEF y
    <3>2. y + chance <= 0 /\ x < y + chance /\ y \in Int
      BY <2>2, <3>1 DEF y
    <3> QED
      BY <2>1, <3>2
  <2>4. x = 0 => q = 0
    <3> SUFFICES ASSUME x = 0, q > 0 PROVE FALSE
      BY <2>2, <2>3
    <3>1. chance * 0 + chance <= chance * q
      BY <2>2, MultiplesGrow
    <3> QED
      BY <2>1, <2>2, <3>1
  <2> QED
    BY <2>1, <2>2, <2>3, <2>4 DEF q, x
<1> HIDE DEF swapped, back, apart, chance
<1> QED
  BY <1>2, <1>3, <1>6, <1>7, Zenon DEF KappaIsFair, swapped, back

\* The snapshots of a hotspot in the order they were observed.
AsObserved(S) == InOrder(S, LAMBDA a, b : a.observed < b.observed)

LEMMA ObservedInOrder ==
    ASSUME NEW S, IsFiniteSet(S), \A s \in S : s.observed \in Int,
           \A a, b \in S : a.observed = b.observed => a = b,
           NEW items, items = AsObserved(S)
    PROVE  /\ Cardinality(S) \in Nat /\ items \in [1..Cardinality(S) -> S]
           /\ \A i, j \in 1..Cardinality(S) : i <= j => items[i].observed <= items[j].observed
<1> DEFINE R == {p \in S \X S : p[1].observed < p[2].observed}
<1>1. \A c, d \in S : <<c, d>> \in R <=> c.observed < d.observed
  OBVIOUS
<1>2. items = [i \in 1..Cardinality(S) |->
                  CHOOSE c \in S : Cardinality({d \in S : d.observed < c.observed}) = i - 1]
  BY Zenon DEF InOrder, AsObserved
<1> HIDE DEF R
<1>3. Orders(R, S)
  <2>1. \A c \in S : ~(c.observed < c.observed)
    OBVIOUS
  <2>2. \A c, d \in S : c # d => c.observed < d.observed \/ d.observed < c.observed
    OBVIOUS
  <2>3. \A c, d, e \in S : c.observed < d.observed /\ d.observed < e.observed => c.observed < e.observed
    OBVIOUS
  <2> QED
    BY <1>1, <2>1, <2>2, <2>3, Zenon DEF Orders
<1>4. Ranked(items, R, S)
  <2>1. \A c \in S : Cardinality({d \in S : d.observed < c.observed}) = Preceding(R, S, c)
    <3> SUFFICES ASSUME NEW c \in S
                 PROVE  Cardinality({d \in S : d.observed < c.observed}) = Preceding(R, S, c)
      OBVIOUS
    <3>1. {d \in S : d.observed < c.observed} = {d \in S : <<d, c>> \in R}
      BY <1>1
    <3> QED
      BY <3>1 DEF Preceding
  <2> DEFINE x(i) == CHOOSE c \in S : Cardinality({d \in S : d.observed < c.observed}) = i - 1
             y(i) == CHOOSE c \in S : Preceding(R, S, c) = i - 1
  <2>2. \A i : x(i) = y(i)
    BY <2>1
  <2>3. items = [i \in 1..Cardinality(S) |-> x(i)]
    BY <1>2
  <2>4. items = [i \in 1..Cardinality(S) |-> y(i)]
    <3> HIDE DEF x, y
    <3> QED
      BY <2>2, <2>3
  <2> QED
    BY <2>4 DEF Ranked
<1>5. /\ Cardinality(S) \in Nat /\ DOMAIN items = 1..Cardinality(S)
      /\ \A i \in DOMAIN items : items[i] \in S
      /\ \A i, j \in DOMAIN items : i < j => <<items[i], items[j]>> \in R
  BY <1>3, <1>4, ListedInOrder
<1>6. items \in [1..Cardinality(S) -> S]
  <2>1. items = [i \in 1..Cardinality(S) |-> items[i]]
    BY <1>2, <1>5
  <2> QED
    BY <1>5, <2>1
<1>7. \A i, j \in 1..Cardinality(S) : i <= j => items[i].observed <= items[j].observed
  <2> SUFFICES ASSUME NEW i \in 1..Cardinality(S), NEW j \in 1..Cardinality(S), i <= j
               PROVE  items[i].observed <= items[j].observed
    OBVIOUS
  <2>1. items[i] \in S /\ items[j] \in S
    BY <1>5
  <2>2. CASE i = j
    BY <2>1, <2>2
  <2>3. CASE i < j
    <3>1. <<items[i], items[j]>> \in R
      BY <1>5, <2>3
    <3> QED
      BY <1>1, <2>1, <3>1
  <2> QED
    BY <1>5, <2>2, <2>3
<1> QED
  BY <1>5, <1>6, <1>7

\* A pair never predicts the past or another hotspot (backtest_source_delay).
THEOREM PairsPredictTheFuture ==
    ASSUME NEW snapshots, IsFiniteSet(snapshots), None \notin snapshots,
           \A s \in snapshots : s.observed \in Int,
           NEW lead \in Int, NEW tolerance \in Int
    PROVE  PairsLookAhead(snapshots, lead, tolerance)
<1> DEFINE pairs == DelayPairs(snapshots, lead, tolerance)
           of(h) == {s \in snapshots : s.hotspot = h}
           items(h) == AsObserved(of(h))
           nearest(o) == NearestActual(items(o.hotspot), o.observed + lead, tolerance)
           actual == [o \in snapshots |-> nearest(o)]
           ahead == {s \in snapshots : IF actual[s] = None THEN FALSE
                                       ELSE actual[s].observed > s.observed}
           double == \E a, b \in snapshots : a # b /\ a.hotspot = b.hotspot /\ a.observed = b.observed
<1>1. pairs = IF double THEN Refused ELSE [o \in ahead |-> actual[o]]
  BY Zenon DEF DelayPairs, AsObserved
<1> SUFFICES ASSUME ~double, NEW o \in ahead
             PROVE  /\ actual[o].hotspot = o.hotspot /\ actual[o].observed > o.observed
                    /\ actual[o] \in snapshots
  <2> HIDE DEF ahead, actual, pairs
  <2>1. CASE double
    <3>1. pairs = Refused
      BY <1>1, <2>1
    <3> QED
      BY <3>1 DEF PairsLookAhead, pairs
  <2>2. CASE ~double
    <3>1. pairs = [o \in ahead |-> actual[o]]
      BY <1>1, <2>2
    <3>2. \A o \in DOMAIN pairs : o \in ahead /\ pairs[o] = actual[o]
      BY <3>1
    <3>3. \A o \in DOMAIN pairs : /\ pairs[o].hotspot = o.hotspot
                                  /\ pairs[o].observed > o.observed
                                  /\ pairs[o] \in snapshots
      BY <2>2, <3>2
    <3> QED
      BY <3>3, Zenon DEF PairsLookAhead, pairs
  <2> QED
    BY <2>1, <2>2
<1>2. o \in snapshots /\ actual[o] # None /\ actual[o].observed > o.observed
  BY DEF ahead
<1>3. actual[o] = nearest(o)
  BY <1>2 DEF actual
<1> DEFINE S == of(o.hotspot)
<1>4. /\ IsFiniteSet(S) /\ S \subseteq snapshots /\ \A s \in S : s.observed \in Int /\ s.hotspot = o.hotspot
      /\ \A a, b \in S : a.observed = b.observed => a = b
  <2>1. S \in SUBSET snapshots
    OBVIOUS
  <2>2. IsFiniteSet(S)
    BY <2>1, FS_Subset
  <2> QED
    BY <2>2
<1> DEFINE list == items(o.hotspot)
<1>5. list = AsObserved(S)
  BY Zenon
<1> HIDE DEF S, list, actual, ahead, of, items, double
<1>6. /\ Cardinality(S) \in Nat /\ list \in [1..Cardinality(S) -> S]
      /\ \A i, j \in 1..Cardinality(S) : i <= j => list[i].observed <= list[j].observed
  BY <1>4, <1>5, ObservedInOrder
<1>7. None \notin S /\ o.observed + lead \in Int
  BY <1>2, <1>4
<1>8. NearestActual(list, o.observed + lead, tolerance) \in Range(list) \cup {None}
  BY <1>4, <1>6, <1>7, NeighboursHoldTheNearest
<1>9. Range(list) \subseteq S
  BY <1>6 DEF Range
<1>10. nearest(o) = NearestActual(list, o.observed + lead, tolerance)
  BY DEF list
<1> QED
  BY <1>2, <1>3, <1>4, <1>8, <1>9, <1>10

\* A weighted sum lies between the extremes of what is weighed.
Weighs(f, w, v, T) == \A x \in T : f[x] = w[x] * v[x]

LEMMA MeansLieBetween ==
    ASSUME NEW T, IsFiniteSet(T), T # {}, NEW w, \A x \in T : w[x] \in Nat \ {0},
           NEW v, NEW lo \in Int, NEW hi \in Int, \A x \in T : v[x] \in lo..hi,
           NEW f, Weighs(f, w, v, T), NEW W, W = SumFunctionOnSet(w, T)
    PROVE  /\ W \in Nat \ {0} /\ SumFunctionOnSet(f, T) \in Int
           /\ lo * W <= SumFunctionOnSet(f, T) /\ SumFunctionOnSet(f, T) <= hi * W
<1>1. W \in Nat \ {0}
  BY SumIsPositive
<1> DEFINE g == [x \in T |-> lo * w[x]]
           h == [x \in T |-> hi * w[x]]
<1>2. \A x \in T : /\ g[x] = lo * w[x] /\ h[x] = hi * w[x] /\ g[x] \in Int /\ h[x] \in Int
                   /\ f[x] \in Int /\ g[x] <= f[x] /\ f[x] <= h[x]
  <2> SUFFICES ASSUME NEW x \in T
               PROVE  /\ g[x] = lo * w[x] /\ h[x] = hi * w[x] /\ g[x] \in Int /\ h[x] \in Int
                      /\ f[x] \in Int /\ g[x] <= f[x] /\ f[x] <= h[x]
    OBVIOUS
  <2>1. g[x] = lo * w[x] /\ h[x] = hi * w[x] /\ f[x] = w[x] * v[x]
    BY DEF Weighs
  <2> DEFINE a == w[x]  b == v[x]
  <2>2. a \in Nat /\ b \in Int /\ lo <= b /\ b <= hi
    OBVIOUS
  <2> HIDE DEF a, b
  <2>3. a * lo <= a * b /\ a * b <= a * hi /\ a * lo \in Int /\ a * b \in Int /\ a * hi \in Int
    BY <2>2, ProductsGrow
  <2>4. lo * a = a * lo /\ hi * a = a * hi
    BY <2>2
  <2> QED
    BY <2>1, <2>3, <2>4 DEF a, b
<1> HIDE DEF g, h
<1>3. \A x \in T : w[x] \in Int
  OBVIOUS
<1>4. SumFunctionOnSet(g, T) = lo * W
  BY <1>2, <1>3, SumOfMultiples
<1>5. SumFunctionOnSet(h, T) = hi * W
  BY <1>2, <1>3, SumOfMultiples
<1>6. SumFunctionOnSet(g, T) <= SumFunctionOnSet(f, T)
  BY <1>2, SumMonotone
<1>7. SumFunctionOnSet(f, T) <= SumFunctionOnSet(h, T)
  BY <1>2, SumMonotone
<1>8. SumFunctionOnSet(f, T) \in Int
  BY <1>2, SumStep
<1> QED
  BY <1>1, <1>4, <1>5, <1>6, <1>7, <1>8

\* So does what pooling makes of two of them.
LEMMA PoolsLieBetween ==
    ASSUME NEW W \in Nat \ {0}, NEW V \in Nat \ {0}, NEW Q \in Nat, NEW S \in Int, NEW R \in Int,
           NEW a \in Int, NEW p \in Nat
    PROVE  LET num == W * W * S * V + p * Q * R * W
               den == (W * W + p * Q) * W * V
           IN  /\ a * W <= S /\ a * V <= R => a * den <= num
               /\ S <= a * W /\ R <= a * V => num <= a * den
<1> DEFINE A == W * W * V
           B == p * Q * W
           num == W * W * S * V + p * Q * R * W
           den == (W * W + p * Q) * W * V
<1>1. A \in Nat
  <2>1. W * W \in Nat
    OBVIOUS
  <2> DEFINE x == W * W
  <2> HIDE DEF x
  <2>2. x * V \in Nat
    BY <2>1 DEF x
  <2> QED
    BY <2>2 DEF x
<1>2. B \in Nat
  <2>1. p * Q \in Nat
    OBVIOUS
  <2> DEFINE x == p * Q
  <2> HIDE DEF x
  <2>2. x * W \in Nat
    BY <2>1 DEF x
  <2> QED
    BY <2>2 DEF x
<1>3. num = A * S + B * R
  OBVIOUS
<1>4. a * den = A * (a * W) + B * (a * V)
  OBVIOUS
<1> HIDE DEF A, B, num, den
<1>5. a * W \in Int /\ a * V \in Int
  OBVIOUS
<1> DEFINE x == a * W
           y == a * V
<1> HIDE DEF x, y
<1>6. a * den = A * x + B * y /\ x \in Int /\ y \in Int
  BY <1>4, <1>5 DEF x, y
<1>7. ASSUME x <= S, y <= R PROVE a * den <= num
  <2>1. A * x <= A * S /\ B * y <= B * R /\ A * x \in Int /\ A * S \in Int /\ B * y \in Int /\ B * R \in Int
    BY <1>1, <1>2, <1>6, <1>7, ProductsGrow
  <2> QED
    BY <1>3, <1>6, <2>1
<1>8. ASSUME S <= x, R <= y PROVE num <= a * den
  <2>1. A * S <= A * x /\ B * R <= B * y /\ A * x \in Int /\ A * S \in Int /\ B * y \in Int /\ B * R \in Int
    BY <1>1, <1>2, <1>6, <1>8, ProductsGrow
  <2> QED
    BY <1>3, <1>6, <2>1
<1> QED
  BY <1>7, <1>8 DEF num, den, x, y

\* The weights of some observations, their counts, and both together.
WeightsIn(special, cutoff, set) == [o \in set |-> Recency[special][cutoff - o.date]]
CountIn(o) == IF o.total = None THEN Imputed ELSE o.total
WeighedIn(special, cutoff, set) == [o \in set |-> Recency[special][cutoff - o.date] * CountIn(o)]
SquaredIn(special, cutoff, set) ==
    [o \in set |-> Recency[special][cutoff - o.date] * Recency[special][cutoff - o.date]]
Deep(buckets) == {i \in DOMAIN buckets : Cardinality(buckets[i]) >= MinBucket}
DepthIn(buckets) == IF Deep(buckets) # {} THEN Min(Deep(buckets)) ELSE Len(buckets)
CoarserIn(buckets) == {i \in DOMAIN buckets : i > DepthIn(buckets) /\ buckets[i] # {}}

LEMMA PoolingIs ==
    ASSUME NEW buckets, NEW cutoff, NEW special, NEW own, NEW parent,
           own = buckets[DepthIn(buckets)], parent = buckets[Min(CoarserIn(buckets))],
           NEW e, e = Pooling(buckets, cutoff, special)
    PROVE  LET W == SumFunction(WeightsIn(special, cutoff, own))
               S == SumFunction(WeighedIn(special, cutoff, own))
               Q == SumFunction(SquaredIn(special, cutoff, own))
               V == SumFunction(WeightsIn(special, cutoff, parent))
               R == SumFunction(WeighedIn(special, cutoff, parent))
           IN  /\ e.num = IF CoarserIn(buckets) = {} \/ Prior = 0 THEN S
                          ELSE W * W * S * V + Prior * Q * R * W
               /\ e.den = IF CoarserIn(buckets) = {} \/ Prior = 0 THEN W
                          ELSE (W * W + Prior * Q) * W * V
<1> DEFINE W == SumFunction(WeightsIn(special, cutoff, own))
           S == SumFunction(WeighedIn(special, cutoff, own))
           Q == SumFunction(SquaredIn(special, cutoff, own))
           V == SumFunction(WeightsIn(special, cutoff, parent))
           R == SumFunction(WeighedIn(special, cutoff, parent))
           num == IF CoarserIn(buckets) = {} \/ Prior = 0 THEN S
                  ELSE W * W * S * V + Prior * Q * R * W
           den == IF CoarserIn(buckets) = {} \/ Prior = 0 THEN W
                  ELSE (W * W + Prior * Q) * W * V
<1>1. Pooling(buckets, cutoff, special) =
          [depth |-> DepthIn(buckets), n |-> Cardinality(own),
           masked |-> Cardinality({o \in own : o.total = None}), num |-> num, den |-> den]
  BY Zenon DEF Pooling, Total, WeightsIn, WeighedIn, SquaredIn, CountIn, Deep, DepthIn, CoarserIn
<1> HIDE DEF num, den
<1>2. e.num = num /\ e.den = den
  BY <1>1
<1> QED
  BY <1>2 DEF num, den

\* One sequence after another.
LEMMA JoinsAre ==
    ASSUME NEW S, NEW s \in Seq(S), NEW t \in Seq(S)
    PROVE  /\ s \o t \in Seq(S) /\ Len(s \o t) = Len(s) + Len(t)
           /\ \A i \in 1..Len(s) + Len(t) : (s \o t)[i] = IF i <= Len(s) THEN s[i] ELSE t[i - Len(s)]
  OBVIOUS

\* A sequence and one more.
LEMMA OneMore ==
    ASSUME NEW S, NEW s \in Seq(S), NEW x \in S
    PROVE  /\ s \o <<x>> \in Seq(S) /\ Len(s \o <<x>>) = Len(s) + 1
           /\ (s \o <<x>>)[Len(s) + 1] = x
           /\ \A i \in 1..Len(s) : (s \o <<x>>)[i] = s[i]
<1>1. <<x>> \in Seq(S) /\ Len(<<x>>) = 1 /\ <<x>>[1] = x
  OBVIOUS
<1> DEFINE t == <<x>>
<1>2. t \in Seq(S) /\ Len(t) = 1 /\ t[1] = x
  BY <1>1
<1> HIDE DEF t
<1>3. /\ s \o t \in Seq(S) /\ Len(s \o t) = Len(s) + Len(t)
      /\ \A i \in 1..Len(s) + Len(t) : (s \o t)[i] = IF i <= Len(s) THEN s[i] ELSE t[i - Len(s)]
  BY <1>2, JoinsAre
<1>4. Len(s) \in Nat
  OBVIOUS
<1>5. (Len(s) + 1) - Len(s) = 1 /\ ~(Len(s) + 1 <= Len(s)) /\ Len(s) + 1 \in 1..Len(s) + Len(t)
  BY <1>2, <1>4
<1>6. (s \o t)[Len(s) + 1] = x
  BY <1>2, <1>3, <1>5
<1>7. \A i \in 1..Len(s) : (s \o t)[i] = s[i]
  BY <1>2, <1>3, <1>4
<1>8. Len(s \o t) = Len(s) + 1 /\ s \o t \in Seq(S)
  BY <1>2, <1>3
<1> QED
  BY <1>6, <1>7, <1>8 DEF t

\* Some parts of a set and then the whole of it.
LEMMA SetsThenAll ==
    ASSUME NEW all, NEW t \in Seq(SUBSET all), Len(t) \in {2, 3},
           NEW buckets, buckets = t \o <<all>>
    PROVE  /\ DOMAIN buckets \in {1..3, 1..4} /\ DOMAIN buckets = 1..Len(buckets) /\ Len(buckets) \in Nat
           /\ \A i \in DOMAIN buckets : buckets[i] \subseteq all
           /\ buckets[Len(buckets)] = all
<1> DEFINE P == SUBSET all
<1>1. t \in Seq(P) /\ all \in P
  OBVIOUS
<1> HIDE DEF P
<1>2. /\ buckets \in Seq(P) /\ Len(buckets) = Len(t) + 1
      /\ buckets[Len(t) + 1] = all
  BY <1>1, OneMore
<1>3. /\ Len(buckets) \in {3, 4} /\ DOMAIN buckets = 1..Len(buckets)
      /\ \A i \in DOMAIN buckets : buckets[i] \in P
  BY <1>2
<1>4. DOMAIN buckets \in {1..3, 1..4}
  <2>1. CASE Len(buckets) = 3
    BY <1>3, <2>1, Zenon
  <2>2. CASE Len(buckets) = 4
    BY <1>3, <2>2, Zenon
  <2> QED
    BY <1>3, <2>1, <2>2, Zenon
<1>5. buckets[Len(buckets)] = all
  BY <1>2
<1> QED
  BY <1>3, <1>4, <1>5 DEF P

\* The buckets hold what they are made from, and the last one all of it.
LEMMA BucketsAre ==
    ASSUME NEW all, NEW target, NEW holidays, NEW special,
           NEW buckets, buckets = Buckets(all, target, holidays, special)
    PROVE  /\ DOMAIN buckets \in {1..3, 1..4} /\ DOMAIN buckets = 1..Len(buckets) /\ Len(buckets) \in Nat
           /\ \A i \in DOMAIN buckets : buckets[i] \subseteq all
           /\ buckets[Len(buckets)] = all
<1> DEFINE type(d) == DayType(d, holidays)
           nominal == IF Weekday(target) <= 5 THEN "working_day"
                      ELSE IF Weekday(target) = 6 THEN "saturday" ELSE "sunday"
           ofType(set, t) == {o \in set : type(o.date) = t}
           sameDay == {o \in all : Weekday(o.date) = Weekday(target)}
           A == ofType(sameDay, type(target))
           B == ofType(all, type(target))
           C == ofType(sameDay, nominal)
<1>1. buckets = <<A, B>> \o (IF special THEN <<C>> ELSE <<>>) \o <<all>>
  BY Zenon DEF Buckets
<1>2. A \subseteq all /\ B \subseteq all /\ C \subseteq all
  OBVIOUS
<1> HIDE DEF A, B, C
<1> DEFINE s == <<A, B>>
           P == SUBSET all
<1>3. /\ s \in Seq(P) /\ Len(s) = 2 /\ A \in P /\ B \in P /\ C \in P /\ all \in P
  BY <1>2
<1>4. \E t \in Seq(SUBSET all) : Len(t) \in {2, 3} /\ buckets = t \o <<all>>
  <2>1. CASE special
    <3> DEFINE t == s \o <<C>>
    <3>1. buckets = t \o <<all>>
      BY <1>1, <2>1, Zenon DEF s
    <3> HIDE DEF s, P
    <3>2. t \in Seq(P) /\ Len(t) = Len(s) + 1
      BY <1>3, OneMore
    <3>3. Len(t) = 3
      BY <1>3, <3>2
    <3> HIDE DEF t
    <3>4. t \in Seq(SUBSET all) 
      BY <3>2 DEF P
    <3> QED
      BY <3>1, <3>3, <3>4
  <2>2. CASE ~special
    <3>1. buckets = (s \o <<>>) \o <<all>>
      BY <1>1, <2>2, Zenon DEF s
    <3> HIDE DEF s, P
    <3>2. s \o <<>> = s
      BY <1>3
    <3>3. s \in Seq(SUBSET all)
      BY <1>3 DEF P
    <3> QED
      BY <1>3, <3>1, <3>2, <3>3
  <2> QED
    BY <2>1, <2>2
<1> HIDE DEF s, P
<1>5. PICK t \in Seq(SUBSET all) : Len(t) \in {2, 3} /\ buckets = t \o <<all>>
  BY <1>4
<1> QED
  BY <1>5, SetsThenAll

\* The sums of a bucket.
LEMMA BucketsLieBetween ==
    ASSUME NEW special \in BOOLEAN, NEW cutoff \in Int, NEW lo \in Int, NEW hi \in Int,
           NEW set, IsFiniteSet(set), set # {},
           \A o \in set : /\ Recency[special][cutoff - o.date] \in Nat \ {0}
                          /\ CountIn(o) \in lo..hi
    PROVE  LET W == SumFunction(WeightsIn(special, cutoff, set))
               S == SumFunction(WeighedIn(special, cutoff, set))
               Q == SumFunction(SquaredIn(special, cutoff, set))
           IN  /\ W \in Nat \ {0} /\ S \in Int /\ Q \in Nat
               /\ lo * W <= S /\ S <= hi * W
<1> DEFINE w == WeightsIn(special, cutoff, set)
           f == WeighedIn(special, cutoff, set)
           q == SquaredIn(special, cutoff, set)
           v == [o \in set |-> CountIn(o)]
<1>1. \A o \in set : /\ w[o] = Recency[special][cutoff - o.date] /\ v[o] = CountIn(o)
                     /\ f[o] = Recency[special][cutoff - o.date] * CountIn(o)
                     /\ q[o] = Recency[special][cutoff - o.date] * Recency[special][cutoff - o.date]
  BY DEF WeightsIn, WeighedIn, SquaredIn
<1>2. DOMAIN w = set /\ DOMAIN f = set /\ DOMAIN q = set
  BY DEF WeightsIn, WeighedIn, SquaredIn
<1>3. /\ SumFunction(w) = SumFunctionOnSet(w, set)
      /\ SumFunction(f) = SumFunctionOnSet(f, set)
      /\ SumFunction(q) = SumFunctionOnSet(q, set)
  BY <1>2, TotalIs
<1> HIDE DEF w, f, q, v
<1>4. \A o \in set : q[o] \in Nat
  <2> SUFFICES ASSUME NEW o \in set PROVE q[o] \in Nat
    OBVIOUS
  <2>1. w[o] \in Int /\ q[o] = w[o] * w[o]
    BY <1>1
  <2> QED
    BY <2>1, SquaresAreNatural
<1>5. SumFunctionOnSet(q, set) \in Nat
  BY <1>4, SumIsPositive
<1>6. Weighs(f, w, v, set)
  BY <1>1 DEF Weighs
<1>7. (\A o \in set : w[o] \in Nat \ {0}) /\ (\A o \in set : v[o] \in lo..hi)
  BY <1>1
<1> DEFINE W == SumFunctionOnSet(w, set)
<1>8. /\ W \in Nat \ {0} /\ SumFunctionOnSet(f, set) \in Int
      /\ lo * W <= SumFunctionOnSet(f, set) /\ SumFunctionOnSet(f, set) <= hi * W
  BY <1>6, <1>7, MeansLieBetween
<1> QED
  BY <1>3, <1>5, <1>8 DEF w, f, q

\* A baseline says what the days before its cutoff say, and lies within the counts
\* it is made of (estimate_temporal_baseline_shadow).
THEOREM BaselinesLieWithinTheirCounts ==
    ASSUME NEW obs, IsFiniteSet(obs),
           \A o \in obs : o.date \in Int /\ (o.total = None \/ o.total \in Int),
           NEW target \in Int, NEW cutoff \in Int, NEW holidays
    PROVE  BaselineIsFromBefore(obs, target, cutoff, holidays)
<1> DEFINE longest == Max({Window, SpecialWindow})
           past == {o \in obs : o.date < cutoff /\ o.date >= cutoff - longest}
           values == {IF o.total = None THEN Imputed ELSE o.total : o \in past}
           e == TemporalBaseline(obs, target, cutoff, holidays)
<1> SUFFICES ASSUME e # Refused
             PROVE  /\ TemporalBaseline(past, target, cutoff, holidays) = e
                    /\ e.depth # None => /\ Min(values) * e.den <= e.num
                                         /\ e.num <= Max(values) * e.den
  BY Zenon DEF BaselineIsFromBefore
<1>1. TemporalBaseline(past, target, cutoff, holidays) = e
  <2>1. \A o \in obs : o.date \in Int
    OBVIOUS
  <2>2. past = InWindow(obs, cutoff)
    BY Zenon DEF InWindow
  <2> HIDE DEF past
  <2> QED
    BY <2>1, <2>2, BaselinesAreOfTheWindow
<1> SUFFICES ASSUME e.depth # None
             PROVE  Min(values) * e.den <= e.num /\ e.num <= Max(values) * e.den
  BY <1>1
<1> DEFINE special == DayType(target, holidays) \in {"public_holiday", "long_holiday"}
           window == IF special THEN SpecialWindow ELSE Window
           all == Eligible(obs, cutoff, window)
           none == [depth |-> None, n |-> 0, masked |-> 0, num |-> None, den |-> 1]
           buckets == Buckets(all, target, holidays, special)
           lo == Min(values)
           hi == Max(values)
<1>2. all # {} /\ e = Pooling(buckets, cutoff, special)
  <2> DEFINE wrong == cutoff > target \/ \E a, b \in obs : a # b /\ a.date = b.date
  <2>1. e = IF wrong THEN Refused ELSE IF all = {} THEN none ELSE Pooling(buckets, cutoff, special)
    BY Zenon DEF TemporalBaseline
  <2>2. none.depth = None
    OBVIOUS
  <2> HIDE DEF wrong, all, none, buckets, e
  <2> QED
    BY <2>1, <2>2
<1>3. /\ longest \in Int /\ Window <= longest /\ SpecialWindow <= longest
      /\ window \in Nat /\ window <= longest
  <2>1. longest \in Int /\ Window <= longest /\ SpecialWindow <= longest
    BY LongestIs
  <2>2. window \in {Window, SpecialWindow} /\ Window \in Nat /\ SpecialWindow \in Nat
    BY BacktestAssumption
  <2> HIDE DEF longest, window
  <2> QED
    BY <2>1, <2>2
<1>4. \A o \in all : o \in past /\ cutoff - o.date \in 1..window
  BY <1>3 DEF Eligible
<1>5. special \in BOOLEAN /\ \A o \in all : Recency[special][cutoff - o.date] \in Nat \ {0}
  <2>1. special \in BOOLEAN
    OBVIOUS
  <2>2. \A age \in 1..window : Recency[special][age] \in Nat \ {0}
    BY <2>1, BacktestAssumption
  <2> QED
    BY <1>4, <2>1, <2>2
<1>6. IsFiniteSet(all) /\ IsFiniteSet(past)
  <2>1. all \in SUBSET obs /\ past \in SUBSET obs
    BY DEF Eligible
  <2> QED
    BY <2>1, FS_Subset
<1>7. values \in SUBSET Int /\ IsFiniteSet(values) /\ \A o \in past : CountIn(o) \in values
  <2> DEFINE c == [o \in past |-> CountIn(o)]
  <2>1. \A o \in past : c[o] \in Int
    BY BacktestAssumption DEF CountIn
  <2>2. values = {c[o] : o \in past}
    BY DEF CountIn
  <2>3. \A o \in past : CountIn(o) = c[o]
    OBVIOUS
  <2> HIDE DEF c, past, values
  <2> QED
    BY <1>6, <2>1, <2>2, <2>3, ImagesAreFinite
<1>8. values # {}
  BY <1>2, <1>4, <1>7
<1> HIDE DEF values, past, window, special, longest, e, all
<1>9. /\ lo \in Int /\ hi \in Int /\ \A i \in values : i \in lo..hi
  <2>1. /\ Min(values) \in values /\ Max(values) \in values
        /\ \A i \in values : Min(values) <= i /\ i <= Max(values)
    BY <1>7, <1>8, Extremes
  <2>2. lo \in values /\ hi \in values /\ \A i \in values : lo <= i /\ i <= hi
    BY <2>1
  <2> HIDE DEF lo, hi
  <2> QED
    BY <1>7, <2>2
<1>10. \A o \in all : CountIn(o) \in lo..hi
  BY <1>4, <1>7, <1>9
<1>11. /\ DOMAIN buckets \in {1..3, 1..4} /\ DOMAIN buckets = 1..Len(buckets) /\ Len(buckets) \in Nat
       /\ \A i \in DOMAIN buckets : buckets[i] \subseteq all
       /\ buckets[Len(buckets)] = all
  BY BucketsAre
<1> HIDE DEF lo, hi, buckets
<1>12. ASSUME NEW set, set \subseteq all, set # {}
       PROVE  LET W == SumFunction(WeightsIn(special, cutoff, set))
                  S == SumFunction(WeighedIn(special, cutoff, set))
                  Q == SumFunction(SquaredIn(special, cutoff, set))
              IN  /\ W \in Nat \ {0} /\ S \in Int /\ Q \in Nat
                  /\ lo * W <= S /\ S <= hi * W
  <2>1. /\ IsFiniteSet(set)
        /\ \A o \in set : /\ Recency[special][cutoff - o.date] \in Nat \ {0}
                          /\ CountIn(o) \in lo..hi
    BY <1>5, <1>6, <1>10, <1>12, FS_Subset
  <2> QED
    BY <1>5, <1>9, <1>12, <2>1, BucketsLieBetween
<1> DEFINE own == buckets[DepthIn(buckets)]
           parent == buckets[Min(CoarserIn(buckets))]
<1>13. own \subseteq all /\ own # {}
  <2>1. CASE Deep(buckets) # {}
    <3>1. Deep(buckets) \in SUBSET Int /\ IsFiniteSet(Deep(buckets))
      <4>1. Deep(buckets) \subseteq 1..Len(buckets)
        BY <1>11 DEF Deep
      <4>2. IsFiniteSet(1..Len(buckets))
        BY <1>11, FS_Interval
      <4> QED
        BY <1>11, <4>1, <4>2, FS_Subset
    <3>2. Min(Deep(buckets)) \in Deep(buckets)
      BY <2>1, <3>1, Extremes
    <3>3. own \subseteq all /\ Cardinality(own) >= MinBucket
      BY <1>11, <2>1, <3>2 DEF DepthIn, Deep
    <3>4. Cardinality({}) = 0 /\ MinBucket \in Nat \ {0}
      BY FS_EmptySet, BacktestAssumption
    <3> QED
      BY <3>3, <3>4
  <2>2. CASE Deep(buckets) = {}
    BY <1>2, <1>11, <2>2 DEF DepthIn
  <2> QED
    BY <2>1, <2>2
<1>14. CoarserIn(buckets) # {} => parent \subseteq all /\ parent # {}
  <2> SUFFICES ASSUME CoarserIn(buckets) # {} PROVE parent \subseteq all /\ parent # {}
    OBVIOUS
  <2>1. CoarserIn(buckets) \in SUBSET Int /\ IsFiniteSet(CoarserIn(buckets))
    <3>1. CoarserIn(buckets) \subseteq 1..Len(buckets)
      BY <1>11 DEF CoarserIn
    <3>2. IsFiniteSet(1..Len(buckets))
      BY <1>11, FS_Interval
    <3> QED
      BY <1>11, <3>1, <3>2, FS_Subset
  <2>2. Min(CoarserIn(buckets)) \in CoarserIn(buckets)
    BY <2>1, Extremes
  <2> QED
    BY <1>11, <2>2 DEF CoarserIn
<1> DEFINE W == SumFunction(WeightsIn(special, cutoff, own))
           S == SumFunction(WeighedIn(special, cutoff, own))
           Q == SumFunction(SquaredIn(special, cutoff, own))
           V == SumFunction(WeightsIn(special, cutoff, parent))
           R == SumFunction(WeighedIn(special, cutoff, parent))
<1>15. /\ e.num = IF CoarserIn(buckets) = {} \/ Prior = 0 THEN S
                  ELSE W * W * S * V + Prior * Q * R * W
       /\ e.den = IF CoarserIn(buckets) = {} \/ Prior = 0 THEN W
                  ELSE (W * W + Prior * Q) * W * V
  BY <1>2, PoolingIs
<1>16. W \in Nat \ {0} /\ S \in Int /\ Q \in Nat /\ lo * W <= S /\ S <= hi * W
  BY <1>12, <1>13
<1>17. CoarserIn(buckets) # {} => V \in Nat \ {0} /\ R \in Int /\ lo * V <= R /\ R <= hi * V
  BY <1>12, <1>14
<1> HIDE DEF W, S, Q, V, R, own, parent
<1>18. lo * e.den <= e.num /\ e.num <= hi * e.den
  <2>1. CASE CoarserIn(buckets) = {} \/ Prior = 0
    BY <1>15, <1>16, <2>1
  <2>2. CASE ~(CoarserIn(buckets) = {} \/ Prior = 0)
    <3> DEFINE num == W * W * S * V + Prior * Q * R * W
               den == (W * W + Prior * Q) * W * V
    <3>1. e.num = num /\ e.den = den
      BY <1>15, <2>2
    <3>2. V \in Nat \ {0} /\ R \in Int /\ lo * V <= R /\ R <= hi * V /\ Prior \in Nat
      BY <1>17, <2>2, BacktestAssumption
    <3>3. lo * den <= num
      BY <1>9, <1>16, <3>2, PoolsLieBetween
    <3>4. num <= hi * den
      BY <1>9, <1>16, <3>2, PoolsLieBetween
    <3> HIDE DEF num, den
    <3> QED
      BY <3>1, <3>3, <3>4
  <2> QED
    BY <2>1, <2>2
<1> QED
  BY <1>18 DEF lo, hi

\* A lag falls into the first bucket whose edge it does not pass.
LEMMA LagsFallIntoTheirBucket ==
    ASSUME NEW lag \in Int, NEW b, b = LagBucket(lag)
    PROVE  /\ b > 1 => LagEdges[b - 1] < lag
           /\ b <= Len(LagEdges) => lag <= LagEdges[b]
<1> DEFINE n == Len(LagEdges)
           S == {i \in DOMAIN LagEdges : lag <= LagEdges[i]}
           B == S \cup {n + 1}
<1>1. n \in Nat /\ DOMAIN LagEdges = 1..n /\ \A i \in 1..n : LagEdges[i] \in Int
  BY BacktestAssumption
<1>2. b = Min(B)
  BY Zenon DEF LagBucket
<1>3. B \in SUBSET (1..n + 1) /\ B \in SUBSET Int /\ B # {}
  BY <1>1
<1>4. IsFiniteSet(B)
  <2>1. IsFiniteSet(1..n + 1)
    BY <1>1, FS_Interval
  <2> QED
    BY <1>3, <2>1, FS_Subset
<1>5. \A i \in B : i \in S \/ i = n + 1
  OBVIOUS
<1>6. \A i \in 1..n : lag <= LagEdges[i] => i \in B
  BY <1>1
<1>7. \A i \in S : i \in 1..n /\ lag <= LagEdges[i]
  BY <1>1
<1> HIDE DEF S, B, n
<1>8. b \in B /\ \A i \in B : b <= i
  BY <1>2, <1>3, <1>4, Extremes
<1>9. b \in 1..n + 1
  BY <1>3, <1>8
<1>10. ASSUME b > 1 PROVE LagEdges[b - 1] < lag
  <2>1. b - 1 \in 1..n /\ ~(b <= b - 1)
    BY <1>1, <1>9, <1>10
  <2>2. ~(lag <= LagEdges[b - 1])
    BY <1>6, <1>8, <2>1
  <2> QED
    BY <1>1, <2>1, <2>2
<1>11. ASSUME b <= n PROVE lag <= LagEdges[b]
  BY <1>1, <1>5, <1>7, <1>8, <1>9, <1>11
<1> QED
  BY <1>10, <1>11 DEF n

\* The members of a set, counted by kind, are as many as the set has.
CountsKinds(h, kind, T, K) == \A k \in K : h[k] = Cardinality({x \in T : kind[x] = k})

LEMMA KindsAreCounted ==
    ASSUME NEW T, IsFiniteSet(T), NEW K, IsFiniteSet(K), NEW kind, \A x \in T : kind[x] \in K,
           NEW h, CountsKinds(h, kind, T, K)
    PROVE  SumFunctionOnSet(h, K) = Cardinality(T)
<1> DEFINE f == [x \in T |-> 1]
<1>1. \A x \in T : f[x] = 1 /\ f[x] \in Int
  OBVIOUS
<1> HIDE DEF f
<1>2. SumsKinds(h, f, kind, T, K)
  <2> SUFFICES ASSUME NEW k \in K PROVE h[k] = SumFunctionOnSet(f, {x \in T : kind[x] = k})
    BY DEF SumsKinds
  <2> DEFINE A == {x \in T : kind[x] = k}
  <2>1. A \in SUBSET T /\ IsFiniteSet(A)
    BY FS_Subset
  <2>2. h[k] = Cardinality(A)
    BY DEF CountsKinds
  <2> HIDE DEF A
  <2>3. \A x \in A : f[x] = 1
    BY <1>1, <2>1
  <2>4. SumFunctionOnSet(f, A) = Cardinality(A)
    BY <2>1, <2>3, SumOfOnes
  <2> QED
    BY <2>2, <2>4 DEF A
<1>3. SumFunctionOnSet(h, K) = SumFunctionOnSet(f, T)
  BY <1>1, <1>2, SumOfKinds
<1>4. SumFunctionOnSet(f, T) = Cardinality(T)
  BY <1>1, SumOfOnes
<1> QED
  BY <1>3, <1>4

\* What a stratum counts of each field.
Groups(samples) == {GroupOf(samples, o) : o \in DOMAIN samples}
Ending(samples, gs, outcome) == {g \in gs : HotspotDays(samples)[g] = outcome}
Belonging(samples, gs) == {o \in DOMAIN samples : GroupOf(samples, o) \in gs}

LEMMA StratumIs ==
    ASSUME NEW samples, NEW gs
    PROVE  /\ Stratum(samples, gs).groups = Cardinality(gs)
           /\ Stratum(samples, gs).wins = Cardinality(Ending(samples, gs, "win"))
           /\ Stratum(samples, gs).ties = Cardinality(Ending(samples, gs, "tie"))
           /\ Stratum(samples, gs).losses = Cardinality(Ending(samples, gs, "loss"))
           /\ Stratum(samples, gs).samples = Cardinality(Belonging(samples, gs))
  BY Zenon DEF Stratum, Ending, Belonging

\* The strata of the hotspots, or of the days.
StrataOf(samples, side) ==
    [k \in {g[side] : g \in Groups(samples)} |->
        Stratum(samples, {g \in Groups(samples) : g[side] = k})]

LEMMA HybridIs ==
    ASSUME NEW samples
    PROVE  /\ DOMAIN HotspotDays(samples) = Groups(samples)
           /\ Hybrid(samples).all = Stratum(samples, Groups(samples))
           /\ Hybrid(samples).hotspots = StrataOf(samples, 1)
           /\ Hybrid(samples).days = StrataOf(samples, 2)
           /\ Hybrid(samples).wape = Wape(samples, DOMAIN samples, "nowcast")
<1>1. DOMAIN HotspotDays(samples) = Groups(samples)
  BY Zenon DEF HotspotDays, Groups
<1> QED
  BY <1>1, Zenon DEF Hybrid, StrataOf

\* The groups are finitely many, and all samples belong to them.
LEMMA GroupsAre ==
    ASSUME NEW samples, IsFiniteSet(DOMAIN samples)
    PROVE  /\ IsFiniteSet(Groups(samples))
           /\ Belonging(samples, Groups(samples)) = DOMAIN samples
           /\ \A side \in {1, 2} : IsFiniteSet({g[side] : g \in Groups(samples)})
<1> DEFINE m == [o \in DOMAIN samples |-> GroupOf(samples, o)]
<1>1. Groups(samples) = {m[o] : o \in DOMAIN samples}
  BY DEF Groups
<1>2. IsFiniteSet({m[o] : o \in DOMAIN samples})
  <2> HIDE DEF m
  <2> QED
    BY ImagesAreFinite
<1>3. IsFiniteSet(Groups(samples))
  BY <1>1, <1>2
<1>4. ASSUME NEW side \in {1, 2} PROVE IsFiniteSet({g[side] : g \in Groups(samples)})
  <2> DEFINE G == Groups(samples)
             p == [g \in G |-> g[side]]
  <2>1. {g[side] : g \in G} = {p[g] : g \in G}
    OBVIOUS
  <2> HIDE DEF G, p
  <2>2. IsFiniteSet({p[g] : g \in G})
    BY <1>3, ImagesAreFinite DEF G
  <2> QED
    BY <2>1, <2>2 DEF G
<1>5. Belonging(samples, Groups(samples)) = DOMAIN samples
  BY Zenon DEF Belonging, Groups
<1> QED
  BY <1>3, <1>4, <1>5

\* The strata add up to the whole.
LEMMA StrataAddUp ==
    ASSUME NEW samples, IsFiniteSet(DOMAIN samples), NEW side \in {1, 2},
           NEW field \in {"groups", "wins", "ties", "losses", "samples"},
           NEW strata, strata = StrataOf(samples, side)
    PROVE  SumFunction([k \in DOMAIN strata |-> strata[k][field]])
               = Stratum(samples, Groups(samples))[field]
<1> DEFINE G == Groups(samples)
           K == {g[side] : g \in G}
           part(k) == {g \in G : g[side] = k}
           h == [k \in DOMAIN strata |-> strata[k][field]]
<1>1. DOMAIN strata = K /\ \A k \in K : strata[k] = Stratum(samples, part(k))
  BY Zenon DEF StrataOf
<1>2. DOMAIN h = K /\ \A k \in K : h[k] = Stratum(samples, part(k))[field]
  BY <1>1
<1>3. IsFiniteSet(G) /\ IsFiniteSet(K) /\ Belonging(samples, G) = DOMAIN samples
  BY GroupsAre
<1>4. \A g \in G : g[side] \in K
  OBVIOUS
<1>5. \A k : \A g : g \in part(k) <=> g \in G /\ g[side] = k
  OBVIOUS
<1>6. \A o \in DOMAIN samples : GroupOf(samples, o) \in G
  BY DEF Groups
<1> DEFINE Goal == SumFunctionOnSet(h, K) = Stratum(samples, G)[field]
<1> HIDE DEF G, K, h, part
<1>7. ASSUME NEW T, T \in SUBSET G, Stratum(samples, G)[field] = Cardinality(T),
             \A k \in K : Stratum(samples, part(k))[field] = Cardinality(T \cap part(k))
      PROVE  Goal
  <2> DEFINE kind == [g \in T |-> g[side]]
  <2>1. \A g \in T : kind[g] = g[side] /\ kind[g] \in K
    BY <1>4, <1>7
  <2>2. IsFiniteSet(T)
    BY <1>3, <1>7, FS_Subset
  <2> HIDE DEF kind
  <2>3. \A k \in K : T \cap part(k) = {g \in T : kind[g] = k}
    BY <1>5, <1>7, <2>1
  <2>4. CountsKinds(h, kind, T, K)
    BY <1>2, <1>7, <2>3 DEF CountsKinds
  <2>5. SumFunctionOnSet(h, K) = Cardinality(T)
    BY <1>3, <2>1, <2>2, <2>4, KindsAreCounted
  <2> QED
    BY <1>7, <2>5
<1>8. ASSUME field = "groups" PROVE Goal
  <2>1. \A k \in K : Stratum(samples, part(k)).groups = Cardinality(G \cap part(k))
    <3> SUFFICES ASSUME NEW k \in K
                 PROVE  Stratum(samples, part(k)).groups = Cardinality(G \cap part(k))
      OBVIOUS
    <3>1. G \cap part(k) = part(k)
      BY <1>5
    <3>2. Stratum(samples, part(k)).groups = Cardinality(part(k))
      BY StratumIs
    <3> QED
      BY <3>1, <3>2
  <2>2. Stratum(samples, G).groups = Cardinality(G)
    BY StratumIs
  <2> HIDE DEF Goal
  <2> QED
    BY <1>7, <1>8, <2>1, <2>2
<1>9. ASSUME NEW outcome,
             \A gs : Stratum(samples, gs)[field] = Cardinality(Ending(samples, gs, outcome))
      PROVE  Goal
  <2> DEFINE T == Ending(samples, G, outcome)
  <2>1. T \in SUBSET G /\ \A k \in K : Ending(samples, part(k), outcome) = T \cap part(k)
    BY <1>5 DEF Ending
  <2> HIDE DEF T
  <2>2. \A k \in K : Stratum(samples, part(k))[field] = Cardinality(T \cap part(k))
    BY <1>9, <2>1
  <2>3. Stratum(samples, G)[field] = Cardinality(T)
    BY <1>9 DEF T
  <2> HIDE DEF Goal
  <2> QED
    BY <1>7, <2>1, <2>2, <2>3
<1>10. ASSUME field = "samples" PROVE Goal
  <2> DEFINE T == DOMAIN samples
             kind == [o \in T |-> GroupOf(samples, o)[side]]
  <2>1. \A o \in T : kind[o] = GroupOf(samples, o)[side] /\ kind[o] \in K
    BY <1>4, <1>6
  <2> HIDE DEF kind
  <2>2. \A k \in K : h[k] = Cardinality({o \in T : kind[o] = k})
    <3> SUFFICES ASSUME NEW k \in K PROVE h[k] = Cardinality({o \in T : kind[o] = k})
      OBVIOUS
    <3>1. h[k] = Cardinality(Belonging(samples, part(k)))
      BY <1>2, <1>10, StratumIs
    <3>2. Belonging(samples, part(k)) = {o \in T : kind[o] = k}
      BY <1>5, <1>6, <2>1 DEF Belonging
    <3> QED
      BY <3>1, <3>2
  <2>0. CountsKinds(h, kind, T, K)
    BY <2>2, Zenon DEF CountsKinds
  <2> HIDE DEF T
  <2>3. SumFunctionOnSet(h, K) = Cardinality(T)
    <3>1. IsFiniteSet(T)
      BY DEF T
    <3> QED
      BY <1>3, <2>0, <2>1, <3>1, KindsAreCounted
  <2>4. Stratum(samples, G)[field] = Cardinality(T)
    <3>1. Stratum(samples, G).samples = Cardinality(Belonging(samples, G))
      BY StratumIs
    <3> QED
      BY <1>3, <1>10, <3>1 DEF T
  <2> QED
    BY <2>3, <2>4 DEF Goal
<1> HIDE DEF Goal
<1>11. ASSUME field = "wins" PROVE Goal
  <2>1. \A gs : Stratum(samples, gs).wins = Cardinality(Ending(samples, gs, "win"))
    BY StratumIs
  <2>2. \A gs : Stratum(samples, gs)[field] = Cardinality(Ending(samples, gs, "win"))
    BY <1>11, <2>1
  <2> QED
    BY <1>9, <2>2
<1>12. ASSUME field = "ties" PROVE Goal
  <2>1. \A gs : Stratum(samples, gs).ties = Cardinality(Ending(samples, gs, "tie"))
    BY StratumIs
  <2>2. \A gs : Stratum(samples, gs)[field] = Cardinality(Ending(samples, gs, "tie"))
    BY <1>12, <2>1
  <2> QED
    BY <1>9, <2>2
<1>13. ASSUME field = "losses" PROVE Goal
  <2>1. \A gs : Stratum(samples, gs).losses = Cardinality(Ending(samples, gs, "loss"))
    BY StratumIs
  <2>2. \A gs : Stratum(samples, gs)[field] = Cardinality(Ending(samples, gs, "loss"))
    BY <1>13, <2>1
  <2> QED
    BY <1>9, <2>2
<1>14. Goal
  BY <1>8, <1>10, <1>11, <1>12, <1>13
<1>15. SumFunction(h) = SumFunctionOnSet(h, K)
  BY <1>2, TotalIs
<1> QED
  BY <1>14, <1>15 DEF Goal, h, G

\* Every group is won, tied or lost.
LEMMA OutcomesAddUp ==
    ASSUME NEW samples, IsFiniteSet(DOMAIN samples), NEW all, all = Stratum(samples, Groups(samples))
    PROVE  all.wins + all.ties + all.losses = all.groups
<1> DEFINE G == Groups(samples)
           of(r) == Ending(samples, G, r)
<1>1. IsFiniteSet(G) /\ DOMAIN HotspotDays(samples) = G
  BY GroupsAre, HybridIs
<1>2. \A g \in G : HotspotDays(samples)[g] \in {"win", "tie", "loss"}
  <2> SUFFICES ASSUME NEW g \in G PROVE HotspotDays(samples)[g] \in {"win", "tie", "loss"}
    OBVIOUS
  <2>1. HotspotDays(samples)[g] = Outcome(samples, {o \in DOMAIN samples : GroupOf(samples, o) = g})
    BY Zenon DEF HotspotDays, Groups
  <2>2. \A at : Outcome(samples, at) \in {"win", "tie", "loss"}
    BY Zenon DEF Outcome
  <2> QED
    BY <2>1, <2>2
<1>3. /\ G = (of("win") \cup of("tie")) \cup of("loss")
      /\ of("win") \cap of("tie") = {} /\ (of("win") \cup of("tie")) \cap of("loss") = {}
      /\ \A r : of(r) \in SUBSET G
  BY <1>2 DEF Ending
<1>4. \A r : IsFiniteSet(of(r))
  BY <1>1, <1>3, FS_Subset
<1> DEFINE W == of("win")
           D == of("tie")
           L == of("loss")
<1>5. /\ IsFiniteSet(W) /\ IsFiniteSet(D) /\ IsFiniteSet(L)
      /\ G = (W \cup D) \cup L /\ W \cap D = {} /\ (W \cup D) \cap L = {}
  BY <1>3, <1>4
<1>6. /\ all.wins = Cardinality(W) /\ all.ties = Cardinality(D) /\ all.losses = Cardinality(L)
      /\ all.groups = Cardinality(G)
  BY StratumIs
<1> HIDE DEF W, D, L, of, G
<1>7. /\ IsFiniteSet(W \cup D)
      /\ Cardinality(W \cup D) = Cardinality(W) + Cardinality(D) - Cardinality(W \cap D)
  BY <1>5, FS_Union
<1>8. Cardinality(G) = Cardinality(W \cup D) + Cardinality(L) - Cardinality((W \cup D) \cap L)
  BY <1>5, <1>7, FS_Union
<1>9. Cardinality(W) \in Nat /\ Cardinality(D) \in Nat /\ Cardinality(L) \in Nat /\ Cardinality({}) = 0
  BY <1>5, FS_CardinalityType, FS_EmptySet
<1>10. Cardinality(W \cap D) = 0 /\ Cardinality((W \cup D) \cap L) = 0
  BY <1>5, <1>9
<1> DEFINE w == Cardinality(W)
           d == Cardinality(D)
           l == Cardinality(L)
           both == Cardinality(W \cup D)
           g == Cardinality(G)
<1>11. w \in Nat /\ d \in Nat /\ l \in Nat /\ both = w + d - 0 /\ g = both + l - 0
  BY <1>7, <1>8, <1>9, <1>10
<1>12. all.wins = w /\ all.ties = d /\ all.losses = l /\ all.groups = g
  BY <1>6
<1> HIDE DEF w, d, l, both, g
<1> QED
  BY <1>11, <1>12

-----------------------------------------------------------------------------
(* Forecasts that repeat what was observed. *)

\* The snapshots a backtest is made of.
AsStored(s) ==
    /\ s.observed \in Int /\ s.fetched \in Int /\ s.level \in Int /\ s.lo \in Nat /\ s.hi \in Nat
    /\ s.forecast \in Seq(Point)
RepeatsItself(s) ==
    \A p \in Range(s.forecast) : p.level = s.level /\ p.lo = s.lo /\ p.hi = s.hi

\* Between a value and itself lies that value.
LEMMA MixOfTheSame ==
    ASSUME NEW x \in Int, NEW d \in Int, NEW t \in Int
    PROVE  x * d + t * (x - x) = d * x
<1>1. x - x = 0 /\ t * 0 = 0
  OBVIOUS
<1>2. x * d = d * x /\ d * x \in Int
  OBVIOUS
<1> QED
  BY <1>1, <1>2

\* Such a forecast says what was observed.
LEMMA NowcastRepeats ==
    ASSUME NEW s, AsStored(s), RepeatsItself(s), Refused \notin SUBSET Point, NEW t \in Int,
           NEW e, e = EstimateNowcast(s, t), e # None, e # Refused
    PROVE  /\ e.den \in Nat \ {0}
           /\ e.level = e.den * s.level /\ e.lo = e.den * s.lo /\ e.hi = e.den * s.hi
<1> DEFINE points == Range(s.forecast)
           usable == Usable(s, points)
           closest == Earliest(ClosestOf(s, points, t))
           a == Latest(EarlierOf(s, points, t))
           b == Earliest(LaterOf(s, points, t))
           exact == CHOOSE p \in usable : p.at = t
           Same(p) == p.at \in Int /\ p.level = s.level /\ p.lo = s.lo /\ p.hi = s.hi
<1>1. points \in SUBSET Point /\ Snapshot(s)
  BY DEF Range, Snapshot, AsStored
<1>2. Consistent(points)
  <2>1. CASE \E p, q \in points : p.at = q.at /\ p # q
    <3>1. ForecastPoints(s.forecast) = Refused
      BY <2>1, Zenon DEF ForecastPoints
    <3>2. e = Refused \/ e = None
      BY <3>1, Zenon DEF EstimateNowcast
    <3> QED
      BY <3>2
  <2> QED
    BY <1>1, <2>1, Zenon DEF Consistent
<1>3. e = NowcastFrom(s, points, t)
  BY <1>1, <1>2, NowcastIs
<1>4. \A p \in Anchors(s, points) : Same(p)
  <2>1. \A p \in points : Same(p)
    BY <1>1 DEF RepeatsItself, Point
  <2>2. Same([at |-> s.observed, level |-> s.level, lo |-> s.lo, hi |-> s.hi])
    BY DEF AsStored
  <2> HIDE DEF Same, points
  <2> QED
    BY <2>1, <2>2 DEF Anchors, Usable
<1>5. \A p \in usable : Same(p)
  <2>1. \A p \in usable : p \in Anchors(s, points)
    BY DEF Anchors
  <2> HIDE DEF Same, usable, points
  <2> QED
    BY <1>4, <2>1
<1>6. s.level \in Int /\ s.lo \in Int /\ s.hi \in Int /\ s.observed \in Int
  BY DEF AsStored
<1>7. ASSUME NEW p, Same(p), NEW method, e = AsIs(p, method)
      PROVE  /\ e.den \in Nat \ {0}
             /\ e.level = e.den * s.level /\ e.lo = e.den * s.lo /\ e.hi = e.den * s.hi
  <2>1. e.den = 1 /\ e.level = s.level /\ e.lo = s.lo /\ e.hi = s.hi
    BY <1>7 DEF AsIs
  <2> QED
    BY <1>6, <2>1
<1>8. ASSUME Interpolates(s, points, t), e = Between(a, b, t)
      PROVE  /\ e.den \in Nat \ {0}
             /\ e.level = e.den * s.level /\ e.lo = e.den * s.lo /\ e.hi = e.den * s.hi
  <2>1. a \in Anchors(s, points) /\ a.at < t /\ b \in Anchors(s, points) /\ b.at > t
    BY <1>1, <1>2, <1>8, NeighboursAre DEF Interpolates
  <2>2. Same(a) /\ Same(b)
    BY <1>4, <2>1
  <2> DEFINE d == b.at - a.at
             u == t - a.at
  <2>3. d \in Nat \ {0} /\ u \in Int
    BY <2>1, <2>2
  <2>4. /\ e.den = d /\ e.level = a.level * d + u * (b.level - a.level)
        /\ e.lo = a.lo * d + u * (b.lo - a.lo) /\ e.hi = a.hi * d + u * (b.hi - a.hi)
    <3>1. e = [method |-> "interpolated", before |-> a.at, after |-> b.at, den |-> b.at - a.at,
               level |-> a.level * (b.at - a.at) + (t - a.at) * (b.level - a.level),
               lo |-> a.lo * (b.at - a.at) + (t - a.at) * (b.lo - a.lo),
               hi |-> a.hi * (b.at - a.at) + (t - a.at) * (b.hi - a.hi)]
      BY <1>8, Zenon DEF Between
    <3> HIDE DEF a, b
    <3> QED
      BY <3>1
  <2>5. /\ e.level = s.level * d + u * (s.level - s.level)
        /\ e.lo = s.lo * d + u * (s.lo - s.lo) /\ e.hi = s.hi * d + u * (s.hi - s.hi)
    <3> HIDE DEF a, b, d, u
    <3> QED
      BY <2>2, <2>4
  <2> HIDE DEF d, u
  <2>6. e.level = d * s.level /\ e.lo = d * s.lo /\ e.hi = d * s.hi
    BY <1>6, <2>3, <2>5, MixOfTheSame
  <2> QED
    BY <2>3, <2>4, <2>6
<1>9. /\ usable # {}
      /\ \/ (\E p \in usable : p.at = t) /\ e = AsIs(exact, "exact")
         \/ Interpolates(s, points, t) /\ e = Between(a, b, t)
         \/ e = AsIs(closest, "nearest")
  BY <1>3, Zenon DEF NowcastFrom
<1>10. (\E p \in usable : p.at = t) => exact \in usable
  BY Zenon
<1>11. closest \in usable
  <2>1. closest \in ClosestOf(s, points, t)
    BY <1>1, <1>2, <1>9, ClosestIs
  <2> QED
    BY <2>1, Zenon DEF ClosestOf
<1> HIDE DEF usable, exact, closest, a, b, Same
<1> QED
  BY <1>5, <1>7, <1>8, <1>9, <1>10, <1>11, Zenon

\* A quotient is what leaves a remainder.
LEMMA QuotientIs ==
    ASSUME NEW b \in Nat \ {0}, NEW q \in Int, NEW r \in 0..(b - 1), NEW a \in Int, a = b * q + r
    PROVE  a \div b = q
<1> DEFINE k == a \div b
<1>1. k \in Int /\ b * k \in Int /\ b * k <= a /\ a < b * k + b
  BY Quotient
<1> HIDE DEF k
<1>2. ~(q < k)
  <2> SUFFICES ASSUME q < k PROVE FALSE
    OBVIOUS
  <2>1. b * q + b <= b * k /\ b * q \in Int
    BY <1>1, MultiplesGrow
  <2> QED
    BY <1>1, <2>1
<1>3. ~(k < q)
  <2> SUFFICES ASSUME k < q PROVE FALSE
    OBVIOUS
  <2>1. b * k + b <= b * q /\ b * q \in Int
    BY <1>1, MultiplesGrow
  <2> QED
    BY <1>1, <2>1
<1>4. k = q
  BY <1>1, <1>2, <1>3
<1> QED
  BY <1>4 DEF k

\* Multiplied and divided, and halves rounded up on the way back.
LEMMA DividesBack ==
    ASSUME NEW d \in Nat \ {0}, NEW x \in Int
    PROVE  (d * x) \div d = x /\ (2 * (d * x) + d) \div (2 * d) = x
<1>1. (d * x) \div d = x
  <2>1. d * x \in Int /\ d * x = d * x + 0 /\ 0 \in 0..(d - 1)
    OBVIOUS
  <2> QED
    BY <2>1, QuotientIs
<1>2. (2 * (d * x) + d) \div (2 * d) = x
  <2> DEFINE b == 2 * d
             a == 2 * (d * x) + d
  <2>1. b \in Nat \ {0} /\ a \in Int /\ d \in 0..(b - 1)
    OBVIOUS
  <2>2. a = b * x + d
    <3>1. 2 * (d * x) = (2 * d) * x
      OBVIOUS
    <3> QED
      BY <3>1
  <2> HIDE DEF a, b
  <2>3. a \div b = x
    BY <2>1, <2>2, QuotientIs
  <2> QED
    BY <2>3 DEF a, b
<1> QED
  BY <1>1, <1>2

\* The distance of multiples.
LEMMA AbsOfMultiples ==
    ASSUME NEW d \in Nat \ {0}, NEW x \in Int, NEW y \in Int
    PROVE  Abs(d * x - d * y) = d * Abs(x - y) /\ Abs(x - y) \in Nat
<1> DEFINE z == x - y
<1>1. z \in Int /\ d * x - d * y = d * z
  OBVIOUS
<1> HIDE DEF z
<1>2. CASE z < 0
  <2>1. d * z + d <= d * 0 /\ d * z \in Int
    BY <1>1, <1>2, MultiplesGrow
  <2>2. d * z < 0
    BY <2>1
  <2>3. Abs(d * z) = -(d * z) /\ Abs(z) = -z
    BY <1>2, <2>2 DEF Abs
  <2>4. d * (-z) = -(d * z)
    BY <1>1
  <2> QED
    BY <1>1, <1>2, <2>3, <2>4 DEF z
<1>3. CASE ~(z < 0)
  <2>1. d * 0 <= d * z /\ d * z \in Int
    BY <1>1, <1>3, ProductsGrow
  <2>2. Abs(d * z) = d * z /\ Abs(z) = z
    BY <1>3, <2>1 DEF Abs
  <2> QED
    BY <1>1, <1>3, <2>2 DEF z
<1> QED
  BY <1>2, <1>3

\* What is compared with a nowcast: the nearest of what was observed later.
LaterThan(snapshots, o) ==
    {c \in snapshots : /\ c.hotspot = o.hotspot
                       /\ Abs(c.observed - o.fetched) <= ActualTolerance
                       /\ c.fetched > o.fetched /\ c.observed > o.observed}
NearerTo(o, c, d) ==
    \/ Abs(c.observed - o.fetched) < Abs(d.observed - o.fetched)
    \/ Abs(c.observed - o.fetched) = Abs(d.observed - o.fetched)
       /\ (c.observed < d.observed \/ (c.observed = d.observed /\ c.fetched <= d.fetched))
ActualOf(snapshots, o) ==
    CHOOSE c \in LaterThan(snapshots, o) : \A d \in LaterThan(snapshots, o) : NearerTo(o, c, d)
ExactAt(l, a) == IF l = a.level THEN 100 ELSE 0
AdjacentAt(l, a) == IF Abs(l - a.level) <= 1 THEN 100 ELSE 0
SampleOf(o, e, a) ==
    [skip |-> None, hotspot |-> o.hotspot, target |-> o.fetched, lag |-> o.fetched - o.observed,
     actual |-> a.lo + a.hi,
     nowcast |-> Abs(e.lo + e.hi - e.den * (a.lo + a.hi)) \div e.den,
     baseline |-> Abs(o.lo + o.hi - (a.lo + a.hi)),
     exact |-> [nowcast |-> ExactAt(NowcastLevel(e), a), baseline |-> ExactAt(o.level, a)],
     adjacent |-> [nowcast |-> AdjacentAt(NowcastLevel(e), a), baseline |-> AdjacentAt(o.level, a)]]

\* The reasons for a skip are none.
SkipsAreApart ==
    None \notin {"no_forecast", "invalid_forecast", "no_target_estimate", "actual_outside_tolerance"}

LEMMA SampleIs ==
    ASSUME SkipsAreApart, NEW snapshots, NEW o, NEW x, x = NowcastSample(snapshots, o), x.skip = None,
           NEW e, e = EstimateNowcast(o, o.fetched)
    PROVE  /\ e # Refused /\ e # None /\ LaterThan(snapshots, o) # {}
           /\ x = SampleOf(o, e, ActualOf(snapshots, o))
<1>1. x = IF o.forecast = <<>> THEN [skip |-> "no_forecast"]
          ELSE IF e = Refused THEN [skip |-> "invalid_forecast"]
          ELSE IF e = None THEN [skip |-> "no_target_estimate"]
          ELSE IF LaterThan(snapshots, o) = {} THEN [skip |-> "actual_outside_tolerance"]
          ELSE SampleOf(o, e, ActualOf(snapshots, o))
  BY Zenon DEF NowcastSample, LaterThan, ActualOf, NearerTo, SampleOf, ExactAt, AdjacentAt
<1>2. /\ x # [skip |-> "no_forecast"] /\ x # [skip |-> "invalid_forecast"]
      /\ x # [skip |-> "no_target_estimate"] /\ x # [skip |-> "actual_outside_tolerance"]
  BY SkipsAreApart DEF SkipsAreApart
<1> QED
  BY <1>1, <1>2, Zenon

\* Of finitely many numbered things one has the least number.
LEMMA OneHasLeast ==
    ASSUME NEW S, IsFiniteSet(S), S # {}, NEW f, \A c \in S : f[c] \in Int
    PROVE  \E m \in S : \A c \in S : f[m] <= f[c]
<1> DEFINE N == {f[c] : c \in S}
<1>1. N \in SUBSET Int /\ N # {}
  OBVIOUS
<1>2. IsFiniteSet(N)
  BY ImagesAreFinite
<1>3. PICK m \in N : \A i \in N : m <= i
  BY <1>1, <1>2, FiniteHasLeast
<1> QED
  BY <1>3

\* There is a nearest one, so it is one of them.
LEMMA ActualIsOne ==
    ASSUME NEW snapshots, IsFiniteSet(snapshots),
           \A s \in snapshots : s.observed \in Int /\ s.fetched \in Int,
           NEW o \in snapshots, LaterThan(snapshots, o) # {}
    PROVE  ActualOf(snapshots, o) \in LaterThan(snapshots, o)
<1> DEFINE L == LaterThan(snapshots, o)
           off(c) == Abs(c.observed - o.fetched)
<1>1. L \in SUBSET snapshots /\ IsFiniteSet(L) /\ L # {}
  <2>1. L \in SUBSET snapshots
    BY DEF LaterThan
  <2> QED
    BY <2>1, FS_Subset
<1>2. \A c \in L : c.observed \in Int /\ c.fetched \in Int /\ off(c) \in Int
  BY <1>1 DEF Abs
<1> HIDE DEF L, off
<1> DEFINE f == [c \in L |-> off(c)]
<1>3. PICK m \in L : \A c \in L : off(m) <= off(c)
  <2>1. \A c \in L : f[c] = off(c) /\ f[c] \in Int
    BY <1>2
  <2> HIDE DEF f
  <2>2. \E m \in L : \A c \in L : f[m] <= f[c]
    BY <1>1, <2>1, OneHasLeast
  <2> QED
    BY <2>1, <2>2
<1> DEFINE M == {c \in L : off(c) = off(m)}
           g == [c \in M |-> c.observed]
<1>4. M \in SUBSET L /\ M # {} /\ IsFiniteSet(M)
  <2>1. M \in SUBSET L /\ M # {}
    BY <1>3
  <2> QED
    BY <1>1, <2>1, FS_Subset
<1>5. PICK n \in M : \A c \in M : n.observed <= c.observed
  <2>1. \A c \in M : g[c] = c.observed /\ g[c] \in Int
    BY <1>2, <1>4
  <2> HIDE DEF g, M
  <2>2. \E n \in M : \A c \in M : g[n] <= g[c]
    BY <1>4, <2>1, OneHasLeast
  <2> QED
    BY <2>1, <2>2
<1> DEFINE K == {c \in M : c.observed = n.observed}
           h == [c \in K |-> c.fetched]
<1>6. K \in SUBSET M /\ K # {} /\ IsFiniteSet(K)
  <2>1. K \in SUBSET M /\ K # {}
    BY <1>5
  <2> QED
    BY <1>4, <2>1, FS_Subset
<1>7. PICK k \in K : \A c \in K : k.fetched <= c.fetched
  <2>1. \A c \in K : h[c] = c.fetched /\ h[c] \in Int
    BY <1>2, <1>4, <1>6
  <2> HIDE DEF h, K, M
  <2>2. \E k \in K : \A c \in K : h[k] <= h[c]
    BY <1>6, <2>1, OneHasLeast
  <2> QED
    BY <2>1, <2>2
<1>8. k \in L /\ off(k) = off(m) /\ k.observed = n.observed
  BY <1>4, <1>6
<1>9. ASSUME NEW d \in L
      PROVE  \/ off(k) < off(d)
             \/ off(k) = off(d) /\ (k.observed < d.observed
                                    \/ (k.observed = d.observed /\ k.fetched <= d.fetched))
  <2>1. off(k) <= off(d) /\ off(k) \in Int /\ off(d) \in Int
    BY <1>2, <1>3, <1>8
  <2>2. CASE off(k) = off(d)
    <3>1. d \in M
      BY <1>8, <2>2
    <3>2. n.observed <= d.observed /\ n.observed \in Int /\ d.observed \in Int
      BY <1>2, <1>4, <1>5, <3>1
    <3>3. CASE d.observed = n.observed
      <4>1. d \in K
        BY <3>1, <3>3
      <4> QED
        BY <1>7, <1>8, <2>2, <3>3, <4>1
    <3> QED
      BY <1>8, <2>2, <3>2, <3>3
  <2> QED
    BY <2>1, <2>2
<1>10. \A d \in L : NearerTo(o, k, d)
  BY <1>9, Zenon DEF NearerTo, off
<1>11. \E c \in L : \A d \in L : NearerTo(o, c, d)
  BY <1>8, <1>10
<1> DEFINE best == CHOOSE c \in L : \A d \in L : NearerTo(o, c, d)
<1>12. best \in L
  BY <1>11, Zenon
<1> QED
  BY <1>12, Zenon DEF ActualOf, L

\* A sample of a forecast that repeats what was observed is as good as that.
LEMMA SampleRepeats ==
    ASSUME SkipsAreApart, Refused \notin SUBSET Point,
           NEW snapshots, IsFiniteSet(snapshots), \A s \in snapshots : AsStored(s),
           NEW o \in snapshots, RepeatsItself(o),
           NEW x, x = NowcastSample(snapshots, o), x.skip = None
    PROVE  /\ x.actual \in Nat /\ x.baseline \in Nat /\ x.nowcast = x.baseline
           /\ x.exact.baseline \in Nat /\ x.exact.nowcast = x.exact.baseline
           /\ x.adjacent.baseline \in Nat /\ x.adjacent.nowcast = x.adjacent.baseline
<1> DEFINE e == EstimateNowcast(o, o.fetched)
           a == ActualOf(snapshots, o)
<1>0. \A s \in snapshots : s.observed \in Int /\ s.fetched \in Int
  BY DEF AsStored
<1>1. e # Refused /\ e # None /\ LaterThan(snapshots, o) # {} /\ x = SampleOf(o, e, a)
  BY SampleIs
<1>2. a \in snapshots
  BY <1>0, <1>1, ActualIsOne DEF LaterThan
<1>3. a.lo \in Nat /\ a.hi \in Nat /\ a.level \in Int
  BY <1>2 DEF AsStored
<1>4. o.lo \in Nat /\ o.hi \in Nat /\ o.level \in Int /\ o.fetched \in Int
  BY DEF AsStored
<1>5. AsStored(o)
  OBVIOUS
<1> HIDE DEF e, a
<1>6. /\ e.den \in Nat \ {0}
      /\ e.level = e.den * o.level /\ e.lo = e.den * o.lo /\ e.hi = e.den * o.hi
  BY <1>1, <1>4, <1>5, NowcastRepeats DEF e
<1> DEFINE d == e.den
           seen == o.lo + o.hi
           is == a.lo + a.hi
<1>7. d \in Nat \ {0} /\ seen \in Int /\ is \in Nat
  BY <1>3, <1>4, <1>6
<1>8. e.lo + e.hi - e.den * (a.lo + a.hi) = d * seen - d * is
  <2>1. e.lo + e.hi = d * seen
    BY <1>4, <1>6
  <2>2. e.den * (a.lo + a.hi) = d * is
    OBVIOUS
  <2>3. d * seen \in Int /\ d * is \in Int
    BY <1>7
  <2>4. e.lo \in Int /\ e.hi \in Int
    BY <1>4, <1>6
  <2> DEFINE u == d * seen
             v == d * is
             w == e.den * (a.lo + a.hi)
  <2>5. e.lo + e.hi = u /\ w = v /\ u \in Int /\ v \in Int
    BY <2>1, <2>2, <2>3
  <2> HIDE DEF u, v, w
  <2>6. e.lo + e.hi - w = u - v
    BY <2>4, <2>5
  <2> QED
    BY <2>6, Zenon DEF u, v, w
<1>16. o.lo + o.hi - (a.lo + a.hi) = seen - is
  BY <1>3, <1>4
<1>9. NowcastLevel(e) = o.level
  <2>1. (2 * e.level + e.den) \div (2 * e.den) = (2 * (d * o.level) + d) \div (2 * d)
    BY <1>6
  <2>2. (2 * (d * o.level) + d) \div (2 * d) = o.level
    BY <1>4, <1>7, DividesBack
  <2> QED
    BY <2>1, <2>2 DEF NowcastLevel
<1>10. /\ x.actual = is
       /\ x.nowcast = Abs(e.lo + e.hi - e.den * (a.lo + a.hi)) \div e.den
       /\ x.baseline = Abs(seen - is)
       /\ x.exact.nowcast = ExactAt(NowcastLevel(e), a) /\ x.exact.baseline = ExactAt(o.level, a)
       /\ x.adjacent.nowcast = AdjacentAt(NowcastLevel(e), a)
       /\ x.adjacent.baseline = AdjacentAt(o.level, a)
  <2> DEFINE r == [nowcast |-> ExactAt(NowcastLevel(e), a), baseline |-> ExactAt(o.level, a)]
             t == [nowcast |-> AdjacentAt(NowcastLevel(e), a), baseline |-> AdjacentAt(o.level, a)]
             n == Abs(e.lo + e.hi - e.den * (a.lo + a.hi)) \div e.den
             b == Abs(o.lo + o.hi - (a.lo + a.hi))
  <2>1. x = [skip |-> None, hotspot |-> o.hotspot, target |-> o.fetched, lag |-> o.fetched - o.observed,
             actual |-> is, nowcast |-> n, baseline |-> b, exact |-> r, adjacent |-> t]
    BY <1>1, Zenon DEF SampleOf
  <2>2. /\ r.nowcast = ExactAt(NowcastLevel(e), a) /\ r.baseline = ExactAt(o.level, a)
        /\ t.nowcast = AdjacentAt(NowcastLevel(e), a) /\ t.baseline = AdjacentAt(o.level, a)
    OBVIOUS
  <2> HIDE DEF r, t, n, b, is
  <2>3. x.actual = is /\ x.nowcast = n /\ x.baseline = b /\ x.exact = r /\ x.adjacent = t
    BY <2>1
  <2>4. b = Abs(seen - is)
    BY <1>16, Zenon DEF b
  <2> HIDE DEF seen
  <2> QED
    BY <2>2, <2>3, <2>4 DEF n
<1>11. x.nowcast = Abs(d * seen - d * is) \div d
  BY <1>8, <1>10, Zenon
<1> HIDE DEF d, seen, is
<1>12. Abs(d * seen - d * is) = d * Abs(seen - is) /\ Abs(seen - is) \in Nat
  <2>1. is \in Int
    BY <1>7
  <2> QED
    BY <1>7, <2>1, AbsOfMultiples
<1>13. (d * Abs(seen - is)) \div d = Abs(seen - is)
  BY <1>7, <1>12, DividesBack
<1>14. x.nowcast = x.baseline /\ x.baseline \in Nat /\ x.actual \in Nat
  BY <1>7, <1>10, <1>11, <1>12, <1>13
<1>15. ExactAt(o.level, a) \in Nat /\ AdjacentAt(o.level, a) \in Nat
  BY DEF ExactAt, AdjacentAt
<1> QED
  BY <1>9, <1>10, <1>14, <1>15

\* Samples of which the nowcast is as good as the baseline.
Alike(x) ==
    /\ x.actual \in Nat /\ x.baseline \in Nat /\ x.nowcast = x.baseline
    /\ x.exact.baseline \in Nat /\ x.exact.nowcast = x.exact.baseline
    /\ x.adjacent.baseline \in Nat /\ x.adjacent.nowcast = x.adjacent.baseline

LEMMA TotalsAreAlike ==
    ASSUME NEW samples, IsFiniteSet(DOMAIN samples), \A o \in DOMAIN samples : Alike(samples[o]),
           NEW at, at \subseteq DOMAIN samples
    PROVE  /\ Error(samples, at, "nowcast") = Error(samples, at, "baseline")
           /\ Error(samples, at, "baseline") \in Nat
           /\ SumFunction([o \in at |-> samples[o].actual]) \in Nat
           /\ \A field \in {"exact", "adjacent"} :
                 LET sum(model) == SumFunction([o \in at |-> samples[o][field][model]])
                 IN  sum("nowcast") = sum("baseline") /\ sum("baseline") \in Nat
<1>1. IsFiniteSet(at)
  BY FS_Subset
<1>2. ASSUME NEW f, NEW g, DOMAIN f = at, DOMAIN g = at, \A o \in at : f[o] \in Nat /\ f[o] = g[o]
      PROVE  SumFunction(g) = SumFunction(f) /\ SumFunction(f) \in Nat
  <2>1. SumFunction(f) = SumFunctionOnSet(f, at) /\ SumFunction(g) = SumFunctionOnSet(g, at)
    BY <1>2, TotalIs
  <2>2. SumFunctionOnSet(f, at) = SumFunctionOnSet(g, at)
    <3>1. \A o \in at : f[o] \in Int /\ f[o] = g[o]
      BY <1>2
    <3> QED
      BY <1>1, <3>1, SumAgrees
  <2>3. SumFunctionOnSet(f, at) \in Nat
    BY <1>1, <1>2, SumIsPositive
  <2> QED
    BY <2>1, <2>2, <2>3
<1>3. \A o \in at : Alike(samples[o])
  OBVIOUS
<1>4. /\ Error(samples, at, "nowcast") = Error(samples, at, "baseline")
      /\ Error(samples, at, "baseline") \in Nat
  <2> DEFINE f == [o \in at |-> samples[o]["baseline"]]
             g == [o \in at |-> samples[o]["nowcast"]]
  <2>1. DOMAIN f = at /\ DOMAIN g = at /\ \A o \in at : f[o] \in Nat /\ f[o] = g[o]
    BY <1>3 DEF Alike
  <2>2. Error(samples, at, "nowcast") = SumFunction(g) /\ Error(samples, at, "baseline") = SumFunction(f)
    BY Zenon DEF Error, Total
  <2> HIDE DEF f, g
  <2> QED
    BY <1>2, <2>1, <2>2
<1>5. SumFunction([o \in at |-> samples[o].actual]) \in Nat
  <2> DEFINE f == [o \in at |-> samples[o].actual]
  <2>1. DOMAIN f = at /\ \A o \in at : f[o] \in Nat /\ f[o] = f[o]
    BY <1>3 DEF Alike
  <2> HIDE DEF f
  <2>2. SumFunction(f) \in Nat
    BY <1>2, <2>1
  <2> QED
    BY <2>2 DEF f
<1>6. ASSUME NEW field \in {"exact", "adjacent"}
      PROVE  LET sum(model) == SumFunction([o \in at |-> samples[o][field][model]])
             IN  sum("nowcast") = sum("baseline") /\ sum("baseline") \in Nat
  <2> DEFINE f == [o \in at |-> samples[o][field]["baseline"]]
             g == [o \in at |-> samples[o][field]["nowcast"]]
  <2>1. DOMAIN f = at /\ DOMAIN g = at /\ \A o \in at : f[o] \in Nat /\ f[o] = g[o]
    BY <1>3 DEF Alike
  <2> HIDE DEF f, g
  <2>2. SumFunction(g) = SumFunction(f) /\ SumFunction(f) \in Nat
    BY <1>2, <2>1
  <2> QED
    BY <2>2 DEF f, g
<1> QED
  BY <1>4, <1>5, <1>6

\* So they tie in every group.
LEMMA AllTie ==
    ASSUME NEW samples, IsFiniteSet(DOMAIN samples), \A o \in DOMAIN samples : Alike(samples[o])
    PROVE  Stratum(samples, Groups(samples)).ties = Stratum(samples, Groups(samples)).groups
<1>1. ASSUME NEW at, at \subseteq DOMAIN samples PROVE Outcome(samples, at) = "tie"
  <2>1. /\ Error(samples, at, "nowcast") = Error(samples, at, "baseline")
        /\ Error(samples, at, "baseline") \in Nat
    BY <1>1, TotalsAreAlike
  <2>2. Error(samples, at, "nowcast") - Error(samples, at, "baseline") = 0
    BY <2>1
  <2>3. ~(0 < 0) /\ ~(0 > 0)
    OBVIOUS
  <2> QED
    BY <2>2, <2>3, Zenon DEF Outcome
<1>2. ASSUME NEW g \in Groups(samples) PROVE HotspotDays(samples)[g] = "tie"
  <2>1. HotspotDays(samples)[g] = Outcome(samples, {o \in DOMAIN samples : GroupOf(samples, o) = g})
    BY Zenon DEF HotspotDays, Groups
  <2> DEFINE at == {o \in DOMAIN samples : GroupOf(samples, o) = g}
  <2>2. at \subseteq DOMAIN samples
    OBVIOUS
  <2> HIDE DEF at
  <2>3. Outcome(samples, at) = "tie"
    BY <1>1, <2>2
  <2> QED
    BY <2>1, <2>3 DEF at
<1>3. Ending(samples, Groups(samples), "tie") = Groups(samples)
  BY <1>2 DEF Ending
<1> QED
  BY <1>3, StratumIs

\* What the gates compare.
ValueOf(samples, field, model) ==
    IF field = "wape" THEN Wape(samples, DOMAIN samples, model)
    ELSE Accuracy(samples, DOMAIN samples, field, model)
WorseThan(samples, field, bound) ==
    \/ ValueOf(samples, field, "nowcast") = None
    \/ IF field = "wape" THEN ValueOf(samples, field, "nowcast") > bound
       ELSE ValueOf(samples, field, "nowcast") < bound
HasRegressed(samples, field) ==
    \/ ValueOf(samples, field, "baseline") = None
    \/ WorseThan(samples, field, ValueOf(samples, field, "baseline"))

LEMMA RegressionsAreReal ==
    ASSUME NEW samples, NEW field, <<field, "regressed">> \in Blockers(samples)
    PROVE  HasRegressed(samples, field)
<1> DEFINE scant(what) ==
            CASE what = "samples" -> Cardinality(DOMAIN samples) < MinSamples
              [] what = "hotspots" -> Cardinality({samples[o].hotspot : o \in DOMAIN samples}) < MinHotspots
              [] what = "span" -> (IF Cardinality(DOMAIN samples) < 2 THEN 0
                                   ELSE Max({samples[o].target : o \in DOMAIN samples})
                                        - Min({samples[o].target : o \in DOMAIN samples})) < MinSpan
           bound == [wape |-> MaxWape, exact |-> MinExact, adjacent |-> MinAdjacentLevel]
           A == {w \in {"samples", "hotspots", "span"} : scant(w)}
           B == {f \in DOMAIN bound : WorseThan(samples, f, bound[f])}
           C == {f \in DOMAIN bound : HasRegressed(samples, f)}
<1>1. Blockers(samples) = {<<w, "insufficient">> : w \in A} \cup {<<f, "failed">> : f \in B}
                          \cup {<<f, "regressed">> : f \in C}
  BY Zenon DEF Blockers, HasRegressed, WorseThan, ValueOf
<1>2. \A f \in C : HasRegressed(samples, f)
  BY Zenon
<1> HIDE DEF A, B, C
<1>3. \E f \in C : <<field, "regressed">> = <<f, "regressed">>
  BY <1>1
<1> QED
  BY <1>2, <1>3

\* The values of such samples are the same for both models.
LEMMA ValuesAreAlike ==
    ASSUME NEW samples, IsFiniteSet(DOMAIN samples), \A o \in DOMAIN samples : Alike(samples[o]),
           Wape(samples, DOMAIN samples, "nowcast") # None,
           NEW field \in {"wape", "exact", "adjacent"}
    PROVE  /\ ValueOf(samples, field, "nowcast") \in Int
           /\ ValueOf(samples, field, "nowcast") = ValueOf(samples, field, "baseline")
<1> DEFINE all == DOMAIN samples
           actual == SumFunction([o \in all |-> samples[o].actual])
           sum(f, model) == SumFunction([o \in all |-> samples[o][f][model]])
<1>1. all \subseteq DOMAIN samples
  OBVIOUS
<1>2. /\ Error(samples, all, "nowcast") = Error(samples, all, "baseline")
      /\ Error(samples, all, "baseline") \in Nat
      /\ actual \in Nat
      /\ \A f \in {"exact", "adjacent"} : sum(f, "nowcast") = sum(f, "baseline") /\ sum(f, "baseline") \in Nat
  BY <1>1, TotalsAreAlike
<1>3. \A model : Wape(samples, all, model) =
         IF actual = 0 THEN None ELSE (100 * Error(samples, all, model)) \div actual
  BY Zenon DEF Wape, Total
<1>4. \A f, model : Accuracy(samples, all, f, model) =
         IF all = {} THEN None ELSE sum(f, model) \div Cardinality(all)
  BY Zenon DEF Accuracy, Total
<1>5. actual # 0
  BY <1>3
<1>6. all # {}
  <2> SUFFICES ASSUME all = {} PROVE FALSE
    OBVIOUS
  <2> DEFINE f == [o \in all |-> samples[o].actual]
  <2>1. DOMAIN f = {}
    OBVIOUS
  <2> HIDE DEF f
  <2>2. SumFunction(f) = SumFunctionOnSet(f, {})
    BY <2>1, TotalIs
  <2>3. SumFunctionOnSet(f, {}) = 0
    <3>1. IsFiniteSet({}) /\ \A x \in {} : f[x] \in Int
      BY FS_EmptySet
    <3> QED
      BY <3>1, SumStep
  <2> QED
    BY <1>5, <2>2, <2>3 DEF f
<1>7. Cardinality(all) \in Nat \ {0}
  BY <1>6, FS_CardinalityType, FS_EmptySet
<1> HIDE DEF all, actual, sum
<1>8. CASE field = "wape"
  <2>1. /\ ValueOf(samples, field, "nowcast") = (100 * Error(samples, all, "nowcast")) \div actual
        /\ ValueOf(samples, field, "baseline") = (100 * Error(samples, all, "baseline")) \div actual
    BY <1>3, <1>5, <1>8 DEF ValueOf, all
  <2>2. (100 * Error(samples, all, "baseline")) \div actual \in Int
    <3>1. 100 * Error(samples, all, "baseline") \in Int /\ actual \in Nat \ {0}
      BY <1>2, <1>5
    <3> QED
      BY <3>1, Quotient
  <2> QED
    BY <1>2, <2>1, <2>2
<1>9. CASE field \in {"exact", "adjacent"}
  <2>1. /\ ValueOf(samples, field, "nowcast") = sum(field, "nowcast") \div Cardinality(all)
        /\ ValueOf(samples, field, "baseline") = sum(field, "baseline") \div Cardinality(all)
    BY <1>4, <1>6, <1>9 DEF ValueOf, all
  <2>2. sum(field, "nowcast") = sum(field, "baseline") /\ sum(field, "baseline") \in Int
    BY <1>2, <1>9
  <2>3. sum(field, "baseline") \div Cardinality(all) \in Int
    BY <1>7, <2>2, Quotient
  <2> QED
    BY <2>1, <2>2, <2>3
<1> QED
  BY <1>8, <1>9

\* So neither is held to have regressed.
LEMMA NothingRegresses ==
    ASSUME NEW samples, IsFiniteSet(DOMAIN samples), \A o \in DOMAIN samples : Alike(samples[o]),
           Wape(samples, DOMAIN samples, "nowcast") # None,
           NEW field \in {"wape", "exact", "adjacent"}
    PROVE  <<field, "regressed">> \notin Blockers(samples)
<1> SUFFICES ASSUME <<field, "regressed">> \in Blockers(samples) PROVE FALSE
  OBVIOUS
<1>1. HasRegressed(samples, field)
  BY RegressionsAreReal
<1> DEFINE v == ValueOf(samples, field, "nowcast")
<1>2. v \in Int /\ ValueOf(samples, field, "baseline") = v
  BY ValuesAreAlike
<1> HIDE DEF v
<1>3. v # None /\ ~(v > v) /\ ~(v < v)
  BY <1>2, OutcomesAssumption
<1> QED
  BY <1>1, <1>2, <1>3, Zenon DEF HasRegressed, WorseThan, v

\* A backtest adds up: every lag has its bucket, every sample and group is
\* counted once for its hotspot and once for its day, and forecasts that only
\* repeat what was observed neither win nor lose nor count as a regression
\* (backtest_nowcasts).  No reason for a skip is None, and no set of points Refused.
THEOREM BacktestsAddUp ==
    ASSUME SkipsAreApart, Refused \notin SUBSET Point,
           NEW snapshots, IsFiniteSet(snapshots), \A s \in snapshots : AsStored(s)
    PROVE  BacktestAddsUp(snapshots)
<1> DEFINE repeats == \A s \in snapshots : RepeatsItself(s)
           samples == Samples(snapshots)
           hybrid == Hybrid(samples)
           G == Groups(samples)
           sum(strata, field) == SumFunction([k \in DOMAIN strata |-> strata[k][field]])
<1>1. DOMAIN samples = {o \in snapshots : NowcastSample(snapshots, o).skip = None}
      /\ \A o \in DOMAIN samples : samples[o] = NowcastSample(snapshots, o)
  BY Zenon DEF Samples
<1>2. IsFiniteSet(DOMAIN samples) /\ DOMAIN samples \subseteq snapshots
  <2>1. DOMAIN samples \in SUBSET snapshots
    BY <1>1
  <2> QED
    BY <2>1, FS_Subset
<1> HIDE DEF samples
<1>3. ASSUME NEW o \in DOMAIN samples
      PROVE  LET b == LagBucket(samples[o].lag) IN
             /\ b > 1 => LagEdges[b - 1] < samples[o].lag
             /\ b <= Len(LagEdges) => samples[o].lag <= LagEdges[b]
  <2>1. o \in snapshots /\ samples[o] = NowcastSample(snapshots, o) /\ samples[o].skip = None
    BY <1>1
  <2> DEFINE e == EstimateNowcast(o, o.fetched)
  <2>2. samples[o] = SampleOf(o, e, ActualOf(snapshots, o))
    BY <2>1, SampleIs
  <2> HIDE DEF e
  <2>3. samples[o].lag = o.fetched - o.observed
    <3>1. \A a : SampleOf(o, e, a).lag = o.fetched - o.observed
      BY DEF SampleOf
    <3> QED
      BY <2>2, <3>1
  <2>4. samples[o].lag \in Int
    BY <2>1, <2>3 DEF AsStored
  <2> QED
    BY <2>4, LagsFallIntoTheirBucket
<1>4. /\ hybrid.all = Stratum(samples, G)
      /\ hybrid.hotspots = StrataOf(samples, 1) /\ hybrid.days = StrataOf(samples, 2)
      /\ hybrid.wape = Wape(samples, DOMAIN samples, "nowcast")
  BY HybridIs
<1>5. hybrid.all.samples = Cardinality(DOMAIN samples)
  <2>1. Stratum(samples, G).samples = Cardinality(Belonging(samples, G))
    BY StratumIs
  <2>2. Belonging(samples, G) = DOMAIN samples
    BY <1>2, GroupsAre
  <2> HIDE DEF hybrid, G
  <2> QED
    BY <1>4, <2>1, <2>2
<1> HIDE DEF hybrid
<1>6. hybrid.all.wins + hybrid.all.ties + hybrid.all.losses = hybrid.all.groups
  BY <1>2, <1>4, OutcomesAddUp
<1>7. ASSUME NEW field \in {"groups", "wins", "ties", "losses", "samples"}
      PROVE  sum(hybrid.hotspots, field) = hybrid.all[field] /\ sum(hybrid.days, field) = hybrid.all[field]
  BY <1>2, <1>4, StrataAddUp
<1>8. ASSUME repeats
      PROVE  /\ hybrid.all.ties = hybrid.all.groups
             /\ hybrid.wape # None =>
                    \A f \in {"wape", "exact", "adjacent"} : <<f, "regressed">> \notin Blockers(samples)
  <2>1. \A o \in DOMAIN samples : Alike(samples[o])
    <3> SUFFICES ASSUME NEW o \in DOMAIN samples PROVE Alike(samples[o])
      OBVIOUS
    <3>1. o \in snapshots /\ samples[o] = NowcastSample(snapshots, o) /\ samples[o].skip = None
      BY <1>1
    <3>2. RepeatsItself(o)
      BY <1>8, <3>1
    <3> QED
      BY <3>1, <3>2, SampleRepeats DEF Alike
  <2>2. hybrid.all.ties = hybrid.all.groups
    BY <1>2, <1>4, <2>1, AllTie
  <2>3. hybrid.wape # None =>
           \A f \in {"wape", "exact", "adjacent"} : <<f, "regressed">> \notin Blockers(samples)
    BY <1>2, <1>4, <2>1, NothingRegresses
  <2> QED
    BY <2>2, <2>3
<1> HIDE DEF repeats
<1>9. SamplesAddUp(samples, hybrid, repeats)
  BY <1>3, <1>5, <1>6, <1>7, <1>8, Zenon DEF SamplesAddUp, Total
<1> QED
  BY <1>9, Zenon DEF BacktestAddsUp, RepeatsItself, repeats, samples, hybrid

-----------------------------------------------------------------------------
(* Lists in an order of the sheets. *)

ById(S) == InOrder(S, LAMBDA a, b : a.id < b.id)
ByPlace(S) ==
    InOrder(S, LAMBDA a, b : Band(a.d) < Band(b.d) \/ (Band(a.d) = Band(b.d) /\ a.id < b.id))

\* Every member of a set, once.
Lists(items, S) ==
    /\ Cardinality(S) \in Nat /\ items \in [1..Cardinality(S) -> S]
    /\ \A c \in S : \E i \in 1..Cardinality(S) : items[i] = c
    /\ \A i, j \in 1..Cardinality(S) : items[i] = items[j] => i = j

\* What is ordered so is listed so.
PrecedesIn(items, R, S) ==
    items = [i \in 1..Cardinality(S) |->
                CHOOSE c \in S : Cardinality({d \in S : <<d, c>> \in R}) = i - 1]

LEMMA OrderedIsListed ==
    ASSUME NEW S, IsFiniteSet(S), NEW R, Orders(R, S), NEW items, PrecedesIn(items, R, S)
    PROVE  Lists(items, S)
<1>1. Ranked(items, R, S)
  <2> DEFINE x(i) == CHOOSE c \in S : Cardinality({d \in S : <<d, c>> \in R}) = i - 1
  <2>1. items = [i \in 1..Cardinality(S) |-> x(i)]
    BY Zenon DEF PrecedesIn
  <2> QED
    BY <2>1, Zenon DEF Ranked, Preceding
<1>2. /\ Cardinality(S) \in Nat /\ DOMAIN items = 1..Cardinality(S)
      /\ \A i \in DOMAIN items : items[i] \in S
      /\ \A c \in S : \E i \in DOMAIN items : items[i] = c
      /\ \A i, j \in DOMAIN items : i < j => <<items[i], items[j]>> \in R
  BY <1>1, ListedInOrder
<1>3. items \in [1..Cardinality(S) -> S]
  <2>1. items = [i \in 1..Cardinality(S) |-> items[i]]
    BY <1>2 DEF PrecedesIn
  <2> QED
    BY <1>2, <2>1
<1>4. \A i, j \in 1..Cardinality(S) : items[i] = items[j] => i = j
  <2> SUFFICES ASSUME NEW i \in 1..Cardinality(S), NEW j \in 1..Cardinality(S), items[i] = items[j]
               PROVE  i = j
    OBVIOUS
  <2>1. i \in DOMAIN items /\ j \in DOMAIN items /\ i \in Int /\ j \in Int
    BY <1>2
  <2>2. \A c \in S : <<c, c>> \notin R
    BY Zenon DEF Orders
  <2>3. items[i] \in S
    BY <1>2, <2>1
  <2>4. <<items[i], items[j]>> \notin R /\ <<items[j], items[i]>> \notin R
    BY <2>2, <2>3
  <2>5. ~(i < j) /\ ~(j < i)
    BY <1>2, <2>1, <2>4
  <2> QED
    BY <2>1, <2>5
<1> QED
  BY <1>2, <1>3, <1>4 DEF Lists

LEMMA ByIdIsListed ==
    ASSUME NEW S, IsFiniteSet(S), \A c \in S : c.id \in Int,
           \A a, b \in S : a.id = b.id => a = b
    PROVE  Lists(ById(S), S)
<1> DEFINE R == {p \in S \X S : p[1].id < p[2].id}
           items == ById(S)
<1>1. \A c, d \in S : <<c, d>> \in R <=> c.id < d.id
  OBVIOUS
<1>2. items = [i \in 1..Cardinality(S) |-> CHOOSE c \in S : Cardinality({d \in S : d.id < c.id}) = i - 1]
  BY Zenon DEF InOrder, ById
<1> HIDE DEF R, items
<1>3. Orders(R, S)
  <2>1. \A c \in S : ~(c.id < c.id)
    OBVIOUS
  <2>2. \A c, d \in S : c # d => c.id < d.id \/ d.id < c.id
    OBVIOUS
  <2>3. \A c, d, e \in S : c.id < d.id /\ d.id < e.id => c.id < e.id
    OBVIOUS
  <2> QED
    BY <1>1, <2>1, <2>2, <2>3, Zenon DEF Orders
<1>4. PrecedesIn(items, R, S)
  <2>1. \A c \in S : {d \in S : d.id < c.id} = {d \in S : <<d, c>> \in R}
    BY <1>1
  <2> DEFINE x(i) == CHOOSE c \in S : Cardinality({d \in S : d.id < c.id}) = i - 1
             y(i) == CHOOSE c \in S : Cardinality({d \in S : <<d, c>> \in R}) = i - 1
  <2>2. \A i : x(i) = y(i)
    BY <2>1
  <2>3. items = [i \in 1..Cardinality(S) |-> x(i)]
    BY <1>2
  <2>4. items = [i \in 1..Cardinality(S) |-> y(i)]
    <3> HIDE DEF x, y
    <3> QED
      BY <2>2, <2>3
  <2> QED
    BY <2>4 DEF PrecedesIn
<1> QED
  BY <1>3, <1>4, OrderedIsListed DEF items

LEMMA ByPlaceIsListed ==
    ASSUME NEW S, IsFiniteSet(S), \A c \in S : c.id \in Int /\ Band(c.d) \in Int,
           \A a, b \in S : a.id = b.id => a = b
    PROVE  Lists(ByPlace(S), S)
<1> DEFINE before(a, b) == Band(a.d) < Band(b.d) \/ (Band(a.d) = Band(b.d) /\ a.id < b.id)
           R == {p \in S \X S : before(p[1], p[2])}
           items == ByPlace(S)
<1>1. \A c, d \in S : <<c, d>> \in R <=> before(c, d)
  OBVIOUS
<1>2. items = [i \in 1..Cardinality(S) |-> CHOOSE c \in S : Cardinality({d \in S : before(d, c)}) = i - 1]
  BY Zenon DEF InOrder, ByPlace
<1>5. \A c \in S : ~before(c, c)
  OBVIOUS
<1>6. \A c, d \in S : c # d => before(c, d) \/ before(d, c)
  OBVIOUS
<1>7. \A c, d, e \in S : before(c, d) /\ before(d, e) => before(c, e)
  OBVIOUS
<1> HIDE DEF R, items, before
<1>3. Orders(R, S)
  BY <1>1, <1>5, <1>6, <1>7, Zenon DEF Orders
<1>4. PrecedesIn(items, R, S)
  <2>1. \A c \in S : {d \in S : before(d, c)} = {d \in S : <<d, c>> \in R}
    BY <1>1
  <2> DEFINE x(i) == CHOOSE c \in S : Cardinality({d \in S : before(d, c)}) = i - 1
             y(i) == CHOOSE c \in S : Cardinality({d \in S : <<d, c>> \in R}) = i - 1
  <2>2. \A i : x(i) = y(i)
    BY <2>1
  <2>3. items = [i \in 1..Cardinality(S) |-> x(i)]
    BY <1>2
  <2>4. items = [i \in 1..Cardinality(S) |-> y(i)]
    <3> HIDE DEF x, y
    <3> QED
      BY <2>2, <2>3
  <2> QED
    BY <2>4 DEF PrecedesIn
<1> QED
  BY <1>3, <1>4, OrderedIsListed DEF items

\* What is listed is as long and shows the same.
LEMMA ListsAre ==
    ASSUME NEW S, NEW items, Lists(items, S)
    PROVE  /\ items \in Seq(S) /\ Len(items) = Cardinality(S) /\ Len(items) \in Nat
           /\ DOMAIN items = 1..Len(items) /\ Range(items) = S
           /\ \A i \in 1..Len(items) : items[i] \in S
           /\ \A i, j \in 1..Len(items) : items[i] = items[j] => i = j
<1>1. Cardinality(S) \in Nat /\ items \in [1..Cardinality(S) -> S]
  BY DEF Lists
<1>2. items \in Seq(S) /\ Len(items) = Cardinality(S) /\ DOMAIN items = 1..Len(items)
  <2> DEFINE n == Cardinality(S)
  <2>1. n \in Nat /\ items \in [1..n -> S]
    BY <1>1
  <2> HIDE DEF n
  <2>2. items \in Seq(S) /\ Len(items) = n
    BY <2>1, FunctionsAreSequences
  <2> QED
    BY <2>1, <2>2 DEF n
<1>3. Range(items) = S
  BY <1>1, <1>2 DEF Lists, Range
<1> QED
  BY <1>1, <1>2, <1>3 DEF Lists

-----------------------------------------------------------------------------
(* Candidates. *)

\* The band of what is near enough to have one is one of three.
LEMMA BandIs ==
    ASSUME NEW d, d \in Int \/ Band(d) # None
    PROVE  Band(d) \in 1..3 \cup {None}
  BY DEF Band

\* The best of a pool: as many as are asked for when there are enough.
PoolOf(set, h, band) ==
    {c \in set : c.active /\ c.hotspot = h /\ c.d # None /\ Band(c.d) = band}
BestOfPool(set) == {c \in set : Cardinality({b \in set : Preferred(b, c)}) < PerBand}

\* Candidates as the catalog has them.
AreCandidates(set) ==
    /\ IsFiniteSet(set)
    /\ \A c \in set : /\ c.id \in Int /\ c.confidence \in Int /\ c.d \in Int \cup {None}
                      /\ c = [id |-> c.id, active |-> c.active, hotspot |-> c.hotspot, d |-> c.d,
                              confidence |-> c.confidence, valid |-> c.valid, reason |-> c.reason]
    /\ \A a, b \in set : a.id = b.id => a = b

LEMMA BestAreEnough ==
    ASSUME NEW set, IsFiniteSet(set), NEW n \in Nat, n = Cardinality(set), PerBand <= n,
           \A c \in set : c.id \in Int /\ c.confidence \in Int /\ c.d \in Int,
           \A a, b \in set : a.id = b.id => a = b
    PROVE  Cardinality(BestOfPool(set)) = PerBand
<1> DEFINE R == {p \in set \X set : Preferred(p[1], p[2])}
<1>1. \A c, d \in set : <<c, d>> \in R <=> Preferred(c, d)
  OBVIOUS
<1> HIDE DEF R
<1>2. \A c \in set : ~Preferred(c, c)
  BY DEF Preferred
<1>3. \A c, d \in set : c # d => Preferred(c, d) \/ Preferred(d, c)
  BY DEF Preferred
<1>4. \A c, d, e \in set : Preferred(c, d) /\ Preferred(d, e) => Preferred(c, e)
  BY DEF Preferred
<1>5. Orders(R, set)
  BY <1>1, <1>2, <1>3, <1>4, Zenon DEF Orders
<1>6. PerBand \in Nat
  BY EvaluationAssumption
<1>7. Cardinality({c \in set : Preceding(R, set, c) < PerBand}) = Min({PerBand, Cardinality(set)})
  BY <1>5, <1>6, FirstAreAsMany
<1>8. Min({PerBand, Cardinality(set)}) = PerBand
  BY <1>6, MaxOfTwo
<1>9. BestOfPool(set) = {c \in set : Preceding(R, set, c) < PerBand}
  <2>1. \A c \in set : {b \in set : Preferred(b, c)} = {b \in set : <<b, c>> \in R}
    BY <1>1
  <2>2. \A c \in set : Cardinality({b \in set : Preferred(b, c)}) = Preceding(R, set, c)
    BY <2>1 DEF Preceding
  <2> QED
    BY <2>2 DEF BestOfPool
<1> QED
  BY <1>7, <1>8, <1>9

\* Two of a set that has so many.
LEMMA TwoOfASet ==
    ASSUME NEW S, IsFiniteSet(S), Cardinality(S) >= 2
    PROVE  \E x, y \in S : x # y
<1>1. Cardinality(S) \in Nat
  BY FS_CardinalityType
<1>2. PICK x \in S : TRUE
  BY <1>1, FS_EmptySet
<1>3. /\ IsFiniteSet(S \ {x}) /\ Cardinality(S \ {x}) = Cardinality(S) - 1
  BY FS_RemoveElement
<1>4. S \ {x} # {}
  BY <1>1, <1>3, FS_EmptySet
<1> QED
  BY <1>2, <1>4

\* The rows of a review, all of them accepted.
Accepted(set) == {[c EXCEPT !.valid = TRUE] : c \in set}

\* Rows that a sheet can be made of: two of each band at every place.
FillSheets(set, places) ==
    /\ IsFiniteSet(set)
    /\ \A r \in set : r.id \in Int /\ r.valid = TRUE /\ Band(r.d) \in 1..3
    /\ \A a, b \in set : a.id = b.id => a = b
    /\ \A h \in places : \A band \in 1..3 :
          \E a, b \in set : a # b /\ a.hotspot = h /\ b.hotspot = h /\ Band(a.d) = band /\ Band(b.d) = band

LEMMA SelectionFillsSheets ==
    ASSUME NEW set, AreCandidates(set), NEW places, PerBand >= 2,
           NEW picked, picked = SelectCandidates(set, places), picked.shortages = {}
    PROVE  FillSheets(Accepted(picked.chosen), places)
<1> DEFINE chosen == picked.chosen
           pool(h, band) == PoolOf(set, h, band)
<1>1. /\ chosen = UNION {BestOfPool(pool(h, band)) : h \in places, band \in 1..3}
      /\ picked.shortages = {k \in places \X (1..3) : Cardinality(pool(k[1], k[2])) < PerBand}
  <2> DEFINE C == UNION {BestOfPool(pool(h, band)) : h \in places, band \in 1..3}
             S == {k \in places \X (1..3) : Cardinality(pool(k[1], k[2])) < PerBand}
  <2>1. picked = [chosen |-> C, shortages |-> S]
    BY DEF SelectCandidates, BestOfPool, PoolOf
  <2> HIDE DEF C, S
  <2>2. picked.chosen = C /\ picked.shortages = S
    BY <2>1
  <2> QED
    BY <2>2 DEF C, S
<1>2. \A h, band : \A c \in pool(h, band) : /\ c \in set /\ c.hotspot = h /\ c.d # None
                                            /\ Band(c.d) = band
  BY DEF PoolOf
<1>3. \A h, band : \A c \in BestOfPool(pool(h, band)) : c \in pool(h, band)
  BY DEF BestOfPool
<1>4. \A c \in chosen : \E h \in places, band \in 1..3 : c \in pool(h, band)
  BY <1>1, <1>3
<1>5. \A h \in places : \A band \in 1..3 : BestOfPool(pool(h, band)) \subseteq chosen
  BY <1>1
<1>6. \A h \in places : \A band \in 1..3 : ~(Cardinality(pool(h, band)) < PerBand)
  <2> SUFFICES ASSUME NEW h \in places, NEW band \in 1..3, Cardinality(pool(h, band)) < PerBand
               PROVE  FALSE
    OBVIOUS
  <2> DEFINE k == <<h, band>>
  <2>1. k \in places \X (1..3) /\ k[1] = h /\ k[2] = band
    OBVIOUS
  <2> HIDE DEF k, pool
  <2>2. k \in picked.shortages
    BY <1>1, <2>1
  <2> QED
    BY <2>2
<1> HIDE DEF chosen, pool
<1>7. \A c \in chosen : c \in set /\ c.d \in Int /\ Band(c.d) \in 1..3
  BY <1>2, <1>4 DEF AreCandidates
<1>8. ASSUME NEW h \in places, NEW band \in 1..3
      PROVE  \E a, b \in chosen : /\ a # b /\ a.hotspot = h /\ b.hotspot = h
                                  /\ Band(a.d) = band /\ Band(b.d) = band
  <2> DEFINE P == pool(h, band)
             B == BestOfPool(P)
  <2>1. P \in SUBSET set /\ IsFiniteSet(P) /\ Cardinality(P) \in Nat
    <3>1. P \in SUBSET set
      BY <1>2
    <3> QED
      BY <3>1, PartsAreFewer DEF AreCandidates
  <2>2. /\ \A c \in P : c.id \in Int /\ c.confidence \in Int /\ c.d \in Int
        /\ \A a, b \in P : a.id = b.id => a = b
    BY <1>2, <2>1 DEF AreCandidates
  <2>3. PerBand \in Nat
    BY EvaluationAssumption
  <2>4. PerBand <= Cardinality(P)
    BY <1>6, <2>1, <2>3
  <2>5. Cardinality(B) = PerBand
    BY <2>1, <2>2, <2>4, BestAreEnough
  <2>6. B \in SUBSET P /\ IsFiniteSet(B)
    <3>1. B \in SUBSET P
      BY <1>3
    <3> QED
      BY <2>1, <3>1, FS_Subset
  <2> HIDE DEF B
  <2>7. PICK x, y \in B : x # y
    BY <2>3, <2>5, <2>6, TwoOfASet
  <2>8. x \in P /\ y \in P /\ x \in chosen /\ y \in chosen
    BY <1>5, <2>6, <2>7 DEF B
  <2> QED
    BY <1>2, <2>7, <2>8
<1> DEFINE mark == [c \in chosen |-> [c EXCEPT !.valid = TRUE]]
           marked == Accepted(chosen)
<1>9. marked = {mark[c] : c \in chosen}
  BY DEF Accepted
<1>10. \A c \in chosen : /\ mark[c].id = c.id /\ mark[c].hotspot = c.hotspot /\ mark[c].d = c.d
                         /\ mark[c].valid = TRUE
  <2> SUFFICES ASSUME NEW c \in chosen
               PROVE  /\ mark[c].id = c.id /\ mark[c].hotspot = c.hotspot /\ mark[c].d = c.d
                      /\ mark[c].valid = TRUE
    OBVIOUS
  <2>1. c = [id |-> c.id, active |-> c.active, hotspot |-> c.hotspot, d |-> c.d,
             confidence |-> c.confidence, valid |-> c.valid, reason |-> c.reason]
    BY <1>7 DEF AreCandidates
  <2>2. DOMAIN c = {"id", "active", "hotspot", "d", "confidence", "valid", "reason"}
    BY <2>1
  <2>3. mark[c] = [c EXCEPT !.valid = TRUE]
    OBVIOUS
  <2> HIDE DEF mark
  <2> QED
    BY <2>2, <2>3
<1>11. IsFiniteSet(marked)
  <2>1. IsFiniteSet(chosen)
    <3>1. chosen \in SUBSET set
      BY <1>7
    <3> QED
      BY <3>1, FS_Subset DEF AreCandidates
  <2> HIDE DEF mark
  <2> QED
    BY <1>9, <2>1, ImagesAreFinite
<1> HIDE DEF mark, marked
<1>12. \A r \in marked : r.id \in Int /\ r.valid = TRUE /\ Band(r.d) \in 1..3
  <2> SUFFICES ASSUME NEW c \in chosen
               PROVE  mark[c].id \in Int /\ mark[c].valid = TRUE /\ Band(mark[c].d) \in 1..3
    BY <1>9
  <2>1. c.id \in Int /\ Band(c.d) \in 1..3
    BY <1>7 DEF AreCandidates
  <2> QED
    BY <1>10, <2>1
<1>13. \A c, d \in chosen : mark[c].id = mark[d].id => c = d
  BY <1>7, <1>10 DEF AreCandidates
<1>14. \A a, b \in marked : a.id = b.id => a = b
  BY <1>9, <1>13
<1>15. ASSUME NEW h \in places, NEW band \in 1..3
       PROVE  \E a, b \in marked : /\ a # b /\ a.hotspot = h /\ b.hotspot = h
                                   /\ Band(a.d) = band /\ Band(b.d) = band
  <2>1. PICK a, b \in chosen : /\ a # b /\ a.hotspot = h /\ b.hotspot = h
                               /\ Band(a.d) = band /\ Band(b.d) = band
    BY <1>8
  <2>2. mark[a] \in marked /\ mark[b] \in marked /\ mark[a] # mark[b]
    BY <1>9, <1>13, <2>1
  <2> QED
    BY <1>10, <2>1, <2>2
<1>16. FillSheets(marked, places)
  BY <1>11, <1>12, <1>14, <1>15 DEF FillSheets
<1> QED
  BY <1>16 DEF marked, chosen

-----------------------------------------------------------------------------
(* Who is seen twice. *)

\* The next of several is another one.
LEMMA NextIsAnother ==
    ASSUME NEW s \in Nat, NEW n \in Nat, n >= 2
    PROVE  s % n \in 0..(n - 1) /\ (s + 1) % n \in 0..(n - 1) /\ (s + 1) % n # s % n
<1>0. n \in Nat \ {0}
  OBVIOUS
<1>1. s % n \in 0..(n - 1) /\ s \div n \in Nat /\ s = n * (s \div n) + (s % n)
  BY <1>0, Division
<1>2. (s + 1) % n \in 0..(n - 1) /\ (s + 1) \div n \in Nat
      /\ s + 1 = n * ((s + 1) \div n) + ((s + 1) % n)
  <2>1. s + 1 \in Nat /\ n \in Nat \ {0}
    OBVIOUS
  <2> QED
    BY <2>1, Division
<1> DEFINE r == s % n
           p == s \div n
           q == (s + 1) \div n
<1>3. ASSUME (s + 1) % n = r PROVE FALSE
  <2>1. r \in Int /\ p \in Int /\ q \in Int /\ s = n * p + r /\ s + 1 = n * q + r
    BY <1>1, <1>2, <1>3
  <2> HIDE DEF r, p, q
  <2>2. n * p \in Int /\ n * q \in Int
    BY <2>1
  <2>3. n * q = n * p + 1
    BY <2>1, <2>2
  <2>4. CASE q <= p
    <3>1. n * q <= n * p
      BY <2>1, <2>4, ProductsGrow
    <3> QED
      BY <2>2, <2>3, <3>1
  <2>5. CASE p < q
    <3>1. n * p + n <= n * q
      BY <2>1, <2>5, MultiplesGrow
    <3> QED
      BY <2>2, <2>3, <3>1
  <2> QED
    BY <2>1, <2>4, <2>5
<1> QED
  BY <1>1, <1>2, <1>3

\* Four different things are four.
AllApart(a, b, c, d) == a # b /\ a # c /\ b # c /\ d # a /\ d # b /\ d # c

LEMMA FourAreFour ==
    ASSUME NEW a, NEW b, NEW c, NEW d, AllApart(a, b, c, d)
    PROVE  IsFiniteSet({a, b, c} \cup {d}) /\ Cardinality({a, b, c} \cup {d}) = 4
<1>0. a # b /\ a # c /\ b # c /\ d # a /\ d # b /\ d # c
  BY DEF AllApart
<1>1. IsFiniteSet({}) /\ Cardinality({}) = 0
  BY FS_EmptySet
<1>2. IsFiniteSet({a}) /\ Cardinality({a}) = 1
  BY FS_Singleton
<1>3. IsFiniteSet({a, b}) /\ Cardinality({a, b}) = 2
  <2>1. {a} \cup {b} = {a, b} /\ b \notin {a}
    BY <1>0
  <2>2. IsFiniteSet({a} \cup {b}) /\ Cardinality({a} \cup {b}) = Cardinality({a}) + 1
    BY <1>2, <2>1, FS_AddElement
  <2> QED
    BY <1>2, <2>1, <2>2
<1>4. IsFiniteSet({a, b, c}) /\ Cardinality({a, b, c}) = 3
  <2>1. {a, b} \cup {c} = {a, b, c} /\ c \notin {a, b}
    BY <1>0
  <2>2. IsFiniteSet({a, b} \cup {c}) /\ Cardinality({a, b} \cup {c}) = Cardinality({a, b}) + 1
    BY <1>3, <2>1, FS_AddElement
  <2> QED
    BY <1>3, <2>1, <2>2
<1>5. d \notin {a, b, c}
  BY <1>0
<1>6. IsFiniteSet({a, b, c} \cup {d}) /\ Cardinality({a, b, c} \cup {d}) = Cardinality({a, b, c}) + 1
  BY <1>4, <1>5, FS_AddElement
<1> QED
  BY <1>4, <1>6

\* Four are seen twice: one of each band, and another one of the band whose turn it is.
LEMMA FourAreSeenTwice ==
    ASSUME NEW band, NEW list, \A b \in 1..3 : Lists(list[b], band[b]) /\ Cardinality(band[b]) >= 2,
           \A b, c \in 1..3 : \A x \in band[b] : \A y \in band[c] : x.id = y.id => x = y /\ b = c,
           NEW session \in Nat
    PROVE  LET twice == Overlapping(list, session) IN
           /\ IsFiniteSet(twice) /\ Cardinality(twice) = 4
           /\ \A t \in twice : \E b \in 1..3 : \E x \in band[b] : t = x.id
<1> DEFINE turn == 1 + (session % 3)
           n(b) == Len(list[b])
           at(b, k) == list[b][1 + (k % n(b))]
           selected == {Nth(list, b, session) : b \in 1..3} \cup {Nth(list, turn, session + 1)}
<1>1. \A b \in 1..3 : /\ n(b) \in Nat /\ n(b) >= 2 /\ DOMAIN list[b] = 1..n(b)
                      /\ \A i \in 1..n(b) : list[b][i] \in band[b]
                      /\ \A i, j \in 1..n(b) : list[b][i] = list[b][j] => i = j
  <2> TAKE b \in 1..3
  <2>1. Lists(list[b], band[b]) /\ Cardinality(band[b]) >= 2
    OBVIOUS
  <2>2. /\ Len(list[b]) = Cardinality(band[b]) /\ Len(list[b]) \in Nat
        /\ DOMAIN list[b] = 1..Len(list[b])
        /\ \A i \in 1..Len(list[b]) : list[b][i] \in band[b]
        /\ \A i, j \in 1..Len(list[b]) : list[b][i] = list[b][j] => i = j
    BY <2>1, ListsAre, Zenon
  <2>3. Len(list[b]) >= 2
    BY <2>1, <2>2
  <2> QED
    BY <2>2, <2>3
<1>2. turn \in 1..3
  <2>1. session % 3 \in 0..(3 - 1)
    BY Division
  <2> QED
    BY <2>1
<1>3. \A b, k : Nth(list, b, k) = at(b, k).id
  BY Zenon DEF Nth
<1> HIDE DEF turn, n
<1>4. \A b \in 1..3 : at(b, session) \in band[b]
  <2> SUFFICES ASSUME NEW b \in 1..3 PROVE at(b, session) \in band[b]
    OBVIOUS
  <2>1. session % n(b) \in 0..(n(b) - 1) /\ n(b) \in Nat
    BY <1>1, NextIsAnother
  <2>2. 1 + (session % n(b)) \in 1..n(b)
    BY <2>1
  <2> QED
    BY <1>1, <2>2
<1>5. at(turn, session + 1) \in band[turn] /\ at(turn, session + 1) # at(turn, session)
  <2>1. /\ session % n(turn) \in 0..(n(turn) - 1) /\ n(turn) \in Nat
        /\ (session + 1) % n(turn) \in 0..(n(turn) - 1)
        /\ (session + 1) % n(turn) # session % n(turn)
    BY <1>1, <1>2, NextIsAnother
  <2> DEFINE i == 1 + (session % n(turn))
             j == 1 + ((session + 1) % n(turn))
  <2>2. i \in 1..n(turn) /\ j \in 1..n(turn) /\ i # j
    BY <2>1
  <2> HIDE DEF i, j
  <2>3. list[turn][i] \in band[turn] /\ list[turn][j] \in band[turn] /\ list[turn][i] # list[turn][j]
    BY <1>1, <1>2, <2>2
  <2> QED
    BY <2>3 DEF i, j
<1> HIDE DEF at
<1>6. \A x, y \in 1..3 : x # y => at(x, session).id # at(y, session).id
  BY <1>4
<1>7. \A b \in 1..3 : at(turn, session + 1).id # at(b, session).id
  BY <1>2, <1>4, <1>5
<1> DEFINE p == at(1, session).id
           q == at(2, session).id
           r == at(3, session).id
           e == at(turn, session + 1).id
<1>8. p # q /\ p # r /\ q # r /\ e # p /\ e # q /\ e # r
  <2>1. 1 \in 1..3 /\ 2 \in 1..3 /\ 3 \in 1..3 /\ 1 # 2 /\ 1 # 3 /\ 2 # 3
    OBVIOUS
  <2> QED
    BY <1>6, <1>7, <2>1, Zenon
<1>9. selected = {p, q, r} \cup {e}
  <2>1. 1..3 = {1, 2, 3}
    OBVIOUS
  <2>2. {Nth(list, b, session) : b \in 1..3} = {Nth(list, 1, session), Nth(list, 2, session), Nth(list, 3, session)}
    BY <2>1, Zenon
  <2> QED
    BY <1>3, <2>2, Zenon
<1>10. \A t \in selected : \E b \in 1..3 : \E x \in band[b] : t = x.id
  <2> SUFFICES ASSUME NEW t \in selected PROVE \E b \in 1..3 : \E x \in band[b] : t = x.id
    OBVIOUS
  <2>1. t = p \/ t = q \/ t = r \/ t = e
    BY <1>9
  <2>2. at(1, session) \in band[1] /\ at(2, session) \in band[2] /\ at(3, session) \in band[3]
    BY <1>4
  <2> QED
    BY <1>2, <1>5, <2>1, <2>2
<1> HIDE DEF p, q, r, e, selected
<1>11. IsFiniteSet(selected) /\ Cardinality(selected) = 4
  <2>1. IsFiniteSet({p, q, r} \cup {e}) /\ Cardinality({p, q, r} \cup {e}) = 4
    <3>1. AllApart(p, q, r, e)
      BY <1>8 DEF AllApart
    <3> QED
      BY <3>1, FourAreFour
  <2> QED
    BY <1>9, <2>1
<1>12. (\A b \in 1..3 : list[b] # <<>>) /\ ~(Len(list[turn]) < 2)
  <2>1. \A b \in 1..3 : 1 \in DOMAIN list[b]
    BY <1>1
  <2>2. DOMAIN <<>> = {}
    OBVIOUS
  <2>3. \A b \in 1..3 : list[b] # <<>>
    BY <2>1, <2>2
  <2>4. n(turn) \in Nat /\ n(turn) >= 2
    BY <1>1, <1>2
  <2> QED
    BY <2>3, <2>4 DEF n
<1>13. Overlapping(list, session) = selected
  BY <1>11, <1>12, Zenon DEF Overlapping, selected, turn
<1> QED
  BY <1>10, <1>11, <1>13

-----------------------------------------------------------------------------
(* Sheets. *)

\* Refused is no table and no set of cafes, and no verdict is None.
SheetsAreApart ==
    /\ Refused # [x \in DOMAIN Refused |-> Refused[x]]
    /\ Refused \notin SUBSET Int
    /\ None \notin BOOLEAN

\* The sheet of a session of n places: ids by place, some seen twice.
Numbered(t) ==
    /\ t.n \in Nat /\ \A a \in 1..t.n : t.ids[a] \in Int
    /\ \A a, b \in 1..t.n : t.ids[a] = t.ids[b] => a = b
    /\ IsFiniteSet(t.twice) /\ Cardinality(t.twice) = 4
    /\ \A x \in t.twice : \E a \in 1..t.n : t.ids[a] = x

ObserverOf(a, session, role) == (a - 1 + session + (IF role = "primary" THEN 0 ELSE 1)) % 2
SheetOf(t, session) ==
    [k \in {p \in (1..t.n) \X {"primary", "reliability"} : p[2] = "reliability" => t.ids[p[1]] \in t.twice} |->
        [cafe |-> t.ids[k[1]], slot |-> session, role |-> k[2], observer |-> ObserverOf(k[1], session, k[2])]]

\* The sheet of the candidates that were found to fit.
SheetFrom(mine, session) ==
    LET all == ByPlace(mine)
        list == [b \in 1..3 |-> ByPlace({r \in mine : Band(r.d) = b})]
        twice == Overlapping(list, session)
        row(i, role) ==
            [cafe |-> all[i].id, slot |-> session, role |-> role,
             observer |-> (i - 1 + session + (IF role = "primary" THEN 0 ELSE 1)) % 2]
    IN  IF mine = {} \/ (\E r \in mine : Band(r.d) = None) \/ twice = Refused THEN Refused
        ELSE [k \in {p \in (DOMAIN all) \X {"primary", "reliability"} :
                         p[2] = "reliability" => all[p[1]].id \in twice} |-> row(k[1], k[2])]

LEMMA SheetIs ==
    ASSUME SheetsAreApart, NEW places, NEW set, FillSheets(set, places),
           NEW list, Lists(list, set), NEW h \in places, NEW session \in Nat
    PROVE  \E t : Numbered(t) /\ SessionSheet(list, h, session) = SheetOf(t, session)
<1> DEFINE mine == {r \in set : r.hotspot = h}
           band == [b \in 1..3 |-> {r \in mine : Band(r.d) = b}]
           all == ByPlace(mine)
           lists == [b \in 1..3 |-> ByPlace({r \in mine : Band(r.d) = b})]
           twice == Overlapping(lists, session)
           n == Len(all)
           ids == [i \in 1..n |-> all[i].id]
           t == [n |-> n, ids |-> ids, twice |-> twice]
           row(i, role) ==
               [cafe |-> all[i].id, slot |-> session, role |-> role,
                observer |-> (i - 1 + session + (IF role = "primary" THEN 0 ELSE 1)) % 2]
           keys == {p \in (DOMAIN all) \X {"primary", "reliability"} :
                        p[2] = "reliability" => all[p[1]].id \in twice}
<1>1. IsFiniteSet(mine) /\ \A r \in mine : r \in set /\ r.id \in Int /\ Band(r.d) \in 1..3
  <2>1. mine \in SUBSET set
    OBVIOUS
  <2> QED
    BY <2>1, FS_Subset DEF FillSheets
<1>2. \A a, b \in mine : a.id = b.id => a = b
  BY DEF FillSheets
<1>3. {r \in Range(list) : r.valid = TRUE /\ r.hotspot = h} = mine
  <2>1. Range(list) = set
    BY ListsAre
  <2> QED
    BY <2>1 DEF FillSheets
<1>4. SessionSheet(list, h, session) =
          IF mine = {} \/ (\E r \in mine : Band(r.d) = None) \/ twice = Refused THEN Refused
          ELSE [k \in keys |-> row(k[1], k[2])]
  <2> DEFINE fits == {r \in Range(list) : r.valid = TRUE /\ r.hotspot = h}
  <2>1. SessionSheet(list, h, session) = SheetFrom(fits, session)
    BY Zenon DEF SessionSheet, SheetFrom, ByPlace
  <2>2. SheetFrom(mine, session) =
            IF mine = {} \/ (\E r \in mine : Band(r.d) = None) \/ twice = Refused THEN Refused
            ELSE [k \in keys |-> row(k[1], k[2])]
    BY Zenon DEF SheetFrom
  <2> HIDE DEF row, keys, twice, all, mine
  <2> QED
    BY <1>3, <2>1, <2>2
<1> HIDE DEF row, keys, twice, all, mine
<1>5. Lists(all, mine)
  <2>1. \A r \in mine : r.id \in Int /\ Band(r.d) \in Int
    BY <1>1
  <2> QED
    BY <1>1, <1>2, <2>1, ByPlaceIsListed DEF all
<1>6. /\ n \in Nat /\ DOMAIN all = 1..n /\ Range(all) = mine /\ \A i \in 1..n : all[i] \in mine
      /\ \A i, j \in 1..n : all[i] = all[j] => i = j
  BY <1>5, ListsAre
<1>7. ASSUME NEW b \in 1..3
      PROVE  Lists(lists[b], band[b]) /\ Cardinality(band[b]) >= 2
  <2> DEFINE S == {r \in mine : Band(r.d) = b}
  <2>1. S \in SUBSET mine /\ IsFiniteSet(S) /\ Cardinality(S) \in Nat
    <3>1. S \in SUBSET mine
      OBVIOUS
    <3> QED
      BY <1>1, <3>1, PartsAreFewer
  <2>2. lists[b] = ByPlace(S) /\ band[b] = S
    BY Zenon
  <2>3. PICK x, y \in set : x # y /\ x.hotspot = h /\ y.hotspot = h /\ Band(x.d) = b /\ Band(y.d) = b
    BY DEF FillSheets
  <2>4. x \in S /\ y \in S
    BY <2>3 DEF mine
  <2> HIDE DEF S, lists, band
  <2>5. Lists(lists[b], band[b])
    <3>1. \A r \in S : r.id \in Int /\ Band(r.d) \in Int
      BY <1>1, <2>1
    <3>2. \A a, c \in S : a.id = c.id => a = c
      BY <1>2, <2>1
    <3>3. Lists(ByPlace(S), S)
      BY <2>1, <3>1, <3>2, ByPlaceIsListed
    <3> QED
      BY <2>2, <3>3
  <2>6. Cardinality(S) >= 2
    <3>1. {x, y} \in SUBSET S
      BY <2>4
    <3>2. Cardinality({x, y}) = 2
      <4>1. IsFiniteSet({x}) /\ Cardinality({x}) = 1
        BY FS_Singleton
      <4>2. {x} \cup {y} = {x, y} /\ y \notin {x}
        BY <2>3
      <4>3. Cardinality({x} \cup {y}) = Cardinality({x}) + 1
        BY <4>1, <4>2, FS_AddElement
      <4> QED
        BY <4>1, <4>2, <4>3
    <3>3. Cardinality({x, y}) <= Cardinality(S)
      BY <2>1, <3>1, PartsAreFewer
    <3> QED
      BY <2>1, <3>2, <3>3
  <2> QED
    BY <2>2, <2>5, <2>6
<1>8. \A b, c \in 1..3 : \A x \in band[b] : \A y \in band[c] : x.id = y.id => x = y /\ b = c
  BY <1>2
<1>9. \A b \in 1..3 : \A x \in band[b] : x \in mine
  OBVIOUS
<1> HIDE DEF lists, band
<1>10. /\ IsFiniteSet(twice) /\ Cardinality(twice) = 4
       /\ \A x \in twice : \E b \in 1..3 : \E r \in band[b] : x = r.id
  BY <1>7, <1>8, FourAreSeenTwice DEF twice
<1>11. twice # Refused
  <2>1. twice \in SUBSET Int
    BY <1>1, <1>9, <1>10
  <2> QED
    BY <2>1 DEF SheetsAreApart
<1>12. mine # {} /\ ~(\E r \in mine : Band(r.d) = None)
  <2>1. \E x \in set : x.hotspot = h
    <3>1. 1 \in 1..3
      OBVIOUS
    <3> QED
      BY <3>1 DEF FillSheets
  <2> QED
    BY <1>1, <2>1, OutcomesAssumption DEF mine
<1>13. SessionSheet(list, h, session) = [k \in keys |-> row(k[1], k[2])]
  BY <1>4, <1>11, <1>12, Zenon
<1>14. t.n = n /\ t.ids = ids /\ t.twice = twice
  OBVIOUS
<1>15. \A i \in 1..n : ids[i] = all[i].id /\ ids[i] \in Int
  BY <1>1, <1>6
<1> HIDE DEF t, ids, n
<1>16. Numbered(t)
  <2>1. \A a, b \in 1..n : ids[a] = ids[b] => a = b
    BY <1>2, <1>6, <1>15
  <2>2. \A x \in twice : \E a \in 1..n : ids[a] = x
    <3> SUFFICES ASSUME NEW x \in twice PROVE \E a \in 1..n : ids[a] = x
      OBVIOUS
    <3>1. PICK r \in mine : x = r.id
      BY <1>9, <1>10
    <3>2. PICK a \in DOMAIN all : all[a] = r
      BY <1>6, <3>1 DEF Range
    <3> QED
      BY <1>6, <1>15, <3>1, <3>2
  <2> QED
    BY <1>6, <1>10, <1>14, <1>15, <2>1, <2>2 DEF Numbered
<1>17. [k \in keys |-> row(k[1], k[2])] = SheetOf(t, session)
  <2> DEFINE seen == {p \in (1..t.n) \X {"primary", "reliability"} :
                          p[2] = "reliability" => t.ids[p[1]] \in t.twice}
             line(k) == [cafe |-> t.ids[k[1]], slot |-> session, role |-> k[2],
                         observer |-> ObserverOf(k[1], session, k[2])]
  <2>1. keys = seen
    BY <1>6, <1>14, <1>15 DEF keys
  <2>2. \A k \in seen : row(k[1], k[2]) = line(k)
    <3> SUFFICES ASSUME NEW k \in seen PROVE row(k[1], k[2]) = line(k)
      OBVIOUS
    <3>1. all[k[1]].id = t.ids[k[1]]
      BY <1>14, <1>15
    <3> QED
      BY <3>1, Zenon DEF row, ObserverOf
  <2>3. SheetOf(t, session) = [k \in seen |-> line(k)]
    BY Zenon DEF SheetOf
  <2> HIDE DEF seen, line
  <2> QED
    BY <2>1, <2>2, <2>3
<1> QED
  BY <1>13, <1>16, <1>17

-----------------------------------------------------------------------------
(* Who observes. *)

\* A number and the next one are one even and one odd.
LEMMA Alternates ==
    ASSUME NEW x \in Nat
    PROVE  x % 2 \in {0, 1} /\ (x + 1) % 2 \in {0, 1} /\ (x + 1) % 2 # x % 2
<1>1. x % 2 \in 0..(2 - 1) /\ (x + 1) % 2 \in 0..(2 - 1) /\ (x + 1) % 2 # x % 2
  <2>1. 2 \in Nat /\ 2 >= 2
    OBVIOUS
  <2> QED
    BY <2>1, NextIsAnother
<1> QED
  BY <1>1

LEMMA ObserversAlternate ==
    ASSUME NEW a \in Nat \ {0}, NEW session \in Nat
    PROVE  /\ ObserverOf(a, session, "primary") \in {0, 1}
           /\ ObserverOf(a, session, "reliability") # ObserverOf(a, session, "primary")
           /\ ObserverOf(a + 1, session, "primary") # ObserverOf(a, session, "primary")
<1> DEFINE x == a - 1 + session
<1>1. x \in Nat /\ x + 0 = x /\ (a + 1) - 1 + session + 0 = x + 1
  OBVIOUS
<1>2. /\ ObserverOf(a, session, "primary") = (x + 0) % 2
      /\ ObserverOf(a, session, "reliability") = (x + 1) % 2
      /\ ObserverOf(a + 1, session, "primary") = ((a + 1) - 1 + session + 0) % 2
  <2>1. "reliability" # "primary"
    OBVIOUS
  <2> QED
    BY <2>1, Zenon DEF ObserverOf
<1> HIDE DEF x
<1>3. x % 2 \in {0, 1} /\ (x + 1) % 2 # x % 2
  BY <1>1, Alternates
<1> QED
  BY <1>1, <1>2, <1>3

\* The places of one observer.
PlacesOf(n, session, o) == {a \in 1..n : ObserverOf(a, session, "primary") = o}

LEMMA PlacesAreShared ==
    ASSUME NEW n \in Nat, NEW session \in Nat, NEW o \in {0, 1}, NEW p \in {0, 1}, o # p
    PROVE  /\ IsFiniteSet(PlacesOf(n, session, o)) /\ Cardinality(PlacesOf(n, session, o)) \in Nat
           /\ IsFiniteSet(PlacesOf(n, session, p)) /\ Cardinality(PlacesOf(n, session, p)) \in Nat
           /\ Cardinality(PlacesOf(n, session, o)) <= Cardinality(PlacesOf(n, session, p)) + 1
<1> DEFINE E == PlacesOf(n, session, o)
           F == PlacesOf(n, session, p)
           D == E \ {n}
           next == [a \in D |-> a + 1]
           I == {next[a] : a \in D}
<1>1. IsFiniteSet(1..n)
  BY FS_Interval
<1>2. E \in SUBSET (1..n) /\ F \in SUBSET (1..n)
  BY DEF PlacesOf
<1>3. IsFiniteSet(E) /\ Cardinality(E) \in Nat /\ IsFiniteSet(F) /\ Cardinality(F) \in Nat
  BY <1>1, <1>2, PartsAreFewer
<1>4. IsFiniteSet(D) /\ Cardinality(D) \in Nat /\ Cardinality(E) <= Cardinality(D) + 1
  <2>1. CASE n \in E
    <3>1. IsFiniteSet(E \ {n}) /\ Cardinality(E \ {n}) = Cardinality(E) - 1
      BY <1>3, <2>1, FS_RemoveElement
    <3> QED
      BY <1>3, <3>1, FS_CardinalityType
  <2>2. CASE n \notin E
    <3>1. D = E
      BY <2>2
    <3> QED
      BY <1>3, <3>1
  <2> QED
    BY <2>1, <2>2
<1>5. \A a \in D : next[a] = a + 1 /\ a \in Nat \ {0} /\ a + 1 \in 1..n
                   /\ ObserverOf(a, session, "primary") = o
  <2> SUFFICES ASSUME NEW a \in D
               PROVE  next[a] = a + 1 /\ a \in Nat \ {0} /\ a + 1 \in 1..n
                      /\ ObserverOf(a, session, "primary") = o
    OBVIOUS
  <2>1. a \in 1..n /\ a # n /\ ObserverOf(a, session, "primary") = o
    BY DEF PlacesOf
  <2> QED
    BY <2>1
<1> HIDE DEF D, next, E, F
<1>6. \A a \in D : next[a] \in F
  <2> SUFFICES ASSUME NEW a \in D PROVE next[a] \in F
    OBVIOUS
  <2>1. /\ ObserverOf(a, session, "primary") = o
        /\ ObserverOf(a + 1, session, "primary") # ObserverOf(a, session, "primary")
        /\ ObserverOf(a + 1, session, "primary") \in {0, 1}
    <3>1. a \in Nat \ {0} /\ a + 1 \in Nat \ {0}
      BY <1>5
    <3> QED
      BY <1>5, <3>1, ObserversAlternate
  <2>2. ObserverOf(a + 1, session, "primary") = p
    BY <2>1
  <2> QED
    BY <1>5, <2>2 DEF F, PlacesOf
<1>7. \A a, b \in D : next[a] = next[b] => a = b
  BY <1>5
<1>8. OneForOne(next, D, I)
  BY <1>7, Zenon DEF OneForOne
<1> HIDE DEF I
<1>9. Cardinality(I) = Cardinality(D)
  BY <1>4, <1>8, OneForOneAreAsMany
<1>10. I \subseteq F
  BY <1>6 DEF I
<1>11. Cardinality(I) <= Cardinality(F)
  BY <1>3, <1>10, PartsAreFewer
<1> QED
  BY <1>3, <1>4, <1>9, <1>11 DEF E, F

\* The keys of a worksheet, and its rows by session, place and role.
Roles == {"primary", "reliability"}
KeyOf(s, a, role) == <<s, <<a, role>>>>
IsKey(T, m, s, a, role) ==
    /\ s \in 1..m /\ a \in 1..T[s].n /\ role \in Roles
    /\ role = "reliability" => T[s].ids[a] \in T[s].twice
IsRow(T, sheet, s, a, role) ==
    LET r == sheet[KeyOf(s, a, role)] IN
    /\ r.cafe = T[s].ids[a] /\ r.slot = s - 1 /\ r.role = role
    /\ r.observer = ObserverOf(a, s - 1, role)
Composed(sheet, T, m) ==
    /\ \A i \in DOMAIN sheet : \E s, a, role : i = KeyOf(s, a, role) /\ IsKey(T, m, s, a, role)
    /\ \A s, a, role : IsKey(T, m, s, a, role) => /\ KeyOf(s, a, role) \in DOMAIN sheet
                                                  /\ IsRow(T, sheet, s, a, role)

LEMMA KeysAreOfOne ==
    ASSUME NEW s, NEW a, NEW role, NEW r, NEW b, NEW other, KeyOf(s, a, role) = KeyOf(r, b, other)
    PROVE  s = r /\ a = b /\ role = other
  BY DEF KeyOf

\* The places and roles of a session's sheet, and what stands there.
LEMMA SheetPlacesAre ==
    ASSUME NEW t, NEW session, NEW p
    PROVE  /\ p \in DOMAIN SheetOf(t, session) <=>
                  /\ p \in (1..t.n) \X Roles
                  /\ p[2] = "reliability" => t.ids[p[1]] \in t.twice
           /\ p \in DOMAIN SheetOf(t, session) =>
                  SheetOf(t, session)[p] = [cafe |-> t.ids[p[1]], slot |-> session, role |-> p[2],
                                            observer |-> ObserverOf(p[1], session, p[2])]
  BY DEF SheetOf, Roles

\* The worksheet is composed of the sheets of its sessions.
LEMMA WorksheetIs ==
    ASSUME SheetsAreApart, NEW hotspots, NEW m \in Nat \ {0}, DOMAIN hotspots = 1..m,
           NEW set, FillSheets(set, Range(hotspots)),
           NEW list, Lists(list, set)
    PROVE  /\ Worksheet(list, hotspots) # Refused
           /\ \E T : /\ \A s \in 1..m : Numbered(T[s])
                     /\ Composed(Worksheet(list, hotspots), T, m)
<1> DEFINE sheet(s) == SessionSheet(list, hotspots[s], s - 1)
           sheets == [s \in DOMAIN hotspots |-> sheet(s)]
           T == [s \in 1..m |-> CHOOSE t : Numbered(t) /\ sheet(s) = SheetOf(t, s - 1)]
           keys == UNION {{s} \X (DOMAIN sheets[s]) : s \in DOMAIN sheets}
           work == [k \in keys |-> sheets[k[1]][k[2]]]
<1>1. \A s \in 1..m : Numbered(T[s]) /\ sheet(s) = SheetOf(T[s], s - 1)
  <2> SUFFICES ASSUME NEW s \in 1..m PROVE Numbered(T[s]) /\ sheet(s) = SheetOf(T[s], s - 1)
    OBVIOUS
  <2>1. hotspots[s] \in Range(hotspots) /\ s - 1 \in Nat
    BY DEF Range
  <2>2. \E t : Numbered(t) /\ SessionSheet(list, hotspots[s], s - 1) = SheetOf(t, s - 1)
    BY <2>1, SheetIs
  <2>3. T[s] = CHOOSE t : Numbered(t) /\ sheet(s) = SheetOf(t, s - 1)
    OBVIOUS
  <2> HIDE DEF T
  <2> QED
    BY <2>2, <2>3, Zenon
<1>2. \A s \in 1..m : sheet(s) # Refused
  <2> SUFFICES ASSUME NEW s \in 1..m, sheet(s) = Refused PROVE FALSE
    OBVIOUS
  <2>1. Refused = SheetOf(T[s], s - 1)
    BY <1>1
  <2>2. SheetOf(T[s], s - 1) = [k \in DOMAIN SheetOf(T[s], s - 1) |-> SheetOf(T[s], s - 1)[k]]
    BY DEF SheetOf
  <2> QED
    BY <2>1, <2>2 DEF SheetsAreApart
<1>3. Reviewed(list) # Refused
  <2>1. /\ Len(list) \in Nat /\ DOMAIN list = 1..Len(list) /\ Range(list) = set
        /\ \A i \in 1..Len(list) : list[i] \in set
        /\ \A i, j \in 1..Len(list) : list[i] = list[j] => i = j
    BY ListsAre
  <2>2. \A r \in Range(list) : r.valid = TRUE
    BY <2>1 DEF FillSheets
  <2>3. \A i, j \in DOMAIN list : i # j => list[i].id # list[j].id
    BY <2>1 DEF FillSheets
  <2>4. ~(\A r \in Range(list) : r.valid # TRUE)
    <3>1. hotspots[1] \in Range(hotspots) /\ 1 \in 1..3
      BY DEF Range
    <3>2. set # {}
      BY <3>1 DEF FillSheets
    <3> QED
      BY <2>1, <2>2, <3>2
  <2>5. TRUE # None
    BY DEF SheetsAreApart
  <2>6. ~(\E r \in Range(list) : r.valid = None \/ (r.valid = FALSE /\ r.reason = None))
    BY <2>2, <2>5
  <2>7. Reviewed(list) = list
    BY <2>3, <2>4, <2>6, Zenon DEF Reviewed
  <2>8. list = [i \in DOMAIN list |-> list[i]]
    BY DEF Lists
  <2> QED
    BY <2>7, <2>8 DEF SheetsAreApart
<1>4. Worksheet(list, hotspots) = work
  <2>1. \A s \in DOMAIN sheets : sheets[s] # Refused
    BY <1>2
  <2>2. hotspots # <<>>
    <3>1. 1 \in DOMAIN hotspots
      OBVIOUS
    <3>2. DOMAIN <<>> = {}
      OBVIOUS
    <3> QED
      BY <3>1, <3>2
  <2>3. Worksheet(list, hotspots) =
            IF hotspots = <<>> \/ Reviewed(list) = Refused \/ \E s \in DOMAIN sheets : sheets[s] = Refused
            THEN Refused ELSE work
    BY Zenon DEF Worksheet
  <2> HIDE DEF sheets, work
  <2> QED
    BY <1>3, <2>1, <2>2, <2>3, Zenon
<1>5. work # Refused
  <2>1. work = [k \in DOMAIN work |-> work[k]]
    OBVIOUS
  <2> HIDE DEF work
  <2> QED
    BY <2>1 DEF SheetsAreApart
<1>6. \A s \in 1..m : \A p : p \in DOMAIN sheet(s) <=>
          /\ p \in (1..T[s].n) \X Roles
          /\ p[2] = "reliability" => T[s].ids[p[1]] \in T[s].twice
  <2> SUFFICES ASSUME NEW s \in 1..m, NEW p
               PROVE  p \in DOMAIN sheet(s) <=>
                          /\ p \in (1..T[s].n) \X Roles
                          /\ p[2] = "reliability" => T[s].ids[p[1]] \in T[s].twice
    BY Zenon
  <2>1. sheet(s) = SheetOf(T[s], s - 1)
    BY <1>1
  <2> HIDE DEF sheet, T
  <2> QED
    BY <2>1, SheetPlacesAre
<1>7. \A s \in 1..m : \A p \in DOMAIN sheet(s) : sheet(s)[p] =
          [cafe |-> T[s].ids[p[1]], slot |-> s - 1, role |-> p[2],
           observer |-> ObserverOf(p[1], s - 1, p[2])]
  <2> SUFFICES ASSUME NEW s \in 1..m, NEW p \in DOMAIN sheet(s)
               PROVE  sheet(s)[p] = [cafe |-> T[s].ids[p[1]], slot |-> s - 1, role |-> p[2],
                                     observer |-> ObserverOf(p[1], s - 1, p[2])]
    BY Zenon
  <2>1. sheet(s) = SheetOf(T[s], s - 1)
    BY <1>1
  <2> HIDE DEF sheet, T
  <2> QED
    BY <2>1, SheetPlacesAre
<1>8. DOMAIN sheets = 1..m /\ \A s \in 1..m : sheets[s] = sheet(s)
  OBVIOUS
<1>9. DOMAIN work = keys /\ \A k \in keys : work[k] = sheets[k[1]][k[2]]
  OBVIOUS
<1>10. \A k : k \in keys <=> \E s \in 1..m : \E p \in DOMAIN sheet(s) : k = <<s, p>>
  BY <1>8
<1> HIDE DEF sheet, sheets, T, keys, work
<1>11. ASSUME NEW i \in DOMAIN work
       PROVE  \E s, a, role : i = KeyOf(s, a, role) /\ IsKey(T, m, s, a, role)
  <2>1. PICK s \in 1..m : \E p \in DOMAIN sheet(s) : i = <<s, p>>
    BY <1>9, <1>10
  <2>2. PICK p \in DOMAIN sheet(s) : i = <<s, p>>
    BY <2>1
  <2>3. /\ p \in (1..T[s].n) \X Roles
        /\ p[2] = "reliability" => T[s].ids[p[1]] \in T[s].twice
    BY <1>6, <2>2
  <2>4. i = KeyOf(s, p[1], p[2])
    BY <2>2, <2>3 DEF KeyOf
  <2>5. IsKey(T, m, s, p[1], p[2])
    BY <2>3 DEF IsKey
  <2> QED
    BY <2>4, <2>5
<1>12. ASSUME NEW s, NEW a, NEW role, IsKey(T, m, s, a, role)
       PROVE  KeyOf(s, a, role) \in DOMAIN work /\ IsRow(T, work, s, a, role)
  <2> DEFINE p == <<a, role>>
             k == KeyOf(s, a, role)
  <2>1. s \in 1..m /\ p \in (1..T[s].n) \X Roles /\ p[1] = a /\ p[2] = role
    BY <1>12 DEF IsKey
  <2>2. k = <<s, p>> /\ k[1] = s /\ k[2] = p
    BY DEF KeyOf
  <2>3. role = "reliability" => T[s].ids[a] \in T[s].twice
    BY <1>12 DEF IsKey
  <2> HIDE DEF p, k
  <2>4. p \in DOMAIN sheet(s)
    BY <1>6, <2>1, <2>3
  <2>5. k \in keys /\ work[k] = sheet(s)[p]
    BY <1>8, <1>9, <1>10, <2>1, <2>2, <2>4
  <2>6. work[k] = [cafe |-> T[s].ids[a], slot |-> s - 1, role |-> role,
                   observer |-> ObserverOf(a, s - 1, role)]
    BY <1>7, <2>1, <2>4, <2>5
  <2>7. /\ work[k].cafe = T[s].ids[a] /\ work[k].slot = s - 1 /\ work[k].role = role
        /\ work[k].observer = ObserverOf(a, s - 1, role)
    BY <2>6
  <2> QED
    BY <1>9, <2>5, <2>7 DEF IsRow, k
<1>13. Composed(work, T, m)
  BY <1>11, <1>12, Zenon DEF Composed
<1>14. \A s \in 1..m : Numbered(T[s])
  BY <1>1
<1>15. \E U : (\A s \in 1..m : Numbered(U[s])) /\ Composed(work, U, m)
  BY <1>13, <1>14, Zenon
<1> QED
  BY <1>4, <1>5, <1>15, Zenon

\* A worksheet composed so is well structured.
LEMMA ComposedIsWellStructured ==
    ASSUME NEW m \in Nat, NEW T, \A s \in 1..m : Numbered(T[s]), NEW sheet, Composed(sheet, T, m)
    PROVE  WellStructured(sheet)
<1>1. ASSUME NEW i \in DOMAIN sheet
      PROVE  \E s, a, role : /\ i = KeyOf(s, a, role) /\ IsKey(T, m, s, a, role)
                             /\ IsRow(T, sheet, s, a, role)
  BY Zenon DEF Composed
<1>2. ASSUME NEW s, NEW a, NEW role, IsKey(T, m, s, a, role)
      PROVE  s \in 1..m /\ s - 1 \in Nat /\ a \in Nat \ {0} /\ a \in 1..T[s].n /\ role \in Roles
  BY <1>2 DEF IsKey, Numbered
<1>3. ASSUME NEW i \in DOMAIN sheet, NEW j \in DOMAIN sheet, i # j,
             sheet[i].observer = sheet[j].observer, sheet[i].cafe = sheet[j].cafe,
             sheet[i].slot = sheet[j].slot
      PROVE  FALSE
  <2>1. PICK s, a, role : /\ i = KeyOf(s, a, role) /\ IsKey(T, m, s, a, role)
                          /\ IsRow(T, sheet, s, a, role)
    BY <1>1
  <2>2. PICK r, b, other : /\ j = KeyOf(r, b, other) /\ IsKey(T, m, r, b, other)
                           /\ IsRow(T, sheet, r, b, other)
    BY <1>1
  <2>3. /\ sheet[i].cafe = T[s].ids[a] /\ sheet[i].slot = s - 1
        /\ sheet[i].observer = ObserverOf(a, s - 1, role)
    BY <2>1 DEF IsRow
  <2>4. /\ sheet[j].cafe = T[r].ids[b] /\ sheet[j].slot = r - 1
        /\ sheet[j].observer = ObserverOf(b, r - 1, other)
    BY <2>2 DEF IsRow
  <2>5. s \in 1..m /\ r \in 1..m /\ a \in 1..T[s].n /\ b \in 1..T[r].n /\ s - 1 \in Nat
        /\ a \in Nat \ {0} /\ role \in Roles /\ other \in Roles
    BY <1>2, <2>1, <2>2
  <2>6. s = r
    <3>1. s - 1 = r - 1
      BY <1>3, <2>3, <2>4
    <3>2. s \in Int /\ r \in Int
      BY <2>5
    <3> QED
      BY <3>1, <3>2
  <2>7. a = b
    <3>1. T[s].ids[a] = T[s].ids[b] /\ b \in 1..T[s].n
      BY <1>3, <2>3, <2>4, <2>5, <2>6
    <3>2. \A x, y \in 1..T[s].n : T[s].ids[x] = T[s].ids[y] => x = y
      BY <2>5 DEF Numbered
    <3> QED
      BY <2>5, <3>1, <3>2
  <2>8. role # other
    BY <1>3, <2>1, <2>2, <2>6, <2>7
  <2>9. ObserverOf(a, s - 1, "reliability") # ObserverOf(a, s - 1, "primary")
    BY <2>5, ObserversAlternate
  <2>10. \/ role = "primary" /\ other = "reliability"
         \/ role = "reliability" /\ other = "primary"
    BY <2>5, <2>8 DEF Roles
  <2> QED
    BY <1>3, <2>3, <2>4, <2>6, <2>7, <2>9, <2>10
<1>4. \A i, j \in DOMAIN sheet : i # j =>
          <<sheet[i].observer, sheet[i].cafe, sheet[i].slot>>
              # <<sheet[j].observer, sheet[j].cafe, sheet[j].slot>>
  BY <1>3
<1>5. ASSUME NEW i \in DOMAIN sheet
      PROVE  LET of(role) == {j \in DOMAIN sheet : /\ sheet[j].cafe = sheet[i].cafe
                                                   /\ sheet[j].slot = sheet[i].slot
                                                   /\ sheet[j].role = role}
             IN  Cardinality(of("primary")) = 1 /\ Cardinality(of("reliability")) <= 1
  <2> DEFINE of(role) == {j \in DOMAIN sheet : /\ sheet[j].cafe = sheet[i].cafe
                                               /\ sheet[j].slot = sheet[i].slot
                                               /\ sheet[j].role = role}
  <2>1. PICK s, a, role : /\ i = KeyOf(s, a, role) /\ IsKey(T, m, s, a, role)
                          /\ IsRow(T, sheet, s, a, role)
    BY <1>1
  <2>2. sheet[i].cafe = T[s].ids[a] /\ sheet[i].slot = s - 1
    BY <2>1 DEF IsRow
  <2>3. s \in 1..m /\ a \in 1..T[s].n
    BY <1>2, <2>1
  <2>4. ASSUME NEW r \in Roles PROVE of(r) \subseteq {KeyOf(s, a, r)}
    <3> SUFFICES ASSUME NEW j \in of(r) PROVE j = KeyOf(s, a, r)
      OBVIOUS
    <3>1. j \in DOMAIN sheet /\ sheet[j].cafe = sheet[i].cafe /\ sheet[j].slot = sheet[i].slot
          /\ sheet[j].role = r
      OBVIOUS
    <3> HIDE DEF of
    <3>2. PICK q, b, other : /\ j = KeyOf(q, b, other) /\ IsKey(T, m, q, b, other)
                             /\ IsRow(T, sheet, q, b, other)
      BY <1>1, <3>1
    <3>3. sheet[j].cafe = T[q].ids[b] /\ sheet[j].slot = q - 1 /\ sheet[j].role = other
      BY <3>2 DEF IsRow
    <3>4. q \in 1..m /\ b \in 1..T[q].n
      BY <1>2, <3>2
    <3>5. q = s
      BY <2>2, <2>3, <3>1, <3>3, <3>4
    <3>6. b = a
      <4>1. T[s].ids[a] = T[s].ids[b] /\ b \in 1..T[s].n
        BY <2>2, <2>3, <3>1, <3>3, <3>4, <3>5
      <4>2. \A x, y \in 1..T[s].n : T[s].ids[x] = T[s].ids[y] => x = y
        BY <2>3 DEF Numbered
      <4> QED
        BY <2>3, <4>1, <4>2
    <3> QED
      BY <3>1, <3>2, <3>3, <3>5, <3>6
  <2>5. KeyOf(s, a, "primary") \in of("primary")
    <3>1. IsKey(T, m, s, a, "primary")
      BY <2>3 DEF IsKey, Roles
    <3>2. KeyOf(s, a, "primary") \in DOMAIN sheet /\ IsRow(T, sheet, s, a, "primary")
      BY <3>1, Zenon DEF Composed
    <3> QED
      BY <2>2, <3>2 DEF IsRow
  <2>6. of("primary") = {KeyOf(s, a, "primary")}
    BY <2>4, <2>5 DEF Roles
  <2>7. of("reliability") \subseteq {KeyOf(s, a, "reliability")}
    BY <2>4 DEF Roles
  <2> HIDE DEF of
  <2>8. IsFiniteSet({KeyOf(s, a, "reliability")}) /\ Cardinality({KeyOf(s, a, "reliability")}) = 1
    BY FS_Singleton
  <2>9. Cardinality(of("reliability")) <= 1
    BY <2>7, <2>8, PartsAreFewer
  <2>10. Cardinality(of("primary")) = 1
    BY <2>6, FS_Singleton
  <2> QED
    BY <2>9, <2>10 DEF of
<1> QED
  BY <1>4, <1>5, Zenon DEF WellStructured

\* Four of a session are seen twice, and the observers share the places.
IsShared(sheet, slot) ==
    LET of == {i \in DOMAIN sheet : sheet[i].slot = slot}
        primaries(o) == {i \in of : sheet[i].role = "primary" /\ sheet[i].observer = o}
    IN  /\ Cardinality({i \in of : sheet[i].role = "reliability"}) = 4
        /\ Cardinality(primaries(0)) - Cardinality(primaries(1)) \in -1..1

LEMMA ComposedIsShared ==
    ASSUME NEW m \in Nat, NEW T, \A s \in 1..m : Numbered(T[s]), NEW sheet, Composed(sheet, T, m),
           NEW slot \in 0..(m - 1)
    PROVE  IsShared(sheet, slot)
<1> DEFINE of == {i \in DOMAIN sheet : sheet[i].slot = slot}
           again == {i \in of : sheet[i].role = "reliability"}
           primaries(o) == {i \in of : sheet[i].role = "primary" /\ sheet[i].observer = o}
           s == slot + 1
           t == T[s]
<1>1. s \in 1..m /\ s - 1 = slot /\ slot \in Nat
  OBVIOUS
<1>2. Numbered(t)
  BY <1>1
<1> HIDE DEF s, t
<1>3. \A i \in of : \E a \in 1..t.n : \E role \in Roles :
          /\ i = KeyOf(s, a, role) /\ sheet[i].role = role /\ sheet[i].observer = ObserverOf(a, slot, role)
          /\ role = "reliability" => t.ids[a] \in t.twice
  <2> SUFFICES ASSUME NEW i \in of
               PROVE  \E a \in 1..t.n : \E role \in Roles :
                          /\ i = KeyOf(s, a, role) /\ sheet[i].role = role
                          /\ sheet[i].observer = ObserverOf(a, slot, role)
                          /\ role = "reliability" => t.ids[a] \in t.twice
    OBVIOUS
  <2>0. i \in DOMAIN sheet /\ sheet[i].slot = slot
    OBVIOUS
  <2> HIDE DEF of
  <2>1. PICK r, a, role : /\ i = KeyOf(r, a, role) /\ IsKey(T, m, r, a, role)
                          /\ IsRow(T, sheet, r, a, role)
    BY <2>0, Zenon DEF Composed
  <2>2. /\ sheet[i].slot = r - 1 /\ sheet[i].role = role /\ sheet[i].observer = ObserverOf(a, r - 1, role)
    BY <2>1 DEF IsRow
  <2>3. r \in 1..m /\ a \in 1..T[r].n /\ role \in Roles
        /\ (role = "reliability" => T[r].ids[a] \in T[r].twice)
    BY <2>1 DEF IsKey
  <2>4. r - 1 = slot /\ r = s
    BY <1>1, <2>0, <2>2, <2>3
  <2>5. a \in 1..t.n /\ (role = "reliability" => t.ids[a] \in t.twice)
    BY <2>3, <2>4 DEF t
  <2>6. i = KeyOf(s, a, role) /\ sheet[i].observer = ObserverOf(a, slot, role)
    BY <2>1, <2>2, <2>4
  <2> QED
    BY <2>2, <2>3, <2>5, <2>6
<1>4. ASSUME NEW a \in 1..t.n, NEW role \in Roles, role = "reliability" => t.ids[a] \in t.twice
      PROVE  /\ KeyOf(s, a, role) \in of /\ sheet[KeyOf(s, a, role)].role = role
             /\ sheet[KeyOf(s, a, role)].observer = ObserverOf(a, slot, role)
  <2>1. IsKey(T, m, s, a, role)
    BY <1>1, <1>4 DEF IsKey, t
  <2>2. KeyOf(s, a, role) \in DOMAIN sheet /\ IsRow(T, sheet, s, a, role)
    BY <2>1, Zenon DEF Composed
  <2> QED
    BY <1>1, <2>2 DEF IsRow
<1> HIDE DEF of
<1>5. Cardinality(again) = 4
  <2> DEFINE at == [x \in t.twice |-> CHOOSE a \in 1..t.n : t.ids[a] = x]
             key == [x \in t.twice |-> KeyOf(s, at[x], "reliability")]
  <2>1. \A x \in t.twice : at[x] \in 1..t.n /\ t.ids[at[x]] = x
    <3> SUFFICES ASSUME NEW x \in t.twice PROVE at[x] \in 1..t.n /\ t.ids[at[x]] = x
      OBVIOUS
    <3>1. \E a \in 1..t.n : t.ids[a] = x
      BY <1>2 DEF Numbered
    <3> QED
      BY <3>1
  <2> HIDE DEF at
  <2>2. \A x \in t.twice : key[x] = KeyOf(s, at[x], "reliability")
    OBVIOUS
  <2> HIDE DEF key
  <2>3. \A x \in t.twice : key[x] \in again
    <3> SUFFICES ASSUME NEW x \in t.twice PROVE key[x] \in again
      OBVIOUS
    <3>1. "reliability" \in Roles
      BY DEF Roles
    <3>2. KeyOf(s, at[x], "reliability") \in of
          /\ sheet[KeyOf(s, at[x], "reliability")].role = "reliability"
      BY <1>4, <2>1, <3>1
    <3> QED
      BY <2>2, <3>2
  <2>4. \A x, y \in t.twice : key[x] = key[y] => x = y
    BY <2>1, <2>2, KeysAreOfOne
  <2>5. \A i \in again : \E x \in t.twice : key[x] = i
    <3> SUFFICES ASSUME NEW i \in again PROVE \E x \in t.twice : key[x] = i
      OBVIOUS
    <3>1. PICK a \in 1..t.n : \E role \in Roles :
              /\ i = KeyOf(s, a, role) /\ sheet[i].role = role
              /\ role = "reliability" => t.ids[a] \in t.twice
      BY <1>3
    <3>2. i = KeyOf(s, a, "reliability") /\ t.ids[a] \in t.twice
      BY <3>1
    <3>3. at[t.ids[a]] = a
      BY <1>2, <2>1, <3>2 DEF Numbered
    <3> QED
      BY <2>2, <3>2, <3>3
  <2> HIDE DEF again
  <2>6. OneForOne(key, t.twice, again)
    BY <2>3, <2>4, <2>5, Zenon DEF OneForOne
  <2>7. IsFiniteSet(t.twice) /\ Cardinality(t.twice) = 4
    BY <1>2 DEF Numbered
  <2> QED
    BY <2>6, <2>7, OneForOneAreAsMany
<1>6. ASSUME NEW o \in {0, 1}
      PROVE  /\ Cardinality(primaries(o)) = Cardinality(PlacesOf(t.n, slot, o))
  <2> DEFINE P == PlacesOf(t.n, slot, o)
             key == [a \in P |-> KeyOf(s, a, "primary")]
             Q == primaries(o)
  <2>1. \A a \in P : key[a] = KeyOf(s, a, "primary")
    OBVIOUS
  <2>2. \A a : a \in P <=> a \in 1..t.n /\ ObserverOf(a, slot, "primary") = o
    BY DEF PlacesOf
  <2>3. "primary" \in Roles /\ "primary" # "reliability"
    BY DEF Roles
  <2> HIDE DEF P, key
  <2>4. \A a \in P : key[a] \in Q
    <3> SUFFICES ASSUME NEW a \in P PROVE key[a] \in Q
      OBVIOUS
    <3>1. /\ KeyOf(s, a, "primary") \in of /\ sheet[KeyOf(s, a, "primary")].role = "primary"
          /\ sheet[KeyOf(s, a, "primary")].observer = ObserverOf(a, slot, "primary")
      BY <1>4, <2>2, <2>3
    <3> QED
      BY <2>1, <2>2, <3>1
  <2>5. \A a, b \in P : key[a] = key[b] => a = b
    BY <2>1, KeysAreOfOne
  <2>6. \A i \in Q : \E a \in P : key[a] = i
    <3> SUFFICES ASSUME NEW i \in Q PROVE \E a \in P : key[a] = i
      OBVIOUS
    <3>1. PICK a \in 1..t.n : \E role \in Roles :
              /\ i = KeyOf(s, a, role) /\ sheet[i].role = role
              /\ sheet[i].observer = ObserverOf(a, slot, role)
      BY <1>3
    <3>2. i = KeyOf(s, a, "primary") /\ ObserverOf(a, slot, "primary") = o
      BY <3>1
    <3> QED
      BY <2>1, <2>2, <3>2
  <2> HIDE DEF Q
  <2>7. OneForOne(key, P, Q)
    BY <2>4, <2>5, <2>6, Zenon DEF OneForOne
  <2>8. IsFiniteSet(P)
    <3>1. t.n \in Nat
      BY <1>2 DEF Numbered
    <3>2. \E p \in {0, 1} : p # o
      OBVIOUS
    <3> QED
      BY <1>1, <3>1, <3>2, PlacesAreShared DEF P
  <2>9. Cardinality(Q) = Cardinality(P)
    BY <2>7, <2>8, OneForOneAreAsMany
  <2> QED
    BY <2>9 DEF P, Q
<1>7. Cardinality(primaries(0)) - Cardinality(primaries(1)) \in -1..1
  <2> DEFINE x == Cardinality(PlacesOf(t.n, slot, 0))
             y == Cardinality(PlacesOf(t.n, slot, 1))
  <2>1. t.n \in Nat
    BY <1>2 DEF Numbered
  <2>2. x \in Nat /\ y \in Nat /\ x <= y + 1 /\ y <= x + 1
    <3>1. 0 \in {0, 1} /\ 1 \in {0, 1} /\ 0 # 1 /\ 1 # 0
      OBVIOUS
    <3>2. x \in Nat /\ y \in Nat /\ x <= y + 1
      BY <1>1, <2>1, <3>1, PlacesAreShared
    <3>3. y <= x + 1
      BY <1>1, <2>1, <3>1, PlacesAreShared
    <3> QED
      BY <3>2, <3>3
  <2>3. Cardinality(primaries(0)) = x /\ Cardinality(primaries(1)) = y
    BY <1>6
  <2> HIDE DEF x, y, primaries
  <2> QED
    BY <2>2, <2>3
<1> QED
  BY <1>5, <1>7 DEF of, IsShared

\* Whatever candidates were selected, with every band filled and every candidate
\* accepted: the sheet exists, has the structure the evaluation asks for, four
\* cafes of every session are seen twice, and the observers' loads differ by one
\* at most (select_candidates, render_worksheet, load_observations).
THEOREM SheetsFitTheEvaluation ==
    ASSUME SheetsAreApart, NEW set, AreCandidates(set), NEW m \in Nat, NEW hotspots, DOMAIN hotspots = 1..m,
           Len(hotspots) = m, m = 0 => hotspots = <<>>
    PROVE  SheetsAreAccepted(set, hotspots)
<1> DEFINE picked == SelectCandidates(set, Range(hotspots))
           marked == Accepted(picked.chosen)
           list == ById(marked)
           sheet == Worksheet(list, hotspots)
<1> SUFFICES ASSUME picked.shortages = {}, PerBand >= 2, hotspots # <<>>
             PROVE  SheetIsAccepted(sheet, m)
  BY Zenon DEF SheetsAreAccepted, ById, Accepted
<1>1. FillSheets(marked, Range(hotspots))
  BY SelectionFillsSheets
<1> HIDE DEF picked, marked
<1>2. Lists(list, marked)
  BY <1>1, ByIdIsListed DEF FillSheets
<1> HIDE DEF list
<1>3. m \in Nat \ {0}
  OBVIOUS
<1>4. /\ sheet # Refused
      /\ \E T : (\A s \in 1..m : Numbered(T[s])) /\ Composed(sheet, T, m)
  BY <1>1, <1>2, <1>3, WorksheetIs
<1> HIDE DEF sheet
<1>5. PICK T : (\A s \in 1..m : Numbered(T[s])) /\ Composed(sheet, T, m)
  BY <1>4
<1>6. WellStructured(sheet)
  BY <1>5, ComposedIsWellStructured
<1>7. \A slot \in 0..(m - 1) : IsShared(sheet, slot)
  BY <1>5, ComposedIsShared
<1> QED
  BY <1>4, <1>6, <1>7, Zenon DEF SheetIsAccepted, IsShared

-----------------------------------------------------------------------------
(* All the rules of evaluations and backtests together. *)

\* What the database and the forms give an evaluation: finite sets of candidates
\* and snapshots, times, levels and counts in whole numbers, worksheets' sessions
\* and raters' pairs in sequences, and sorted observations where they are bisected.
EvaluationInput ==
    /\ Picked("sheets") => /\ AreCandidates(In(1))
                           /\ Len(In(2)) \in Nat /\ DOMAIN In(2) = 1..Len(In(2))
                           /\ Len(In(2)) = 0 => In(2) = <<>>
    /\ Picked("knowledge") => /\ In(3) \in Int
                              /\ \A s \in In(1) \cup In(2) : s.observed \in Int /\ s.fetched \in Int
    /\ Picked("promotion") => Answers(In(1)) /\ Answers(In(2))
    /\ Picked("kappa") => Len(sample.in) \in Nat /\ sample.in \in [1..Len(sample.in) -> Int \X Int]
    /\ Picked("nowcast") => /\ In(1) \in [hotspot : {In(1).hotspot}, observed : Int, fetched : Int, level : Int,
                                          lo : Int, hi : Int, forecast : Seq(Point)]
                            /\ In(2) \in Int
    /\ Picked("backtest") => IsFiniteSet(sample.in) /\ \A s \in sample.in : AsStored(s)
    /\ Picked("nearest") => /\ Len(In(1)) \in Nat /\ In(1) \in [1..Len(In(1)) -> Range(In(1))]
                            /\ \A a \in Range(In(1)) : a # None /\ a.observed \in Int
                            /\ \A i, j \in 1..Len(In(1)) : i <= j => In(1)[i].observed <= In(1)[j].observed
                            /\ In(2) \in Int /\ In(3) \in Int
    /\ Picked("pairs") => /\ IsFiniteSet(In(1)) /\ \A s \in In(1) : s # None /\ s.observed \in Int
                          /\ In(2) \in Int /\ In(3) \in Int
    /\ Picked("baseline") => /\ IsFiniteSet(In(1)) /\ In(2) \in Int
                             /\ \A o \in In(1) : o.date \in Int /\ (o.total = None \/ o.total \in Int)
    /\ Picked("holidays") => In(1) \in Int /\ In(2) \in SUBSET Int

\* Nothing is judged by what was not yet known, nor on other terms than what it is
\* compared with (select_eval_candidates, prepare_eval_observations, run_eval,
\* run_shadow_eval and the offline models of backend/app/scoring).
THEOREM EvaluationsAreSound ==
    ASSUME SheetsAreApart, SkipsAreApart, Refused \notin SUBSET Point, EvaluationInput
    PROVE  EvaluationRules
<1>1. Picked("sheets") => SheetsAreAccepted(In(1), In(2))
  <2> SUFFICES ASSUME Picked("sheets") PROVE SheetsAreAccepted(In(1), In(2))
    OBVIOUS
  <2>1. /\ AreCandidates(In(1)) /\ Len(In(2)) \in Nat /\ DOMAIN In(2) = 1..Len(In(2))
        /\ Len(In(2)) = 0 => In(2) = <<>>
    BY Zenon DEF EvaluationInput
  <2> QED
    BY <2>1, SheetsFitTheEvaluation
<1>2. Picked("knowledge") => KnowsNoFuture(In(1), In(2), In(3))
  <2> SUFFICES ASSUME Picked("knowledge") PROVE KnowsNoFuture(In(1), In(2), In(3))
    OBVIOUS
  <2>1. In(3) \in Int /\ \A s \in In(1) \cup In(2) : s.observed \in Int /\ s.fetched \in Int
    BY Zenon DEF EvaluationInput
  <2> QED
    BY <2>1, EvaluationsKnowNoFuture
<1>3. Picked("promotion") => PromotionIsOnEqualTerms(In(1), In(2), "covered")
  <2>1. Picked("promotion") => Answers(In(1)) /\ Answers(In(2))
    BY Zenon DEF EvaluationInput
  <2> QED
    BY <2>1, PromotionsAreOnEqualTerms
<1>4. Picked("kappa") => KappaIsFair(sample.in)
  <2>1. Picked("kappa") => Len(sample.in) \in Nat /\ sample.in \in [1..Len(sample.in) -> Int \X Int]
    BY Zenon DEF EvaluationInput
  <2> QED
    BY <2>1, KappasAreFair
<1>5. Picked("nowcast") => NowcastIsLocal(In(1), In(2))
  <2> SUFFICES ASSUME Picked("nowcast") PROVE NowcastIsLocal(In(1), In(2))
    OBVIOUS
  <2>1. /\ In(1) \in [hotspot : {In(1).hotspot}, observed : Int, fetched : Int, level : Int,
                      lo : Int, hi : Int, forecast : Seq(Point)]
        /\ In(2) \in Int
    BY Zenon DEF EvaluationInput
  <2> QED
    BY <2>1, NowcastsAreLocal
<1>6. Picked("backtest") => BacktestAddsUp(sample.in)
  <2>1. Picked("backtest") => IsFiniteSet(sample.in) /\ \A s \in sample.in : AsStored(s)
    BY Zenon DEF EvaluationInput
  <2> QED
    BY <2>1, BacktestsAddUp
<1>7. Picked("nearest") => NearestIsNearest(In(1), In(2), In(3))
  <2> SUFFICES ASSUME Picked("nearest") PROVE NearestIsNearest(In(1), In(2), In(3))
    OBVIOUS
  <2>1. /\ Len(In(1)) \in Nat /\ In(1) \in [1..Len(In(1)) -> Range(In(1))]
        /\ \A a \in Range(In(1)) : a # None /\ a.observed \in Int
        /\ \A i, j \in 1..Len(In(1)) : i <= j => In(1)[i].observed <= In(1)[j].observed
        /\ In(2) \in Int /\ In(3) \in Int
    BY Zenon DEF EvaluationInput
  <2>2. None \notin Range(In(1)) /\ \A a \in Range(In(1)) : a.observed \in Int
    BY <2>1, Zenon
  <2> QED
    BY <2>1, <2>2, NeighboursHoldTheNearest
<1>8. Picked("pairs") => PairsLookAhead(In(1), In(2), In(3))
  <2> SUFFICES ASSUME Picked("pairs") PROVE PairsLookAhead(In(1), In(2), In(3))
    OBVIOUS
  <2>1. /\ IsFiniteSet(In(1)) /\ \A s \in In(1) : s # None /\ s.observed \in Int
        /\ In(2) \in Int /\ In(3) \in Int
    BY Zenon DEF EvaluationInput
  <2>2. None \notin In(1) /\ \A s \in In(1) : s.observed \in Int
    BY <2>1, Zenon
  <2> QED
    BY <2>1, <2>2, PairsPredictTheFuture
<1>9. Picked("baseline") => BaselineIsFromBefore(In(1), In(2), 14, In(3))
  <2> SUFFICES ASSUME Picked("baseline") PROVE BaselineIsFromBefore(In(1), In(2), 14, In(3))
    OBVIOUS
  <2>1. /\ IsFiniteSet(In(1)) /\ In(2) \in Int
        /\ \A o \in In(1) : o.date \in Int /\ (o.total = None \/ o.total \in Int)
    BY Zenon DEF EvaluationInput
  <2>2. 14 \in Int
    OBVIOUS
  <2> QED
    BY <2>1, <2>2, BaselinesLieWithinTheirCounts
<1>10. Picked("holidays") => HolidaysAreBlocks(In(1), In(2))
  <2>1. Picked("holidays") => In(1) \in Int /\ In(2) \in SUBSET Int
    BY Zenon DEF EvaluationInput
  <2> QED
    BY <2>1, LongHolidaysAreBlocks
<1> QED
  BY <1>1, <1>2, <1>3, <1>4, <1>5, <1>6, <1>7, <1>8, <1>9, <1>10, Zenon DEF EvaluationRules
=============================================================================
