----------------------------- MODULE Statistics -----------------------------
(***************************************************************************)
(* The statistics the offline reports share.  Scores are integers; ratios  *)
(* and correlations are in percent, and a correlation is cut off, not      *)
(* rounded, at the percent.                                                *)
(***************************************************************************)
EXTENDS Outcomes, FiniteSets, FiniteSetsExt, SequencesExt

Total(of(_), set) == SumFunction([x \in set |-> of(x)])

\* _average_ranks, doubled.
Rank(values, i) ==
    2 * Cardinality({j \in DOMAIN values : values[j] < values[i]})
    + Cardinality({j \in DOMAIN values : values[j] = values[i]}) + 1

Root(n) == CHOOSE r \in 0..n : r * r <= n /\ (r + 1) * (r + 1) > n

\* How the ranks of the same items in two tables deviate from their means together.
Covariance(left, right) ==
    LET off(values, i) == Cardinality(DOMAIN values) * Rank(values, i)
                          - Total(LAMBDA j : Rank(values, j), DOMAIN values)
    IN  Total(LAMBDA i : off(left, i) * off(right, i), DOMAIN left)

Correlation(both, left, right) ==
    IF left = 0 \/ right = 0 THEN None ELSE (100 * both) \div Root(left * right)

\* _spearman, in percent.
Spearman(left, right) ==
    IF DOMAIN left # DOMAIN right \/ Cardinality(DOMAIN left) < 2 THEN None
    ELSE Correlation(Covariance(left, right), Covariance(left, left), Covariance(right, right))

\* The k-th smallest of the values, each as often as it occurs.
AtRank(values, k) ==
    CHOOSE v \in Range(values) :
        /\ Cardinality({i \in DOMAIN values : values[i] < v}) < k
        /\ k <= Cardinality({i \in DOMAIN values : values[i] <= v})

\* The median, doubled.
Median(values) ==
    LET n == Cardinality(DOMAIN values)
    IN  AtRank(values, (n + 1) \div 2) + AtRank(values, (n + 2) \div 2)

\* _quantile (R-7) at a percentage, times 100.
Quantile(values, percent) ==
    LET at == (Len(values) - 1) * percent
        low == 1 + (at \div 100)
        high == 1 + ((at + 99) \div 100)
        above == at % 100
    IN  IF values = <<>> THEN None
        ELSE AtRank(values, low) * (100 - above) + AtRank(values, high) * above

\* _rank_tail: a tenth of the zones, rounded up; ties by zone.
RankTail(values, high) ==
    LET before(a, b) == \/ (high /\ values[a] > values[b]) \/ (~high /\ values[a] < values[b])
                        \/ values[a] = values[b] /\ a < b
    IN  {z \in DOMAIN values :
            Cardinality({y \in DOMAIN values : before(y, z)}) < (Cardinality(DOMAIN values) + 9) \div 10}

\* _jaccard is at least percent.
Overlap(left, right, percent) ==
    100 * Cardinality(left \cap right) >= percent * Cardinality(left \cup right)

\* _angle_difference
Angle(left, right) ==
    LET raw == (IF left > right THEN left - right ELSE right - left) % 360
    IN  Min({raw, 360 - raw})

-----------------------------------------------------------------------------
(* Ties never make a tail longer or shorter than a tenth, rounded up; the  *)
(* values in it are the outermost ones, and a quantile lies between its    *)
(* neighbours and grows with the percentage (_rank_tail, _quantile).       *)
StatisticsAreOrdered(values, low, high) ==
    /\ \A top \in BOOLEAN :
           LET tail == RankTail(values, top)
           IN  /\ Cardinality(tail) = (Len(values) + 9) \div 10
               /\ \A z \in tail, y \in DOMAIN values \ tail :
                      IF top THEN values[z] >= values[y] ELSE values[z] <= values[y]
    /\ values # <<>> =>
           /\ low <= high => Quantile(values, low) <= Quantile(values, high)
           /\ Quantile(values, 50) = 50 * Median(values)
           /\ Total(LAMBDA i : Rank(values, i), DOMAIN values) = Len(values) * (Len(values) + 1)
           /\ Spearman(values, values) \in {None, 100}
=============================================================================
