----------------------------- MODULE Estimates -----------------------------
(***************************************************************************)
(* backend/app/scoring/engine.py: the estimate of a cafe from the latest   *)
(* observations of the hotspots around it.  An observation has its         *)
(* hotspot's id, its distance d from the cafe in metres, its level and its *)
(* age in minutes.  The weights 1 / max(d, DFloor)^2 are brought to one    *)
(* denominator, so that the score is the fraction num / den; exp(-age/tau) *)
(* is the table Decay, in percent.                                         *)
(***************************************************************************)
EXTENDS Outcomes, FiniteSets, FiniteSetsExt, Folds

CONSTANTS
    RMax, Covered, KNeighbors, DFloor,  \* R_MAX_M, COVERED_M, K_NEIGHBORS, D_FLOOR_M
    Ages, Decay,                        \* Decay[age], from 100 down
    ConfHigh, ConfMid                   \* in percent

\* _validate_parameters
ASSUME EstimateAssumption ==
    /\ RMax \in Nat \ {0} /\ Covered \in 0..RMax
    /\ KNeighbors \in Nat \ {0} /\ DFloor \in Nat \ {0}
    /\ ConfMid \in 0..ConfHigh /\ ConfHigh \in 0..100
    /\ Ages \subseteq Int /\ 0 \in Ages
    /\ \A a, b \in Ages : Decay[a] \in 0..100 /\ (a <= b => Decay[a] >= Decay[b])

Closer(o, p) == o.d < p.d \/ (o.d = p.d /\ o.id < p.id)

\* Mutant: the limit of neighbours is applied before the radius.
SelectedFirst(obs) ==
    {o \in obs : Cardinality({p \in obs : Closer(p, o)}) < KNeighbors}

\* The nearest neighbours within the radius.
Selected(obs) ==
    LET near == {o \in obs : o.d <= RMax}
    IN  {o \in near : Cardinality({p \in near : Closer(p, o)}) < KNeighbors}

Primary(selected) == CHOOSE o \in selected : \A p \in selected \ {o} : Closer(o, p)

\* The weight of o, times the product of every squared distance.
Weight(o, selected) ==
    LET squared(p) == Max({p.d, DFloor}) * Max({p.d, DFloor})
    IN  FoldFunction(LAMBDA a, b : a * b, 1, [p \in selected \ {o} |-> squared(p)])

\* Mutant: the level is cut off, not rounded.
RoundedDown(num, den) == num \div den

\* Half up, not Python's half to even.
HalfUp(num, den) == (2 * num + den) \div (2 * den)

\* _confidence_tier, of a confidence that is num / den.
ConfidenceTier(num, den) ==
    IF num * 100 >= ConfHigh * den THEN "high"
    ELSE IF num * 100 >= ConfMid * den THEN "mid" ELSE "low"

Uncovered == [coverage |-> "uncovered", num |-> None, den |-> 1, level |-> None,
              confidence |-> None, tier |-> None, primary |-> None, distance |-> None,
              contributors |-> None]

\* The denominator of a confidence: radius, percent, two neighbours.
ConfidenceUnit == RMax * 100 * 2

\* The estimate from the hotspots that count; inside is a polygon's only.
EstimateFrom(selected, inside) ==
    LET first == Primary(selected)
        num == SumFunction([o \in selected |-> Weight(o, selected) * o.level])
        den == SumFunction([o \in selected |-> Weight(o, selected)])
        newest == Min({o.age : o \in selected})
        confidence == (RMax - first.d) * Decay[Max({0, newest})] * Min({2, Cardinality(selected)})
    IN  IF selected = {} THEN Uncovered
        ELSE [coverage |-> IF inside \/ first.d <= Covered THEN "covered" ELSE "fringe",
              num |-> num, den |-> den,
              level |-> Min({4, Max({1, HalfUp(num, den)})}),
              confidence |-> confidence,
              tier |-> ConfidenceTier(confidence, ConfidenceUnit),
              primary |-> first.id, distance |-> first.d,
              contributors |-> {[id |-> o.id, d |-> o.d, weight |-> Weight(o, selected)]
                                    : o \in selected}]

ScoreCafe(obs) == EstimateFrom(Selected(obs), FALSE)

\* What materialize_all stores: the estimate and the primary's observation.
ScoreRow(obs) ==
    LET e == ScoreCafe(obs) IN
    [estimate |-> e,
     observed |-> IF e.primary = None THEN None
                  ELSE (CHOOSE o \in obs : o.id = e.primary).age]

\* _forecast_one_hour: the first entry nearest to an hour after the
\* observation; entries without a time are last, and none is taken of them.
ForecastOneHour(forecast) ==
    LET timed == {i \in DOMAIN forecast : forecast[i] # None}
        distance(i) == IF forecast[i] >= 60 THEN forecast[i] - 60 ELSE 60 - forecast[i]
    IN  IF timed = {} THEN None
        ELSE CHOOSE i \in timed : \A j \in timed :
                 distance(i) < distance(j) \/ (distance(i) = distance(j) /\ i <= j)

-----------------------------------------------------------------------------
(* Properties. *)

\* A level is between those of the hotspots it is made of, and hotspots out of
\* reach or behind the nearest ones have no part in it.
LevelIsOfNeighbours(obs) ==
    LET e == ScoreCafe(obs) IN
    e.level # None =>
        LET counted == {o \in obs : \E c \in e.contributors : c.id = o.id}
            levels == {o.level : o \in counted}
        IN  /\ Min(levels) * e.den <= e.num /\ e.num <= Max(levels) * e.den
            /\ e.level \in Min(levels)..Max(levels)
            /\ \A o \in counted : o.d <= RMax
            /\ \A o \in obs \ counted : o.d > RMax \/ \A c \in counted : Closer(c, o)
            /\ 2 * (e.level * e.den - e.num) \in (-e.den + 1)..e.den

\* Every score is one that cafe_scores accepts (models.py): evidence and its
\* time are there exactly where the cafe is covered, and within their ranges.
FitsCafeScores(obs) ==
    LET row == ScoreRow(obs) e == row.estimate IN
    /\ (e.coverage = "uncovered") <=> row.observed = None
    /\ \A field \in {"level", "confidence", "tier", "primary", "distance", "contributors"} :
          e[field] = None <=> e.coverage = "uncovered"
    /\ e.level # None => e.level \in 1..4 /\ e.confidence \in 0..ConfidenceUnit

\* The confidence of a row is what the distance of its nearest hotspot and the
\* ages of the hotspots it is made of leave: no more than the age of one of them
\* would, counted for as many as there are up to two, and no less than the
\* displayed age, the nearest one's, would for a single one.  No hotspot out of
\* reach or behind the nearest adds to it, and none is left out for its age.
ConfidenceIsOfNeighbours(obs) ==
    LET row == ScoreRow(obs)
        e == row.estimate
        counted == {o \in obs : \E c \in e.contributors : c.id = o.id}
        left(age) == (RMax - e.distance) * Decay[Max({0, age})]
    IN  row.observed # None =>
            /\ left(row.observed) <= e.confidence
            /\ \E o \in counted : e.confidence <= left(o.age) * Min({2, Cardinality(counted)})
            /\ \A o \in obs : e.distance <= o.d
=============================================================================
