------------------------------ MODULE Shadows ------------------------------
(***************************************************************************)
(* The shadow models of the estimate (backend/app/scoring/), computed      *)
(* beside the engine of Estimates and never stored: hotspots as polygons,  *)
(* their density, how much of a grid cell they cover, the quality of the   *)
(* evidence, the pressure on a venue and the anomaly against a baseline.   *)
(*                                                                         *)
(* To a cafe a polygon is whether it covers it and, where not, how far its *)
(* boundary is: an observation of Estimates with d = 0 and inside set.     *)
(* Logarithms are the table LogOf, exp(-minutes/tau) the tables Decay and  *)
(* Alignment, in percent.                                                  *)
(***************************************************************************)
EXTENDS Estimates, Statistics

CONSTANTS
    LogOf,                      \* LogOf[n]: log of n, from small n to large
    AreaMin, AreaMax,           \* DENSITY_SHADOW_AREA_MIN_M2, ..._MAX_M2
    AuditLimit,                 \* SHADOW_DIVERGENCE_AUDIT_LIMIT
    Alignment,                  \* CONF_V2_ALIGNMENT_TAU_MIN
    SingleAgreement, PartialFactor,     \* CONF_V2_..., in percent
    QualityWeights,             \* [spatial, freshness, agreement, health]
    EnoughSamples,              \* CONF_V2_VALIDATION_TARGET_SAMPLES
    Skew, StaleAfter,           \* FRESHNESS_MAX_FUTURE_SKEW_MIN, STALE_WARN_MIN
    AreaFloor, SizeFactor,      \* CAPACITY_SHADOW_AREA_FLOOR_M2; SizeFactor[area], in percent
    MinDispersion, AnomalyCap   \* ACTIVITY_SHADOW_MIN_LOG_DISPERSION, ..._ANOMALY_CAP

Grows(table) == \A a, b \in DOMAIN table : a <= b => table[a] <= table[b]

ASSUME ShadowAssumption ==
    /\ Grows(LogOf) /\ LogOf \in [DOMAIN LogOf -> Int]
    /\ AreaMin <= AreaMax /\ AuditLimit \in Nat \ {0}
    /\ \A a, b \in DOMAIN Alignment : Alignment[a] \in 0..100 /\ (a <= b => Alignment[a] >= Alignment[b])
    /\ {SingleAgreement, PartialFactor} \subseteq 0..100 /\ EnoughSamples \in Nat \ {0}
    /\ QualityWeights \in [{"spatial", "freshness", "agreement", "health"} -> Nat]
    /\ \E w \in DOMAIN QualityWeights : QualityWeights[w] > 0
    /\ {Skew, StaleAfter} \subseteq Nat /\ {MinDispersion, AnomalyCap} \subseteq Nat \ {0}
    /\ AreaFloor \in Nat \ {0} /\ DOMAIN SizeFactor \subseteq Int
    /\ \A a, b \in DOMAIN SizeFactor : SizeFactor[a] \in Nat \ {0} /\ (a <= b => SizeFactor[a] >= SizeFactor[b])

-----------------------------------------------------------------------------
(* Polygons. *)

Repeated(obs) == \E o, p \in obs : o # p /\ (o.id = p.id \/ o.code = p.code)

\* Mutant: the overlap is cut off at the number of neighbours.
PolygonSelectedCut(obs) ==
    LET containing == {o \in obs : o.inside}
    IN  IF containing # {} THEN Selected(containing) ELSE Selected(obs)

\* Every polygon around the cafe counts, however many; outside of all, the
\* nearest boundaries do.
PolygonSelected(obs) ==
    LET containing == {o \in obs : o.inside}
    IN  IF containing # {} THEN containing ELSE Selected(obs)

\* score_cafe_polygon_shadow, as score_cafe_polygon_shadow_compatible gives it.
PolygonScore(obs) ==
    IF Repeated(obs) THEN Refused
    ELSE EstimateFrom(PolygonSelected(obs), \E o \in obs : o.inside)

\* bind_hotspot_geometries: polled hotspots [id, code, name] and records
\* [code, name] one to one.
BindGeometries(hotspots, records) ==
    LET codes(set) == {r.code : r \in set}
        of(h) == CHOOSE r \in records : r.code = h.code
    IN  IF \/ Cardinality(codes(records)) # Cardinality(records)
           \/ codes(hotspots) # codes(records)
           \/ \E h \in hotspots : h.name # of(h).name
        THEN Refused
        ELSE [i \in {h.id : h \in hotspots} |-> of(CHOOSE h \in hotspots : h.id = i)]

\* A hotspot seen as a polygon: no distance inside, else that to its boundary.
AsPolygons(obs) == {[o EXCEPT !.d = IF o.inside THEN 0 ELSE o.boundary] : o \in obs}

\* build_structural_shadow_report from the two scores of every cafe.
Structure(obs, base, chall) ==
    LET paired == {c \in DOMAIN obs : base[c].level # None /\ chall[c].level # None}
        delta(c) == LET a == base[c].num * chall[c].den
                        b == chall[c].num * base[c].den
                    IN  (1000 * (IF a < b THEN b - a ELSE a - b)) \div (base[c].den * chall[c].den)
        before(c, d) == delta(c) > delta(d) \/ (delta(c) = delta(d) /\ c < d)
    IN  [transitions |-> [k \in ({"covered", "fringe", "uncovered"} \X {"covered", "fringe", "uncovered"}) |->
             Cardinality({c \in DOMAIN obs : <<base[c].coverage, chall[c].coverage>> = k})],
         paired |-> Cardinality(paired),
         changedLevels |-> Cardinality({c \in paired : base[c].level # chall[c].level}),
         overlaps |-> Cardinality({c \in DOMAIN obs :
                          Cardinality({o \in obs[c] : o.inside}) > 1}),
         audit |-> {c \in paired : Cardinality({d \in paired : before(d, c)}) < AuditLimit}]

\* obs[c] is what cafe c sees of the hotspots as points (d) and as polygons
\* (boundary, inside).
StructuralReport(obs) ==
    Structure(obs, [c \in DOMAIN obs |-> ScoreCafe(obs[c])],
                   [c \in DOMAIN obs |-> PolygonScore(AsPolygons(obs[c]))])

-----------------------------------------------------------------------------
(* Density: observations also have people [lo, hi] or None, and an area.   *)

Measured(obs) == {o \in obs : o.people # None}

\* People a unit of area, from the doubled middle of the bounds.
Density(o) == (o.people[1] + o.people[2]) \div (2 * o.area)

\* score_cafe_density_shadow: the log of the density, num over den.
DensityScore(obs) ==
    LET selected == PolygonSelected(Measured(obs))
        as == PolygonScore(Measured(obs))
    IN  IF Repeated(obs) \/ \E o \in Measured(obs) :
                                \/ o.people[1] < 0 \/ o.people[1] > o.people[2]
                                \/ o.area \notin AreaMin..AreaMax
        THEN Refused
        ELSE [coverage |-> as.coverage, confidence |-> as.confidence,
              contributors |-> as.contributors,
              excluded |-> Cardinality(obs) - Cardinality(Measured(obs)),
              num |-> IF selected = {} THEN None
                      ELSE Total(LAMBDA o : Weight(o, selected) * LogOf[Density(o)], selected),
              den |-> as.den]

\* build_density_structural_report
DensityReport(obs) ==
    LET score == [c \in DOMAIN obs |-> DensityScore(obs[c])]
    IN  [coverage |-> [k \in {"covered", "fringe", "uncovered"} |->
                          Cardinality({c \in DOMAIN obs : score[c].coverage = k})],
         scored |-> Cardinality({c \in DOMAIN obs : score[c].num # None})]

-----------------------------------------------------------------------------
(* Grid weights: a hotspot is [code, shape], a cell [id, shape]; shapes    *)
(* are sets of squares.                                                    *)

\* generate_hotspot_cell_weights_shadow: a boundary alone is no weight.
GridWeights(hotspots, cells) ==
    LET pairs == {k \in (hotspots \X cells) : k[1].shape \cap k[2].shape # {}}
    IN  IF \/ \E a, b \in hotspots : a # b /\ a.code = b.code
           \/ \E a, b \in cells : a # b /\ a.id = b.id
           \/ \E c \in cells : c.shape = {}
        THEN Refused
        ELSE {[code |-> k[1].code, cell |-> k[2].id,
               area |-> Cardinality(k[1].shape \cap k[2].shape),
               of |-> Cardinality(k[2].shape)] : k \in pairs}

-----------------------------------------------------------------------------
(* Evidence: contributors [id, d, inside, level, age, weight], a cycle     *)
(* [status, targets, saved, failed].                                       *)

\* Mutant: a cycle that failed counts for what it saved.
CycleHealthOfSaved(cycle) ==
    IF cycle.targets = 0 THEN 0 ELSE (100 * cycle.saved) \div cycle.targets

\* _cycle_health, in percent.
CycleHealth(cycle) ==
    LET ratio == (100 * cycle.saved) \div cycle.targets
    IN  IF \/ cycle.saved + cycle.failed > cycle.targets
           \/ cycle.status = "complete" /\ (cycle.targets = 0 \/ cycle.saved # cycle.targets)
           \/ cycle.targets = 0 /\ cycle.status # "unavailable"
        THEN Refused
        ELSE IF cycle.targets = 0 \/ cycle.status \in {"failed", "unavailable"} THEN 0
        ELSE IF cycle.status = "partial" THEN (ratio * PartialFactor) \div 100 ELSE ratio

\* level_agreement: one less the weighted deviation, of at most 1.5.
LevelAgreement(cs) ==
    LET weights == Total(LAMBDA c : c.weight, cs)
        mean == Total(LAMBDA c : c.weight * c.level, cs)
        off(c) == c.level * weights - mean
        variance == Total(LAMBDA c : c.weight * off(c) * off(c), cs)
    IN  Max({0, 100 - ((200 * Root(variance * weights)) \div (3 * weights * weights))})

\* calculate_confidence_v2; n is the number of validation samples, or None.
Quality(cs, cycle, n) ==
    LET old(c) == Max({0, c.age})
        spatial == IF \E c \in cs : c.inside THEN 100
                   ELSE 100 - ((100 * Min({c.d : c \in cs})) \div RMax)
        freshness == Total(LAMBDA c : c.weight * Decay[old(c)], cs)
                     \div Total(LAMBDA c : c.weight, cs)
        span == Max({c.age : c \in cs}) - Min({c.age : c \in cs})
        agreement == IF Cardinality(cs) = 1 THEN SingleAgreement
                     ELSE (LevelAgreement(cs) * Alignment[span]) \div 100
        w == QualityWeights
        sum == w.spatial * spatial + w.freshness * freshness + w.agreement * agreement
               + w.health * CycleHealth(cycle)
    IN  IF cs = {} THEN None
        ELSE IF \/ \E c \in cs : c.d > RMax \/ c.age < -Skew
                \/ CycleHealth(cycle) = Refused
        THEN Refused
        ELSE [quality |-> sum \div (w.spatial + w.freshness + w.agreement + w.health),
              validation |-> IF n = None THEN "not_evaluated"
                             ELSE IF n >= EnoughSamples THEN "sufficient" ELSE "insufficient"]

-----------------------------------------------------------------------------
(* Pressure: a demand [value, unit, verified, catchment], a venue [area,   *)
(* verified, match, context].                                              *)

\* calculate_capacity_shadow, times 100.
Pressure(demand, venue) ==
    IF \/ ~demand.verified \/ demand.value = None \/ demand.catchment = None
       \/ demand.unit = "people_per_m2" /\ demand.value < 0
       \/ venue.match # "verified" \/ ~venue.verified \/ venue.area = None
    THEN Refused
    ELSE demand.value * SizeFactor[Max({venue.area, AreaFloor})]

-----------------------------------------------------------------------------
(* Anomalies.  A contributor is [id, source, version, base, dispersion,    *)
(* lo, hi, observed, fetched, cutoff, weight]; lo is None without a value, *)
(* and lo = hi for a point.  Times are minutes before now, cutoff too.     *)

\* _validate_contributor
Acceptable(c, mode) ==
    /\ c.fetched >= -Skew
    /\ IF mode = "baseline_only" THEN c.lo = None /\ c.observed = None
       ELSE /\ c.lo # None /\ c.observed # None /\ c.lo <= c.hi
            /\ IF mode = "observed" THEN c.observed >= -Skew /\ c.observed >= c.fetched
               ELSE c.observed <= Skew /\ c.observed - c.fetched <= Skew
            /\ c.cutoff >= c.observed

\* Mutant: a forecast is as old as its target.
StaleByTarget(c, mode) == c.observed > StaleAfter

\* Too old to be current: an observation by its time, a forecast by when it
\* was fetched.
Stale(c, mode) == (IF mode = "observed" THEN c.observed ELSE c.fetched) > StaleAfter

\* calculate_activity_shadow of one type of observation; anomalies are sums
\* over the sum of the weights.
Activity(cs, mode) ==
    LET stale == {c \in cs : Stale(c, mode)}
        sum(of(_)) == Total(LAMBDA c : c.weight * of(c), cs)
        low(c) == LogOf[c.lo] - LogOf[c.base]
        high(c) == LogOf[c.hi] - LogOf[c.base]
        clipped(n, c) == Max({-AnomalyCap, Min({AnomalyCap, (10 * n) \div c.dispersion})})
        measurable == \A c \in cs : c.dispersion # None => c.dispersion >= MinDispersion
        defined == measurable /\ \A c \in cs : c.dispersion # None
        one == CHOOSE c \in cs : TRUE
        nothing(freshness) == [freshness |-> freshness, lo |-> None, hi |-> None, low |-> None,
                               high |-> None, weights |-> 1, standard |-> None]
    IN  IF mode = "unsupported" THEN IF cs = {} THEN nothing("n/a") ELSE Refused
        ELSE IF \/ cs = {} \/ \E c, d \in cs : c # d /\ c.id = d.id
                \/ Cardinality({<<c.source, c.version>> : c \in cs}) > 1
                \/ \E c \in cs : ~Acceptable(c, mode)
        THEN Refused
        ELSE IF mode = "baseline_only" THEN nothing("n/a")
        ELSE IF stale # {} THEN IF stale = cs THEN nothing("stale") ELSE Refused
        ELSE [freshness |-> "fresh",
              lo |-> IF cs = {one} THEN one.lo ELSE None,
              hi |-> IF cs = {one} THEN one.hi ELSE None,
              low |-> sum(low), high |-> sum(high), weights |-> Total(LAMBDA c : c.weight, cs),
              standard |-> IF ~defined THEN None
                           ELSE <<sum(LAMBDA c : clipped(low(c), c)),
                                  sum(LAMBDA c : clipped(high(c), c))>>]

-----------------------------------------------------------------------------
(* Properties. *)

(* Outside of every polygon the polygon model is the engine with other     *)
(* distances; inside, every polygon around the cafe has the same say, and  *)
(* the density model of hotspots with a count selects, covers and trusts   *)
(* as the polygon model does (score_cafe_polygon_shadow, "the shadow       *)
(* comparison changes only the spatial model"; score_cafe_density_shadow). *)
PolygonsOnlyMove(obs) ==
    LET shape == AsPolygons(obs)
        p == PolygonScore(shape)
        d == DensityScore(shape)
    IN  /\ (\A o \in shape : ~o.inside) => p = ScoreCafe(shape)
        /\ (\E o \in shape : o.inside) =>
               /\ {c.id : c \in p.contributors} = {o.id : o \in {o \in shape : o.inside}}
               /\ \A a, b \in p.contributors : a.weight = b.weight
               /\ p.coverage = "covered" /\ p.distance = 0
        /\ p.level # None => p.level \in 1..4 /\ p.confidence \in 0..ConfidenceUnit
        /\ (d # Refused /\ Measured(shape) = shape) =>
               /\ <<d.coverage, d.confidence, d.contributors>>
                      = <<p.coverage, p.confidence, p.contributors>>
               /\ d.excluded = 0

(* A report of structure loses no cafe, and what its audit leaves out      *)
(* differs no more than what it lists (build_structural_shadow_report).    *)
StructureIsWhole(r, cafes) ==
    /\ Total(LAMBDA k : r.transitions[k], DOMAIN r.transitions) = cafes
    /\ r.paired = Total(LAMBDA k : r.transitions[k],
                        {k \in DOMAIN r.transitions : "uncovered" \notin Range(k)})
    /\ Cardinality(r.audit) = Min({AuditLimit, r.paired})
    /\ r.changedLevels <= r.paired

\* A score is what makes a cafe covered or fringe.
DensityIsWhole(r) == r.scored = r.coverage["covered"] + r.coverage["fringe"]

\* Both reports of the same cafes are whole (run_shadow_snapshot, run_density_snapshot).
ReportIsWhole(obs) ==
    /\ StructureIsWhole(StructuralReport(obs), Cardinality(DOMAIN obs))
    /\ DensityIsWhole(DensityReport([c \in DOMAIN obs |-> AsPolygons(obs[c])]))

(* Cells that do not overlap divide a hotspot: their areas add up to no    *)
(* more than its own, and to all of it where the cells cover it.           *)
WeightsDivide(hotspots, cells) ==
    LET weights == GridWeights(hotspots, cells)
        area(h) == Total(LAMBDA w : w.area, {w \in weights : w.code = h.code})
        apart == \A a, b \in cells : a # b => a.shape \cap b.shape = {}
    IN  weights # Refused =>
            /\ \A w \in weights : 0 < w.area /\ w.area <= w.of
            /\ apart => \A h \in hotspots :
                   area(h) = Cardinality(h.shape \cap UNION {c.shape : c \in cells})

(* The quality of evidence is a percentage that falls with age, never with *)
(* containment, never counts a failed cycle, and knows nothing of how many *)
(* validation samples there are (calculate_confidence_v2).                 *)
QualityFollowsEvidence(cs, cycle) ==
    LET q == Quality(cs, cycle, None)
        older == {[c EXCEPT !.age = @ + 1] : c \in cs}
        within == {[c EXCEPT !.inside = TRUE] : c \in cs}
        lost == [cycle EXCEPT !.status = "failed"]
    IN  q \notin {None, Refused} =>
            /\ q.quality \in 0..100
            /\ Quality(older, cycle, None).quality <= q.quality
            /\ Quality(within, cycle, None).quality >= q.quality
            /\ \A n \in {0, EnoughSamples} : Quality(cs, cycle, n).quality = q.quality
            /\ cycle.targets > 0 =>
                   /\ Quality(cs, lost, None).quality <= q.quality
                   /\ Quality(cs, lost, None) = Quality(cs, [lost EXCEPT !.saved = 0], None)

(* A larger venue never comes out under more pressure, whatever kind of    *)
(* place it is; floors and factors keep the sign (calculate_capacity_shadow). *)
PressureFallsWithSpace(demand, venue, larger) ==
    LET p == Pressure(demand, venue)
        q == Pressure(demand, [venue EXCEPT !.area = larger])
    IN  (p # Refused /\ q # Refused /\ venue.area <= larger) =>
            /\ demand.value >= 0 => q <= p /\ q >= 0
            /\ demand.value <= 0 => q >= p /\ q <= 0
            /\ Pressure(demand, [venue EXCEPT !.context = "mall"]) = p

(* An anomaly is of now and of one kind: every value behind it is current  *)
(* by the clock of its mode, its baseline ends before it, raw counts of    *)
(* several places are never added, and the anomaly lies between those of   *)
(* its contributors (calculate_activity_shadow).                           *)
AnomaliesAreCurrent(cs, mode) ==
    LET a == Activity(cs, mode)
        each(of(_)) == {of(c) : c \in cs}
    IN  (a # Refused /\ cs # {}) =>
            /\ a.low # None =>
                   /\ \A c \in cs : /\ c.fetched <= StaleAfter \/ mode = "observed"
                                    /\ c.observed <= (IF mode = "observed" THEN StaleAfter ELSE Skew)
                                    /\ c.cutoff >= c.observed
                   /\ Min(each(LAMBDA c : LogOf[c.lo] - LogOf[c.base])) * a.weights <= a.low
                   /\ a.low <= a.high
                   /\ a.high <= Max(each(LAMBDA c : LogOf[c.hi] - LogOf[c.base])) * a.weights
            /\ a.lo # None => Cardinality(cs) = 1
            /\ mode \in {"observed", "forecast"} =>
                   (a.low = None <=> \A c \in cs : Stale(c, mode))
=============================================================================
