----------------------------- MODULE Backtests -----------------------------
(***************************************************************************)
(* The offline models that look back (backend/app/scoring/): nowcasts from *)
(* the forecasts a snapshot came with (nowcast_shadow.py), persistence of  *)
(* a snapshot at fixed delays (source_delay_shadow.py) and the baseline of *)
(* a cell and hour (temporal_baseline_shadow.py).  Times and days are      *)
(* integers; populations and the logs of counts too.  Ratios are pairs of  *)
(* numerator and denominator, accuracies in percent.                       *)
(***************************************************************************)
EXTENDS Statistics

CONSTANTS
    MaxHorizon, MaxGap, NearTolerance,  \* NOWCAST_SHADOW_MAX_HORIZON_MIN, ..._GAP_MIN, ...
    ActualTolerance,                    \* NOWCAST_SHADOW_ACTUAL_TOLERANCE_MIN
    MinSamples, MinHotspots, MinSpan,   \* the sample gates
    MaxWape, MinExact, MinAdjacentLevel,  \* the quality gates, in percent
    LagEdges,                           \* NOWCAST_SHADOW_LAG_BUCKET_EDGES_MIN
    DayLength,                          \* times in a day
    Window, SpecialWindow,              \* TEMPORAL_BASELINE_SHADOW_..._WINDOW_DAYS
    Recency,                            \* Recency[special][age]: the weight of a day
    MinBucket, Prior, Imputed           \* ..._MIN_BUCKET_RAW_N, PRIOR_EFFECTIVE_N, MASKED_IMPUTATION

ASSUME BacktestAssumption ==
    /\ {MaxHorizon, MaxGap} \subseteq Nat \ {0} /\ {NearTolerance, ActualTolerance} \subseteq Nat
    /\ LagEdges \in Seq(Nat \ {0}) /\ LagEdges # <<>>
    /\ \A i \in 1..Len(LagEdges) - 1 : LagEdges[i] < LagEdges[i + 1]
    /\ {MinBucket, DayLength} \subseteq Nat \ {0} /\ {Prior, Imputed} \subseteq Nat
    /\ {Window, SpecialWindow} \subseteq Nat
    /\ \A special \in BOOLEAN : \A age \in 1..(IF special THEN SpecialWindow ELSE Window) :
          Recency[special][age] \in Nat \ {0}

Abs(n) == IF n < 0 THEN -n ELSE n

-----------------------------------------------------------------------------
(* Nowcasts.  A snapshot is [hotspot, observed, fetched, level, lo, hi,    *)
(* forecast], the forecast a sequence of points [at, level, lo, hi].       *)

\* parse_forecast_points
ForecastPoints(forecast) ==
    IF \E p, q \in Range(forecast) : p.at = q.at /\ p # q THEN Refused ELSE Range(forecast)

Latest(points) == CHOOSE p \in points : \A q \in points : q.at <= p.at
Earliest(points) == CHOOSE p \in points : \A q \in points : p.at <= q.at

\* A point between two, over den.
Between(a, b, t) ==
    LET mix(x, y) == x * (b.at - a.at) + (t - a.at) * (y - x)
    IN  [method |-> "interpolated", before |-> a.at, after |-> b.at, den |-> b.at - a.at,
         level |-> mix(a.level, b.level), lo |-> mix(a.lo, b.lo), hi |-> mix(a.hi, b.hi)]

AsIs(p, method) == [method |-> method, before |-> None, after |-> p.at, den |-> 1,
                    level |-> p.level, lo |-> p.lo, hi |-> p.hi]

\* Mutant: any gap may be bridged.
BridgedAlways(a, b) == TRUE

\* Interpolation is allowed over a gap this wide.
Bridged(a, b) == b.at - a.at <= MaxGap

\* estimate_nowcast
EstimateNowcast(s, target) ==
    LET points == ForecastPoints(s.forecast)
        usable == {p \in points : s.observed < p.at /\ p.at - s.observed <= MaxHorizon}
        anchors == usable \cup {[at |-> s.observed, level |-> s.level, lo |-> s.lo, hi |-> s.hi]}
        earlier == {a \in anchors : a.at < target}
        later == {a \in anchors : a.at > target}
        off(p) == Abs(p.at - target)
        nearest == Earliest({p \in usable : \A q \in usable : off(p) <= off(q)})
    IN  IF target - s.observed \notin 0..MaxHorizon THEN None
        ELSE IF points = Refused THEN Refused
        ELSE IF usable = {} THEN None
        ELSE IF \E p \in usable : p.at = target
        THEN AsIs(CHOOSE p \in usable : p.at = target, "exact")
        ELSE IF earlier # {} /\ later # {} /\ Bridged(Latest(earlier), Earliest(later))
        THEN Between(Latest(earlier), Earliest(later), target)
        ELSE IF off(nearest) > NearTolerance THEN None
        ELSE AsIs(nearest, "nearest")

\* NowcastEstimate.level, half up.
NowcastLevel(e) == (2 * e.level + e.den) \div (2 * e.den)

\* backtest_nowcasts of one origin: a skip, or a sample of doubled midpoints
\* over the estimate's denominator.
NowcastSample(snapshots, o) ==
    LET e == EstimateNowcast(o, o.fetched)
        later == {c \in snapshots : /\ c.hotspot = o.hotspot
                                    /\ Abs(c.observed - o.fetched) <= ActualTolerance
                                    /\ c.fetched > o.fetched /\ c.observed > o.observed}
        off(c) == Abs(c.observed - o.fetched)
        before(c, d) == \/ off(c) < off(d)
                        \/ off(c) = off(d) /\ (c.observed < d.observed
                               \/ (c.observed = d.observed /\ c.fetched <= d.fetched))
        a == CHOOSE c \in later : \A d \in later : before(c, d)
        exact(l) == IF l = a.level THEN 100 ELSE 0
        adjacent(l) == IF Abs(l - a.level) <= 1 THEN 100 ELSE 0
    IN  IF o.forecast = <<>> THEN [skip |-> "no_forecast"]
        ELSE IF e = Refused THEN [skip |-> "invalid_forecast"]
        ELSE IF e = None THEN [skip |-> "no_target_estimate"]
        ELSE IF later = {} THEN [skip |-> "actual_outside_tolerance"]
        ELSE [skip |-> None, hotspot |-> o.hotspot, target |-> o.fetched, lag |-> o.fetched - o.observed,
              actual |-> a.lo + a.hi,
              nowcast |-> Abs(e.lo + e.hi - e.den * (a.lo + a.hi)) \div e.den,
              baseline |-> Abs(o.lo + o.hi - (a.lo + a.hi)),
              exact |-> [nowcast |-> exact(NowcastLevel(e)), baseline |-> exact(o.level)],
              adjacent |-> [nowcast |-> adjacent(NowcastLevel(e)), baseline |-> adjacent(o.level)]]

\* The samples, by their origin.
Samples(snapshots) ==
    [o \in {o \in snapshots : NowcastSample(snapshots, o).skip = None}
        |-> NowcastSample(snapshots, o)]

\* _summarize_metrics over a set of origins; model is "nowcast" or "baseline".
Error(samples, at, model) == Total(LAMBDA o : samples[o][model], at)
Wape(samples, at, model) ==
    LET actual == Total(LAMBDA o : samples[o].actual, at)
    IN  IF actual = 0 THEN None ELSE (100 * Error(samples, at, model)) \div actual
Accuracy(samples, at, field, model) ==
    IF at = {} THEN None
    ELSE Total(LAMBDA o : samples[o][field][model], at) \div Cardinality(at)

\* Mutant: the edge itself belongs to the next bucket.
LagBucketBelow(lag) ==
    Min({i \in DOMAIN LagEdges : lag < LagEdges[i]} \cup {Len(LagEdges) + 1})

\* _build_lag_bucket_diagnostics: the first bucket whose edge is not passed.
LagBucket(lag) ==
    Min({i \in DOMAIN LagEdges : lag <= LagEdges[i]} \cup {Len(LagEdges) + 1})

\* _build_hotspot_day_diagnostics and _comparison_outcome: the groups and how
\* the nowcast did in each.
GroupOf(samples, o) == <<samples[o].hotspot, samples[o].target \div DayLength>>
Outcome(samples, at) ==
    LET d == Error(samples, at, "nowcast") - Error(samples, at, "baseline")
    IN  IF d < 0 THEN "win" ELSE IF d > 0 THEN "loss" ELSE "tie"
HotspotDays(samples) ==
    [g \in {GroupOf(samples, o) : o \in DOMAIN samples} |->
        Outcome(samples, {o \in DOMAIN samples : GroupOf(samples, o) = g})]

\* _build_population_stratum: outcomes of the groups of a hotspot or a day.
Stratum(samples, groups) ==
    LET days == HotspotDays(samples)
        count(r) == Cardinality({g \in groups : days[g] = r})
    IN  [groups |-> Cardinality(groups), wins |-> count("win"), ties |-> count("tie"),
         losses |-> count("loss"),
         samples |-> Cardinality({o \in DOMAIN samples : GroupOf(samples, o) \in groups})]

\* The hybrid keeps the observed level: the nowcast's population, the
\* baseline's accuracies (_build_hybrid_comparator).
Hybrid(samples) ==
    LET groups == DOMAIN HotspotDays(samples)
    IN  [wape |-> Wape(samples, DOMAIN samples, "nowcast"),
         exact |-> Accuracy(samples, DOMAIN samples, "exact", "baseline"),
         adjacent |-> Accuracy(samples, DOMAIN samples, "adjacent", "baseline"),
         all |-> Stratum(samples, groups),
         hotspots |-> [h \in {g[1] : g \in groups} |->
                          Stratum(samples, {g \in groups : g[1] = h})],
         days |-> [d \in {g[2] : g \in groups} |-> Stratum(samples, {g \in groups : g[2] = d})]]

\* promotion_blockers of backtest_nowcasts.
Blockers(samples) ==
    LET all == DOMAIN samples
        targets == {samples[o].target : o \in all}
        value(field, model) == IF field = "wape" THEN Wape(samples, all, model)
                               ELSE Accuracy(samples, all, field, model)
        failed(field, bound) == \/ value(field, "nowcast") = None
                                \/ IF field = "wape" THEN value(field, "nowcast") > bound
                                   ELSE value(field, "nowcast") < bound
        regressed(field) == \/ value(field, "baseline") = None
                            \/ failed(field, value(field, "baseline"))
        scant(what) ==
            CASE what = "samples" -> Cardinality(all) < MinSamples
              [] what = "hotspots" -> Cardinality({samples[o].hotspot : o \in all}) < MinHotspots
              [] what = "span" -> (IF Cardinality(all) < 2 THEN 0 ELSE Max(targets) - Min(targets))
                                      < MinSpan
        bound == [wape |-> MaxWape, exact |-> MinExact, adjacent |-> MinAdjacentLevel]
    IN  {<<w, "insufficient">> : w \in {w \in {"samples", "hotspots", "span"} : scant(w)}}
        \cup {<<f, "failed">> : f \in {f \in DOMAIN bound : failed(f, bound[f])}}
        \cup {<<f, "regressed">> : f \in {f \in DOMAIN bound : regressed(f)}}

PromotionEligible(samples) == Blockers(samples) = {}

-----------------------------------------------------------------------------
(* Persistence: [hotspot, observed, level, lo, hi].                        *)

\* Mutant: only what bisect_left points at, and what follows.
NeighboursAfter(items, target) ==
    LET index == Cardinality({i \in DOMAIN items : items[i].observed < target})
    IN  {items[i] : i \in DOMAIN items \cap (index + 1 .. index + 2)}

\* The neighbours bisect_left leaves to choose from.
Neighbours(items, target) ==
    LET index == Cardinality({i \in DOMAIN items : items[i].observed < target})
    IN  {items[i] : i \in DOMAIN items \cap (index .. index + 2)}

\* _nearest_actual; items in order of observation.
NearestActual(items, target, tolerance) ==
    LET near == Neighbours(items, target)
        off(a) == Abs(a.observed - target)
        first == CHOOSE a \in near : \A b \in near :
                     off(a) < off(b) \/ (off(a) = off(b) /\ a.observed <= b.observed)
    IN  IF near = {} THEN None ELSE IF off(first) > tolerance THEN None ELSE first

\* backtest_source_delay: the pairs of one horizon, by their origin.
DelayPairs(snapshots, horizon, tolerance) ==
    LET items(h) == InOrder({s \in snapshots : s.hotspot = h},
                            LAMBDA a, b : a.observed < b.observed)
        actual == [o \in snapshots |->
                      NearestActual(items(o.hotspot), o.observed + horizon, tolerance)]
    IN  IF \E a, b \in snapshots : a # b /\ a.hotspot = b.hotspot /\ a.observed = b.observed
        THEN Refused
        ELSE [o \in {s \in snapshots : IF actual[s] = None THEN FALSE
                                       ELSE actual[s].observed > s.observed} |-> actual[o]]

\* _level_rank_summary: slots where enough hotspots are known, ranked.
LevelRanks(pairs, minimum) ==
    LET slots == {pairs[o].observed : o \in DOMAIN pairs}
        at(t) == {o \in DOMAIN pairs : pairs[o].observed = t}
        rho(t) == Spearman([o \in at(t) |-> o.level], [o \in at(t) |-> pairs[o].level])
    IN  [t \in {t \in slots : Cardinality(at(t)) >= minimum /\ rho(t) # None} |-> rho(t)]

\* _population_temporal_rank_summary: the same within one hotspot, over time.
PopulationRanks(pairs, minimum) ==
    LET of(h) == {o \in DOMAIN pairs : o.hotspot = h}
        rho(h) == Spearman([o \in of(h) |-> o.lo + o.hi], [o \in of(h) |-> pairs[o].lo + pairs[o].hi])
    IN  [h \in {h \in {o.hotspot : o \in DOMAIN pairs} :
                    Cardinality(of(h)) >= minimum /\ rho(h) # None} |-> rho(h)]

-----------------------------------------------------------------------------
(* The baseline of a cell and hour: [date, total], total None when masked. *)
(* Day 0 is a Monday.                                                      *)

Weekday(d) == 1 + (d % 7)
NonWorking(d, holidays) == Weekday(d) >= 6 \/ d \in holidays

\* The days of the block that a non-working day belongs to.
Block(d, holidays) ==
    {e \in d - 10 .. d + 10 :
        \A f \in (IF e < d THEN e..d ELSE d..e) : NonWorking(f, holidays)}

\* classify_temporal_day
DayType(d, holidays) ==
    LET block == Block(d, holidays)
    IN  IF ~NonWorking(d, holidays) THEN "working_day"
        ELSE IF Cardinality(block) >= 3 /\ block \cap holidays # {} THEN "long_holiday"
        ELSE IF d \in holidays THEN "public_holiday"
        ELSE IF Weekday(d) = 6 THEN "saturday" ELSE "sunday"

\* Mutant: the day of the cutoff counts as well.
EligibleToday(obs, cutoff, window) == {o \in obs : cutoff - window <= o.date /\ o.date <= cutoff}

\* The observations of the window; the cutoff itself is not in it.
Eligible(obs, cutoff, window) == {o \in obs : cutoff - window <= o.date /\ o.date < cutoff}

\* From the narrowest bucket to all there is.
Buckets(all, target, holidays, special) ==
    LET type(d) == DayType(d, holidays)
        nominal == IF Weekday(target) <= 5 THEN "working_day"
                   ELSE IF Weekday(target) = 6 THEN "saturday" ELSE "sunday"
        ofType(set, t) == {o \in set : type(o.date) = t}
        sameDay == {o \in all : Weekday(o.date) = Weekday(target)}
    IN  <<ofType(sameDay, type(target)), ofType(all, type(target))>>
        \o (IF special THEN <<ofType(sameDay, nominal)>> ELSE <<>>) \o <<all>>

\* The first bucket that has enough, and the mean of its logs, drawn towards the
\* next coarser bucket that has any.
Pooling(buckets, cutoff, special) ==
    LET enough == {i \in DOMAIN buckets : Cardinality(buckets[i]) >= MinBucket}
        depth == IF enough # {} THEN Min(enough) ELSE Len(buckets)
        coarser == {i \in DOMAIN buckets : i > depth /\ buckets[i] # {}}
        weight(o) == Recency[special][cutoff - o.date]
        value(o) == IF o.total = None THEN Imputed ELSE o.total
        w(set) == Total(weight, set)
        squares(set) == Total(LAMBDA o : weight(o) * weight(o), set)
        sum(set) == Total(LAMBDA o : weight(o) * value(o), set)
        own == buckets[depth]
        parent == buckets[Min(coarser)]
    IN  [depth |-> depth, n |-> Cardinality(own),
         masked |-> Cardinality({o \in own : o.total = None}),
         num |-> IF coarser = {} \/ Prior = 0 THEN sum(own)
                 ELSE w(own) * w(own) * sum(own) * w(parent)
                      + Prior * squares(own) * sum(parent) * w(own),
         den |-> IF coarser = {} \/ Prior = 0 THEN w(own)
                 ELSE (w(own) * w(own) + Prior * squares(own)) * w(own) * w(parent)]

\* estimate_temporal_baseline_shadow of one cell and hour.
TemporalBaseline(obs, target, cutoff, holidays) ==
    LET special == DayType(target, holidays) \in {"public_holiday", "long_holiday"}
        all == Eligible(obs, cutoff, IF special THEN SpecialWindow ELSE Window)
    IN  IF cutoff > target \/ \E a, b \in obs : a # b /\ a.date = b.date THEN Refused
        ELSE IF all = {} THEN [depth |-> None, n |-> 0, masked |-> 0, num |-> None, den |-> 1]
        ELSE Pooling(Buckets(all, target, holidays, special), cutoff, special)

-----------------------------------------------------------------------------
(* Properties. *)

(* A nowcast stays between the points it is made of, spans no more than    *)
(* the allowed gap, takes nothing from past the horizon, and no point      *)
(* further away than the ones it used changes it (estimate_nowcast).       *)
NowcastIsLocal(s, target) ==
    LET e == EstimateNowcast(s, target)
        with(p) == [s EXCEPT !.forecast = Append(@, p)]
        further(p) == /\ \A q \in Range(s.forecast) : q.at # p.at
                      /\ \/ p.at <= s.observed \/ p.at > s.observed + MaxHorizon
                         \/ p.at > e.after /\ e.after >= target
    IN  e \notin {None, Refused} =>
            /\ e.after - s.observed \in 1..MaxHorizon
            /\ e.method = "interpolated" =>
                   /\ e.before < target /\ target < e.after /\ e.after - e.before <= MaxGap
                   /\ \E a \in {q.level : q \in Range(s.forecast)} \cup {s.level} :
                          a * e.den <= e.level
                   /\ \E a \in {q.level : q \in Range(s.forecast)} \cup {s.level} :
                          a * e.den >= e.level
            /\ e.method # "interpolated" => Abs(e.after - target) <= NearTolerance
            /\ \A at \in s.observed - 1 .. s.observed + MaxHorizon + 2 :
                   LET p == [at |-> at, level |-> 4, lo |-> 0, hi |-> 9] IN
                   further(p) => EstimateNowcast(with(p), target) = e

(* The lag buckets, and the groups of hotspot and day, divide the samples, *)
(* so that the strata add up to the whole; and forecasts that only repeat  *)
(* what was observed tie with the baseline: they are never held to have    *)
(* regressed, nor to have won (backtest_nowcasts).                         *)
SamplesAddUp(samples, hybrid, repeats) ==
    LET sum(strata, field) == Total(LAMBDA k : strata[k][field], DOMAIN strata)
    IN  /\ \A o \in DOMAIN samples :
               LET b == LagBucket(samples[o].lag) IN
               /\ b > 1 => LagEdges[b - 1] < samples[o].lag
               /\ b <= Len(LagEdges) => samples[o].lag <= LagEdges[b]
        /\ hybrid.all.samples = Cardinality(DOMAIN samples)
        /\ hybrid.all.wins + hybrid.all.ties + hybrid.all.losses = hybrid.all.groups
        /\ \A field \in {"groups", "wins", "ties", "losses", "samples"} :
               /\ sum(hybrid.hotspots, field) = hybrid.all[field]
               /\ sum(hybrid.days, field) = hybrid.all[field]
        /\ repeats => /\ hybrid.all.ties = hybrid.all.groups
                      /\ hybrid.wape # None =>
                             \A f \in {"wape", "exact", "adjacent"} :
                                 <<f, "regressed">> \notin Blockers(samples)

\* So does the backtest of any snapshots (backtest_nowcasts).
BacktestAddsUp(snapshots) ==
    LET repeats == \A s \in snapshots : \A p \in Range(s.forecast) :
                       p.level = s.level /\ p.lo = s.lo /\ p.hi = s.hi
        samples == Samples(snapshots)
    IN  SamplesAddUp(samples, Hybrid(samples), repeats)

(* The bisected neighbours hold the nearest observation of all, the        *)
(* earlier one of two, whenever one lies within the tolerance              *)
(* (_nearest_actual).                                                      *)
NearestIsNearest(items, target, tolerance) ==
    LET found == NearestActual(items, target, tolerance)
        off(a) == Abs(a.observed - target)
    IN  /\ found = None <=> \A a \in Range(items) : off(a) > tolerance
        /\ found # None => \A a \in Range(items) :
               off(found) < off(a) \/ (off(found) = off(a) /\ found.observed <= a.observed)

(* A pair never predicts the past, and an origin is its own actual never   *)
(* (backtest_source_delay).                                                *)
PairsLookAhead(snapshots, horizon, tolerance) ==
    LET pairs == DelayPairs(snapshots, horizon, tolerance)
    IN  pairs # Refused =>
            \A o \in DOMAIN pairs : /\ pairs[o].hotspot = o.hotspot
                                    /\ pairs[o].observed > o.observed
                                    /\ pairs[o] \in snapshots

(* A baseline is made before its cutoff: no day at it or after it, and     *)
(* none that the window has left behind, changes what it says, and it lies *)
(* within the counts it was made of (estimate_temporal_baseline_shadow).   *)
BaselineIsFromBefore(obs, target, cutoff, holidays) ==
    LET e == TemporalBaseline(obs, target, cutoff, holidays)
        past == {o \in obs : o.date < cutoff /\ o.date >= cutoff - Max({Window, SpecialWindow})}
        values == {IF o.total = None THEN Imputed ELSE o.total : o \in past}
    IN  e # Refused =>
            /\ TemporalBaseline(past, target, cutoff, holidays) = e
            /\ e.depth # None => /\ Min(values) * e.den <= e.num
                                 /\ e.num <= Max(values) * e.den

(* The days of a long holiday form whole blocks of three days or more with *)
(* an official holiday among them; an ordinary weekend is none, and the    *)
(* type of a working day is its own (classify_temporal_day).               *)
HolidaysAreBlocks(d, holidays) ==
    /\ DayType(d, holidays) = "long_holiday" =>
           /\ \A e \in Block(d, holidays) : DayType(e, holidays) = "long_holiday"
           /\ \E e \in Block(d, holidays) : e \in holidays
    /\ holidays = {} => DayType(d, holidays) \in {"working_day", "saturday", "sunday"}
    /\ DayType(d, holidays) = "working_day" <=> ~NonWorking(d, holidays)
=============================================================================
