----------------------------- MODULE Evaluation -----------------------------
(***************************************************************************)
(* The field evaluation: cafes selected around hotspots, worksheets for    *)
(* two observers, the filled sheets replayed against the snapshots known   *)
(* at the time, and the comparison that lets a challenger replace the      *)
(* baseline model (backend/scripts/select_eval_candidates.py,              *)
(* prepare_eval_observations.py, run_eval.py, run_shadow_eval.py).         *)
(***************************************************************************)
EXTENDS Statistics

CONSTANTS
    PerBand,                \* EVAL_CANDIDATES_PER_BAND
    NearMax, MidMax, FringeMax,  \* EVAL_NEAR_MAX_M, COVERED_M, R_MAX_M
    Thresholds,             \* EVAL_AREA_PEDESTRIANS_PER_MIN_THRESHOLDS
    MinSpearman, MinAdjacent, MaxRegression     \* in percent

ASSUME EvaluationAssumption ==
    /\ PerBand \in Nat \ {0} /\ {NearMax, MidMax, FringeMax} \subseteq Int
    /\ NearMax <= MidMax /\ MidMax <= FringeMax
    /\ Thresholds[1] <= Thresholds[2] /\ Thresholds[2] <= Thresholds[3]
    /\ {MinSpearman, MinAdjacent, MaxRegression} \subseteq 0..100

Bands == <<"near", "mid", "fringe">>

-----------------------------------------------------------------------------
(* Candidates [id, active, hotspot, d, confidence, valid, reason].         *)

\* _distance_band
Band(d) == IF d <= NearMax THEN 1 ELSE IF d <= MidMax THEN 2
           ELSE IF d <= FringeMax THEN 3 ELSE None

\* select_candidates: the best of each hotspot and band.
Preferred(a, b) ==
    \/ a.confidence > b.confidence
    \/ a.confidence = b.confidence /\ (a.d < b.d \/ (a.d = b.d /\ a.id < b.id))

SelectCandidates(cafes, hotspots) ==
    LET pool(h, band) == {c \in cafes : c.active /\ c.hotspot = h /\ c.d # None /\ Band(c.d) = band}
        best(set) == {c \in set : Cardinality({b \in set : Preferred(b, c)}) < PerBand}
    IN  [chosen |-> UNION {best(pool(h, band)) : h \in hotspots, band \in 1..3},
         shortages |-> {k \in hotspots \X (1..3) : Cardinality(pool(k[1], k[2])) < PerBand}]

\* load_reviewed_candidates: every row needs a verdict, and a reason against.
Reviewed(rows) ==
    IF \/ \E r \in Range(rows) : r.valid = None \/ (r.valid = FALSE /\ r.reason = None)
       \/ \E i, j \in DOMAIN rows : i # j /\ rows[i].id = rows[j].id
       \/ \A r \in Range(rows) : r.valid # TRUE
    THEN Refused ELSE rows

\* _reliability_candidates: one of each band in turn, and the next one of
\* the band whose turn it is; list[b] are the candidates of band b.
Nth(list, b, k) == list[b][1 + (k % Len(list[b]))].id

\* Mutant: the second one of the band is always its first.
OverlappingFirst(list, session) ==
    LET turn == 1 + (session % 3)
        selected == {Nth(list, b, session) : b \in 1..3} \cup {Nth(list, turn, 0)}
    IN  IF \/ \E b \in 1..3 : list[b] = <<>>
           \/ Len(list[turn]) < 2 \/ Cardinality(selected) # 4
        THEN Refused ELSE selected

Overlapping(list, session) ==
    LET turn == 1 + (session % 3)
        selected == {Nth(list, b, session) : b \in 1..3} \cup {Nth(list, turn, session + 1)}
    IN  IF \/ \E b \in 1..3 : list[b] = <<>>
           \/ Len(list[turn]) < 2 \/ Cardinality(selected) # 4
        THEN Refused ELSE selected

\* render_worksheet of one session (counted from 0): its rows by place and role.
SessionSheet(rows, hotspot, session) ==
    LET mine == {r \in Range(rows) : r.valid = TRUE /\ r.hotspot = hotspot}
        before(a, b) == Band(a.d) < Band(b.d) \/ (Band(a.d) = Band(b.d) /\ a.id < b.id)
        all == InOrder(mine, before)
        list == [b \in 1..3 |-> InOrder({r \in mine : Band(r.d) = b}, before)]
        twice == Overlapping(list, session)
        row(i, role) ==
            [cafe |-> all[i].id, slot |-> session, role |-> role,
             observer |-> (i - 1 + session + (IF role = "primary" THEN 0 ELSE 1)) % 2]
    IN  IF mine = {} \/ (\E r \in mine : Band(r.d) = None) \/ twice = Refused THEN Refused
        ELSE [k \in {p \in (DOMAIN all) \X {"primary", "reliability"} :
                         p[2] = "reliability" => all[p[1]].id \in twice} |-> row(k[1], k[2])]

\* The sheet's rows by session, place and role.
Worksheet(rows, hotspots) ==
    LET sheets == [s \in DOMAIN hotspots |-> SessionSheet(rows, hotspots[s], s - 1)]
    IN  IF hotspots = <<>> \/ Reviewed(rows) = Refused \/ \E s \in DOMAIN sheets : sheets[s] = Refused
        THEN Refused
        ELSE [k \in UNION {{s} \X (DOMAIN sheets[s]) : s \in DOMAIN sheets} |-> sheets[k[1]][k[2]]]

-----------------------------------------------------------------------------
(* Observations: a filled row [cafe, slot, role, observer, at, level,      *)
(* venue, rate, flow, notes].                                              *)

\* _derive_area_level
AreaLevel(rate, flow) ==
    LET level == IF rate <= Thresholds[1] THEN 1 ELSE IF rate <= Thresholds[2] THEN 2
                 ELSE IF rate <= Thresholds[3] THEN 3 ELSE 4
    IN  IF flow = "repeated_avoidance" THEN Max({level, 3})
        ELSE IF flow = "blocked" THEN 4 ELSE level

ValidRow(r) ==
    /\ r.at # None /\ r.level = AreaLevel(r.rate, r.flow)
    /\ r.flow # "none" => r.notes
    /\ r.role \in {"primary", "reliability"}

\* _validate_observation_structure
WellStructured(rows) ==
    /\ \A i, j \in DOMAIN rows : i # j =>
          <<rows[i].observer, rows[i].cafe, rows[i].slot>>
              # <<rows[j].observer, rows[j].cafe, rows[j].slot>>
    /\ \A i \in DOMAIN rows :
          LET of(role) == {j \in DOMAIN rows : /\ rows[j].cafe = rows[i].cafe
                                               /\ rows[j].slot = rows[i].slot
                                               /\ rows[j].role = role}
          IN  Cardinality(of("primary")) = 1 /\ Cardinality(of("reliability")) <= 1

\* load_observations: bad rows are counted and left out.
LoadObservations(rows) ==
    LET valid == SelectSeq(rows, ValidRow)
    IN  IF WellStructured(valid)
        THEN [truths |-> valid, invalid |-> Len(rows) - Len(valid)] ELSE Refused

\* Mutant: what was observed by then, whenever it was fetched.
ObservationsAtObserved(snapshots, t) ==
    LET known == {s \in snapshots : s.observed <= t}
    IN  {s \in known : \A o \in known : o.hotspot = s.hotspot => o.observed <= s.observed}

\* _observations_at: the newest of each hotspot that was known at t, from
\* snapshots [hotspot, observed, fetched, level].
ObservationsAt(snapshots, t) ==
    LET known == {s \in snapshots : s.observed <= t /\ s.fetched <= t}
    IN  {s \in known : \A o \in known : o.hotspot = s.hotspot => o.observed <= s.observed}

\* evaluate: scorer[c, known] is the prediction for cafe c from what is known.
Evaluate(truths, cafes, snapshots, scorer) ==
    LET primary == {i \in DOMAIN truths : truths[i].role = "primary"}
        known == {i \in primary : truths[i].cafe \in cafes}
        predicted(t) == scorer[t.cafe, ObservationsAt(snapshots, t.at)]
    IN  [points |-> {[truth |-> truths[i], predicted |-> predicted(truths[i])] : i \in known},
         missing |-> Cardinality(primary \ known)]

\* quadratic_weighted_cohen_kappa of a table of pairs of levels, in percent.
Kappa(pairs) ==
    LET n == Cardinality(DOMAIN pairs)
        levels(side) == {pairs[i][side] : i \in DOMAIN pairs}
        count(side, l) == Cardinality({i \in DOMAIN pairs : pairs[i][side] = l})
        apart == Total(LAMBDA i : (pairs[i][1] - pairs[i][2]) * (pairs[i][1] - pairs[i][2]), DOMAIN pairs)
        chance == Total(LAMBDA c : (c[1] - c[2]) * (c[1] - c[2]) * count(1, c[1]) * count(2, c[2]),
                        levels(1) \X levels(2))
    IN  IF n < 2 \/ Cardinality(levels(1)) < 2 \/ Cardinality(levels(2)) < 2 \/ chance = 0 THEN None
        ELSE 100 - ((100 * n * apart) \div chance)

\* summarize_reliability
Reliability(rows) ==
    LET pair(i) == {j \in DOMAIN rows : /\ rows[j].cafe = rows[i].cafe /\ rows[j].slot = rows[i].slot
                                        /\ rows[j].role = "reliability"}
        twice == {i \in DOMAIN rows : rows[i].role = "primary" /\ pair(i) # {}}
    IN  Kappa([i \in twice |-> <<rows[i].level, rows[CHOOSE j \in pair(i) : TRUE].level>>])

-----------------------------------------------------------------------------
(* Metrics of points [truth, predicted], and the comparison of two models. *)

Predicts(p) == p.predicted.score # None /\ p.predicted.level # None

\* The correlation within each slot of what was predicted with the truth.
SlotCorrelations(scored, target) ==
    LET rho(set) == Spearman([p \in set |-> p.predicted.score], [p \in set |-> p.truth[target]])
    IN  [s \in {p.truth.slot : p \in scored} |-> rho({p \in scored : p.truth.slot = s})]

\* The mean over the slots that have one.
MeanCorrelation(rhos) ==
    LET defined == {s \in DOMAIN rhos : rhos[s] # None}
    IN  IF defined = {} THEN None
        ELSE Total(LAMBDA s : rhos[s], defined) \div Cardinality(defined)

\* summarize against a level of the truth, the area's or the venue's.
Summarize(points, target) ==
    LET scored == {p \in points : Predicts(p) /\ p.truth[target] # None}
        adjacent == {p \in scored : p.predicted.level - p.truth[target] \in -1..1}
    IN  [n |-> Cardinality(scored),
         rho |-> MeanCorrelation(SlotCorrelations(scored, target)),
         adjacent |-> IF scored = {} THEN None
                      ELSE (100 * Cardinality(adjacent)) \div Cardinality(scored)]

Key(p) == <<p.truth.cafe, p.truth.at, p.truth.slot>>

\* Mutant: every model has its own segment.
InSegmentOfChallenger(baseline, challenger, segment) ==
    {p \in baseline : \E q \in challenger : Key(q) = Key(p) /\ q.predicted.coverage = segment}

\* The segment of the baseline's points.
InSegment(baseline, challenger, segment) ==
    {p \in baseline : p.predicted.coverage = segment}

\* _metric_delta
Delta(base, chall) ==
    LET minus(a, b) == IF a = None \/ b = None THEN None ELSE a - b
    IN  [rho |-> minus(chall.rho, base.rho), adjacent |-> minus(chall.adjacent, base.adjacent)]

\* compare_evaluation_reports: the checks of promotion, by name, from the
\* challenger's metrics on what both answered and its gains on it and its parts.
ChecksOf(sameRows, kept, whole, gain, covered, fringe) ==
    LET steady(d) == /\ d.rho # None /\ d.adjacent # None
                     /\ d.rho >= -MaxRegression /\ d.adjacent >= -MaxRegression
    IN  [identical_primary_rows |-> sameRows,
         no_coverage_loss |-> kept,
         overall_spearman |-> gain.rho # None /\ whole.rho >= MinSpearman /\ gain.rho >= 0,
         overall_adjacent_accuracy |->
             gain.adjacent # None /\ whole.adjacent >= MinAdjacent /\ gain.adjacent >= 0,
         covered_no_serious_regression |-> steady(covered),
         fringe_no_serious_regression |-> steady(fringe),
         fringe_improvement_evidence |-> /\ fringe.rho # None /\ fringe.adjacent # None
                                         /\ fringe.rho > 0 \/ fringe.adjacent > 0]

\* compare_evaluation_reports over the keys both models answered.
Checks(baseline, challenger) ==
    LET keys(points) == {Key(p) : p \in points}
        valid(points) == keys({p \in points : Predicts(p)})
        paired == valid(baseline) \cap valid(challenger)
        on(points, at) == Summarize({p \in points : Key(p) \in at}, "level")
        delta(at) == Delta(on(baseline, at), on(challenger, at))
        segment(s) == delta(paired \cap keys(InSegment(baseline, challenger, s)))
    IN  ChecksOf({p.truth : p \in baseline} = {p.truth : p \in challenger},
                 valid(baseline) \subseteq valid(challenger),
                 on(challenger, paired), delta(paired), segment("covered"), segment("fringe"))

\* ShadowComparison.promotion_passed
Promoted(baseline, challenger) ==
    LET checks == Checks(baseline, challenger)
    IN  \A c \in DOMAIN checks : checks[c]

-----------------------------------------------------------------------------
(* Properties. *)

(* The selection feeds the worksheet: with every band filled and every     *)
(* candidate accepted on review, whatever the sessions and their number,   *)
(* the sheet exists, and filled in it has the structure the evaluation     *)
(* asks for: one primary a cafe and slot, four of them seen twice by the   *)
(* two observers, whose loads differ by one at most.                       *)
SheetIsAccepted(sheet, sessions) ==
    LET of(s) == {i \in DOMAIN sheet : sheet[i].slot = s}
        primaries(s, o) == {i \in of(s) : sheet[i].role = "primary" /\ sheet[i].observer = o}
    IN  /\ sheet # Refused
        /\ WellStructured(sheet)
        /\ \A s \in 0..sessions - 1 :
              /\ Cardinality({i \in of(s) : sheet[i].role = "reliability"}) = 4
              /\ Cardinality(primaries(s, 0)) - Cardinality(primaries(s, 1)) \in -1..1

\* So is the sheet of whatever candidates were selected (select_candidates).
SheetsAreAccepted(cafes, hotspots) ==
    LET picked == SelectCandidates(cafes, Range(hotspots))
        rows == InOrder({[c EXCEPT !.valid = TRUE] : c \in picked.chosen}, LAMBDA a, b : a.id < b.id)
    IN  (picked.shortages = {} /\ PerBand >= 2 /\ hotspots # <<>>) =>
            SheetIsAccepted(Worksheet(rows, hotspots), Len(hotspots))

(* An evaluation knows nothing of its future: whatever is observed or      *)
(* arrives after a row's time leaves what that row's prediction is given    *)
(* as it was (evaluate, _observations_at).                                 *)
KnowsNoFuture(snapshots, later, t) ==
    LET row == [cafe |-> 1, at |-> t, role |-> "primary"]
        given == [x \in {1} \X SUBSET (snapshots \cup later) |-> x[2]]
        evaluated(s) == Evaluate(<<row>>, {1}, s, given)
    IN  (\A s \in later : s.observed > t \/ s.fetched > t) =>
            evaluated(snapshots \cup later) = evaluated(snapshots)

(* A challenger is promoted on the baseline's terms: it answered the same  *)
(* rows and all the baseline answered, relabelling its coverage changes    *)
(* nothing, and the two can not replace each other when they agree on the  *)
(* segments (compare_evaluation_reports; no regression is allowed).        *)
PromotionIsOnEqualTerms(baseline, challenger, label) ==
    LET relabelled == {[p EXCEPT !.predicted.coverage = label] : p \in challenger}
        seen(points) == {<<Key(p), p.predicted.coverage>> : p \in points}
    IN  /\ Checks(baseline, relabelled) = Checks(baseline, challenger)
        /\ Promoted(baseline, challenger) =>
              /\ \A p \in baseline : Predicts(p) =>
                     \E q \in challenger : q.truth = p.truth /\ Predicts(q)
              /\ (MaxRegression = 0 /\ seen(baseline) = seen(challenger)) =>
                     ~Promoted(challenger, baseline)

(* Kappa is symmetric, whatever the order of the rows, and at most 100,    *)
(* which it is for raters who always agree (quadratic_weighted_cohen_kappa).*)
KappaIsFair(pairs) ==
    LET swapped == [i \in DOMAIN pairs |-> <<pairs[i][2], pairs[i][1]>>]
    IN  /\ Kappa(swapped) = Kappa(pairs) /\ Kappa(Reverse(pairs)) = Kappa(pairs)
        /\ Kappa(pairs) # None => /\ Kappa(pairs) <= 100
                                  /\ (\A i \in DOMAIN pairs : pairs[i][1] = pairs[i][2])
                                         => Kappa(pairs) = 100
=============================================================================
