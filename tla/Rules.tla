-------------------------------- MODULE Rules --------------------------------
(***************************************************************************)
(* What the rules of catalogs, estimates, shadows, reads, operations,      *)
(* offline data, evaluations and backtests promise together, of whatever   *)
(* input has been picked for one of them.                                  *)
(***************************************************************************)
EXTENDS ReadApi, Shadows, LivingData, Evaluation, Backtests, Clients, Matching, Operations

VARIABLE sample     \* [rule, in], or None

Picked(rule) == sample # None /\ sample.rule = rule
In(i) == sample.in[i]

(* Catalogs: a place, a permit or an identity is linked once, whatever the *)
(* order of rows and builders (Matching).                                  *)
CatalogRules ==
    /\ Picked("catalog") => CatalogLinksOnce(In(1), In(2), In(3))
    /\ Picked("permits") => PermitsVerifiedOnce(sample.in)
    /\ Picked("rows") => RowsHaveNoOrder(sample.in)
    /\ Picked("expansion") => ExpandsOnce(In(1), In(2), In(3))
    /\ Picked("review") => SampleIsFair(In(1), In(2))

(* Estimates: levels and confidence are those of the nearest hotspots      *)
(* within reach, of whatever age, in the engine; and each of its shadows   *)
(* gives what its own evidence carries (Estimates, Shadows).               *)
EstimateRules ==
    /\ Picked("estimate") => /\ LevelIsOfNeighbours(sample.in)
                             /\ FitsCafeScores(sample.in)
                             /\ ConfidenceIsOfNeighbours(sample.in)
    /\ Picked("polygons") => PolygonsOnlyMove(sample.in)
    /\ Picked("report") => ReportIsWhole(sample.in)
    /\ Picked("grid") => WeightsDivide(In(1), In(2))
    /\ Picked("quality") => QualityFollowsEvidence(In(1), In(2))
    /\ Picked("pressure") => PressureFallsWithSpace(In(1), In(2), In(3))
    /\ Picked("anomaly") => AnomaliesAreCurrent(In(1), In(2))

(* Reads: an answer shows only what is active, verified and, but for the   *)
(* time it waited in caches, young enough, and the best of it (ReadApi,    *)
(* Freshness).                                                             *)
ReadRules ==
    /\ Picked("search") => SearchIsBest(In(1), In(2), In(3), In(4), In(5))
    /\ Picked("listing") => ListingIsWhole(In(1), In(2), In(3))
    /\ Picked("links") => LinksAreVerified(sample.in)
    /\ Picked("age") => AgeLagsByItsWait(In(1), In(2), In(3), In(4))
    /\ Picked("health") => LiveIsHealthy(In(1), In(2))

(* Operations: the monitor follows every poll, what is missed is counted   *)
(* once, and a client stays within its calls (Operations, Clients).        *)
OperationRules ==
    /\ MonitorFollowsPoll
    /\ Picked("missed") => MissedAreCounted(In(1), 0, 40, In(2))
    /\ Picked("attribution") => CountsForItsCycle(In(1), In(2), 6)
    /\ Picked("scheduler") => ApplyIsAccepted(sample.in)
    /\ Picked("calls") => CallsAreBounded(In(1), In(2), In(3))
    /\ Picked("payload") => ErrorsAreNoData(sample.in)

(* Offline data: no row, hour or held-out day is lost, doubled or counted  *)
(* for another (LivingData, Statistics).                                   *)
DataRules ==
    /\ Picked("compact") => CompactIsWhole(In(1), In(2))
    /\ Picked("hours") => HoursAreOfTheDay(In(1), 1, In(2), In(3))
    /\ Picked("changes") => ChangesAreSigned(sample.in, "z", 8, 9)
    /\ Picked("repeats") => OnlyHeldOutDecide(sample.in, 30)
    /\ Picked("statistics") => StatisticsAreOrdered(sample.in, 10, 90)

(* Evaluations and backtests: nothing is judged by what was not yet known, *)
(* nor on other terms than what it is compared with (Evaluation,           *)
(* Backtests).                                                             *)
EvaluationRules ==
    /\ Picked("sheets") => SheetsAreAccepted(In(1), In(2))
    /\ Picked("knowledge") => KnowsNoFuture(In(1), In(2), In(3))
    /\ Picked("promotion") => PromotionIsOnEqualTerms(In(1), In(2), "covered")
    /\ Picked("kappa") => KappaIsFair(sample.in)
    /\ Picked("nowcast") => NowcastIsLocal(In(1), In(2))
    /\ Picked("backtest") => BacktestAddsUp(sample.in)
    /\ Picked("nearest") => NearestIsNearest(In(1), In(2), In(3))
    /\ Picked("pairs") => PairsLookAhead(In(1), In(2), In(3))
    /\ Picked("baseline") => BaselineIsFromBefore(In(1), In(2), 14, In(3))
    /\ Picked("holidays") => HolidaysAreBlocks(In(1), In(2))
=============================================================================
