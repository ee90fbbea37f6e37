---------------------------- MODULE LivingData ----------------------------
(***************************************************************************)
(* The offline reading of Seoul's two movement sources and the screens run *)
(* on it: living population per hour, district and 250 m cell (OA-22784),  *)
(* compacted for the cells in use, and purpose trips between districts     *)
(* (OA-22300), added up per district and hour.  Counts are integers, a     *)
(* masked count is None; ratios and rank correlations are in percent, and  *)
(* a correlation is cut off, not rounded, at the percent.                  *)
(***************************************************************************)
EXTENDS Statistics

CONSTANTS
    ScreenHours,    \* LIVING_OD_SAME_DAY_HOURS
    ZoneCount,      \* PURPOSE_OD_SEOUL_ZONE_COUNT
    HeldOut         \* LIVING_OD_REPEATS_HELD_OUT_DATES

ASSUME LivingAssumption == /\ ScreenHours \subseteq 0..23 /\ ScreenHours # {}
                           /\ ZoneCount \in Nat \ {0}

-----------------------------------------------------------------------------
(* Living population.  A line is [slot, zone, cell, total], or Refused.    *)

\* iter_living_population_csv: the first bad line refuses the file.
ReadableLines(lines) == \A i \in DOMAIN lines : lines[i] # Refused

\* The slot, district and cell of two lines are the same.
Repeats(rows) ==
    \E i, j \in DOMAIN rows :
        i # j /\ [rows[i] EXCEPT !.total = 0] = [rows[j] EXCEPT !.total = 0]

\* Mutant: one masked fragment masks its whole cell.
CellRowMasked(rows, at) ==
    LET known == {i \in at : \A j \in at : rows[j].total # None}
    IN  [known |-> Total(LAMBDA i : rows[i].total, known),
         fragments |-> Cardinality(at), masked |-> Cardinality(at \ known)]

\* One cell at one time: rows' indices are those of its fragments.
CellRow(rows, at) ==
    LET known == {i \in at : rows[i].total # None}
    IN  [known |-> Total(LAMBDA i : rows[i].total, known),
         fragments |-> Cardinality(at), masked |-> Cardinality(at \ known)]

\* compact_living_population over the files, for the allowed cells.
Compact(files, allowed) ==
    LET lines == UNION {{f} \X DOMAIN files[f] : f \in DOMAIN files}
        rows == [x \in lines |-> files[x[1]][x[2]]]
        picked == {i \in DOMAIN rows : rows[i].cell \in allowed}
        key(i) == <<rows[i].slot, rows[i].cell>>
    IN  IF \/ allowed = {} \/ files = <<>>
           \/ \E f \in DOMAIN files : ~ReadableLines(files[f])
        THEN Refused
        ELSE IF Repeats(rows) \/ {rows[i].cell : i \in picked} # allowed THEN Refused
        ELSE [k \in {key(i) : i \in picked} |-> CellRow(rows, {i \in picked : key(i) = k})]

(* However the lines of a month are split over files, the same cells come  *)
(* out; every known count of an allowed cell is in exactly one of them,    *)
(* beside the number of those that were masked: nothing is invented or     *)
(* lost (compact_living_population, aggregation_contract).                 *)
CompactIsWhole(rows, allowed) ==
    LET whole == Compact(<<rows>>, allowed)
        mine == {i \in DOMAIN rows : rows[i].cell \in allowed}
    IN  /\ \A cut \in 0..Len(rows) :
               Compact(<<SubSeq(rows, cut + 1, Len(rows)), SubSeq(rows, 1, cut)>>, allowed)
                   = whole
        /\ whole # Refused =>
               /\ Total(LAMBDA k : whole[k].known, DOMAIN whole)
                      = Total(LAMBDA i : rows[i].total, {i \in mine : rows[i].total # None})
               /\ Total(LAMBDA k : whole[k].fragments, DOMAIN whole) = Cardinality(mine)
               /\ \A k \in DOMAIN whole :
                      whole[k].masked = Cardinality({i \in mine :
                          <<rows[i].slot, rows[i].cell>> = k /\ rows[i].total = None})

-----------------------------------------------------------------------------
(* Purpose trips: [date, from, to, dep, arr, purpose, flow].  A centroid   *)
(* is the point of a district, where the catalog has one.                  *)

\* build_purpose_od_centroids: a Seoul district by its own shape, every
\* si-gun-gu by its districts' shapes; one name per code, no code twice.
Centroids(features) ==
    LET dongs == {f \in features : f.seoul}
        groups == {f.sgg : f \in features}
    IN  IF \/ \E f, g \in features : f.sgg = g.sgg /\ f.sggName # g.sggName
           \/ \E f, g \in dongs : f # g /\ f.code = g.code
           \/ {f.code : f \in dongs} \cap groups # {}
        THEN Refused
        ELSE [c \in {f.code : f \in dongs} \cup groups |->
                {f.shape : f \in {g \in features : (g.seoul /\ g.code = c) \/ g.sgg = c}}]

\* _unit_bearing: none without two different points.
HasBearing(o, points) ==
    {o.from, o.to} \subseteq DOMAIN points /\ points[o.from] # points[o.to]

\* aggregate_od_flow_shadow
Flows(trips, points) ==
    LET live == {o \in trips : o.flow > 0}
        sum(set) == Total(LAMBDA o : o.flow, set)
        into(k) == {o \in live : <<o.to, o.arr>> = k}
        outOf(k) == {o \in live : <<o.from, o.dep>> = k}
        across(set) == {o \in set : o.from # o.to}
    IN  [k \in {<<o.to, o.arr>> : o \in live} \cup {<<o.from, o.dep>> : o \in live} |->
            [inbound |-> sum(into(k)), outbound |-> sum(outOf(k)),
             net |-> sum(into(k)) - sum(outOf(k)),
             withinIn |-> sum(into(k)) - sum(across(into(k))),
             withinOut |-> sum(outOf(k)) - sum(across(outOf(k))),
             purposes |-> [p \in {o.purpose : o \in into(k)} |->
                              sum({o \in into(k) : o.purpose = p})],
             eligible |-> sum(across(into(k))),
             directed |-> sum({o \in across(into(k)) : HasBearing(o, points)})]]

\* Mutant: only arrivals decide what an hour's artifact reads.
TouchesArriving(o, hours) == o.arr \in hours

\* The rows an artifact for these hours reads.
Touches(o, hours) == o.dep \in hours \/ o.arr \in hours

\* build_purpose_od_shadow
PurposeArtifact(trips, date, points, hours) ==
    LET read == {o \in trips : Touches(o, hours)}
        flows == Flows(read, points)
    IN  IF \/ hours = {} \/ \E o \in trips : o.date # date
           \/ read = {}
        THEN Refused
        ELSE [movements |-> [k \in {k \in DOMAIN flows : k[2] \in hours} |-> flows[k]],
              matched |-> Cardinality({o \in read : {o.from, o.to} \subseteq DOMAIN points}),
              rows |-> Cardinality(read),
              missing |-> UNION {{o.from, o.to} : o \in read} \ DOMAIN points]

(* An artifact of some hours says of them what one of the whole day says;  *)
(* trips enter a district's hour once and leave once, so what arrives is   *)
(* what left, and the purposes add up (build_purpose_od_shadow, hours).    *)
HoursAreOfTheDay(trips, date, points, hours) ==
    LET part == PurposeArtifact(trips, date, points, hours)
        day == Flows(trips, points)
        sum(of(_)) == Total(of, DOMAIN day)
    IN  /\ part # Refused =>
               part.movements = [k \in {k \in DOMAIN day : k[2] \in hours} |-> day[k]]
        /\ sum(LAMBDA k : day[k].net) = 0
        /\ sum(LAMBDA k : day[k].withinIn) = sum(LAMBDA k : day[k].withinOut)
        /\ \A k \in DOMAIN day :
               /\ Total(LAMBDA p : day[k].purposes[p], DOMAIN day[k].purposes) = day[k].inbound
               /\ day[k].directed <= day[k].eligible
               /\ day[k].inbound = day[k].withinIn + day[k].eligible

-----------------------------------------------------------------------------
(* The same-day screen: living maps <<zone, cell, hour>> to its count,     *)
(* moves maps <<zone, hour>> to inbound, outbound and net.                 *)

\* _load_od_artifact: one Seoul universe of zones, the same in every hour.
LoadOd(moves) ==
    LET zones(h) == {k[1] : k \in {q \in DOMAIN moves : q[2] = h}}
    IN  IF \/ \E k \in DOMAIN moves : \/ k[2] \notin ScreenHours
                                      \/ moves[k].net # moves[k].inbound - moves[k].outbound
           \/ \E g, h \in ScreenHours : Cardinality(zones(h)) # ZoneCount \/ zones(g) # zones(h)
        THEN Refused ELSE moves

CellsOf(living, zone, hour) ==
    {k[2] : k \in {q \in DOMAIN living : q[1] = zone /\ q[3] = hour}}

\* Mutant: a cell that appears only in the later hour is forgotten.
ComparedCellsBefore(living, zone, left, right) == CellsOf(living, zone, left)

\* The cells a zone's change is counted over.
ComparedCells(living, zone, left, right) ==
    CellsOf(living, zone, left) \cup CellsOf(living, zone, right)

\* _paired_zone_stocks: the change of a zone between two hours.
StockChange(living, zone, left, right, mask, absent) ==
    LET at(c, h) == IF <<zone, c, h>> \notin DOMAIN living THEN absent
                    ELSE IF living[<<zone, c, h>>] = None THEN mask
                    ELSE living[<<zone, c, h>>]
    IN  Total(LAMBDA c : at(c, right) - at(c, left), ComparedCells(living, zone, left, right))

\* The zones compared at an hour: all three hours have some row of theirs.
Compared(living, moves, h) ==
    {k[1] : k \in {q \in DOMAIN moves :
        q[2] = h /\ \A g \in h - 1 .. h + 1 : CellsOf(living, q[1], g) # {}}}

\* Coverage of the zones and steadiness of the cells refuse a poor day.
Comparable(living, moves, h) ==
    LET cells(g) == {k[2] : k \in {q \in DOMAIN living : q[3] = g}}
    IN  /\ 100 * Cardinality(Compared(living, moves, h))
               >= 95 * Cardinality({k \in DOMAIN moves : k[2] = h})
        /\ \A g \in {h - 1, h} : /\ cells(g) \cup cells(g + 1) # {}
                                 /\ Overlap(cells(g), cells(g + 1), 99)

Rho(living, moves, h, mask, absent) ==
    LET zones == SetToSortSeq(Compared(living, moves, h), LAMBDA a, b : a < b)
    IN  Spearman([i \in DOMAIN zones |-> moves[<<zones[i], h>>].net],
                 [i \in DOMAIN zones |-> StockChange(living, zones[i], h, h + 1, mask, absent)])

\* _verdict of the hours' correlations.
Verdict(rhos) ==
    LET positive == {i \in DOMAIN rhos : rhos[i] > 0}
    IN  IF \E i \in DOMAIN rhos : rhos[i] = None THEN "not_supported"
        ELSE IF positive = DOMAIN rhos /\ Median(rhos) >= 2 * 30 THEN "screening"
        ELSE IF Median(rhos) >= 2 * 20 /\ Cardinality(positive) >= 2 THEN "conditional"
        ELSE "not_supported"

\* _degrade
Degrade(verdict) ==
    IF verdict \in {"screening", "supported"} THEN "conditional" ELSE "not_supported"

\* _imputation_variants: the primary and one change of either at a time.
Variants == {<<2, 0>>} \cup {<<m, 0>> : m \in {0, 3}} \cup {<<2, a>> : a \in {2, 3}}

\* run_living_od_same_day
SameDay(living, moves) ==
    LET hours == SetToSortSeq(ScreenHours, LAMBDA a, b : a < b)
        rhos == [v \in Variants |-> [i \in DOMAIN hours |->
                    Rho(living, moves, hours[i], v[1], v[2])]]
        at(i) == {rhos[v][i] : v \in Variants}
        sensitive == \/ \E i \in DOMAIN hours : None \notin at(i) /\ Max(at(i)) - Min(at(i)) > 2
                     \/ Cardinality({Verdict(rhos[v]) : v \in Variants}) > 1
        base == Verdict(rhos[<<2, 0>>])
    IN  IF LoadOd(moves) = Refused \/ \E h \in ScreenHours : ~Comparable(living, moves, h)
        THEN Refused
        ELSE [rhos |-> rhos[<<2, 0>>], base |-> base, sensitive |-> sensitive,
              verdict |-> IF sensitive THEN Degrade(base) ELSE base]

(* A zone's change read backwards is the opposite change, whichever rows   *)
(* are masked or absent in either hour, so that a day that is the same in  *)
(* both hours moves nothing (_paired_zone_stocks: the union of cells).     *)
ChangesAreSigned(living, zone, left, right) ==
    \A v \in Variants :
        StockChange(living, zone, left, right, v[1], v[2])
            = -StockChange(living, zone, right, left, v[1], v[2])

-----------------------------------------------------------------------------
(* Repeats: a day is [date, role, rhos, base, sensitive].                  *)

\* Mutant: the day the relation was found on counts as well.
PooledDiscovery(days) == {d \in days : d.role # "descriptive_only"}

\* What the pooled verdict is about.
Pooled(days) == {d \in days : d.role = "held_out"}

\* _validate_pairs: exactly the registered days, each in its role.
ValidDays(days) ==
    /\ {d.date : d \in Pooled(days)} = HeldOut
    /\ \A c, d \in days : c # d => c.date # d.date

\* run_living_od_repeats
RepeatsVerdict(days) ==
    LET held == Pooled(days)
        hours == UNION {{d} \X DOMAIN d.rhos : d \in held}
        rhos == [x \in hours |-> x[1].rhos[x[2]]]
        positive == {x \in hours : rhos[x] > 0}
        count(verdicts) == Cardinality({d \in held : d.base \in verdicts})
        defined == hours # {} /\ None \notin Range(rhos)
        base == IF ~defined THEN "not_supported"
                ELSE IF /\ count({"screening"}) = Cardinality(held)
                        /\ Median(rhos) >= 2 * 30 /\ positive = hours THEN "supported"
                ELSE IF /\ count({"screening", "conditional"}) >= 2
                        /\ Median(rhos) >= 2 * 20 /\ Cardinality(positive) >= 7 THEN "conditional"
                ELSE "not_supported"
    IN  IF \E d \in held : d.sensitive THEN Degrade(base) ELSE base

Standing(verdict) == IF verdict \in {"screening", "supported"} THEN 2
                     ELSE IF verdict = "conditional" THEN 1 ELSE 0

(* Only days held out decide: a verdict is the one of the held-out days    *)
(* alone, and raising any of their correlations never lowers it            *)
(* (run_living_od_repeats; "discovery_in_verdict": false).                 *)
OnlyHeldOutDecide(days, better) ==
    LET held == {d \in days : d.role = "held_out"}
    IN  /\ RepeatsVerdict(days) = RepeatsVerdict(held)
        /\ (/\ \A d \in held : d.base = Verdict(d.rhos)
            /\ better \in 1..100) =>
               \A d \in held : \A i \in {j \in DOMAIN d.rhos : d.rhos[j] # None} :
                   LET up == [d.rhos EXCEPT ![i] = @ + better]
                       raised == (held \ {d}) \cup {[d EXCEPT !.rhos = up, !.base = Verdict(up)]}
                   IN  /\ Standing(Verdict(up)) >= Standing(Verdict(d.rhos))
                       /\ Standing(RepeatsVerdict(raised)) >= Standing(RepeatsVerdict(held))

-----------------------------------------------------------------------------
(* Weekly stability (run_purpose_od_stability).                            *)

\* run_stability_pilot: the weeks in order of date, seven days apart.
Weeks(artifacts) ==
    LET weeks == SetToSortSeq(artifacts, LAMBDA a, b : a.date < b.date)
    IN  IF \/ Len(weeks) < 4
           \/ \E i \in 1..Len(weeks) - 1 : weeks[i + 1].date - weeks[i].date # 7
           \/ Cardinality({<<a.centroids, a.schema>> : a \in artifacts}) # 1
        THEN Refused
        ELSE weeks

\* _pair_metrics: the rank agreement of two weeks of one hour.
PairMetrics(left, right) ==
    LET zones == SetToSortSeq(DOMAIN left, LAMBDA a, b : a < b)
        in(side, of(_)) == [i \in DOMAIN zones |-> of(side[zones[i]])]
        rho(of(_)) == Spearman(in(left, of), in(right, of))
        net == [side \in {left, right} |-> [z \in DOMAIN left |-> side[z].net]]
        steady(side, z) == side[z].coverage >= 95 /\ side[z].strength # None /\ side[z].strength >= 20
        angles == {z \in DOMAIN left : steady(left, z) /\ steady(right, z)}
        rhos == <<rho(LAMBDA m : m.net), rho(LAMBDA m : m.inbound), rho(LAMBDA m : m.outbound)>>
    IN  IF DOMAIN left # DOMAIN right \/ None \in Range(rhos) THEN Refused
        ELSE [rhos |-> rhos,
              tails |-> \A high \in BOOLEAN :
                            Overlap(RankTail(net[left], high), RankTail(net[right], high), 50),
              eligible |-> angles,
              angles |-> [z \in angles |-> Angle(left[z].heading, right[z].heading)]]

\* scalar_verdict
ScalarVerdict(net, inbound, outbound, tails) ==
    IF /\ Median(net) >= 2 * 80 /\ Min(Range(net)) >= 60
       /\ Median(inbound) >= 2 * 85 /\ Median(outbound) >= 2 * 85 /\ tails
    THEN "supported"
    ELSE IF Median(net) >= 2 * 60 /\ Min(Range(net)) >= 50 THEN "conditional"
    ELSE "not_supported"
=============================================================================
