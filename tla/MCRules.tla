------------------------------ MODULE MCRules ------------------------------
(***************************************************************************)
(* The algorithms of the server and of the offline pipelines, each over    *)
(* its own small inputs: a behaviour picks one rule and one input of it    *)
(* (sample), and an invariant of Rules says what the rule must give for it. *)
(* The two offline machines, Backfill and SourceSweep, are explored here   *)
(* too, each while everything else is at rest.                             *)
(***************************************************************************)
EXTENDS Rules, Backfill, SourceSweep, TLC

VARIABLE explored   \* the group of rules or the machine that is explored

-----------------------------------------------------------------------------
(* Constants. *)

MCWorld == [x1 |-> 0, x2 |-> 3, y1 |-> 0, y2 |-> 3]
MCSeoul == [x1 |-> 0, x2 |-> 2, y1 |-> 0, y2 |-> 2]
MCAliases == <<1, 2>> :> << <<1, 2>>, <<2, 1>> >>
MCAges == -1..60
MCDecay == [a \in 0..60 |-> 100 - ((100 * a) \div (a + 15))] @@ (-1 :> 100)
MCAlignment == [a \in 0..60 |-> 100 - ((100 * a) \div (a + 10))]
MCLogOf == (0 :> -5) @@ <<0, 7, 11, 14, 16, 18, 19, 21>>
MCQualityWeights == [spatial |-> 30, freshness |-> 30, agreement |-> 20, health |-> 20]
MCSizeFactor == [a \in 1..6 |-> 600 \div a]
MCThresholds == <<5, 15, 30>>
MCLagEdges == <<1, 2>>
MCRecency ==
    [b \in BOOLEAN |-> [a \in 0..40 |->
        IF b THEN (IF a <= 3 THEN 2 ELSE 1)
        ELSE (IF a <= 7 THEN 4 ELSE IF a <= 14 THEN 2 ELSE 1)]]
MCWhere == <<{<<1>>}, {<<1>>, <<2>>}, {<<2>>}, {<<1>>}>>

-----------------------------------------------------------------------------
(* Inputs of the catalog rules. *)

Street == [seoul |-> TRUE, gu |-> "g", road |-> "r", unit |-> 1]
Phone == [abroad |-> FALSE, number |-> 1]
PhoneAbroad == [abroad |-> TRUE, number |-> 1]
Place(i, n, p, a, x) == [id |-> i, name |-> n, phone |-> p, addrs |-> a, at |-> x]

OverturePlaces(i) ==
    {Place(i, n, p, {Street}, x) @@ [permits |-> {}, confident |-> c, web |-> None] :
        n \in {"n", "m"}, p \in {None, Phone}, x \in {0, 100}, c \in BOOLEAN}
KakaoPlaces(i) ==
    {Place(i, n, p, a, x) @@ [ce7 |-> TRUE] :
        n \in {"n", "m"}, p \in {None, PhoneAbroad}, a \in {{}, {Street}}, x \in {0, 60}}
PermitRecords == {Place("p1", "n", p, {}, x) : p \in {None, Phone}, x \in {0, 80}}
Entities(i) ==
    {Place(i, n, p, {a}, 0) : n \in {"n", None}, p \in {None, Phone},
                              a \in {Street, [Street EXCEPT !.gu = "h"], [Street EXCEPT !.unit = 2]}}
PermitRows ==
    [number : {1, 2, None}, phone : {None, Phone},
     body : [name : {"n"}, addrs : {{Street}}, at : {0, 7}, selected : {TRUE}, open : BOOLEAN]]
Near(i) == {Place(i, n, p, {Street}, x) : n \in {"n", "m"}, p \in {None, Phone}, x \in {0, 60}}

PickCatalog ==
    \/ \E a \in OverturePlaces("o1"), b \in {o \in OverturePlaces("o2") : o.confident},
          p \in PermitRecords, k \in KakaoPlaces("k1"), l \in KakaoPlaces("k2") :
          sample' = [rule |-> "catalog", in |-> <<{a, b}, {p}, {k, l}>>]
    \/ \E p \in Entities("p"), q \in Entities("q"), c \in Entities("c"), d \in Entities("d") :
          sample' = [rule |-> "permits", in |-> [x \in {p, q} |-> {c, d}]]
    \/ \E n \in 0..2 : \E rows \in [1..n -> PermitRows] : sample' = [rule |-> "rows", in |-> rows]
    \/ \E k \in Near("k"), l \in Near("k") \cup Near("l"), c \in Near("c"), used \in SUBSET {"k"} :
          sample' = [rule |-> "expansion", in |-> <<{k, l}, {c}, used>>]
    \/ \E n \in 0..4, m \in 0..3, size \in 0..6 :
          sample' = [rule |-> "review", in |-> <<[i \in 1..2 |->
                        [j \in 1..(IF i = 1 THEN n ELSE m) |-> <<i, j>>]], size>>]

-----------------------------------------------------------------------------
(* Inputs of the estimates and their shadows. *)

Observed(i) == [id : {i}, d : {1, 3, 6, 7}, level : {1, 2, 4}, age : {0, 5}]
Shape(d, b, in, l, a, p, s) ==
    [d |-> d, boundary |-> b, inside |-> in, level |-> l, age |-> a, people |-> p, area |-> s]
Seen ==
    {Shape(1, 2, TRUE, 1, 3, <<0, 4>>, 2), Shape(4, 2, TRUE, 4, -1, <<2, 3>>, 1),
     Shape(4, 4, FALSE, 2, 3, <<0, 0>>, 1), Shape(7, 4, FALSE, 4, 0, None, 2),
     Shape(7, 7, FALSE, 1, 3, <<1, 5>>, 1), Shape(2, 2, FALSE, 3, 3, <<2, 3>>, 4)}
TooLarge == Shape(1, 1, TRUE, 3, 9, <<1, 2>>, 5)
Views(n, shapes) == {{f[i] @@ [id |-> i, code |-> i] : i \in 1..n} : f \in [1..n -> shapes]}
Evidence(n) ==
    {{[id |-> i, d |-> f[i][1], inside |-> f[i][2], level |-> f[i][3], age |-> f[i][4],
       weight |-> f[i][5]] : i \in 1..n} :
        f \in [1..n -> {1, 6} \X BOOLEAN \X {1, 4} \X {-1, 5} \X {1, 3}]}
Cycles ==
    [status : {"complete", "partial", "failed", "unavailable"}, targets : {0, 2},
     saved : 0..2, failed : 0..1]
Squares == SUBSET ({1, 2} \X {1, 2})
Demands == [value : {-3, 0, 5, None}, unit : {"people_per_m2", "dimensionless_anomaly"},
            verified : BOOLEAN, catchment : {3, None}]
Venues == [area : {1, 3, None}, verified : BOOLEAN, match : {"verified", "missing"},
           context : {"standalone"}]
Anomalous(i) ==
    [id : {1, i}, source : {"a"}, version : {1}, base : {1, 3}, dispersion : {None, 2},
     lo : {None, 2}, hi : {2, 4}, observed : {None, -4, 3, 26}, fetched : {-1, 3, 26},
     cutoff : {3, 30}, weight : {1, 2}]

PickEstimate ==
    \/ \E a \in Observed(1), b \in Observed(2), c \in {o \in Observed(3) : o.level # 2} :
          sample' = [rule |-> "estimate", in |-> {a, b, c}]
    \/ \E n \in 0..3 : \E obs \in Views(n, Seen \cup {TooLarge}) :
          sample' = [rule |-> "polygons", in |-> obs]
    \/ \E a, b \in Views(2, Seen) : sample' = [rule |-> "report", in |-> <<a, b>>]
    \/ \E s, t \in [1..2 -> Squares \ {{}}] :
          sample' = [rule |-> "grid", in |-> <<{[code |-> i, shape |-> s[i]] : i \in 1..2},
                                              {[id |-> i, shape |-> t[i]] : i \in 1..2}>>]
    \/ \E n \in 1..2 : \E cs \in Evidence(n), c \in Cycles :
          sample' = [rule |-> "quality", in |-> <<cs, c>>]
    \/ \E d \in Demands, v \in Venues, l \in 1..6 :
          sample' = [rule |-> "pressure", in |-> <<d, v, l>>]
    \/ \E mode \in {"observed", "forecast", "baseline_only"} :
          \E a \in {c \in Anomalous(1) : Acceptable(c, mode)},
             b \in {c \in Anomalous(2) : Acceptable(c, mode)} :
             sample' = [rule |-> "anomaly", in |-> <<{a, b}, mode>>]
    \/ \E mode \in {"observed", "forecast", "baseline_only", "unsupported"}, a \in Anomalous(1) :
          sample' = [rule |-> "anomaly", in |-> <<{a}, mode>>]
-----------------------------------------------------------------------------
(* Inputs of the read API. *)

ListedCafe(i, a, x, n, s) ==
    [id |-> i, active |-> a, x |-> x, y |-> 1, name |-> n, address |-> <<1, 1>>, score |-> s]
Named(i) == {ListedCafe(i, a, x, n, None) : a \in BOOLEAN, x \in {0, 1, 3},
                n \in {<<1, 2>>, <<2, 1>>, <<2, 1, 2>>, <<1, 1>>}}
Scored(i) == {ListedCafe(i, a, 1, <<1, 2>>, s) : a \in BOOLEAN,
                 s \in {None} \cup [age : {None, 1, 3, 5}, level : {2}, confidence : {1, 3}]}
Urls ==
    {u \in [scheme : {"https", "http"},
            host : {"map.naver.com", "m.place.naver.com", "www.google.com"},
            path : {"/place/n", "/p/entry/place/n", "/maps/place/"}, number : {1, 2},
            query : {<<>>, <<1>>, <<1, 2>>}] : u.query = <<>> \/ u.host = "www.google.com"}
Linked ==
    [name : {<<1>>}, address : {<<1>>}, json : {[p \in Providers |-> u] : u \in {None} \cup Urls},
     places : {{}} \cup {{p} : p \in [provider : {"naver", "google"}, active : BOOLEAN,
                                     id : {1}, url : Urls]}]

PickRead ==
    \/ \E c \in Named(1), d \in Named(2), limit \in 1..2, origin \in {None, [x |-> 0, y |-> 1]},
          q \in {None, <<1>>, <<1, 2>>}, brand \in {None, <<1, 2>>, <<2, 1>>, <<2, 2>>} :
          sample' = [rule |-> "search", in |-> <<{c, d}, q, brand, origin, limit>>]
    \/ \E c \in Scored(1), d \in Scored(2), least \in {0, 2} :
          sample' = [rule |-> "listing", in |-> <<{c, d}, [x1 |-> 0, x2 |-> 1, y1 |-> 0, y2 |-> 1], least>>]
    \/ \E c \in Linked : sample' = [rule |-> "links", in |-> c]
    \/ \E age \in {None} \cup -4..8, arrived \in {0, 1, 3}, now \in 0..7, dated \in BOOLEAN :
          sample' = [rule |-> "age", in |-> <<age, arrived, now, dated>>]
    \/ \E status \in Statuses \cup {None}, age \in {None} \cup -4..8 :
          sample' = [rule |-> "health", in |-> <<status, age>>]

-----------------------------------------------------------------------------
(* Inputs of operations and provider clients. *)

Slots == {f \in [1..3 -> 0..6] : f[1] < f[2] /\ f[2] < f[3]}
CycleAt(s, c) == [id |-> 1, started |-> s, completed |-> c, targets |-> 1, saved |-> 1,
                  status |-> IF c = None THEN "running" ELSE "complete"]
Answers == {[kind |-> k, after |-> None] : k \in Kinds}
           \cup {[kind |-> "throttled", after |-> a] : a \in {-1, 2, 9}}

PickOperation ==
    \/ \E slots \in Slots, late \in [1..3 -> {-1, 0, 1}] :
          sample' = [rule |-> "missed", in |->
                        <<[i \in 1..3 |-> CycleAt(5 * slots[i] + late[i] + 2, None)], slots>>]
    \/ \E a \in 0..1, b \in {None} \cup 1..4, c \in 2..4, d \in {None} \cup 3..5,
          snapshots \in SUBSET [fetched : 0..6] :
          sample' = [rule |-> "attribution", in |-> <<<<CycleAt(a, b), CycleAt(c, d)>>, snapshots>>]
    \/ \E db \in [secrets : 0..2, extensions : SUBSET {"pg_cron", "pg_net"},
                  jobs : [{"poll", "monitor"} -> {None} \cup
                          [schedule : {Jobs.poll, Jobs.monitor}, active : BOOLEAN]]] :
          sample' = [rule |-> "scheduler", in |-> db]
    \/ \E client \in {"kakao", "naver"}, answers \in [1..4 -> Answers], left \in 0..4 :
          sample' = [rule |-> "calls", in |-> <<client, answers, left>>]
    \/ \E n \in 0..3 : \E p \in [1..n -> [code : {None, "INFO-000", "ERROR"}, area : BOOLEAN]] :
          sample' = [rule |-> "payload", in |-> p]

-----------------------------------------------------------------------------
(* Inputs of the offline data. *)

Rows == [slot : {1}, zone : {"z1", "z2"}, cell : {"p", "q"}, total : {None, 2}]
        \cup {[slot |-> 2, zone |-> "z1", cell |-> "p", total |-> 3]}
Trips == [date : {1}, from : {"a", "b"}, to : {"a", "b"}, dep : {8, 14}, arr : {14},
          purpose : {"1"}, flow : {2}]
         \cup {[date |-> 1, from |-> "a", to |-> "b", dep |-> 8, arr |-> 8, purpose |-> "2", flow |-> 1]}
Screened == {<<40, 40, 40>>, <<25, -5, 40>>, <<25, 25, 25>>, <<-5, -5, 60>>, <<None, 40, 40>>}
HeldOutDay(d, role, r, s) ==
    [date |-> d, role |-> role, rhos |-> r, base |-> Verdict(r), sensitive |-> s]
Absent == -9

PickData ==
    \/ \E n \in 0..3 : \E rows \in [1..n -> Rows], allowed \in {{"p"}, {"p", "q"}} :
          sample' = [rule |-> "compact", in |-> <<rows, allowed>>]
    \/ \E k \in 0..2 : \E trips \in kSubset(k, Trips), hours \in {{8}, {8, 14}},
          points \in {"a" :> 1, ("a" :> 1) @@ ("b" :> 2)} :
          sample' = [rule |-> "hours", in |-> <<trips, points, hours>>]
    \/ \E f \in [{"p", "q"} \X {8, 9} -> {None, 1, Absent}] :
          sample' = [rule |-> "changes", in |->
              [k \in {<<"z", x[1], x[2]>> : x \in {y \in DOMAIN f : f[y] # Absent}} |->
                  f[<<k[2], k[3]>>]]]
    \/ \E a, b, c \in Screened, s \in BOOLEAN :
          sample' = [rule |-> "repeats", in |->
              {HeldOutDay(1, "held_out", a, FALSE), HeldOutDay(2, "held_out", b, s),
               HeldOutDay(3, "held_out", <<40, 40, 25>>, FALSE), HeldOutDay(4, "discovery", c, FALSE)}]
    \/ \E n \in 0..3 : \E values \in [1..n -> {0, 2, 5}] : sample' = [rule |-> "statistics", in |-> values]

-----------------------------------------------------------------------------
(* Inputs of the evaluation and of the backtests. *)

Candidate(i, d, h, c) ==
    [id |-> i, active |-> TRUE, hotspot |-> h, d |-> d, confidence |-> c, valid |-> None, reason |-> None]
Candidates == {Candidate(3 * d + k, d, "h", k % 2) : d \in {1, 2, 3}, k \in 1..3}
              \cup {Candidate(20, 3, "g", 1), Candidate(21, None, "h", 1)}
Collected == {s \in [hotspot : {1, 2}, observed : 1..3, fetched : 1..4, level : {1}] :
                s.hotspot = 1 \/ s.fetched = 2}
UpTo(n, set) == UNION {kSubset(k, set) : k \in 0..n}

\* Four cafes of which two were seen at level 1 and two at level 3, and what
\* two models said of them; covers[c] is the coverage of cafe c.
Said(predicted, covers) ==
    {[truth |-> [cafe |-> c, at |-> 1, slot |-> 1, level |-> <<1, 3, 1, 3>>[c]],
      predicted |-> [coverage |-> covers[c], score |-> predicted[c], level |-> predicted[c]]] : c \in 1..4}
Predictions == {<<1, 3, 1, 3>>, <<1, 2, 1, 3>>, <<1, 3, 2, 3>>, <<2, 1, 1, 3>>, <<1, 1, 1, 1>>,
                <<3, 3, 1, 3>>, <<None, 1, 2, 3>>, <<1, 3, None, 3>>, <<2, 3, 1, 2>>}
Covers == <<"covered", "covered", "fringe", "fringe">>

Forecast(at, level, lo, hi) == [at |-> at, level |-> level, lo |-> lo, hi |-> hi]
Forecasts ==
    LET points == {Forecast(at, level, 1, hi) : at \in 1..6, level \in {1, 3}, hi \in {1, 3}}
    IN  {<<>>} \cup {<<p>> : p \in points}
        \cup {<<p, q>> : p \in points, q \in {x \in points : x.hi = 3}}
Snap(h, o, late, l, f) ==
    [hotspot |-> h, observed |-> o, fetched |-> o + late, level |-> l, lo |-> l, hi |-> l + 1, forecast |-> f]
Backtested ==
    {Snap(1, o, late, 1 + (o % 3), f) : o \in 1..4, late \in 1..2,
        f \in {<<>>, <<Forecast(3, 2, 1, 2)>>, <<Forecast(5, 2, 2, 3)>>}}
    \cup {Snap(2, o, 2, 2, <<Forecast(o + 2, 2, 2, 3)>>) : o \in 1..4}
RepeatedRuns ==
    {Snap(1, o, late, l, <<Forecast(o + k, l, l, l + 1)>>) :
        o \in 1..3, late \in 1..2, l \in {1, 3}, k \in {1, 2}}
Measurement(h, t) == [hotspot |-> h, observed |-> t, level |-> 1, lo |-> 1, hi |-> 2]

PickEvaluation ==
    \/ \E cafes \in UNION {kSubset(k, Candidates) : k \in {7, 9, 10, 11}},
          sheet \in {<<"h">>, <<"h", "h">>, <<"h", "h", "h">>, <<"h", "g">>} :
          sample' = [rule |-> "sheets", in |-> <<cafes, sheet>>]
    \/ \E a, b \in UpTo(2, Collected), t \in 2..3 : sample' = [rule |-> "knowledge", in |-> <<a, b, t>>]
    \/ \E a, b \in Predictions :
          sample' = [rule |-> "promotion", in |-> <<Said(a, Covers), Said(b, Covers)>>]
    \/ \E n \in 0..3 : \E pairs \in [1..n -> (1..3) \X (1..3)] : sample' = [rule |-> "kappa", in |-> pairs]

PickBacktest ==
    \/ \E f \in Forecasts, t \in 0..5 :
          sample' = [rule |-> "nowcast", in |-> <<[hotspot |-> 1, observed |-> 1, fetched |-> t,
                        level |-> 2, lo |-> 1, hi |-> 2, forecast |-> f], t>>]
    \/ \E s \in kSubset(2, Backtested) \cup kSubset(2, RepeatedRuns) : sample' = [rule |-> "backtest", in |-> s]
    \/ \E times \in SUBSET (1..5), t \in 0..6, k \in 0..2 :
          sample' = [rule |-> "nearest", in |-> <<[i \in 1..Cardinality(times) |->
                        Measurement(1, SetToSortSeq(times, <)[i])], t, k>>]
    \/ \E items \in SUBSET {Measurement(h, t) : h \in {1, 2}, t \in 1..3}, horizon \in {1, 2}, k \in 0..2 :
          sample' = [rule |-> "pairs", in |-> <<items, horizon, k>>]
    \/ \E days \in UpTo(2, {4, 5, 8, 11, 12, 14, 15} \X {None, 3, 7}), holidays \in {{}, {11}, {4, 18}},
          t \in {14, 18} :
          sample' = [rule |-> "baseline", in |->
                        <<{[date |-> d[1], total |-> d[2]] : d \in days}, t, holidays>>]
    \/ \E holidays \in SUBSET {3, 4, 5, 7, 9, 11}, d \in 0..13 :
          sample' = [rule |-> "holidays", in |-> <<d, holidays>>]

-----------------------------------------------------------------------------
(* The specification. *)

MCInit ==
    /\ BackfillInit /\ SweepInit /\ sample = None
    /\ explored \in {"catalog", "estimates", "reads", "operations", "data", "evaluation",
                    "backtests", "sweep", "backfill"}
    /\ explored # "sweep" => present = {}

Pick ==
    /\ sample = None
    /\ \/ explored = "catalog" /\ PickCatalog
       \/ explored = "estimates" /\ PickEstimate
       \/ explored = "reads" /\ PickRead
       \/ explored = "operations" /\ PickOperation
       \/ explored = "data" /\ PickData
       \/ explored = "evaluation" /\ PickEvaluation
       \/ explored = "backtests" /\ PickBacktest
    /\ UNCHANGED <<explored, backfillVars, sweepVars>>

MCNext ==
    \/ Pick
    \/ explored = "backfill" /\ BackfillNext /\ UNCHANGED <<explored, sample, sweepVars>>
    \/ explored = "sweep" /\ SweepNext /\ UNCHANGED <<explored, sample, backfillVars>>

MCSpec == MCInit /\ [][MCNext]_<<explored, sample, backfillVars, sweepVars>>
=============================================================================
