------------------------------ MODULE Serving ------------------------------
(***************************************************************************)
(* From a stored snapshot to what the browser shows of it: a materializer  *)
(* (engine.py materialize_all) turns snapshots into a score and a serving  *)
(* state, the read API answers from these rows (routes.py), the edge       *)
(* caches each answer under the data version of its URL (main.py), and the *)
(* browser takes its version from health checks that may overlap (map.ts). *)
(*                                                                         *)
(* One hotspot and one cafe beside it.  An observation is its number, the  *)
(* order of its time.  What its age hides of it is Freshness.              *)
(***************************************************************************)
EXTENDS Outcomes, FiniteSets, FiniteSetsExt

CONSTANTS
    Workers,        \* processes that may run materialize_all
    MaxObservation, \* bound: observations of the hotspot
    MaxAged         \* bound: those among them that become twelve hours old

ASSUME ServingAssumption == MaxObservation \in Nat \ {0} /\ MaxAged \in Nat

VARIABLES
    rows,       \* hotspot_snapshots
    horizon,    \* the observations up to it were found to be twelve hours old
    pc, view, history,
                \* materialize_all: where it is, the latest snapshot it read,
                \* and the last point of its trend
    score,      \* cafe_scores: source_observed_at
    state,      \* hotspot_serving_states: the observation of its trend and
                \* the one whose forecast it holds
    crossed,    \* (history) those at work beside whom another was at work
    settled,    \* (history) the observation last scored by a materializer
                \* beside whom no other had been at work
    reached,    \* (history) reached[v]: settled when the data version became v
    edge,       \* edge[v]: the observation of the answer cached under data
                \* version v, and whether its s-maxage is over
    version,    \* the browser's cacheVersion
    answers,    \* data versions health has answered, still on their way
    shown       \* the observation of the answer the browser got last

working == <<pc, view, history, crossed>>
stored == <<rows, horizon, score, state, settled, reached>>
vars == <<stored, working, edge, version, answers, shown>>

Observations == 1..MaxObservation

\* "the latest durable snapshot fetch": it advances with every inserted row.
DataVersion == Cardinality(rows)
Versions == 0..MaxObservation

\* The first observation is scored, and nobody has looked yet.
Init ==
    /\ rows = {1}
    /\ horizon = 0
    /\ pc = [w \in Workers |-> "idle"]
    /\ view = [w \in Workers |-> 0]
    /\ history = [w \in Workers |-> 0]
    /\ crossed = {} /\ settled = 1 /\ reached = [v \in Versions |-> 1]
    /\ score = 1
    /\ state = [trend |-> 1, forecast |-> 1]
    /\ edge = [v \in Versions |-> None]
    /\ version = None
    /\ answers = {}
    /\ shown = None

-----------------------------------------------------------------------------
(* The materializer. *)

\* An observation that was stored later may be of an earlier time.
StoreObservation ==
    \E o \in Observations \ rows :
        /\ rows' = rows \cup {o}
        /\ reached' = [reached EXCEPT ![DataVersion'] = settled]

\* save_batch inserted a row, so that materialize_all follows.
Insert(w) ==
    LET others == {u \in Workers \ {w} : pc[u] # "idle"} IN
    /\ pc[w] = "idle"
    /\ StoreObservation
    /\ pc' = [pc EXCEPT ![w] = "scoring"]
    /\ crossed' = IF others = {} THEN crossed ELSE crossed \cup others \cup {w}
    /\ UNCHANGED <<horizon, score, state, settled, view, history, edge, version, answers, shown>>

\* The first statement: each hotspot's latest snapshot, with its forecast,
\* however old it is.
ReadLatest(w) ==
    /\ pc[w] = "scoring"
    /\ view' = [view EXCEPT ![w] = Max(rows)]
    /\ pc' = [pc EXCEPT ![w] = "viewed"]
    /\ UNCHANGED <<stored, history, crossed, edge, version, answers, shown>>

\* The second: the trend of twelve hours, whose last point dates the state;
\* there is none when every row is older than that.
ReadHistory(w) ==
    /\ pc[w] = "viewed"
    /\ \/ history' = [history EXCEPT ![w] = Max(rows)] /\ UNCHANGED horizon
       \/ /\ Max(rows) <= MaxAged
          /\ history' = [history EXCEPT ![w] = 0] /\ horizon' = Max(rows)
    /\ pc' = [pc EXCEPT ![w] = "read"]
    /\ UNCHANGED <<rows, score, state, settled, reached, view, crossed, edge, version, answers, shown>>

Leave(w) ==
    /\ pc' = [pc EXCEPT ![w] = "idle"]
    /\ view' = [view EXCEPT ![w] = 0] /\ history' = [history EXCEPT ![w] = 0]
    /\ crossed' = crossed \ {w}

\* Mutant: a hotspot without a trend is left out of the scores as well.
CommitTrended(w) ==
    /\ pc[w] = "read"
    /\ score' = IF history[w] = 0 THEN score ELSE view[w]
    /\ state' = IF history[w] = 0 THEN state ELSE [trend |-> history[w], forecast |-> view[w]]
    /\ settled' = IF w \in crossed THEN settled ELSE view[w]
    /\ Leave(w)
    /\ UNCHANGED <<rows, horizon, reached, edge, version, answers, shown>>

\* One transaction writes the score, and the state of a hotspot with a trend.
Commit(w) ==
    /\ pc[w] = "read"
    /\ score' = view[w]
    /\ state' = IF history[w] = 0 THEN state ELSE [trend |-> history[w], forecast |-> view[w]]
    /\ settled' = IF w \in crossed THEN settled ELSE view[w]
    /\ Leave(w)
    /\ UNCHANGED <<rows, horizon, reached, edge, version, answers, shown>>

\* It raises, or its process is interrupted or killed, after the batch was
\* committed: the rows are there and their scores are not.
Fails(w) ==
    /\ pc[w] # "idle"
    /\ Leave(w)
    /\ UNCHANGED <<stored, edge, version, answers, shown>>

-----------------------------------------------------------------------------
(* The answers. *)

\* Mutant: the serving state is taken for the score's.
DetailUngated(fresh) ==
    [obs |-> score, trend |-> state.trend, forecast |-> IF fresh THEN state.forecast ELSE 0]

\* get_cafe: trend and forecast are those of the score's observation, or are
\* left out; and the forecast only while the score is fresh.
Detail(fresh) ==
    LET matches == state.trend = score IN
    [obs |-> score,
     trend |-> IF matches THEN state.trend ELSE 0,
     forecast |-> IF fresh /\ matches THEN state.forecast ELSE 0]

\* A score is fresh for minutes, long before its observation is twelve hours old.
Details == {Detail(fresh) : fresh \in {f \in BOOLEAN : f => score > horizon}}

\* The edge keeps an answer whole.
Fill(v) == [edge EXCEPT ![v] = [obs |-> score, life |-> "fresh"]]

Life == IF edge[version] = None THEN "over" ELSE edge[version].life

\* The answer of a versioned URL, which the edge keeps.
LoadFromOrigin ==
    /\ version # None
    /\ Life \in {"over", "stale"}
    /\ edge' = Fill(version)
    /\ shown' = score
    /\ UNCHANGED <<stored, working, version, answers>>

\* Within s-maxage; or stale-if-error, when the origin fails and fills nothing.
LoadCached ==
    /\ version # None
    /\ Life \in {"fresh", "stale"}
    /\ shown' = edge[version].obs
    /\ UNCHANGED <<stored, working, edge, version, answers>>

\* stale-while-revalidate: the next load finds the new answer.
LoadStale ==
    /\ version # None
    /\ Life = "stale"
    /\ shown' = edge[version].obs
    /\ edge' = Fill(version)
    /\ UNCHANGED <<stored, working, version, answers>>

\* Mutant: an answer to a versioned request is immutable.
OutliveNever(v) == edge[v] # None /\ UNCHANGED vars

\* A cached answer's s-maxage ends, and later the last of its
\* stale-while-revalidate and stale-if-error.
Outlive(v) ==
    /\ edge[v] # None
    /\ edge' = [edge EXCEPT ![v] =
          CASE @.life = "fresh" -> [@ EXCEPT !.life = "stale"]
            [] @.life = "stale" -> None]
    /\ UNCHANGED <<stored, working, version, answers, shown>>

-----------------------------------------------------------------------------
(* The browser. *)

\* A check is answered by health, and the answer is still on its way.
CheckHealth ==
    /\ answers' = answers \cup {DataVersion}
    /\ UNCHANGED <<stored, working, edge, version, shown>>

\* setCacheVersion: the last answer that arrives counts, not the newest.
CheckAnswers(v) ==
    /\ v \in answers
    /\ version' = v
    /\ answers' = answers \ {v}
    /\ UNCHANGED <<stored, working, edge, shown>>

Next ==
    \/ \E w \in Workers : Insert(w) \/ ReadLatest(w) \/ ReadHistory(w) \/ Commit(w) \/ Fails(w)
    \/ LoadFromOrigin \/ LoadCached \/ LoadStale
    \/ CheckHealth \/ \E v \in Versions : CheckAnswers(v) \/ Outlive(v)

Spec == Init /\ [][Next]_vars

\* Answers outlive their lifetimes, a materializer goes on or fails, the background
\* refresh checks and loads again, and the origin is not down for ever.
FairSpec ==
    /\ Spec
    /\ \A w \in Workers : WF_vars(ReadLatest(w) \/ ReadHistory(w) \/ Commit(w))
    /\ WF_vars(CheckHealth) /\ \A v \in Versions : WF_vars(CheckAnswers(v)) /\ WF_vars(Outlive(v))
    /\ SF_vars(LoadFromOrigin) /\ SF_vars(LoadCached)

-----------------------------------------------------------------------------
(* Properties. *)

Cached == [obs : Observations, life : {"fresh", "stale"}]

TypeOK ==
    /\ rows \subseteq Observations /\ 1 \in rows
    /\ pc \in [Workers -> {"idle", "scoring", "viewed", "read"}]
    /\ view \in [Workers -> rows \cup {0}] /\ history \in [Workers -> rows \cup {0}]
    /\ horizon \in rows \cup {0}
    /\ score \in rows /\ state \in [trend : rows, forecast : rows]
    /\ crossed \subseteq Workers
    /\ settled \in rows /\ reached \in [Versions -> rows]
    /\ edge \in [Versions -> {None} \cup Cached]
    /\ version \in Versions \cup {None}
    /\ answers \subseteq Versions
    /\ shown \in Observations \cup {None}

\* No answer shows the trend or the forecast of another observation than its
\* level's, though the materializer reads them by two statements with inserts
\* and other materializers between them.
DetailIsOneObservation ==
    \A d \in Details : d.trend \in {0, d.obs} /\ d.forecast \in {0, d.obs}

\* The score and the forecast beside it are of one snapshot, until that
\* snapshot is too old for a trend: from then on the state is that of the last
\* trend there was.
ScoreHasItsForecast ==
    /\ state.forecast = score \/ score <= horizon
    /\ \A w \in Workers :
          /\ pc[w] \in {"viewed", "read"} => view[w] \in rows
          /\ pc[w] = "read" /\ history[w] = 0 => view[w] <= horizon

\* Neither the edge nor the browser knows a version that is still to come.
VersionsAreReached ==
    /\ DataVersion \in Versions
    /\ version # None => version <= DataVersion
    /\ \A v \in answers : v <= DataVersion
    /\ \A v \in Versions : edge[v] # None => v <= DataVersion

\* A materializer beside whom no other has been at work is about to commit the
\* newest snapshot there is; and no other that is on its way, however long ago
\* it read and whatever has failed since, is about to put the scores back
\* behind the last such commit.
ScoresFollow ==
    /\ score >= settled
    /\ \A v \in Versions : reached[v] <= settled
    /\ crossed \subseteq {w \in Workers : pc[w] # "idle"}
    /\ \A w \in Workers :
          /\ pc[w] \in {"viewed", "read"} => view[w] >= settled
          /\ pc[w] # "idle" /\ w \notin crossed =>
                /\ \A u \in Workers \ {w} : pc[u] = "idle"
                /\ pc[w] \in {"viewed", "read"} => \A r \in rows : r <= view[w]

ServingInv == /\ TypeOK
              /\ ScoreHasItsForecast /\ DetailIsOneObservation
              /\ VersionsAreReached /\ ScoresFollow

\* An answer computed between a snapshot and its scores is kept under the new
\* version.  It is never behind what had been scored when that version began,
\* so that it lacks only ingests whose materializer was still at work then,
\* had failed, or had run beside another.
NoScoredIngestIsMissed ==
    \A v \in Versions : edge[v] # None => edge[v].obs >= reached[v]

\* Whatever was cached, and in whatever order checks were answered, the browser
\* comes to show the current score and keeps showing it.
ClientCatchesUp == <>[](shown = score)

=============================================================================
