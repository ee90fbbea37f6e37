---------------------------- MODULE ServingProofs ----------------------------
(***************************************************************************)
(* Serving, for any number of materializers and observations; then, for    *)
(* inputs of any size, the rules of estimates, reads, catalogs, operations *)
(* and clients: sums and products over finite sets, ranks and lists in     *)
(* order, and what rests on them.                                          *)
(***************************************************************************)
EXTENDS Serving, Rules, FiniteSetTheorems, FunctionTheorems, WellFoundedInduction, TLAPS

IInv == ServingInv /\ NoScoredIngestIsMissed

\* A set of numbers that is not empty has a least one.
LEMMA LeastExists ==
    ASSUME NEW S \in SUBSET Nat, S # {}
    PROVE  \E m \in S : \A i \in S : m <= i
<1>1. IsWellFoundedOn(OpToRel(<, Nat), Nat)
  BY NatLessThanWellFounded
<1>2. \A x \in Nat, y \in Nat : x < y => <<x, y>> \in OpToRel(<, Nat)
  BY Zenon DEF OpToRel
<1>3. PICK R : IsWellFoundedOn(R, Nat) /\ \A x \in Nat, y \in Nat : x < y => <<x, y>> \in R
  BY <1>1, <1>2, Zenon
<1>4. IsWellFoundedOn(R, Nat) /\ S \subseteq Nat /\ S # {}
  BY <1>3
<1>5. \E m \in S : \A i \in S : ~(<<i, m>> \in R)
  BY <1>4, WFMin, Zenon
<1>6. PICK m \in S : \A i \in S : ~(<<i, m>> \in R)
  BY <1>5
<1>7. \A i \in S : ~(i < m)
  BY <1>3, <1>6
<1> QED
  BY <1>6, <1>7

\* Rows are some numbers, the greatest among them the newest.
LEMMA RowsAreNumbers ==
    ASSUME TypeOK
    PROVE  /\ IsFiniteSet(rows) /\ rows \subseteq Nat /\ DataVersion \in Nat
           /\ Max(rows) \in rows /\ \A r \in rows : r <= Max(rows)
  <1>0. MaxObservation \in Nat /\ 1 \in Int /\ rows \in SUBSET Observations /\ 1 \in rows
    BY ServingAssumption DEF TypeOK
  <1>1. IsFiniteSet(Observations) /\ rows \in SUBSET Observations /\ Observations \subseteq Nat
    BY <1>0, FS_Interval DEF Observations
  <1>2. IsFiniteSet(rows) /\ rows \subseteq Nat /\ rows # {} /\ DataVersion \in Nat
    BY <1>0, <1>1, FS_Subset, FS_CardinalityType DEF DataVersion
  <1>3. \A r \in rows : r <= MaxObservation /\ r \in Nat /\ MaxObservation \in Nat
    BY <1>1, ServingAssumption DEF Observations
  <1> DEFINE left == {MaxObservation - r : r \in rows}
  <1>4. left \in SUBSET Nat /\ left # {}
    <2>1. \A r \in rows : MaxObservation - r \in Nat
      BY <1>3
    <2>2. rows # {}
      BY <1>2
    <2> QED
      BY <2>1, <2>2
  <1>5. PICK x \in left : \A y \in left : x <= y
    <2> HIDE DEF left
    <2> QED
      BY <1>4, LeastExists
  <1>6. PICK m \in rows : x = MaxObservation - m
    BY <1>5
  <1>7. \A r \in rows : MaxObservation - m <= MaxObservation - r
    BY <1>5, <1>6
  <1>8. \A r \in rows : r <= m /\ m >= r
    BY <1>3, <1>7
  <1>9. Max(rows) \in rows /\ \A r \in rows : Max(rows) >= r
    BY <1>8 DEF Max
  <1> QED
    BY <1>2, <1>9

\* Every insert advances the version by one, within its bound.
LEMMA InsertAdvances ==
    ASSUME TypeOK, NEW o \in Observations \ rows
    PROVE  /\ Cardinality(rows \cup {o}) = DataVersion + 1
           /\ DataVersion + 1 \in Versions /\ DataVersion \in Nat
  <1>1. IsFiniteSet(Observations) /\ Cardinality(Observations) = MaxObservation
    BY FS_Interval, ServingAssumption DEF Observations
  <1>2. rows \in SUBSET Observations /\ rows \cup {o} \in SUBSET Observations
    BY DEF TypeOK
  <1>3. IsFiniteSet(rows)
    BY <1>1, <1>2, FS_Subset
  <1>4. Cardinality(rows \cup {o}) <= MaxObservation
    BY <1>1, <1>2, FS_Subset
  <1>5. Cardinality(rows \cup {o}) = Cardinality(rows) + 1
    BY <1>3, FS_AddElement
  <1>6. Cardinality(rows) \in Nat
    BY <1>3, FS_CardinalityType
  <1> QED
    BY <1>4, <1>5, <1>6, ServingAssumption DEF DataVersion, Versions

\* What is shown is of one observation, before and after a step, if the state
\* has the score's forecast for as long as there is a trend.
ForecastIsScores == TypeOK /\ (state.forecast = score \/ score <= horizon)

LEMMA AnsweredIsOneObservation == ForecastIsScores => DetailIsOneObservation
  <1> SUFFICES ASSUME ForecastIsScores, NEW fresh \in BOOLEAN, fresh => score > horizon
               PROVE  /\ Detail(fresh).trend \in {0, Detail(fresh).obs}
                      /\ Detail(fresh).forecast \in {0, Detail(fresh).obs}
    BY DEF DetailIsOneObservation, Details
  <1>1. score \in Nat /\ horizon \in Nat
    BY RowsAreNumbers DEF ForecastIsScores, TypeOK
  <1>2. fresh => state.forecast = score
    BY <1>1 DEF ForecastIsScores
  <1> QED
    BY <1>2 DEF Detail

LEMMA AnsweredStaysOneObservation == ForecastIsScores' => DetailIsOneObservation'
  BY AnsweredIsOneObservation, PTL

\* It holds at the start.
LEMMA InitInv == Init => IInv
  <1> SUFFICES ASSUME Init PROVE IInv
    OBVIOUS
  <1>1. DataVersion = 1
    BY FS_Singleton DEF Init, DataVersion
  <1>2. 1 \in Versions /\ 1 \in Observations
    BY ServingAssumption DEF Versions, Observations
  <1>3. TypeOK
    BY <1>2, ServingAssumption DEF Init, TypeOK
  <1>4. ScoreHasItsForecast
    BY DEF Init, ScoreHasItsForecast
  <1>5. DetailIsOneObservation
    BY <1>3, AnsweredIsOneObservation DEF Init, ForecastIsScores
  <1>6. VersionsAreReached
    BY <1>1, <1>2 DEF Init, VersionsAreReached
  <1>7. ScoresFollow
    BY DEF Init, ScoresFollow
  <1>8. NoScoredIngestIsMissed
    BY DEF Init, NoScoredIngestIsMissed
  <1> QED
    BY <1>3, <1>4, <1>5, <1>6, <1>7, <1>8 DEF IInv, ServingInv

----------------------------------------------------------------------------
(* The materializer.                                                         *)

\* A poll that stores an observation keeps what was served consistent with it.
LEMMA InsertPreserves ==
    ASSUME IInv, NEW w \in Workers, Insert(w)
    PROVE  IInv'
  <1> USE DEF IInv, ServingInv
  <1> DEFINE others == {u \in Workers \ {w} : pc[u] # "idle"}
             n == DataVersion
  <1>1. PICK o \in Observations \ rows :
            /\ rows' = rows \cup {o}
            /\ reached' = [reached EXCEPT ![DataVersion'] = settled]
    BY DEF Insert, StoreObservation
  <1>2. /\ pc[w] = "idle"
        /\ pc' = [pc EXCEPT ![w] = "scoring"]
        /\ crossed' = IF others = {} THEN crossed ELSE crossed \cup others \cup {w}
        /\ horizon' = horizon /\ settled' = settled
        /\ score' = score /\ state' = state /\ view' = view /\ history' = history
        /\ edge' = edge /\ version' = version /\ answers' = answers /\ shown' = shown
    BY DEF Insert
  <1>3. DataVersion' = n + 1 /\ n \in Nat /\ n + 1 \in Versions
    BY <1>1, InsertAdvances DEF DataVersion
  <1>4. rows \subseteq rows' /\ rows' \subseteq Observations /\ rows' \subseteq Nat
    BY <1>1, ServingAssumption DEF TypeOK, Observations
  <1>5. /\ reached' = [reached EXCEPT ![n + 1] = settled]
        /\ \A v \in Versions : reached'[v] = reached[v] \/ (v = n + 1 /\ reached'[v] = settled)
    <2> HIDE DEF n
    <2> QED
      BY <1>1, <1>3 DEF TypeOK
  <1>6. pc'[w] = "scoring" /\ \A u \in Workers \ {w} : pc'[u] = pc[u]
    BY <1>2 DEF TypeOK
  <1> HIDE DEF n, others
  <1>7. TypeOK'
    <2>1. /\ view' \in [Workers -> rows' \cup {0}] /\ history' \in [Workers -> rows' \cup {0}]
          /\ horizon' \in rows' \cup {0} /\ settled' \in rows'
          /\ score' \in rows' /\ state' \in [trend : rows', forecast : rows']
      BY <1>2, <1>4 DEF TypeOK
    <2>2. reached' \in [Versions -> rows']
      BY <1>3, <1>4, <1>5 DEF TypeOK
    <2>3. crossed' \subseteq Workers
      BY <1>2 DEF TypeOK, others
    <2>4. pc' \in [Workers -> {"idle", "scoring", "viewed", "read"}]
      BY <1>2 DEF TypeOK
    <2> QED
      BY <1>2, <1>4, <2>1, <2>2, <2>3, <2>4 DEF TypeOK
  <1>8. ScoreHasItsForecast'
    BY <1>2, <1>4, <1>6 DEF ScoreHasItsForecast
  <1>9. DetailIsOneObservation'
    BY <1>2 DEF DetailIsOneObservation, Details, Detail
  <1>10. VersionsAreReached'
    <2>1. \A v \in Nat : v <= n => v <= n + 1
      BY <1>3
    <2>2. Versions \subseteq Nat /\ answers \subseteq Versions
          /\ (version # None => version \in Versions)
      BY DEF Versions, TypeOK
    <2> QED
      BY <1>2, <1>3, <2>1, <2>2 DEF VersionsAreReached, n
  <1>11. ScoresFollow'
    <2>1. score' >= settled' /\ \A v \in Versions : reached'[v] <= settled'
      <3>1. settled \in Nat /\ settled <= settled
        BY <1>4 DEF TypeOK
      <3> QED
        BY <1>2, <1>5, <3>1 DEF ScoresFollow
    <2>2. crossed' \subseteq {u \in Workers : pc'[u] # "idle"}
      BY <1>2, <1>6 DEF ScoresFollow, others
    <2>3. ASSUME NEW u \in Workers
          PROVE  /\ pc'[u] \in {"viewed", "read"} => view'[u] >= settled'
                 /\ pc'[u] # "idle" /\ u \notin crossed' =>
                       /\ \A x \in Workers \ {u} : pc'[x] = "idle"
                       /\ pc'[u] \in {"viewed", "read"} => \A r \in rows' : r <= view'[u]
      <3>1. CASE u = w
        BY <1>2, <1>6, <3>1 DEF others
      <3>2. CASE u # w
        BY <1>2, <1>6, <3>2 DEF ScoresFollow, others
      <3> QED
        BY <3>1, <3>2
    <2> QED
      BY <2>1, <2>2, <2>3 DEF ScoresFollow
  <1>12. NoScoredIngestIsMissed'
    <2> SUFFICES ASSUME NEW v \in Versions, edge[v] # None
                 PROVE  edge[v].obs >= reached'[v]
      BY <1>2 DEF NoScoredIngestIsMissed
    <2>1. v <= n /\ v \in Nat
      BY DEF VersionsAreReached, n, Versions
    <2>2. reached'[v] = reached[v]
      BY <1>3, <1>5, <2>1
    <2> QED
      BY <2>2 DEF NoScoredIngestIsMissed
  <1> QED
    BY <1>7, <1>8, <1>9, <1>10, <1>11, <1>12

\* What the other steps of the materializer leave alone.
LEMMA MaterializerPreserves ==
    ASSUME IInv, NEW w \in Workers, ReadLatest(w) \/ ReadHistory(w) \/ Commit(w) \/ Fails(w)
    PROVE  IInv'
  <1> USE DEF IInv, ServingInv
  <1>1. /\ rows' = rows /\ reached' = reached /\ DataVersion' = DataVersion
        /\ edge' = edge /\ version' = version /\ answers' = answers /\ shown' = shown
    BY DEF ReadLatest, ReadHistory, Commit, Fails, stored, DataVersion
  <1>2. VersionsAreReached' /\ NoScoredIngestIsMissed'
    BY <1>1 DEF VersionsAreReached, NoScoredIngestIsMissed
  <1>3. /\ Max(rows) \in rows /\ (\A r \in rows : r <= Max(rows)) /\ rows \subseteq Nat
        /\ settled \in rows /\ score \in rows /\ horizon \in rows \cup {0}
    BY RowsAreNumbers DEF TypeOK
  <1> DEFINE newest == Max(rows)
  <1>4. /\ newest \in rows /\ newest \in Nat /\ newest >= settled /\ newest >= horizon
        /\ \A r \in rows : r <= newest
    <2>1. newest \in rows /\ (\A r \in rows : r <= newest)
      BY <1>3
    <2> HIDE DEF newest
    <2> QED
      BY <1>3, <2>1
  <1>5. ASSUME score' = score, state' = state, horizon' = horizon \/ horizon' = newest, TypeOK'
        PROVE  DetailIsOneObservation' /\ (state'.forecast = score' \/ score' <= horizon')
    <2>1. state.forecast = score \/ score <= horizon
      BY DEF ScoreHasItsForecast
    <2>2. state'.forecast = score' \/ score' <= horizon'
      BY <1>3, <1>4, <1>5, <2>1
    <2> QED
      BY <1>5, <2>2, AnsweredStaysOneObservation DEF ForecastIsScores
  <1>6. CASE ReadLatest(w)
    <2>1. /\ pc[w] = "scoring" /\ pc' = [pc EXCEPT ![w] = "viewed"]
          /\ view' = [view EXCEPT ![w] = newest] /\ history' = history /\ crossed' = crossed
          /\ score' = score /\ state' = state /\ horizon' = horizon /\ settled' = settled
      BY <1>6 DEF ReadLatest, stored
    <2> HIDE DEF newest
    <2>2. /\ pc'[w] = "viewed" /\ view'[w] = newest
          /\ \A u \in Workers \ {w} : pc'[u] = pc[u] /\ view'[u] = view[u]
      BY <2>1 DEF TypeOK
    <2>3. TypeOK'
      BY <1>1, <1>4, <2>1 DEF TypeOK
    <2>4. DetailIsOneObservation' /\ ScoreHasItsForecast'
      BY <1>1, <1>4, <1>5, <2>1, <2>2, <2>3 DEF ScoreHasItsForecast
    <2>5. ScoresFollow'
      BY <1>1, <1>4, <2>1, <2>2 DEF ScoresFollow
    <2> QED
      BY <1>2, <2>3, <2>4, <2>5
  <1>7. CASE ReadHistory(w)
    <2>1. /\ pc[w] = "viewed" /\ pc' = [pc EXCEPT ![w] = "read"] /\ view' = view /\ crossed' = crossed
          /\ \/ history' = [history EXCEPT ![w] = newest] /\ horizon' = horizon
             \/ history' = [history EXCEPT ![w] = 0] /\ horizon' = newest
          /\ score' = score /\ state' = state /\ settled' = settled
      BY <1>7 DEF ReadHistory
    <2> HIDE DEF newest
    <2>2. /\ pc'[w] = "read"
          /\ \A u \in Workers \ {w} : pc'[u] = pc[u] /\ history'[u] = history[u]
      BY <2>1 DEF TypeOK
    <2>3. TypeOK'
      BY <1>1, <1>4, <2>1 DEF TypeOK
    <2>4. /\ pc'[w] = "read" /\ view'[w] \in rows
          /\ history'[w] = 0 => view'[w] <= horizon'
      <3>1. view[w] \in rows
        BY <2>1 DEF ScoreHasItsForecast
      <3>2. history'[w] = 0 => horizon' = newest
        <4>1. newest # 0
          BY <1>4, ServingAssumption DEF TypeOK, Observations
        <4> QED
          BY <2>1, <4>1 DEF TypeOK
      <3> QED
        BY <1>4, <2>1, <2>2, <3>1, <3>2
    <2>5. ASSUME NEW u \in Workers
          PROVE  /\ pc'[u] \in {"viewed", "read"} => view'[u] \in rows'
                 /\ pc'[u] = "read" /\ history'[u] = 0 => view'[u] <= horizon'
      <3>1. CASE u = w
        BY <1>1, <2>4, <3>1
      <3>2. CASE u # w
        <4>1. horizon' >= horizon /\ horizon \in Nat /\ horizon' \in Nat
          BY <1>3, <1>4, <2>1
        <4>2. pc[u] \in {"viewed", "read"} => view[u] \in rows
          BY DEF ScoreHasItsForecast
        <4>3. pc[u] = "read" /\ history[u] = 0 => view[u] <= horizon
          BY DEF ScoreHasItsForecast
        <4>4. pc'[u] = pc[u] /\ history'[u] = history[u] /\ view'[u] = view[u]
          BY <2>1, <2>2, <3>2
        <4>5. pc'[u] \in {"viewed", "read"} => view'[u] \in rows'
          BY <1>1, <4>2, <4>4
        <4>6. pc'[u] = "read" /\ history'[u] = 0 => view'[u] <= horizon'
          <5> SUFFICES ASSUME pc[u] = "read", history[u] = 0 PROVE view[u] <= horizon'
            BY <4>4
          <5>1. view[u] \in Nat /\ view[u] <= horizon
            BY <1>3, <4>2, <4>3
          <5> QED
            BY <4>1, <5>1
        <4> QED
          BY <4>5, <4>6
      <3> QED
        BY <3>1, <3>2
    <2>6. DetailIsOneObservation' /\ ScoreHasItsForecast'
      BY <1>5, <2>1, <2>3, <2>5 DEF ScoreHasItsForecast
    <2>7. ScoresFollow'
      BY <1>1, <2>1, <2>2 DEF ScoresFollow
    <2> QED
      BY <1>2, <2>3, <2>6, <2>7
  <1>8. ASSUME Leave(w), score' \in rows, settled' \in rows, score' >= settled', settled' >= settled,
               state' \in [trend : rows, forecast : rows], horizon' = horizon,
               state'.forecast = score' \/ score' <= horizon',
               \A u \in Workers \ {w} : pc[u] \in {"viewed", "read"} => view[u] >= settled'
        PROVE  IInv'
    <2>1. /\ pc' = [pc EXCEPT ![w] = "idle"] /\ view' = [view EXCEPT ![w] = 0]
          /\ history' = [history EXCEPT ![w] = 0] /\ crossed' = crossed \ {w}
      BY <1>8 DEF Leave
    <2>2. /\ pc'[w] = "idle"
          /\ \A u \in Workers \ {w} : pc'[u] = pc[u] /\ view'[u] = view[u] /\ history'[u] = history[u]
      BY <2>1 DEF TypeOK
    <2>3. TypeOK'
      BY <1>1, <1>8, <2>1 DEF TypeOK
    <2>4. ScoreHasItsForecast'
      BY <1>1, <1>8, <2>2 DEF ScoreHasItsForecast
    <2>5. DetailIsOneObservation'
      BY <1>8, <2>3, AnsweredStaysOneObservation DEF ForecastIsScores
    <2>6. \A v \in Versions : reached[v] <= settled'
      <3>1. \A v \in Versions : reached[v] <= settled /\ reached[v] \in Nat
        BY <1>3 DEF ScoresFollow, TypeOK
      <3>2. settled \in Nat /\ settled' \in Nat /\ settled' >= settled
        BY <1>3, <1>8
      <3> QED
        BY <3>1, <3>2
    <2>7. ScoresFollow'
      BY <1>1, <1>8, <2>1, <2>2, <2>6 DEF ScoresFollow
    <2> QED
      BY <1>2, <2>3, <2>4, <2>5, <2>7
  <1>9. CASE Commit(w)
    <2>1. /\ pc[w] = "read" /\ Leave(w) /\ horizon' = horizon
          /\ score' = view[w] /\ settled' = IF w \in crossed THEN settled ELSE view[w]
          /\ state' = IF history[w] = 0 THEN state ELSE [trend |-> history[w], forecast |-> view[w]]
      BY <1>9 DEF Commit
    <2>2. view[w] \in rows /\ view[w] >= settled /\ view[w] \in Nat
      BY <1>3, <2>1 DEF ScoreHasItsForecast, ScoresFollow
    <2>3. settled' \in rows /\ score' >= settled' /\ settled' >= settled
      <3>1. settled \in Nat /\ settled \in rows
        BY <1>3
      <3>2. CASE w \in crossed
        BY <2>1, <2>2, <3>1, <3>2
      <3>3. CASE w \notin crossed
        BY <2>1, <2>2, <3>1, <3>3
      <3> QED
        BY <3>2, <3>3
    <2>4. state' \in [trend : rows, forecast : rows]
      BY <2>1, <2>2 DEF TypeOK
    <2>5. state'.forecast = score' \/ score' <= horizon'
      BY <2>1 DEF ScoreHasItsForecast
    <2>6. \A u \in Workers \ {w} : pc[u] \in {"viewed", "read"} => view[u] >= settled'
      BY <2>1 DEF ScoresFollow
    <2> QED
      BY <1>8, <2>1, <2>2, <2>3, <2>4, <2>5, <2>6
  <1>10. CASE Fails(w)
    <2>1. Leave(w) /\ score' = score /\ settled' = settled /\ state' = state /\ horizon' = horizon
      BY <1>10 DEF Fails, stored
    <2>2. /\ score >= settled /\ settled >= settled
          /\ \A u \in Workers \ {w} : pc[u] \in {"viewed", "read"} => view[u] >= settled
      <3>1. settled \in Nat
        BY <1>3
      <3>2. settled >= settled
        BY <3>1
      <3> QED
        BY <3>2 DEF ScoresFollow
    <2>3. state \in [trend : rows, forecast : rows] /\ (state.forecast = score \/ score <= horizon)
      BY DEF TypeOK, ScoreHasItsForecast
    <2> QED
      BY <1>3, <1>8, <2>1, <2>2, <2>3
  <1> QED
    BY <1>6, <1>7, <1>9, <1>10

----------------------------------------------------------------------------
(* The answers.                                                              *)

\* The steps that leave the materializer alone.
LEMMA ServedPreserves ==
    ASSUME IInv, UNCHANGED <<stored, working>>,
           edge' \in [Versions -> {None} \cup Cached], shown' \in Observations \cup {None},
           version' \in Versions \cup {None}, answers' \subseteq Versions, VersionsAreReached',
           \A v \in Versions :
              edge'[v] # None => \/ edge[v] # None /\ edge'[v].obs = edge[v].obs
                                 \/ edge'[v].obs = score
    PROVE  IInv'
  <1> USE DEF IInv, ServingInv
  <1>1. /\ rows' = rows /\ horizon' = horizon /\ score' = score /\ state' = state
        /\ settled' = settled /\ reached' = reached
        /\ pc' = pc /\ view' = view /\ history' = history /\ crossed' = crossed
    BY DEF stored, working
  <1>2. TypeOK'
    BY <1>1 DEF TypeOK
  <1>3. ScoreHasItsForecast' /\ ScoresFollow' /\ DetailIsOneObservation'
    BY <1>1 DEF ScoreHasItsForecast, ScoresFollow, DetailIsOneObservation, Details, Detail
  <1>4. NoScoredIngestIsMissed'
    <2> SUFFICES ASSUME NEW v \in Versions, edge'[v] # None
                 PROVE  edge'[v].obs >= reached[v]
      BY <1>1 DEF NoScoredIngestIsMissed
    <2>1. CASE edge[v] # None /\ edge'[v].obs = edge[v].obs
      BY <2>1 DEF NoScoredIngestIsMissed
    <2>2. CASE edge'[v].obs = score
      <3>1. score \in Nat /\ settled \in Nat /\ reached[v] \in Nat
        BY RowsAreNumbers DEF TypeOK
      <3> QED
        BY <2>2, <3>1 DEF ScoresFollow
    <2> QED
      BY <2>1, <2>2
  <1> QED
    BY <1>2, <1>3, <1>4

\* An answer of the origin fills the edge under the version of its URL.
LEMMA FillPreserves ==
    ASSUME IInv, UNCHANGED <<stored, working, version, answers>>, version # None,
           edge' = Fill(version), shown' \in Observations
    PROVE  IInv'
  <1> DEFINE entry == [obs |-> score, life |-> "fresh"]
  <1>1. version \in Versions /\ edge \in [Versions -> {None} \cup Cached]
    BY DEF IInv, ServingInv, TypeOK
  <1>2. entry \in Cached /\ entry.obs = score
    BY DEF IInv, ServingInv, TypeOK, Cached
  <1> HIDE DEF entry
  <1>3. /\ edge' \in [Versions -> {None} \cup Cached]
        /\ edge'[version] = entry
        /\ \A v \in Versions \ {version} : edge'[v] = edge[v]
    BY <1>1, <1>2 DEF Fill, entry
  <1>4. DataVersion' = DataVersion
    BY DEF stored, DataVersion
  <1>5. VersionsAreReached'
    BY <1>3, <1>4 DEF IInv, ServingInv, VersionsAreReached
  <1>6. \A v \in Versions :
            edge'[v] # None => \/ edge[v] # None /\ edge'[v].obs = edge[v].obs
                               \/ edge'[v].obs = score
    BY <1>2, <1>3
  <1>7. version' \in Versions \cup {None} /\ answers' \subseteq Versions
    BY DEF IInv, ServingInv, TypeOK
  <1> QED
    BY <1>3, <1>5, <1>6, <1>7, ServedPreserves

\* However the edge is filled or read, its answers stay of one version.
LEMMA LoadPreserves ==
    ASSUME IInv, LoadFromOrigin \/ LoadCached \/ LoadStale
    PROVE  IInv'
  <1>1. ASSUME version # None, Life # "over"
        PROVE  edge[version].obs \in Observations
    BY <1>1 DEF Life, IInv, ServingInv, TypeOK, Cached
  <1>2. CASE LoadFromOrigin
    <2>1. score \in Observations
      BY DEF IInv, ServingInv, TypeOK
    <2> QED
      BY <1>2, <2>1, FillPreserves DEF LoadFromOrigin
  <1>3. CASE LoadStale
    BY <1>1, <1>3, FillPreserves DEF LoadStale
  <1>4. CASE LoadCached
    <2>1. /\ UNCHANGED <<stored, working>> /\ edge' = edge /\ version' = version
          /\ answers' = answers /\ shown' \in Observations
      BY <1>1, <1>4 DEF LoadCached
    <2>2. DataVersion' = DataVersion
      BY <2>1 DEF stored, DataVersion
    <2>3. VersionsAreReached'
      BY <2>1, <2>2 DEF IInv, ServingInv, VersionsAreReached
    <2> QED
      BY <2>1, <2>3, ServedPreserves DEF IInv, ServingInv, TypeOK
  <1> QED
    BY <1>2, <1>3, <1>4

\* An answer that ages at the edge stays the answer it was.
LEMMA OutlivePreserves ==
    ASSUME IInv, NEW v \in Versions, Outlive(v)
    PROVE  IInv'
  <1>1. /\ edge \in [Versions -> {None} \cup Cached] /\ edge[v] # None
        /\ UNCHANGED <<stored, working>> /\ version' = version
        /\ answers' = answers /\ shown' = shown
    BY DEF Outlive, IInv, ServingInv, TypeOK
  <1>2. edge[v] \in Cached
    BY <1>1
  <1>3. PICK e \in {None} \cup Cached :
            /\ edge' = [edge EXCEPT ![v] = e]
            /\ e = None \/ e.obs = edge[v].obs
    <2>1. CASE edge[v].life = "fresh"
      <3>1. edge' = [edge EXCEPT ![v] = [edge[v] EXCEPT !.life = "stale"]]
        BY <2>1 DEF Outlive
      <3>2. \A e \in Cached : /\ [e EXCEPT !.life = "stale"] \in Cached
                              /\ [e EXCEPT !.life = "stale"].obs = e.obs
        BY DEF Cached
      <3> QED
        BY <1>2, <3>1, <3>2
    <2>2. CASE edge[v].life = "stale"
      BY <2>2 DEF Outlive
    <2> QED
      BY <1>2, <2>1, <2>2 DEF Cached
  <1>4. /\ edge' \in [Versions -> {None} \cup Cached]
        /\ \A u \in Versions : edge'[u] # None => edge[u] # None /\ edge'[u].obs = edge[u].obs
    BY <1>1, <1>3
  <1>5. DataVersion' = DataVersion
    BY <1>1 DEF stored, DataVersion
  <1>6. VersionsAreReached'
    BY <1>1, <1>4, <1>5 DEF IInv, ServingInv, VersionsAreReached
  <1> QED
    BY <1>1, <1>4, <1>6, ServedPreserves DEF IInv, ServingInv, TypeOK

----------------------------------------------------------------------------
(* The browser.                                                              *)

\* A check of the API or of the answers keeps the invariant.
LEMMA CheckPreserves ==
    ASSUME IInv, CheckHealth \/ \E v \in Versions : CheckAnswers(v)
    PROVE  IInv'
  <1>1. /\ UNCHANGED <<stored, working>> /\ edge' = edge /\ shown' = shown
        /\ answers' \subseteq answers \cup {DataVersion}
        /\ version' = version \/ version' \in answers
    BY DEF CheckHealth, CheckAnswers
  <1>2. DataVersion' = DataVersion /\ DataVersion \in Versions /\ DataVersion <= DataVersion
    BY <1>1 DEF stored, DataVersion, IInv, ServingInv, VersionsAreReached, Versions
  <1>3. VersionsAreReached'
    BY <1>1, <1>2 DEF IInv, ServingInv, VersionsAreReached
  <1>4. version' \in Versions \cup {None} /\ answers' \subseteq Versions
    BY <1>1, <1>2 DEF IInv, ServingInv, TypeOK
  <1> QED
    BY <1>1, <1>3, <1>4, ServedPreserves DEF IInv, ServingInv, TypeOK

----------------------------------------------------------------------------

\* Every step keeps the invariant.
LEMMA NextInv == IInv /\ [Next]_vars => IInv'
  <1> SUFFICES ASSUME IInv, [Next]_vars
               PROVE  IInv'
    OBVIOUS
  <1>1. CASE \E w \in Workers : Insert(w)
    BY <1>1, InsertPreserves
  <1>2. CASE \E w \in Workers : ReadLatest(w) \/ ReadHistory(w) \/ Commit(w) \/ Fails(w)
    BY <1>2, MaterializerPreserves
  <1>3. CASE LoadFromOrigin \/ LoadCached \/ LoadStale
    BY <1>3, LoadPreserves
  <1>4. CASE CheckHealth \/ \E v \in Versions : CheckAnswers(v)
    BY <1>4, CheckPreserves
  <1>5. CASE \E v \in Versions : Outlive(v)
    BY <1>5, OutlivePreserves
  <1>6. CASE UNCHANGED vars
    <2>1. UNCHANGED <<stored, working>> /\ UNCHANGED <<edge, version, answers, shown>>
          /\ DataVersion' = DataVersion
      BY <1>6 DEF vars, stored, DataVersion
    <2>2. VersionsAreReached'
      BY <2>1 DEF IInv, ServingInv, VersionsAreReached
    <2> QED
      BY <2>1, <2>2, ServedPreserves DEF IInv, ServingInv, TypeOK
  <1> QED
    BY <1>1, <1>2, <1>3, <1>4, <1>5, <1>6 DEF Next

\* So it always holds.
LEMMA Invariance == Spec => []IInv
  BY InitInv, NextInv, PTL DEF Spec

\* For any number of materializers that overlap, fail or are killed between any
\* two of their steps, of inserts, overlapping checks and expiring answers: a
\* trend or forecast is shown only beside the level of its own observation,
\* nothing knows a data version that has not been reached, and no materializer
\* on its way puts the scores back behind one that ran alone.
THEOREM ServingInvariant == Spec => []ServingInv
  BY Invariance, PTL DEF IInv

\* An answer cached under a data version has every observation that had been
\* scored, by a materializer running alone, when that version was reached.
THEOREM CachedAnswersAreRecent == Spec => []NoScoredIngestIsMissed
  BY Invariance, PTL DEF IInv

-----------------------------------------------------------------------------
(* Ages. *)

\* A number of minutes is a number of ticks.
LEMMA TicksAreIntegers ==
    /\ \A m \in Int : Ticks(m) \in Int
    /\ Ticks(0) = 0 /\ Ticks(WarnAge) <= Ticks(DisplayAge)
    /\ DisplayAge \in Nat /\ WarnAge \in Nat /\ MaxSkew \in Nat
<1>1. TicksPerMinute \in Int
  BY FreshnessAssumption
<1> QED
  BY <1>1, FreshnessAssumption DEF Ticks

\* A product of numbers is one.
LEMMA ProductsAreNumbers == \A m, n \in Nat : m * n \in Nat /\ 0 <= m * n
OBVIOUS

\* Minutes that were rounded up are not less than what they stand for.
LEMMA RoundingUp ==
    ASSUME NEW age \in Int
    PROVE  /\ (age + TicksPerMinute - 1) \div TicksPerMinute \in Int
           /\ Ticks((age + TicksPerMinute - 1) \div TicksPerMinute) >= age
<1> DEFINE n == age + TicksPerMinute - 1
           q == n \div TicksPerMinute
           r == n % TicksPerMinute
<1>1. TicksPerMinute \in Nat /\ TicksPerMinute > 0 /\ n \in Int
  BY FreshnessAssumption
<1>2. n = TicksPerMinute * q + r /\ r \in 0..(TicksPerMinute - 1) /\ q \in Int
  BY <1>1
<1>3. q * TicksPerMinute = TicksPerMinute * q /\ TicksPerMinute * q \in Int
  BY <1>1, <1>2
<1>4. n = age + TicksPerMinute - 1
  OBVIOUS
<1> HIDE DEF n, q, r
<1>5. TicksPerMinute * q >= age
  BY <1>1, <1>2, <1>3, <1>4
<1> QED
  BY <1>2, <1>3, <1>5 DEF Ticks, q, n

\* What is left of an answer that is aged, field by field.
LEMMA AgedFields ==
    ASSUME NEW f, NEW l, NEW c, NEW m, NEW answer,
           answer = [freshness |-> f, level |-> l, confidence |-> c, minutes |-> m]
    PROVE  LET dark == [answer EXCEPT !.freshness = "stale", !.level = FALSE, !.confidence = FALSE]
               dim == [answer EXCEPT !.freshness = "delayed", !.confidence = FALSE]
               lit == [answer EXCEPT !.freshness = "fresh"]
           IN  /\ dark.level = FALSE /\ dark.confidence = FALSE
               /\ dim.level = l /\ dim.confidence = FALSE
               /\ lit.level = l /\ lit.confidence = c
OBVIOUS

\* The server never understates an age; the browser does by no more than the
\* time its answer waited in caches, whatever the ages and the clocks.
THEOREM AgesLagByTheirWait ==
    ASSUME NEW age \in Int \cup {None}, NEW arrived \in Nat, NEW now \in Int, NEW dated \in BOOLEAN
    PROVE  AgeLagsByItsWait(age, arrived, now, dated)
<1> DEFINE answer == Answered(age)
           minutes == ObservationAgeMinutes(age)
           fresh == ObservationFreshness(age)
           observed == IF age # None /\ dated THEN -age ELSE None
           current == CurrentAge(minutes, arrived, now, observed)
           seen == Aged(answer, current, TRUE)
<1>1. answer = [freshness |-> fresh, level |-> ShowsLevel(fresh),
                confidence |-> ShowsConfidence(fresh), minutes |-> minutes]
  BY Zenon DEF Answered
<1>2. /\ answer.freshness = fresh /\ answer.level = ShowsLevel(fresh)
      /\ answer.confidence = ShowsConfidence(fresh) /\ answer.minutes = minutes
  BY <1>1
<1>3. /\ minutes # None => age \in Int /\ minutes \in Int /\ Ticks(minutes) >= age
      /\ ShowsLevel(fresh) => age \in Int /\ minutes # None /\ age <= Ticks(DisplayAge)
      /\ ShowsConfidence(fresh) => ShowsLevel(fresh)
  <2>1. Ticks(DisplayAge) \in Int /\ Ticks(0) = 0
    BY TicksAreIntegers
  <2>2. minutes # None => age \in Int /\ minutes \in Int /\ Ticks(minutes) >= age
    <3>1. CASE age = None
      BY <3>1 DEF ObservationAgeMinutes
    <3>2. CASE age \in Int
      BY <2>1, <3>2, RoundingUp DEF ObservationAgeMinutes
    <3> QED
      BY <3>1, <3>2
  <2>3. ASSUME ShowsLevel(fresh)
        PROVE  age \in Int /\ minutes # None /\ age <= Ticks(DisplayAge)
    <3>1. /\ age # None /\ ~(age > Ticks(DisplayAge)) /\ ~(age < -Ticks(MaxSkew))
      BY <2>3 DEF ShowsLevel, ObservationFreshness
    <3>2. minutes = IF age <= 0 THEN 0 ELSE (age + TicksPerMinute - 1) \div TicksPerMinute
      BY <3>1 DEF ObservationAgeMinutes
    <3>3. minutes \in Int
      BY <3>1, <3>2, RoundingUp
    <3> QED
      BY <2>1, <3>1, <3>3, OutcomesAssumption
  <2> QED
    BY <2>2, <2>3 DEF ShowsLevel, ShowsConfidence
<1>4. /\ current # None => current \in Int
      /\ minutes # None => IF current = None THEN now + age < 0 ELSE now + age <= current + arrived
  <2>1. minutes # None => Ticks(minutes) \in Int
    BY <1>3, TicksAreIntegers
  <2>2. observed # None => age \in Int /\ observed = -age
    OBVIOUS
  <2>3. minutes # None => age \in Int /\ Ticks(minutes) >= age
    BY <1>3
  <2> HIDE DEF minutes, observed
  <2>4. CASE minutes # None /\ arrived <= now
    <3>1. current = Ticks(minutes) + (now - arrived)
      BY <2>4 DEF CurrentAge
    <3> QED
      BY <2>1, <2>3, <2>4, <3>1, OutcomesAssumption
  <2>5. CASE ~(minutes # None /\ arrived <= now) /\ observed # None
    <3>1. current = IF observed > now THEN None ELSE now - observed
      BY <2>5 DEF CurrentAge
    <3>2. age \in Int /\ observed = -age /\ observed \in Int
      BY <2>2, <2>5
    <3> HIDE DEF current
    <3>3. CASE observed > now
      <4>1. current = None /\ now + age < 0
        BY <3>1, <3>2, <3>3
      <4> QED
        BY <4>1
    <3>4. CASE ~(observed > now)
      <4>1. current = now - observed /\ now - observed \in Int /\ now - observed = now + age
        BY <3>1, <3>2, <3>4
      <4>2. current # None /\ current \in Int
        BY <4>1, OutcomesAssumption
      <4> QED
        BY <3>2, <4>1, <4>2
    <3> QED
      BY <3>3, <3>4
  <2>6. CASE ~(minutes # None /\ arrived <= now) /\ observed = None
    <3>1. current = IF minutes = None THEN None ELSE Ticks(minutes)
      BY <2>6 DEF CurrentAge
    <3> QED
      BY <2>1, <2>3, <2>6, <3>1, OutcomesAssumption
  <2> QED
    BY <2>4, <2>5, <2>6
<1>5. /\ seen.level => ShowsLevel(fresh) /\ (current = None \/ current <= Ticks(DisplayAge))
      /\ seen.confidence => /\ ShowsConfidence(fresh) /\ seen.level
                            /\ current = None \/ current <= Ticks(WarnAge)
  <2> DEFINE dark == [answer EXCEPT !.freshness = "stale", !.level = FALSE, !.confidence = FALSE]
             dim == [answer EXCEPT !.freshness = "delayed", !.confidence = FALSE]
             lit == [answer EXCEPT !.freshness = "fresh"]
  <2>0. Ticks(DisplayAge) \in Int /\ Ticks(WarnAge) \in Int /\ Ticks(WarnAge) <= Ticks(DisplayAge)
    BY TicksAreIntegers
  <2>1. /\ dark.level = FALSE /\ dark.confidence = FALSE
        /\ dim.level = ShowsLevel(fresh) /\ dim.confidence = FALSE
        /\ lit.level = ShowsLevel(fresh) /\ lit.confidence = ShowsConfidence(fresh)
    <3>1. answer = [freshness |-> fresh, level |-> ShowsLevel(fresh),
                    confidence |-> ShowsConfidence(fresh), minutes |-> minutes]
      BY <1>1
    <3> HIDE DEF answer, fresh, minutes
    <3> QED
      BY <3>1, AgedFields
  <2>2. CASE current = None \/ fresh \in {"n/a", "stale"}
    <3>1. seen = answer
      BY <1>2, <2>2, Zenon DEF Aged
    <3>2. current = None \/ (~ShowsLevel(fresh) /\ ~ShowsConfidence(fresh))
      <4>1. fresh \in {"n/a", "stale"} => ~ShowsLevel(fresh) /\ ~ShowsConfidence(fresh)
        <5> HIDE DEF fresh
        <5> QED
          BY DEF ShowsLevel, ShowsConfidence
      <4> HIDE DEF fresh, current
      <4> QED
        BY <2>2, <4>1
    <3>3. ShowsConfidence(fresh) => ShowsLevel(fresh)
      BY <1>3
    <3> QED
      BY <1>2, <3>1, <3>2, <3>3, Zenon
  <2>3. CASE current # None /\ fresh \notin {"n/a", "stale"}
    <3>1. seen = IF current > Ticks(DisplayAge) THEN dark
                 ELSE IF current > Ticks(WarnAge) THEN dim ELSE lit
      BY <1>2, <2>3, Zenon DEF Aged
    <3>0. current \in Int
      BY <1>4, <2>3
    <3> HIDE DEF dark, dim, lit, seen, current
    <3>2. CASE current > Ticks(DisplayAge)
      <4>1. seen = dark
        BY <3>1, <3>2
      <4> QED
        BY <2>1, <4>1, Zenon
    <3>3. CASE ~(current > Ticks(DisplayAge)) /\ current > Ticks(WarnAge)
      <4>1. seen = dim /\ current <= Ticks(DisplayAge)
        BY <2>0, <3>0, <3>1, <3>3
      <4> QED
        BY <2>1, <4>1, Zenon
    <3>4. CASE ~(current > Ticks(WarnAge))
      <4>1. seen = lit /\ current <= Ticks(WarnAge) /\ current <= Ticks(DisplayAge)
        BY <2>0, <3>0, <3>1, <3>4
      <4>2. ShowsConfidence(fresh) => ShowsLevel(fresh)
        BY <1>3
      <4> QED
        BY <2>1, <4>1, <4>2, Zenon
    <3> QED
      BY <3>2, <3>3, <3>4
  <2> QED
    BY <2>2, <2>3
<1>6. Ticks(DisplayAge) \in Int /\ Ticks(WarnAge) \in Int
  BY TicksAreIntegers
<1> HIDE DEF answer, minutes, fresh, current, seen
<1>7. /\ minutes # None => Ticks(minutes) >= age
      /\ ShowsLevel(fresh) => age # None /\ age <= Ticks(DisplayAge)
      /\ seen.level => age # None /\ now + age <= Ticks(DisplayAge) + arrived
      /\ seen.confidence => seen.level /\ now + age <= Ticks(WarnAge) + arrived
  <2>1. ShowsLevel(fresh) => age \in Int /\ minutes # None
    BY <1>3
  <2>2. 0 <= Ticks(WarnAge) /\ 0 <= Ticks(DisplayAge)
    <3>1. TicksPerMinute \in Nat
      BY FreshnessAssumption
    <3>2. WarnAge \in Nat /\ DisplayAge \in Nat
      BY TicksAreIntegers
    <3> QED
      BY <3>1, <3>2, ProductsAreNumbers DEF Ticks
  <2>3. seen.level => age # None /\ now + age <= Ticks(DisplayAge) + arrived
    BY <1>4, <1>5, <1>6, <2>1, <2>2, OutcomesAssumption
  <2>4. seen.confidence => seen.level /\ now + age <= Ticks(WarnAge) + arrived
    BY <1>3, <1>4, <1>5, <1>6, <2>1, <2>2, OutcomesAssumption
  <2> QED
    BY <1>3, <2>3, <2>4, OutcomesAssumption
<1> QED
  BY <1>2, <1>7, Zenon DEF AgeLagsByItsWait, answer, minutes, fresh, current, seen, observed

\* The status line of the map calls nothing live that the monitor would report,
\* whatever the ledger holds and however the clocks differ.
THEOREM LiveMeansHealthy ==
    ASSUME NEW status \in Statuses \cup {None}, NEW age \in Int \cup {None}
    PROVE  LiveIsHealthy(status, age)
<1>1. MaxSkew \in Nat /\ Ticks(MaxSkew) >= 0 /\ Ticks(MaxSkew) \in Int
  <2>1. TicksPerMinute \in Nat /\ MaxSkew \in Nat
    BY FreshnessAssumption
  <2>2. MaxSkew * TicksPerMinute \in Nat
    BY <2>1
  <2> QED
    BY <2>1, <2>2 DEF Ticks
<1> QED
  BY <1>1 DEF LiveIsHealthy, EvaluateRuntimeHealth, EvaluateHealth, Statuses

-----------------------------------------------------------------------------
(* Links. *)

\* A link that is given out is safe, and leads to the place of the provider's
\* one row, if there is one, which is active: the rollout's never replaces it.
THEOREM LinksLeadToVerifiedPlaces ==
    ASSUME NEW cafe, \A p, q \in cafe.places : p.provider = q.provider => p = q
    PROVE  LinksAreVerified(cafe)
<1> SUFFICES ASSUME NEW provider \in Providers, ExternalLinks(cafe)[provider] # None
             PROVE  LET link == ExternalLinks(cafe)[provider] IN
                    /\ link.scheme = "https" /\ link.host \in Hosts(provider)
                    /\ \A p \in cafe.places : p.provider = provider =>
                           p.active /\ p.url = link /\ PlaceIdOf(provider, link) = p.id
                    /\ provider = "naver" => ~OffersNaverSearch(cafe)
  BY DEF LinksAreVerified
<1> DEFINE link == ExternalLinks(cafe)[provider]
           held == {p \in cafe.places : p.provider = provider}
           place == CHOOSE p \in held : TRUE
<1>1. \A url : SafeLink(provider, url) # None =>
         /\ SafeLink(provider, url) = url
         /\ url.scheme = "https" /\ url.host \in Hosts(provider)
  BY DEF SafeLink
<1>2. CASE held = {}
  <2>1. link = SafeLink(provider, cafe.json[provider])
    BY <1>2 DEF ExternalLinks
  <2> QED
    BY <1>1, <1>2, <2>1 DEF OffersNaverSearch
<1>3. CASE held # {}
  <2>1. link = IF /\ place.active /\ SafeLink(provider, place.url) # None
                  /\ PlaceIdOf(provider, SafeLink(provider, place.url)) = place.id
               THEN SafeLink(provider, place.url) ELSE None
    BY <1>3 DEF ExternalLinks
  <2>2. /\ place.active /\ SafeLink(provider, place.url) # None
        /\ PlaceIdOf(provider, SafeLink(provider, place.url)) = place.id
        /\ link = SafeLink(provider, place.url)
    BY <2>1
  <2>3. place \in held
    BY <1>3
  <2>4. \A p \in cafe.places : p.provider = provider => p = place
    BY <2>3
  <2> QED
    BY <1>1, <2>2, <2>4 DEF OffersNaverSearch
<1> QED
  BY <1>2, <1>3

-----------------------------------------------------------------------------
(* Estimates. *)

\* So has a finite set of integers that is not empty: a smallest one without
\* would become smaller by any of its members.
LEMMA FiniteHasLeast ==
    ASSUME NEW S \in SUBSET Int, IsFiniteSet(S), S # {}
    PROVE  \E m \in S : \A i \in S : m <= i
<1> DEFINE Least(T) == \E m \in T : \A i \in T : m <= i
           without == {n \in Nat : \E T \in SUBSET Int :
                          IsFiniteSet(T) /\ T # {} /\ Cardinality(T) = n /\ ~Least(T)}
<1>1. SUFFICES ASSUME ~Least(S) PROVE FALSE
  OBVIOUS
<1>2. Cardinality(S) \in without
  BY <1>1, FS_CardinalityType
<1>3. PICK n \in without : \A i \in without : n <= i
  BY <1>2, LeastExists
<1>4. PICK T \in SUBSET Int : IsFiniteSet(T) /\ T # {} /\ Cardinality(T) = n /\ ~Least(T)
  BY <1>3
<1>5. PICK x \in T : TRUE
  BY <1>4
<1> DEFINE rest == T \ {x}
<1>6. IsFiniteSet(rest) /\ Cardinality(rest) = n - 1
  BY <1>4, <1>5, FS_RemoveElement
<1>7. n - 1 \in Nat /\ n \in Nat
  BY <1>6, FS_CardinalityType
<1>8. rest = {} \/ Least(rest)
  <2>1. n - 1 \notin without
    BY <1>3, <1>7
  <2> QED
    BY <1>6, <1>7, <2>1
<1>9. CASE rest = {}
  BY <1>4, <1>5, <1>9
<1>10. CASE Least(rest)
  <2>1. PICK m \in rest : \A i \in rest : m <= i
    BY <1>10
  <2>2. CASE m <= x
    BY <1>4, <2>1, <2>2
  <2>3. CASE ~(m <= x)
    BY <1>4, <1>5, <2>1, <2>3
  <2> QED
    BY <2>2, <2>3
<1> QED
  BY <1>8, <1>9, <1>10

\* The observations a cafe may be given: of different hotspots, known and aged.
Observed(obs) ==
    /\ IsFiniteSet(obs)
    /\ \A o \in obs : o.d \in Nat /\ o.id \in Nat /\ o.age \in Ages
    /\ \A o, p \in obs : o.id = p.id => o = p

\* The greater and the lesser of two numbers.
LEMMA MaxOfTwo ==
    ASSUME NEW a \in Int, NEW b \in Int
    PROVE  /\ Max({a, b}) = IF a >= b THEN a ELSE b
           /\ Min({a, b}) = IF a <= b THEN a ELSE b
BY DEF Max, Min

\* Older evidence keeps no more of its confidence; what is not yet due is new.
LEMMA DecayFalls ==
    ASSUME NEW a \in Ages, NEW b \in Ages, a <= b
    PROVE  /\ Decay[Max({0, a})] \in Nat /\ Decay[Max({0, b})] \in Nat
           /\ Decay[Max({0, a})] >= Decay[Max({0, b})]
<1>1. a \in Int /\ b \in Int /\ 0 \in Ages
  BY EstimateAssumption
<1>2. /\ Max({0, a}) = IF 0 >= a THEN 0 ELSE a
      /\ Max({0, b}) = IF 0 >= b THEN 0 ELSE b
  BY <1>1, MaxOfTwo
<1>3. Max({0, a}) \in Ages /\ Max({0, b}) \in Ages /\ Max({0, a}) <= Max({0, b})
  BY <1>1, <1>2
<1>4. \A x, y \in Ages : Decay[x] \in 0..100 /\ (x <= y => Decay[x] >= Decay[y])
  BY EstimateAssumption
<1> HIDE DEF Max
<1>5. /\ Decay[Max({0, a})] \in 0..100 /\ Decay[Max({0, b})] \in 0..100
      /\ Decay[Max({0, a})] >= Decay[Max({0, b})]
  BY <1>3, <1>4, Zenon
<1> QED
  BY <1>5

\* The primary is the nearest of those selected, unless there is none.
LEMMA PrimaryIsSelected ==
    ASSUME NEW obs, Observed(obs), NEW S \in SUBSET obs, S # {}
    PROVE  Primary(S) \in S /\ \A p \in S \ {Primary(S)} : Closer(Primary(S), p)
<1>1. PICK d \in {o.d : o \in S} : \A e \in {o.d : o \in S} : d <= e
  <2>1. \A o \in S : o.d \in Nat
    BY DEF Observed
  <2>2. {o.d : o \in S} \in SUBSET Nat /\ {o.d : o \in S} # {}
    BY <2>1, Zenon
  <2> QED
    BY <2>2, LeastExists, Zenon
<1> DEFINE nearest == {o \in S : o.d = d}
<1>2. PICK i \in {o.id : o \in nearest} : \A j \in {o.id : o \in nearest} : i <= j
  <2>1. \A o \in nearest : o.id \in Nat
    BY DEF Observed
  <2>2. \E o \in S : o.d = d
    BY <1>1, Zenon
  <2>3. {o.id : o \in nearest} \in SUBSET Nat /\ {o.id : o \in nearest} # {}
    BY <2>1, <2>2, Zenon
  <2> QED
    BY <2>3, LeastExists, Zenon
<1>3. PICK o \in nearest : o.id = i
  BY <1>2
<1>4. ASSUME NEW p \in S \ {o} PROVE Closer(o, p)
  <2>1. o \in obs /\ p \in obs /\ o # p /\ o.d = d /\ p.d \in Nat /\ p.id \in Nat /\ o.id \in Nat
    BY <1>3 DEF Observed
  <2>2. d <= p.d /\ d \in Nat
    BY <1>1, <2>1 DEF Observed
  <2>3. p.d = d => o.id <= p.id
    BY <1>2, <1>3, <2>1
  <2>4. o.id # p.id
    BY <2>1 DEF Observed
  <2> QED
    BY <2>1, <2>2, <2>3, <2>4 DEF Closer
<1>5. o \in S /\ \A p \in S \ {o} : Closer(o, p)
  BY <1>3, <1>4
<1> QED
  BY <1>5 DEF Primary

\* A greater factor makes no lesser product.
LEMMA ProductsKeepOrder ==
    ASSUME NEW a \in Nat, NEW b \in Nat, NEW c \in Nat, NEW m \in Nat, b >= c, m >= 1
    PROVE  a * b * m >= a * c /\ a * c \in Nat /\ a * b * m \in Nat
<1>1. PICK k \in Nat : b = c + k
  <2>1. b - c \in Nat /\ b = c + (b - c)
    OBVIOUS
  <2> QED
    BY <2>1, Zenon
<1>2. a * b = a * c + a * k /\ a * c \in Nat /\ a * k \in Nat
  BY <1>1
<1>3. PICK j \in Nat : m = 1 + j
  <2>1. m - 1 \in Nat /\ m = 1 + (m - 1)
    OBVIOUS
  <2> QED
    BY <2>1, Zenon
<1>4. a * b \in Nat
  BY <1>2
<1>5. (a * b) * m = a * b + (a * b) * j /\ (a * b) * j \in Nat
  BY <1>3, <1>4
<1> QED
  BY <1>2, <1>4, <1>5

-----------------------------------------------------------------------------
(* Shadows and offline data. *)

\* A demand, and two areas of a venue that have their factor.
Sized(demand, venue, larger) ==
    LET areas == {a \in Int : Max({a, AreaFloor}) \in DOMAIN SizeFactor}
    IN  /\ demand.value \in Int \cup {None} /\ larger \in areas
        /\ venue \in [area : areas \cup {None}, verified : BOOLEAN, match : STRING, context : STRING]

\* Of two areas of a venue the larger never comes out under more pressure, and
\* floor and factor keep the sign, for any table of factors that falls with the
\* area (calculate_capacity_shadow).
THEOREM SpaceEasesPressure ==
    ASSUME NEW demand, NEW venue, NEW larger, Sized(demand, venue, larger)
    PROVE  PressureFallsWithSpace(demand, venue, larger)
<1> DEFINE p == Pressure(demand, venue)
           wide == [venue EXCEPT !.area = larger]
           q == Pressure(demand, wide)
           factor(a) == SizeFactor[Max({a, AreaFloor})]
<1> SUFFICES ASSUME p # Refused, q # Refused, venue.area <= larger
             PROVE  /\ demand.value >= 0 => q <= p /\ q >= 0
                    /\ demand.value <= 0 => q >= p /\ q <= 0
                    /\ Pressure(demand, [venue EXCEPT !.context = "mall"]) = p
  BY Zenon DEF PressureFallsWithSpace
<1>0. /\ demand.value \in Int \cup {None}
      /\ larger \in {a \in Int : Max({a, AreaFloor}) \in DOMAIN SizeFactor}
      /\ venue \in [area : {a \in Int : Max({a, AreaFloor}) \in DOMAIN SizeFactor} \cup {None},
                    verified : BOOLEAN, match : STRING, context : STRING]
  BY DEF Sized
<1>1. /\ demand.value \in Int /\ venue.area \in Int
      /\ p = demand.value * factor(venue.area)
  BY <1>0, OutcomesAssumption DEF Pressure
<1>2. wide.area = larger /\ q = demand.value * factor(larger)
  BY <1>0 DEF Pressure
<1>3. Max({venue.area, AreaFloor}) <= Max({larger, AreaFloor})
  BY <1>0, <1>1, ShadowAssumption, MaxOfTwo
<1>4. /\ factor(venue.area) \in Nat /\ factor(larger) \in Nat
      /\ factor(larger) <= factor(venue.area)
  <2> DEFINE m == Max({venue.area, AreaFloor})
             n == Max({larger, AreaFloor})
  <2>1. m \in DOMAIN SizeFactor /\ n \in DOMAIN SizeFactor
    BY <1>0, <1>1, OutcomesAssumption
  <2>2. m <= n
    BY <1>3
  <2> HIDE DEF m, n
  <2>3. SizeFactor[m] \in Nat /\ SizeFactor[n] \in Nat /\ SizeFactor[n] <= SizeFactor[m]
    BY <2>1, <2>2, ShadowAssumption
  <2> QED
    BY <2>3 DEF m, n
<1>5. Pressure(demand, [venue EXCEPT !.context = "mall"]) = p
  BY <1>0 DEF Pressure
<1> HIDE DEF factor, p, q
<1>6. demand.value >= 0 => q <= p /\ q >= 0
  BY <1>0, <1>1, <1>2, <1>4, ProductsKeepOrder
<1>7. demand.value <= 0 => q >= p /\ q <= 0
  BY <1>0, <1>1, <1>2, <1>4, ProductsKeepOrder
<1> QED
  BY <1>5, <1>6, <1>7

-----------------------------------------------------------------------------
(* Sums and products. *)

\* A table over the subsets of a set, of each from the one that rest names.
IsTable(g, S, base, rest, step) ==
    /\ g \in [SUBSET S -> Int]
    /\ \A s \in SUBSET S : g[s] = IF s = {} THEN base ELSE step[s][g[rest[s]]]

\* There is one where rest has one element less: up to a number of elements, then
\* to one more.
LEMMA TablesAreDefined ==
    ASSUME NEW S, IsFiniteSet(S), NEW base \in Int,
           NEW rest \in [SUBSET S -> SUBSET S], \A s \in SUBSET S : s # {} => \E x \in s : rest[s] = s \ {x},
           NEW step \in [SUBSET S -> [Int -> Int]]
    PROVE  \E g : IsTable(g, S, base, rest, step)
<1> DEFINE upTo(n) == {s \in SUBSET S : Cardinality(s) <= n}
           is(g, n) == /\ g \in [upTo(n) -> Int]
                       /\ \A s \in upTo(n) :
                              g[s] = IF s = {} THEN base ELSE step[s][g[rest[s]]]
           bad == {n \in Nat : ~(\E g : is(g, n))}
<1>1. \A s \in SUBSET S : IsFiniteSet(s) /\ Cardinality(s) \in Nat
                          /\ (Cardinality(s) = 0 <=> s = {})
  BY FS_Subset, FS_CardinalityType, FS_EmptySet
<1>2. \A s \in SUBSET S : s # {} => rest[s] \in SUBSET S /\ Cardinality(rest[s]) = Cardinality(s) - 1
  BY <1>1, FS_RemoveElement
<1>3. 0 \notin bad
  <2> DEFINE g == [s \in upTo(0) |-> base]
  <2>1. \A s \in upTo(0) : s = {}
    BY <1>1
  <2>2. is(g, 0)
    BY <2>1
  <2> QED
    BY <2>2
<1>4. ASSUME NEW n \in Nat, n \notin bad
      PROVE  n + 1 \notin bad
  <2>1. PICK g : is(g, n)
    BY <1>4
  <2> DEFINE h == [s \in upTo(n + 1) |-> IF s = {} THEN base ELSE step[s][g[rest[s]]]]
  <2>2. \A s \in upTo(n + 1) : s # {} => rest[s] \in upTo(n) /\ g[rest[s]] \in Int
    BY <1>1, <1>2, <2>1
  <2>3. \A s \in upTo(n) : s \in upTo(n + 1) /\ h[s] = g[s]
    BY <1>1, <2>1
  <2>4. h \in [upTo(n + 1) -> Int]
    <3>1. ASSUME NEW s \in upTo(n + 1), s # {}
          PROVE  step[s][g[rest[s]]] \in Int
      <4>1. step[s] \in [Int -> Int] /\ g[rest[s]] \in Int
        BY <2>2, <3>1
      <4> QED
        BY <4>1
    <3> QED
      BY <3>1
  <2>5. \A s \in upTo(n + 1) : h[s] = IF s = {} THEN base ELSE step[s][h[rest[s]]]
    <3> SUFFICES ASSUME NEW s \in upTo(n + 1)
                 PROVE  h[s] = IF s = {} THEN base ELSE step[s][h[rest[s]]]
      OBVIOUS
    <3>1. CASE s = {}
      BY <3>1
    <3>2. CASE s # {}
      <4>1. h[rest[s]] = g[rest[s]]
        BY <2>2, <2>3, <3>2
      <4>2. h[s] = step[s][g[rest[s]]]
        BY <3>2
      <4> QED
        BY <3>2, <4>1, <4>2
    <3> QED
      BY <3>1, <3>2
  <2>6. is(h, n + 1)
    BY <2>4, <2>5
  <2> HIDE DEF is
  <2> QED
    BY <2>6
<1> HIDE DEF is
<1>5. bad = {}
  <2> SUFFICES ASSUME bad # {} PROVE FALSE
    OBVIOUS
  <2>1. bad \in SUBSET Nat
    OBVIOUS
  <2>2. PICK m \in bad : \A i \in bad : m <= i
    BY <2>1, LeastExists
  <2>3. m \in Nat /\ m - 1 \in Nat /\ m - 1 \notin bad
    BY <1>3, <2>2
  <2>4. (m - 1) + 1 = m
    BY <2>3
  <2> QED
    BY <1>4, <2>2, <2>3, <2>4
<1>6. Cardinality(S) \in Nat /\ upTo(Cardinality(S)) = SUBSET S
  BY <1>1, FS_Subset, FS_CardinalityType
<1>7. PICK g : is(g, Cardinality(S))
  BY <1>5, <1>6
<1> QED
  BY <1>6, <1>7 DEF is, IsTable

\* What holds of a set when it holds of the set less any one element holds of
\* every finite set.
LEMMA SetsByRemoval ==
    ASSUME NEW T, IsFiniteSet(T), NEW P,
           \A s \in SUBSET T : (\A x \in s : s \ {x} \in P) => s \in P
    PROVE  SUBSET T \subseteq P
<1> DEFINE bad == {s \in SUBSET T : s \notin P}
           sizes == {Cardinality(s) : s \in bad}
<1>1. \A s \in SUBSET T : IsFiniteSet(s) /\ Cardinality(s) \in Nat
  BY FS_Subset, FS_CardinalityType
<1> SUFFICES ASSUME bad # {} PROVE FALSE
  OBVIOUS
<1>2. sizes \in SUBSET Nat /\ sizes # {}
  BY <1>1
<1>3. PICK m \in sizes : \A i \in sizes : m <= i
  BY <1>2, LeastExists
<1>4. PICK s \in bad : Cardinality(s) = m
  BY <1>3
<1>5. \A x \in s : Cardinality(s \ {x}) = Cardinality(s) - 1 /\ s \ {x} \in SUBSET T
  <2>1. IsFiniteSet(s) /\ s \in SUBSET T
    BY <1>1, <1>4
  <2> QED
    BY <2>1, FS_RemoveElement
<1>6. \A x \in s : s \ {x} \notin bad
  <2> SUFFICES ASSUME NEW x \in s, s \ {x} \in bad PROVE FALSE
    OBVIOUS
  <2>1. Cardinality(s \ {x}) \in sizes
    OBVIOUS
  <2>2. m <= Cardinality(s \ {x})
    BY <1>3, <2>1
  <2>3. m \in Nat
    BY <1>2, <1>3
  <2> QED
    BY <1>4, <1>5, <2>2, <2>3
<1> QED
  BY <1>4, <1>5, <1>6

\* A sum is taken one element at a time, from nothing.
LEMMA SumStep ==
    ASSUME NEW T, IsFiniteSet(T), NEW f, \A x \in T : f[x] \in Int
    PROVE  /\ SumFunctionOnSet(f, {}) = 0
           /\ T # {} => LET c == CHOOSE x \in T : TRUE
                         IN  SumFunctionOnSet(f, T) = f[c] + SumFunctionOnSet(f, T \ {c})
           /\ SumFunctionOnSet(f, T) \in Int
<1> DEFINE first(s) == CHOOSE x \in s : TRUE
           rest(s) == s \ {first(s)}
           table(S, g) == g = [s \in SUBSET S |-> IF s = {} THEN 0 ELSE f[first(s)] + g[rest(s)]]
<1>0. \A s \in SUBSET T : s # {} => first(s) \in s /\ rest(s) \in SUBSET s
  OBVIOUS
<1>1. ASSUME NEW S \in SUBSET T
      PROVE  SumFunctionOnSet(f, S) = (CHOOSE g : table(S, g))[S]
  BY Zenon DEF SumFunctionOnSet, FoldFunctionOnSet, MapThenFoldSet
<1> HIDE DEF first
<1>2. ASSUME NEW S \in SUBSET T
      PROVE  \E g : table(S, g)
  <2> DEFINE step == [s \in SUBSET S |-> [v \in Int |-> IF s = {} THEN 0 ELSE f[first(s)] + v]]
             less == [s \in SUBSET S |-> rest(s)]
  <2>1. IsFiniteSet(S) /\ 0 \in Int /\ step \in [SUBSET S -> [Int -> Int]]
    BY <1>0, FS_Subset
  <2>2. less \in [SUBSET S -> SUBSET S] /\ \A s \in SUBSET S : s # {} => \E x \in s : less[s] = s \ {x}
    BY <1>0
  <2>3. PICK g : IsTable(g, S, 0, less, step)
    <3> HIDE DEF step, less
    <3> QED
      BY <2>1, <2>2, TablesAreDefined
  <2>4. \A s \in SUBSET S : s # {} => step[s][g[less[s]]] = f[first(s)] + g[rest(s)]
    <3> SUFFICES ASSUME NEW s \in SUBSET S, s # {}
                 PROVE  step[s][g[less[s]]] = f[first(s)] + g[rest(s)]
      OBVIOUS
    <3>1. g[less[s]] \in Int /\ less[s] = rest(s)
      BY <1>0, <2>3 DEF IsTable
    <3> HIDE DEF less
    <3> QED
      BY <3>1
  <2>5. table(S, g)
    <3> HIDE DEF step, less, rest
    <3>1. \A s \in SUBSET S : g[s] = IF s = {} THEN 0 ELSE f[first(s)] + g[rest(s)]
      BY <2>3, <2>4 DEF IsTable
    <3> QED
      BY <2>3, <3>1 DEF IsTable
  <2> QED
    BY <2>5
<1>3. ASSUME NEW S \in SUBSET T, NEW g, table(S, g)
      PROVE  /\ g[{}] = 0
             /\ \A s \in SUBSET S : s # {} => g[s] = f[first(s)] + g[rest(s)]
             /\ \A s \in SUBSET S : g[s] \in Int
  <2>1. /\ g[{}] = 0
        /\ \A s \in SUBSET S : s # {} => g[s] = f[first(s)] + g[rest(s)]
    BY <1>3
  <2> DEFINE P == {s \in SUBSET S : g[s] \in Int}
  <2>2. \A s \in SUBSET S : (\A x \in s : s \ {x} \in P) => s \in P
    <3> SUFFICES ASSUME NEW s \in SUBSET S, \A x \in s : s \ {x} \in P
                 PROVE  g[s] \in Int
      OBVIOUS
    <3>1. CASE s = {}
      BY <2>1, <3>1
    <3>2. CASE s # {}
      <4>1. f[first(s)] \in Int /\ g[rest(s)] \in Int
        BY <1>0, <3>2
      <4> HIDE DEF rest
      <4> QED
        BY <2>1, <3>2, <4>1
    <3> QED
      BY <3>1, <3>2
  <2>3. IsFiniteSet(S)
    BY FS_Subset
  <2> HIDE DEF P
  <2>4. SUBSET S \subseteq P
    BY <2>2, <2>3, SetsByRemoval
  <2> QED
    BY <2>1, <2>4 DEF P
<1> DEFINE of(S) == CHOOSE g : table(S, g)
<1>4. ASSUME NEW S \in SUBSET T
      PROVE  table(S, of(S)) /\ SumFunctionOnSet(f, S) = of(S)[S]
  <2> HIDE DEF table
  <2> QED
    BY <1>1, <1>2
<1> HIDE DEF table, of
<1>5. ASSUME NEW S \in SUBSET T, NEW U \in SUBSET S
      PROVE  of(S)[U] = of(U)[U]
  <2> DEFINE P == {s \in SUBSET U : of(S)[s] = of(U)[s]}
  <2>0. U \in SUBSET T /\ IsFiniteSet(U)
    BY FS_Subset
  <2>1. table(S, of(S)) /\ table(U, of(U))
    BY <1>4, <2>0
  <2>2. /\ of(S)[{}] = 0 /\ of(U)[{}] = 0
        /\ \A s \in SUBSET U : s # {} => of(S)[s] = f[first(s)] + of(S)[rest(s)]
        /\ \A s \in SUBSET U : s # {} => of(U)[s] = f[first(s)] + of(U)[rest(s)]
    <3> HIDE DEF rest, P
    <3>1. of(S)[{}] = 0 /\ \A s \in SUBSET S : s # {} => of(S)[s] = f[first(s)] + of(S)[rest(s)]
      BY <1>3, <2>1
    <3>2. of(U)[{}] = 0 /\ \A s \in SUBSET U : s # {} => of(U)[s] = f[first(s)] + of(U)[rest(s)]
      BY <1>3, <2>0, <2>1
    <3>3. SUBSET U \subseteq SUBSET S
      OBVIOUS
    <3> QED
      BY <3>1, <3>2, <3>3
  <2>3. \A s \in SUBSET U : (\A x \in s : s \ {x} \in P) => s \in P
    <3> SUFFICES ASSUME NEW s \in SUBSET U, \A x \in s : s \ {x} \in P
                 PROVE  of(S)[s] = of(U)[s]
      OBVIOUS
    <3>1. CASE s = {}
      BY <2>2, <3>1
    <3>2. CASE s # {}
      <4>1. of(S)[rest(s)] = of(U)[rest(s)]
        BY <1>0, <3>2
      <4> HIDE DEF rest
      <4> QED
        BY <2>2, <3>2, <4>1
    <3> QED
      BY <3>1, <3>2
  <2> HIDE DEF P
  <2>4. SUBSET U \subseteq P
    BY <2>0, <2>3, SetsByRemoval
  <2> QED
    BY <2>4 DEF P
<1>6. SumFunctionOnSet(f, {}) = 0
  <2>1. {} \in SUBSET T
    OBVIOUS
  <2> QED
    BY <1>3, <1>4, <2>1
<1>7. SumFunctionOnSet(f, T) \in Int
  <2>1. T \in SUBSET T
    OBVIOUS
  <2>2. table(T, of(T)) /\ SumFunctionOnSet(f, T) = of(T)[T]
    BY <1>4, <2>1
  <2>3. of(T)[T] \in Int
    BY <1>3, <2>1, <2>2
  <2> QED
    BY <2>2, <2>3
<1>8. ASSUME T # {}
      PROVE  SumFunctionOnSet(f, T) = f[first(T)] + SumFunctionOnSet(f, rest(T))
  <2>1. T \in SUBSET T /\ rest(T) \in SUBSET T
    OBVIOUS
  <2> HIDE DEF rest
  <2>2. /\ SumFunctionOnSet(f, T) = of(T)[T]
        /\ SumFunctionOnSet(f, rest(T)) = of(rest(T))[rest(T)]
        /\ table(T, of(T))
    BY <1>4, <2>1
  <2>3. of(T)[rest(T)] = of(rest(T))[rest(T)]
    BY <1>5, <2>1
  <2>4. of(T)[T] = f[first(T)] + of(T)[rest(T)]
    BY <1>3, <1>8, <2>1, <2>2
  <2> QED
    BY <2>2, <2>3, <2>4
<1> QED
  BY <1>6, <1>7, <1>8 DEF first

\* The product of f over the elements of T.
ProductOn(f, T) == FoldFunctionOnSet(LAMBDA a, b : a * b, 1, f, T)

\* So is a product, from one.
LEMMA ProductStep ==
    ASSUME NEW T, IsFiniteSet(T), NEW f, \A x \in T : f[x] \in Int
    PROVE  /\ ProductOn(f, {}) = 1
           /\ T # {} => LET c == CHOOSE x \in T : TRUE
                         IN  ProductOn(f, T) = f[c] * ProductOn(f, T \ {c})
           /\ ProductOn(f, T) \in Int
<1> DEFINE first(s) == CHOOSE x \in s : TRUE
           rest(s) == s \ {first(s)}
           table(S, g) == g = [s \in SUBSET S |-> IF s = {} THEN 1 ELSE f[first(s)] * g[rest(s)]]
<1>0. \A s \in SUBSET T : s # {} => first(s) \in s /\ rest(s) \in SUBSET s
  OBVIOUS
<1>1. ASSUME NEW S \in SUBSET T
      PROVE  ProductOn(f, S) = (CHOOSE g : table(S, g))[S]
  BY Zenon DEF ProductOn, FoldFunctionOnSet, MapThenFoldSet
<1> HIDE DEF first
<1>2. ASSUME NEW S \in SUBSET T
      PROVE  \E g : table(S, g)
  <2> DEFINE step == [s \in SUBSET S |-> [v \in Int |-> IF s = {} THEN 1 ELSE f[first(s)] * v]]
             less == [s \in SUBSET S |-> rest(s)]
  <2>1. IsFiniteSet(S) /\ 1 \in Int /\ step \in [SUBSET S -> [Int -> Int]]
    BY <1>0, FS_Subset
  <2>2. less \in [SUBSET S -> SUBSET S] /\ \A s \in SUBSET S : s # {} => \E x \in s : less[s] = s \ {x}
    BY <1>0
  <2>3. PICK g : IsTable(g, S, 1, less, step)
    <3> HIDE DEF step, less
    <3> QED
      BY <2>1, <2>2, TablesAreDefined
  <2>4. \A s \in SUBSET S : s # {} => step[s][g[less[s]]] = f[first(s)] * g[rest(s)]
    <3> SUFFICES ASSUME NEW s \in SUBSET S, s # {}
                 PROVE  step[s][g[less[s]]] = f[first(s)] * g[rest(s)]
      OBVIOUS
    <3>1. g[less[s]] \in Int /\ less[s] = rest(s)
      BY <1>0, <2>3 DEF IsTable
    <3> HIDE DEF less
    <3> QED
      BY <3>1
  <2>5. table(S, g)
    <3> HIDE DEF step, less, rest
    <3>1. \A s \in SUBSET S : g[s] = IF s = {} THEN 1 ELSE f[first(s)] * g[rest(s)]
      BY <2>3, <2>4 DEF IsTable
    <3> QED
      BY <2>3, <3>1 DEF IsTable
  <2> QED
    BY <2>5
<1>3. ASSUME NEW S \in SUBSET T, NEW g, table(S, g)
      PROVE  /\ g[{}] = 1
             /\ \A s \in SUBSET S : s # {} => g[s] = f[first(s)] * g[rest(s)]
             /\ \A s \in SUBSET S : g[s] \in Int
  <2>1. /\ g[{}] = 1
        /\ \A s \in SUBSET S : s # {} => g[s] = f[first(s)] * g[rest(s)]
    BY <1>3
  <2> DEFINE P == {s \in SUBSET S : g[s] \in Int}
  <2>2. \A s \in SUBSET S : (\A x \in s : s \ {x} \in P) => s \in P
    <3> SUFFICES ASSUME NEW s \in SUBSET S, \A x \in s : s \ {x} \in P
                 PROVE  g[s] \in Int
      OBVIOUS
    <3>1. CASE s = {}
      BY <2>1, <3>1
    <3>2. CASE s # {}
      <4>1. f[first(s)] \in Int /\ g[rest(s)] \in Int
        BY <1>0, <3>2
      <4> HIDE DEF rest
      <4> QED
        BY <2>1, <3>2, <4>1
    <3> QED
      BY <3>1, <3>2
  <2>3. IsFiniteSet(S)
    BY FS_Subset
  <2> HIDE DEF P
  <2>4. SUBSET S \subseteq P
    BY <2>2, <2>3, SetsByRemoval
  <2> QED
    BY <2>1, <2>4 DEF P
<1> DEFINE of(S) == CHOOSE g : table(S, g)
<1>4. ASSUME NEW S \in SUBSET T
      PROVE  table(S, of(S)) /\ ProductOn(f, S) = of(S)[S]
  <2> HIDE DEF table
  <2> QED
    BY <1>1, <1>2
<1> HIDE DEF table, of
<1>5. ASSUME NEW S \in SUBSET T, NEW U \in SUBSET S
      PROVE  of(S)[U] = of(U)[U]
  <2> DEFINE P == {s \in SUBSET U : of(S)[s] = of(U)[s]}
  <2>0. U \in SUBSET T /\ IsFiniteSet(U)
    BY FS_Subset
  <2>1. table(S, of(S)) /\ table(U, of(U))
    BY <1>4, <2>0
  <2>2. /\ of(S)[{}] = 1 /\ of(U)[{}] = 1
        /\ \A s \in SUBSET U : s # {} => of(S)[s] = f[first(s)] * of(S)[rest(s)]
        /\ \A s \in SUBSET U : s # {} => of(U)[s] = f[first(s)] * of(U)[rest(s)]
    <3> HIDE DEF rest, P
    <3>1. of(S)[{}] = 1 /\ \A s \in SUBSET S : s # {} => of(S)[s] = f[first(s)] * of(S)[rest(s)]
      BY <1>3, <2>1
    <3>2. of(U)[{}] = 1 /\ \A s \in SUBSET U : s # {} => of(U)[s] = f[first(s)] * of(U)[rest(s)]
      BY <1>3, <2>0, <2>1
    <3>3. SUBSET U \subseteq SUBSET S
      OBVIOUS
    <3> QED
      BY <3>1, <3>2, <3>3
  <2>3. \A s \in SUBSET U : (\A x \in s : s \ {x} \in P) => s \in P
    <3> SUFFICES ASSUME NEW s \in SUBSET U, \A x \in s : s \ {x} \in P
                 PROVE  of(S)[s] = of(U)[s]
      OBVIOUS
    <3>1. CASE s = {}
      BY <2>2, <3>1
    <3>2. CASE s # {}
      <4>1. of(S)[rest(s)] = of(U)[rest(s)]
        BY <1>0, <3>2
      <4> HIDE DEF rest
      <4> QED
        BY <2>2, <3>2, <4>1
    <3> QED
      BY <3>1, <3>2
  <2> HIDE DEF P
  <2>4. SUBSET U \subseteq P
    BY <2>0, <2>3, SetsByRemoval
  <2> QED
    BY <2>4 DEF P
<1>6. ProductOn(f, {}) = 1
  <2>1. {} \in SUBSET T
    OBVIOUS
  <2> QED
    BY <1>3, <1>4, <2>1
<1>7. ProductOn(f, T) \in Int
  <2>1. T \in SUBSET T
    OBVIOUS
  <2>2. table(T, of(T)) /\ ProductOn(f, T) = of(T)[T]
    BY <1>4, <2>1
  <2>3. of(T)[T] \in Int
    BY <1>3, <2>1, <2>2
  <2> QED
    BY <2>2, <2>3
<1>8. ASSUME T # {}
      PROVE  ProductOn(f, T) = f[first(T)] * ProductOn(f, rest(T))
  <2>1. T \in SUBSET T /\ rest(T) \in SUBSET T
    OBVIOUS
  <2> HIDE DEF rest
  <2>2. /\ ProductOn(f, T) = of(T)[T]
        /\ ProductOn(f, rest(T)) = of(rest(T))[rest(T)]
        /\ table(T, of(T))
    BY <1>4, <2>1
  <2>3. of(T)[rest(T)] = of(rest(T))[rest(T)]
    BY <1>5, <2>1
  <2>4. of(T)[T] = f[first(T)] * of(T)[rest(T)]
    BY <1>3, <1>8, <2>1, <2>2
  <2> QED
    BY <2>2, <2>3, <2>4
<1> QED
  BY <1>6, <1>7, <1>8 DEF first

\* A product of positive numbers is one.
LEMMA ProductIsPositive ==
    ASSUME NEW T, IsFiniteSet(T), NEW f, \A x \in T : f[x] \in Nat \ {0}
    PROVE  ProductOn(f, T) \in Nat \ {0}
<1> DEFINE P == {s \in SUBSET T : ProductOn(f, s) \in Nat \ {0}}
<1>1. ASSUME NEW s \in SUBSET T, \A x \in s : s \ {x} \in P
      PROVE  s \in P
  <2>1. IsFiniteSet(s) /\ \A x \in s : f[x] \in Int
    BY FS_Subset
  <2>2. CASE s = {}
    BY <2>1, <2>2, ProductStep
  <2>3. CASE s # {}
    <3> DEFINE c == CHOOSE x \in s : TRUE
               r == ProductOn(f, s \ {c})
    <3>1. c \in s
      BY <2>3
    <3>2. ProductOn(f, s) = f[c] * r
      BY <2>1, <2>3, ProductStep
    <3>3. r \in Nat \ {0} /\ f[c] \in Nat \ {0}
      BY <1>1, <3>1
    <3> HIDE DEF c, r
    <3>4. f[c] * r \in Nat \ {0}
      BY <3>3
    <3> QED
      BY <3>2, <3>4
  <2> QED
    BY <2>2, <2>3
<1> HIDE DEF P
<1>2. SUBSET T \subseteq P
  BY <1>1, SetsByRemoval
<1>3. T \in P
  BY <1>2
<1> QED
  BY <1>3 DEF P

\* The product of one number depends only on how often it is taken.
LEMMA ProductOfOneNumber ==
    ASSUME NEW T, IsFiniteSet(T), NEW f, NEW U, IsFiniteSet(U), NEW h, NEW a \in Int,
           \A x \in T : f[x] = a, \A x \in U : h[x] = a, Cardinality(T) = Cardinality(U)
    PROVE  ProductOn(f, T) = ProductOn(h, U)
<1> DEFINE P == {s \in SUBSET T : \A u \in SUBSET U :
                     Cardinality(s) = Cardinality(u) => ProductOn(f, s) = ProductOn(h, u)}
<1>1. ASSUME NEW s \in SUBSET T, \A x \in s : s \ {x} \in P
      PROVE  s \in P
  <2> SUFFICES ASSUME NEW u \in SUBSET U, Cardinality(s) = Cardinality(u)
               PROVE  ProductOn(f, s) = ProductOn(h, u)
    OBVIOUS
  <2>1. /\ IsFiniteSet(s) /\ \A x \in s : f[x] \in Int
        /\ IsFiniteSet(u) /\ \A x \in u : h[x] \in Int
    BY FS_Subset
  <2>2. s = {} <=> u = {}
    BY <2>1, FS_EmptySet
  <2>3. CASE s = {}
    BY <2>1, <2>2, <2>3, ProductStep
  <2>4. CASE s # {}
    <3> DEFINE c == CHOOSE x \in s : TRUE
               d == CHOOSE x \in u : TRUE
    <3>1. c \in s /\ d \in u
      BY <2>2, <2>4
    <3>2. ProductOn(f, s) = f[c] * ProductOn(f, s \ {c})
      BY <2>1, <2>4, ProductStep
    <3>3. ProductOn(h, u) = h[d] * ProductOn(h, u \ {d})
      BY <2>1, <2>2, <2>4, ProductStep
    <3> HIDE DEF c, d
    <3>4. Cardinality(s \ {c}) = Cardinality(u \ {d})
      <4>1. Cardinality(s \ {c}) = Cardinality(s) - 1
        BY <2>1, <3>1, FS_RemoveElement
      <4>2. Cardinality(u \ {d}) = Cardinality(u) - 1
        BY <2>1, <3>1, FS_RemoveElement
      <4> QED
        BY <4>1, <4>2
    <3>5. ProductOn(f, s \ {c}) = ProductOn(h, u \ {d})
      BY <1>1, <3>1, <3>4
    <3>6. f[c] = h[d]
      BY <3>1
    <3> HIDE DEF P
    <3> QED
      BY <3>2, <3>3, <3>5, <3>6
  <2> QED
    BY <2>3, <2>4
<1> HIDE DEF P
<1>2. SUBSET T \subseteq P
  BY <1>1, SetsByRemoval
<1>3. T \in P /\ U \in SUBSET U
  BY <1>2
<1> QED
  BY <1>3 DEF P

\* Whichever element is taken first.
LEMMA SumRemove ==
    ASSUME NEW T, IsFiniteSet(T), NEW f, \A x \in T : f[x] \in Int
    PROVE  \A x \in T : /\ SumFunctionOnSet(f, T \ {x}) \in Int
                         /\ SumFunctionOnSet(f, T) = f[x] + SumFunctionOnSet(f, T \ {x})
<1> DEFINE sum(s) == SumFunctionOnSet(f, s)
           first(s) == CHOOSE x \in s : TRUE
           P == {s \in SUBSET T : \A x \in s : sum(s) = f[x] + sum(s \ {x})}
<1>1. \A s \in SUBSET T : IsFiniteSet(s)
  BY FS_Subset
<1>2. ASSUME NEW s \in SUBSET T
      PROVE  sum(s) \in Int /\ (s # {} => sum(s) = f[first(s)] + sum(s \ {first(s)}))
  <2>1. IsFiniteSet(s) /\ \A x \in s : f[x] \in Int
    BY <1>1
  <2> QED
    BY <2>1, SumStep
<1>3. \A s \in SUBSET T : s # {} => first(s) \in s
  OBVIOUS
<1> HIDE DEF sum, first
<1>4. ASSUME NEW s \in SUBSET T, \A x \in s : s \ {x} \in P
      PROVE  s \in P
  <2> SUFFICES ASSUME NEW x \in s PROVE sum(s) = f[x] + sum(s \ {x})
    BY <1>4
  <2> DEFINE c == first(s)
  <2>1. c \in s
    BY <1>3
  <2>2. sum(s) = f[c] + sum(s \ {c})
    BY <1>2
  <2> HIDE DEF c
  <2>3. CASE x = c
    BY <2>2, <2>3
  <2>4. CASE x # c
    <3>1. x \in s \ {c} /\ c \in s \ {x} /\ (s \ {x}) \ {c} = (s \ {c}) \ {x}
      BY <2>1, <2>4
    <3>2. s \ {c} \in P /\ s \ {x} \in P
      BY <1>4, <2>1
    <3> DEFINE r == sum((s \ {c}) \ {x})
    <3>3. sum(s \ {c}) = f[x] + r /\ sum(s \ {x}) = f[c] + r
      BY <3>1, <3>2
    <3>4. r \in Int /\ f[x] \in Int /\ f[c] \in Int
      BY <1>2, <2>1
    <3> HIDE DEF r
    <3> QED
      BY <2>2, <3>3, <3>4
  <2> QED
    BY <2>3, <2>4
<1> HIDE DEF P
<1>5. SUBSET T \subseteq P
  BY <1>4, SetsByRemoval
<1>6. T \in P /\ \A x \in T : sum(T \ {x}) \in Int
  BY <1>2, <1>5
<1> QED
  BY <1>6 DEF P, sum

\* Only the values of the elements matter, and greater values give no smaller sum.
LEMMA SumMonotone ==
    ASSUME NEW T, IsFiniteSet(T), NEW f, NEW h,
           \A x \in T : f[x] \in Int /\ h[x] \in Int /\ f[x] <= h[x]
    PROVE  SumFunctionOnSet(f, T) <= SumFunctionOnSet(h, T)
<1> DEFINE P == {s \in SUBSET T : SumFunctionOnSet(f, s) <= SumFunctionOnSet(h, s)}
<1>1. ASSUME NEW s \in SUBSET T, \A x \in s : s \ {x} \in P
      PROVE  s \in P
  <2>1. IsFiniteSet(s) /\ IsFiniteSet({}) /\ (\A x \in s : f[x] \in Int) /\ (\A x \in s : h[x] \in Int)
    BY FS_Subset, FS_EmptySet
  <2>2. SumFunctionOnSet(f, {}) = 0 /\ SumFunctionOnSet(h, {}) = 0
    BY <2>1, SumStep
  <2>3. CASE s = {}
    BY <2>2, <2>3
  <2>4. CASE s # {}
    <3>1. PICK x \in s : TRUE
      BY <2>4
    <3>2. /\ SumFunctionOnSet(f, s) = f[x] + SumFunctionOnSet(f, s \ {x})
          /\ SumFunctionOnSet(f, s \ {x}) \in Int
      BY <2>1, <3>1, SumRemove
    <3>3. /\ SumFunctionOnSet(h, s) = h[x] + SumFunctionOnSet(h, s \ {x})
          /\ SumFunctionOnSet(h, s \ {x}) \in Int
      BY <2>1, <3>1, SumRemove
    <3>4. SumFunctionOnSet(f, s \ {x}) <= SumFunctionOnSet(h, s \ {x})
      BY <1>1, <3>1
    <3>5. x \in T
      BY <3>1
    <3>6. SumFunctionOnSet(f, s) <= SumFunctionOnSet(h, s)
      BY <3>2, <3>3, <3>4, <3>5
    <3> QED
      BY <3>6
  <2> QED
    BY <2>3, <2>4
<1> HIDE DEF P
<1>2. SUBSET T \subseteq P
  BY <1>1, SetsByRemoval
<1>3. T \in P
  BY <1>2
<1> QED
  BY <1>3 DEF P

\* Sums over one set of functions that agree on it are equal.
LEMMA SumAgrees ==
    ASSUME NEW T, IsFiniteSet(T), NEW f, NEW h, \A x \in T : f[x] \in Int /\ f[x] = h[x]
    PROVE  SumFunctionOnSet(f, T) = SumFunctionOnSet(h, T)
<1>1. SumFunctionOnSet(f, T) <= SumFunctionOnSet(h, T) /\ SumFunctionOnSet(h, T) <= SumFunctionOnSet(f, T)
  BY SumMonotone
<1>2. SumFunctionOnSet(f, T) \in Int /\ SumFunctionOnSet(h, T) \in Int
  BY SumStep
<1> QED
  BY <1>1, <1>2

\* A sum of sums, and of multiples.
LEMMA SumOfSums ==
    ASSUME NEW T, IsFiniteSet(T), NEW f, NEW g, NEW h,
           \A x \in T : f[x] \in Int /\ g[x] \in Int /\ h[x] = f[x] + g[x]
    PROVE  SumFunctionOnSet(h, T) = SumFunctionOnSet(f, T) + SumFunctionOnSet(g, T)
<1> DEFINE P == {s \in SUBSET T : SumFunctionOnSet(h, s) = SumFunctionOnSet(f, s) + SumFunctionOnSet(g, s)}
<1>1. ASSUME NEW s \in SUBSET T, \A x \in s : s \ {x} \in P
      PROVE  s \in P
  <2>1. IsFiniteSet(s) /\ IsFiniteSet({}) /\ (\A x \in s : f[x] \in Int)
        /\ (\A x \in s : g[x] \in Int) /\ (\A x \in s : h[x] \in Int)
    BY FS_Subset, FS_EmptySet
  <2>2. SumFunctionOnSet(f, {}) = 0 /\ SumFunctionOnSet(g, {}) = 0 /\ SumFunctionOnSet(h, {}) = 0
    BY <2>1, SumStep
  <2>3. CASE s = {}
    BY <2>2, <2>3
  <2>4. CASE s # {}
    <3>1. PICK x \in s : TRUE
      BY <2>4
    <3>2. /\ SumFunctionOnSet(f, s) = f[x] + SumFunctionOnSet(f, s \ {x})
          /\ SumFunctionOnSet(f, s \ {x}) \in Int
      BY <2>1, <3>1, SumRemove
    <3>3. /\ SumFunctionOnSet(g, s) = g[x] + SumFunctionOnSet(g, s \ {x})
          /\ SumFunctionOnSet(g, s \ {x}) \in Int
      BY <2>1, <3>1, SumRemove
    <3>4. /\ SumFunctionOnSet(h, s) = h[x] + SumFunctionOnSet(h, s \ {x})
          /\ SumFunctionOnSet(h, s \ {x}) \in Int
      BY <2>1, <3>1, SumRemove
    <3>5. SumFunctionOnSet(h, s \ {x}) = SumFunctionOnSet(f, s \ {x}) + SumFunctionOnSet(g, s \ {x})
      BY <1>1, <3>1
    <3>6. x \in T
      BY <3>1
    <3>7. SumFunctionOnSet(h, s) = SumFunctionOnSet(f, s) + SumFunctionOnSet(g, s)
      BY <3>2, <3>3, <3>4, <3>5, <3>6
    <3> QED
      BY <3>7
  <2> QED
    BY <2>3, <2>4
<1> HIDE DEF P
<1>2. SUBSET T \subseteq P
  BY <1>1, SetsByRemoval
<1>3. T \in P
  BY <1>2
<1> QED
  BY <1>3 DEF P

\* A common factor comes out of a sum.
LEMMA SumOfMultiples ==
    ASSUME NEW T, IsFiniteSet(T), NEW f, NEW h, NEW a \in Int,
           \A x \in T : f[x] \in Int /\ h[x] = a * f[x]
    PROVE  SumFunctionOnSet(h, T) = a * SumFunctionOnSet(f, T)
<1> DEFINE P == {s \in SUBSET T : SumFunctionOnSet(h, s) = a * SumFunctionOnSet(f, s)}
<1>0. \A x \in T : h[x] \in Int
  OBVIOUS
<1>1. ASSUME NEW s \in SUBSET T, \A x \in s : s \ {x} \in P
      PROVE  s \in P
  <2>1. IsFiniteSet(s) /\ IsFiniteSet({}) /\ (\A x \in s : f[x] \in Int) /\ (\A x \in s : h[x] \in Int)
    BY <1>0, FS_Subset, FS_EmptySet
  <2>2. SumFunctionOnSet(f, {}) = 0 /\ SumFunctionOnSet(h, {}) = 0
    BY <2>1, SumStep
  <2>3. CASE s = {}
    BY <2>2, <2>3
  <2>4. CASE s # {}
    <3>1. PICK x \in s : TRUE
      BY <2>4
    <3>2. /\ SumFunctionOnSet(f, s) = f[x] + SumFunctionOnSet(f, s \ {x})
          /\ SumFunctionOnSet(f, s \ {x}) \in Int
      BY <2>1, <3>1, SumRemove
    <3>3. /\ SumFunctionOnSet(h, s) = h[x] + SumFunctionOnSet(h, s \ {x})
          /\ SumFunctionOnSet(h, s \ {x}) \in Int
      BY <2>1, <3>1, SumRemove
    <3>4. SumFunctionOnSet(h, s \ {x}) = a * SumFunctionOnSet(f, s \ {x})
      BY <1>1, <3>1
    <3>5. f[x] \in Int /\ h[x] = a * f[x]
      BY <3>1
    <3>6. a * (f[x] + SumFunctionOnSet(f, s \ {x})) = a * f[x] + a * SumFunctionOnSet(f, s \ {x})
      BY <3>2, <3>5
    <3>7. SumFunctionOnSet(h, s) = a * SumFunctionOnSet(f, s)
      BY <3>2, <3>3, <3>4, <3>5, <3>6
    <3> QED
      BY <3>7
  <2> QED
    BY <2>3, <2>4
<1> HIDE DEF P
<1>2. SUBSET T \subseteq P
  BY <1>1, SetsByRemoval
<1>3. T \in P
  BY <1>2
<1> QED
  BY <1>3 DEF P

\* A sum of ones counts.
LEMMA SumOfOnes ==
    ASSUME NEW T, IsFiniteSet(T), NEW f, \A x \in T : f[x] = 1
    PROVE  SumFunctionOnSet(f, T) = Cardinality(T)
<1> DEFINE P == {s \in SUBSET T : SumFunctionOnSet(f, s) = Cardinality(s)}
<1>1. ASSUME NEW s \in SUBSET T, \A x \in s : s \ {x} \in P
      PROVE  s \in P
  <2>1. IsFiniteSet(s) /\ IsFiniteSet({}) /\ (\A x \in s : f[x] \in Int)
    BY FS_Subset, FS_EmptySet
  <2>2. SumFunctionOnSet(f, {}) = 0 /\ Cardinality({}) = 0
    BY <2>1, SumStep, FS_EmptySet
  <2>3. CASE s = {}
    BY <2>2, <2>3
  <2>4. CASE s # {}
    <3>1. PICK x \in s : TRUE
      BY <2>4
    <3>2. /\ SumFunctionOnSet(f, s) = f[x] + SumFunctionOnSet(f, s \ {x})
      BY <2>1, <3>1, SumRemove
    <3>3. Cardinality(s \ {x}) = Cardinality(s) - 1 /\ Cardinality(s) \in Nat
      BY <2>1, <3>1, FS_RemoveElement, FS_CardinalityType
    <3>4. SumFunctionOnSet(f, s \ {x}) = Cardinality(s \ {x})
      BY <1>1, <3>1
    <3>5. f[x] = 1
      BY <3>1
    <3>6. SumFunctionOnSet(f, s) = Cardinality(s)
      BY <3>2, <3>3, <3>4, <3>5
    <3> QED
      BY <3>6
  <2> QED
    BY <2>3, <2>4
<1> HIDE DEF P
<1>2. SUBSET T \subseteq P
  BY <1>1, SetsByRemoval
<1>3. T \in P
  BY <1>2
<1> QED
  BY <1>3 DEF P

\* Two parts.
LEMMA SumOfParts ==
    ASSUME NEW T, IsFiniteSet(T), NEW f, \A x \in T : f[x] \in Int, NEW A \in SUBSET T
    PROVE  SumFunctionOnSet(f, T) = SumFunctionOnSet(f, A) + SumFunctionOnSet(f, T \ A)
<1> DEFINE P == {s \in SUBSET T : SumFunctionOnSet(f, s) = SumFunctionOnSet(f, s \cap A) + SumFunctionOnSet(f, s \ A)}
<1>0. \A s \in SUBSET T : IsFiniteSet(s) /\ \A x \in s : f[x] \in Int
  BY FS_Subset
<1>1. ASSUME NEW s \in SUBSET T, \A x \in s : s \ {x} \in P
      PROVE  s \in P
  <2>1. /\ IsFiniteSet(s) /\ \A x \in s : f[x] \in Int
        /\ IsFiniteSet(s \cap A) /\ \A x \in s \cap A : f[x] \in Int
        /\ IsFiniteSet(s \ A) /\ \A x \in s \ A : f[x] \in Int
    <3>1. s \cap A \in SUBSET T /\ s \ A \in SUBSET T
      OBVIOUS
    <3> HIDE DEF P
    <3> QED
      BY <1>0, <3>1
  <2>2. SumFunctionOnSet(f, {}) = 0
    BY <2>1, SumStep
  <2>3. CASE s = {}
    <3>1. s \cap A = {} /\ s \ A = {}
      BY <2>3
    <3> QED
      BY <2>2, <2>3, <3>1
  <2>4. CASE s # {}
    <3>1. PICK x \in s : TRUE
      BY <2>4
    <3>2. SumFunctionOnSet(f, s) = f[x] + SumFunctionOnSet(f, s \ {x})
      BY <2>1, <3>1, SumRemove
    <3> DEFINE t == s \ {x}
    <3>3. SumFunctionOnSet(f, t) = SumFunctionOnSet(f, t \cap A) + SumFunctionOnSet(f, t \ A)
      BY <1>1, <3>1
    <3>4. /\ SumFunctionOnSet(f, s \cap A) \in Int /\ SumFunctionOnSet(f, s \ A) \in Int
      <4>1. SumFunctionOnSet(f, s \cap A) \in Int
        BY <2>1, SumStep
      <4>2. SumFunctionOnSet(f, s \ A) \in Int
        BY <2>1, SumStep
      <4> QED
        BY <4>1, <4>2
    <3>5. x \in T /\ f[x] \in Int
      BY <2>1, <3>1
    <3> DEFINE sum(r) == SumFunctionOnSet(f, r)
               a == s \cap A
               b == s \ A
    <3>6. CASE x \in A
      <4>1. t \cap A = a \ {x} /\ t \ A = b /\ x \in a
        BY <3>1, <3>6
      <4>2. sum(a) = f[x] + sum(a \ {x}) /\ sum(a \ {x}) \in Int
        BY <2>1, <4>1, SumRemove
      <4>3. sum(t) = sum(a \ {x}) + sum(b)
        BY <3>3, <4>1
      <4> HIDE DEF sum, t, a, b, P
      <4>4. sum(s) = sum(a) + sum(b)
        BY <3>2, <3>4, <3>5, <4>2, <4>3 DEF sum, t, a, b
      <4> QED
        BY <4>4 DEF sum, a, b, P
    <3>7. CASE x \notin A
      <4>1. t \cap A = a /\ t \ A = b \ {x} /\ x \in b
        BY <3>1, <3>7
      <4>2. sum(b) = f[x] + sum(b \ {x}) /\ sum(b \ {x}) \in Int
        BY <2>1, <4>1, SumRemove
      <4>3. sum(t) = sum(a) + sum(b \ {x})
        BY <3>3, <4>1
      <4> HIDE DEF sum, t, a, b, P
      <4>4. sum(s) = sum(a) + sum(b)
        BY <3>2, <3>4, <3>5, <4>2, <4>3 DEF sum, t, a, b
      <4> QED
        BY <4>4 DEF sum, a, b, P
    <3> QED
      BY <3>6, <3>7
  <2> QED
    BY <2>3, <2>4
<1> HIDE DEF P
<1>2. SUBSET T \subseteq P
  BY <1>1, SetsByRemoval
<1>3. T \in P /\ T \cap A = A
  BY <1>2
<1> QED
  BY <1>3 DEF P

\* The images of the members of a finite set are finitely many.
LEMMA ImagesAreFinite ==
    ASSUME NEW T, IsFiniteSet(T), NEW m
    PROVE  IsFiniteSet({m[x] : x \in T})
<1> DEFINE g == [x \in T |-> m[x]]
<1>1. g \in Surjection(T, {m[x] : x \in T})
  BY DEF Surjection
<1> QED
  BY <1>1, FS_Surjection

\* The elements are told apart by what they are mapped to: what is summed there
\* is summed here.
Renames(m, f, h, T) ==
    /\ \A x \in T : f[x] \in Int /\ h[m[x]] = f[x]
    /\ \A x, y \in T : m[x] = m[y] => x = y

\* A sum follows its members when they are renamed.
LEMMA SumOfImages ==
    ASSUME NEW T, IsFiniteSet(T), NEW m, NEW f, NEW h, Renames(m, f, h, T),
           NEW U, U = {m[x] : x \in T}
    PROVE  SumFunctionOnSet(h, U) = SumFunctionOnSet(f, T)
<1>a. /\ \A x \in T : f[x] \in Int /\ h[m[x]] = f[x]
      /\ \A x, y \in T : m[x] = m[y] => x = y
  BY DEF Renames
<1> DEFINE img(s) == {m[x] : x \in s}
           P == {s \in SUBSET T : SumFunctionOnSet(h, img(s)) = SumFunctionOnSet(f, s)}
<1>0. \A s \in SUBSET T : IsFiniteSet(s) /\ IsFiniteSet(img(s)) /\ (\A x \in s : f[x] \in Int)
                          /\ \A y \in img(s) : h[y] \in Int
  <2>1. \A s \in SUBSET T : IsFiniteSet(s)
    BY FS_Subset
  <2>2. \A s \in SUBSET T : IsFiniteSet(img(s))
    BY <2>1, ImagesAreFinite
  <2>3. \A x \in T : f[x] \in Int /\ h[m[x]] \in Int
    BY <1>a
  <2> QED
    BY <2>1, <2>2, <2>3
<1>1. ASSUME NEW s \in SUBSET T, \A x \in s : s \ {x} \in P
      PROVE  s \in P
  <2>1. IsFiniteSet(s) /\ IsFiniteSet(img(s)) /\ (\A x \in s : f[x] \in Int) /\ \A y \in img(s) : h[y] \in Int
    BY <1>0
  <2>2. SumFunctionOnSet(f, {}) = 0
    BY <2>1, SumStep
  <2>3. SumFunctionOnSet(h, {}) = 0
    <3> HIDE DEF img
    <3> QED
      BY <2>1, SumStep
  <2>4. CASE s = {}
    <3>1. img(s) = {}
      BY <2>4
    <3> QED
      BY <2>2, <2>3, <2>4, <3>1
  <2>5. CASE s # {}
    <3>1. PICK x \in s : TRUE
      BY <2>5
    <3>2. SumFunctionOnSet(f, s) = f[x] + SumFunctionOnSet(f, s \ {x})
      BY <2>1, <3>1, SumRemove
    <3>3. m[x] \in img(s) /\ img(s) \ {m[x]} = img(s \ {x}) /\ h[m[x]] = f[x]
      BY <1>a, <3>1
    <3>4. SumFunctionOnSet(h, img(s)) = h[m[x]] + SumFunctionOnSet(h, img(s) \ {m[x]})
      <4>1. m[x] \in img(s)
        BY <3>3
      <4> HIDE DEF img
      <4> QED
        BY <2>1, <4>1, SumRemove
    <3>5. SumFunctionOnSet(h, img(s \ {x})) = SumFunctionOnSet(f, s \ {x})
      BY <1>1, <3>1
    <3>6. SumFunctionOnSet(h, img(s)) = SumFunctionOnSet(f, s)
      <4> HIDE DEF img
      <4> QED
        BY <3>2, <3>3, <3>4, <3>5
    <3> QED
      BY <3>6
  <2> QED
    BY <2>4, <2>5
<1>2. SUBSET T \subseteq P
  <2> HIDE DEF P
  <2> QED
    BY <1>1, SetsByRemoval
<1>3. T \in P
  <2> HIDE DEF P
  <2> QED
    BY <1>2
<1> QED
  BY <1>3

\* h has the sum of f over each kind of the elements of T.
SumsKinds(h, f, kind, T, K) == \A k \in K : h[k] = SumFunctionOnSet(f, {x \in T : kind[x] = k})

\* What is summed by kind is summed.
LEMMA SumOfKinds ==
    ASSUME NEW T, IsFiniteSet(T), NEW K, IsFiniteSet(K), NEW kind, \A x \in T : kind[x] \in K,
           NEW f, \A x \in T : f[x] \in Int, NEW h, SumsKinds(h, f, kind, T, K)
    PROVE  SumFunctionOnSet(h, K) = SumFunctionOnSet(f, T)
<1> DEFINE all(s) == {x \in T : kind[x] \in s}
           P == {s \in SUBSET K : SumFunctionOnSet(h, s) = SumFunctionOnSet(f, all(s))}
<1>0. \A s \in SUBSET T : IsFiniteSet(s) /\ \A x \in s : f[x] \in Int
  BY FS_Subset
<1>1. \A k \in K : h[k] \in Int
  <2> SUFFICES ASSUME NEW k \in K PROVE h[k] \in Int
    OBVIOUS
  <2> DEFINE A == {x \in T : kind[x] = k}
  <2>1. IsFiniteSet(A) /\ \A x \in A : f[x] \in Int
    BY <1>0
  <2>2. h[k] = SumFunctionOnSet(f, A)
    BY DEF SumsKinds
  <2> HIDE DEF A
  <2> QED
    BY <2>1, <2>2, SumStep
<1>2. ASSUME NEW s \in SUBSET K, \A k \in s : s \ {k} \in P
      PROVE  s \in P
  <2>1. IsFiniteSet(s) /\ \A k \in s : h[k] \in Int
    BY <1>1, FS_Subset
  <2>2. SumFunctionOnSet(h, {}) = 0
    BY <2>1, SumStep
  <2>3. SumFunctionOnSet(f, {}) = 0
    BY SumStep
  <2>4. CASE s = {}
    <3>1. all(s) = {}
      BY <2>4
    <3> QED
      BY <2>2, <2>3, <2>4, <3>1
  <2>5. CASE s # {}
    <3>1. PICK k \in s : TRUE
      BY <2>5
    <3>2. SumFunctionOnSet(h, s) = h[k] + SumFunctionOnSet(h, s \ {k})
      BY <2>1, <3>1, SumRemove
    <3> DEFINE A == {x \in T : kind[x] = k}
               B == all(s)
    <3>3. A \in SUBSET B /\ B \ A = all(s \ {k}) /\ B \in SUBSET T
      BY <3>1
    <3>4. IsFiniteSet(B) /\ \A x \in B : f[x] \in Int
      BY <1>0
    <3>5. h[k] = SumFunctionOnSet(f, A)
      BY <3>1 DEF SumsKinds
    <3>6. SumFunctionOnSet(f, B) = SumFunctionOnSet(f, A) + SumFunctionOnSet(f, B \ A)
      <4> HIDE DEF A, B
      <4> QED
        BY <3>3, <3>4, SumOfParts
    <3>7. SumFunctionOnSet(h, s \ {k}) = SumFunctionOnSet(f, all(s \ {k}))
      BY <1>2, <3>1
    <3>8. SumFunctionOnSet(h, s) = SumFunctionOnSet(f, B)
      <4> HIDE DEF A, B, all
      <4> QED
        BY <3>2, <3>3, <3>5, <3>6, <3>7
    <3> QED
      BY <3>8
  <2> QED
    BY <2>4, <2>5
<1>3. SUBSET K \subseteq P
  <2> HIDE DEF P
  <2> QED
    BY <1>2, SetsByRemoval
<1>4. K \in P /\ all(K) = T
  <2>1. K \in P
    <3> HIDE DEF P
    <3> QED
      BY <1>3
  <2> QED
    BY <2>1
<1> QED
  BY <1>4

-----------------------------------------------------------------------------
(* Levels of the engine. *)

\* A quotient by a positive number, cut off.
LEMMA Quotient ==
    ASSUME NEW a \in Int, NEW b \in Nat \ {0}
    PROVE  /\ a \div b \in Int
           /\ b * (a \div b) \in Int
           /\ b * (a \div b) <= a /\ a < b * (a \div b) + b
<1> DEFINE q == a \div b
           r == a % b
<1>1. a = b * q + r /\ r \in 0..(b - 1) /\ q \in Int
  OBVIOUS
<1>2. b * q \in Int
  BY <1>1
<1> HIDE DEF q, r
<1>3. b * q <= a /\ a < b * q + b
  BY <1>1, <1>2
<1> QED
  BY <1>1, <1>2, <1>3 DEF q

\* A product grows with each of its factors.
LEMMA ProductsGrow ==
    ASSUME NEW a \in Nat, NEW b \in Int, NEW c \in Int, b <= c
    PROVE  a * b <= a * c /\ a * b \in Int /\ a * c \in Int
<1>1. PICK k \in Nat : c = b + k
  <2>1. c - b \in Nat /\ c = b + (c - b)
    OBVIOUS
  <2> QED
    BY <2>1, Zenon
<1>2. a * c = a * b + a * k /\ a * b \in Int /\ a * k \in Nat
  BY <1>1
<1> QED
  BY <1>2

\* The nearest integer, half up, of a fraction between two integers.
LEMMA HalfUpBetween ==
    ASSUME NEW num \in Int, NEW den \in Nat \ {0}, NEW lo \in Int, NEW hi \in Int,
           lo * den <= num, num <= hi * den
    PROVE  /\ HalfUp(num, den) \in lo..hi
           /\ 2 * (HalfUp(num, den) * den - num) \in (-den + 1)..den
<1> DEFINE q == (2 * num + den) \div (2 * den)
<1>1. /\ q \in Int /\ (2 * den) * q \in Int
      /\ (2 * den) * q <= 2 * num + den /\ 2 * num + den < (2 * den) * q + 2 * den
  <2> DEFINE a == 2 * num + den
             b == 2 * den
  <2>1. a \in Int /\ b \in Nat \ {0} /\ q = a \div b
    OBVIOUS
  <2> HIDE DEF a, b, q
  <2>2. q \in Int /\ b * q \in Int /\ b * q <= a /\ a < b * q + b
    BY <2>1, Quotient
  <2> QED
    BY <2>2 DEF a, b
<1> HIDE DEF q
<1>2. (2 * den) * q = 2 * (q * den) /\ q * den \in Int /\ den * q = q * den
  BY <1>1
<1>3. 2 * (q * den - num) \in (-den + 1)..den
  BY <1>1, <1>2
<1>4. q >= lo
  <2> SUFFICES ASSUME q + 1 <= lo PROVE FALSE
    BY <1>1
  <2>1. den * (q + 1) <= den * lo /\ den * (q + 1) = den * q + den /\ den * lo = lo * den
    BY <1>1, ProductsGrow
  <2>2. lo * den \in Int
    OBVIOUS
  <2> QED
    BY <1>1, <1>2, <2>1, <2>2
<1>5. q <= hi
  <2> SUFFICES ASSUME hi + 1 <= q PROVE FALSE
    BY <1>1
  <2>1. den * (hi + 1) <= den * q /\ den * (hi + 1) = den * hi + den /\ den * hi = hi * den
    BY <1>1, ProductsGrow
  <2>2. hi * den \in Int
    OBVIOUS
  <2> QED
    BY <1>1, <1>2, <2>1, <2>2
<1> QED
  BY <1>1, <1>3, <1>4, <1>5 DEF HalfUp, q

\* The nearest of some observations are nearer than all others.
LEMMA NearestAreNearer ==
    ASSUME NEW obs, Observed(obs)
    PROVE  /\ Selected(obs) \subseteq obs /\ IsFiniteSet(Selected(obs))
           /\ \A o \in Selected(obs) : o.d <= RMax
           /\ \A o \in obs \ Selected(obs) : o.d > RMax \/ \A c \in Selected(obs) : Closer(c, o)
<1> DEFINE near == {o \in obs : o.d <= RMax}
           rank(o) == Cardinality({p \in near : Closer(p, o)})
<1>1. Selected(obs) = {o \in near : rank(o) < KNeighbors}
  BY Zenon DEF Selected
<1>2. IsFiniteSet(near) /\ \A o : IsFiniteSet({p \in near : Closer(p, o)}) /\ rank(o) \in Nat
  <2>1. near \in SUBSET obs /\ \A o : {p \in near : Closer(p, o)} \in SUBSET obs
    OBVIOUS
  <2> QED
    BY <2>1, FS_Subset, FS_CardinalityType DEF Observed
<1>3. \A o, c \in near : o # c => Closer(o, c) \/ Closer(c, o)
  BY DEF Observed, Closer
<1>4. \A o, c, p \in near : Closer(p, o) /\ Closer(o, c) => Closer(p, c)
  BY DEF Observed, Closer
<1>5. ASSUME NEW o \in near, NEW c \in near, rank(o) >= KNeighbors, rank(c) < KNeighbors
      PROVE  Closer(c, o)
  <2>0. o # c /\ rank(o) \in Nat /\ rank(c) \in Nat /\ KNeighbors \in Nat
    <3>1. KNeighbors \in Nat /\ rank(o) \in Nat /\ rank(c) \in Nat
      BY <1>2, EstimateAssumption
    <3> HIDE DEF rank, near
    <3> QED
      BY <1>5, <3>1
  <2> SUFFICES ASSUME Closer(o, c) PROVE FALSE
    BY <1>3, <2>0
  <2>1. {p \in near : Closer(p, o)} \in SUBSET {p \in near : Closer(p, c)}
    BY <1>4
  <2>2. rank(o) <= rank(c)
    BY <1>2, <2>1, FS_Subset
  <2> HIDE DEF rank, near
  <2> QED
    BY <1>5, <2>0, <2>2
<1>6. Selected(obs) \in SUBSET obs
  BY <1>1
<1>7. IsFiniteSet(Selected(obs))
  BY <1>6, FS_Subset DEF Observed
<1>8. \A o \in Selected(obs) : o.d <= RMax
  BY <1>1
<1>9. ASSUME NEW o \in obs \ Selected(obs), ~(o.d > RMax), NEW c \in Selected(obs)
      PROVE  Closer(c, o)
  <2>1. o.d \in Nat /\ RMax \in Nat
    BY EstimateAssumption DEF Observed
  <2>2. o \in near /\ c \in near
    BY <1>1, <1>9, <2>1
  <2> HIDE DEF near
  <2>3. rank(o) >= KNeighbors /\ rank(c) < KNeighbors
    BY <1>1, <1>2, <2>2, EstimateAssumption
  <2> QED
    BY <1>5, <2>2, <2>3
<1> QED
  BY <1>6, <1>7, <1>8, <1>9

\* Weights are positive, and equal where the distances are.
LEMMA WeightsArePositive ==
    ASSUME NEW S, IsFiniteSet(S), \A p \in S : p.d \in Nat
    PROVE  \A o \in S : Weight(o, S) \in Nat \ {0}
<1> SUFFICES ASSUME NEW o \in S PROVE Weight(o, S) \in Nat \ {0}
  OBVIOUS
<1> DEFINE f == [p \in S \ {o} |-> Max({p.d, DFloor}) * Max({p.d, DFloor})]
<1>1. Weight(o, S) = ProductOn(f, S \ {o})
  BY DEF Weight, FoldFunction, ProductOn
<1>2. \A p \in S \ {o} : f[p] \in Nat \ {0}
  <2> SUFFICES ASSUME NEW p \in S \ {o} PROVE f[p] \in Nat \ {0}
    OBVIOUS
  <2> DEFINE m == Max({p.d, DFloor})
  <2>1. m \in Nat \ {0}
    BY MaxOfTwo, EstimateAssumption
  <2>2. f[p] = m * m
    OBVIOUS
  <2> HIDE DEF m, f
  <2>3. m * m \in Nat \ {0}
    BY <2>1
  <2> QED
    BY <2>2, <2>3
<1>3. IsFiniteSet(S \ {o})
  BY FS_Subset
<1> HIDE DEF f
<1> QED
  BY <1>1, <1>2, <1>3, ProductIsPositive

\* Evidence that is equally far weighs the same.
LEMMA WeightsOfOneDistance ==
    ASSUME NEW S, IsFiniteSet(S), NEW d \in Nat, \A p \in S : p.d = d
    PROVE  \A o, q \in S : Weight(o, S) = Weight(q, S)
<1> SUFFICES ASSUME NEW o \in S, NEW q \in S PROVE Weight(o, S) = Weight(q, S)
  OBVIOUS
<1> DEFINE f(x) == [p \in S \ {x} |-> Max({p.d, DFloor}) * Max({p.d, DFloor})]
           m == Max({d, DFloor})
<1>1. \A x : Weight(x, S) = ProductOn(f(x), S \ {x})
  BY DEF Weight, FoldFunction, ProductOn
<1>2. m \in Nat /\ m * m \in Int
  <2>1. m \in Nat
    BY MaxOfTwo, EstimateAssumption
  <2> HIDE DEF m
  <2> QED
    BY <2>1
<1>3. \A x : \A p \in S \ {x} : f(x)[p] = m * m
  OBVIOUS
<1>4. /\ IsFiniteSet(S \ {o}) /\ IsFiniteSet(S \ {q})
      /\ Cardinality(S \ {o}) = Cardinality(S) - 1 /\ Cardinality(S \ {q}) = Cardinality(S) - 1
  BY FS_RemoveElement
<1> DEFINE fo == f(o)
           fq == f(q)
           mm == m * m
<1>5. (\A p \in S \ {o} : fo[p] = mm) /\ (\A p \in S \ {q} : fq[p] = mm) /\ mm \in Int
  BY <1>2, <1>3
<1>6. Weight(o, S) = ProductOn(fo, S \ {o}) /\ Weight(q, S) = ProductOn(fq, S \ {q})
  BY <1>1
<1> HIDE DEF fo, fq, mm, f
<1>7. ProductOn(fo, S \ {o}) = ProductOn(fq, S \ {q})
  <2>1. Cardinality(S \ {o}) = Cardinality(S \ {q})
    BY <1>4
  <2> QED
    BY <1>4, <1>5, <2>1, ProductOfOneNumber
<1> QED
  BY <1>6, <1>7

Levelled(obs) == Observed(obs) /\ \A o \in obs : o.level \in 1..4

\* The estimate of some hotspots that count: what it is made of lies in its ranges.
IsEstimate(e, S) ==
    LET levels == {o.level : o \in S}
    IN  /\ e.coverage \in {"covered", "fringe"}
        /\ e.den \in Nat \ {0} /\ e.num \in Int
        /\ Min(levels) \in 1..4 /\ Max(levels) \in 1..4
        /\ Min(levels) * e.den <= e.num /\ e.num <= Max(levels) * e.den
        /\ e.level \in Min(levels)..Max(levels)
        /\ 2 * (e.level * e.den - e.num) \in (-e.den + 1)..e.den
        /\ e.confidence \in 0..ConfidenceUnit
        /\ e.tier \in {"low", "mid", "high"}
        /\ Primary(S) \in S /\ e.primary = Primary(S).id /\ e.distance = Primary(S).d
        /\ e.contributors = {[id |-> o.id, d |-> o.d, weight |-> Weight(o, S)] : o \in S}
        /\ \A o \in S : Weight(o, S) \in Nat \ {0}

\* What is estimated from evidence in range is a mean of its levels.
LEMMA EstimateIs ==
    ASSUME NEW obs, Levelled(obs), NEW S, S \subseteq obs, S # {}, \A o \in S : o.d <= RMax,
           NEW inside
    PROVE  /\ IsEstimate(EstimateFrom(S, inside), S)
           /\ inside => EstimateFrom(S, inside).coverage = "covered"
<1> DEFINE first == Primary(S)
           weight == [o \in S |-> Weight(o, S)]
           part == [o \in S |-> Weight(o, S) * o.level]
           num == SumFunctionOnSet(part, S)
           den == SumFunctionOnSet(weight, S)
           levels == {o.level : o \in S}
           ages == {o.age : o \in S}
           youngest == Min(ages)
           few == Min({2, Cardinality(S)})
           confidence == (RMax - first.d) * Decay[Max({0, youngest})] * few
           e == EstimateFrom(S, inside)
<1>1. /\ IsFiniteSet(S)
      /\ \A o \in S : o.d \in Nat /\ o.id \in Nat /\ o.age \in Ages /\ o.level \in 1..4
  BY FS_Subset DEF Levelled, Observed
<1>2. e = [coverage |-> IF inside \/ first.d <= Covered THEN "covered" ELSE "fringe",
           num |-> num, den |-> den,
           level |-> Min({4, Max({1, HalfUp(num, den)})}),
           confidence |-> confidence,
           tier |-> ConfidenceTier(confidence, ConfidenceUnit),
           primary |-> first.id, distance |-> first.d,
           contributors |-> {[id |-> o.id, d |-> o.d, weight |-> Weight(o, S)] : o \in S}]
  BY Zenon DEF EstimateFrom, SumFunction
<1>3. first \in S
  BY PrimaryIsSelected DEF Levelled
<1>4. \A o \in S : Weight(o, S) \in Nat \ {0} /\ weight[o] = Weight(o, S)
  BY <1>1, WeightsArePositive
<1>5. \E lo, hi \in levels : \A l \in levels : lo <= l /\ l <= hi
  <2>1. levels \in SUBSET 1..4 /\ levels # {}
    BY <1>1
  <2>2. PICK lo \in levels : \A l \in levels : lo <= l
    <3>1. levels \in SUBSET Nat
      BY <2>1
    <3> HIDE DEF levels
    <3> QED
      BY <2>1, <3>1, LeastExists
  <2>3. PICK m \in {4 - l : l \in levels} : \A i \in {4 - l : l \in levels} : m <= i
    <3>1. {4 - l : l \in levels} \in SUBSET Nat /\ {4 - l : l \in levels} # {}
      BY <2>1
    <3> HIDE DEF levels
    <3> QED
      BY <3>1, LeastExists
  <2> HIDE DEF levels
  <2>4. PICK hi \in levels : m = 4 - hi
    BY <2>3
  <2>5. \A l \in levels : l <= hi
    <3> SUFFICES ASSUME NEW l \in levels PROVE l <= hi
      OBVIOUS
    <3>1. m <= 4 - l
      BY <2>3
    <3>2. l \in 1..4 /\ hi \in 1..4
      BY <2>1
    <3> QED
      BY <2>4, <3>1, <3>2
  <2> QED
    BY <2>2, <2>5
<1> DEFINE lo == Min(levels)
           hi == Max(levels)
<1>6. /\ lo \in 1..4 /\ hi \in 1..4 /\ \A o \in S : lo <= o.level /\ o.level <= hi
  <2>1. lo \in levels /\ hi \in levels /\ \A l \in levels : lo <= l /\ l <= hi
    <3> HIDE DEF levels
    <3> QED
      BY <1>5 DEF Min, Max
  <2>2. levels \in SUBSET 1..4 /\ \A o \in S : o.level \in levels
    BY <1>1
  <2> HIDE DEF levels, lo, hi
  <2> QED
    BY <2>1, <2>2
<1> HIDE DEF lo, hi, levels
<1>7. den \in Nat \ {0} /\ num \in Int
  <2>1. /\ \A o \in S : part[o] \in Int
        /\ \A o \in S : weight[o] \in Int
    <3>1. \A o \in S : part[o] = Weight(o, S) * o.level
      OBVIOUS
    <3> HIDE DEF part
    <3> QED
      BY <1>1, <1>4, <3>1
  <2> HIDE DEF part, weight
  <2>2. num \in Int
    BY <1>1, <2>1, SumStep
  <2>3. den \in Int
    BY <1>1, <2>1, SumStep
  <2> DEFINE one == [o \in S |-> 1]
  <2>4. SumFunctionOnSet(one, S) = Cardinality(S) /\ Cardinality(S) \in Nat \ {0}
    <3>1. \A o \in S : one[o] = 1
      OBVIOUS
    <3> HIDE DEF one
    <3> QED
      BY <1>1, <3>1, SumOfOnes, FS_CardinalityType, FS_EmptySet
  <2>5. SumFunctionOnSet(one, S) <= den
    <3>1. \A o \in S : one[o] \in Int /\ weight[o] \in Int /\ one[o] <= weight[o]
      BY <1>4, <2>1
    <3> HIDE DEF one
    <3> QED
      BY <1>1, <3>1, SumMonotone
  <2> QED
    BY <2>2, <2>3, <2>4, <2>5
<1>8. lo * den <= num /\ num <= hi * den
  <2> DEFINE least == [o \in S |-> lo * weight[o]]
             most == [o \in S |-> hi * weight[o]]
  <2>1. /\ \A o \in S : weight[o] \in Int /\ least[o] = lo * weight[o] /\ most[o] = hi * weight[o]
        /\ \A o \in S : part[o] \in Int /\ least[o] \in Int /\ most[o] \in Int
        /\ \A o \in S : least[o] <= part[o] /\ part[o] <= most[o]
    <3> SUFFICES ASSUME NEW o \in S
                 PROVE  /\ weight[o] \in Int /\ least[o] = lo * weight[o] /\ most[o] = hi * weight[o]
                        /\ part[o] \in Int /\ least[o] \in Int /\ most[o] \in Int
                        /\ least[o] <= part[o] /\ part[o] <= most[o]
      OBVIOUS
    <3> DEFINE w == weight[o]
    <3>1. w \in Nat /\ part[o] = w * o.level
      BY <1>4
    <3>2. least[o] = lo * w /\ most[o] = hi * w
      OBVIOUS
    <3>3. lo \in Int /\ hi \in Int /\ o.level \in Int /\ lo <= o.level /\ o.level <= hi
      BY <1>1, <1>6
    <3> HIDE DEF w, part, least, most, weight
    <3>4. w * lo <= w * o.level /\ w * o.level <= w * hi /\ w * lo \in Int /\ w * hi \in Int /\ w * o.level \in Int
      BY <3>1, <3>3, ProductsGrow
    <3>5. w * lo = lo * w /\ w * hi = hi * w
      BY <3>1, <3>3
    <3> QED
      BY <3>1, <3>2, <3>4, <3>5 DEF w
  <2> HIDE DEF part, weight, least, most
  <2>2. SumFunctionOnSet(least, S) = lo * den /\ SumFunctionOnSet(most, S) = hi * den
    BY <1>1, <1>6, <2>1, SumOfMultiples
  <2>3. SumFunctionOnSet(least, S) <= num /\ num <= SumFunctionOnSet(most, S)
    BY <1>1, <2>1, SumMonotone
  <2> QED
    BY <2>2, <2>3
<1>9. e.level \in lo..hi /\ 2 * (e.level * den - num) \in (-den + 1)..den
  <2> HIDE DEF num, den
  <2>1. HalfUp(num, den) \in lo..hi /\ 2 * (HalfUp(num, den) * den - num) \in (-den + 1)..den
    <3>1. lo \in Int /\ hi \in Int
      BY <1>6
    <3> QED
      BY <1>7, <1>8, <3>1, HalfUpBetween
  <2>2. Min({4, Max({1, HalfUp(num, den)})}) = HalfUp(num, den)
    <3> DEFINE h == HalfUp(num, den)
    <3>1. h \in 1..4
      BY <1>6, <2>1
    <3> HIDE DEF h
    <3>2. Max({1, h}) = h
      BY <3>1, MaxOfTwo
    <3>3. Min({4, h}) = h
      BY <3>1, MaxOfTwo
    <3> QED
      BY <3>2, <3>3 DEF h
  <2> HIDE DEF e, first, confidence
  <2>3. e.level = Min({4, Max({1, HalfUp(num, den)})})
    <3> DEFINE level == Min({4, Max({1, HalfUp(num, den)})})
    <3>1. \A a, b, c, d, f, g, h, i, j :
              [coverage |-> a, num |-> b, den |-> c, level |-> d, confidence |-> f,
               tier |-> g, primary |-> h, distance |-> i, contributors |-> j].level = d
      OBVIOUS
    <3> QED
      BY <1>2, <3>1, Zenon
  <2> QED
    BY <2>1, <2>2, <2>3
<1>10. confidence \in 0..ConfidenceUnit
  <2>1. youngest \in Ages
    <3>1. ages \in SUBSET Ages /\ ages \in SUBSET Int /\ ages # {}
      <4>1. ages \in SUBSET Ages /\ ages # {}
        BY <1>1, <1>3, Zenon
      <4> QED
        BY <4>1, EstimateAssumption
    <3>2. IsFiniteSet(ages)
      <4>1. [o \in S |-> o.age] \in Surjection(S, ages)
        BY DEF Surjection
      <4> QED
        BY <1>1, <4>1, FS_Surjection
    <3> HIDE DEF ages
    <3>3. \E m \in ages : \A i \in ages : m <= i
      BY <3>1, <3>2, FiniteHasLeast
    <3> QED
      BY <3>1, <3>3 DEF Min
  <2> DEFINE decay == Decay[Max({0, youngest})]
             reach == RMax - first.d
  <2>2. decay \in 0..100
    <3> HIDE DEF youngest
    <3>1. youngest \in Int /\ 0 \in Ages
      BY <2>1, EstimateAssumption
    <3>2. Max({0, youngest}) \in Ages
      BY <2>1, <3>1, MaxOfTwo
    <3>3. \A x \in Ages : Decay[x] \in 0..100
      BY EstimateAssumption
    <3> HIDE DEF Max
    <3> QED
      BY <3>2, <3>3, Zenon
  <2>3. few \in 0..2
    <3> DEFINE n == Cardinality(S)
    <3>1. n \in Nat
      BY <1>1, FS_CardinalityType
    <3> HIDE DEF n
    <3>2. Min({2, n}) \in 0..2
      BY <3>1, MaxOfTwo
    <3> QED
      BY <3>2 DEF n
  <2>4. reach \in 0..RMax /\ RMax \in Nat
    BY <1>1, <1>3, EstimateAssumption
  <2> HIDE DEF decay, few, reach
  <2>5. confidence = reach * decay * few
    BY DEF decay, reach
  <2>6. reach * decay \in Nat /\ reach * decay <= reach * 100
    BY <2>2, <2>4, ProductsGrow
  <2>7. reach * 100 <= RMax * 100
    BY <2>4
  <2> DEFINE rd == reach * decay
  <2>8. rd \in Nat /\ rd <= RMax * 100
    BY <2>4, <2>6, <2>7
  <2> HIDE DEF rd
  <2>9. rd * few \in Nat /\ rd * few <= rd * 2
    BY <2>3, <2>8, ProductsGrow
  <2> QED
    BY <2>4, <2>5, <2>8, <2>9 DEF ConfidenceUnit, rd
<1> HIDE DEF first, num, den, confidence
<1>11. /\ e.coverage = (IF inside \/ first.d <= Covered THEN "covered" ELSE "fringe")
       /\ e.num = num /\ e.den = den /\ e.confidence = confidence
       /\ e.tier = ConfidenceTier(confidence, ConfidenceUnit)
       /\ e.primary = first.id /\ e.distance = first.d
       /\ e.contributors = {[id |-> o.id, d |-> o.d, weight |-> Weight(o, S)] : o \in S}
  <2> HIDE DEF e
  <2> QED
    BY <1>2
<1>12. e.tier \in {"low", "mid", "high"} /\ e.coverage \in {"covered", "fringe"} /\ (inside => e.coverage = "covered")
  <2> HIDE DEF e
  <2> QED
    BY <1>11 DEF ConfidenceTier
<1> HIDE DEF e
<1> QED
  BY <1>3, <1>4, <1>6, <1>7, <1>8, <1>9, <1>10, <1>11, <1>12 DEF IsEstimate, e, lo, hi, levels, first

\* None is Python's None: no number, no text, no collection.
NoneIsApart ==
    /\ None \notin {"low", "mid", "high"}
    /\ None \notin SUBSET [id : Nat, d : Nat, weight : Nat]

\* The level of a cafe is between those of the nearest hotspots within reach,
\* however many there are and however they are weighted; no other hotspot has a
\* part in it, and it is the rounded fraction of its weights (score_cafe).
THEOREM LevelsComeFromNeighbours ==
    ASSUME NEW obs, Levelled(obs)
    PROVE  LevelIsOfNeighbours(obs)
<1> DEFINE S == Selected(obs)
           e == EstimateFrom(S, FALSE)
<1> SUFFICES ASSUME e.level # None
             PROVE  LET counted == {o \in obs : \E c \in e.contributors : c.id = o.id}
                        levels == {o.level : o \in counted}
                    IN  /\ Min(levels) * e.den <= e.num /\ e.num <= Max(levels) * e.den
                        /\ e.level \in Min(levels)..Max(levels)
                        /\ \A o \in counted : o.d <= RMax
                        /\ \A o \in obs \ counted : o.d > RMax \/ \A c \in counted : Closer(c, o)
                        /\ 2 * (e.level * e.den - e.num) \in (-e.den + 1)..e.den
  BY Zenon DEF LevelIsOfNeighbours, ScoreCafe
<1>1. Observed(obs)
  BY DEF Levelled
<1>2. /\ S \subseteq obs /\ \A o \in S : o.d <= RMax
      /\ \A o \in obs \ S : o.d > RMax \/ \A c \in S : Closer(c, o)
  BY <1>1, NearestAreNearer
<1>3. S # {}
  <2> SUFFICES ASSUME S = {} PROVE FALSE
    OBVIOUS
  <2> HIDE DEF S
  <2>1. e = Uncovered
    BY Zenon DEF EstimateFrom
  <2>2. Uncovered.level = None
    BY DEF Uncovered
  <2> HIDE DEF e
  <2> QED
    BY <2>1, <2>2
<1> HIDE DEF S
<1> DEFINE levels == {o.level : o \in S}
<1>4. /\ Min(levels) * e.den <= e.num /\ e.num <= Max(levels) * e.den
      /\ e.level \in Min(levels)..Max(levels)
      /\ 2 * (e.level * e.den - e.num) \in (-e.den + 1)..e.den
      /\ e.contributors = {[id |-> o.id, d |-> o.d, weight |-> Weight(o, S)] : o \in S}
  <2>1. IsEstimate(e, S)
    BY <1>2, <1>3, EstimateIs
  <2> HIDE DEF e
  <2> QED
    BY <2>1 DEF IsEstimate
<1> HIDE DEF e
<1>5. {o \in obs : \E c \in e.contributors : c.id = o.id} = S
  <2>1. \A o \in S : [id |-> o.id, d |-> o.d, weight |-> Weight(o, S)].id = o.id
    OBVIOUS
  <2>2. \A o \in S : \E c \in e.contributors : c.id = o.id
    BY <1>4, <2>1, Zenon
  <2>3. \A o \in obs : (\E c \in e.contributors : c.id = o.id) => \E p \in S : p.id = o.id
    BY <1>4, <2>1, Zenon
  <2>4. \A o \in obs, p \in S : o.id = p.id => o = p
    BY <1>1, <1>2 DEF Observed
  <2> QED
    BY <1>2, <2>2, <2>3, <2>4
<1> QED
  BY <1>2, <1>4, <1>5

\* The confidence of a cafe lies between what the displayed age, its nearest
\* hotspot's, leaves of a single hotspot, and what the youngest age of those
\* counted leaves of two; nothing but the nearest hotspots within reach counts
\* (score_cafe, materialize_all).
THEOREM ConfidenceComesFromNeighbours ==
    ASSUME NEW obs, Observed(obs)
    PROVE  ConfidenceIsOfNeighbours(obs)
<1> DEFINE selected == Selected(obs)
           first == Primary(selected)
           ages == {o.age : o \in selected}
           youngest == Min(ages)
           few == Min({2, Cardinality(selected)})
           confidence == (RMax - first.d) * Decay[Max({0, youngest})] * few
           e == ScoreCafe(obs)
           row == ScoreRow(obs)
<1>1. row.estimate = e /\ row.observed = IF e.primary = None THEN None
                                         ELSE (CHOOSE o \in obs : o.id = e.primary).age
  BY Zenon DEF ScoreRow
<1>2. CASE selected = {}
  <2>1. e = Uncovered
    <3>1. \A S : S = {} => EstimateFrom(S, FALSE) = Uncovered
      BY Zenon DEF EstimateFrom
    <3> QED
      BY <1>2, <3>1, Zenon DEF ScoreCafe
  <2>2. e.primary = None
    <3>1. Uncovered.primary = None
      BY DEF Uncovered
    <3> QED
      BY <2>1, <3>1, Zenon
  <2>3. row.observed = None
    BY <1>1, <2>2, Zenon
  <2> QED
    BY <2>3, Zenon DEF ConfidenceIsOfNeighbours
<1>3. CASE selected # {}
  <2>1. /\ e.primary = first.id /\ e.distance = first.d
        /\ e.confidence = confidence
        /\ e.contributors = {[id |-> o.id, d |-> o.d, weight |-> Weight(o, selected)] : o \in selected}
    <3> HIDE DEF selected
    <3> QED
      BY <1>3, Zenon DEF ScoreCafe, EstimateFrom, selected
  <2>2. /\ selected \subseteq obs /\ IsFiniteSet(selected) /\ \A o \in selected : o.d <= RMax
        /\ \A o \in obs \ selected : o.d > RMax \/ \A c \in selected : Closer(c, o)
    BY NearestAreNearer
  <2>3. first \in selected /\ \A p \in selected \ {first} : Closer(first, p)
    <3> HIDE DEF selected
    <3> QED
      BY <1>3, <2>2, PrimaryIsSelected DEF first
  <2> HIDE DEF selected
  <2>4. /\ first \in obs /\ first.id \in Nat /\ first.d \in Nat /\ first.d <= RMax
        /\ first.age \in Ages
    <3> HIDE DEF first
    <3> QED
      BY <2>2, <2>3 DEF Observed
  <2>5. row.observed = first.age
    <3>1. e.primary # None
      BY <2>1, <2>4, OutcomesAssumption
    <3>2. \A o \in obs : o.id = first.id => o = first
      BY <2>4 DEF Observed
    <3>3. (CHOOSE o \in obs : o.id = first.id) = first
      <4> HIDE DEF first
      <4> QED
        BY <2>4, <3>2, Zenon
    <3> QED
      BY <1>1, <2>1, <3>1, <3>3, Zenon
  <2>6. youngest \in Ages /\ youngest <= first.age /\ youngest \in ages
    <3>1. ages \in SUBSET Ages /\ ages \in SUBSET Int /\ first.age \in ages
      <4>1. \A o \in selected : o.age \in Ages
        BY <2>2 DEF Observed
      <4>2. ages \in SUBSET Ages /\ first.age \in ages
        BY <2>3, <4>1, Zenon
      <4> QED
        BY <4>2, EstimateAssumption
    <3>2. IsFiniteSet(ages)
      <4>1. [o \in selected |-> o.age] \in Surjection(selected, ages)
        BY DEF Surjection
      <4> QED
        BY <2>2, <4>1, FS_Surjection
    <3> HIDE DEF ages, first
    <3>3. \E m \in ages : \A i \in ages : m <= i
      BY <3>1, <3>2, FiniteHasLeast
    <3>4. youngest \in ages /\ \A i \in ages : youngest <= i
      BY <3>3 DEF Min, youngest
    <3> QED
      BY <3>1, <3>4
  <2>7. few \in Nat /\ few >= 1
    <3>1. Cardinality(selected) \in Nat /\ Cardinality(selected) # 0
      BY <1>3, <2>2, FS_CardinalityType, FS_EmptySet
    <3> HIDE DEF first
    <3> QED
      BY <3>1, MaxOfTwo DEF few
  <2> DEFINE counted == {o \in obs : \E c \in e.contributors : c.id = o.id}
             left(age) == (RMax - e.distance) * Decay[Max({0, age})]
  <2>8. counted = selected
    <3> DEFINE part(o) == [id |-> o.id, d |-> o.d, weight |-> Weight(o, selected)]
    <3>1. \A o \in selected : part(o).id = o.id /\ part(o) \in e.contributors
      BY <2>1
    <3>2. \A c \in e.contributors : \E p \in selected : c = part(p)
      BY <2>1
    <3>3. \A o \in obs, p \in selected : o.id = p.id => o = p
      BY <2>2 DEF Observed
    <3> HIDE DEF e, part
    <3>4. \A o \in selected : \E c \in e.contributors : c.id = o.id
      BY <3>1
    <3>5. \A o \in obs : (\E c \in e.contributors : c.id = o.id) => o \in selected
      BY <3>1, <3>2, <3>3
    <3> QED
      BY <2>2, <3>4, <3>5
  <2>9. PICK o \in selected : o.age = youngest
    BY <2>6
  <2>10. \A p \in obs : first.d <= p.d
    <3> SUFFICES ASSUME NEW p \in obs PROVE first.d <= p.d
      OBVIOUS
    <3>1. p.d \in Nat /\ first.d \in Nat /\ first.d <= RMax /\ RMax \in Nat
      BY <2>4, EstimateAssumption DEF Observed
    <3>2. p.d > RMax \/ p = first \/ Closer(first, p)
      BY <2>2, <2>3, Zenon
    <3> HIDE DEF first
    <3> QED
      BY <3>1, <3>2 DEF Closer
  <2> HIDE DEF first, youngest, few, confidence, e, row, ages
  <2>11. /\ Decay[Max({0, youngest})] \in Nat /\ Decay[Max({0, first.age})] \in Nat
         /\ Decay[Max({0, youngest})] >= Decay[Max({0, first.age})]
    BY <2>4, <2>6, DecayFalls
  <2>12. RMax - first.d \in Nat
    BY <2>4, EstimateAssumption
  <2>13. /\ confidence >= (RMax - first.d) * Decay[Max({0, first.age})]
         /\ (RMax - first.d) * Decay[Max({0, first.age})] \in Nat /\ confidence \in Nat
    BY <2>7, <2>11, <2>12, ProductsKeepOrder DEF confidence
  <2>14. row.estimate = e /\ row.estimate.confidence = confidence /\ row.estimate.distance = first.d
    BY <1>1, <2>1, Zenon DEF e, row
  <2>15. left(row.observed) <= e.confidence
    BY <2>5, <2>13, <2>14
  <2>16. e.confidence <= left(o.age) * Min({2, Cardinality(counted)})
    <3>1. left(o.age) * Min({2, Cardinality(counted)}) = confidence
      BY <2>1, <2>8, <2>9, Zenon DEF confidence, few
    <3> QED
      BY <2>1, <2>13, <3>1
  <2>17. \A p \in obs : e.distance <= p.d
    BY <2>1, <2>10
  <2> HIDE DEF counted, left
  <2>18. \E p \in counted : e.confidence <= left(p.age) * Min({2, Cardinality(counted)})
    BY <2>8, <2>9, <2>16
  <2> QED
    BY <2>14, <2>15, <2>17, <2>18, Zenon DEF ConfidenceIsOfNeighbours, row, e, counted, left
<1> QED
  BY <1>2, <1>3

\* Every score fits cafe_scores: what a covered cafe has is there and in its
\* range, and a cafe without evidence has none of it (materialize_all, models.py).
THEOREM ScoresFitTheTable ==
    ASSUME NoneIsApart, NEW obs, Levelled(obs)
    PROVE  FitsCafeScores(obs)
<1> DEFINE S == Selected(obs)
           e == EstimateFrom(S, FALSE)
           row == ScoreRow(obs)
<1>1. Observed(obs)
  BY DEF Levelled
<1>2. S \subseteq obs /\ \A o \in S : o.d <= RMax
  BY <1>1, NearestAreNearer
<1>3. /\ row.estimate = e
      /\ row.observed = IF e.primary = None THEN None ELSE (CHOOSE o \in obs : o.id = e.primary).age
  BY Zenon DEF ScoreRow, ScoreCafe
<1>4. FitsCafeScores(obs) <=>
         /\ (e.coverage = "uncovered") <=> row.observed = None
         /\ \A field \in {"level", "confidence", "tier", "primary", "distance", "contributors"} :
               e[field] = None <=> e.coverage = "uncovered"
         /\ e.level # None => e.level \in 1..4 /\ e.confidence \in 0..ConfidenceUnit
  BY <1>3, Zenon DEF FitsCafeScores
<1>5. CASE S = {}
  <2> HIDE DEF S
  <2>1. e = Uncovered
    BY <1>5, Zenon DEF EstimateFrom
  <2>2. row.observed = None
    <3>1. Uncovered.primary = None
      BY DEF Uncovered
    <3> HIDE DEF e, row
    <3> QED
      BY <1>3, <2>1, <3>1
  <2> HIDE DEF e, row
  <2> QED
    BY <1>4, <2>1, <2>2 DEF Uncovered
<1>6. CASE S # {}
  <2> HIDE DEF S
  <2> DEFINE levels == {o.level : o \in S}
  <2>1. /\ e.coverage \in {"covered", "fringe"}
        /\ Min(levels) \in 1..4 /\ Max(levels) \in 1..4
        /\ e.level \in Min(levels)..Max(levels)
        /\ e.confidence \in 0..ConfidenceUnit
        /\ e.tier \in {"low", "mid", "high"}
        /\ Primary(S) \in S /\ e.primary = Primary(S).id /\ e.distance = Primary(S).d
        /\ e.contributors = {[id |-> o.id, d |-> o.d, weight |-> Weight(o, S)] : o \in S}
        /\ \A o \in S : Weight(o, S) \in Nat \ {0}
    <3>1. IsEstimate(e, S)
      BY <1>2, <1>6, EstimateIs
    <3> HIDE DEF e
    <3> QED
      BY <3>1 DEF IsEstimate
  <2> DEFINE low == Min(levels)
             high == Max(levels)
  <2> HIDE DEF e, row, low, high
  <2>2. e.level \in 1..4
    <3>1. low \in 1..4 /\ high \in 1..4 /\ e.level \in low..high
      BY <2>1 DEF low, high
    <3> QED
      BY <3>1
  <2>3. Primary(S) \in obs /\ Primary(S).id \in Nat /\ Primary(S).d \in Nat
    BY <1>1, <1>2, <2>1 DEF Observed
  <2>4. ConfidenceUnit \in Int
    BY EstimateAssumption DEF ConfidenceUnit
  <2>5. e.contributors \in SUBSET [id : Nat, d : Nat, weight : Nat]
    BY <1>1, <1>2, <2>1 DEF Observed
  <2>6. /\ e.level # None /\ e.confidence # None /\ e.primary # None /\ e.distance # None
        /\ e.tier # None /\ e.contributors # None /\ e.coverage # "uncovered"
    <3>1. e.level # None /\ e.primary # None /\ e.distance # None /\ e.confidence # None
      BY <2>1, <2>2, <2>3, <2>4, OutcomesAssumption
    <3>2. e.tier # None
      BY <2>1, NoneIsApart DEF NoneIsApart
    <3>3. e.contributors # None
      BY <2>5, NoneIsApart DEF NoneIsApart
    <3> QED
      BY <2>1, <3>1, <3>2, <3>3
  <2>7. row.observed # None
    <3>1. \A o \in obs : o.id = Primary(S).id => o = Primary(S)
      BY <1>1, <2>3 DEF Observed
    <3>2. (CHOOSE o \in obs : o.id = e.primary) = Primary(S)
      BY <2>1, <2>3, <3>1, Zenon
    <3>3. Primary(S).age \in Int
      BY <1>1, <2>3, EstimateAssumption DEF Observed
    <3> QED
      BY <1>3, <2>6, <3>2, <3>3, OutcomesAssumption
  <2> QED
    BY <1>4, <2>1, <2>2, <2>6, <2>7
<1> QED
  BY <1>5, <1>6

-----------------------------------------------------------------------------
(* Polygons. *)

\* What a cafe sees of hotspots as points and as polygons.
Outlined(obs) ==
    /\ IsFiniteSet(obs)
    /\ \A o \in obs : /\ {"id", "code", "d", "boundary", "inside", "level", "age"} \subseteq DOMAIN o
                      /\ o.id \in Nat /\ o.d \in Nat /\ o.boundary \in Nat /\ o.inside \in BOOLEAN
                      /\ o.level \in 1..4 /\ o.age \in Ages
    /\ ~Repeated(obs)

\* Polygons are the same hotspots at other distances.
LEMMA PolygonsAreOutlined ==
    ASSUME NEW obs, Outlined(obs)
    PROVE  /\ Levelled(AsPolygons(obs)) /\ ~Repeated(AsPolygons(obs))
           /\ \A s \in AsPolygons(obs) : s.inside \in BOOLEAN /\ (s.inside => s.d = 0)
           /\ Levelled(obs)
<1> DEFINE as == [o \in obs |-> [o EXCEPT !.d = IF o.inside THEN 0 ELSE o.boundary]]
<1>1. AsPolygons(obs) = {as[o] : o \in obs}
  BY DEF AsPolygons
<1>2. \A o \in obs : /\ as[o].id = o.id /\ as[o].code = o.code /\ as[o].inside = o.inside
                     /\ as[o].level = o.level /\ as[o].age = o.age
                     /\ as[o].d = IF o.inside THEN 0 ELSE o.boundary
  BY DEF Outlined
<1> HIDE DEF as
<1>3. IsFiniteSet(AsPolygons(obs))
  <2>1. IsFiniteSet({as[o] : o \in obs})
    BY ImagesAreFinite DEF Outlined
  <2> QED
    BY <1>1, <2>1
<1>0. \A s \in AsPolygons(obs) : \E o \in obs : s = as[o]
  BY <1>1
<1>4. \A o, p \in obs : o # p => o.id # p.id /\ o.code # p.code
  BY DEF Outlined, Repeated
<1>5. \A s, t \in AsPolygons(obs) : s # t => s.id # t.id /\ s.code # t.code
  <2>1. ASSUME NEW s \in AsPolygons(obs), NEW t \in AsPolygons(obs), s # t
        PROVE  s.id # t.id /\ s.code # t.code
    <3>1. PICK o \in obs : s = as[o]
      BY <1>0
    <3>2. PICK p \in obs : t = as[p]
      BY <1>0
    <3>3. o # p
      BY <2>1, <3>1, <3>2
    <3>4. s.id = o.id /\ s.code = o.code /\ t.id = p.id /\ t.code = p.code
      BY <1>2, <3>1, <3>2
    <3> QED
      BY <1>4, <3>3, <3>4
  <2> QED
    BY <2>1
<1>6. \A s \in AsPolygons(obs) :
          /\ s.inside \in BOOLEAN /\ (s.inside => s.d = 0)
          /\ s.id \in Nat /\ s.d \in Nat /\ s.age \in Ages /\ s.level \in 1..4
  <2>1. ASSUME NEW s \in AsPolygons(obs)
        PROVE  /\ s.inside \in BOOLEAN /\ (s.inside => s.d = 0)
               /\ s.id \in Nat /\ s.d \in Nat /\ s.age \in Ages /\ s.level \in 1..4
    <3>1. PICK o \in obs : s = as[o]
      BY <1>0
    <3>2. /\ o.id \in Nat /\ o.boundary \in Nat /\ o.inside \in BOOLEAN
          /\ o.level \in 1..4 /\ o.age \in Ages
      BY DEF Outlined
    <3>3. /\ s.id = o.id /\ s.inside = o.inside /\ s.level = o.level /\ s.age = o.age
          /\ s.d = IF o.inside THEN 0 ELSE o.boundary
      BY <1>2, <3>1
    <3> QED
      BY <3>2, <3>3
  <2> QED
    BY <2>1
<1> QED
  BY <1>3, <1>4, <1>5, <1>6 DEF Levelled, Observed, Repeated, Outlined

\* The polygon model moves hotspots and changes nothing else: outside of all
\* polygons it is the engine, and inside every one of them has the same say
\* (score_cafe_polygon_shadow, score_cafe_density_shadow).
THEOREM PolygonModelsOnlyMove ==
    ASSUME NEW obs, Outlined(obs)
    PROVE  PolygonsOnlyMove(obs)
<1> DEFINE shape == AsPolygons(obs)
           within == {o \in shape : o.inside}
           S == PolygonSelected(shape)
           in == \E o \in shape : o.inside
           p == PolygonScore(shape)
           d == DensityScore(shape)
<1>1. /\ Levelled(shape) /\ ~Repeated(shape) /\ Observed(shape) /\ IsFiniteSet(shape)
      /\ \A s \in shape : s.inside \in BOOLEAN /\ (s.inside => s.d = 0)
  BY PolygonsAreOutlined DEF Levelled, Observed
<1> HIDE DEF shape
<1>2. p = EstimateFrom(S, in)
  BY <1>1 DEF PolygonScore
<1>3. S = IF within # {} THEN within ELSE Selected(shape)
  BY DEF PolygonSelected
<1>4. /\ Selected(shape) \subseteq shape /\ \A o \in Selected(shape) : o.d <= RMax
  BY <1>1, NearestAreNearer
<1>5. S \subseteq shape /\ \A o \in S : o.d <= RMax
  <2>1. \A o \in within : o.d <= RMax
    BY <1>1, EstimateAssumption
  <2> QED
    BY <1>3, <1>4, <2>1
<1>6. ASSUME S # {}
      PROVE  IsEstimate(p, S) /\ (in => p.coverage = "covered")
  <2> HIDE DEF S
  <2> QED
    BY <1>1, <1>2, <1>5, <1>6, EstimateIs
<1>7. (\A o \in shape : ~o.inside) => p = ScoreCafe(shape)
  <2> SUFFICES ASSUME \A o \in shape : ~o.inside PROVE p = ScoreCafe(shape)
    OBVIOUS
  <2>1. S = Selected(shape) /\ in = FALSE
    BY <1>3
  <2> HIDE DEF S, in, p
  <2> QED
    BY <1>2, <2>1 DEF ScoreCafe
<1>8. ASSUME in
      PROVE  /\ {c.id : c \in p.contributors} = {o.id : o \in within}
             /\ \A a, b \in p.contributors : a.weight = b.weight
             /\ p.coverage = "covered" /\ p.distance = 0
  <2>1. S = within /\ S # {}
    BY <1>3, <1>8
  <2>2. IsEstimate(p, S) /\ p.coverage = "covered"
    BY <1>6, <1>8, <2>1
  <2>3. /\ Primary(S) \in S /\ p.distance = Primary(S).d
        /\ p.contributors = {[id |-> o.id, d |-> o.d, weight |-> Weight(o, S)] : o \in S}
    BY <2>2 DEF IsEstimate
  <2>4. \A o \in S : o.d = 0
    BY <1>1, <2>1
  <2>5. IsFiniteSet(S)
    BY <1>1, <1>5, FS_Subset
  <2> HIDE DEF p, S
  <2>6. \A o, q \in S : Weight(o, S) = Weight(q, S)
    BY <2>4, <2>5, WeightsOfOneDistance
  <2>7. \A o \in S : /\ [id |-> o.id, d |-> o.d, weight |-> Weight(o, S)].id = o.id
                     /\ [id |-> o.id, d |-> o.d, weight |-> Weight(o, S)].weight = Weight(o, S)
    OBVIOUS
  <2>8. {c.id : c \in p.contributors} = {o.id : o \in S}
    <3>1. \A c \in p.contributors : \E o \in S : c.id = o.id
      <4>1. \A c \in p.contributors : \E o \in S : c = [id |-> o.id, d |-> o.d, weight |-> Weight(o, S)]
        BY <2>3, Zenon
      <4> QED
        BY <2>7, <4>1, Zenon
    <3>2. \A o \in S : \E c \in p.contributors : c.id = o.id
      BY <2>3, <2>7, Zenon
    <3> QED
      BY <3>1, <3>2
  <2>9. \A a, b \in p.contributors : a.weight = b.weight
    BY <2>3, <2>6, <2>7
  <2> QED
    BY <2>1, <2>2, <2>3, <2>4, <2>8, <2>9
<1>9. p.level # None => p.level \in 1..4 /\ p.confidence \in 0..ConfidenceUnit
  <2>1. CASE S = {}
    <3>1. p = Uncovered
      BY <1>2, <2>1, Zenon DEF EstimateFrom
    <3>2. Uncovered.level = None
      BY DEF Uncovered
    <3> HIDE DEF p
    <3> QED
      BY <3>1, <3>2
  <2>2. CASE S # {}
    <3>1. IsEstimate(p, S)
      BY <1>6, <2>2
    <3> HIDE DEF p, S
    <3> DEFINE low == Min({o.level : o \in S})
               high == Max({o.level : o \in S})
    <3>2. low \in 1..4 /\ high \in 1..4 /\ p.level \in low..high /\ p.confidence \in 0..ConfidenceUnit
      BY <3>1 DEF IsEstimate
    <3> HIDE DEF low, high
    <3> QED
      BY <3>2
  <2> QED
    BY <2>1, <2>2
<1>10. ASSUME d # Refused, Measured(shape) = shape
       PROVE  /\ <<d.coverage, d.confidence, d.contributors>> = <<p.coverage, p.confidence, p.contributors>>
              /\ d.excluded = 0
  <2> DEFINE num == IF PolygonSelected(Measured(shape)) = {} THEN None
                    ELSE Total(LAMBDA o : Weight(o, PolygonSelected(Measured(shape))) * LogOf[Density(o)],
                               PolygonSelected(Measured(shape)))
  <2>1. d = [coverage |-> p.coverage, confidence |-> p.confidence, contributors |-> p.contributors,
             excluded |-> Cardinality(shape) - Cardinality(shape), num |-> num, den |-> p.den]
    BY <1>10, Zenon DEF DensityScore
  <2>2. Cardinality(shape) - Cardinality(shape) = 0
    <3>1. Cardinality(shape) \in Nat
      BY <1>1, FS_CardinalityType
    <3> QED
      BY <3>1
  <2> HIDE DEF d, p, num
  <2> QED
    BY <2>1, <2>2
<1> HIDE DEF p, d
<1> QED
  BY <1>7, <1>8, <1>9, <1>10 DEF PolygonsOnlyMove, p, d, shape

-----------------------------------------------------------------------------
(* Ranks. *)

\* R orders the elements of S: strictly, totally and transitively.
Orders(R, S) ==
    /\ \A c \in S : <<c, c>> \notin R
    /\ \A c, d \in S : c # d => <<c, d>> \in R \/ <<d, c>> \in R
    /\ \A c, d, e \in S : <<c, d>> \in R /\ <<d, e>> \in R => <<c, e>> \in R

\* How many of S come before c.
Preceding(R, S, c) == Cardinality({d \in S : <<d, c>> \in R})

\* The ranks of a finite ordered set are the numbers below its size, in order.
LEMMA RanksAreNumbers ==
    ASSUME NEW S, IsFiniteSet(S), NEW R, Orders(R, S)
    PROVE  /\ \A c \in S : Preceding(R, S, c) \in 0..(Cardinality(S) - 1)
           /\ \A c, d \in S : <<c, d>> \in R <=> Preceding(R, S, c) < Preceding(R, S, d)
           /\ \A c, d \in S : Preceding(R, S, c) = Preceding(R, S, d) => c = d
           /\ \A k \in 0..(Cardinality(S) - 1) : \E c \in S : Preceding(R, S, c) = k
<1> DEFINE below(c) == {d \in S : <<d, c>> \in R}
           n == Cardinality(S)
           rank == [c \in S |-> Preceding(R, S, c)]
<1>1. n \in Nat
  BY FS_CardinalityType
<1>2. \A c : below(c) \in SUBSET S /\ IsFiniteSet(below(c)) /\ Preceding(R, S, c) = Cardinality(below(c))
             /\ Cardinality(below(c)) \in Nat
  <2>1. \A c : below(c) \in SUBSET S /\ Preceding(R, S, c) = Cardinality(below(c))
    BY DEF Preceding
  <2>2. \A A \in SUBSET S : IsFiniteSet(A) /\ Cardinality(A) \in Nat
    <3>1. \A A \in SUBSET S : IsFiniteSet(A)
      BY FS_Subset
    <3> QED
      BY <3>1, FS_CardinalityType
  <2> HIDE DEF below
  <2> QED
    BY <2>1, <2>2
<1>3. ASSUME NEW c \in S PROVE Preceding(R, S, c) \in 0..(n - 1)
  <2>1. below(c) \in SUBSET (S \ {c})
    BY DEF Orders
  <2>2. IsFiniteSet(S \ {c}) /\ Cardinality(S \ {c}) = n - 1
    BY FS_RemoveElement
  <2> HIDE DEF below, n
  <2>3. Cardinality(below(c)) <= n - 1
    <3> DEFINE others == S \ {c}
    <3> HIDE DEF others
    <3> QED
      BY <2>1, <2>2, FS_Subset DEF others
  <2> QED
    BY <1>1, <1>2, <2>3
<1>4. ASSUME NEW c \in S, NEW d \in S, <<c, d>> \in R
      PROVE  Preceding(R, S, c) < Preceding(R, S, d)
  <2>1. below(c) \cup {c} \in SUBSET below(d) /\ c \notin below(c)
    BY <1>4 DEF Orders
  <2>2. Cardinality(below(c) \cup {c}) = Cardinality(below(c)) + 1
    BY <1>2, <2>1, FS_AddElement
  <2>3. Cardinality(below(c) \cup {c}) <= Cardinality(below(d))
    BY <1>2, <2>1, FS_Subset
  <2> HIDE DEF below
  <2> QED
    BY <1>2, <2>2, <2>3
<1> HIDE DEF n
<1>5. \A c, d \in S : Preceding(R, S, c) \in Int /\ Preceding(R, S, d) \in Int
  BY <1>1, <1>3
<1>6. \A c, d \in S : <<c, d>> \in R <=> Preceding(R, S, c) < Preceding(R, S, d)
  <2> SUFFICES ASSUME NEW c \in S, NEW d \in S, Preceding(R, S, c) < Preceding(R, S, d)
               PROVE  <<c, d>> \in R
    BY <1>4
  <2>1. c # d /\ ~(Preceding(R, S, d) < Preceding(R, S, c))
    BY <1>5
  <2> QED
    BY <1>4, <2>1 DEF Orders
<1>7. \A c, d \in S : Preceding(R, S, c) = Preceding(R, S, d) => c = d
  <2> SUFFICES ASSUME NEW c \in S, NEW d \in S, Preceding(R, S, c) = Preceding(R, S, d), c # d
               PROVE  FALSE
    OBVIOUS
  <2>1. Preceding(R, S, c) < Preceding(R, S, d) \/ Preceding(R, S, d) < Preceding(R, S, c)
    BY <1>4 DEF Orders
  <2> QED
    BY <1>5, <2>1
<1>8. \A k \in 0..(n - 1) : \E c \in S : Preceding(R, S, c) = k
  <2>1. rank \in [S -> 0..(n - 1)] /\ \A c \in S : rank[c] = Preceding(R, S, c)
    BY <1>3
  <2> HIDE DEF rank
  <2>2. rank \in Injection(S, 0..(n - 1))
    BY <1>7, <2>1, Fun_IsInj
  <2>3. IsFiniteSet(0..(n - 1)) /\ Cardinality(0..(n - 1)) = n
    <3>1. 0 \in Int /\ n - 1 \in Int
      BY <1>1
    <3>2. /\ IsFiniteSet(0..(n - 1))
          /\ Cardinality(0..(n - 1)) = IF 0 > n - 1 THEN 0 ELSE (n - 1) - 0 + 1
      BY <3>1, FS_Interval
    <3> QED
      BY <1>1, <3>2
  <2>4. rank \in Surjection(S, 0..(n - 1))
    BY <2>2, <2>3, FS_Injection DEF n
  <2>5. \A k \in 0..(n - 1) : \E c \in S : rank[c] = k
    BY <2>4, Fun_SurjectionProperties
  <2> QED
    BY <2>1, <2>5
<1> QED
  BY <1>3, <1>6, <1>7, <1>8 DEF n

\* The first k of a finite ordered set are k, or all of it.
LEMMA FirstAreAsMany ==
    ASSUME NEW S, IsFiniteSet(S), NEW R, Orders(R, S), NEW k \in Nat
    PROVE  Cardinality({c \in S : Preceding(R, S, c) < k}) = Min({k, Cardinality(S)})
<1> DEFINE n == Cardinality(S)
           m == Min({k, n})
           A == {c \in S : Preceding(R, S, c) < k}
           rank == [c \in A |-> Preceding(R, S, c)]
<1>1. n \in Nat
  BY FS_CardinalityType
<1>2. /\ \A c \in S : Preceding(R, S, c) \in 0..(n - 1)
      /\ \A c, d \in S : Preceding(R, S, c) = Preceding(R, S, d) => c = d
      /\ \A i \in 0..(n - 1) : \E c \in S : Preceding(R, S, c) = i
  BY RanksAreNumbers
<1> HIDE DEF n
<1>3. m = IF k <= n THEN k ELSE n
  BY <1>1, MaxOfTwo
<1> HIDE DEF m
<1>4. rank \in [A -> 0..(m - 1)]
  <2>1. ASSUME NEW c \in A PROVE Preceding(R, S, c) \in 0..(m - 1)
    <3>1. Preceding(R, S, c) \in 0..(n - 1) /\ Preceding(R, S, c) < k
      BY <1>2
    <3> QED
      BY <1>1, <1>3, <3>1
  <2> QED
    BY <2>1
<1>5. \A c, d \in A : rank[c] = rank[d] => c = d
  BY <1>2
<1>6. \A i \in 0..(m - 1) : \E c \in A : rank[c] = i
  <2> SUFFICES ASSUME NEW i \in 0..(m - 1) PROVE \E c \in A : rank[c] = i
    OBVIOUS
  <2>1. i \in 0..(n - 1) /\ i < k
    BY <1>1, <1>3
  <2>2. PICK c \in S : Preceding(R, S, c) = i
    BY <1>2, <2>1
  <2>3. c \in A
    BY <2>1, <2>2
  <2> QED
    BY <2>2, <2>3
<1> HIDE DEF rank, A
<1>7. rank \in Bijection(A, 0..(m - 1))
  BY <1>4, <1>5, <1>6, Fun_IsBij
<1>8. IsFiniteSet(0..(m - 1)) /\ Cardinality(0..(m - 1)) = m
  <2>1. 0 \in Int /\ m - 1 \in Int /\ m \in Nat
    BY <1>1, <1>3
  <2>2. /\ IsFiniteSet(0..(m - 1))
        /\ Cardinality(0..(m - 1)) = IF 0 > m - 1 THEN 0 ELSE (m - 1) - 0 + 1
    BY <2>1, FS_Interval
  <2> QED
    BY <2>1, <2>2
<1>9. Cardinality(A) = Cardinality(0..(m - 1))
  <2>1. IsFiniteSet(A)
    BY FS_Subset DEF A
  <2>2. ExistsBijection(A, 0..(m - 1))
    BY <1>7 DEF ExistsBijection
  <2> QED
    BY <2>1, <2>2, FS_Bijection
<1> QED
  BY <1>8, <1>9 DEF A, m, n

-----------------------------------------------------------------------------
(* The reports of structure and density. *)

Coverages == {"covered", "fringe", "uncovered"}

\* A score is a fraction and a level where, and only where, the cafe is covered.
Scored(e) ==
    /\ e.coverage \in Coverages
    /\ e.level # None <=> e.coverage # "uncovered"
    /\ e.level # None => e.num \in Int /\ e.den \in Nat \ {0}

\* An estimate is uncovered exactly when there is no evidence in range.
LEMMA EstimatesAreScored ==
    ASSUME NEW obs, Levelled(obs), NEW S, S \subseteq obs, \A o \in S : o.d <= RMax, NEW inside
    PROVE  /\ Scored(EstimateFrom(S, inside))
           /\ EstimateFrom(S, inside).coverage = "uncovered" <=> S = {}
<1> DEFINE e == EstimateFrom(S, inside)
<1>1. CASE S = {}
  <2>1. e = Uncovered
    BY <1>1, Zenon DEF EstimateFrom
  <2>2. Uncovered.level = None /\ Uncovered.coverage = "uncovered"
    BY DEF Uncovered
  <2> HIDE DEF e
  <2>3. Scored(e) /\ e.coverage = "uncovered"
    BY <2>1, <2>2 DEF Scored, Coverages
  <2> QED
    BY <1>1, <2>3 DEF e
<1>2. CASE S # {}
  <2>1. IsEstimate(e, S)
    BY <1>2, EstimateIs
  <2> DEFINE low == Min({o.level : o \in S})
             high == Max({o.level : o \in S})
  <2> HIDE DEF e
  <2>2. /\ low \in 1..4 /\ high \in 1..4 /\ e.level \in low..high
        /\ e.num \in Int /\ e.den \in Nat \ {0} /\ e.coverage \in {"covered", "fringe"}
    BY <2>1 DEF IsEstimate
  <2> HIDE DEF low, high
  <2>3. e.level # None
    BY <2>2, OutcomesAssumption
  <2>4. Scored(e) /\ e.coverage # "uncovered"
    BY <2>2, <2>3 DEF Scored, Coverages
  <2> QED
    BY <1>2, <2>4 DEF e
<1> QED
  BY <1>1, <1>2

\* What a difference in the order of the audit is.
LEMMA DifferencesAreNumbers ==
    ASSUME NEW a \in Int, NEW b \in Int, NEW c \in Nat \ {0}, NEW d \in Nat \ {0}
    PROVE  (1000 * (IF a * d < b * c THEN b * c - a * d ELSE a * d - b * c)) \div (c * d) \in Int
<1>1. a * d \in Int /\ b * c \in Int /\ c * d \in Nat \ {0}
  <2>1. c * d \in Nat \ {0}
    <3>1. c * 1 <= c * d /\ c * d \in Int /\ c * 1 = c
      BY ProductsGrow
    <3> QED
      BY <3>1
  <2> QED
    BY <2>1
<1> DEFINE x == a * d
           y == b * c
           z == c * d
           n == 1000 * (IF x < y THEN y - x ELSE x - y)
<1> HIDE DEF x, y, z
<1>2. n \in Int /\ z \in Nat \ {0}
  BY <1>1 DEF x, y, z
<1> HIDE DEF n
<1>3. n \div z \in Int
  BY <1>2, Quotient
<1> QED
  BY <1>3 DEF n, x, y, z

\* A report of structure counts every cafe once, and audits the largest differences.
LEMMA StructuresAreWhole ==
    ASSUME NEW obs, IsFiniteSet(DOMAIN obs), DOMAIN obs \subseteq Int, NEW base, NEW chall,
           \A c \in DOMAIN obs : Scored(base[c]) /\ Scored(chall[c])
    PROVE  StructureIsWhole(Structure(obs, base, chall), Cardinality(DOMAIN obs))
<1> DEFINE D == DOMAIN obs
           r == Structure(obs, base, chall)
           K == Coverages \X Coverages
           paired == {c \in D : base[c].level # None /\ chall[c].level # None}
           kind == [c \in D |-> <<base[c].coverage, chall[c].coverage>>]
           one == [c \in D |-> 1]
           count == [k \in K |-> Cardinality({c \in D : <<base[c].coverage, chall[c].coverage>> = k})]
           delta(c) == LET a == base[c].num * chall[c].den
                           b == chall[c].num * base[c].den
                       IN  (1000 * (IF a < b THEN b - a ELSE a - b)) \div (base[c].den * chall[c].den)
           before(c, d) == delta(c) > delta(d) \/ (delta(c) = delta(d) /\ c < d)
           audit == {c \in paired : Cardinality({d \in paired : before(d, c)}) < AuditLimit}
           seen == {k \in K : "uncovered" \notin Range(k)}
<1>1. /\ r.transitions = count
      /\ r.paired = Cardinality(paired)
      /\ r.changedLevels = Cardinality({c \in paired : base[c].level # chall[c].level})
      /\ r.audit = audit
  BY DEF Structure, Coverages
<1>2. /\ DOMAIN r.transitions = K
      /\ StructureIsWhole(r, Cardinality(D)) <=>
            /\ SumFunctionOnSet(count, K) = Cardinality(D)
            /\ Cardinality(paired) = SumFunctionOnSet([k \in seen |-> count[k]], seen)
            /\ Cardinality(audit) = Min({AuditLimit, Cardinality(paired)})
            /\ Cardinality({c \in paired : base[c].level # chall[c].level}) <= Cardinality(paired)
  <2>1. DOMAIN r.transitions = K
    BY <1>1
  <2> HIDE DEF r, audit, paired
  <2>2. /\ [k \in K |-> count[k]] = count
        /\ Total(LAMBDA k : count[k], K) = SumFunctionOnSet([k \in K |-> count[k]], K)
        /\ Total(LAMBDA k : count[k], seen) = SumFunctionOnSet([k \in seen |-> count[k]], seen)
    BY DEF Total, SumFunction
  <2> HIDE DEF count, seen
  <2> QED
    BY <1>1, <2>1, <2>2 DEF StructureIsWhole, seen
<1>3. IsFiniteSet(D) /\ IsFiniteSet(K) /\ IsFiniteSet(paired) /\ IsFiniteSet(seen)
  <2>1. IsFiniteSet(Coverages)
    <3>1. Coverages = {"covered"} \cup {"fringe"} \cup {"uncovered"}
      BY DEF Coverages
    <3> QED
      BY <3>1, FS_Singleton, FS_Union
  <2>2. IsFiniteSet(K)
    BY <2>1, FS_Product
  <2>3. paired \in SUBSET D /\ seen \in SUBSET K
    OBVIOUS
  <2> QED
    BY <2>2, <2>3, FS_Subset
<1>4. \A c \in D : kind[c] \in K /\ one[c] = 1
  BY DEF Scored
<1>5. \A s \in SUBSET D : Cardinality(s) = SumFunctionOnSet(one, s)
  <2> SUFFICES ASSUME NEW s \in SUBSET D PROVE Cardinality(s) = SumFunctionOnSet(one, s)
    OBVIOUS
  <2>1. IsFiniteSet(s) /\ \A c \in s : one[c] = 1
    BY <1>3, FS_Subset
  <2> HIDE DEF one
  <2> QED
    BY <2>1, SumOfOnes
<1>6. SumFunctionOnSet(count, K) = Cardinality(D)
  <2>1. \A k \in K : count[k] = SumFunctionOnSet(one, {c \in D : kind[c] = k})
    <3>1. \A k \in K : /\ {c \in D : kind[c] = k} \in SUBSET D
                       /\ count[k] = Cardinality({c \in D : kind[c] = k})
      OBVIOUS
    <3> HIDE DEF one, count, kind, K
    <3> QED
      BY <1>5, <3>1
  <2>2. SumFunctionOnSet(count, K) = SumFunctionOnSet(one, D)
    <3>1. \A c \in D : one[c] \in Int /\ kind[c] \in K
      BY <1>4
    <3>2. SumsKinds(count, one, kind, D, K)
      BY <2>1 DEF SumsKinds
    <3> HIDE DEF one, count, kind, K, D
    <3> QED
      BY <1>3, <3>1, <3>2, SumOfKinds
  <2> QED
    BY <1>5, <2>2
<1>7. Cardinality(paired) = SumFunctionOnSet([k \in seen |-> count[k]], seen)
  <2> DEFINE part == [k \in seen |-> count[k]]
  <2>1. \A c \in D : kind[c] \in seen <=> c \in paired
    <3>1. \A c \in D : Range(kind[c]) = {base[c].coverage, chall[c].coverage}
      BY DEF Range
    <3> QED
      BY <1>4, <3>1 DEF Scored
  <2>2. \A k \in seen : part[k] = SumFunctionOnSet(one, {c \in paired : kind[c] = k})
    <3>1. \A k \in seen : part[k] = Cardinality({c \in D : kind[c] = k})
      OBVIOUS
    <3>2. \A k \in seen : {c \in D : kind[c] = k} = {c \in paired : kind[c] = k}
      <4> HIDE DEF kind, seen
      <4> QED
        BY <2>1
    <3>3. \A k : {c \in paired : kind[c] = k} \in SUBSET D
      OBVIOUS
    <3> HIDE DEF part, one, kind, seen, paired, D
    <3> QED
      BY <1>5, <3>1, <3>2, <3>3
  <2>3. SumFunctionOnSet(part, seen) = SumFunctionOnSet(one, paired)
    <3>1. \A c \in paired : one[c] \in Int /\ kind[c] \in seen
      BY <1>4, <2>1
    <3>2. SumsKinds(part, one, kind, paired, seen)
      BY <2>2 DEF SumsKinds
    <3> HIDE DEF one, part, kind, seen, paired
    <3> QED
      BY <1>3, <3>1, <3>2, SumOfKinds
  <2>4. paired \in SUBSET D
    OBVIOUS
  <2> QED
    BY <1>5, <2>3, <2>4
<1>8. Cardinality({c \in paired : base[c].level # chall[c].level}) <= Cardinality(paired)
  <2>1. {c \in paired : base[c].level # chall[c].level} \in SUBSET paired
    OBVIOUS
  <2> QED
    BY <1>3, <2>1, FS_Subset
<1>9. Cardinality(audit) = Min({AuditLimit, Cardinality(paired)})
  <2> DEFINE R == {x \in paired \X paired : before(x[1], x[2])}
  <2>1. \A c \in paired : delta(c) \in Int /\ c \in Int
    <3> SUFFICES ASSUME NEW c \in paired PROVE delta(c) \in Int
      OBVIOUS
    <3>1. /\ base[c].num \in Int /\ base[c].den \in Nat \ {0}
          /\ chall[c].num \in Int /\ chall[c].den \in Nat \ {0}
      BY DEF Scored
    <3> DEFINE a == base[c].num
               ad == base[c].den
               b == chall[c].num
               bd == chall[c].den
    <3>2. a \in Int /\ ad \in Nat \ {0} /\ b \in Int /\ bd \in Nat \ {0}
      BY <3>1
    <3>3. delta(c) = (1000 * (IF a * bd < b * ad THEN b * ad - a * bd ELSE a * bd - b * ad))
                         \div (ad * bd)
      BY Zenon
    <3> HIDE DEF a, ad, b, bd, delta
    <3> QED
      BY <3>2, <3>3, DifferencesAreNumbers
  <2>2. \A c, d \in paired : <<c, d>> \in R <=> before(c, d)
    OBVIOUS
  <2> HIDE DEF delta, R, paired
  <2>3. Orders(R, paired)
    <3>1. \A c \in paired : <<c, c>> \notin R
      BY <2>1, <2>2
    <3>2. \A c, d \in paired : c # d => <<c, d>> \in R \/ <<d, c>> \in R
      BY <2>1, <2>2
    <3>3. \A c, d, e \in paired : <<c, d>> \in R /\ <<d, e>> \in R => <<c, e>> \in R
      BY <2>1, <2>2
    <3> QED
      BY <3>1, <3>2, <3>3 DEF Orders
  <2>4. audit = {c \in paired : Preceding(R, paired, c) < AuditLimit}
    <3>1. \A c \in paired : {d \in paired : before(d, c)} = {d \in paired : <<d, c>> \in R}
      BY <2>2
    <3> QED
      BY <3>1 DEF Preceding
  <2>5. AuditLimit \in Nat
    BY ShadowAssumption
  <2> HIDE DEF audit
  <2> QED
    BY <1>3, <2>3, <2>4, <2>5, FirstAreAsMany
<1> QED
  BY <1>2, <1>6, <1>7, <1>8, <1>9

\* The polygons that count are within the radius.
LEMMA PolygonsAreNear ==
    ASSUME NEW obs, Observed(obs), \A o \in obs : o.inside \in BOOLEAN /\ (o.inside => o.d = 0)
    PROVE  PolygonSelected(obs) \subseteq obs /\ \A o \in PolygonSelected(obs) : o.d <= RMax
<1> DEFINE within == {o \in obs : o.inside}
           S == PolygonSelected(obs)
<1>1. S = IF within # {} THEN within ELSE Selected(obs)
  BY DEF PolygonSelected
<1>2. \A o \in within : o \in obs /\ o.d <= RMax
  BY EstimateAssumption
<1>3. Selected(obs) \subseteq obs /\ \A o \in Selected(obs) : o.d <= RMax
  BY NearestAreNearer
<1> HIDE DEF S, within
<1> QED
  BY <1>1, <1>2, <1>3 DEF S

\* Hotspots whose people, where they are counted, have a density with a logarithm.
Counted(obs) ==
    \A o \in obs : o.people # None =>
        /\ o.people[1] \in Nat /\ o.people[2] \in Nat /\ o.people[1] <= o.people[2]
        /\ o.area \in AreaMin..AreaMax /\ Density(o) \in DOMAIN LogOf

\* A density is scored where a cafe is covered.
LEMMA DensitiesAreScored ==
    ASSUME NEW obs, Levelled(obs), ~Repeated(obs), Counted(obs),
           \A o \in obs : o.inside \in BOOLEAN /\ (o.inside => o.d = 0)
    PROVE  /\ DensityScore(obs).coverage \in Coverages
           /\ DensityScore(obs).num # None <=> DensityScore(obs).coverage # "uncovered"
<1> DEFINE M == Measured(obs)
           S == PolygonSelected(M)
           as == PolygonScore(M)
           num == IF S = {} THEN None ELSE Total(LAMBDA o : Weight(o, S) * LogOf[Density(o)], S)
           d == DensityScore(obs)
<1>1. M \in SUBSET obs /\ \A o \in M : o.people # None
  BY DEF Measured
<1>2. IsFiniteSet(M)
  BY <1>1, FS_Subset DEF Levelled, Observed
<1> HIDE DEF M
<1>3. Levelled(M) /\ Observed(M) /\ ~Repeated(M)
  BY <1>1, <1>2 DEF Levelled, Observed, Repeated
<1>4. S \subseteq M /\ \A o \in S : o.d <= RMax
  BY <1>1, <1>3, PolygonsAreNear
<1>5. as = EstimateFrom(S, \E o \in M : o.inside)
  BY <1>3 DEF PolygonScore
<1>6. Scored(as) /\ (as.coverage = "uncovered" <=> S = {})
  <2> DEFINE in == \E o \in M : o.inside
  <2> HIDE DEF S, in
  <2>1. /\ Scored(EstimateFrom(S, in))
        /\ EstimateFrom(S, in).coverage = "uncovered" <=> S = {}
    BY <1>3, <1>4, EstimatesAreScored
  <2> QED
    BY <1>5, <2>1 DEF in
<1>7. d.coverage = as.coverage /\ d.num = num
  <2>1. \A o \in M : /\ ~(o.people[1] < 0) /\ ~(o.people[1] > o.people[2])
                     /\ o.area \in AreaMin..AreaMax
    <3> SUFFICES ASSUME NEW o \in M
                 PROVE  /\ ~(o.people[1] < 0) /\ ~(o.people[1] > o.people[2])
                        /\ o.area \in AreaMin..AreaMax
      OBVIOUS
    <3>1. /\ o.people[1] \in Nat /\ o.people[2] \in Nat /\ o.people[1] <= o.people[2]
          /\ o.area \in AreaMin..AreaMax
      BY <1>1 DEF Counted
    <3> QED
      BY <3>1
  <2>2. d = [coverage |-> as.coverage, confidence |-> as.confidence,
             contributors |-> as.contributors,
             excluded |-> Cardinality(obs) - Cardinality(M),
             num |-> num, den |-> as.den]
    BY <2>1, Zenon DEF DensityScore, M
  <2> HIDE DEF d, as, num
  <2> QED
    BY <2>2
<1>8. num # None <=> S # {}
  <2> SUFFICES ASSUME S # {} PROVE Total(LAMBDA o : Weight(o, S) * LogOf[Density(o)], S) # None
    OBVIOUS
  <2> DEFINE part == [o \in S |-> Weight(o, S) * LogOf[Density(o)]]
  <2>1. IsFiniteSet(S) /\ \A o \in S : o.d \in Nat
    BY <1>2, <1>3, <1>4, FS_Subset DEF Observed
  <2>2. \A o \in S : part[o] \in Int
    <3> SUFFICES ASSUME NEW o \in S PROVE part[o] \in Int
      OBVIOUS
    <3>1. Weight(o, S) \in Nat \ {0}
      BY <2>1, WeightsArePositive
    <3>2. LogOf[Density(o)] \in Int
      <4>1. Density(o) \in DOMAIN LogOf
        BY <1>1, <1>4 DEF Counted
      <4> QED
        BY <4>1, ShadowAssumption
    <3> QED
      BY <3>1, <3>2
  <2> HIDE DEF part
  <2>3. SumFunctionOnSet(part, S) \in Int
    BY <2>1, <2>2, SumStep
  <2>4. Total(LAMBDA o : Weight(o, S) * LogOf[Density(o)], S) = SumFunctionOnSet(part, S)
    BY DEF Total, SumFunction, part
  <2> QED
    BY <2>3, <2>4, OutcomesAssumption
<1> HIDE DEF d, as, num, S
<1> QED
  BY <1>6, <1>7, <1>8 DEF Scored, d

\* What the reports are made of: what some cafes see, by their number.
Reported(obs) ==
    /\ IsFiniteSet(DOMAIN obs) /\ DOMAIN obs \subseteq Int
    /\ \A c \in DOMAIN obs : /\ Outlined(obs[c]) /\ Counted(obs[c])
                             /\ \A o \in obs[c] : {"people", "area"} \subseteq DOMAIN o

\* No cafe is lost from a report or counted twice in it: the transitions add up
\* to all cafes and those between covered ones to the paired, the audit has the
\* largest differences, as many as it may, and a density is there exactly where
\* a cafe is covered (run_shadow_snapshot, run_density_snapshot).
THEOREM ReportsAreWhole ==
    ASSUME NEW obs, Reported(obs)
    PROVE  ReportIsWhole(obs)
<1> DEFINE D == DOMAIN obs
           shape(c) == AsPolygons(obs[c])
<1>1. \A c \in D : /\ Levelled(shape(c)) /\ ~Repeated(shape(c)) /\ Levelled(obs[c])
                   /\ Observed(shape(c)) /\ Observed(obs[c])
                   /\ \A o \in shape(c) : o.inside \in BOOLEAN /\ (o.inside => o.d = 0)
  BY PolygonsAreOutlined DEF Reported, Levelled
<1>2. \A c \in D : Counted(shape(c))
  <2> SUFFICES ASSUME NEW c \in D, NEW s \in shape(c), s.people # None
               PROVE  /\ s.people[1] \in Nat /\ s.people[2] \in Nat /\ s.people[1] <= s.people[2]
                      /\ s.area \in AreaMin..AreaMax /\ Density(s) \in DOMAIN LogOf
    BY DEF Counted
  <2>1. PICK o \in obs[c] : s = [o EXCEPT !.d = IF o.inside THEN 0 ELSE o.boundary]
    BY DEF AsPolygons
  <2>2. s.people = o.people /\ s.area = o.area
    <3>1. {"people", "area"} \subseteq DOMAIN o
      BY DEF Reported
    <3> QED
      BY <2>1, <3>1
  <2>3. Density(s) = Density(o)
    BY <2>2 DEF Density
  <2>4. o.people # None =>
          /\ o.people[1] \in Nat /\ o.people[2] \in Nat /\ o.people[1] <= o.people[2]
          /\ o.area \in AreaMin..AreaMax /\ Density(o) \in DOMAIN LogOf
    BY DEF Reported, Counted
  <2> QED
    BY <2>2, <2>3, <2>4
<1>3. StructureIsWhole(StructuralReport(obs), Cardinality(D))
  <2> DEFINE base == [c \in D |-> ScoreCafe(obs[c])]
             chall == [c \in D |-> PolygonScore(shape(c))]
  <2>1. ASSUME NEW c \in D PROVE Scored(base[c])
    <3>1. Selected(obs[c]) \subseteq obs[c] /\ \A o \in Selected(obs[c]) : o.d <= RMax
      BY <1>1, NearestAreNearer
    <3>2. Scored(EstimateFrom(Selected(obs[c]), FALSE))
      BY <1>1, <3>1, EstimatesAreScored
    <3> QED
      BY <3>2 DEF ScoreCafe
  <2>2. ASSUME NEW c \in D PROVE Scored(chall[c])
    <3> DEFINE in == \E o \in shape(c) : o.inside
               S == PolygonSelected(shape(c))
    <3>1. PolygonScore(shape(c)) = EstimateFrom(S, in)
      BY <1>1 DEF PolygonScore
    <3>2. S \subseteq shape(c) /\ \A o \in S : o.d <= RMax
      BY <1>1, PolygonsAreNear
    <3> HIDE DEF in, S, shape
    <3>3. Scored(EstimateFrom(S, in))
      BY <1>1, <3>2, EstimatesAreScored
    <3> QED
      BY <3>1, <3>3
  <2> HIDE DEF base, chall
  <2>3. StructureIsWhole(Structure(obs, base, chall), Cardinality(D))
    <3>1. IsFiniteSet(D) /\ D \subseteq Int
      BY DEF Reported
    <3> QED
      BY <2>1, <2>2, <3>1, StructuresAreWhole
  <2>4. StructuralReport(obs) = Structure(obs, base, chall)
    BY DEF StructuralReport, base, chall
  <2> QED
    BY <2>3, <2>4
<1>4. DensityIsWhole(DensityReport([c \in D |-> shape(c)]))
  <2> DEFINE seen == [c \in D |-> shape(c)]
             result == [c \in D |-> DensityScore(shape(c))]
             of(k) == {c \in D : result[c].coverage = k}
             scored == {c \in D : result[c].num # None}
             r == DensityReport(seen)
  <2>1. \A c \in D : result[c].coverage \in Coverages
                     /\ (result[c].num # None <=> result[c].coverage # "uncovered")
    BY <1>1, <1>2, DensitiesAreScored
  <2>2. r.scored = Cardinality(scored) /\ \A k \in Coverages : r.coverage[k] = Cardinality(of(k))
    <3>1. DOMAIN seen = D /\ result = [c \in DOMAIN seen |-> DensityScore(seen[c])]
      OBVIOUS
    <3> HIDE DEF seen, result
    <3>2. r = [coverage |-> [k \in Coverages |-> Cardinality({c \in D : result[c].coverage = k})],
               scored |-> Cardinality({c \in D : result[c].num # None})]
      BY <3>1 DEF DensityReport, Coverages
    <3> HIDE DEF r
    <3> QED
      BY <3>2
  <2> HIDE DEF r, result
  <2>3. of("covered") \cup of("fringe") = scored /\ of("covered") \cap of("fringe") = {}
    BY <2>1 DEF Coverages
  <2>4. /\ IsFiniteSet(of("covered")) /\ IsFiniteSet(of("fringe"))
        /\ Cardinality(of("covered")) \in Nat /\ Cardinality(of("fringe")) \in Nat
    <3>1. \A s \in SUBSET D : IsFiniteSet(s) /\ Cardinality(s) \in Nat
      <4>1. IsFiniteSet(D) /\ \A s \in SUBSET D : IsFiniteSet(s)
        BY FS_Subset DEF Reported
      <4> QED
        BY <4>1, FS_CardinalityType
    <3> QED
      BY <3>1
  <2>5. Cardinality(scored) = Cardinality(of("covered")) + Cardinality(of("fringe"))
    <3> DEFINE a == of("covered")
               b == of("fringe")
    <3>1. IsFiniteSet(a) /\ IsFiniteSet(b) /\ Cardinality(a) \in Nat /\ Cardinality(b) \in Nat
      BY <2>4
    <3>2. scored = a \cup b /\ a \cap b = {}
      BY <2>3
    <3> HIDE DEF of, scored, a, b
    <3>3. Cardinality(a \cup b) = Cardinality(a) + Cardinality(b) - Cardinality(a \cap b)
      BY <3>1, FS_Union
    <3>4. Cardinality(scored) = Cardinality(a \cup b) /\ Cardinality(a \cap b) = 0
      BY <3>2, FS_EmptySet, Zenon
    <3>5. Cardinality(scored) = Cardinality(a) + Cardinality(b)
      BY <3>1, <3>3, <3>4
    <3> QED
      BY <3>5 DEF a, b
  <2> HIDE DEF of, scored
  <2> QED
    BY <2>2, <2>5 DEF DensityIsWhole, Coverages, r
<1> QED
  BY <1>3, <1>4 DEF ReportIsWhole

-----------------------------------------------------------------------------
(* The grid. *)

\* Hotspots and cells as the areas of grids and boundaries are: finite.
Drawn(hotspots, cells) ==
    /\ IsFiniteSet(hotspots) /\ \A h \in hotspots : IsFiniteSet(h.shape)
    /\ IsFiniteSet(cells) /\ \A c \in cells : IsFiniteSet(c.shape)

\* Cells that do not overlap divide what they cover of a hotspot: the areas of
\* its weights add up to that, none is empty and none is more than its cell
\* (generate_hotspot_cell_weights_shadow).
THEOREM WeightsAreDivided ==
    ASSUME NEW hotspots, NEW cells, Drawn(hotspots, cells)
    PROVE  WeightsDivide(hotspots, cells)
<1> DEFINE weights == GridWeights(hotspots, cells)
           weight(h, c) == [code |-> h.code, cell |-> c.id, area |-> Cardinality(h.shape \cap c.shape),
                            of |-> Cardinality(c.shape)]
           of(h) == {w \in weights : w.code = h.code}
           covered(h) == h.shape \cap UNION {c.shape : c \in cells}
<1> SUFFICES ASSUME weights # Refused
             PROVE  /\ \A w \in weights : 0 < w.area /\ w.area <= w.of
                    /\ (\A a, b \in cells : a # b => a.shape \cap b.shape = {}) =>
                           \A h \in hotspots : Total(LAMBDA w : w.area, of(h)) = Cardinality(covered(h))
  BY DEF WeightsDivide
<1>1. /\ \A a, b \in hotspots : a.code = b.code => a = b
      /\ \A a, b \in cells : a.id = b.id => a = b
  BY DEF GridWeights
<1>2. weights = {weight(k[1], k[2]) : k \in {k \in (hotspots \X cells) : k[1].shape \cap k[2].shape # {}}}
  BY DEF GridWeights
<1>3. \A h \in hotspots, c \in cells :
          /\ weight(h, c).code = h.code /\ weight(h, c).cell = c.id
          /\ weight(h, c).area = Cardinality(h.shape \cap c.shape)
          /\ weight(h, c).of = Cardinality(c.shape)
  OBVIOUS
<1>4. \A h \in hotspots, c \in cells : h.shape \cap c.shape # {} => weight(h, c) \in weights
  <2> SUFFICES ASSUME NEW h \in hotspots, NEW c \in cells, h.shape \cap c.shape # {}
               PROVE  weight(h, c) \in weights
    OBVIOUS
  <2> DEFINE k == <<h, c>>
  <2>1. k[1] = h /\ k[2] = c /\ k \in hotspots \X cells
    OBVIOUS
  <2> HIDE DEF k, weight, weights
  <2> QED
    BY <1>2, <2>1
<1>5. \A w \in weights : \E h \in hotspots, c \in cells : h.shape \cap c.shape # {} /\ w = weight(h, c)
  <2> HIDE DEF weights, weight
  <2>1. \A w \in weights : \E k \in hotspots \X cells :
            k[1].shape \cap k[2].shape # {} /\ w = weight(k[1], k[2])
    BY <1>2
  <2>2. \A k \in hotspots \X cells : k[1] \in hotspots /\ k[2] \in cells
    OBVIOUS
  <2> QED
    BY <2>1, <2>2, Zenon
<1> HIDE DEF weights, weight
<1>6. ASSUME NEW w \in weights PROVE 0 < w.area /\ w.area <= w.of
  <2>1. PICK h \in hotspots, c \in cells : h.shape \cap c.shape # {} /\ w = weight(h, c)
    BY <1>5
  <2> DEFINE both == h.shape \cap c.shape
  <2>2. both \in SUBSET c.shape /\ IsFiniteSet(c.shape) /\ both # {}
    BY <2>1 DEF Drawn
  <2>3. w.area = Cardinality(both) /\ w.of = Cardinality(c.shape)
    BY <1>3, <2>1
  <2> HIDE DEF both
  <2>4. IsFiniteSet(both) /\ Cardinality(both) <= Cardinality(c.shape)
    BY <2>2, FS_Subset
  <2>5. Cardinality(both) \in Nat /\ Cardinality(both) # 0
    BY <2>2, <2>4, FS_CardinalityType, FS_EmptySet
  <2> QED
    BY <2>3, <2>4, <2>5
<1>7. ASSUME \A a, b \in cells : a # b => a.shape \cap b.shape = {}, NEW h \in hotspots
      PROVE  Total(LAMBDA w : w.area, of(h)) = Cardinality(covered(h))
  <2> DEFINE C == {c \in cells : h.shape \cap c.shape # {}}
             m == [c \in C |-> weight(h, c)]
             W == of(h)
             T == covered(h)
             f == [c \in C |-> Cardinality(h.shape \cap c.shape)]
             area == [w \in W |-> w.area]
             one == [x \in T |-> 1]
             kind == [x \in T |-> CHOOSE c \in cells : x \in c.shape]
  <2>1. IsFiniteSet(C) /\ IsFiniteSet(T)
    <3>1. C \in SUBSET cells /\ T \in SUBSET h.shape
      OBVIOUS
    <3> QED
      BY <3>1, FS_Subset DEF Drawn
  <2>2. W = {m[c] : c \in C}
    <3>1. ASSUME NEW w \in W PROVE \E c \in C : w = m[c]
      <4>1. PICK g \in hotspots, c \in cells : g.shape \cap c.shape # {} /\ w = weight(g, c)
        BY <1>5
      <4>2. g = h
        <5>1. w.code = h.code
          OBVIOUS
        <5>2. w.code = g.code
          BY <1>3, <4>1
        <5> QED
          BY <1>1, <5>1, <5>2
      <4> QED
        BY <4>1, <4>2
    <3>2. \A c \in C : m[c] \in W
      BY <1>3, <1>4
    <3> HIDE DEF W, m, C
    <3> QED
      BY <3>1, <3>2
  <2>3. \A c, d \in C : m[c] = m[d] => c = d
    <3> SUFFICES ASSUME NEW c \in C, NEW d \in C, m[c] = m[d] PROVE c = d
      OBVIOUS
    <3>1. m[c].cell = c.id /\ m[d].cell = d.id
      BY <1>3
    <3> HIDE DEF m
    <3> QED
      BY <1>1, <3>1
  <2>4. \A c \in C : f[c] \in Int /\ area[m[c]] = f[c]
    <3> SUFFICES ASSUME NEW c \in C PROVE f[c] \in Int /\ area[m[c]] = f[c]
      OBVIOUS
    <3>1. m[c] \in W
      BY <1>3, <1>4
    <3>2. m[c].area = Cardinality(h.shape \cap c.shape) /\ f[c] = Cardinality(h.shape \cap c.shape)
      BY <1>3
    <3>3. Cardinality(h.shape \cap c.shape) \in Nat
      BY FS_Intersection, FS_CardinalityType DEF Drawn
    <3> QED
      BY <3>1, <3>2, <3>3
  <2>5. SumFunctionOnSet(area, W) = SumFunctionOnSet(f, C)
    <3> HIDE DEF area, W, f, C, m
    <3>1. Renames(m, f, area, C)
      BY <2>3, <2>4 DEF Renames
    <3> QED
      BY <2>1, <2>2, <3>1, SumOfImages
  <2>6. \A x \in T : kind[x] \in C /\ x \in kind[x].shape /\ one[x] = 1
    <3> SUFFICES ASSUME NEW x \in T PROVE kind[x] \in C /\ x \in kind[x].shape
      OBVIOUS
    <3>1. \E c \in cells : x \in c.shape
      OBVIOUS
    <3>2. kind[x] \in cells /\ x \in kind[x].shape /\ x \in h.shape
      BY <3>1
    <3> QED
      BY <3>2
  <2>7. \A c \in C : {x \in T : kind[x] = c} = h.shape \cap c.shape
    <3> SUFFICES ASSUME NEW c \in C, NEW x PROVE x \in T /\ kind[x] = c <=> x \in h.shape \cap c.shape
      OBVIOUS
    <3>1. x \in T /\ kind[x] = c => x \in h.shape \cap c.shape
      BY <2>6
    <3>2. ASSUME x \in h.shape \cap c.shape PROVE x \in T /\ kind[x] = c
      <4>1. x \in T
        BY <3>2
      <4>2. kind[x] \in cells /\ x \in kind[x].shape
        BY <2>6, <4>1
      <4> HIDE DEF kind, T
      <4> QED
        BY <1>7, <3>2, <4>1, <4>2
    <3> QED
      BY <3>1, <3>2
  <2>8. SumsKinds(f, one, kind, T, C)
    <3> SUFFICES ASSUME NEW c \in C PROVE f[c] = SumFunctionOnSet(one, {x \in T : kind[x] = c})
      BY DEF SumsKinds
    <3> DEFINE both == {x \in T : kind[x] = c}
    <3>1. both \in SUBSET T /\ \A x \in both : one[x] = 1
      OBVIOUS
    <3>2. f[c] = Cardinality(both)
      BY <2>7
    <3> HIDE DEF both, one, f, T
    <3>3. IsFiniteSet(both)
      BY <2>1, <3>1, FS_Subset
    <3> QED
      BY <3>1, <3>2, <3>3, SumOfOnes DEF both
  <2>9. SumFunctionOnSet(f, C) = SumFunctionOnSet(one, T)
    <3>1. \A x \in T : kind[x] \in C
      BY <2>6
    <3>2. \A x \in T : one[x] \in Int
      BY <2>6
    <3> HIDE DEF one, f, T, C, kind
    <3>3. IsFiniteSet(C) /\ IsFiniteSet(T)
      BY <2>1
    <3>4. SumsKinds(f, one, kind, T, C)
      BY <2>8
    <3> QED
      BY <3>1, <3>2, <3>3, <3>4, SumOfKinds
  <2>10. SumFunctionOnSet(one, T) = Cardinality(T)
    <3>1. \A x \in T : one[x] = 1
      OBVIOUS
    <3> HIDE DEF one, T
    <3> QED
      BY <2>1, <3>1, SumOfOnes
  <2>11. Total(LAMBDA w : w.area, W) = SumFunctionOnSet(area, W)
    BY DEF Total, SumFunction
  <2> QED
    BY <2>5, <2>9, <2>10, <2>11
<1> QED
  BY <1>6, <1>7

-----------------------------------------------------------------------------
(* The quality of evidence. *)

\* Some integers have a least and a greatest.
LEMMA Extremes ==
    ASSUME NEW S \in SUBSET Int, IsFiniteSet(S), S # {}
    PROVE  /\ Min(S) \in S /\ Max(S) \in S
           /\ \A i \in S : Min(S) <= i /\ i <= Max(S)
           /\ \A i \in S : (\A j \in S : i <= j) => Min(S) = i
           /\ \A i \in S : (\A j \in S : j <= i) => Max(S) = i
<1>1. \E m \in S : \A i \in S : m <= i
  BY FiniteHasLeast
<1>2. \E m \in S : \A i \in S : i <= m
  <2> DEFINE neg == [i \in S |-> -i]
             N == {neg[i] : i \in S}
  <2>1. IsFiniteSet(N)
    BY ImagesAreFinite
  <2>0. \A i \in S : neg[i] \in Int /\ neg[i] = -i
    OBVIOUS
  <2>2. N \in SUBSET Int /\ N # {}
    <3> HIDE DEF neg
    <3> QED
      BY <2>0
  <2>3. \E m \in N : \A i \in N : m <= i
    <3> HIDE DEF N
    <3> QED
      BY <2>1, <2>2, FiniteHasLeast
  <2>4. PICK g \in S : \A i \in N : -g <= i
    BY <2>3
  <2>5. \A i \in S : -g <= -i
    BY <2>4
  <2>6. \A i \in S : i \in Int /\ g \in Int
    OBVIOUS
  <2>7. \A i \in S : i <= g
    BY <2>5, <2>6
  <2> QED
    BY <2>7
<1>3. Min(S) \in S /\ \A i \in S : Min(S) <= i
  BY <1>1 DEF Min
<1>4. Max(S) \in S /\ \A i \in S : i <= Max(S)
  BY <1>2 DEF Max
<1>5. \A i, j \in S : i <= j /\ j <= i => i = j
  OBVIOUS
<1> QED
  BY <1>3, <1>4, <1>5

\* The whole root of a number is one.
LEMMA RootsExist ==
    ASSUME NEW n \in Nat
    PROVE  Root(n) \in 0..n /\ (n # 0 => Root(n) # 0)
<1> DEFINE above == {r \in 0..n : (r + 1) * (r + 1) > n}
<1>1. n \in above
  <2>1. (n + 1) * (n + 1) = n * (n + 1) + n + 1 /\ n * (n + 1) \in Nat
    OBVIOUS
  <2> QED
    BY <2>1
<1>2. above \in SUBSET Nat /\ above # {}
  <2>1. \A r \in above : r \in 0..n
    BY Zenon
  <2> HIDE DEF above
  <2> QED
    BY <1>1, <2>1
<1>3. PICK r \in above : \A i \in above : r <= i
  <2> HIDE DEF above
  <2> QED
    BY <1>2, LeastExists
<1>4. r \in 0..n /\ (r + 1) * (r + 1) > n
  BY <1>3
<1>5. r * r <= n
  <2>1. CASE r = 0
    BY <2>1
  <2>2. CASE r # 0
    <3>1. r - 1 \in 0..n /\ r - 1 \notin above
      BY <1>3, <1>4, <2>2
    <3>2. ((r - 1) + 1) * ((r - 1) + 1) = r * r
      BY <1>4
    <3>3. r * r \in Int
      BY <1>4
    <3> QED
      BY <3>1, <3>2, <3>3
  <2> QED
    BY <2>1, <2>2
<1>6. Root(n) \in 0..n /\ Root(n) * Root(n) <= n /\ (Root(n) + 1) * (Root(n) + 1) > n
  BY <1>4, <1>5 DEF Root
<1>7. Root(n) = 0 => (Root(n) + 1) * (Root(n) + 1) = 1
  OBVIOUS
<1> QED
  BY <1>6, <1>7

\* A share of a whole, in percent, grows with it.
LEMMA Shares ==
    ASSUME NEW a \in Nat, NEW b \in Nat, NEW w \in Nat \ {0}
    PROVE  /\ a \div w \in Nat
           /\ a <= b => a \div w <= b \div w
           /\ a <= 100 * w => a \div w \in 0..100
<1> DEFINE p == a \div w
           q == b \div w
<1>1. p \in Int /\ w * p \in Int /\ w * p <= a /\ a < w * p + w
  BY Quotient
<1>2. q \in Int /\ w * q \in Int /\ w * q <= b /\ b < w * q + w
  BY Quotient
<1> HIDE DEF p, q
<1>3. p >= 0
  <2> SUFFICES ASSUME p + 1 <= 0 PROVE FALSE
    BY <1>1
  <2>1. w * (p + 1) <= w * 0 /\ w * (p + 1) = w * p + w /\ w * 0 = 0
    BY <1>1, ProductsGrow
  <2> QED
    BY <1>1, <2>1
<1>4. ASSUME a <= b PROVE p <= q
  <2> SUFFICES ASSUME q + 1 <= p PROVE FALSE
    BY <1>1, <1>2
  <2>1. w * (q + 1) <= w * p /\ w * (q + 1) = w * q + w
    BY <1>1, <1>2, ProductsGrow
  <2> QED
    BY <1>1, <1>2, <1>4, <2>1
<1>5. ASSUME a <= 100 * w PROVE p <= 100
  <2> SUFFICES ASSUME 101 <= p PROVE FALSE
    BY <1>1
  <2>1. w * 101 <= w * p
    BY <1>1, ProductsGrow
  <2> QED
    BY <1>1, <1>5, <2>1
<1> QED
  BY <1>1, <1>3, <1>4, <1>5 DEF p, q

\* A sum of positive numbers is one.
LEMMA SumIsPositive ==
    ASSUME NEW T, IsFiniteSet(T), NEW f, \A x \in T : f[x] \in Nat
    PROVE  /\ SumFunctionOnSet(f, T) \in Nat
           /\ T # {} /\ (\A x \in T : f[x] # 0) => SumFunctionOnSet(f, T) # 0
<1>0. \A x \in T : f[x] \in Int
  OBVIOUS
<1>1. SumFunctionOnSet(f, T) \in Int
  BY <1>0, SumStep
<1>2. SumFunctionOnSet(f, T) >= 0
  <2> DEFINE zero == [x \in T |-> 0 * f[x]]
  <2>1. \A x \in T : zero[x] = 0 /\ zero[x] = 0 * f[x]
    BY <1>0
  <2> HIDE DEF zero
  <2>2. SumFunctionOnSet(zero, T) = 0 * SumFunctionOnSet(f, T)
    BY <1>0, <2>1, SumOfMultiples
  <2>3. \A x \in T : zero[x] \in Int /\ f[x] \in Int /\ zero[x] <= f[x]
    BY <1>0, <2>1
  <2>4. SumFunctionOnSet(zero, T) <= SumFunctionOnSet(f, T)
    BY <2>3, SumMonotone
  <2> QED
    BY <1>1, <2>2, <2>4
<1>3. ASSUME T # {}, \A x \in T : f[x] # 0 PROVE SumFunctionOnSet(f, T) >= 1
  <2> DEFINE one == [x \in T |-> 1]
  <2>1. \A x \in T : one[x] = 1
    OBVIOUS
  <2> HIDE DEF one
  <2>2. SumFunctionOnSet(one, T) = Cardinality(T) /\ Cardinality(T) \in Nat /\ Cardinality(T) # 0
    BY <1>3, <2>1, SumOfOnes, FS_CardinalityType, FS_EmptySet
  <2>3. \A x \in T : one[x] \in Int /\ f[x] \in Int /\ one[x] <= f[x]
    BY <1>0, <1>3, <2>1
  <2>4. SumFunctionOnSet(one, T) <= SumFunctionOnSet(f, T)
    BY <2>3, SumMonotone
  <2> QED
    BY <1>1, <2>2, <2>4
<1> QED
  BY <1>1, <1>2, <1>3

\* What calculate_confidence_v2 weighs: the parts of Quality by themselves.
Spatial(cs) ==
    IF \E c \in cs : c.inside THEN 100 ELSE 100 - ((100 * Min({c.d : c \in cs})) \div RMax)
Fresh(cs) ==
    Total(LAMBDA c : c.weight * Decay[Max({0, c.age})], cs) \div Total(LAMBDA c : c.weight, cs)
Agreed(cs) ==
    IF Cardinality(cs) = 1 THEN SingleAgreement
    ELSE (LevelAgreement(cs) * Alignment[Max({c.age : c \in cs}) - Min({c.age : c \in cs})]) \div 100
Weighed(spatial, freshness, agreement, health) ==
    (QualityWeights.spatial * spatial + QualityWeights.freshness * freshness
     + QualityWeights.agreement * agreement + QualityWeights.health * health)
    \div (QualityWeights.spatial + QualityWeights.freshness
          + QualityWeights.agreement + QualityWeights.health)

\* The contributors of an estimate, near and with ages and differences of ages
\* that have their factor.
Evident(cs) ==
    /\ IsFiniteSet(cs)
    /\ \A c \in cs : /\ {"id", "d", "inside", "level", "age", "weight"} \subseteq DOMAIN c
                     /\ c.d \in Nat /\ c.inside \in BOOLEAN /\ c.level \in 1..4
                     /\ c.age \in Ages /\ c.age + 1 \in Ages /\ c.weight \in Nat \ {0}
    /\ \A c, d \in cs : /\ c.id = d.id => c = d
                        /\ c.age >= d.age => c.age - d.age \in DOMAIN Alignment

\* A mean of percentages by weights is one, and grows with each of them.
LEMMA MeansGrow ==
    ASSUME NEW a \in 0..100, NEW b \in 0..100, NEW c \in 0..100, NEW d \in 0..100,
           NEW e \in 0..100, NEW f \in 0..100, NEW g \in 0..100, NEW h \in 0..100,
           a <= e, b <= f, c <= g, d <= h
    PROVE  /\ Weighed(a, b, c, d) \in 0..100
           /\ Weighed(a, b, c, d) <= Weighed(e, f, g, h)
<1> DEFINE s == QualityWeights.spatial
           t == QualityWeights.freshness
           u == QualityWeights.agreement
           v == QualityWeights.health
           w == s + t + u + v
           x == s * a + t * b + u * c + v * d
           y == s * e + t * f + u * g + v * h
<1>1. s \in Nat /\ t \in Nat /\ u \in Nat /\ v \in Nat
  BY ShadowAssumption
<1>2. w \in Nat \ {0}
  <2>1. PICK k \in {"spatial", "freshness", "agreement", "health"} : QualityWeights[k] > 0
    BY ShadowAssumption
  <2>2. s > 0 \/ t > 0 \/ u > 0 \/ v > 0
    BY <2>1
  <2> HIDE DEF s, t, u, v
  <2> QED
    BY <1>1, <2>2
<1>3. Weighed(a, b, c, d) = x \div w /\ Weighed(e, f, g, h) = y \div w
  BY DEF Weighed
<1> HIDE DEF s, t, u, v
<1>4. ASSUME NEW k \in Nat, NEW i \in 0..100, NEW j \in 0..100, i <= j
      PROVE  k * i \in Nat /\ k * j \in Nat /\ k * i <= k * j /\ k * i <= 100 * k
  <2>1. k * i <= k * j /\ k * i <= k * 100
    BY <1>4, ProductsGrow
  <2> QED
    BY <2>1
<1>5. /\ s * a \in Nat /\ t * b \in Nat /\ u * c \in Nat /\ v * d \in Nat
      /\ s * e \in Nat /\ t * f \in Nat /\ u * g \in Nat /\ v * h \in Nat
      /\ s * a <= s * e /\ t * b <= t * f /\ u * c <= u * g /\ v * d <= v * h
      /\ s * a <= 100 * s /\ t * b <= 100 * t /\ u * c <= 100 * u /\ v * d <= 100 * v
  BY <1>1, <1>4
<1>6. x \in Nat /\ y \in Nat /\ x <= y /\ x <= 100 * w
  <2> DEFINE sa == s * a  tb == t * b  uc == u * c  vd == v * d
             se == s * e  tf == t * f  ug == u * g  vh == v * h
  <2>1. /\ sa \in Nat /\ tb \in Nat /\ uc \in Nat /\ vd \in Nat
        /\ se \in Nat /\ tf \in Nat /\ ug \in Nat /\ vh \in Nat
        /\ sa <= se /\ tb <= tf /\ uc <= ug /\ vd <= vh
        /\ sa <= 100 * s /\ tb <= 100 * t /\ uc <= 100 * u /\ vd <= 100 * v
        /\ x = sa + tb + uc + vd /\ y = se + tf + ug + vh
    BY <1>5
  <2> HIDE DEF sa, tb, uc, vd, se, tf, ug, vh, x, y
  <2> QED
    BY <1>1, <2>1
<1> HIDE DEF x, y, w
<1> QED
  BY <1>2, <1>3, <1>6, Shares

\* The health of a cycle is a percentage, and nothing when it failed.
LEMMA HealthIsShare ==
    ASSUME NEW cycle, cycle.targets \in Nat, cycle.saved \in Nat, cycle.failed \in Nat,
           CycleHealth(cycle) # Refused
    PROVE  CycleHealth(cycle) \in 0..100
<1> DEFINE ratio == (100 * cycle.saved) \div cycle.targets
<1>1. cycle.saved + cycle.failed <= cycle.targets
  <2>1. ~(cycle.saved + cycle.failed > cycle.targets)
    BY Zenon DEF CycleHealth
  <2> QED
    BY <2>1
<1>2. CycleHealth(cycle) = IF cycle.targets = 0 \/ cycle.status \in {"failed", "unavailable"} THEN 0
                           ELSE IF cycle.status = "partial" THEN (ratio * PartialFactor) \div 100
                           ELSE ratio
  BY Zenon DEF CycleHealth
<1>3. CASE cycle.targets = 0
  BY <1>2, <1>3
<1>4. CASE cycle.targets # 0
  <2>1. ratio \in 0..100
    <3>1. 100 * cycle.saved \in Nat /\ 100 * cycle.saved <= 100 * cycle.targets
      BY <1>1
    <3> QED
      BY <1>4, <3>1, Shares
  <2> HIDE DEF ratio
  <2>2. (ratio * PartialFactor) \div 100 \in 0..100
    <3> DEFINE p == ratio * PartialFactor
    <3>1. PartialFactor \in 0..100
      BY ShadowAssumption
    <3>2. ratio * PartialFactor <= ratio * 100 /\ p \in Nat
      BY <2>1, <3>1, ProductsGrow
    <3>3. p <= 100 * 100
      BY <2>1, <3>2
    <3> HIDE DEF p
    <3>4. p \div 100 \in 0..100
      BY <3>2, <3>3, Shares
    <3> QED
      BY <3>4 DEF p
  <2> QED
    BY <1>2, <2>1, <2>2
<1> QED
  BY <1>3, <1>4

\* Levels agree in percent, however they are weighted.
LEMMA AgreementIsShare ==
    ASSUME NEW cs, IsFiniteSet(cs), cs # {},
           \A c \in cs : c.weight \in Nat \ {0} /\ c.level \in 1..4
    PROVE  LevelAgreement(cs) \in 0..100
<1> DEFINE weight == [c \in cs |-> c.weight]
           part == [c \in cs |-> c.weight * c.level]
           weights == SumFunctionOnSet(weight, cs)
           mean == SumFunctionOnSet(part, cs)
           off(c) == c.level * weights - mean
           spread == [c \in cs |-> c.weight * off(c) * off(c)]
           variance == SumFunctionOnSet(spread, cs)
<1>1. LevelAgreement(cs)
          = Max({0, 100 - ((200 * Root(variance * weights)) \div (3 * weights * weights))})
  BY Zenon DEF LevelAgreement, Total, SumFunction
<1>2. weights \in Nat \ {0}
  <2>1. \A c \in cs : weight[c] \in Nat /\ weight[c] # 0
    OBVIOUS
  <2> HIDE DEF weight
  <2> QED
    BY <2>1, SumIsPositive
<1>3. mean \in Int
  <2>1. \A c \in cs : part[c] \in Int
    OBVIOUS
  <2> HIDE DEF part
  <2> QED
    BY <2>1, SumStep
<1> HIDE DEF weights, mean
<1>4. \A c \in cs : spread[c] \in Nat
  <2> SUFFICES ASSUME NEW c \in cs PROVE spread[c] \in Nat
    OBVIOUS
  <2> DEFINE o == off(c)
  <2>1. o \in Int
    BY <1>2, <1>3
  <2>2. spread[c] = c.weight * o * o /\ c.weight \in Nat
    OBVIOUS
  <2> HIDE DEF o, spread
  <2>3. o * o \in Nat /\ c.weight * o * o = c.weight * (o * o)
    BY <2>1, <2>2
  <2>4. c.weight * (o * o) \in Nat
    BY <2>2, <2>3
  <2> QED
    BY <2>2, <2>3, <2>4
<1>5. variance \in Nat
  <2> HIDE DEF spread
  <2> QED
    BY <1>4, SumIsPositive
<1> HIDE DEF variance
<1> DEFINE r == Root(variance * weights)
           x == (200 * r) \div (3 * weights * weights)
<1>6. r \in Nat
  <2>1. variance * weights \in Nat
    BY <1>2, <1>5
  <2> QED
    BY <2>1, RootsExist
<1>7. x \in Nat
  <2> HIDE DEF r
  <2>1. 3 * weights * weights \in Nat \ {0}
    <3>1. weights * 1 <= weights * weights /\ weights * weights \in Int /\ weights * 1 = weights
      BY <1>2, ProductsGrow
    <3>2. 3 * weights * weights = 3 * (weights * weights)
      BY <1>2
    <3> DEFINE ww == weights * weights
    <3>3. ww \in Int /\ ww >= 1 /\ 3 * weights * weights = 3 * ww
      BY <1>2, <3>1, <3>2
    <3> HIDE DEF ww
    <3>4. 3 * ww \in Nat \ {0}
      BY <3>3
    <3> QED
      BY <3>3, <3>4
  <2> DEFINE b == 3 * weights * weights
             a == 200 * r
  <2>2. a \in Nat /\ b \in Nat \ {0} /\ x = a \div b
    BY <1>6, <2>1
  <2> HIDE DEF a, b, x
  <2> QED
    BY <2>2, Shares
<1> HIDE DEF x
<1>8. Max({0, 100 - x}) \in 0..100
  <2> DEFINE y == 100 - x
  <2>1. y \in Int /\ y <= 100
    BY <1>7
  <2> HIDE DEF y
  <2>2. Max({0, y}) \in 0..100
    <3>1. 0 \in Int /\ y \in Int
      BY <2>1
    <3>2. Max({0, y}) = IF 0 >= y THEN 0 ELSE y
      BY <3>1, MaxOfTwo
    <3> QED
      BY <2>1, <3>2
  <2> QED
    BY <2>2 DEF y
<1> QED
  BY <1>1, <1>8 DEF x

\* The parts of a quality are percentages.
LEMMA PartsAreShares ==
    ASSUME NEW cs, Evident(cs), cs # {}, \A c \in cs : c.d <= RMax
    PROVE  Spatial(cs) \in 0..100 /\ Fresh(cs) \in 0..100 /\ Agreed(cs) \in 0..100
<1>1. /\ IsFiniteSet(cs)
      /\ \A c \in cs : c.d \in Nat /\ c.age \in Ages /\ c.age \in Int /\ c.weight \in Nat \ {0} /\ c.level \in 1..4
  BY EstimateAssumption DEF Evident
<1>2. Spatial(cs) \in 0..100
  <2> DEFINE ds == {c.d : c \in cs}
             m == Min(ds)
  <2>1. ds \in SUBSET Nat /\ ds # {} /\ \A i \in ds : i <= RMax
    BY <1>1
  <2> HIDE DEF ds
  <2>2. m \in ds
    <3>1. \E i \in ds : \A j \in ds : i <= j
      BY <2>1, LeastExists
    <3> QED
      BY <3>1 DEF Min
  <2>3. m \in Nat /\ m <= RMax /\ RMax \in Nat \ {0}
    BY <2>1, <2>2, EstimateAssumption
  <2> HIDE DEF m
  <2>4. (100 * m) \div RMax \in 0..100
    <3> DEFINE a == 100 * m
    <3>1. a \in Nat /\ a <= 100 * RMax
      BY <2>3
    <3> HIDE DEF a
    <3>2. a \div RMax \in 0..100
      BY <2>3, <3>1, Shares
    <3> QED
      BY <3>2 DEF a
  <2>5. Spatial(cs) = IF \E c \in cs : c.inside THEN 100 ELSE 100 - ((100 * m) \div RMax)
    BY DEF Spatial, m, ds
  <2> DEFINE x == (100 * m) \div RMax
  <2> HIDE DEF x
  <2>6. x \in 0..100
    BY <2>4 DEF x
  <2>7. Spatial(cs) = IF \E c \in cs : c.inside THEN 100 ELSE 100 - x
    BY <2>5 DEF x
  <2> QED
    BY <2>6, <2>7
<1>3. Fresh(cs) \in 0..100
  <2> DEFINE weight == [c \in cs |-> c.weight]
             part == [c \in cs |-> c.weight * Decay[Max({0, c.age})]]
             most == [c \in cs |-> 100 * weight[c]]
             w == SumFunctionOnSet(weight, cs)
             p == SumFunctionOnSet(part, cs)
  <2>1. Fresh(cs) = p \div w
    BY Zenon DEF Fresh, Total, SumFunction
  <2>2. \A c \in cs : /\ weight[c] \in Nat /\ weight[c] # 0 /\ weight[c] \in Int
                      /\ most[c] = 100 * weight[c] /\ most[c] \in Int
    BY <1>1
  <2>3. \A c \in cs : part[c] \in Nat /\ part[c] \in Int /\ part[c] <= most[c]
    <3> SUFFICES ASSUME NEW c \in cs PROVE part[c] \in Nat /\ part[c] <= most[c]
      OBVIOUS
    <3> DEFINE d == Decay[Max({0, c.age})]
    <3>1. d \in 0..100
      <4>1. Max({0, c.age}) \in Ages
        <5>1. 0 \in Ages /\ c.age \in Ages /\ 0 \in Int /\ c.age \in Int
          BY <1>1, EstimateAssumption
        <5>2. Max({0, c.age}) = IF 0 >= c.age THEN 0 ELSE c.age
          BY <5>1, MaxOfTwo
        <5> QED
          BY <5>1, <5>2
      <4> HIDE DEF Max
      <4> QED
        BY <4>1, EstimateAssumption
    <3>2. part[c] = c.weight * d /\ most[c] = 100 * c.weight /\ c.weight \in Nat
      BY <1>1
    <3> HIDE DEF d, part, most
    <3>3. c.weight * d <= c.weight * 100 /\ c.weight * d \in Nat
      BY <3>1, <3>2, ProductsGrow
    <3> QED
      BY <3>2, <3>3
  <2> HIDE DEF weight, part, most
  <2>4. w \in Nat \ {0} /\ p \in Nat
    BY <1>1, <2>2, <2>3, SumIsPositive
  <2>5. SumFunctionOnSet(most, cs) = 100 * w
    BY <1>1, <2>2, SumOfMultiples
  <2>6. p <= 100 * w
    <3>1. p <= SumFunctionOnSet(most, cs)
      BY <1>1, <2>2, <2>3, SumMonotone
    <3> QED
      BY <2>5, <3>1
  <2> HIDE DEF w, p
  <2> QED
    BY <2>1, <2>4, <2>6, Shares
<1>4. Agreed(cs) \in 0..100
  <2> DEFINE ages == {c.age : c \in cs}
             span == Max(ages) - Min(ages)
             l == LevelAgreement(cs)
  <2>1. Alignment[span] \in 0..100
    <3>1. ages \in SUBSET Int /\ ages # {}
      BY <1>1
    <3>2. IsFiniteSet(ages)
      <4> DEFINE m == [c \in cs |-> c.age]
      <4>1. ages = {m[c] : c \in cs}
        OBVIOUS
      <4> HIDE DEF m, ages
      <4> QED
        BY <1>1, <4>1, ImagesAreFinite
    <3>3. Min(ages) \in ages /\ Max(ages) \in ages /\ Min(ages) <= Max(ages)
      <4> HIDE DEF ages
      <4> QED
        BY <3>1, <3>2, Extremes
    <3>4. \A i, j \in ages : i >= j => i - j \in DOMAIN Alignment
      BY DEF Evident
    <3> HIDE DEF ages
    <3>5. span \in DOMAIN Alignment
      <4>1. Max(ages) \in Int /\ Min(ages) \in Int
        BY <3>1, <3>3
      <4>2. Max(ages) >= Min(ages)
        BY <3>3, <4>1
      <4> QED
        BY <3>3, <3>4, <4>2
    <3> HIDE DEF span
    <3> QED
      BY <3>5, ShadowAssumption
  <2>2. l \in 0..100
    BY <1>1, AgreementIsShare
  <2> DEFINE a == Alignment[span]
  <2>3. Agreed(cs) = IF Cardinality(cs) = 1 THEN SingleAgreement ELSE (l * a) \div 100
    BY DEF Agreed
  <2> HIDE DEF l, a
  <2>4. a \in 0..100 /\ SingleAgreement \in 0..100
    BY <2>1, ShadowAssumption DEF a
  <2>5. (l * a) \div 100 \in 0..100
    <3> DEFINE la == l * a
    <3>1. la \in Nat /\ l * a <= l * 100
      BY <2>2, <2>4, ProductsGrow
    <3>2. la \in Nat /\ la <= 100 * 100
      BY <2>2, <3>1
    <3> HIDE DEF la
    <3>3. la \div 100 \in 0..100
      BY <3>2, Shares
    <3> QED
      BY <3>3 DEF la
  <2> QED
    BY <2>3, <2>4, <2>5
<1> QED
  BY <1>2, <1>3, <1>4

\* What is done to each contributor changes neither how many there are nor how
\* their levels agree, as long as levels and weights stay.
MovedTo(cs, m, to) ==
    /\ to = {m[c] : c \in cs}
    /\ \A c \in cs : m[c].id = c.id /\ m[c].level = c.level /\ m[c].weight = c.weight

\* Evidence that is moved without a change of weight sums to the same.
LEMMA MovesKeepTotals ==
    ASSUME NEW cs, Evident(cs), NEW m, NEW to, MovedTo(cs, m, to), NEW f, NEW h,
           \A c \in cs : f[c] \in Int /\ h[m[c]] = f[c]
    PROVE  SumFunctionOnSet(h, to) = SumFunctionOnSet(f, cs)
<1>1. IsFiniteSet(cs) /\ to = {m[c] : c \in cs}
  BY DEF Evident, MovedTo
<1>2. \A c, d \in cs : m[c] = m[d] => c = d
  BY DEF Evident, MovedTo
<1>3. Renames(m, f, h, cs)
  BY <1>2 DEF Renames
<1> QED
  BY <1>1, <1>3, SumOfImages

\* How far levels agree does not depend on where they were seen.
LEMMA MovesKeepAgreement ==
    ASSUME NEW cs, Evident(cs), NEW m, NEW to, MovedTo(cs, m, to)
    PROVE  /\ Cardinality(to) = Cardinality(cs)
           /\ LevelAgreement(to) = LevelAgreement(cs)
           /\ Total(LAMBDA c : c.weight, to) = Total(LAMBDA c : c.weight, cs)
<1> DEFINE weight(S) == [c \in S |-> c.weight]
           part(S) == [c \in S |-> c.weight * c.level]
           weights(S) == SumFunctionOnSet(weight(S), S)
           mean(S) == SumFunctionOnSet(part(S), S)
           off(S, c) == c.level * weights(S) - mean(S)
           spread(S) == [c \in S |-> c.weight * off(S, c) * off(S, c)]
           variance(S) == SumFunctionOnSet(spread(S), S)
           one(S) == [c \in S |-> 1]
<1>1. \A S : LevelAgreement(S)
                 = Max({0, 100 - ((200 * Root(variance(S) * weights(S))) \div (3 * weights(S) * weights(S)))})
  BY ZenonT(60) DEF LevelAgreement, Total, SumFunction
<1>2. \A S : Total(LAMBDA c : c.weight, S) = weights(S)
  BY Zenon DEF Total, SumFunction
<1>3. /\ IsFiniteSet(cs) /\ IsFiniteSet(to)
      /\ \A c \in cs : m[c] \in to /\ m[c].level = c.level /\ m[c].weight = c.weight
                       /\ c.weight \in Nat \ {0} /\ c.level \in 1..4
  BY ImagesAreFinite DEF Evident, MovedTo
<1>4. weights(to) = weights(cs) /\ weights(cs) \in Int
  <2> DEFINE f == weight(cs)
             h == weight(to)
  <2>1. \A c \in cs : f[c] \in Int /\ h[m[c]] = f[c]
    BY <1>3
  <2> HIDE DEF f, h
  <2>2. SumFunctionOnSet(h, to) = SumFunctionOnSet(f, cs)
    BY <2>1, MovesKeepTotals
  <2>3. SumFunctionOnSet(f, cs) \in Int
    <3>1. \A c \in cs : f[c] \in Int
      BY <2>1
    <3> QED
      BY <1>3, <3>1, SumStep
  <2> QED
    BY <2>2, <2>3 DEF f, h
<1>5. mean(to) = mean(cs) /\ mean(cs) \in Int
  <2> DEFINE f == part(cs)
             h == part(to)
  <2>1. \A c \in cs : f[c] \in Int /\ h[m[c]] = f[c]
    BY <1>3
  <2> HIDE DEF f, h
  <2>2. SumFunctionOnSet(h, to) = SumFunctionOnSet(f, cs)
    BY <2>1, MovesKeepTotals
  <2>3. SumFunctionOnSet(f, cs) \in Int
    <3>1. \A c \in cs : f[c] \in Int
      BY <2>1
    <3> QED
      BY <1>3, <3>1, SumStep
  <2> QED
    BY <2>2, <2>3 DEF f, h
<1> HIDE DEF weights, mean
<1>6. variance(to) = variance(cs)
  <2> DEFINE f == spread(cs)
             h == spread(to)
  <2>1. \A c \in cs : f[c] \in Int /\ h[m[c]] = f[c]
    <3> SUFFICES ASSUME NEW c \in cs PROVE f[c] \in Int /\ h[m[c]] = f[c]
      OBVIOUS
    <3>1. off(to, m[c]) = off(cs, c) /\ off(cs, c) \in Int /\ c.weight \in Int
      BY <1>3, <1>4, <1>5
    <3>2. f[c] = c.weight * off(cs, c) * off(cs, c)
      OBVIOUS
    <3>3. h[m[c]] = m[c].weight * off(to, m[c]) * off(to, m[c])
      BY <1>3
    <3>4. m[c].weight = c.weight
      BY <1>3
    <3> HIDE DEF off, f, h
    <3> QED
      BY <3>1, <3>2, <3>3, <3>4
  <2> HIDE DEF f, h
  <2>2. SumFunctionOnSet(h, to) = SumFunctionOnSet(f, cs)
    BY <2>1, MovesKeepTotals
  <2> QED
    BY <2>2 DEF f, h
<1>7. Cardinality(to) = Cardinality(cs)
  <2> DEFINE f == one(cs)
             h == one(to)
  <2>1. (\A c \in cs : f[c] = 1) /\ (\A c \in to : h[c] = 1)
    OBVIOUS
  <2> HIDE DEF f, h
  <2>2. \A c \in cs : f[c] \in Int /\ h[m[c]] = f[c]
    BY <1>3, <2>1
  <2>3. SumFunctionOnSet(h, to) = SumFunctionOnSet(f, cs)
    BY <2>2, MovesKeepTotals
  <2> QED
    BY <1>3, <2>1, <2>3, SumOfOnes
<1> HIDE DEF variance
<1> QED
  BY <1>1, <1>2, <1>4, <1>6, <1>7

\* What the quality of some evidence is, in its parts.
LEMMA QualityIs ==
    ASSUME NEW cs, NEW cycle, NEW n
    PROVE  Quality(cs, cycle, n) =
             IF cs = {} THEN None
             ELSE IF (\E c \in cs : c.d > RMax \/ c.age < -Skew) \/ CycleHealth(cycle) = Refused THEN Refused
             ELSE [quality |-> Weighed(Spatial(cs), Fresh(cs), Agreed(cs), CycleHealth(cycle)),
                   validation |-> IF n = None THEN "not_evaluated"
                                  ELSE IF n >= EnoughSamples THEN "sufficient" ELSE "insufficient"]
BY Zenon DEF Quality, Weighed, Spatial, Fresh, Agreed

\* The contributors and the cycle of a quality.
Rated(cs, cycle) ==
    /\ Evident(cs)
    /\ {"status", "targets", "saved", "failed"} \subseteq DOMAIN cycle
    /\ cycle.targets \in Nat /\ cycle.saved \in Nat /\ cycle.failed \in Nat

\* The quality of any evidence is a percentage; it falls as the evidence ages,
\* does not fall when the cafe is contained, counts a failed cycle for nothing
\* whatever it saved, and is the same for any number of validation samples
\* (calculate_confidence_v2).
THEOREM QualitiesFollowEvidence ==
    ASSUME NEW cs, NEW cycle, Rated(cs, cycle)
    PROVE  QualityFollowsEvidence(cs, cycle)
<1> DEFINE q == Quality(cs, cycle, None)
           age == [c \in cs |-> [c EXCEPT !.age = @ + 1]]
           enter == [c \in cs |-> [c EXCEPT !.inside = TRUE]]
           older == {[c EXCEPT !.age = @ + 1] : c \in cs}
           within == {[c EXCEPT !.inside = TRUE] : c \in cs}
           lost == [cycle EXCEPT !.status = "failed"]
           void == [lost EXCEPT !.saved = 0]
           h == CycleHealth(cycle)
           s == Spatial(cs)
           f == Fresh(cs)
           a == Agreed(cs)
<1> SUFFICES ASSUME q \notin {None, Refused}
             PROVE  /\ q.quality \in 0..100
                    /\ Quality(older, cycle, None).quality <= q.quality
                    /\ Quality(within, cycle, None).quality >= q.quality
                    /\ \A n \in {0, EnoughSamples} : Quality(cs, cycle, n).quality = q.quality
                    /\ cycle.targets > 0 =>
                           /\ Quality(cs, lost, None).quality <= q.quality
                           /\ Quality(cs, lost, None) = Quality(cs, void, None)
  BY Zenon DEF QualityFollowsEvidence
<1>1. cs # {} /\ ~(\E c \in cs : c.d > RMax \/ c.age < -Skew) /\ h # Refused
  BY QualityIs
<1>2. \A n : Quality(cs, cycle, n).quality = Weighed(s, f, a, h)
  <2> TAKE n
  <2>1. Quality(cs, cycle, n) =
           [quality |-> Weighed(s, f, a, h),
            validation |-> IF n = None THEN "not_evaluated"
                           ELSE IF n >= EnoughSamples THEN "sufficient" ELSE "insufficient"]
    BY <1>1, QualityIs
  <2> HIDE DEF s, f, a, h
  <2> QED
    BY <2>1
<1>3. /\ Evident(cs) /\ IsFiniteSet(cs)
      /\ \A c \in cs : /\ {"id", "d", "inside", "level", "age", "weight"} \subseteq DOMAIN c
                       /\ c.d \in Nat /\ c.age \in Ages /\ c.age \in Int /\ c.age + 1 \in Ages
                       /\ c.weight \in Nat \ {0} /\ c.level \in 1..4 /\ c.d <= RMax /\ c.age >= -Skew
  <2>1. Evident(cs) /\ IsFiniteSet(cs)
    BY DEF Rated, Evident
  <2>2. \A c \in cs : /\ {"id", "d", "inside", "level", "age", "weight"} \subseteq DOMAIN c
                      /\ c.d \in Nat /\ c.age \in Ages /\ c.age \in Int /\ c.age + 1 \in Ages
                      /\ c.weight \in Nat \ {0} /\ c.level \in 1..4
    BY <2>1, EstimateAssumption DEF Evident
  <2>3. RMax \in Nat /\ Skew \in Nat
    BY EstimateAssumption, ShadowAssumption
  <2> QED
    BY <1>1, <2>1, <2>2, <2>3
<1>4. s \in 0..100 /\ f \in 0..100 /\ a \in 0..100
  BY <1>1, <1>3, PartsAreShares
<1>5. h \in 0..100
  BY <1>1, HealthIsShare DEF Rated
<1>6. MovedTo(cs, age, older) /\ MovedTo(cs, enter, within)
  BY <1>3 DEF MovedTo
<1>7. \A c \in cs : /\ age[c].age = c.age + 1 /\ age[c].d = c.d /\ age[c].inside = c.inside
                    /\ age[c].weight = c.weight
  BY <1>3
<1>8. \A c \in cs : /\ enter[c].age = c.age /\ enter[c].d = c.d /\ enter[c].inside = TRUE
                    /\ enter[c].weight = c.weight
  BY <1>3
<1>9. older = {age[c] : c \in cs} /\ within = {enter[c] : c \in cs}
  OBVIOUS
<1> HIDE DEF age, enter, older, within, s, f, a, h, q
<1>10. q.quality = Weighed(s, f, a, h)
  BY <1>2 DEF q
<1>11. q.quality \in 0..100
  <2>1. s <= s /\ f <= f /\ a <= a /\ h <= h
    BY <1>4, <1>5
  <2>2. Weighed(s, f, a, h) \in 0..100
    BY <1>4, <1>5, <2>1, MeansGrow
  <2> QED
    BY <1>10, <2>2
<1>12. Quality(older, cycle, None).quality <= q.quality
  <2>1. older # {} /\ ~(\E c \in older : c.d > RMax \/ c.age < -Skew)
    <3>1. \A c \in cs : age[c].d <= RMax /\ age[c].age >= -Skew
                        /\ age[c].d \in Nat /\ age[c].age \in Int
      BY <1>3, <1>7, ShadowAssumption
    <3>2. \A c \in older : c.d <= RMax /\ c.age >= -Skew /\ c.d \in Nat /\ c.age \in Int
      BY <1>9, <3>1
    <3>3. RMax \in Nat /\ -Skew \in Int
      BY EstimateAssumption, ShadowAssumption
    <3> QED
      BY <1>1, <1>9, <3>2, <3>3
  <2>2. Quality(older, cycle, None) =
           [quality |-> Weighed(Spatial(older), Fresh(older), Agreed(older), h),
            validation |-> "not_evaluated"]
    BY <1>1, <2>1, QualityIs DEF h
  <2>3. Spatial(older) = s
    <3>1. {c.d : c \in older} = {c.d : c \in cs}
      BY <1>7, <1>9
    <3>2. (\E c \in older : c.inside) <=> (\E c \in cs : c.inside)
      BY <1>7, <1>9
    <3> QED
      BY <3>1, <3>2 DEF Spatial, s
  <2>4. Agreed(older) = a
    <3> DEFINE ages == {c.age : c \in cs}
               later == {c.age : c \in older}
               most == Max(ages)
               least == Min(ages)
    <3>1. ages \in SUBSET Int /\ ages # {} /\ IsFiniteSet(ages)
      <4> DEFINE m == [c \in cs |-> c.age]
      <4>1. ages = {m[c] : c \in cs}
        OBVIOUS
      <4>2. ages \in SUBSET Int /\ ages # {}
        BY <1>1, <1>3
      <4> HIDE DEF m, ages
      <4> QED
        BY <1>3, <4>1, <4>2, ImagesAreFinite
    <3>2. later = {i + 1 : i \in ages}
      BY <1>7, <1>9
    <3>3. later \in SUBSET Int /\ later # {} /\ IsFiniteSet(later)
      <4> DEFINE m == [i \in ages |-> i + 1]
      <4>1. later = {m[i] : i \in ages}
        BY <3>2
      <4> HIDE DEF m, ages, later
      <4>2. later \in SUBSET Int /\ later # {}
        <5>1. \A i \in ages : i + 1 \in Int
          BY <3>1
        <5>2. \A j \in later : j \in Int
          BY <3>2, <5>1
        <5>3. \E i \in ages : i + 1 \in later
          BY <3>1, <3>2
        <5> QED
          BY <5>2, <5>3
      <4> QED
        BY <3>1, <4>1, <4>2, ImagesAreFinite
    <3>4. most \in ages /\ least \in ages /\ most \in Int /\ least \in Int
          /\ \A i \in ages : least <= i /\ i <= most
      <4> HIDE DEF ages
      <4>1. most \in ages /\ least \in ages /\ \A i \in ages : least <= i /\ i <= most
        BY <3>1, Extremes
      <4> QED
        BY <3>1, <4>1
    <3> HIDE DEF ages, later, most, least
    <3>5. Max(later) = most + 1
      <4>1. most + 1 \in later /\ \A i \in later : i <= most + 1
        BY <3>1, <3>2, <3>4
      <4> QED
        BY <3>3, <4>1, Extremes
    <3>6. Min(later) = least + 1
      <4>1. least + 1 \in later /\ \A i \in later : least + 1 <= i
        BY <3>1, <3>2, <3>4
      <4> QED
        BY <3>3, <4>1, Extremes
    <3>7. Max(later) - Min(later) = most - least
      BY <3>4, <3>5, <3>6
    <3>8. Cardinality(older) = Cardinality(cs) /\ LevelAgreement(older) = LevelAgreement(cs)
      BY <1>3, <1>6, MovesKeepAgreement
    <3> QED
      BY <3>7, <3>8 DEF Agreed, a, ages, later, most, least
  <2>5. Fresh(older) \in 0..100 /\ Fresh(older) <= f
    <3> DEFINE part == [c \in cs |-> c.weight * Decay[Max({0, c.age})]]
               new == [c \in older |-> c.weight * Decay[Max({0, c.age})]]
               next == [c \in cs |-> c.weight * Decay[Max({0, c.age + 1})]]
               weight == [c \in cs |-> c.weight]
               w == SumFunctionOnSet(weight, cs)
               p == SumFunctionOnSet(part, cs)
               r == SumFunctionOnSet(next, cs)
    <3>1. f = p \div w
      BY Zenon DEF Fresh, Total, SumFunction, f
    <3>2. Fresh(older) = SumFunctionOnSet(new, older) \div Total(LAMBDA c : c.weight, older)
      BY Zenon DEF Fresh, Total, SumFunction
    <3>3. Total(LAMBDA c : c.weight, older) = w
      <4>1. Total(LAMBDA c : c.weight, cs) = w
        BY Zenon DEF Total, SumFunction
      <4>2. Total(LAMBDA c : c.weight, older) = Total(LAMBDA c : c.weight, cs)
        BY <1>3, <1>6, MovesKeepAgreement
      <4> QED
        BY <4>1, <4>2
    <3>4. \A c \in cs : Decay[Max({0, c.age})] \in 0..100
                        /\ Decay[Max({0, c.age + 1})] \in 0..100
                        /\ Decay[Max({0, c.age + 1})] <= Decay[Max({0, c.age})]
      <4> SUFFICES ASSUME NEW c \in cs
                   PROVE  /\ Decay[Max({0, c.age})] \in 0..100
                          /\ Decay[Max({0, c.age + 1})] \in 0..100
                          /\ Decay[Max({0, c.age + 1})] <= Decay[Max({0, c.age})]
        OBVIOUS
      <4> DEFINE i == Max({0, c.age})
                 j == Max({0, c.age + 1})
      <4>1. 0 \in Int /\ 0 \in Ages /\ c.age \in Int /\ c.age + 1 \in Int /\ c.age \in Ages /\ c.age + 1 \in Ages
        BY <1>3, EstimateAssumption
      <4>2. i = (IF 0 >= c.age THEN 0 ELSE c.age) /\ j = (IF 0 >= c.age + 1 THEN 0 ELSE c.age + 1)
        BY <4>1, MaxOfTwo
      <4> HIDE DEF i, j
      <4>3. i \in Ages /\ j \in Ages /\ i <= j
        BY <4>1, <4>2
      <4>4. Decay[i] \in 0..100 /\ Decay[j] \in 0..100 /\ Decay[i] >= Decay[j]
        BY <4>3, EstimateAssumption
      <4>5. Decay[j] <= Decay[i]
        BY <4>4
      <4> QED
        BY <4>4, <4>5 DEF i, j
    <3>5. \A c \in cs : /\ new[age[c]] = next[c]
                        /\ next[c] \in Nat /\ part[c] \in Nat /\ next[c] <= part[c]
                        /\ weight[c] \in Nat /\ weight[c] # 0
      <4> SUFFICES ASSUME NEW c \in cs
                   PROVE  /\ new[age[c]] = next[c]
                          /\ next[c] \in Nat /\ part[c] \in Nat /\ next[c] <= part[c]
                          /\ weight[c] \in Nat /\ weight[c] # 0
        OBVIOUS
      <4> DEFINE i == Decay[Max({0, c.age})]
                 j == Decay[Max({0, c.age + 1})]
      <4>1. age[c] \in older /\ new[age[c]] = c.weight * j
        BY <1>7, <1>9
      <4>2. part[c] = c.weight * i /\ next[c] = c.weight * j /\ weight[c] = c.weight
        OBVIOUS
      <4>3. i \in 0..100 /\ j \in 0..100 /\ j <= i
        BY <3>4
      <4>4. c.weight \in Nat \ {0}
        BY <1>3
      <4> HIDE DEF i, j, part, next, new, weight
      <4>5. c.weight * j <= c.weight * i /\ c.weight * j \in Nat /\ c.weight * i \in Nat
        BY <4>3, <4>4, ProductsGrow
      <4> QED
        BY <4>1, <4>2, <4>4, <4>5
    <3> HIDE DEF part, new, next, weight
    <3>6. SumFunctionOnSet(new, older) = r
      <4>1. \A c \in cs : next[c] \in Int /\ new[age[c]] = next[c]
        BY <3>5
      <4> QED
        BY <1>3, <1>6, <4>1, MovesKeepTotals
    <3>7. w \in Nat \ {0} /\ p \in Nat /\ r \in Nat
      <4>1. \A c \in cs : next[c] \in Nat
        BY <3>5
      <4>2. \A c \in cs : part[c] \in Nat
        BY <3>5
      <4>3. \A c \in cs : weight[c] \in Nat
        BY <3>5
      <4>4. \A c \in cs : weight[c] # 0
        BY <3>5
      <4>5. r \in Nat
        BY <1>3, <4>1, SumIsPositive
      <4>6. p \in Nat
        BY <1>3, <4>2, SumIsPositive
      <4>7. w \in Nat /\ w # 0
        BY <1>1, <1>3, <4>3, <4>4, SumIsPositive
      <4> QED
        BY <4>5, <4>6, <4>7
    <3>8. r <= p
      <4>1. \A c \in cs : next[c] \in Int /\ part[c] \in Int /\ next[c] <= part[c]
        BY <3>5
      <4> QED
        BY <1>3, <4>1, SumMonotone
    <3> HIDE DEF w, p, r
    <3>9. Fresh(older) = r \div w
      BY <3>2, <3>3, <3>6
    <3>10. r \div w \in Nat /\ r \div w <= p \div w
      BY <3>7, <3>8, Shares
    <3>11. r \div w \in 0..100
      BY <1>4, <3>1, <3>10
    <3> QED
      BY <3>1, <3>9, <3>10, <3>11
  <2>6. Quality(older, cycle, None).quality = Weighed(s, Fresh(older), a, h)
    BY <2>2, <2>3, <2>4
  <2>7. Weighed(s, Fresh(older), a, h) <= Weighed(s, f, a, h)
    <3>1. s <= s /\ a <= a /\ h <= h
      BY <1>4, <1>5
    <3> QED
      BY <1>4, <1>5, <2>5, <3>1, MeansGrow
  <2> QED
    BY <1>10, <2>6, <2>7
<1>13. Quality(within, cycle, None).quality >= q.quality
  <2>1. within # {} /\ ~(\E c \in within : c.d > RMax \/ c.age < -Skew)
    BY <1>1, <1>8, <1>9
  <2>2. Quality(within, cycle, None) =
           [quality |-> Weighed(Spatial(within), Fresh(within), Agreed(within), h),
            validation |-> "not_evaluated"]
    BY <1>1, <2>1, QualityIs DEF h
  <2>3. Spatial(within) = 100
    BY <1>1, <1>8, <1>9 DEF Spatial
  <2>4. Agreed(within) = a
    <3>1. {c.age : c \in within} = {c.age : c \in cs}
      BY <1>8, <1>9
    <3>2. Cardinality(within) = Cardinality(cs) /\ LevelAgreement(within) = LevelAgreement(cs)
      BY <1>3, <1>6, MovesKeepAgreement
    <3> QED
      BY <3>1, <3>2 DEF Agreed, a
  <2>5. Fresh(within) = f
    <3> DEFINE part == [c \in cs |-> c.weight * Decay[Max({0, c.age})]]
               new == [c \in within |-> c.weight * Decay[Max({0, c.age})]]
    <3>1. f = SumFunctionOnSet(part, cs) \div Total(LAMBDA c : c.weight, cs)
      BY Zenon DEF Fresh, Total, SumFunction, f
    <3>2. Fresh(within) = SumFunctionOnSet(new, within) \div Total(LAMBDA c : c.weight, within)
      BY Zenon DEF Fresh, Total, SumFunction
    <3>3. Total(LAMBDA c : c.weight, within) = Total(LAMBDA c : c.weight, cs)
      BY <1>3, <1>6, MovesKeepAgreement
    <3>4. \A c \in cs : new[enter[c]] = part[c] /\ part[c] \in Int
      <4> SUFFICES ASSUME NEW c \in cs PROVE new[enter[c]] = part[c] /\ part[c] \in Int
        OBVIOUS
      <4> DEFINE i == Decay[Max({0, c.age})]
      <4>1. enter[c] \in within /\ new[enter[c]] = c.weight * i /\ part[c] = c.weight * i
        BY <1>8, <1>9
      <4>2. i \in 0..100
        <5>1. 0 \in Int /\ 0 \in Ages /\ c.age \in Int /\ c.age \in Ages
          BY <1>3, EstimateAssumption
        <5> DEFINE k == Max({0, c.age})
        <5>2. k = IF 0 >= c.age THEN 0 ELSE c.age
          BY <5>1, MaxOfTwo
        <5> HIDE DEF k
        <5>3. Decay[k] \in 0..100
          BY <5>1, <5>2, EstimateAssumption
        <5> QED
          BY <5>3 DEF k
      <4>3. c.weight \in Nat
        BY <1>3
      <4> HIDE DEF i, new, part
      <4> QED
        BY <4>1, <4>2, <4>3
    <3> HIDE DEF new, part
    <3>5. SumFunctionOnSet(new, within) = SumFunctionOnSet(part, cs)
      BY <1>3, <1>6, <3>4, MovesKeepTotals
    <3> QED
      BY <3>1, <3>2, <3>3, <3>5
  <2>6. Quality(within, cycle, None).quality = Weighed(100, f, a, h)
    BY <2>2, <2>3, <2>4, <2>5
  <2>7. Weighed(s, f, a, h) <= Weighed(100, f, a, h) /\ Weighed(100, f, a, h) \in 0..100
    <3> DEFINE x == 100
    <3>1. x \in 0..100 /\ s <= x /\ x <= x /\ f <= f /\ a <= a /\ h <= h
      BY <1>4, <1>5
    <3> HIDE DEF x
    <3>2. Weighed(s, f, a, h) <= Weighed(x, f, a, h)
      BY <1>4, <1>5, <3>1, MeansGrow
    <3>3. Weighed(x, f, a, h) \in 0..100
      BY <1>4, <1>5, <3>1, MeansGrow
    <3> QED
      BY <3>2, <3>3 DEF x
  <2> QED
    BY <1>10, <1>11, <2>6, <2>7
<1>14. ASSUME cycle.targets > 0
       PROVE  /\ Quality(cs, lost, None).quality <= q.quality
              /\ Quality(cs, lost, None) = Quality(cs, void, None)
  <2>1. CycleHealth(cycle) # Refused
    BY <1>1 DEF h
  <2>2. cycle.saved + cycle.failed <= cycle.targets
    <3>1. ~(cycle.saved + cycle.failed > cycle.targets)
      BY <2>1 DEF CycleHealth
    <3> QED
      BY <3>1 DEF Rated
  <2>3. /\ lost.status = "failed" /\ lost.targets = cycle.targets
        /\ lost.saved = cycle.saved /\ lost.failed = cycle.failed
        /\ void.status = "failed" /\ void.targets = cycle.targets
        /\ void.saved = 0 /\ void.failed = cycle.failed
    BY DEF Rated
  <2> HIDE DEF lost, void
  <2>4. CycleHealth(lost) = 0
    BY <1>14, <2>2, <2>3 DEF Rated, CycleHealth
  <2>5. CycleHealth(void) = 0
    BY <1>14, <2>2, <2>3 DEF Rated, CycleHealth
  <2>6. 0 # Refused
    BY OutcomesAssumption
  <2> DEFINE z == [quality |-> Weighed(s, f, a, 0), validation |-> "not_evaluated"]
  <2>7. Quality(cs, lost, None) = z
    BY <1>1, <2>4, <2>6, QualityIs DEF s, f, a
  <2>8. Quality(cs, void, None) = z
    BY <1>1, <2>5, <2>6, QualityIs DEF s, f, a
  <2>9. Weighed(s, f, a, 0) <= Weighed(s, f, a, h)
    <3>1. s <= s /\ f <= f /\ a <= a /\ 0 <= h /\ 0 \in 0..100
      BY <1>4, <1>5
    <3> QED
      BY <1>4, <1>5, <3>1, MeansGrow
  <2>10. z.quality = Weighed(s, f, a, 0)
    OBVIOUS
  <2> HIDE DEF z
  <2> QED
    BY <1>10, <2>7, <2>8, <2>9, <2>10
<1> QED
  BY <1>2, <1>10, <1>11, <1>12, <1>13, <1>14

-----------------------------------------------------------------------------
(* Anomalies. *)

\* A mean by weights lies between the least and the greatest value.
LEMMA MeansAreBetween ==
    ASSUME NEW T, IsFiniteSet(T), T # {}, NEW weight, NEW of, NEW part,
           \A x \in T : weight[x] \in Nat /\ of[x] \in Int /\ part[x] = weight[x] * of[x]
    PROVE  /\ SumFunctionOnSet(part, T) \in Int
           /\ Min({of[x] : x \in T}) * SumFunctionOnSet(weight, T) <= SumFunctionOnSet(part, T)
           /\ SumFunctionOnSet(part, T) <= Max({of[x] : x \in T}) * SumFunctionOnSet(weight, T)
<1> DEFINE V == {of[x] : x \in T}
           lo == Min(V)
           hi == Max(V)
           below == [x \in T |-> lo * weight[x]]
           above == [x \in T |-> hi * weight[x]]
<1>1. V \in SUBSET Int /\ V # {} /\ IsFiniteSet(V)
  BY ImagesAreFinite
<1>2. lo \in Int /\ hi \in Int /\ \A i \in V : lo <= i /\ i <= hi
  <2> HIDE DEF V
  <2> QED
    BY <1>1, Extremes
<1> HIDE DEF lo, hi
<1>3. \A x \in T : /\ below[x] = lo * weight[x] /\ above[x] = hi * weight[x]
                   /\ below[x] \in Int /\ above[x] \in Int /\ part[x] \in Int /\ weight[x] \in Int
                   /\ below[x] <= part[x] /\ part[x] <= above[x]
  <2> SUFFICES ASSUME NEW x \in T
               PROVE  /\ below[x] = lo * weight[x] /\ above[x] = hi * weight[x]
                      /\ below[x] \in Int /\ above[x] \in Int /\ part[x] \in Int /\ weight[x] \in Int
                      /\ below[x] <= part[x] /\ part[x] <= above[x]
    OBVIOUS
  <2> DEFINE w == weight[x]
             v == of[x]
  <2>1. w \in Nat /\ v \in Int /\ lo <= v /\ v <= hi
    BY <1>2
  <2>2. below[x] = lo * w /\ above[x] = hi * w /\ part[x] = w * v
    OBVIOUS
  <2> HIDE DEF w, v, below, above
  <2>3. w * lo <= w * v /\ w * v <= w * hi
    BY <1>2, <2>1, ProductsGrow
  <2>4. w * lo = lo * w /\ w * hi = hi * w /\ w * v \in Int /\ lo * w \in Int /\ hi * w \in Int
    BY <1>2, <2>1
  <2>5. w = weight[x]
    BY DEF w
  <2> QED
    BY <2>1, <2>2, <2>3, <2>4, <2>5
<1> HIDE DEF below, above, V
<1>4. SumFunctionOnSet(part, T) \in Int
  BY <1>3, SumStep
<1>5. SumFunctionOnSet(below, T) <= SumFunctionOnSet(part, T)
  BY <1>3, SumMonotone
<1>6. SumFunctionOnSet(part, T) <= SumFunctionOnSet(above, T)
  BY <1>3, SumMonotone
<1>7. SumFunctionOnSet(below, T) = lo * SumFunctionOnSet(weight, T)
  BY <1>2, <1>3, SumOfMultiples
<1>8. SumFunctionOnSet(above, T) = hi * SumFunctionOnSet(weight, T)
  BY <1>2, <1>3, SumOfMultiples
<1> QED
  BY <1>4, <1>5, <1>6, <1>7, <1>8 DEF lo, hi, V

\* The contributors of an anomaly.
Dated(cs) ==
    /\ IsFiniteSet(cs)
    /\ \A c \in cs : /\ c.weight \in Nat \ {0} /\ c.base \in DOMAIN LogOf
                     /\ c.lo \in DOMAIN LogOf \cup {None} /\ c.hi \in DOMAIN LogOf
                     /\ c.observed \in Int \cup {None} /\ c.fetched \in Int /\ c.cutoff \in Int

\* Whatever the contributors and the mode, an anomaly that is given rests on
\* values that are current by the clock of its mode and on baselines that end
\* before them, lies between those of its contributors, and shows a raw count
\* of one place only (calculate_activity_shadow).
THEOREM AnomaliesAreOfNow ==
    ASSUME NEW cs, NEW mode, Dated(cs)
    PROVE  AnomaliesAreCurrent(cs, mode)
<1> DEFINE a == Activity(cs, mode)
           weight == [c \in cs |-> c.weight]
           low == [c \in cs |-> LogOf[c.lo] - LogOf[c.base]]
           high == [c \in cs |-> LogOf[c.hi] - LogOf[c.base]]
           lows == [c \in cs |-> c.weight * (LogOf[c.lo] - LogOf[c.base])]
           highs == [c \in cs |-> c.weight * (LogOf[c.hi] - LogOf[c.base])]
           w == SumFunctionOnSet(weight, cs)
           l == SumFunctionOnSet(lows, cs)
           h == SumFunctionOnSet(highs, cs)
<1> SUFFICES ASSUME a # Refused, cs # {}
             PROVE  /\ a.low # None =>
                         /\ \A c \in cs : /\ c.fetched <= StaleAfter \/ mode = "observed"
                                          /\ c.observed <= (IF mode = "observed" THEN StaleAfter ELSE Skew)
                                          /\ c.cutoff >= c.observed
                         /\ Min({LogOf[c.lo] - LogOf[c.base] : c \in cs}) * a.weights <= a.low
                         /\ a.low <= a.high
                         /\ a.high <= Max({LogOf[c.hi] - LogOf[c.base] : c \in cs}) * a.weights
                    /\ a.lo # None => Cardinality(cs) = 1
                    /\ mode \in {"observed", "forecast"} => (a.low = None <=> \A c \in cs : Stale(c, mode))
  BY Zenon DEF AnomaliesAreCurrent
<1>1. mode # "unsupported" /\ \A c \in cs : Acceptable(c, mode)
  BY DEF Activity
<1>2. CASE mode = "baseline_only" \/ (\E c \in cs : Stale(c, mode))
  <2> DEFINE nothing(x) == [freshness |-> x, lo |-> None, hi |-> None, low |-> None,
                            high |-> None, weights |-> 1, standard |-> None]
  <2>1. CASE mode = "baseline_only"
    <3>1. a = nothing("n/a")
      BY <1>1, <2>1 DEF Activity
    <3> QED
      BY <2>1, <3>1
  <2>2. CASE mode # "baseline_only"
    <3>1. a = nothing("stale") /\ {c \in cs : Stale(c, mode)} = cs
      BY <1>1, <1>2, <2>2 DEF Activity
    <3>2. \A c \in cs : Stale(c, mode)
      BY <3>1
    <3> QED
      BY <3>1, <3>2
  <2> QED
    BY <2>1, <2>2
<1>3. CASE mode # "baseline_only" /\ ~(\E c \in cs : Stale(c, mode))
  <2> DEFINE one == CHOOSE c \in cs : TRUE
  <2>1. a.low = l /\ a.high = h /\ a.weights = w /\ a.lo = IF cs = {one} THEN one.lo ELSE None
    <3>1. {c \in cs : Stale(c, mode)} = {}
      BY <1>3
    <3>2. \E s : a = [freshness |-> "fresh",
                     lo |-> IF cs = {one} THEN one.lo ELSE None,
                     hi |-> IF cs = {one} THEN one.hi ELSE None,
                     low |-> l, high |-> h, weights |-> w, standard |-> s]
      BY <1>1, <1>3, <3>1, Zenon DEF Activity, Total, SumFunction
    <3> HIDE DEF l, h, w, one
    <3> QED
      BY <3>2
  <2>2. a.lo # None => Cardinality(cs) = 1
    <3>1. a.lo # None => cs = {one}
      BY <2>1
    <3>2. cs = {one} => Cardinality(cs) = 1
      BY FS_Singleton
    <3> QED
      BY <3>1, <3>2
  <2>3. \A c \in cs : /\ c.lo # None /\ c.observed # None /\ c.lo <= c.hi /\ c.cutoff >= c.observed
                      /\ mode # "observed" => c.observed <= Skew
    BY <1>1, <1>3 DEF Acceptable
  <2>4. \A c \in cs : /\ c.fetched <= StaleAfter \/ mode = "observed"
                      /\ c.observed <= (IF mode = "observed" THEN StaleAfter ELSE Skew)
                      /\ c.cutoff >= c.observed
    <3> SUFFICES ASSUME NEW c \in cs
                 PROVE  /\ c.fetched <= StaleAfter \/ mode = "observed"
                        /\ c.observed <= (IF mode = "observed" THEN StaleAfter ELSE Skew)
                        /\ c.cutoff >= c.observed
      OBVIOUS
    <3>1. c.observed \in Int /\ c.fetched \in Int /\ StaleAfter \in Int
      BY <2>3, ShadowAssumption DEF Dated
    <3>2. ~Stale(c, mode)
      BY <1>3
    <3> QED
      BY <2>3, <3>1, <3>2 DEF Stale
  <2>5. \A c \in cs : /\ weight[c] \in Nat /\ low[c] \in Int /\ high[c] \in Int
                      /\ lows[c] = weight[c] * low[c] /\ highs[c] = weight[c] * high[c]
                      /\ low[c] <= high[c]
    <3> SUFFICES ASSUME NEW c \in cs
                 PROVE  /\ weight[c] \in Nat /\ low[c] \in Int /\ high[c] \in Int
                        /\ lows[c] = weight[c] * low[c] /\ highs[c] = weight[c] * high[c]
                        /\ low[c] <= high[c]
      OBVIOUS
    <3>1. c.lo \in DOMAIN LogOf /\ c.hi \in DOMAIN LogOf /\ c.base \in DOMAIN LogOf /\ c.lo <= c.hi
      BY <2>3 DEF Dated
    <3>2. LogOf[c.lo] \in Int /\ LogOf[c.hi] \in Int /\ LogOf[c.base] \in Int /\ LogOf[c.lo] <= LogOf[c.hi]
      BY <3>1, ShadowAssumption DEF Grows
    <3> QED
      BY <3>2 DEF Dated
  <2>6. {LogOf[c.lo] - LogOf[c.base] : c \in cs} = {low[c] : c \in cs}
    OBVIOUS
  <2>7. {LogOf[c.hi] - LogOf[c.base] : c \in cs} = {high[c] : c \in cs}
    OBVIOUS
  <2>8. IsFiniteSet(cs)
    BY DEF Dated
  <2> HIDE DEF a, weight, low, high, lows, highs
  <2>9. l \in Int /\ Min({low[c] : c \in cs}) * w <= l
    <3>1. \A c \in cs : weight[c] \in Nat /\ low[c] \in Int /\ lows[c] = weight[c] * low[c]
      BY <2>5
    <3> QED
      BY <2>8, <3>1, MeansAreBetween
  <2>10. h \in Int /\ h <= Max({high[c] : c \in cs}) * w
    <3>1. \A c \in cs : weight[c] \in Nat /\ high[c] \in Int /\ highs[c] = weight[c] * high[c]
      BY <2>5
    <3> QED
      BY <2>8, <3>1, MeansAreBetween
  <2>11. l <= h
    <3>1. \A c \in cs : lows[c] \in Int /\ highs[c] \in Int /\ lows[c] <= highs[c]
      <4> SUFFICES ASSUME NEW c \in cs PROVE lows[c] \in Int /\ highs[c] \in Int /\ lows[c] <= highs[c]
        OBVIOUS
      <4> DEFINE x == weight[c]  y == low[c]  z == high[c]
      <4>1. x \in Nat /\ y \in Int /\ z \in Int /\ y <= z /\ lows[c] = x * y /\ highs[c] = x * z
        BY <2>5
      <4> HIDE DEF x, y, z
      <4>2. x * y <= x * z /\ x * y \in Int /\ x * z \in Int
        BY <4>1, ProductsGrow
      <4> QED
        BY <4>1, <4>2
    <3> QED
      BY <2>8, <3>1, SumMonotone
  <2>12. a.low # None
    BY <2>1, <2>9, OutcomesAssumption
  <2>13. ~(\A c \in cs : Stale(c, mode))
    BY <1>3
  <2> HIDE DEF w, l, h
  <2> QED
    BY <2>1, <2>2, <2>4, <2>6, <2>7, <2>9, <2>10, <2>11, <2>12, <2>13
<1> QED
  BY <1>2, <1>3

-----------------------------------------------------------------------------
(* Lists in order. *)

\* A function on 1..n is a sequence of n elements.
LEMMA FunctionsAreSequences ==
    ASSUME NEW S, NEW n \in Nat, NEW s \in [1..n -> S]
    PROVE  s \in Seq(S) /\ Len(s) = n
<1>1. s \in Seq(S)
  OBVIOUS
<1> QED
  BY <1>1

\* The first n elements of a sequence.
LEMMA FirstElements ==
    ASSUME NEW S, NEW s \in Seq(S), NEW n \in Nat, n <= Len(s)
    PROVE  /\ SubSeq(s, 1, n) \in Seq(S)
           /\ Len(SubSeq(s, 1, n)) = n
           /\ \A i \in 1..n : SubSeq(s, 1, n)[i] = s[i]
<1>1. Len(s) \in Nat /\ \A i \in 1..n : s[i] \in S
  OBVIOUS
<1>2. 1 \in Int /\ n \in Int
  OBVIOUS
<1>3. Len(SubSeq(s, 1, n)) = n
  BY <1>1, <1>2
<1>4. \A i \in 1..n : SubSeq(s, 1, n)[i] = s[i]
  BY <1>1, <1>2
<1>5. SubSeq(s, 1, n) \in Seq(S)
  BY <1>1, <1>2
<1> QED
  BY <1>3, <1>4, <1>5

\* s has the elements of S by their ranks.
Ranked(s, R, S) ==
    s = [i \in 1..Cardinality(S) |-> CHOOSE c \in S : Preceding(R, S, c) = i - 1]

\* A finite ordered set is listed by the ranks of its members.
LEMMA ListedInOrder ==
    ASSUME NEW S, IsFiniteSet(S), NEW R, Orders(R, S), NEW s, Ranked(s, R, S)
    PROVE  /\ Cardinality(S) \in Nat
           /\ DOMAIN s = 1..Cardinality(S) /\ s \in Seq(S) /\ Len(s) = Cardinality(S)
           /\ \A i \in DOMAIN s : s[i] \in S
           /\ \A c \in S : \E i \in DOMAIN s : s[i] = c
           /\ \A i, j \in DOMAIN s : i < j => <<s[i], s[j]>> \in R
<1> DEFINE n == Cardinality(S)
<1>1. n \in Nat
  BY FS_CardinalityType
<1>2. /\ \A c \in S : Preceding(R, S, c) \in 0..(n - 1)
      /\ \A c, d \in S : <<c, d>> \in R <=> Preceding(R, S, c) < Preceding(R, S, d)
      /\ \A c, d \in S : Preceding(R, S, c) = Preceding(R, S, d) => c = d
      /\ \A k \in 0..(n - 1) : \E c \in S : Preceding(R, S, c) = k
  BY RanksAreNumbers
<1> HIDE DEF n
<1>3. s = [i \in 1..n |-> CHOOSE c \in S : Preceding(R, S, c) = i - 1]
  BY DEF n, Ranked
<1>4. ASSUME NEW i \in 1..n PROVE s[i] \in S /\ Preceding(R, S, s[i]) = i - 1
  <2>1. i - 1 \in 0..(n - 1)
    BY <1>1
  <2>2. \E c \in S : Preceding(R, S, c) = i - 1
    BY <1>2, <2>1
  <2> QED
    BY <1>3, <2>2
<1>5. DOMAIN s = 1..n
  BY <1>3
<1>6. ASSUME NEW c \in S PROVE \E i \in DOMAIN s : s[i] = c
  <2> DEFINE k == Preceding(R, S, c)
  <2>1. k \in 0..(n - 1)
    BY <1>2
  <2> HIDE DEF k
  <2>2. k + 1 \in 1..n /\ (k + 1) - 1 = k
    BY <1>1, <2>1
  <2>3. s[k + 1] \in S /\ Preceding(R, S, s[k + 1]) = k
    BY <1>4, <2>2
  <2>4. s[k + 1] = c
    BY <1>2, <2>3 DEF k
  <2> QED
    BY <1>5, <2>2, <2>4
<1>7. ASSUME NEW i \in 1..n, NEW j \in 1..n, i < j PROVE <<s[i], s[j]>> \in R
  <2>1. s[i] \in S /\ s[j] \in S
    BY <1>4
  <2>2. Preceding(R, S, s[i]) = i - 1
    BY <1>4
  <2>3. Preceding(R, S, s[j]) = j - 1
    BY <1>4
  <2>4. i - 1 < j - 1
    BY <1>1, <1>7
  <2> QED
    BY <1>2, <2>1, <2>2, <2>3, <2>4
<1>8. s \in Seq(S) /\ Len(s) = n
  <2>1. s \in [1..n -> S]
    BY <1>3, <1>4, <1>5
  <2> QED
    BY <1>1, <2>1, FunctionsAreSequences
<1> QED
  BY <1>1, <1>4, <1>5, <1>6, <1>7, <1>8 DEF n

\* TextBefore of two functions on 1..a and 1..b.
Less(s, a, t, b) ==
    \E n \in 0..a : /\ \A i \in 1..n : i \in 1..b /\ s[i] = t[i]
                    /\ n + 1 \in 1..b /\ (n = a \/ s[n + 1] < t[n + 1])

\* Texts are ordered as dictionaries order them.
LEMMA LessIsAnOrder ==
    ASSUME NEW a \in Nat, NEW b \in Nat, NEW e \in Nat,
           NEW s \in [1..a -> Int], NEW t \in [1..b -> Int], NEW u \in [1..e -> Int]
    PROVE  /\ ~Less(s, a, s, a)
           /\ s = t \/ Less(s, a, t, b) \/ Less(t, b, s, a)
           /\ Less(s, a, t, b) /\ Less(t, b, u, e) => Less(s, a, u, e)
<1>2. ~Less(s, a, s, a)
  BY DEF Less
<1>3. ASSUME s # t PROVE Less(s, a, t, b) \/ Less(t, b, s, a)
  <2> DEFINE D == {i \in Nat \ {0} : ~(i \in 1..a /\ i \in 1..b /\ s[i] = t[i])}
  <2>1. a + 1 \in D /\ D \in SUBSET Nat
    OBVIOUS
  <2>2. PICK m \in D : \A i \in D : m <= i
    <3> HIDE DEF D
    <3> QED
      BY <2>1, LeastExists
  <2> DEFINE n == m - 1
  <2>3. n \in Nat /\ m = n + 1 /\ m \in Nat
    OBVIOUS
  <2>4. \A i \in 1..n : i \in 1..a /\ i \in 1..b /\ s[i] = t[i]
    <3> SUFFICES ASSUME NEW i \in 1..n PROVE i \in 1..a /\ i \in 1..b /\ s[i] = t[i]
      OBVIOUS
    <3>1. i \in Nat \ {0} /\ i < m
      BY <2>3
    <3>2. i \notin D
      <4> HIDE DEF D
      <4>1. ASSUME i \in D PROVE FALSE
        <5>1. m <= i
          BY <2>2, <4>1
        <5> QED
          BY <2>3, <3>1, <5>1
      <4> QED
        BY <4>1
    <3> QED
      BY <3>1, <3>2
  <2>5. ~(m \in 1..a /\ m \in 1..b /\ s[m] = t[m])
    BY <2>2
  <2> HIDE DEF D, n
  <2>6. n <= a /\ n <= b
    <3>1. CASE n = 0
      BY <3>1
    <3>2. CASE n # 0
      <4>1. n \in 1..n
        BY <2>3, <3>2
      <4>2. n \in 1..a /\ n \in 1..b
        BY <2>4, <4>1
      <4> QED
        BY <4>2
    <3> QED
      BY <3>1, <3>2
  <2>60. n \in 0..a /\ n \in 0..b
    BY <2>3, <2>6
  <2>61. \A i \in 1..n : i \in 1..b /\ s[i] = t[i]
    BY <2>4
  <2>62. \A i \in 1..n : i \in 1..a /\ t[i] = s[i]
    BY <2>4
  <2>7. CASE m \in 1..a /\ m \in 1..b
    <3>0. s[m] \in Int /\ t[m] \in Int /\ s[m] # t[m]
      BY <2>5, <2>7
    <3>1. s[m] < t[m] \/ t[m] < s[m]
      BY <3>0
    <3>2. CASE s[m] < t[m]
      <4>1. n + 1 \in 1..b /\ s[n + 1] < t[n + 1]
        BY <2>3, <2>7, <3>2
      <4> QED
        BY <2>60, <2>61, <4>1 DEF Less
    <3>3. CASE t[m] < s[m]
      <4>1. n + 1 \in 1..a /\ t[n + 1] < s[n + 1]
        BY <2>3, <2>7, <3>3
      <4> QED
        BY <2>60, <2>62, <4>1 DEF Less
    <3> QED
      BY <3>1, <3>2, <3>3
  <2>8. CASE m \notin 1..a /\ m \in 1..b
    <3>1. n = a /\ n + 1 \in 1..b
      BY <2>3, <2>6, <2>8
    <3> QED
      BY <2>60, <2>61, <3>1 DEF Less
  <2>9. CASE m \in 1..a /\ m \notin 1..b
    <3>1. n = b /\ n + 1 \in 1..a
      BY <2>3, <2>6, <2>9
    <3> QED
      BY <2>60, <2>62, <3>1 DEF Less
  <2>10. CASE m \notin 1..a /\ m \notin 1..b
    <3>1. n = a /\ n = b
      BY <2>3, <2>6, <2>10
    <3>2. s \in [1..n -> Int] /\ t \in [1..n -> Int]
      BY <3>1
    <3>3. s = [i \in 1..n |-> s[i]] /\ t = [i \in 1..n |-> t[i]]
      BY <3>2
    <3>4. [i \in 1..n |-> s[i]] = [i \in 1..n |-> t[i]]
      BY <2>61
    <3>5. s = t
      BY <3>3, <3>4
    <3> QED
      BY <1>3, <3>5
  <2> QED
    BY <2>7, <2>8, <2>9, <2>10
<1>4. ASSUME Less(s, a, t, b), Less(t, b, u, e) PROVE Less(s, a, u, e)
  <2>1. PICK n \in 0..a :
           /\ \A i \in 1..n : i \in 1..b /\ s[i] = t[i]
           /\ n + 1 \in 1..b /\ (n = a \/ s[n + 1] < t[n + 1])
    BY <1>4 DEF Less
  <2>2. PICK k \in 0..b :
           /\ \A i \in 1..k : i \in 1..e /\ t[i] = u[i]
           /\ k + 1 \in 1..e /\ (k = b \/ t[k + 1] < u[k + 1])
    BY <1>4 DEF Less
  <2>3. CASE n <= k
    <3>1. \A i \in 1..n : i \in 1..e /\ s[i] = u[i]
      <4> SUFFICES ASSUME NEW i \in 1..n PROVE i \in 1..e /\ s[i] = u[i]
        OBVIOUS
      <4>1. i \in 1..k
        BY <2>3
      <4> QED
        BY <2>1, <2>2, <4>1
    <3>2. n + 1 \in 1..e
      BY <2>2, <2>3
    <3>3. n = a \/ s[n + 1] < u[n + 1]
      <4> SUFFICES ASSUME n # a PROVE s[n + 1] < u[n + 1]
        OBVIOUS
      <4>1. n + 1 \in 1..a /\ n + 1 \in 1..b /\ s[n + 1] < t[n + 1]
        BY <2>1
      <4>2. CASE n = k
        <5>1. k # b
          BY <4>1, <4>2
        <5>2. t[n + 1] < u[n + 1]
          BY <2>2, <4>2, <5>1
        <5>3. s[n + 1] \in Int /\ t[n + 1] \in Int /\ u[n + 1] \in Int
          BY <3>2, <4>1
        <5> QED
          BY <4>1, <5>2, <5>3
      <4>3. CASE n < k
        <5>1. n + 1 \in 1..k
          BY <4>3
        <5>2. t[n + 1] = u[n + 1]
          BY <2>2, <5>1
        <5> QED
          BY <4>1, <5>2
      <4> QED
        BY <2>3, <4>2, <4>3
    <3> QED
      BY <2>1, <3>1, <3>2, <3>3 DEF Less
  <2>4. CASE k < n
    <3>1. \A i \in 1..k : i \in 1..e /\ s[i] = u[i]
      <4> SUFFICES ASSUME NEW i \in 1..k PROVE i \in 1..e /\ s[i] = u[i]
        OBVIOUS
      <4>1. i \in 1..n
        BY <2>4
      <4> QED
        BY <2>1, <2>2, <4>1
    <3>2. k \in 0..a /\ k + 1 \in 1..n
      BY <2>4
    <3>3. s[k + 1] < u[k + 1]
      <4>1. k + 1 \in 1..b /\ s[k + 1] = t[k + 1]
        BY <2>1, <3>2
      <4>2. k # b
        BY <4>1
      <4> QED
        BY <2>2, <4>1, <4>2
    <3> QED
      BY <2>2, <3>1, <3>2, <3>3 DEF Less
  <2> QED
    BY <2>3, <2>4
<1> QED
  BY <1>2, <1>3, <1>4

\* TextBefore of the names of cafes is that order.
LEMMA TextsAreOrdered ==
    ASSUME NEW s \in Seq(Int), NEW t \in Seq(Int), NEW u \in Seq(Int)
    PROVE  /\ ~TextBefore(s, s)
           /\ s = t \/ TextBefore(s, t) \/ TextBefore(t, s)
           /\ TextBefore(s, t) /\ TextBefore(t, u) => TextBefore(s, u)
<1>1. \A x \in Seq(Int) : Len(x) \in Nat /\ DOMAIN x = 1..Len(x) /\ x \in [1..Len(x) -> Int]
  OBVIOUS
<1>2. \A x \in Seq(Int), y \in Seq(Int) : TextBefore(x, y) = Less(x, Len(x), y, Len(y))
  <2> SUFFICES ASSUME NEW x \in Seq(Int), NEW y \in Seq(Int)
               PROVE TextBefore(x, y) = Less(x, Len(x), y, Len(y))
    OBVIOUS
  <2>1. DOMAIN y = 1..Len(y)
    BY <1>1
  <2> QED
    BY <2>1, Zenon DEF TextBefore, Less
<1>3. /\ ~Less(s, Len(s), s, Len(s))
      /\ s = t \/ Less(s, Len(s), t, Len(t)) \/ Less(t, Len(t), s, Len(s))
      /\ Less(s, Len(s), t, Len(t)) /\ Less(t, Len(t), u, Len(u)) => Less(s, Len(s), u, Len(u))
  BY <1>1, LessIsAnOrder
<1> QED
  BY <1>2, <1>3, Zenon

\* At most limit of s.
FirstOf(answer, s, limit) == answer = IF Len(s) <= limit THEN s ELSE SubSeq(s, 1, limit)

\* Nothing left out of answer is before any of it, and it is in order.
BestOf(answer, R, S) ==
    /\ ToSet(answer) \subseteq S
    /\ \A i \in DOMAIN answer :
           /\ \A d \in S \ ToSet(answer) : <<d, answer[i]>> \notin R
           /\ \A j \in 1..(i - 1) : <<answer[j], answer[i]>> \in R

\* The first of an ordered list are the best of it, best first.
LEMMA FirstAreBest ==
    ASSUME NEW S, IsFiniteSet(S), NEW R, Orders(R, S), NEW s, NEW limit \in Nat, NEW answer, Ranked(s, R, S),
           FirstOf(answer, s, limit)
    PROVE  /\ BestOf(answer, R, S)
           /\ Len(answer) = IF Cardinality(S) < limit THEN Cardinality(S) ELSE limit
<1> DEFINE n == Cardinality(S)
           m == IF n < limit THEN n ELSE limit
<1>1. /\ n \in Nat /\ DOMAIN s = 1..n /\ s \in Seq(S) /\ Len(s) = n
      /\ \A i \in DOMAIN s : s[i] \in S
      /\ \A c \in S : \E i \in DOMAIN s : s[i] = c
      /\ \A i, j \in DOMAIN s : i < j => <<s[i], s[j]>> \in R
  BY ListedInOrder
<1> HIDE DEF n
<1>2. m \in Nat /\ m <= n /\ m <= limit
  BY <1>1
<1>3. Len(answer) = m /\ DOMAIN answer = 1..m /\ \A i \in 1..m : answer[i] = s[i]
  <2>1. CASE n <= limit
    <3>1. Len(s) <= limit
      BY <1>1, <2>1
    <3>2. answer = s
      BY <3>1 DEF FirstOf
    <3>3. m = n
      <4>1. n \in Nat
        BY <1>1
      <4> QED
        BY <2>1, <4>1 DEF m
    <3> QED
      BY <1>1, <3>2, <3>3
  <2>2. CASE ~(n <= limit)
    <3>0. Len(s) = n /\ s \in Seq(S) /\ n \in Nat
      BY <1>1
    <3>2. limit <= Len(s) /\ ~(Len(s) <= limit)
      BY <2>2, <3>0
    <3>1. answer = SubSeq(s, 1, limit) /\ m = limit
      BY <2>2, <3>0, <3>2 DEF FirstOf
    <3>3. answer \in Seq(S) /\ Len(answer) = limit /\ \A i \in 1..limit : answer[i] = s[i]
      <4>1. /\ SubSeq(s, 1, limit) \in Seq(S)
            /\ Len(SubSeq(s, 1, limit)) = limit
            /\ \A i \in 1..limit : SubSeq(s, 1, limit)[i] = s[i]
        BY <3>0, <3>2, FirstElements
      <4> QED
        BY <3>1, <4>1
    <3>4. DOMAIN answer = 1..limit
      BY <3>3
    <3> QED
      BY <3>1, <3>3, <3>4
  <2> QED
    BY <2>1, <2>2
<1> HIDE DEF m
<1>4. ToSet(answer) = {s[i] : i \in 1..m}
  BY <1>3 DEF ToSet
<1>5. \A i \in 1..m : i \in 1..n
  BY <1>1, <1>2
<1>6. ToSet(answer) \subseteq S
  BY <1>1, <1>4, <1>5
<1>7. ASSUME NEW i \in 1..m, NEW d \in S \ ToSet(answer) PROVE <<d, answer[i]>> \notin R
  <2>1. PICK k \in 1..n : s[k] = d
    BY <1>1
  <2>2. k \notin 1..m
    BY <1>4, <2>1
  <2>3. i < k /\ i \in 1..n
    BY <1>1, <1>2, <1>5, <2>2
  <2>4. <<answer[i], d>> \in R /\ answer[i] \in S
    BY <1>1, <1>3, <2>1, <2>3
  <2>5. ASSUME <<d, answer[i]>> \in R PROVE FALSE
    <3>1. <<d, d>> \in R
      BY <2>4, <2>5 DEF Orders
    <3> QED
      BY <3>1 DEF Orders
  <2> QED
    BY <2>5
<1>8. ASSUME NEW i \in 1..m, NEW j \in 1..(i - 1) PROVE <<answer[j], answer[i]>> \in R
  <2>1. j \in 1..m /\ j < i
    BY <1>2
  <2> QED
    BY <1>1, <1>3, <1>5, <2>1
<1> QED
  BY <1>3, <1>6, <1>7, <1>8 DEF m, n, BestOf

-----------------------------------------------------------------------------
(* Searches and listings. *)

\* Cafes as the table keeps them, an origin in whole or not at all.
SearchInput(cafes, origin, limit) ==
    /\ IsFiniteSet(cafes) /\ limit \in Nat
    /\ \A c \in cafes : {c.id, c.x, c.y} \subseteq Int /\ c.name \in Seq(Int)
    /\ \A c, d \in cafes : c.id = d.id => c = d
    /\ origin = None \/ origin.x = None \/ {origin.x, origin.y} \subseteq Int

\* The order of a search is one, whatever it is sorted by.
LEMMA SearchesAreOrdered ==
    ASSUME NEW cafes, NEW origin, NEW limit, SearchInput(cafes, origin, limit), NEW term, NEW S, S \subseteq cafes,
           NEW place, place = IF origin # None /\ origin.x # None THEN origin ELSE None
    PROVE  Orders({p \in S \X S : Before(p[1], p[2], term, place)}, S)
<1> DEFINE R == {p \in S \X S : Before(p[1], p[2], term, place)}
<1>1. \A c \in S : c.id \in Int /\ c.x \in Int /\ c.y \in Int /\ c.name \in Seq(Int)
  BY DEF SearchInput
<1>2. \A c, d \in S : c # d => c.id # d.id
  BY DEF SearchInput
<1>3. \A c, d \in S : <<c, d>> \in R <=> Before(c, d, term, place)
  OBVIOUS
<1>4. /\ \A c \in S : ~Before(c, c, term, place)
      /\ \A c, d \in S : c # d => Before(c, d, term, place) \/ Before(d, c, term, place)
      /\ \A c, d, e \in S : Before(c, d, term, place) /\ Before(d, e, term, place) => Before(c, e, term, place)
  <2>1. CASE place # None
    <3>1. place.x \in Int /\ place.y \in Int
      BY <2>1 DEF SearchInput
    <3> DEFINE far(c) == Squared(c, place)
    <3>2. \A c \in S : far(c) \in Int
      BY <1>1, <3>1 DEF Squared
    <3>3. \A c, d : Before(c, d, term, place) <=> far(c) < far(d) \/ (far(c) = far(d) /\ c.id < d.id)
      BY <2>1, Zenon DEF Before
    <3> HIDE DEF far
    <3>4. \A c \in S : ~Before(c, c, term, place)
      BY <1>1, <3>2, <3>3
    <3>5. \A c, d \in S : c # d => Before(c, d, term, place) \/ Before(d, c, term, place)
      BY <1>1, <1>2, <3>2, <3>3
    <3>6. \A c, d, e \in S : Before(c, d, term, place) /\ Before(d, e, term, place) => Before(c, e, term, place)
      BY <1>1, <3>2, <3>3
    <3> QED
      BY <3>4, <3>5, <3>6
  <2>2. CASE place = None
    <3> DEFINE r(c) == Relevance(c, term)
    <3>1. \A c : r(c) \in 0..3
      BY DEF Relevance
    <3>2. \A c, d : Before(c, d, term, place) <=>
              \/ r(c) < r(d)
              \/ r(c) = r(d) /\ TextBefore(c.name, d.name)
              \/ r(c) = r(d) /\ c.name = d.name /\ c.id < d.id
      BY <2>2, Zenon DEF Before
    <3> HIDE DEF r
    <3>3. ASSUME NEW c \in S PROVE ~Before(c, c, term, place)
      <4>1. ~TextBefore(c.name, c.name)
        BY <1>1, TextsAreOrdered
      <4> QED
        BY <1>1, <3>1, <3>2, <4>1
    <3>4. ASSUME NEW c \in S, NEW d \in S, c # d
          PROVE  Before(c, d, term, place) \/ Before(d, c, term, place)
      <4>1. c.name = d.name \/ TextBefore(c.name, d.name) \/ TextBefore(d.name, c.name)
        BY <1>1, TextsAreOrdered
      <4>2. c.id < d.id \/ d.id < c.id
        BY <1>1, <1>2, <3>4
      <4>3. r(c) < r(d) \/ r(d) < r(c) \/ r(c) = r(d)
        BY <3>1
      <4> QED
        BY <3>2, <4>1, <4>2, <4>3, Zenon
    <3>5. ASSUME NEW c \in S, NEW d \in S, NEW e \in S,
                 Before(c, d, term, place), Before(d, e, term, place)
          PROVE  Before(c, e, term, place)
      <4>1. /\ c.name = d.name /\ d.name = e.name => c.name = e.name
            /\ TextBefore(c.name, d.name) /\ TextBefore(d.name, e.name) => TextBefore(c.name, e.name)
            /\ c.name = d.name /\ TextBefore(d.name, e.name) => TextBefore(c.name, e.name)
            /\ TextBefore(c.name, d.name) /\ d.name = e.name => TextBefore(c.name, e.name)
        BY <1>1, TextsAreOrdered
      <4>2. CASE r(c) = r(d) /\ r(d) = r(e)
        <5>1. /\ TextBefore(c.name, d.name) \/ (c.name = d.name /\ c.id < d.id)
              /\ TextBefore(d.name, e.name) \/ (d.name = e.name /\ d.id < e.id)
          <6>1. ~(r(c) < r(d)) /\ ~(r(d) < r(e))
            BY <3>1, <4>2
          <6> QED
            BY <3>2, <3>5, <6>1, Zenon
        <5>2. c.id < d.id /\ d.id < e.id => c.id < e.id
          BY <1>1
        <5>3. r(c) = r(e)
          BY <4>2
        <5> QED
          BY <3>2, <4>1, <5>1, <5>2, <5>3, Zenon
      <4>3. CASE r(c) # r(d) \/ r(d) # r(e)
        <5>1. (r(c) < r(d) \/ r(c) = r(d)) /\ (r(d) < r(e) \/ r(d) = r(e))
          BY <3>2, <3>5, Zenon
        <5>2. r(c) < r(e)
          BY <3>1, <4>3, <5>1
        <5> QED
          BY <3>2, <5>2, Zenon
      <4> QED
        BY <4>2, <4>3
    <3> QED
      BY <3>3, <3>4, <3>5
  <2> QED
    BY <2>1, <2>2
<1> HIDE DEF R
<1>5. Orders(R, S)
  BY <1>3, <1>4, Zenon DEF Orders
<1> QED
  BY <1>5 DEF R

\* The terms of a brand are those of any of its aliases.
LEMMA AliasesMeanTheirBrand ==
    ASSUME NEW b \in DOMAIN Aliases, NEW alias \in ToSet(Aliases[b])
    PROVE  alias \notin {None, <<>>} /\ BrandSearchTerms(alias) = ToSet(Aliases[b])
<1> DEFINE known == {c \in DOMAIN Aliases : alias = c \/ alias \in ToSet(Aliases[c])}
           terms(c) == {alias} \cup ToSet(Aliases[c])
<1>1. known = {b}
  <2>1. ASSUME NEW c \in known PROVE c = b
    <3>1. c \in DOMAIN Aliases /\ alias \in ToSet(Aliases[c])
      BY ReadAssumption
    <3>2. c # b => ToSet(Aliases[c]) \cap ToSet(Aliases[b]) = {}
      BY <3>1, ReadAssumption
    <3> QED
      BY <3>1, <3>2
  <2> QED
    BY <2>1
<1>2. BrandSearchTerms(alias) = UNION {terms(c) : c \in known}
  BY Zenon DEF BrandSearchTerms
<1>3. terms(b) = ToSet(Aliases[b])
  OBVIOUS
<1> HIDE DEF known, terms
<1>4. UNION {terms(c) : c \in known} = terms(b)
  BY <1>1
<1>5. alias \notin {None, <<>>}
  BY ReadAssumption
<1> QED
  BY <1>2, <1>3, <1>4, <1>5, Zenon

\* A search returns the best of what it found, best first, and a brand by any
\* of its names finds the same (search_cafes, _brand_search_terms).
THEOREM SearchesReturnTheBest ==
    ASSUME NEW cafes, NEW q, NEW brand, NEW origin, NEW limit, SearchInput(cafes, origin, limit)
    PROVE  SearchIsBest(cafes, q, brand, origin, limit)
<1> DEFINE answer == SearchCafes(cafes, q, brand, origin, limit)
           term == IF q \in {None, <<>>} THEN brand ELSE q
           place == IF origin # None /\ origin.x # None THEN origin ELSE None
           found == Found(cafes, q, brand)
           R == {p \in found \X found : Before(p[1], p[2], term, place)}
           s == InOrder(found, LAMBDA c, d : Before(c, d, term, place))
<1>1. found \subseteq cafes
  BY DEF Found
<1>2. IsFiniteSet(cafes) /\ limit \in Nat
  BY DEF SearchInput
<1> SUFFICES ASSUME ~SearchInvalid(q, brand, origin)
             PROVE
            /\ ToSet(answer) \subseteq found
            /\ Len(answer) = IF Cardinality(found) < limit THEN Cardinality(found) ELSE limit
            /\ \A i \in DOMAIN answer :
                   /\ \A d \in found \ ToSet(answer) : ~Before(d, answer[i], term, place)
                   /\ \A j \in 1..(i - 1) : Before(answer[j], answer[i], term, place)
            /\ \A b \in DOMAIN Aliases : brand \in ToSet(Aliases[b]) =>
                   \A alias \in ToSet(Aliases[b]) : Found(cafes, q, alias) = found
  BY Zenon DEF SearchIsBest
<1>3. answer = IF Len(s) <= limit THEN s ELSE SubSeq(s, 1, limit)
  BY Zenon DEF SearchCafes
<1>4. s = [i \in 1..Cardinality(found) |->
              CHOOSE c \in found : Cardinality({d \in found : Before(d, c, term, place)}) = i - 1]
  BY Zenon DEF InOrder
<1> HIDE DEF answer, s
<1>5. ASSUME NEW b \in DOMAIN Aliases, brand \in ToSet(Aliases[b]), NEW alias \in ToSet(Aliases[b])
      PROVE  Found(cafes, q, alias) = found
  <2>1. /\ brand \notin {None, <<>>} /\ alias \notin {None, <<>>}
        /\ BrandSearchTerms(brand) = ToSet(Aliases[b]) /\ BrandSearchTerms(alias) = ToSet(Aliases[b])
    BY <1>5, AliasesMeanTheirBrand
  <2> QED
    BY <2>1, Zenon DEF Found
<1> HIDE DEF term
<1>6. place = IF origin # None /\ origin.x # None THEN origin ELSE None
  OBVIOUS
<1> HIDE DEF place
<1>7. Orders(R, found)
  <2> HIDE DEF found
  <2> QED
    BY <1>1, <1>6, SearchesAreOrdered
<1>8. \A c, d \in found : <<c, d>> \in R <=> Before(c, d, term, place)
  OBVIOUS
<1> HIDE DEF R
<1> HIDE DEF found
<1>9. Ranked(s, R, found)
  <2>1. \A c \in found : Cardinality({d \in found : Before(d, c, term, place)}) = Preceding(R, found, c)
    <3> SUFFICES ASSUME NEW c \in found
                 PROVE Cardinality({d \in found : Before(d, c, term, place)}) = Preceding(R, found, c)
      OBVIOUS
    <3>1. {d \in found : Before(d, c, term, place)} = {d \in found : <<d, c>> \in R}
      BY <1>8
    <3> QED
      BY <3>1 DEF Preceding
  <2> DEFINE x(i) == CHOOSE c \in found : Cardinality({d \in found : Before(d, c, term, place)}) = i - 1
             y(i) == CHOOSE c \in found : Preceding(R, found, c) = i - 1
  <2>2. \A i : x(i) = y(i)
    BY <2>1
  <2>3. s = [i \in 1..Cardinality(found) |-> x(i)]
    BY <1>4
  <2>4. s = [i \in 1..Cardinality(found) |-> y(i)]
    <3> HIDE DEF x, y
    <3> QED
      BY <2>2, <2>3
  <2> QED
    BY <2>4 DEF Ranked
<1>10. IsFiniteSet(found)
  BY <1>1, <1>2, FS_Subset
<1>11. /\ ToSet(answer) \subseteq found
       /\ Len(answer) = IF Cardinality(found) < limit THEN Cardinality(found) ELSE limit
       /\ \A i \in DOMAIN answer :
              /\ \A d \in found \ ToSet(answer) : <<d, answer[i]>> \notin R
              /\ \A j \in 1..(i - 1) : <<answer[j], answer[i]>> \in R
  <2>1. limit \in Nat
    BY <1>2
  <2>2. IsFiniteSet(found) /\ Orders(R, found) /\ Ranked(s, R, found)
    BY <1>7, <1>9, <1>10
  <2>3. FirstOf(answer, s, limit)
    BY <1>3 DEF FirstOf
  <2>4. /\ BestOf(answer, R, found)
        /\ Len(answer) = IF Cardinality(found) < limit THEN Cardinality(found) ELSE limit
    BY <2>1, <2>2, <2>3, FirstAreBest
  <2> QED
    BY <2>4 DEF BestOf
<1>12. ASSUME NEW i \in DOMAIN answer
       PROVE  /\ \A d \in found \ ToSet(answer) : ~Before(d, answer[i], term, place)
              /\ \A j \in 1..(i - 1) : Before(answer[j], answer[i], term, place)
  <2>1. answer[i] \in found
    BY <1>11 DEF ToSet
  <2>2. ASSUME NEW d \in found \ ToSet(answer) PROVE ~Before(d, answer[i], term, place)
    BY <1>8, <1>11, <2>1
  <2>3. ASSUME NEW j \in 1..(i - 1) PROVE Before(answer[j], answer[i], term, place)
    <3>1. <<answer[j], answer[i]>> \in R
      BY <1>11
    <3> QED
      BY <3>1 DEF R
  <2> QED
    BY <2>2, <2>3
<1> QED
  BY <1>5, <1>11, <1>12

\* Cafes as the table keeps them.
ListingInput(cafes) ==
    /\ IsFiniteSet(cafes)
    /\ \A c \in cafes : c.id \in Int
    /\ \A c, d \in cafes : c.id = d.id => c = d

\* A listing is all of the box that is confident enough, by id, or nothing
\* (list_cafes, list_cafe_summaries).
THEOREM ListingsAreWhole ==
    ASSUME NEW cafes, NEW b, NEW minConf, ListingInput(cafes)
    PROVE  ListingIsWhole(cafes, b, minConf)
<1> DEFINE listed == ListCafes(cafes, b, minConf)
           inside == {d \in cafes : Inside(b, d) /\ Confident(Item(d).confidence, minConf)}
           wanted == {c.id : c \in inside}
           read == {c \in cafes : Inside(b, c) /\ Confident(StoredConfidence(c), minConf)}
           kept == {i \in {Item(c) : c \in read} : Confident(i.confidence, minConf)}
           truncated == Cardinality(read) > MaxCafesPerViewport
           s == InOrder(kept, LAMBDA i, j : i.id < j.id)
           R == {p \in kept \X kept : p[1].id < p[2].id}
<1> SUFFICES ASSUME ~listed.truncated
             PROVE  /\ {i.id : i \in ToSet(listed.items)} = wanted
                    /\ \A i, j \in DOMAIN listed.items : i < j => listed.items[i].id < listed.items[j].id
  <2>1. listed = [truncated |-> truncated, items |-> IF truncated THEN <<>> ELSE s]
    BY Zenon DEF ListCafes
  <2>2. listed.truncated => listed.items = <<>>
    <3> HIDE DEF truncated, s, listed
    <3> QED
      BY <2>1
  <2> HIDE DEF listed
  <2> QED
    BY <2>2, Zenon DEF ListingIsWhole, listed
<1>1. listed = [truncated |-> truncated, items |-> IF truncated THEN <<>> ELSE s]
  BY Zenon DEF ListCafes
<1>2. listed.items = s
  <2> HIDE DEF listed, s, truncated
  <2> QED
    BY <1>1
<1>3. \A c : Item(c).id = c.id
  BY DEF Item
<1>4. \A c : Confident(Item(c).confidence, minConf) => Confident(StoredConfidence(c), minConf)
  <2> SUFFICES ASSUME NEW c, Confident(Item(c).confidence, minConf)
               PROVE Confident(StoredConfidence(c), minConf)
    OBVIOUS
  <2>1. Item(c).confidence \in {None, StoredConfidence(c)}
    <3>1. CASE c.score = None
      BY <3>1 DEF Item, StoredConfidence
    <3>2. CASE c.score # None
      BY <3>2 DEF Item, StoredConfidence
    <3> QED
      BY <3>1, <3>2
  <2>2. CASE Item(c).confidence = None
    BY <2>2 DEF Confident
  <2>3. CASE Item(c).confidence # None
    BY <2>1, <2>3
  <2> QED
    BY <2>2, <2>3
<1>5. kept = {Item(c) : c \in inside}
  <2>1. inside \subseteq read /\ \A c \in read : Confident(Item(c).confidence, minConf) => c \in inside
    BY <1>4
  <2>2. \A c \in inside : Confident(Item(c).confidence, minConf)
    OBVIOUS
  <2> HIDE DEF inside, read
  <2> QED
    BY <2>1, <2>2
<1>6. IsFiniteSet(kept)
  <2>1. IsFiniteSet(inside)
    <3>1. inside \subseteq cafes
      OBVIOUS
    <3> HIDE DEF inside
    <3> QED
      BY <3>1, FS_Subset DEF ListingInput
  <2> DEFINE m == [c \in inside |-> Item(c)]
  <2>2. kept = {m[c] : c \in inside}
    BY <1>5
  <2> HIDE DEF inside, kept, m
  <2> QED
    BY <2>1, <2>2, ImagesAreFinite
<1>7. \A i \in kept : i.id \in Int
  <2> SUFFICES ASSUME NEW c \in inside PROVE Item(c).id \in Int
    <3> HIDE DEF inside, kept
    <3> QED
      BY <1>5
  <2> QED
    BY <1>3 DEF ListingInput
<1>8. \A i, j \in kept : i.id = j.id => i = j
  <2> SUFFICES ASSUME NEW c \in inside, NEW d \in inside, Item(c).id = Item(d).id PROVE Item(c) = Item(d)
    <3> HIDE DEF inside, kept
    <3> QED
      BY <1>5
  <2>1. c \in cafes /\ d \in cafes /\ c.id = d.id
    BY <1>3
  <2>2. c = d
    BY <2>1 DEF ListingInput
  <2> QED
    BY <2>2
<1>9. s = [i \in 1..Cardinality(kept) |->
              CHOOSE c \in kept : Cardinality({d \in kept : d.id < c.id}) = i - 1]
  BY Zenon DEF InOrder
<1>10. wanted = {i.id : i \in kept}
  <2>1. \A c \in inside : Item(c).id = c.id
    BY <1>3
  <2> HIDE DEF inside, kept
  <2> QED
    BY <1>5, <2>1
<1>11. \A c, d \in kept : <<c, d>> \in R <=> c.id < d.id
  OBVIOUS
<1> HIDE DEF listed, s, wanted, kept, R
<1>12. Orders(R, kept)
  <2>1. \A c \in kept : ~(c.id < c.id)
    BY <1>7
  <2>2. \A c, d \in kept : c # d => c.id < d.id \/ d.id < c.id
    BY <1>7, <1>8
  <2>3. \A c, d, e \in kept : c.id < d.id /\ d.id < e.id => c.id < e.id
    BY <1>7
  <2> QED
    BY <1>11, <2>1, <2>2, <2>3, Zenon DEF Orders
<1>13. Ranked(s, R, kept)
  <2>1. \A c \in kept : Cardinality({d \in kept : d.id < c.id}) = Preceding(R, kept, c)
    <3> SUFFICES ASSUME NEW c \in kept
                 PROVE Cardinality({d \in kept : d.id < c.id}) = Preceding(R, kept, c)
      OBVIOUS
    <3>1. {d \in kept : d.id < c.id} = {d \in kept : <<d, c>> \in R}
      BY <1>11
    <3> QED
      BY <3>1 DEF Preceding
  <2> DEFINE x(i) == CHOOSE c \in kept : Cardinality({d \in kept : d.id < c.id}) = i - 1
             y(i) == CHOOSE c \in kept : Preceding(R, kept, c) = i - 1
  <2>2. \A i : x(i) = y(i)
    BY <2>1
  <2>3. s = [i \in 1..Cardinality(kept) |-> x(i)]
    BY <1>9
  <2>4. s = [i \in 1..Cardinality(kept) |-> y(i)]
    <3> HIDE DEF x, y
    <3> QED
      BY <2>2, <2>3
  <2> QED
    BY <2>4 DEF Ranked
<1>14. /\ \A i \in DOMAIN s : s[i] \in kept
       /\ \A c \in kept : \E i \in DOMAIN s : s[i] = c
       /\ \A i, j \in DOMAIN s : i < j => <<s[i], s[j]>> \in R
  BY <1>6, <1>12, <1>13, ListedInOrder
<1>15. ToSet(s) = kept
  BY <1>14 DEF ToSet
<1>16. \A i, j \in DOMAIN s : i < j => s[i].id < s[j].id
  BY <1>11, <1>14
<1> QED
  BY <1>2, <1>10, <1>15, <1>16

-----------------------------------------------------------------------------
(* Matching. *)

\* What is one to one: a pair was possible, neither side of it has another, and
\* who is matched is not among the unmatched.
LEMMA MatchesAreOneToOne ==
    ASSUME NEW C, NEW P, NEW potential
    PROVE  LET r == OneToOne(C, P, potential) IN
           /\ r.matches \subseteq C \X P /\ r.matches \subseteq potential
           /\ \A m, n \in r.matches : m[1] = n[1] \/ m[2] = n[2] => m = n
           /\ r.unmatched \subseteq C
           /\ \A m \in r.matches : m[1] \notin r.unmatched
<1> DEFINE r == OneToOne(C, P, potential)
           of(c) == {p \in P : <<c, p>> \in potential}
           claims(p) == {c \in C : <<c, p>> \in potential}
           sure == {m \in C \X P : of(m[1]) = {m[2]} /\ claims(m[2]) = {m[1]}}
           unmatched == {c \in C : of(c) = {}}
<1>1. r.matches = sure /\ r.unmatched = unmatched
  BY Zenon DEF OneToOne
<1>2. ASSUME NEW m \in sure
      PROVE  /\ m \in C \X P /\ m \in potential /\ m = <<m[1], m[2]>>
             /\ of(m[1]) = {m[2]} /\ claims(m[2]) = {m[1]} /\ m[1] \notin unmatched
  <2>1. m \in C \X P /\ m = <<m[1], m[2]>>
    OBVIOUS
  <2>2. of(m[1]) = {m[2]} /\ claims(m[2]) = {m[1]}
    BY Zenon
  <2>3. <<m[1], m[2]>> \in potential
    BY <2>2, Zenon
  <2> HIDE DEF sure
  <2>4. m \in potential
    BY <2>1, <2>3, Zenon
  <2>5. m[1] \notin unmatched
    BY <2>2, Zenon
  <2> QED
    BY <2>1, <2>2, <2>4, <2>5, Zenon
<1> HIDE DEF sure, of, claims, unmatched
<1>3. ASSUME NEW m \in sure, NEW n \in sure, m[1] = n[1] \/ m[2] = n[2]
      PROVE  m = n
  <2>1. m[1] = n[1] /\ m[2] = n[2]
    <3>1. CASE m[1] = n[1]
      <4>1. {m[2]} = {n[2]}
        BY <1>2, <3>1, Zenon
      <4> QED
        BY <3>1, <4>1
    <3>2. CASE m[2] = n[2]
      <4>1. {m[1]} = {n[1]}
        BY <1>2, <3>2, Zenon
      <4> QED
        BY <3>2, <4>1
    <3> QED
      BY <1>3, <3>1, <3>2
  <2>2. m = <<m[1], m[2]>> /\ n = <<n[1], n[2]>>
    BY <1>2
  <2> QED
    BY <2>1, <2>2, Zenon
<1>4. unmatched \subseteq C
  BY DEF unmatched
<1> QED
  BY <1>1, <1>2, <1>3, <1>4, Zenon

\* Among finitely many matches there are as many as on either side of them.
LEMMA MatchesAreCounted ==
    ASSUME NEW C, NEW P, NEW M \in SUBSET (C \X P), IsFiniteSet(C), IsFiniteSet(P)
    PROVE  IsFiniteSet(M)
<1>1. IsFiniteSet(C \X P)
  BY FS_Product
<1> QED
  BY <1>1, FS_Subset

\* Ids that are as many as their records tell the records apart.
LEMMA DistinctTellsApart ==
    ASSUME NEW S, IsFiniteSet(S), Distinct(S)
    PROVE  \A r, s \in S : r.id = s.id => r = s
<1> DEFINE ids == {r.id : r \in S}
           f == [r \in S |-> r.id]
<1>1. f \in Surjection(S, ids)
  BY DEF Surjection
<1>2. Cardinality(S) = Cardinality(ids)
  BY DEF Distinct
<1>3. f \in Injection(S, ids)
  BY <1>1, <1>2, FS_SurjSameCardinalityImpliesInj
<1>4. \A r, s \in S : f[r] = f[s] => r = s
  BY <1>3, Zenon DEF Injection, IsInjective
<1> QED
  BY <1>4

\* And the other way round.
LEMMA ToldApartAreDistinct ==
    ASSUME NEW S, IsFiniteSet(S), \A r, s \in S : r.id = s.id => r = s
    PROVE  Distinct(S)
<1> DEFINE ids == {r.id : r \in S}
           f == [r \in S |-> r.id]
<1>1. f \in Surjection(S, ids)
  BY DEF Surjection
<1>2. f \in Injection(S, ids)
  BY <1>1 DEF Injection, IsInjective, Surjection
<1>3. f \in Bijection(S, ids)
  BY <1>1, <1>2 DEF Bijection
<1>4. Cardinality(ids) = Cardinality(S)
  BY <1>3, FS_Bijection DEF ExistsBijection
<1> QED
  BY <1>4 DEF Distinct

\* No cafe is verified for two permits and no permit by two cafes, whatever
\* candidates the permits are given.
THEOREM PermitsAreVerifiedOnce ==
    ASSUME NEW given, \A p \in DOMAIN given : IsFiniteSet(given[p])
    PROVE  PermitsVerifiedOnce(given)
<1> DEFINE strong(p) == {c \in given[p] : Corroborated(p, c)}
           sure == {p \in DOMAIN given : Cardinality(strong(p)) = 1}
<1>1. VerifiedPermits(given) = {m \in UNION {{p} \X strong(p) : p \in sure} :
                                   \A p \in sure : strong(p) = {m[2]} => p = m[1]}
  BY Zenon DEF VerifiedPermits
<1>2. ASSUME NEW p \in sure
      PROVE  \E c : strong(p) = {c}
  <2>1. IsFiniteSet(strong(p))
    BY FS_Subset
  <2>2. Cardinality(strong(p)) = 1
    OBVIOUS
  <2> HIDE DEF strong
  <2> QED
    BY <2>1, <2>2, FS_Singleton
<1>3. ASSUME NEW m \in VerifiedPermits(given)
      PROVE  /\ m[1] \in sure /\ strong(m[1]) = {m[2]}
             /\ \A p \in sure : strong(p) = {m[2]} => p = m[1]
             /\ m = <<m[1], m[2]>>
  <2>1. PICK p \in sure : m \in {p} \X strong(p)
    BY <1>1
  <2> HIDE DEF strong, sure
  <2>2. m = <<m[1], m[2]>> /\ m[1] = p /\ m[2] \in strong(p)
    BY <2>1
  <2>3. strong(p) = {m[2]}
    BY <1>2, <2>2
  <2>4. \A q \in sure : strong(q) = {m[2]} => q = m[1]
    BY <1>1, Zenon
  <2> QED
    BY <2>2, <2>3, <2>4, Zenon
<1> HIDE DEF strong, sure
<1>4. ASSUME NEW m \in VerifiedPermits(given), NEW n \in VerifiedPermits(given)
      PROVE  m[1] = n[1] <=> m[2] = n[2]
  <2>1. CASE m[1] = n[1]
    <3>1. {m[2]} = {n[2]}
      BY <1>3, <2>1, Zenon
    <3> QED
      BY <2>1, <3>1
  <2>2. CASE m[2] = n[2]
    BY <1>3, <2>2, Zenon
  <2> QED
    BY <2>1, <2>2
<1> QED
  BY <1>4, Zenon DEF PermitsVerifiedOnce

\* The expansion makes no cafe of a place that would be reconciled with one that
\* is there, and repeats nothing.
THEOREM ExpansionsAddOnce ==
    ASSUME NEW kakao, NEW catalog, NEW used
    PROVE  ExpandsOnce(kakao, catalog, used)
<1> DEFINE new == Expansion(kakao, catalog, used)
           known(k) == \E c \in catalog :
               \/ k.at = c.at
               \/ Strong(k, c)
               \/ SameName(k, c) /\ AddressCores(k) \cap AddressCores(c) # {}
           target == {k \in kakao : (\E x \in k.addrs : x.seoul) /\ k.at \in SeoulBox}
           once == {k \in target : \A l \in target : l.id = k.id => l = k}
<1>1. \A u : Expansion(kakao, catalog, u) = {k \in once : k.id \notin u /\ ~known(k)}
  BY Zenon DEF Expansion
<1> HIDE DEF once
<1>2. \A k \in new : k \in once /\ k.id \notin used /\ ~known(k)
  <2> HIDE DEF known
  <2> QED
    BY <1>1
<1>0. \A k \in new, c \in catalog : ~Strong(k, c)
  <2> HIDE DEF new
  <2> QED
    BY <1>2, Zenon
<1>3. \A m \in Reconcile(new, catalog).matches : FALSE
  <2> DEFINE strong == {m \in new \X catalog : Strong(m[1], m[2])}
  <2>1. Reconcile(new, catalog).matches \subseteq strong
    <3> HIDE DEF new
    <3> QED
      BY MatchesAreOneToOne, Zenon DEF Reconcile
  <2>2. strong = {}
    <3> HIDE DEF new
    <3> QED
      BY <1>0
  <2> QED
    BY <2>1, <2>2, Zenon
<1>4. Expansion(kakao, catalog, used \cup {k.id : k \in new}) = {}
  <2> DEFINE again == Expansion(kakao, catalog, used \cup {k.id : k \in new})
  <2>1. again = {k \in once : k.id \notin used \cup {l.id : l \in new} /\ ~known(k)}
    BY <1>1, Zenon
  <2>2. \A k \in once : k.id \notin used /\ ~known(k) => k \in new
    <3> HIDE DEF known
    <3> QED
      BY <1>1
  <2> HIDE DEF new, known
  <2>3. \A k : k \notin again
    <3> HIDE DEF again
    <3> QED
      BY <2>1, <2>2
  <2> QED
    BY <2>3, Zenon
<1> QED
  BY <1>3, <1>4, Zenon DEF ExpandsOnce

\* The fields of a reference, and when two are one.
LEMMA RefsAreTold ==
    /\ \A origin, owner, provider, place :
          LET r == Ref(origin, owner, provider, place) IN
          r.origin = origin /\ r.owner = owner /\ r.provider = provider /\ r.place = place
    /\ "kakao" # "naver" /\ "overture" # "permit"
  BY DEF Ref

\* The three matchings after one another, pairs of spatial (place, record),
\* identity (record, place) and permit (permit, place): a place is linked once,
\* and so is an owner.
LEMMA MatchingsAreDisjoint ==
    ASSUME NEW spatial, NEW identity, NEW permit, NEW unmatched,
           \A m, n \in spatial : m[1] = n[1] \/ m[2] = n[2] => m = n,
           \A m, n \in identity : m[1] = n[1] \/ m[2] = n[2] => m = n,
           \A m, n \in permit : m[1] = n[1] \/ m[2] = n[2] => m = n,
           \A m \in spatial : m[1] \notin unmatched,
           \A m \in identity : /\ m[2] \in unmatched
                               /\ \A n \in permit : m[2] # n[2]
                               /\ \A n \in spatial : m[1] # n[2],
           \A m \in permit : m[2] \in unmatched
    PROVE  LET triples == {<<"overture", m[2], m[1]>> : m \in spatial}
                        \cup {<<"overture", m[1], m[2]>> : m \in identity}
                        \cup {<<"permit", m[1], m[2]>> : m \in permit}
           IN  /\ \A t, u \in triples : t[3] = u[3] => t = u
               /\ \A t, u \in triples : t[1] = u[1] /\ t[2] = u[2] => t = u
<1> DEFINE A == {<<"overture", m[2], m[1]>> : m \in spatial}
           B == {<<"overture", m[1], m[2]>> : m \in identity}
           D == {<<"permit", m[1], m[2]>> : m \in permit}
           triples == A \cup B \cup D
<1>1. /\ \A t \in A : \E m \in spatial : t = <<"overture", m[2], m[1]>>
      /\ \A t \in B : \E m \in identity : t = <<"overture", m[1], m[2]>>
      /\ \A t \in D : \E m \in permit : t = <<"permit", m[1], m[2]>>
  BY Zenon
<1> HIDE DEF A, B, D
<1>2. ASSUME NEW t \in triples, NEW u \in triples, t[3] = u[3] \/ (t[1] = u[1] /\ t[2] = u[2])
      PROVE  t = u
  <2>1. CASE t \in A
    <3>1. PICK m \in spatial : t = <<"overture", m[2], m[1]>>
      BY <1>1, <2>1
    <3>2. CASE u \in A
      <4>1. PICK n \in spatial : u = <<"overture", n[2], n[1]>>
        BY <1>1, <3>2
      <4>2. m = n
        BY <1>2, <3>1, <4>1
      <4> QED
        BY <3>1, <4>1, <4>2
    <3>3. CASE u \in B
      <4>1. PICK n \in identity : u = <<"overture", n[1], n[2]>>
        BY <1>1, <3>3
      <4> QED
        BY <1>2, <3>1, <4>1
    <3>4. CASE u \in D
      <4>1. PICK n \in permit : u = <<"permit", n[1], n[2]>>
        BY <1>1, <3>4
      <4> QED
        BY <1>2, <3>1, <4>1
    <3> QED
      BY <3>2, <3>3, <3>4
  <2>2. CASE t \in B
    <3>1. PICK m \in identity : t = <<"overture", m[1], m[2]>>
      BY <1>1, <2>2
    <3>2. CASE u \in A
      <4>1. PICK n \in spatial : u = <<"overture", n[2], n[1]>>
        BY <1>1, <3>2
      <4> QED
        BY <1>2, <3>1, <4>1
    <3>3. CASE u \in B
      <4>1. PICK n \in identity : u = <<"overture", n[1], n[2]>>
        BY <1>1, <3>3
      <4>2. m = n
        BY <1>2, <3>1, <4>1
      <4> QED
        BY <3>1, <4>1, <4>2
    <3>4. CASE u \in D
      <4>1. PICK n \in permit : u = <<"permit", n[1], n[2]>>
        BY <1>1, <3>4
      <4> QED
        BY <1>2, <3>1, <4>1
    <3> QED
      BY <3>2, <3>3, <3>4
  <2>3. CASE t \in D
    <3>1. PICK m \in permit : t = <<"permit", m[1], m[2]>>
      BY <1>1, <2>3
    <3>2. CASE u \in A
      <4>1. PICK n \in spatial : u = <<"overture", n[2], n[1]>>
        BY <1>1, <3>2
      <4> QED
        BY <1>2, <3>1, <4>1
    <3>3. CASE u \in B
      <4>1. PICK n \in identity : u = <<"overture", n[1], n[2]>>
        BY <1>1, <3>3
      <4> QED
        BY <1>2, <3>1, <4>1
    <3>4. CASE u \in D
      <4>1. PICK n \in permit : u = <<"permit", n[1], n[2]>>
        BY <1>1, <3>4
      <4>2. m = n
        BY <1>2, <3>1, <4>1
      <4> QED
        BY <3>1, <4>1, <4>2
    <3> QED
      BY <3>2, <3>3, <3>4
  <2> QED
    BY <2>1, <2>2, <2>3
<1> HIDE DEF triples
<1>3. /\ \A t, u \in triples : t[3] = u[3] => t = u
      /\ \A t, u \in triples : t[1] = u[1] /\ t[2] = u[2] => t = u
  BY <1>2
<1> QED
  BY <1>3, Zenon DEF triples, A, B, D

\* What the three matchings of a build give, for any sets.
LEMMA MatchingsOfABuild ==
    ASSUME NEW overture, NEW permits, NEW kakao
    PROVE  LET spatial == Reconcile(kakao, overture)
               eligible == {p \in permits : p.id \notin UNION {o.permits : o \in overture}}
               permit == Reconcile(eligible, spatial.unmatched)
               inputs == IdentityInputs(overture, kakao, spatial, permit)
               identity == ExactIdentities(inputs[1], inputs[2])
           IN  /\ spatial.matches \subseteq kakao \X overture
               /\ permit.matches \subseteq eligible \X spatial.unmatched
               /\ identity.matches \subseteq overture \X spatial.unmatched
               /\ spatial.unmatched \subseteq kakao
               /\ \A m, n \in spatial.matches : m[1] = n[1] \/ m[2] = n[2] => m = n
               /\ \A m, n \in identity.matches : m[1] = n[1] \/ m[2] = n[2] => m = n
               /\ \A m, n \in permit.matches : m[1] = n[1] \/ m[2] = n[2] => m = n
               /\ \A m \in spatial.matches : m[1] \notin spatial.unmatched
               /\ \A m \in identity.matches : /\ \A n \in permit.matches : m[2] # n[2]
                                              /\ \A n \in spatial.matches : m[1] # n[2]
<1> DEFINE spatial == Reconcile(kakao, overture)
           eligible == {p \in permits : p.id \notin UNION {o.permits : o \in overture}}
           permit == Reconcile(eligible, spatial.unmatched)
           inputs == IdentityInputs(overture, kakao, spatial, permit)
           identity == ExactIdentities(inputs[1], inputs[2])
           placed == {m[2] : m \in spatial.matches}
           taken == {m[2] : m \in permit.matches}
<1>1. /\ inputs[1] = overture \ placed
      /\ inputs[2] = spatial.unmatched \ taken
  <2>1. inputs = <<overture \ placed, spatial.unmatched \ taken>>
    BY Zenon DEF IdentityInputs
  <2> HIDE DEF inputs, placed, taken, spatial
  <2> QED
    BY <2>1
<1>2. /\ spatial.matches \subseteq kakao \X overture
      /\ spatial.unmatched \subseteq kakao
      /\ \A m, n \in spatial.matches : m[1] = n[1] \/ m[2] = n[2] => m = n
      /\ \A m \in spatial.matches : m[1] \notin spatial.unmatched
  BY MatchesAreOneToOne, Zenon DEF Reconcile
<1> HIDE DEF spatial, eligible
<1>3. /\ permit.matches \subseteq eligible \X spatial.unmatched
      /\ \A m, n \in permit.matches : m[1] = n[1] \/ m[2] = n[2] => m = n
  BY MatchesAreOneToOne, Zenon DEF Reconcile
<1> HIDE DEF permit, inputs
<1>4. /\ identity.matches \subseteq inputs[1] \X inputs[2]
      /\ \A m, n \in identity.matches : m[1] = n[1] \/ m[2] = n[2] => m = n
  BY MatchesAreOneToOne, Zenon DEF ExactIdentities
<1> HIDE DEF identity
<1>5. /\ \A n \in spatial.matches : n[2] \in placed
      /\ \A n \in permit.matches : n[2] \in taken
  BY Zenon
<1> HIDE DEF placed, taken
<1>6. identity.matches \subseteq overture \X spatial.unmatched
  BY <1>1, <1>4
<1>7. \A m \in identity.matches : /\ \A n \in permit.matches : m[2] # n[2]
                                  /\ \A n \in spatial.matches : m[1] # n[2]
  BY <1>1, <1>4, <1>5
<1> QED
  BY <1>2, <1>3, <1>4, <1>6, <1>7, Zenon DEF identity, inputs, permit, eligible, spatial

\* Images of a finite set under what tells its members apart.
LEMMA ImagesAreAsMany ==
    ASSUME NEW S, IsFiniteSet(S), NEW f, f \in [S -> {f[x] : x \in S}],
           \A x, y \in S : f[x] = f[y] => x = y
    PROVE  IsFiniteSet({f[x] : x \in S}) /\ Cardinality({f[x] : x \in S}) = Cardinality(S)
<1>1. f \in Bijection(S, {f[x] : x \in S})
  BY DEF Bijection, Injection, Surjection, IsInjective
<1> QED
  BY <1>1, FS_Bijection DEF ExistsBijection

\* What a build hands on reads back: no place has two owners, no owner two places
\* of a provider, and every link is counted once.
LEMMA BuildsReadBack ==
    ASSUME NEW overture, NEW permits, NEW kakao,
           IsFiniteSet(overture), IsFiniteSet(permits), IsFiniteSet(kakao),
           \A p \in permits : p.at \in SeoulBox,
           ProviderCatalog(overture, permits, kakao) # None
    PROVE  LET build == ProviderCatalog(overture, permits, kakao) IN
           ReadsBack(build) /\ \A c \in build.new, o \in overture : c.id \notin o.permits
<1> DEFINE spatial == Reconcile(kakao, overture)
           eligible == {p \in permits : p.id \notin UNION {o.permits : o \in overture}}
           permit == Reconcile(eligible, spatial.unmatched)
           inputs == IdentityInputs(overture, kakao, spatial, permit)
           identity == ExactIdentities(inputs[1], inputs[2])
           SM == spatial.matches
           IM == identity.matches
           PM == permit.matches
           A == {Ref("overture", m[2].id, "kakao", m[1].id) : m \in SM}
           B == {Ref("overture", m[1].id, "kakao", m[2].id) : m \in IM}
           N == {Ref("overture", o.id, "naver", NaverOf(o)) : o \in {r \in overture : NaverOf(r) # None}}
           refs == A \cup B \cup N
           New(m) == [id |-> m[1].id, at |-> m[1].at,
                      refs |-> {Ref("permit", m[1].id, "kakao", m[2].id)}]
           new == {[id |-> m[1].id, at |-> m[1].at,
                    refs |-> {Ref("permit", m[1].id, "kakao", m[2].id)}] : m \in PM}
           sane == /\ Distinct(overture) /\ Distinct(permits) /\ Distinct(kakao)
                   /\ \A k \in kakao : k.ce7
                   /\ \A r \in refs : Cardinality({s.owner : s \in Owners(refs, r)}) = 1
           naver == Cardinality({r \in refs : r.provider = "naver"})
           build == ProviderCatalog(overture, permits, kakao)
           all == build.refs \cup UNION {c.refs : c \in build.new}
<1>1. build = IF sane THEN [refs |-> refs, new |-> new, naver |-> naver,
                            kakao |-> Cardinality(SM) + Cardinality(IM)]
              ELSE None
  BY Zenon DEF ProviderCatalog
<1>2. sane
  BY <1>1, Zenon
<1>3. /\ build.refs = refs /\ build.new = new /\ build.naver = naver
      /\ build.kakao = Cardinality(SM) + Cardinality(IM)
  <2> HIDE DEF refs, new, naver, SM, IM, sane
  <2> QED
    BY <1>1, <1>2
<1>4. /\ SM \subseteq kakao \X overture /\ PM \subseteq eligible \X spatial.unmatched
      /\ IM \subseteq overture \X spatial.unmatched /\ spatial.unmatched \subseteq kakao
      /\ \A m, n \in SM : m[1] = n[1] \/ m[2] = n[2] => m = n
      /\ \A m, n \in IM : m[1] = n[1] \/ m[2] = n[2] => m = n
      /\ \A m, n \in PM : m[1] = n[1] \/ m[2] = n[2] => m = n
      /\ \A m \in SM : m[1] \notin spatial.unmatched
      /\ \A m \in IM : /\ \A n \in PM : m[2] # n[2]
                       /\ \A n \in SM : m[1] # n[2]
  BY MatchingsOfABuild, Zenon
<1>5. /\ \A r, s \in overture : r.id = s.id => r = s
      /\ \A r, s \in permits : r.id = s.id => r = s
      /\ \A r, s \in kakao : r.id = s.id => r = s
  BY <1>2, DistinctTellsApart
<1>6. eligible \subseteq permits /\ \A p \in eligible, o \in overture : p.id \notin o.permits
  BY Zenon
<1> HIDE DEF spatial, eligible, permit, inputs, identity, SM, IM, PM, sane, New, naver
<1>7. /\ \A m \in SM : m[1] \in kakao /\ m[2] \in overture
      /\ \A m \in IM : m[1] \in overture /\ m[2] \in kakao /\ m[2] \in spatial.unmatched
      /\ \A m \in PM : m[1] \in eligible /\ m[1] \in permits /\ m[2] \in kakao
                       /\ m[2] \in spatial.unmatched
  BY <1>4, <1>6
<1>8. IsFiniteSet(SM) /\ IsFiniteSet(IM) /\ IsFiniteSet(PM)
  <2>1. IsFiniteSet(eligible) /\ IsFiniteSet(spatial.unmatched)
    BY <1>4, <1>6, FS_Subset
  <2> QED
    BY <1>4, <2>1, MatchesAreCounted
<1>9. /\ \A c \in new : \E m \in PM : /\ c.id = m[1].id /\ c.at = m[1].at
                                      /\ c.refs = {Ref("permit", m[1].id, "kakao", m[2].id)}
                                      /\ c = New(m)
  BY DEF New
<1> DEFINE triples == {<<"overture", m[2], m[1]>> : m \in SM}
                      \cup {<<"overture", m[1], m[2]>> : m \in IM}
                      \cup {<<"permit", m[1], m[2]>> : m \in PM}
           Linked(r, t) == /\ r = Ref(t[1], t[2].id, "kakao", t[3].id) /\ t[3] \in kakao
                           /\ \/ t[1] = "overture" /\ t[2] \in overture
                              \/ t[1] = "permit" /\ t[2] \in permits
<1>10. /\ \A t, u \in triples : t[3] = u[3] => t = u
       /\ \A t, u \in triples : t[1] = u[1] /\ t[2] = u[2] => t = u
  <2>1. \A m \in IM : /\ m[2] \in spatial.unmatched
                      /\ \A n \in PM : m[2] # n[2]
                      /\ \A n \in SM : m[1] # n[2]
    BY <1>4, <1>7
  <2>2. \A m \in PM : m[2] \in spatial.unmatched
    BY <1>7
  <2> QED
    BY <1>4, <2>1, <2>2, MatchingsAreDisjoint
<1>11. /\ \A r \in A : \E t \in triples : Linked(r, t)
       /\ \A r \in B : \E t \in triples : Linked(r, t)
       /\ \A c \in new : \A r \in c.refs : \E t \in triples : Linked(r, t)
  <2>1. ASSUME NEW r \in A PROVE \E t \in triples : Linked(r, t)
    <3>1. PICK m \in SM : r = Ref("overture", m[2].id, "kakao", m[1].id)
      OBVIOUS
    <3>2. <<"overture", m[2], m[1]>> \in triples
      BY Zenon
    <3>3. Linked(r, <<"overture", m[2], m[1]>>)
      BY <1>7, <3>1
    <3> HIDE DEF Linked, triples
    <3> QED
      BY <3>2, <3>3, Zenon
  <2>2. ASSUME NEW r \in B PROVE \E t \in triples : Linked(r, t)
    <3>1. PICK m \in IM : r = Ref("overture", m[1].id, "kakao", m[2].id)
      OBVIOUS
    <3>2. <<"overture", m[1], m[2]>> \in triples
      BY Zenon
    <3>3. Linked(r, <<"overture", m[1], m[2]>>)
      BY <1>7, <3>1
    <3> HIDE DEF Linked, triples
    <3> QED
      BY <3>2, <3>3, Zenon
  <2>3. ASSUME NEW c \in new, NEW r \in c.refs PROVE \E t \in triples : Linked(r, t)
    <3>1. PICK m \in PM : c.refs = {Ref("permit", m[1].id, "kakao", m[2].id)}
      BY <1>9, Zenon
    <3>2. <<"permit", m[1], m[2]>> \in triples
      BY Zenon
    <3>3. r = Ref("permit", m[1].id, "kakao", m[2].id)
      BY <3>1, Zenon
    <3>4. Linked(r, <<"permit", m[1], m[2]>>)
      BY <1>7, <3>3
    <3> HIDE DEF Linked, triples
    <3> QED
      BY <3>2, <3>4, Zenon
  <2> HIDE DEF A, B, new, triples, Linked
  <2> QED
    BY <2>1, <2>2, <2>3
<1>12. \A r \in N : /\ r \in refs
                    /\ \E o \in overture : r = Ref("overture", o.id, "naver", NaverOf(o))
  BY Zenon
<1>13. \A r \in all : (\E t \in triples : Linked(r, t)) \/ r \in N
  <2>1. \A r \in all : r \in A \/ r \in B \/ r \in N \/ \E c \in new : r \in c.refs
    BY <1>3
  <2> HIDE DEF A, B, N, new, all, triples, Linked
  <2> QED
    BY <1>11, <2>1
<1>14. IsFiniteSet(A) /\ IsFiniteSet(B) /\ Cardinality(A) = Cardinality(SM)
       /\ Cardinality(B) = Cardinality(IM)
  <2> DEFINE a == [m \in SM |-> Ref("overture", m[2].id, "kakao", m[1].id)]
             b == [m \in IM |-> Ref("overture", m[1].id, "kakao", m[2].id)]
  <2>1. A = {a[m] : m \in SM} /\ B = {b[m] : m \in IM}
    <3>1. /\ \A m \in SM : a[m] = Ref("overture", m[2].id, "kakao", m[1].id)
          /\ \A m \in IM : b[m] = Ref("overture", m[1].id, "kakao", m[2].id)
      OBVIOUS
    <3> HIDE DEF a, b
    <3> QED
      BY <3>1, Zenon
  <2>2. /\ a \in [SM -> {a[m] : m \in SM}]
        /\ b \in [IM -> {b[m] : m \in IM}]
    OBVIOUS
  <2>3. \A m, n \in SM : a[m] = a[n] => m = n
    <3> SUFFICES ASSUME NEW m \in SM, NEW n \in SM, a[m] = a[n] PROVE m = n
      OBVIOUS
    <3>1. m[1].id = n[1].id
      BY RefsAreTold
    <3> QED
      BY <1>4, <1>5, <1>7, <3>1
  <2>4. \A m, n \in IM : b[m] = b[n] => m = n
    <3> SUFFICES ASSUME NEW m \in IM, NEW n \in IM, b[m] = b[n] PROVE m = n
      OBVIOUS
    <3>1. m[1].id = n[1].id
      BY RefsAreTold
    <3> QED
      BY <1>4, <1>5, <1>7, <3>1
  <2> HIDE DEF a, b, A, B
  <2> QED
    BY <1>8, <2>1, <2>2, <2>3, <2>4, ImagesAreAsMany
<1>15. refs = (A \cup B) \cup N /\ IsFiniteSet(N)
  <2>1. IsFiniteSet({r \in overture : NaverOf(r) # None})
    BY FS_Subset
  <2> DEFINE n == [o \in {r \in overture : NaverOf(r) # None}
                       |-> Ref("overture", o.id, "naver", NaverOf(o))]
  <2>2. n \in Surjection({r \in overture : NaverOf(r) # None}, N)
    BY DEF Surjection
  <2>3. IsFiniteSet(N)
    BY <2>1, <2>2, FS_Surjection
  <2> QED
    BY <2>3
<1>16. /\ \A r \in A \cup B : r.provider = "kakao"
       /\ \A r \in N : r.provider = "naver"
       /\ A \cap B = {}
  <2>1. \A r \in A : \E m \in SM : r = Ref("overture", m[2].id, "kakao", m[1].id)
    BY Zenon
  <2>2. \A r \in B : \E m \in IM : r = Ref("overture", m[1].id, "kakao", m[2].id)
    BY Zenon
  <2>3. ASSUME NEW r \in A, r \in B PROVE FALSE
    <3>1. PICK m \in SM : r = Ref("overture", m[2].id, "kakao", m[1].id)
      BY <2>1
    <3>2. PICK n \in IM : r = Ref("overture", n[1].id, "kakao", n[2].id)
      BY <2>2, <2>3
    <3>3. m[2].id = n[1].id
      BY <3>1, <3>2, RefsAreTold
    <3> QED
      BY <1>4, <1>5, <1>7, <3>3
  <2>4. \A r \in A \cup B : r.provider = "kakao"
    <3> HIDE DEF A, B
    <3> QED
      BY <2>1, <2>2, RefsAreTold
  <2>5. \A r \in N : r.provider = "naver"
    <3> HIDE DEF N
    <3> QED
      BY <1>12, RefsAreTold
  <2> HIDE DEF A, B, N
  <2> QED
    BY <2>3, <2>4, <2>5
<1>17. naver + build.kakao = Cardinality(refs)
  <2> HIDE DEF A, B, N, refs, build
  <2>1. {r \in refs : r.provider = "naver"} = N
    BY <1>15, <1>16, RefsAreTold
  <2>2. (A \cup B) \cap N = {}
    BY <1>16, RefsAreTold
  <2>3. IsFiniteSet(A \cup B) /\ Cardinality(A \cup B) = Cardinality(A) + Cardinality(B)
    <3>1. Cardinality(A \cup B) = Cardinality(A) + Cardinality(B) - Cardinality(A \cap B)
      BY <1>14, FS_Union
    <3>2. Cardinality(A \cap B) = 0
      BY <1>16, FS_EmptySet
    <3>3. IsFiniteSet(A \cup B)
      BY <1>14, FS_Union
    <3>4. Cardinality(A) \in Nat /\ Cardinality(B) \in Nat
      BY <1>14, FS_CardinalityType
    <3> QED
      BY <3>1, <3>2, <3>3, <3>4
  <2>4. Cardinality(refs) = Cardinality(A \cup B) + Cardinality(N)
    <3>1. Cardinality((A \cup B) \cup N)
              = Cardinality(A \cup B) + Cardinality(N) - Cardinality((A \cup B) \cap N)
      BY <1>15, <2>3, FS_Union
    <3>2. Cardinality((A \cup B) \cap N) = 0
      BY <2>2, FS_EmptySet
    <3>3. Cardinality(A \cup B) \in Nat /\ Cardinality(N) \in Nat
      BY <1>15, <2>3, FS_CardinalityType
    <3> QED
      BY <1>15, <3>1, <3>2, <3>3
  <2>5. /\ Cardinality(A) \in Nat /\ Cardinality(B) \in Nat /\ Cardinality(N) \in Nat
    BY <1>14, <1>15, FS_CardinalityType
  <2>6. naver = Cardinality(N)
    BY <2>1, Zenon DEF naver
  <2>7. build.kakao = Cardinality(A) + Cardinality(B)
    BY <1>3, <1>14, Zenon
  <2> QED
    BY <2>3, <2>4, <2>5, <2>6, <2>7
<1>18. ASSUME NEW r \in all, NEW s \in all, r.provider = s.provider,
              r.place = s.place \/ (r.origin = s.origin /\ r.owner = s.owner)
       PROVE  r = s
  <2>1. CASE r \in N /\ s \in N
    <3>1. PICK o \in overture : r = Ref("overture", o.id, "naver", NaverOf(o))
      BY <1>12, <2>1
    <3>2. PICK q \in overture : s = Ref("overture", q.id, "naver", NaverOf(q))
      BY <1>12, <2>1
    <3>3. r.owner = s.owner
      <4>1. CASE r.place = s.place
        <5> DEFINE owners == {x.owner : x \in Owners(refs, r)}
        <5>1. r \in refs /\ s \in refs
          BY <1>12, <2>1
        <5>2. r \in Owners(refs, r) /\ s \in Owners(refs, r)
          <6> HIDE DEF refs
          <6> QED
            BY <1>18, <4>1, <5>1 DEF Owners
        <5>3. r.owner \in owners /\ s.owner \in owners
          BY <5>2, Zenon
        <5>4. Cardinality(owners) = 1
          BY <1>2, <5>1, Zenon DEF sane
        <5>5. IsFiniteSet(owners)
          <6> HIDE DEF A, B, N
          <6>1. IsFiniteSet(refs)
            BY <1>14, <1>15, FS_Union
          <6>2. IsFiniteSet(Owners(refs, r))
            BY <6>1, FS_Subset DEF Owners
          <6> HIDE DEF refs
          <6>3. [x \in Owners(refs, r) |-> x.owner] \in Surjection(Owners(refs, r), owners)
            BY DEF Surjection
          <6> QED
            BY <6>2, <6>3, FS_Surjection
        <5> HIDE DEF owners
        <5>6. \E x : owners = {x}
          BY <5>4, <5>5, FS_Singleton
        <5> QED
          BY <5>3, <5>6
      <4> QED
        BY <1>18, <4>1
    <3>4. o.id = q.id
      BY <3>1, <3>2, <3>3, RefsAreTold
    <3>5. o = q
      BY <1>5, <3>4
    <3> QED
      BY <3>1, <3>2, <3>5
  <2>2. CASE r \notin N /\ s \notin N
    <3>1. PICK t \in triples : Linked(r, t)
      BY <1>13, <2>2
    <3>2. PICK u \in triples : Linked(s, u)
      BY <1>13, <2>2
    <3> HIDE DEF triples, all, N
    <3>3. /\ r.place = t[3].id /\ s.place = u[3].id
          /\ r.origin = t[1] /\ s.origin = u[1]
          /\ r.owner = t[2].id /\ s.owner = u[2].id
      BY <3>1, <3>2, RefsAreTold
    <3>4. t[3] = u[3] \/ (t[1] = u[1] /\ t[2] = u[2])
      <4>1. CASE r.place = s.place
        BY <1>5, <3>1, <3>2, <3>3, <4>1
      <4>2. CASE r.origin = s.origin /\ r.owner = s.owner
        <5>1. t[1] = u[1] /\ t[2].id = u[2].id
          BY <3>3, <4>2
        <5>2. \/ t[2] \in overture /\ u[2] \in overture
              \/ t[2] \in permits /\ u[2] \in permits
          BY <3>1, <3>2, <5>1, RefsAreTold
        <5> QED
          BY <1>5, <5>1, <5>2
      <4> QED
        BY <1>18, <4>1, <4>2
    <3>5. t = u
      BY <1>10, <3>4
    <3> QED
      BY <3>1, <3>2, <3>5
  <2>3. ASSUME NEW x \in all, x \notin N
        PROVE  x.provider = "kakao"
    <3>1. PICK t \in triples : Linked(x, t)
      BY <1>13, <2>3
    <3> QED
      BY <3>1, RefsAreTold
  <2> HIDE DEF N, all
  <2> QED
    BY <1>16, <1>18, <2>1, <2>2, <2>3, RefsAreTold
<1>19. Distinct(new) /\ \A c \in new : c.at \in SeoulBox /\ c.refs # {}
  <2>1. \A c, d \in new : c.id = d.id => c = d
    <3> SUFFICES ASSUME NEW c \in new, NEW d \in new, c.id = d.id PROVE c = d
      OBVIOUS
    <3>1. PICK m \in PM : c.id = m[1].id /\ c = New(m)
      BY <1>9
    <3>2. PICK n \in PM : d.id = n[1].id /\ d = New(n)
      BY <1>9
    <3> HIDE DEF new
    <3>3. m[1].id = n[1].id /\ m[1] \in permits /\ n[1] \in permits
      BY <1>7, <3>1, <3>2, Zenon
    <3>4. m[1] = n[1]
      BY <1>5, <3>3, Zenon
    <3>5. m = n
      BY <1>4, <3>4, Zenon
    <3> QED
      BY <3>1, <3>2, <3>5, Zenon
  <2>2. IsFiniteSet(new)
    <3> DEFINE n == [m \in PM |-> [id |-> m[1].id, at |-> m[1].at,
                                  refs |-> {Ref("permit", m[1].id, "kakao", m[2].id)}]]
    <3>1. n \in Surjection(PM, new)
      BY DEF Surjection
    <3> QED
      BY <1>8, <3>1, FS_Surjection
  <2>3. ASSUME NEW c \in new PROVE c.at \in SeoulBox /\ c.refs # {}
    <3>1. PICK m \in PM : c.at = m[1].at /\ c.refs = {Ref("permit", m[1].id, "kakao", m[2].id)}
      BY <1>9
    <3>2. m[1] \in permits
      BY <1>7
    <3> HIDE DEF new
    <3> QED
      BY <3>1, <3>2
  <2> HIDE DEF new
  <2> QED
    BY <2>1, <2>2, <2>3, ToldApartAreDistinct
<1>20. \A c \in new, o \in overture : c.id \notin o.permits
  <2> SUFFICES ASSUME NEW c \in new, NEW o \in overture PROVE c.id \notin o.permits
    OBVIOUS
  <2>1. PICK m \in PM : c.id = m[1].id
    BY <1>9
  <2> HIDE DEF new
  <2> QED
    BY <1>6, <1>7, <2>1
<1>21. ReadsBack(build)
  <2>1. /\ \A r, s \in all : r.provider = s.provider /\ r.place = s.place => r = s
        /\ \A r, s \in all : r.provider = s.provider /\ r.origin = s.origin
                              /\ r.owner = s.owner => r = s
    <3> HIDE DEF all
    <3> QED
      BY <1>18, Zenon
  <2>2. Distinct(build.new) /\ \A c \in build.new : c.at \in SeoulBox /\ c.refs # {}
    BY <1>3, <1>19, Zenon
  <2>3. build.naver + build.kakao = Cardinality(build.refs)
    <3> HIDE DEF build, refs
    <3> QED
      BY <1>3, <1>17
  <2> HIDE DEF build
  <2> QED
    BY <2>1, <2>2, <2>3, Zenon DEF ReadsBack
<1>22. build.new = new
  BY <1>3
<1> HIDE DEF build, new
<1> QED
  BY <1>20, <1>21, <1>22, Zenon DEF build

\* Of a curated catalog, an Overture record of low confidence only where a permit
\* vouches for it, the build links every place and owner once, makes no cafe of a
\* permit whose cafe is known, and reads back.
THEOREM CatalogsLinkOnce ==
    ASSUME NEW overture, NEW permits, NEW kakao,
           IsFiniteSet(overture), IsFiniteSet(permits), IsFiniteSet(kakao),
           \A p \in permits : p.at \in SeoulBox
    PROVE  CatalogLinksOnce(overture, permits, kakao)
<1> DEFINE curated == CuratedCatalog(overture, permits)
           matches == Reconcile(permits, overture).matches
           numbers(o) == {m[1].id : m \in {n \in matches : n[2] = o}}
           kept == {r \in overture : r.confident \/ numbers(r) # {}}
           f == [o \in kept |-> [o EXCEPT !.permits = @ \cup numbers(o)]]
<1>1. curated = {[o EXCEPT !.permits = @ \cup numbers(o)] : o \in kept}
  BY Zenon DEF CuratedCatalog
<1>2. IsFiniteSet(kept)
  BY FS_Subset
<1>3. f \in Surjection(kept, curated)
  <2> HIDE DEF kept, numbers, curated
  <2> QED
    BY <1>1 DEF Surjection
<1>4. IsFiniteSet(curated)
  BY <1>2, <1>3, FS_Surjection
<1> HIDE DEF curated
<1>5. ProviderCatalog(curated, permits, kakao) # None =>
          LET build == ProviderCatalog(curated, permits, kakao) IN
          ReadsBack(build) /\ \A c \in build.new, o \in curated : c.id \notin o.permits
  BY <1>4, BuildsReadBack
<1> QED
  BY <1>5, Zenon DEF CatalogLinksOnce, curated

\* The rows of one are the rows of the other, in whatever order and however often.
SameRows(one, other, m, n) ==
    /\ DOMAIN one = 1..m /\ DOMAIN other = 1..n
    /\ \A i \in 1..m : \E j \in 1..n : one[i] = other[j]
    /\ \A j \in 1..n : \E i \in 1..m : one[i] = other[j]

\* Permits are those of the rows, and not of their order.
LEMMA PermitsFollowRows ==
    ASSUME NEW m \in Nat, NEW n \in Nat, NEW one, NEW other, SameRows(one, other, m, n)
    PROVE  ResolvePermits(one) = ResolvePermits(other)
<1> DEFINE numbers(s) == {s[i].number : i \in DOMAIN s} \ {None}
           of(s, k) == {i \in DOMAIN s : s[i].number = k}
           agrees(s, k) == \A i, j \in of(s, k) : s[i].body = s[j].body
           agree(s) == {k \in numbers(s) : agrees(s, k)}
           body(s, k) == s[Min(of(s, k))].body
           found(s) == {k \in agree(s) : body(s, k).selected /\ body(s, k).open /\ body(s, k).at \in SeoulBox}
           permit(s, k) == [id |-> k, name |-> body(s, k).name, phone |-> PermitPhone(s, of(s, k)),
                            addrs |-> body(s, k).addrs, at |-> body(s, k).at]
<1>1. /\ DOMAIN one = 1..m /\ DOMAIN other = 1..n
      /\ \A i \in 1..m : \E j \in 1..n : one[i] = other[j]
      /\ \A j \in 1..n : \E i \in 1..m : one[i] = other[j]
  BY DEF SameRows
<1>2. \A s : ResolvePermits(s) = {permit(s, k) : k \in found(s)}
  BY Zenon DEF ResolvePermits
<1>3. numbers(one) = numbers(other)
  <2>1. ASSUME NEW k \in numbers(one) PROVE k \in numbers(other)
    <3>1. k # None /\ \E i \in 1..m : one[i].number = k
      BY <1>1
    <3>2. PICK i \in 1..m : one[i].number = k
      BY <3>1
    <3>3. PICK j \in 1..n : one[i] = other[j]
      BY <1>1
    <3>4. j \in DOMAIN other /\ other[j].number = k
      BY <1>1, <3>2, <3>3, Zenon
    <3> QED
      BY <3>1, <3>4
  <2>2. ASSUME NEW k \in numbers(other) PROVE k \in numbers(one)
    <3>1. k # None /\ \E j \in 1..n : other[j].number = k
      BY <1>1
    <3>2. PICK j \in 1..n : other[j].number = k
      BY <3>1
    <3>3. PICK i \in 1..m : one[i] = other[j]
      BY <1>1
    <3>4. i \in DOMAIN one /\ one[i].number = k
      BY <1>1, <3>2, <3>3, Zenon
    <3> QED
      BY <3>1, <3>4
  <2> HIDE DEF numbers
  <2> QED
    BY <2>1, <2>2
<1>4. ASSUME NEW k \in numbers(one)
      PROVE  /\ Min(of(one, k)) \in of(one, k) /\ Min(of(other, k)) \in of(other, k)
             /\ \A i \in of(one, k) : \E j \in of(other, k) : one[i] = other[j]
             /\ \A j \in of(other, k) : \E i \in of(one, k) : one[i] = other[j]
  <2>1. k \in numbers(other)
    BY <1>3
  <2>2. /\ of(one, k) \in SUBSET (1..m) /\ of(other, k) \in SUBSET (1..n)
        /\ of(one, k) # {} /\ of(other, k) # {}
        /\ \A i \in of(one, k) : \E j \in of(other, k) : one[i] = other[j]
        /\ \A j \in of(other, k) : \E i \in of(one, k) : one[i] = other[j]
    BY <1>1, <2>1
  <2> HIDE DEF of
  <2>3. IsFiniteSet(of(one, k)) /\ IsFiniteSet(of(other, k))
    <3>1. IsFiniteSet(1..m) /\ IsFiniteSet(1..n)
      BY FS_Interval
    <3> QED
      BY <2>2, <3>1, FS_Subset
  <2>4. of(one, k) \in SUBSET Int /\ of(other, k) \in SUBSET Int
    BY <2>2
  <2>5. Min(of(one, k)) \in of(one, k)
    BY <2>2, <2>3, <2>4, Extremes
  <2>6. Min(of(other, k)) \in of(other, k)
    BY <2>2, <2>3, <2>4, Extremes
  <2> QED
    BY <2>2, <2>5, <2>6
<1>5. ASSUME NEW k \in numbers(one)
      PROVE  /\ agrees(one, k) <=> agrees(other, k)
             /\ agrees(one, k) => body(one, k) = body(other, k)
             /\ PermitPhone(one, of(one, k)) = PermitPhone(other, of(other, k))
  <2> DEFINE a == of(one, k)
             b == of(other, k)
  <2>1. /\ Min(a) \in a /\ Min(b) \in b
        /\ \A i \in a : \E j \in b : one[i] = other[j]
        /\ \A j \in b : \E i \in a : one[i] = other[j]
    BY <1>4
  <2>2. /\ agrees(one, k) <=> \A i, j \in a : one[i].body = one[j].body
        /\ agrees(other, k) <=> \A i, j \in b : other[i].body = other[j].body
        /\ body(one, k) = one[Min(a)].body /\ body(other, k) = other[Min(b)].body
    BY Zenon
  <2>3. /\ PermitPhone(one, a) = IF \A i, j \in a : one[i].phone = one[j].phone THEN one[Min(a)].phone ELSE None
        /\ PermitPhone(other, b) =
              IF \A i, j \in b : other[i].phone = other[j].phone THEN other[Min(b)].phone ELSE None
    BY Zenon DEF PermitPhone
  <2> HIDE DEF a, b, agrees, body
  <2>4. agrees(one, k) <=> agrees(other, k)
    BY <2>1, <2>2
  <2>5. ASSUME agrees(one, k) PROVE body(one, k) = body(other, k)
    BY <2>1, <2>2, <2>5
  <2>6. (\A i, j \in a : one[i].phone = one[j].phone) <=> (\A i, j \in b : other[i].phone = other[j].phone)
    BY <2>1
  <2>7. ASSUME \A i, j \in a : one[i].phone = one[j].phone
        PROVE  one[Min(a)].phone = other[Min(b)].phone
    BY <2>1, <2>7
  <2>8. PermitPhone(one, a) = PermitPhone(other, b)
    <3>1. CASE \A i, j \in a : one[i].phone = one[j].phone
      <4>1. PermitPhone(one, a) = one[Min(a)].phone
        BY <2>3, <3>1, Zenon
      <4>2. PermitPhone(other, b) = other[Min(b)].phone
        BY <2>3, <2>6, <3>1, Zenon
      <4> QED
        BY <2>7, <3>1, <4>1, <4>2, Zenon
    <3>2. CASE ~\A i, j \in a : one[i].phone = one[j].phone
      <4>1. PermitPhone(one, a) = None
        BY <2>3, <3>2, Zenon
      <4>2. PermitPhone(other, b) = None
        BY <2>3, <2>6, <3>2, Zenon
      <4> QED
        BY <4>1, <4>2, Zenon
    <3> QED
      BY <3>1, <3>2, Zenon
  <2> QED
    BY <2>4, <2>5, <2>8 DEF a, b
<1>6. found(one) = found(other) /\ found(one) \in SUBSET numbers(one)
      /\ \A k \in found(one) : agrees(one, k)
  <2> HIDE DEF numbers, agrees, body, of
  <2> QED
    BY <1>3, <1>5
<1>7. ASSUME NEW k \in found(one) PROVE permit(one, k) = permit(other, k)
  <2>1. body(one, k) = body(other, k) /\ PermitPhone(one, of(one, k)) = PermitPhone(other, of(other, k))
    <3> HIDE DEF numbers, agrees, body, of, found
    <3> QED
      BY <1>5, <1>6
  <2> DEFINE p == PermitPhone(one, of(one, k))
             q == PermitPhone(other, of(other, k))
  <2> HIDE DEF body, of, p, q
  <2>2. p = q
    BY <2>1 DEF p, q
  <2> QED
    BY <2>1, <2>2, Zenon DEF p, q
<1>8. {permit(one, k) : k \in found(one)} = {permit(other, k) : k \in found(other)}
  <2> HIDE DEF permit, found
  <2> QED
    BY <1>6, <1>7
<1> HIDE DEF permit, found
<1> QED
  BY <1>2, <1>8

\* Read from the last to the first, the rows give the same permits.
THEOREM RowsGiveTheirPermits ==
    ASSUME NEW given, Len(given) \in Nat, DOMAIN given = 1..Len(given)
    PROVE  RowsHaveNoOrder(given)
<1> DEFINE n == Len(given)
           turned == [i \in 1..n |-> given[(n - i) + 1]]
<1>1. Reverse(given) = turned
  BY Zenon DEF Reverse
<1>2. n \in Nat /\ DOMAIN given = 1..n
  OBVIOUS
<1> HIDE DEF n
<1>3. SameRows(given, turned, n, n)
  <2>1. DOMAIN turned = 1..n
    OBVIOUS
  <2>2. \A i \in 1..n : (n - i) + 1 \in 1..n /\ (n - ((n - i) + 1)) + 1 = i /\ turned[i] = given[(n - i) + 1]
    BY <1>2
  <2> HIDE DEF turned
  <2>3. \A i \in 1..n : \E j \in 1..n : given[i] = turned[j]
    BY <2>2
  <2>4. \A j \in 1..n : \E i \in 1..n : given[i] = turned[j]
    BY <2>2
  <2> QED
    BY <1>2, <2>1, <2>3, <2>4 DEF SameRows
<1> HIDE DEF turned
<1>4. ResolvePermits(given) = ResolvePermits(turned)
  BY <1>2, <1>3, PermitsFollowRows
<1> QED
  BY <1>1, <1>4, Zenon DEF RowsHaveNoOrder

-----------------------------------------------------------------------------
(* Samples. *)

\* Numbers from 1 on, none left out, are those up to how many they are.
LEMMA FromTheFirst ==
    ASSUME NEW A \in SUBSET (Nat \ {0}), IsFiniteSet(A), \A i \in A : \A j \in 1..i : j \in A
    PROVE  Cardinality(A) \in Nat /\ A = 1..Cardinality(A)
<1>1. CASE A = {}
  BY <1>1, FS_EmptySet
<1>2. CASE A # {}
  <2>1. Max(A) \in A /\ \A i \in A : i <= Max(A)
    <3>1. A \in SUBSET Int
      OBVIOUS
    <3> QED
      BY <1>2, <3>1, Extremes
  <2> DEFINE m == Max(A)
  <2>2. m \in Nat \ {0} /\ \A i \in A : i <= m
    BY <2>1
  <2>3. A = 1..m
    <3> HIDE DEF m
    <3>1. \A i \in A : i \in 1..m
      BY <2>2
    <3>2. \A j \in 1..m : j \in A
      BY <2>1 DEF m
    <3> QED
      BY <3>1, <3>2
  <2> HIDE DEF m
  <2>4. Cardinality(1..m) = m
    BY <2>2, FS_Interval
  <2> QED
    BY <2>2, <2>3, <2>4
<1> QED
  BY <1>1, <1>2

\* Lists by category, of records none of which is listed twice.
Categorised(ranked, size) ==
    /\ size \in Nat /\ IsFiniteSet(DOMAIN ranked) /\ DOMAIN ranked \in SUBSET Nat
    /\ \A c \in DOMAIN ranked : Len(ranked[c]) \in Nat /\ DOMAIN ranked[c] = 1..Len(ranked[c])
    /\ \A c, d \in DOMAIN ranked : \A i \in DOMAIN ranked[c], j \in DOMAIN ranked[d] :
           ranked[c][i] = ranked[d][j] => c = d /\ i = j

\* The turns of a choice round by round, each a round and whose turn it is.
TurnOrder(T) == {x \in T \X T : x[1][1] < x[2][1] \/ (x[1][1] = x[2][1] /\ x[1][2] < x[2][2])}

LEMMA TurnsAreOrdered ==
    ASSUME NEW T \in SUBSET (Nat \X Nat)
    PROVE  /\ Orders(TurnOrder(T), T)
           /\ \A e, f \in T : <<e, f>> \in TurnOrder(T) <=> e[1] < f[1] \/ (e[1] = f[1] /\ e[2] < f[2])
<1> DEFINE R == TurnOrder(T)
<1>1. \A e, f \in T : <<e, f>> \in R <=> e[1] < f[1] \/ (e[1] = f[1] /\ e[2] < f[2])
  BY DEF TurnOrder
<1>2. \A e \in T : e[1] \in Nat /\ e[2] \in Nat /\ e = <<e[1], e[2]>>
  OBVIOUS
<1> HIDE DEF R
<1>3. \A e \in T : <<e, e>> \notin R
  BY <1>1, <1>2
<1>4. \A e, f \in T : e # f => <<e, f>> \in R \/ <<f, e>> \in R
  <2> SUFFICES ASSUME NEW e \in T, NEW f \in T, e # f PROVE <<e, f>> \in R \/ <<f, e>> \in R
    OBVIOUS
  <2>1. e[1] # f[1] \/ e[2] # f[2]
    BY <1>2
  <2>2. e[1] \in Nat /\ e[2] \in Nat /\ f[1] \in Nat /\ f[2] \in Nat
    BY <1>2
  <2> QED
    BY <1>1, <2>1, <2>2
<1>5. \A d, e, f \in T : <<d, e>> \in R /\ <<e, f>> \in R => <<d, f>> \in R
  <2> SUFFICES ASSUME NEW d \in T, NEW e \in T, NEW f \in T, <<d, e>> \in R, <<e, f>> \in R
               PROVE  <<d, f>> \in R
    OBVIOUS
  <2>1. d[1] \in Nat /\ d[2] \in Nat /\ e[1] \in Nat /\ e[2] \in Nat /\ f[1] \in Nat /\ f[2] \in Nat
    BY <1>2
  <2>2. (d[1] < e[1] \/ (d[1] = e[1] /\ d[2] < e[2])) /\ (e[1] < f[1] \/ (e[1] = f[1] /\ e[2] < f[2]))
    BY <1>1
  <2>3. d[1] < f[1] \/ (d[1] = f[1] /\ d[2] < f[2])
    BY <2>1, <2>2
  <2> QED
    BY <1>1, <2>3
<1> QED
  BY <1>1, <1>3, <1>4, <1>5 DEF Orders, R

\* A sample is as large as it was asked to be, and takes from the categories in
\* turns.
THEOREM SamplesAreFair ==
    ASSUME NEW ranked, NEW size, Categorised(ranked, size)
    PROVE  SampleIsFair(ranked, size)
<1> DEFINE all == {<<i, c>> : i \in 1..size, c \in DOMAIN ranked}
           there == {e \in all : e[1] <= Len(ranked[e[2]])}
           places == UNION {{<<i, c>> : i \in 1..Len(ranked[c])} : c \in DOMAIN ranked}
           before(e, f) == e[1] < f[1] \/ (e[1] = f[1] /\ e[2] < f[2])
           R == TurnOrder(there)
           picked == {g \in there : Preceding(R, there, g) < size}
           pick == [e \in places |-> ranked[e[2]][e[1]]]
           taken == {pick[e] : e \in picked}
           everything == UNION {ToSet(ranked[c]) : c \in DOMAIN ranked}
           of(c) == Cardinality(taken \cap ToSet(ranked[c]))
           column(c) == {i \in 1..size : <<i, c>> \in picked}
<1>1. /\ size \in Nat /\ IsFiniteSet(DOMAIN ranked) /\ DOMAIN ranked \in SUBSET Nat
      /\ \A c \in DOMAIN ranked : Len(ranked[c]) \in Nat /\ DOMAIN ranked[c] = 1..Len(ranked[c])
      /\ \A c, d \in DOMAIN ranked : \A i \in DOMAIN ranked[c], j \in DOMAIN ranked[d] :
             ranked[c][i] = ranked[d][j] => c = d /\ i = j
  BY DEF Categorised
<1>2. /\ \A i, c : <<i, c>> \in there <=> i \in 1..size /\ c \in DOMAIN ranked /\ i <= Len(ranked[c])
      /\ \A e \in there : e = <<e[1], e[2]>> /\ e[1] \in 1..size /\ e[2] \in DOMAIN ranked
                          /\ e[1] <= Len(ranked[e[2]])
  OBVIOUS
<1>3. /\ \A i, c : <<i, c>> \in places <=> c \in DOMAIN ranked /\ i \in 1..Len(ranked[c])
      /\ \A e \in places : e = <<e[1], e[2]>> /\ e[2] \in DOMAIN ranked /\ e[1] \in 1..Len(ranked[e[2]])
  OBVIOUS
<1> HIDE DEF there, places
<1>4. there \in SUBSET (Nat \X Nat) /\ there \in SUBSET places
  <2>1. ASSUME NEW e \in there PROVE e \in Nat \X Nat /\ e \in places
    <3>1. e = <<e[1], e[2]>> /\ e[1] \in Nat /\ e[2] \in Nat
      BY <1>1, <1>2
    <3>2. <<e[1], e[2]>> \in places
      BY <1>1, <1>2, <1>3
    <3> QED
      BY <3>1, <3>2
  <2> QED
    BY <2>1
<1>5. /\ Orders(R, there)
      /\ \A e, f \in there : <<e, f>> \in R <=> before(e, f)
  BY <1>4, TurnsAreOrdered
<1>6. IsFiniteSet(places) /\ IsFiniteSet(there)
  <2>1. ASSUME NEW c \in DOMAIN ranked PROVE IsFiniteSet({<<i, c>> : i \in 1..Len(ranked[c])})
    <3> DEFINE n == Len(ranked[c])
               T == 1..n
               m == [i \in T |-> <<i, c>>]
    <3>1. n \in Int
      BY <1>1
    <3> HIDE DEF n
    <3>2. IsFiniteSet(T)
      BY <3>1, FS_Interval
    <3>3. {<<i, c>> : i \in T} = {m[i] : i \in T}
      OBVIOUS
    <3> HIDE DEF T, m
    <3>4. IsFiniteSet({m[i] : i \in T})
      BY <3>2, ImagesAreFinite
    <3> QED
      BY <3>3, <3>4 DEF T, n
  <2> DEFINE part == [c \in DOMAIN ranked |-> {<<i, c>> : i \in 1..Len(ranked[c])}]
             parts == {part[c] : c \in DOMAIN ranked}
  <2>2. IsFiniteSet(parts)
    <3> HIDE DEF part
    <3> QED
      BY <1>1, ImagesAreFinite
  <2>3. \A p \in parts : IsFiniteSet(p)
    BY <2>1
  <2>4. IsFiniteSet(UNION parts)
    <3> HIDE DEF parts
    <3> QED
      BY <2>2, <2>3, FS_UNION
  <2>5. UNION parts = places
    BY DEF places
  <2>6. IsFiniteSet(places)
    BY <2>4, <2>5
  <2> QED
    BY <1>4, <2>6, FS_Subset
<1>7. \A e, f \in places : pick[e] = pick[f] => e = f
  <2> SUFFICES ASSUME NEW e \in places, NEW f \in places, pick[e] = pick[f] PROVE e = f
    OBVIOUS
  <2>1. /\ e[2] \in DOMAIN ranked /\ f[2] \in DOMAIN ranked
        /\ e[1] \in DOMAIN ranked[e[2]] /\ f[1] \in DOMAIN ranked[f[2]]
        /\ e = <<e[1], e[2]>> /\ f = <<f[1], f[2]>>
    BY <1>1, <1>3
  <2>2. ranked[e[2]][e[1]] = ranked[f[2]][f[1]]
    OBVIOUS
  <2>3. e[2] = f[2] /\ e[1] = f[1]
    BY <1>1, <2>1, <2>2
  <2> QED
    BY <2>1, <2>3
<1>8. picked \in SUBSET there /\ picked \in SUBSET places /\ IsFiniteSet(picked)
  <2>1. picked \in SUBSET there
    OBVIOUS
  <2> HIDE DEF picked
  <2> QED
    BY <1>4, <1>6, <2>1, FS_Subset
<1>9. ASSUME NEW S \in SUBSET places
      PROVE  Cardinality({pick[e] : e \in S}) = Cardinality(S)
  <2> DEFINE f == [e \in S |-> pick[e]]
  <2>1. IsFiniteSet(S)
    BY <1>6, FS_Subset
  <2>2. f \in [S -> {f[x] : x \in S}] /\ \A x, y \in S : f[x] = f[y] => x = y
    <3> HIDE DEF pick
    <3> QED
      BY <1>7
  <2>3. {f[x] : x \in S} = {pick[e] : e \in S}
    <3> HIDE DEF pick
    <3> QED
      OBVIOUS
  <2> HIDE DEF f, pick
  <2>4. Cardinality({f[x] : x \in S}) = Cardinality(S)
    BY <2>1, <2>2, ImagesAreAsMany
  <2> QED
    BY <2>3, <2>4
<1>10. everything = {pick[e] : e \in places}
  <2>1. ASSUME NEW x \in everything PROVE x \in {pick[e] : e \in places}
    <3>1. PICK c \in DOMAIN ranked : x \in ToSet(ranked[c])
      OBVIOUS
    <3>2. PICK i \in DOMAIN ranked[c] : x = ranked[c][i]
      BY <3>1 DEF ToSet
    <3>3. <<i, c>> \in places /\ pick[<<i, c>>] = x
      BY <1>1, <1>3, <3>2
    <3> HIDE DEF pick
    <3> QED
      BY <3>3
  <2>2. ASSUME NEW e \in places PROVE pick[e] \in everything
    <3>1. e[2] \in DOMAIN ranked /\ e[1] \in DOMAIN ranked[e[2]] /\ pick[e] = ranked[e[2]][e[1]]
      BY <1>1, <1>3
    <3>2. pick[e] \in ToSet(ranked[e[2]])
      BY <3>1 DEF ToSet
    <3> HIDE DEF pick
    <3> QED
      BY <3>1, <3>2
  <2> HIDE DEF pick, everything
  <2> QED
    BY <2>1, <2>2
<1>11. ReviewSample(ranked, size) = taken
  <2> DEFINE chosen == {g \in there : Cardinality({f \in there : before(f, g)}) < size}
  <2>1. ReviewSample(ranked, size) = {ranked[e[2]][e[1]] : e \in chosen}
    BY DEF ReviewSample, there
  <2>2. chosen = picked
    <3>1. \A g \in there : {f \in there : before(f, g)} = {f \in there : <<f, g>> \in R}
      <4> HIDE DEF before, R
      <4> QED
        BY <1>5
    <3>2. \A g \in there : Cardinality({f \in there : before(f, g)}) = Preceding(R, there, g)
      <4> HIDE DEF before, R
      <4> QED
        BY <3>1 DEF Preceding
    <3> HIDE DEF before, R
    <3> QED
      BY <3>2
  <2>3. \A e \in picked : ranked[e[2]][e[1]] = pick[e]
    BY <1>8
  <2> HIDE DEF chosen, picked, pick
  <2> QED
    BY <2>1, <2>2, <2>3
<1>12. /\ \A e \in there : Preceding(R, there, e) \in 0..(Cardinality(there) - 1)
       /\ \A e, f \in there : <<e, f>> \in R <=> Preceding(R, there, e) < Preceding(R, there, f)
       /\ Cardinality(picked) = Min({size, Cardinality(there)})
  <2> HIDE DEF R
  <2>1. /\ \A e \in there : Preceding(R, there, e) \in 0..(Cardinality(there) - 1)
        /\ \A e, f \in there : <<e, f>> \in R <=> Preceding(R, there, e) < Preceding(R, there, f)
    BY <1>5, <1>6, RanksAreNumbers
  <2>2. Cardinality({c \in there : Preceding(R, there, c) < size}) = Min({size, Cardinality(there)})
    BY <1>1, <1>5, <1>6, FirstAreAsMany
  <2> QED
    BY <2>1, <2>2
<1>13. Min({size, Cardinality(there)}) = IF Cardinality(places) < size THEN Cardinality(places) ELSE size
  <2>1. Cardinality(there) \in Nat /\ Cardinality(places) \in Nat /\ Cardinality(there) <= Cardinality(places)
    BY <1>4, <1>6, FS_CardinalityType, FS_Subset
  <2>2. Min({size, Cardinality(there)}) = IF Cardinality(there) < size THEN Cardinality(there) ELSE size
    <3> DEFINE b == Cardinality(there)
               S == {size, b}
    <3>1. b \in Nat /\ S \in SUBSET Int /\ S # {}
      BY <1>1, <2>1
    <3> HIDE DEF b
    <3>2. IsFiniteSet(S)
      <4>1. IsFiniteSet({b}) /\ S = {b} \cup {size}
        BY FS_Singleton
      <4> HIDE DEF S
      <4> QED
        BY <4>1, FS_AddElement
    <3> HIDE DEF S
    <3>3. Min(S) \in S /\ \A i \in S : Min(S) <= i
      BY <3>1, <3>2, Extremes
    <3> QED
      BY <1>1, <3>1, <3>3 DEF S, b
  <2>3. CASE \A c \in DOMAIN ranked : Len(ranked[c]) <= size
    <3>1. ASSUME NEW e \in places PROVE e \in there
      <4>1. e = <<e[1], e[2]>> /\ e[2] \in DOMAIN ranked /\ e[1] \in 1..Len(ranked[e[2]])
        BY <1>3
      <4>2. Len(ranked[e[2]]) \in Nat /\ Len(ranked[e[2]]) <= size
        BY <1>1, <2>3, <4>1
      <4>3. e[1] \in 1..size /\ e[1] <= Len(ranked[e[2]])
        BY <1>1, <4>1, <4>2
      <4>4. <<e[1], e[2]>> \in there
        BY <1>2, <4>1, <4>3
      <4> QED
        BY <4>1, <4>4
    <3>2. there = places
      BY <1>4, <3>1
    <3> QED
      BY <2>2, <3>2
  <2>4. ASSUME NEW c \in DOMAIN ranked, ~(Len(ranked[c]) <= size)
        PROVE  Cardinality(there) >= size
    <3> DEFINE T == 1..size
               f == [i \in T |-> <<i, c>>]
               turns == {f[i] : i \in T}
    <3>1. IsFiniteSet(T) /\ Cardinality(T) = size
      BY <1>1, FS_Interval
    <3>2. turns \in SUBSET there
      <4>1. Len(ranked[c]) \in Nat
        BY <1>1
      <4>2. \A i \in 1..size : <<i, c>> \in there
        BY <1>1, <1>2, <2>4, <4>1
      <4> QED
        BY <4>2
    <3>3. f \in [T -> turns] /\ \A x, y \in T : f[x] = f[y] => x = y
      OBVIOUS
    <3> HIDE DEF T, f
    <3>4. IsFiniteSet(turns) /\ Cardinality(turns) = Cardinality(T)
      BY <3>1, <3>3, ImagesAreAsMany
    <3>5. Cardinality(turns) <= Cardinality(there)
      <4> HIDE DEF turns
      <4> QED
        BY <1>6, <3>2, FS_Subset
    <3> QED
      BY <3>1, <3>4, <3>5
  <2> QED
    BY <1>1, <2>1, <2>2, <2>3, <2>4
<1>14. ASSUME NEW c \in DOMAIN ranked
       PROVE  /\ of(c) \in Nat /\ column(c) = 1..of(c)
              /\ \A i \in column(c) : i <= Len(ranked[c]) /\ i <= size
  <2>1. column(c) \in SUBSET (Nat \ {0}) /\ IsFiniteSet(column(c))
        /\ \A i \in column(c) : <<i, c>> \in picked /\ <<i, c>> \in there /\ i \in 1..size
                                /\ i <= Len(ranked[c]) /\ i \in DOMAIN ranked[c]
    <3>1. \A i \in column(c) : i \in 1..size /\ <<i, c>> \in picked /\ <<i, c>> \in there
      BY <1>8
    <3>2. column(c) \in SUBSET (1..size)
      OBVIOUS
    <3> HIDE DEF column
    <3>3. IsFiniteSet(column(c))
      <4>1. IsFiniteSet(1..size)
        BY <1>1, FS_Interval
      <4> QED
        BY <3>2, <4>1, FS_Subset
    <3>4. \A i \in column(c) : i <= Len(ranked[c])
      BY <1>2, <3>1
    <3>5. \A i \in column(c) : i \in DOMAIN ranked[c]
      <4>1. Len(ranked[c]) \in Nat /\ DOMAIN ranked[c] = 1..Len(ranked[c])
        BY <1>1
      <4>2. \A i \in column(c) : i \in 1..size /\ i <= Len(ranked[c])
        BY <3>1, <3>4
      <4>3. \A i \in 1..size : i <= Len(ranked[c]) => i \in 1..Len(ranked[c])
        BY <1>1, <4>1
      <4> QED
        BY <4>1, <4>2, <4>3
    <3> QED
      BY <1>1, <3>1, <3>2, <3>3, <3>4, <3>5
  <2>2. \A i \in column(c) : \A j \in 1..i : j \in column(c)
    <3> SUFFICES ASSUME NEW i \in column(c), NEW j \in 1..i, j # i PROVE j \in column(c)
      OBVIOUS
    <3>1. <<i, c>> \in there /\ Preceding(R, there, <<i, c>>) < size /\ i \in 1..size /\ i <= Len(ranked[c])
      BY <2>1
    <3>2. j \in 1..size /\ j <= Len(ranked[c]) /\ j < i
      BY <1>1, <3>1
    <3>3. <<j, c>> \in there
      BY <1>2, <3>2
    <3>4. before(<<j, c>>, <<i, c>>)
      BY <3>2
    <3>5. Preceding(R, there, <<j, c>>) < Preceding(R, there, <<i, c>>)
      <4> HIDE DEF R, before
      <4> QED
        BY <1>5, <1>12, <3>1, <3>3, <3>4
    <3>6. Preceding(R, there, <<j, c>>) \in Int /\ Preceding(R, there, <<i, c>>) \in Int
      <4> HIDE DEF R
      <4>1. \A e \in there : Preceding(R, there, e) \in Int
        BY <1>12
      <4> QED
        BY <3>1, <3>3, <4>1
    <3>7. Preceding(R, there, <<j, c>>) < size
      BY <1>1, <3>1, <3>5, <3>6
    <3> HIDE DEF R
    <3>8. <<j, c>> \in picked
      BY <3>3, <3>7
    <3> HIDE DEF picked
    <3> QED
      BY <3>2, <3>8
  <2> DEFINE C == column(c)
             f == [i \in C |-> ranked[c][i]]
             part == taken \cap ToSet(ranked[c])
  <2>3. part = {f[i] : i \in C}
    <3>1. ASSUME NEW x \in part PROVE x \in {f[i] : i \in C}
      <4>1. PICK e \in picked : x = pick[e]
        OBVIOUS
      <4>2. PICK i \in DOMAIN ranked[c] : x = ranked[c][i]
        BY DEF ToSet
      <4>3. <<i, c>> \in places /\ pick[<<i, c>>] = x
        BY <1>1, <1>3, <4>2
      <4>4. e = <<i, c>>
        <5> HIDE DEF pick, picked
        <5> QED
          BY <1>7, <1>8, <4>1, <4>3
      <4>5. i \in C
        <5>1. <<i, c>> \in there
          BY <1>8, <4>4
        <5>2. i \in 1..size
          BY <1>2, <5>1
        <5> QED
          BY <4>1, <4>4, <5>2
      <4>6. f[i] = x
        <5> HIDE DEF C
        <5> QED
          BY <4>2, <4>5
      <4> HIDE DEF C, f
      <4> QED
        BY <4>5, <4>6
    <3>2. ASSUME NEW i \in C PROVE f[i] \in part
      <4>1. <<i, c>> \in picked /\ i \in DOMAIN ranked[c]
        BY <2>1
      <4>2. <<i, c>> \in places
        BY <1>8, <4>1
      <4>3. pick[<<i, c>>] = ranked[c][i]
        BY <4>2
      <4>4. f[i] = ranked[c][i]
        <5> HIDE DEF C
        <5> QED
          OBVIOUS
      <4>5. f[i] \in taken
        <5> HIDE DEF pick, picked, f
        <5> QED
          BY <4>1, <4>3, <4>4
      <4>6. f[i] \in ToSet(ranked[c])
        <5> HIDE DEF f
        <5> QED
          BY <4>1, <4>4 DEF ToSet
      <4> HIDE DEF f, taken
      <4> QED
        BY <4>5, <4>6
    <3> HIDE DEF part, C, f
    <3> QED
      BY <3>1, <3>2
  <2>4. f \in [C -> {f[x] : x \in C}] /\ \A x, y \in C : f[x] = f[y] => x = y
    <3>1. \A i \in C : i \in DOMAIN ranked[c]
      BY <2>1
    <3> HIDE DEF C
    <3> QED
      BY <1>1, <3>1
  <2>5. IsFiniteSet(C) /\ C \in SUBSET (Nat \ {0}) /\ \A i \in C : \A j \in 1..i : j \in C
    BY <2>1, <2>2
  <2> HIDE DEF C, f, part
  <2>6. Cardinality({f[x] : x \in C}) = Cardinality(C)
    BY <2>4, <2>5, ImagesAreAsMany
  <2>7. Cardinality(C) \in Nat /\ C = 1..Cardinality(C)
    BY <2>5, FromTheFirst
  <2>8. of(c) = Cardinality(C)
    BY <2>3, <2>6 DEF part
  <2>9. \A i \in column(c) : i <= Len(ranked[c]) /\ i <= size
    BY <1>1, <2>1
  <2> HIDE DEF of
  <2> QED
    BY <2>7, <2>8, <2>9 DEF C
<1>15. Cardinality(taken) = IF Cardinality(everything) < size THEN Cardinality(everything) ELSE size
  <2>1. Cardinality(taken) = Cardinality(picked)
    <3> HIDE DEF picked, pick
    <3> QED
      BY <1>8, <1>9
  <2>2. Cardinality(everything) = Cardinality(places)
    <3> HIDE DEF everything, pick
    <3>1. Cardinality({pick[e] : e \in places}) = Cardinality(places)
      BY <1>9
    <3> QED
      BY <1>10, <3>1
  <2> HIDE DEF taken, everything, picked
  <2> QED
    BY <1>12, <1>13, <2>1, <2>2
<1>16. ASSUME NEW c \in DOMAIN ranked, NEW d \in DOMAIN ranked, of(c) > of(d) + 1
       PROVE  of(d) = Len(ranked[d])
  <2> DEFINE a == of(c)
             b == of(d)
             k == b + 1
  <2>1. /\ a \in Nat /\ b \in Nat /\ column(c) = 1..a /\ column(d) = 1..b
        /\ \A i \in column(c) : i <= size
        /\ \A i \in column(d) : i <= Len(ranked[d])
    BY <1>14
  <2>2. Len(ranked[d]) \in Nat
    BY <1>1
  <2> HIDE DEF of
  <2>3. b <= Len(ranked[d]) /\ a \in column(c) /\ a <= size /\ k \in Nat \ {0} /\ k < a
    <3> HIDE DEF column
    <3>1. a > b + 1
      BY <1>16
    <3>2. a \in column(c)
      BY <2>1, <3>1
    <3>3. b = 0 \/ b \in column(d)
      BY <2>1
    <3> HIDE DEF a, b
    <3> QED
      BY <2>1, <2>2, <3>1, <3>2, <3>3
  <2>4. ASSUME b # Len(ranked[d]) PROVE FALSE
    <3>1. k <= Len(ranked[d]) /\ k \in 1..size
      <4> HIDE DEF a, b
      <4> QED
        BY <1>1, <2>1, <2>2, <2>3, <2>4
    <3>2. <<k, d>> \in there
      BY <1>2, <3>1
    <3>3. <<a, c>> \in picked /\ <<a, c>> \in there /\ Preceding(R, there, <<a, c>>) < size
      BY <1>8, <2>3
    <3>4. before(<<k, d>>, <<a, c>>)
      <4> HIDE DEF k, a
      <4> QED
        BY <2>3
    <3>5. Preceding(R, there, <<k, d>>) < Preceding(R, there, <<a, c>>)
      <4> HIDE DEF R, before, k, a
      <4> QED
        BY <1>5, <1>12, <3>2, <3>3, <3>4
    <3>6. Preceding(R, there, <<k, d>>) \in Int /\ Preceding(R, there, <<a, c>>) \in Int
      <4> HIDE DEF R, k, a
      <4>1. \A e \in there : Preceding(R, there, e) \in Int
        BY <1>12
      <4> QED
        BY <3>2, <3>3, <4>1
    <3>7. <<k, d>> \in picked
      <4>1. Preceding(R, there, <<k, d>>) < size
        BY <1>1, <3>3, <3>5, <3>6
      <4> HIDE DEF R, k
      <4> QED
        BY <3>2, <4>1
    <3>8. k \in column(d)
      <4> HIDE DEF k, picked
      <4> QED
        BY <3>1, <3>7
    <3> HIDE DEF column, b
    <3> QED
      BY <2>1, <3>8
  <2> QED
    BY <2>4 DEF b
<1>17. /\ Cardinality(ReviewSample(ranked, size))
            = IF Cardinality(everything) < size THEN Cardinality(everything) ELSE size
       /\ \A c, d \in DOMAIN ranked :
             Cardinality(ReviewSample(ranked, size) \cap ToSet(ranked[c]))
               > Cardinality(ReviewSample(ranked, size) \cap ToSet(ranked[d])) + 1
             => Cardinality(ReviewSample(ranked, size) \cap ToSet(ranked[d])) = Len(ranked[d])
  <2>1. \A c \in DOMAIN ranked : of(c) = Cardinality(ReviewSample(ranked, size) \cap ToSet(ranked[c]))
    <3> HIDE DEF taken
    <3> QED
      BY <1>11
  <2> HIDE DEF of, taken, everything
  <2> QED
    BY <1>11, <1>15, <1>16, <2>1
<1> QED
  BY <1>17, Zenon DEF SampleIsFair

-----------------------------------------------------------------------------
(* Operations. *)

\* Division with a remainder, and that there is one way of it.
LEMMA Division ==
    ASSUME NEW n \in Nat, NEW d \in Nat \ {0}
    PROVE  /\ n \div d \in Nat /\ n % d \in 0..(d - 1)
           /\ n = d * (n \div d) + (n % d)
  OBVIOUS

\* Multiples of a number lie at least that number apart.
LEMMA MultiplesGrow ==
    ASSUME NEW d \in Nat \ {0}, NEW i \in Int, NEW j \in Int, i < j
    PROVE  d * i + d <= d * j /\ d * i \in Int /\ d * j \in Int
<1>1. d * (j - i) >= d
  <2>1. j - i - 1 \in Nat
    OBVIOUS
  <2>2. \A k \in Nat : d * (k + 1) = d * k + d /\ d * k >= 0
    OBVIOUS
  <2>3. d * ((j - i - 1) + 1) >= d
    BY <2>1, <2>2
  <2> QED
    BY <2>3
<1>2. d * (j - i) = d * j - d * i
  OBVIOUS
<1> QED
  BY <1>1, <1>2

LEMMA OneRemainder ==
    ASSUME NEW n \in Nat, NEW d \in Nat \ {0}, NEW q \in Int, NEW r \in 0..(d - 1), n = d * q + r
    PROVE  q = n \div d /\ r = n % d /\ q \in Nat
<1>1. /\ n \div d \in Nat /\ n % d \in 0..(d - 1) /\ n = d * (n \div d) + (n % d)
  BY Division
<1>2. q = n \div d
  <2>1. ~(q < n \div d)
    <3> SUFFICES ASSUME q < n \div d PROVE FALSE
      OBVIOUS
    <3>1. d * q + d <= d * (n \div d) /\ d * q \in Int /\ d * (n \div d) \in Int
      BY <1>1, MultiplesGrow
    <3> QED
      BY <1>1, <3>1
  <2>2. ~(n \div d < q)
    <3> SUFFICES ASSUME n \div d < q PROVE FALSE
      OBVIOUS
    <3>1. d * (n \div d) + d <= d * q /\ d * q \in Int /\ d * (n \div d) \in Int
      BY <1>1, MultiplesGrow
    <3> QED
      BY <1>1, <3>1
  <2> QED
    BY <1>1, <2>1, <2>2
<1>3. r = n % d
  BY <1>1, <1>2
<1> QED
  BY <1>1, <1>2, <1>3

\* A schedule is every interval from its offset on, as often as the interval goes
\* into the hour.
LEMMA SchedulesAreRegular ==
    ASSUME NEW off \in 0..(PollInterval - 1)
    PROVE  /\ Hour \div PollInterval \in Nat \ {0}
           /\ Hour = PollInterval * (Hour \div PollInterval)
           /\ \A m \in MinuteSchedule(PollInterval, off) :
                 m \in Nat /\ m < Hour
                 /\ \E j \in 0..((Hour \div PollInterval) - 1) : m = off + PollInterval * j
           /\ \A j \in 0..((Hour \div PollInterval) - 1) :
                 off + PollInterval * j \in MinuteSchedule(PollInterval, off)
           /\ Cardinality(MinuteSchedule(PollInterval, off)) = Hour \div PollInterval
<1> DEFINE I == PollInterval
           K == Hour \div PollInterval
           S == MinuteSchedule(PollInterval, off)
<1>1. /\ I \in Nat \ {0} /\ Hour \in Nat \ {0} /\ Hour % I = 0 /\ off \in 0..(I - 1)
  BY OperationsAssumption
<1>2. K \in Nat /\ Hour = I * K
  BY <1>1, Division
<1>3. K # 0
  BY <1>1, <1>2
<1>4. S = {m \in off..(Hour - 1) : (m - off) % I = 0}
  BY DEF MinuteSchedule
<1> HIDE DEF I, K, S
<1>5. ASSUME NEW m \in S
      PROVE  m \in Nat /\ m < Hour /\ \E j \in 0..(K - 1) : m = off + I * j
  <2>1. m \in off..(Hour - 1) /\ (m - off) % I = 0 /\ m - off \in Nat
    BY <1>1, <1>4
  <2>2. (m - off) \div I \in Nat /\ m - off = I * ((m - off) \div I) + 0
    BY <1>1, <2>1, Division
  <2> DEFINE j == (m - off) \div I
  <2> HIDE DEF j
  <2>3. j \in Nat /\ m = off + I * j /\ I * j \in Nat
    BY <1>1, <2>1, <2>2 DEF j
  <2>4. j < K
    <3> SUFFICES ASSUME ~(j < K) PROVE FALSE
      OBVIOUS
    <3>1. j = K \/ I * K + I <= I * j
      BY <1>1, <1>2, <2>3, MultiplesGrow
    <3> QED
      BY <1>1, <1>2, <2>1, <2>3, <3>1
  <2> QED
    BY <1>1, <1>2, <2>1, <2>3, <2>4
<1>6. ASSUME NEW j \in 0..(K - 1)
      PROVE  off + I * j \in S
  <2>1. I * j + I <= I * K /\ I * j \in Int
    BY <1>1, <1>2, MultiplesGrow
  <2>2. I * j >= 0
    BY <1>1
  <2>3. off + I * j \in off..(Hour - 1)
    BY <1>1, <1>2, <2>1, <2>2
  <2>4. (I * j) % I = 0
    BY <1>1, <2>1, <2>2, OneRemainder
  <2>5. (off + I * j) - off = I * j
    BY <1>1, <2>1
  <2> QED
    BY <1>4, <2>3, <2>4, <2>5
<1>7. Cardinality(S) = K
  <2> DEFINE f == [j \in 0..(K - 1) |-> off + I * j]
  <2>1. f \in [0..(K - 1) -> S]
    BY <1>6
  <2>2. \A m \in S : \E j \in 0..(K - 1) : f[j] = m
    BY <1>5
  <2>3. \A i, j \in 0..(K - 1) : f[i] = f[j] => i = j
    <3> SUFFICES ASSUME NEW i \in 0..(K - 1), NEW j \in 0..(K - 1), f[i] = f[j] PROVE i = j
      OBVIOUS
    <3>1. i \in Int /\ j \in Int /\ I * i \in Int /\ I * j \in Int
      BY <1>1, <1>2
    <3>2. I * i = I * j
      BY <1>1, <3>1
    <3>3. ~(i < j) /\ ~(j < i)
      BY <1>1, <3>1, <3>2, MultiplesGrow
    <3> QED
      BY <3>1, <3>3
  <2> HIDE DEF f
  <2>4. f \in Bijection(0..(K - 1), S)
    BY <2>1, <2>2, <2>3 DEF Bijection, Injection, Surjection, IsInjective
  <2>5. IsFiniteSet(0..(K - 1)) /\ Cardinality(0..(K - 1)) = K
    BY <1>2, <1>3, FS_Interval
  <2> QED
    BY <2>4, <2>5, FS_Bijection DEF ExistsBijection
<1> QED
  BY <1>2, <1>3, <1>5, <1>6, <1>7 DEF I, K, S

\* Adding to a slot and wrapping at the hour leads to a slot of the other offset.
LEMMA SlotsAddUp ==
    ASSUME NEW off \in 0..(PollInterval - 1), NEW m \in MinuteSchedule(PollInterval, off),
           NEW delay \in Nat
    PROVE  (m + delay) % Hour \in MinuteSchedule(PollInterval, (off + delay) % PollInterval)
<1> DEFINE I == PollInterval
           K == Hour \div PollInterval
           next == (off + delay) % I
           laps == (off + delay) \div I
           turns == (m + delay) \div Hour
           r == (m + delay) % Hour
<1>1. /\ I \in Nat \ {0} /\ Hour \in Nat \ {0} /\ off \in Nat
      /\ K \in Nat \ {0} /\ Hour = I * K
  BY SchedulesAreRegular, OperationsAssumption
<1>2. PICK j \in 0..(K - 1) : m = off + I * j
  BY SchedulesAreRegular
<1>3. m \in Nat
  BY SchedulesAreRegular
<1> HIDE DEF K
<1>4. /\ next \in 0..(I - 1) /\ laps \in Nat /\ off + delay = I * laps + next
  <2>1. off + delay \in Nat
    BY <1>1
  <2> QED
    BY <1>1, <2>1, Division
<1>5. /\ r \in 0..(Hour - 1) /\ turns \in Nat /\ m + delay = Hour * turns + r
  <2>1. m + delay \in Nat
    BY <1>3
  <2> QED
    BY <1>1, <2>1, Division
<1> HIDE DEF I, next, laps, turns, r
<1> DEFINE s == j + laps - K * turns
<1>6. s \in Int /\ r = next + I * s
  <2>1. /\ I * j \in Int /\ I * laps \in Int /\ K * turns \in Int
        /\ I * (K * turns) = Hour * turns
    BY <1>1, <1>2, <1>4, <1>5
  <2>2. I * s = I * j + I * laps - I * (K * turns) /\ s \in Int
    BY <1>1, <1>2, <1>4, <2>1
  <2>3. r = I * j + I * laps + next - Hour * turns
    BY <1>1, <1>2, <1>4, <1>5, <2>1
  <2> QED
    BY <1>1, <1>4, <1>5, <2>1, <2>2, <2>3
<1> HIDE DEF s
<1>7. s >= 0
  <2> SUFFICES ASSUME s < 0 PROVE FALSE
    BY <1>6
  <2>1. I * s + I <= I * 0 /\ I * s \in Int
    BY <1>1, <1>6, MultiplesGrow
  <2> QED
    BY <1>1, <1>4, <1>5, <1>6, <2>1
<1>8. s < K
  <2> SUFFICES ASSUME ~(s < K) PROVE FALSE
    OBVIOUS
  <2>1. s = K \/ I * K + I <= I * s
    BY <1>1, <1>6, MultiplesGrow
  <2>2. I * s \in Int
    BY <1>1, <1>6
  <2> QED
    BY <1>1, <1>4, <1>5, <1>6, <2>1, <2>2
<1>9. s \in 0..(K - 1)
  BY <1>1, <1>6, <1>7, <1>8
<1>10. next + I * s \in MinuteSchedule(I, next)
  BY <1>4, <1>9, SchedulesAreRegular DEF I, K
<1> QED
  BY <1>6, <1>10 DEF r, next, I

\* Polls are an interval apart across every hour and each is followed by its check,
\* whatever interval divides the hour and however long the delay.
THEOREM MonitorsFollowPolls == MonitorFollowsPoll
<1> DEFINE second == (PollOffset + MonitorDelay) % PollInterval
<1>1. /\ PollInterval \in Nat \ {0} /\ PollOffset \in 0..(PollInterval - 1)
      /\ MonitorDelay \in Nat /\ PollOffset \in Nat
  BY OperationsAssumption
<1>2. /\ Jobs.poll = MinuteSchedule(PollInterval, PollOffset)
      /\ Jobs.monitor = MinuteSchedule(PollInterval, second)
  BY DEF Jobs
<1>3. second \in 0..(PollInterval - 1)
  BY <1>1, Division
<1>4. (PollOffset + PollInterval) % PollInterval = PollOffset
  <2>1. PollOffset + PollInterval = PollInterval * 1 + PollOffset
    BY <1>1
  <2> QED
    BY <1>1, <2>1, OneRemainder
<1>5. ASSUME NEW m \in Jobs.poll
      PROVE  (m + PollInterval) % Hour \in Jobs.poll
  BY <1>1, <1>2, <1>4, SlotsAddUp
<1>6. ASSUME NEW m \in Jobs.poll
      PROVE  (m + MonitorDelay) % Hour \in Jobs.monitor
  BY <1>1, <1>2, SlotsAddUp
<1>7. Cardinality(Jobs.monitor) = Cardinality(Jobs.poll)
  BY <1>1, <1>2, <1>3, SchedulesAreRegular
<1> QED
  BY <1>5, <1>6, <1>7 DEF MonitorFollowsPoll

\* A job that is scheduled anew keeps its switch.
LEMMA SwitchesStay ==
    ASSUME NEW old, NEW new, NEW switch
    PROVE  [[schedule |-> old, active |-> switch] EXCEPT !.schedule = new]
               = [schedule |-> new, active |-> switch]
  OBVIOUS

\* A database as configure_supabase_scheduler reads it.
Scheduled(db) ==
    db \in [secrets : Nat, extensions : SUBSET STRING,
            jobs : [DOMAIN Jobs -> {None} \cup [schedule : SUBSET Int, active : BOOLEAN]]]

\* What was applied is what the check demands, for any database that was read.
THEOREM AppliesAreAccepted ==
    ASSUME NEW db, Scheduled(db)
    PROVE  ApplyIsAccepted(db)
<1> DEFINE entries == db.jobs
           applied == SchedulerApply(db)
<1>0. /\ entries \in [DOMAIN Jobs -> {None} \cup [schedule : SUBSET Int, active : BOOLEAN]]
      /\ db = [secrets |-> db.secrets, extensions |-> db.extensions, jobs |-> db.jobs]
  BY DEF Scheduled
<1> SUFFICES ASSUME db.secrets = 1,
                    \A j \in DOMAIN Jobs : db.jobs[j] # None => db.jobs[j].active
             PROVE  SchedulerMatches(applied)
  BY Zenon DEF ApplyIsAccepted
<1> DEFINE Applied(j) == IF entries[j] = None THEN JobRow(Jobs[j])
                         ELSE [entries[j] EXCEPT !.schedule = Jobs[j]]
<1>1. applied = [db EXCEPT !.extensions = {"pg_cron", "pg_net"},
                           !.jobs = [j \in DOMAIN Jobs |-> Applied(j)]]
  BY DEF SchedulerApply
<1>2. /\ applied.secrets = 1 /\ applied.extensions = {"pg_cron", "pg_net"}
      /\ applied.jobs = [j \in DOMAIN Jobs |-> Applied(j)]
  <2> HIDE DEF Applied, applied
  <2>1. db = [secrets |-> db.secrets, extensions |-> db.extensions, jobs |-> db.jobs]
    BY <1>0
  <2> QED
    BY <1>1, <2>1
<1>3. ASSUME NEW j \in DOMAIN Jobs
      PROVE  Applied(j) = JobRow(Jobs[j])
  <2>1. CASE entries[j] = None
    BY <2>1
  <2>2. CASE entries[j] # None
    <3>1. entries[j] \in [schedule : SUBSET Int, active : BOOLEAN] /\ entries[j].active
      BY <1>0, <2>2
    <3>2. entries[j] = [schedule |-> entries[j].schedule, active |-> TRUE]
      BY <3>1
    <3>3. [entries[j] EXCEPT !.schedule = Jobs[j]] = [schedule |-> Jobs[j], active |-> TRUE]
      <4>1. PICK row : row = entries[j]
        OBVIOUS
      <4>2. PICK old : row = [schedule |-> old, active |-> TRUE]
        BY <3>2, <4>1, Zenon
      <4>3. [row EXCEPT !.schedule = Jobs[j]] = [schedule |-> Jobs[j], active |-> TRUE]
        BY <4>2, SwitchesStay, Zenon
      <4> QED
        BY <4>1, <4>3, Zenon
    <3> QED
      BY <2>2, <3>3 DEF JobRow
  <2> QED
    BY <2>1, <2>2
<1> HIDE DEF Applied, applied
<1> QED
  BY <1>2, <1>3 DEF SchedulerMatches

\* The whole of a sum, and less of it.
LEMMA SumOfAll == \A f : SumFunction(f) = SumFunctionOnSet(f, DOMAIN f)
  BY Zenon DEF SumFunction

\* A part of a sum of numbers is no greater.
LEMMA SumOfSome ==
    ASSUME NEW T, IsFiniteSet(T), NEW f, \A x \in T : f[x] \in Nat, NEW A \in SUBSET T
    PROVE  SumFunctionOnSet(f, A) <= SumFunctionOnSet(f, T)
<1>1. (\A x \in T : f[x] \in Int) /\ IsFiniteSet(T \ A) /\ IsFiniteSet(A)
      /\ (\A x \in T \ A : f[x] \in Nat) /\ (\A x \in A : f[x] \in Int)
  BY FS_Subset
<1>2. SumFunctionOnSet(f, T) = SumFunctionOnSet(f, A) + SumFunctionOnSet(f, T \ A)
  BY <1>1, SumOfParts
<1>3. SumFunctionOnSet(f, T \ A) \in Nat
  BY <1>1, SumIsPositive
<1>4. SumFunctionOnSet(f, A) \in Int
  BY <1>1, SumStep
<1> QED
  BY <1>2, <1>3, <1>4

\* Differences of neighbours add up to that of the ends.
NextTo(f, mark, n) ==
    /\ \A i \in 0..n : mark[i] \in Int
    /\ \A i \in 1..n : f[i] = mark[i] - mark[i - 1]

LEMMA Telescopes ==
    ASSUME NEW n \in Nat, NEW f, NEW mark, NextTo(f, mark, n)
    PROVE  SumFunctionOnSet(f, 1..n) = mark[n] - mark[0]
<1>1. /\ \A i \in 0..n : mark[i] \in Int
      /\ \A i \in 1..n : f[i] = mark[i] - mark[i - 1] /\ f[i] \in Int
  BY DEF NextTo
<1> DEFINE bad == {k \in 0..n : SumFunctionOnSet(f, 1..k) # mark[k] - mark[0]}
<1> SUFFICES ASSUME bad # {} PROVE FALSE
  OBVIOUS
<1>2. bad \in SUBSET Nat
  OBVIOUS
<1>3. PICK k \in bad : \A i \in bad : k <= i
  <2> HIDE DEF bad
  <2> QED
    BY <1>2, LeastExists
<1>4. k \in 0..n /\ SumFunctionOnSet(f, 1..k) # mark[k] - mark[0]
  OBVIOUS
<1>5. IsFiniteSet(1..k) /\ \A x \in 1..k : f[x] \in Int
  BY <1>1, <1>4, FS_Interval
<1>6. CASE k = 0
  <2>1. SumFunctionOnSet(f, {}) = 0 /\ 1..0 = {}
    BY <1>5, SumStep
  <2> QED
    BY <1>1, <1>4, <1>6, <2>1
<1>7. CASE k # 0
  <2>1. k \in 1..k /\ (1..k) \ {k} = 1..(k - 1) /\ k - 1 \in 0..n /\ k \in 1..n
    BY <1>4, <1>7
  <2>2. SumFunctionOnSet(f, 1..k) = f[k] + SumFunctionOnSet(f, 1..(k - 1))
    <3>1. \A x \in 1..k : SumFunctionOnSet(f, 1..k) = f[x] + SumFunctionOnSet(f, (1..k) \ {x})
      BY <1>5, SumRemove
    <3>2. SumFunctionOnSet(f, 1..k) = f[k] + SumFunctionOnSet(f, (1..k) \ {k})
      BY <2>1, <3>1
    <3> QED
      BY <2>1, <3>2
  <2>3. k - 1 \notin bad
    BY <1>3, <1>4
  <2>4. SumFunctionOnSet(f, 1..(k - 1)) = mark[k - 1] - mark[0]
    BY <2>1, <2>3
  <2>5. mark[k] \in Int /\ mark[k - 1] \in Int /\ mark[0] \in Int /\ f[k] = mark[k] - mark[k - 1]
    BY <1>1, <1>4, <2>1
  <2> QED
    BY <1>4, <2>2, <2>4, <2>5
<1> QED
  BY <1>6, <1>7

\* Cycles within a window, started once a slot and in turn, by less than a quarter
\* of a cadence before or after their slots.
KeepsSlots(cycles, from, to, slotOf) ==
    /\ Len(cycles) \in Nat /\ DOMAIN cycles = 1..Len(cycles)
    /\ from \in Int /\ to \in Int /\ from <= to
    /\ \A i \in 1..Len(cycles) : cycles[i].started \in from..to /\ slotOf[i] \in Int
    /\ \A i \in 2..Len(cycles) : slotOf[i - 1] < slotOf[i]
    /\ \E epoch \in Int : \A i \in 1..Len(cycles) :
           LET off == cycles[i].started - epoch - Cadence * slotOf[i]
           IN  4 * off < Cadence /\ 4 * off > -Cadence

\* The slots between two such starts are counted.
LEMMA SlotsAreCounted ==
    ASSUME NEW a \in Int, NEW b \in Int, NEW s \in Int, NEW t \in Int, NEW epoch \in Int, s < t,
           4 * (a - epoch - Cadence * s) < Cadence, 4 * (a - epoch - Cadence * s) > -Cadence,
           4 * (b - epoch - Cadence * t) < Cadence, 4 * (b - epoch - Cadence * t) > -Cadence
    PROVE  /\ a < b /\ EstimatedMissed(b - a) = t - s - 1
           /\ GapFactor <= 2 /\ t - s - 1 >= 2 => b - a >= Cadence * GapFactor
<1> DEFINE x == Cadence * s
           y == Cadence * t
           z == Cadence * (t - s)
           g == b - a
<1>1. Cadence \in Nat \ {0} /\ GapFactor \in Nat \ {0}
  BY OperationsAssumption
<1>2. x \in Int /\ y \in Int /\ z \in Int /\ z = y - x /\ z >= Cadence
  <2>1. x \in Int /\ y \in Int /\ z \in Int /\ z = y - x
    BY <1>1
  <2>2. x + Cadence <= y
    BY <1>1, MultiplesGrow
  <2> QED
    BY <1>1, <2>1, <2>2
<1>3. g \in Int /\ 2 * (g - z) < Cadence /\ 2 * (g - z) > -Cadence
  <2>1. 4 * (a - epoch - x) < Cadence /\ 4 * (a - epoch - x) > -Cadence
        /\ 4 * (b - epoch - y) < Cadence /\ 4 * (b - epoch - y) > -Cadence
    OBVIOUS
  <2> HIDE DEF x, y, z
  <2> QED
    BY <1>1, <1>2, <2>1
<1>4. a < b
  <2> HIDE DEF x, y, z
  <2> QED
    BY <1>1, <1>2, <1>3
<1>5. EstimatedMissed(g) = t - s - 1
  <2> DEFINE d == 2 * Cadence
             r == 2 * g + Cadence - 2 * z
             m == 2 * g + Cadence
  <2>1. d \in Nat \ {0} /\ r \in 0..(d - 1) /\ m \in Nat /\ m = 2 * z + r
    <3> HIDE DEF x, y, z, g
    <3> QED
      BY <1>1, <1>2, <1>3
  <2>2. 2 * z = d * (t - s) /\ t - s \in Nat \ {0}
    BY <1>1
  <2>3. m = d * (t - s) + r
    <3> HIDE DEF d, r, m, z
    <3> QED
      BY <2>1, <2>2
  <2>4. t - s = m \div d
    <3> HIDE DEF d, r, m, z
    <3> QED
      BY <2>1, <2>2, <2>3, OneRemainder
  <2>5. EstimatedMissed(g) = IF m \div d > 0 THEN m \div d - 1 ELSE 0
    BY Zenon DEF EstimatedMissed
  <2> HIDE DEF d, r, m, z, g
  <2> QED
    BY <2>2, <2>4, <2>5
<1>6. ASSUME GapFactor <= 2, t - s - 1 >= 2
      PROVE  g >= Cadence * GapFactor
  <2>1. Cadence * GapFactor = Cadence \/ Cadence * GapFactor = 2 * Cadence
    <3>1. GapFactor = 1 \/ GapFactor = 2
      BY <1>1, <1>6
    <3> QED
      BY <1>1, <3>1
  <2>2. z >= 3 * Cadence
    <3>1. z = 3 * Cadence + Cadence * (t - s - 3) /\ t - s - 3 \in Nat
      BY <1>1, <1>6
    <3>2. Cadence * (t - s - 3) \in Nat
      BY <1>1, <3>1
    <3> HIDE DEF z
    <3> QED
      BY <1>1, <1>2, <3>1, <3>2
  <2> HIDE DEF x, y, z, g
  <2> QED
    BY <1>1, <1>2, <1>3, <2>1, <2>2
<1> QED
  BY <1>4, <1>5, <1>6

\* What the report finds missing is what was missed, between any two cycles that
\* kept to their slots, and the stretches make up the window.
THEOREM MissedCyclesAreCounted ==
    ASSUME NEW cycles, NEW from, NEW to, NEW slotOf, KeepsSlots(cycles, from, to, slotOf), GapFactor <= 2
    PROVE  MissedAreCounted(cycles, from, to, slotOf)
<1> DEFINE n == Len(cycles)
           stretches == Stretches(cycles, from, to)
           start(i) == IF i = 0 THEN from ELSE cycles[i].started
           end(i) == IF i = n + 1 THEN to ELSE cycles[i].started
           gap(i) == IF end(i) > start(i - 1) THEN end(i) - start(i - 1) ELSE 0
           between == {i \in CadenceGaps(stretches) : stretches[i].kind = "between_cycles"}
           skipped(i) == slotOf[i] - slotOf[i - 1] - 1
           pairs == 2..n
           wide == {i \in pairs : skipped(i) >= 2}
           missed == [i \in between |-> EstimatedMissed(stretches[i].gap)]
           jumped == [i \in pairs |-> skipped(i)]
           jumpedWide == [i \in wide |-> skipped(i)]
           gaps == [i \in DOMAIN stretches |-> stretches[i].gap]
           mark == [i \in 0..(n + 1) |-> IF i = n + 1 THEN to ELSE start(i)]
<1>1. /\ n \in Nat /\ from \in Int /\ to \in Int /\ from <= to
      /\ \A i \in 1..n : cycles[i].started \in from..to /\ slotOf[i] \in Int
      /\ \A i \in 2..n : slotOf[i - 1] < slotOf[i]
  BY DEF KeepsSlots
<1>2. PICK epoch \in Int : \A i \in 1..n :
          /\ 4 * (cycles[i].started - epoch - Cadence * slotOf[i]) < Cadence
          /\ 4 * (cycles[i].started - epoch - Cadence * slotOf[i]) > -Cadence
  BY DEF KeepsSlots
<1>3. /\ DOMAIN stretches = 1..(n + 1)
      /\ \A i \in 1..(n + 1) : /\ stretches[i].gap = gap(i)
                               /\ stretches[i].kind = "between_cycles" <=> i \in pairs
  <2>1. stretches = [i \in 1..(n + 1) |->
            [kind |-> IF n = 0 THEN "empty_window" ELSE IF i = 1 THEN "window_head"
                      ELSE IF i = n + 1 THEN "window_tail" ELSE "between_cycles",
             gap |-> gap(i)]]
    BY Zenon DEF Stretches
  <2> HIDE DEF stretches, gap
  <2> QED
    BY <1>1, <2>1
<1>4. ASSUME NEW i \in pairs
      PROVE  /\ i \in 1..(n + 1) /\ gap(i) = cycles[i].started - cycles[i - 1].started
             /\ cycles[i - 1].started < cycles[i].started
             /\ EstimatedMissed(gap(i)) = skipped(i) /\ skipped(i) \in Nat
             /\ skipped(i) >= 2 => gap(i) >= Cadence * GapFactor
  <2> DEFINE a == cycles[i - 1].started
             b == cycles[i].started
  <2>1. i \in 1..n /\ i - 1 \in 1..n /\ i # n + 1 /\ i - 1 # 0
    BY <1>1
  <2>2. a \in Int /\ b \in Int /\ slotOf[i - 1] \in Int /\ slotOf[i] \in Int /\ slotOf[i - 1] < slotOf[i]
    BY <1>1, <2>1
  <2>3. /\ 4 * (a - epoch - Cadence * slotOf[i - 1]) < Cadence
        /\ 4 * (a - epoch - Cadence * slotOf[i - 1]) > -Cadence
        /\ 4 * (b - epoch - Cadence * slotOf[i]) < Cadence
        /\ 4 * (b - epoch - Cadence * slotOf[i]) > -Cadence
    BY <1>2, <2>1
  <2>4. gap(i) = IF b > a THEN b - a ELSE 0
    BY <2>1
  <2> HIDE DEF a, b, gap
  <2>5. /\ a < b /\ EstimatedMissed(b - a) = slotOf[i] - slotOf[i - 1] - 1
        /\ GapFactor <= 2 /\ slotOf[i] - slotOf[i - 1] - 1 >= 2 => b - a >= Cadence * GapFactor
    BY <2>2, <2>3, SlotsAreCounted
  <2>6. gap(i) = b - a
    BY <2>2, <2>4, <2>5
  <2>7. i \in 1..(n + 1) /\ skipped(i) \in Nat
    BY <1>1, <2>1, <2>2
  <2> QED
    BY <2>5, <2>6, <2>7 DEF a, b
<1>5. /\ between \in SUBSET pairs /\ wide \in SUBSET between /\ IsFiniteSet(pairs)
      /\ \A i \in between : stretches[i].gap = gap(i)
  <2>1. between = {i \in pairs : stretches[i].gap >= Cadence * GapFactor}
    <3>1. CadenceGaps(stretches) = {i \in DOMAIN stretches : stretches[i].gap >= Cadence * GapFactor}
      BY Zenon DEF CadenceGaps
    <3>2. pairs \in SUBSET (1..(n + 1))
      BY <1>1
    <3> HIDE DEF stretches, gap, pairs
    <3> QED
      BY <1>3, <3>1, <3>2
  <2>2. \A i \in pairs : stretches[i].gap = gap(i)
    BY <1>3, <1>4
  <2>3. IsFiniteSet(pairs)
    <3>1. n \in Int
      BY <1>1
    <3> HIDE DEF n
    <3> QED
      BY <3>1, FS_Interval
  <2> HIDE DEF stretches, gap, pairs, skipped, between
  <2> QED
    BY <1>4, <2>1, <2>2, <2>3
<1>6. /\ \A i \in between : missed[i] = jumped[i]
      /\ \A i \in wide : jumpedWide[i] = jumped[i]
      /\ \A i \in pairs : jumped[i] \in Nat
  <2> HIDE DEF stretches, gap, pairs, skipped, between
  <2> QED
    BY <1>4, <1>5
<1>7. /\ SumFunction(missed) = SumFunctionOnSet(missed, between)
      /\ SumFunction(jumped) = SumFunctionOnSet(jumped, pairs)
      /\ SumFunction(jumpedWide) = SumFunctionOnSet(jumpedWide, wide)
      /\ SumFunction(gaps) = SumFunctionOnSet(gaps, 1..(n + 1))
  <2>1. DOMAIN missed = between /\ DOMAIN jumped = pairs /\ DOMAIN jumpedWide = wide
        /\ DOMAIN gaps = 1..(n + 1)
    <3> HIDE DEF stretches, between, wide, pairs
    <3> QED
      BY <1>3
  <2> HIDE DEF missed, jumped, jumpedWide, gaps, between, wide, pairs
  <2> QED
    BY <2>1, SumOfAll, Zenon
<1>8. SumFunctionOnSet(missed, between) = SumFunctionOnSet(jumped, between)
      /\ SumFunctionOnSet(jumpedWide, wide) = SumFunctionOnSet(jumped, wide)
  <2>1. IsFiniteSet(between) /\ IsFiniteSet(wide)
        /\ (\A i \in between : missed[i] \in Int /\ missed[i] = jumped[i])
        /\ (\A i \in wide : jumpedWide[i] \in Int /\ jumpedWide[i] = jumped[i])
    <3>1. IsFiniteSet(between) /\ wide \in SUBSET pairs
      BY <1>5, FS_Subset
    <3>2. IsFiniteSet(wide)
      BY <1>5, <3>1, FS_Subset
    <3> HIDE DEF missed, jumped, jumpedWide, between, wide, pairs
    <3> QED
      BY <1>5, <1>6, <3>1, <3>2
  <2> HIDE DEF missed, jumped, jumpedWide, between, wide, pairs
  <2>2. SumFunctionOnSet(missed, between) = SumFunctionOnSet(jumped, between)
    BY <2>1, SumAgrees
  <2>3. SumFunctionOnSet(jumpedWide, wide) = SumFunctionOnSet(jumped, wide)
    BY <2>1, SumAgrees
  <2> QED
    BY <2>2, <2>3
<1>9. /\ SumFunctionOnSet(jumped, between) <= SumFunctionOnSet(jumped, pairs)
      /\ SumFunctionOnSet(jumped, wide) <= SumFunctionOnSet(jumped, between)
  <2> HIDE DEF missed, jumped, jumpedWide, between, wide, pairs
  <2>1. SumFunctionOnSet(jumped, between) <= SumFunctionOnSet(jumped, pairs)
    BY <1>5, <1>6, SumOfSome
  <2>2. IsFiniteSet(between) /\ \A i \in between : jumped[i] \in Nat
    BY <1>5, <1>6, FS_Subset
  <2>3. SumFunctionOnSet(jumped, wide) <= SumFunctionOnSet(jumped, between)
    BY <1>5, <2>2, SumOfSome
  <2> QED
    BY <2>1, <2>3
<1>10. SumFunctionOnSet(gaps, 1..(n + 1)) = to - from
  <2>1. \A i \in 0..(n + 1) : mark[i] \in Int
    BY <1>1
  <2>2. ASSUME NEW i \in 1..(n + 1) PROVE gaps[i] = mark[i] - mark[i - 1]
    <3>1. mark[i] = end(i) /\ mark[i - 1] = start(i - 1) /\ start(i - 1) <= end(i)
          /\ start(i - 1) \in Int /\ end(i) \in Int
      <4>1. mark[i] = end(i) /\ mark[i - 1] = start(i - 1)
        BY <1>1
      <4>2. CASE i = 1 \/ i = n + 1
        BY <1>1, <4>2
      <4>3. CASE i # 1 /\ i # n + 1
        <5>1. i \in pairs /\ i \in 1..n /\ i - 1 \in 1..n /\ i - 1 # 0
          BY <1>1, <4>3
        <5>2. cycles[i - 1].started < cycles[i].started
          BY <1>4, <5>1
        <5>3. cycles[i - 1].started \in Int /\ cycles[i].started \in Int
          <6>1. cycles[i - 1].started \in from..to /\ cycles[i].started \in from..to
            BY <1>1, <5>1
          <6> QED
            BY <1>1, <6>1
        <5>4. start(i - 1) = cycles[i - 1].started /\ end(i) = cycles[i].started
          BY <4>3, <5>1
        <5> HIDE DEF start, end, mark
        <5> QED
          BY <4>1, <5>2, <5>3, <5>4
      <4> QED
        BY <4>1, <4>2, <4>3
    <3>2. gaps[i] = gap(i)
      <4> HIDE DEF stretches, gap
      <4> QED
        BY <1>3
    <3> HIDE DEF start, end, mark, gaps
    <3> QED
      BY <3>1, <3>2
  <2>3. mark[0] = from /\ mark[n + 1] = to
    BY <1>1
  <2> HIDE DEF mark, gaps
  <2>4. NextTo(gaps, mark, n + 1)
    BY <1>1, <2>1, <2>2 DEF NextTo
  <2>5. n + 1 \in Nat
    BY <1>1
  <2> QED
    BY <2>3, <2>4, <2>5, Telescopes
<1>11. /\ SumFunction(missed) <= SumFunction(jumped)
       /\ SumFunction(missed) >= SumFunction(jumpedWide)
       /\ SumFunction(gaps) = to - from
  <2> HIDE DEF missed, jumped, jumpedWide, gaps, between, wide, pairs
  <2>1. SumFunctionOnSet(jumped, between) \in Int /\ SumFunctionOnSet(jumped, pairs) \in Int
        /\ SumFunctionOnSet(jumped, wide) \in Int
    <3>1. IsFiniteSet(between) /\ IsFiniteSet(wide) /\ (\A i \in pairs : jumped[i] \in Int)
          /\ (\A i \in between : jumped[i] \in Int) /\ (\A i \in wide : jumped[i] \in Int)
      BY <1>5, <1>6, FS_Subset
    <3> QED
      BY <1>5, <3>1, SumStep
  <2> QED
    BY <1>7, <1>8, <1>9, <1>10, <2>1
<1> QED
  <2>1. MissedCycles(stretches, between) = SumFunction(missed)
    BY Zenon DEF MissedCycles
  <2>2. /\ MissedCycles(stretches, between) <= SumFunction(jumped)
        /\ MissedCycles(stretches, between) >= SumFunction(jumpedWide)
        /\ SumFunction(gaps) = to - from
    <3> HIDE DEF missed, jumped, jumpedWide, gaps, between, stretches
    <3> QED
      BY <1>11, <2>1
  <2> QED
    BY <2>2, Zenon DEF MissedAreCounted

\* Cycles in the order of their starts, and snapshots with a time of fetching.
Ledgered(cycles, snapshots, now) ==
    /\ Len(cycles) \in Nat /\ DOMAIN cycles = 1..Len(cycles) /\ now \in Int
    /\ \A i \in 1..Len(cycles) : cycles[i].started \in Int /\ cycles[i].completed \in Int \cup {None}
    /\ \A i, j \in 1..Len(cycles) : i <= j => cycles[i].started <= cycles[j].started
    /\ IsFiniteSet(snapshots) /\ \A s \in snapshots : s.fetched \in Int

\* The cycle of a snapshot is the last of those that were open when it was fetched.
LEMMA CycleIsLast ==
    ASSUME NEW cycles, NEW fetched, NEW now, NEW n \in Nat, DOMAIN cycles = 1..n,
           NEW i \in 1..n, cycles[i].started <= fetched,
           fetched <= IF cycles[i].completed = None THEN now ELSE cycles[i].completed,
           \A j \in 1..n : j > i => ~(cycles[j].started <= fetched)
    PROVE  CycleOf(cycles, fetched, now) = i
<1> DEFINE open == {j \in DOMAIN cycles :
                /\ cycles[j].started <= fetched
                /\ fetched <= IF cycles[j].completed = None THEN now ELSE cycles[j].completed}
<1>1. CycleOf(cycles, fetched, now)
        = IF open = {} THEN None ELSE CHOOSE j \in open : \A k \in open : k <= j
  BY Zenon DEF CycleOf
<1>2. i \in open /\ open \in SUBSET (1..n) /\ \A j \in open : cycles[j].started <= fetched
  OBVIOUS
<1> HIDE DEF open
<1>3. \A j \in open : j <= i
  BY <1>2
<1>4. \A j \in open : (\A k \in open : k <= j) => j = i
  BY <1>2, <1>3
<1>5. (CHOOSE j \in open : \A k \in open : k <= j) = i
  BY <1>2, <1>3, <1>4
<1> QED
  BY <1>1, <1>2, <1>5

\* Every snapshot counts for one cycle at most, and for the one that fetched it.
THEOREM SnapshotsCountOnce ==
    ASSUME NEW cycles, NEW snapshots, NEW now, Ledgered(cycles, snapshots, now)
    PROVE  CountsForItsCycle(cycles, snapshots, now)
<1> DEFINE n == Len(cycles)
           new == NewSnapshots(cycles, snapshots, now)
           of == [s \in snapshots |-> CycleOf(cycles, s.fetched, now)]
           counted == {s \in snapshots : of[s] \in 1..n}
           one == [s \in counted |-> 1]
<1>1. /\ n \in Nat /\ DOMAIN cycles = 1..n /\ now \in Int
      /\ \A i \in 1..n : cycles[i].started \in Int /\ cycles[i].completed \in Int \cup {None}
      /\ \A i, j \in 1..n : i <= j => cycles[i].started <= cycles[j].started
      /\ IsFiniteSet(snapshots) /\ \A s \in snapshots : s.fetched \in Int
  BY DEF Ledgered
<1> HIDE DEF n
<1>2. DOMAIN new = 1..n /\ \A i \in 1..n : new[i] = Cardinality({s \in counted : of[s] = i})
  <2>1. new = [i \in 1..n |-> Cardinality({s \in snapshots : CycleOf(cycles, s.fetched, now) = i})]
    BY <1>1 DEF NewSnapshots
  <2>2. \A i \in 1..n : {s \in snapshots : CycleOf(cycles, s.fetched, now) = i} = {s \in counted : of[s] = i}
    OBVIOUS
  <2> HIDE DEF new, counted, of
  <2> QED
    BY <2>1, <2>2
<1>3. IsFiniteSet(counted) /\ Cardinality(counted) <= Cardinality(snapshots) /\ IsFiniteSet(1..n)
      /\ Cardinality(snapshots) \in Nat /\ Cardinality(counted) \in Nat
  <2>1. counted \in SUBSET snapshots
    OBVIOUS
  <2> HIDE DEF counted
  <2>2. IsFiniteSet(counted) /\ Cardinality(counted) <= Cardinality(snapshots)
    BY <1>1, <2>1, FS_Subset
  <2>3. Cardinality(snapshots) \in Nat /\ Cardinality(counted) \in Nat
    BY <1>1, <2>2, FS_CardinalityType
  <2>4. n \in Int
    BY <1>1
  <2>5. IsFiniteSet(1..n)
    BY <2>4, FS_Interval
  <2> QED
    BY <2>2, <2>3, <2>5
<1>4. SumsKinds(new, one, of, counted, 1..n)
  <2> SUFFICES ASSUME NEW k \in 1..n
               PROVE  new[k] = SumFunctionOnSet(one, {s \in counted : of[s] = k})
    BY DEF SumsKinds
  <2> DEFINE some == {s \in counted : of[s] = k}
  <2>1. IsFiniteSet(some) /\ \A s \in some : one[s] = 1
    <3>1. some \in SUBSET counted /\ \A s \in counted : one[s] = 1
      OBVIOUS
    <3> HIDE DEF some, counted
    <3> QED
      BY <1>3, <3>1, FS_Subset
  <2>2. new[k] = Cardinality(some)
    BY <1>2
  <2> HIDE DEF some, one, new
  <2>3. SumFunctionOnSet(one, some) = Cardinality(some)
    BY <2>1, SumOfOnes
  <2> QED
    BY <2>2, <2>3 DEF some
<1>5. SumFunction(new) <= Cardinality(snapshots)
  <2>1. \A s \in counted : one[s] = 1 /\ of[s] \in 1..n
    OBVIOUS
  <2>2. SumFunction(new) = SumFunctionOnSet(new, 1..n)
    <3> HIDE DEF new
    <3> QED
      BY <1>2, SumOfAll
  <2> HIDE DEF one, counted, new, of
  <2>3. (\A s \in counted : one[s] = 1) /\ (\A s \in counted : one[s] \in Int)
        /\ \A s \in counted : of[s] \in 1..n
    BY <2>1
  <2>4. SumFunctionOnSet(new, 1..n) = SumFunctionOnSet(one, counted)
    <3> DEFINE K == 1..n
    <3>1. /\ IsFiniteSet(counted) /\ IsFiniteSet(K) /\ SumsKinds(new, one, of, counted, K)
          /\ \A s \in counted : one[s] \in Int
          /\ \A s \in counted : of[s] \in K
      BY <1>3, <1>4, <2>3
    <3> HIDE DEF K
    <3>2. SumFunctionOnSet(new, K) = SumFunctionOnSet(one, counted)
      BY <3>1, SumOfKinds
    <3> QED
      BY <3>2 DEF K
  <2>5. SumFunctionOnSet(one, counted) = Cardinality(counted)
    BY <1>3, <2>3, SumOfOnes
  <2> QED
    BY <1>3, <2>2, <2>4, <2>5
<1>6. ASSUME NEW i \in DOMAIN cycles, NEW s \in snapshots,
             cycles[i].completed # None,
             cycles[i].started <= s.fetched, s.fetched <= cycles[i].completed,
             i < n => s.fetched < cycles[i + 1].started
      PROVE  CycleOf(cycles, s.fetched, now) = i
  <2>1. \A j \in 1..n : j > i => ~(cycles[j].started <= s.fetched)
    <3> SUFFICES ASSUME NEW j \in 1..n, j > i PROVE ~(cycles[j].started <= s.fetched)
      OBVIOUS
    <3>1. i \in 1..n /\ i < n /\ i + 1 \in 1..n /\ i + 1 <= j
      BY <1>1
    <3>2. cycles[i + 1].started <= cycles[j].started
      BY <1>1, <3>1
    <3>3. s.fetched < cycles[i + 1].started /\ s.fetched \in Int /\ cycles[i + 1].started \in Int
          /\ cycles[j].started \in Int
      BY <1>1, <1>6, <3>1
    <3> QED
      BY <3>2, <3>3
  <2>2. i \in 1..n /\ s.fetched <= IF cycles[i].completed = None THEN now ELSE cycles[i].completed
    BY <1>1, <1>6
  <2> QED
    BY <1>1, <1>6, <2>1, <2>2, CycleIsLast
<1> QED
  <2>1. \A i \in DOMAIN cycles, s \in snapshots :
          /\ cycles[i].completed # None
          /\ cycles[i].started <= s.fetched /\ s.fetched <= cycles[i].completed
          /\ i < Len(cycles) => s.fetched < cycles[i + 1].started
          => CycleOf(cycles, s.fetched, now) = i
    BY <1>6 DEF n
  <2> QED
    BY <1>5, <2>1, Zenon DEF CountsForItsCycle

-----------------------------------------------------------------------------
(* Clients. *)

\* An answer that carries an error is no observation, wherever in it the error
\* stands and whatever records come with it.
THEOREM ErrorsAreNeverData ==
    ASSUME NEW payload, DOMAIN payload \subseteq Nat
    PROVE  ErrorsAreNoData(payload)
<1> DEFINE answer == [kind |-> "ok", after |-> None]
           records == {i \in DOMAIN payload : payload[i].area}
<1> SUFFICES ASSUME FetchPopulation(answer, payload) = "ok"
             PROVE  /\ \A i \in DOMAIN payload : payload[i].code \in {None, "INFO-000"}
                    /\ payload[AreaRecord(payload)].area
  BY Zenon DEF ErrorsAreNoData
<1>1. ~HasApiError(payload) /\ AreaRecord(payload) # None
  BY DEF FetchPopulation
<1>2. \A i \in DOMAIN payload : payload[i].code \in {None, "INFO-000"}
  BY <1>1, Zenon DEF HasApiError
<1>3. records # {} /\ AreaRecord(payload) = CHOOSE i \in records : \A j \in records : i <= j
  BY <1>1, Zenon DEF AreaRecord
<1>4. records \in SUBSET Nat
  OBVIOUS
<1>5. \E i \in records : \A j \in records : i <= j
  <2> HIDE DEF records
  <2> QED
    BY <1>3, <1>4, LeastExists
<1>6. AreaRecord(payload) \in records
  <2> HIDE DEF records
  <2> QED
    BY <1>3, <1>5, Zenon
<1> QED
  BY <1>2, <1>6, Zenon

\* The request a call ends with is one that was sent, none before it was worth
\* giving up over, and it is the last there may be or itself not worth a retry.
LEMMA LastAttemptEnds ==
    ASSUME NEW client, NEW given, NEW n \in Nat, n = MaxRetries + 1
    PROVE  LET last == LastAttempt(client, given) IN
           /\ last \in 1..n
           /\ \A j \in 1..(last - 1) : Retried(client, given[j])
           /\ last = n \/ ~Retried(client, given[last])
<1> DEFINE tried == {i \in 1..n : \A j \in 1..(i - 1) : Retried(client, given[j])}
           last == LastAttempt(client, given)
           rest == {n - i : i \in tried}
<1>1. last = CHOOSE i \in tried : \A j \in tried : j <= i
  BY Zenon DEF LastAttempt
<1>2. 1 \in tried /\ n >= 1
  BY ClientsAssumption
<1>3. rest \in SUBSET Nat /\ rest # {}
  BY <1>2
<1>4. PICK m \in rest : \A k \in rest : m <= k
  <2> HIDE DEF rest
  <2> QED
    BY <1>3, LeastExists
<1>5. PICK i \in tried : m = n - i
  BY <1>4
<1>6. \A j \in tried : j <= i
  <2> SUFFICES ASSUME NEW j \in tried PROVE j <= i
    OBVIOUS
  <2>1. n - j \in rest
    OBVIOUS
  <2>2. n - i <= n - j
    BY <1>4, <1>5, <2>1
  <2> QED
    BY <2>2
<1>7. last \in tried /\ \A j \in tried : j <= last
  <2> HIDE DEF tried, last
  <2> QED
    BY <1>1, <1>5, <1>6, Zenon
<1>8. ASSUME last # n, Retried(client, given[last]) PROVE FALSE
  <2>1. last \in 1..n /\ \A j \in 1..(last - 1) : Retried(client, given[j])
    BY <1>7
  <2> HIDE DEF last
  <2>2. last + 1 \in 1..n
    BY <1>8, <2>1
  <2>3. \A j \in 1..((last + 1) - 1) : Retried(client, given[j])
    BY <1>8, <2>1
  <2>4. last + 1 \in tried
    BY <2>2, <2>3
  <2> QED
    BY <1>7, <2>1, <2>4
<1> QED
  BY <1>7, <1>8

\* No call sends more than its retries and the limit allow, and it gives up only
\* over an answer worth no retry or when all were used.
LEMMA RequestsAreLimited ==
    ASSUME NEW client, NEW given, NEW left \in Nat
    PROVE  LET call == Call(client, given, left) IN
           /\ call.used <= MaxRetries + 1
           /\ client = "naver" => call.used <= left
           /\ call.result = "error" =>
                 \/ call.used = MaxRetries + 1
                 \/ client = "naver" /\ call.used = left
                 \/ ~Retried(client, given[call.used])
<1> DEFINE last == LastAttempt(client, given)
           limited == client = "naver" /\ left < last
           call == Call(client, given, left)
<1>1. /\ last \in 1..(MaxRetries + 1) /\ MaxRetries \in Nat
      /\ last = MaxRetries + 1 \/ ~Retried(client, given[last])
  BY LastAttemptEnds, ClientsAssumption
<1>2. call.used = IF limited THEN left ELSE last
  BY Zenon DEF Call
<1> HIDE DEF last, call
<1> QED
  BY <1>1, <1>2 DEF call

\* Numbers up to a bound sum up to their number times it.
LEMMA SumIsBounded ==
    ASSUME NEW T, IsFiniteSet(T), NEW b \in Nat, NEW f, \A x \in T : f[x] \in 0..b
    PROVE  SumFunctionOnSet(f, T) <= Cardinality(T) * b
<1> DEFINE one == [x \in T |-> 1]
           most == [x \in T |-> b]
<1>1. \A x \in T : /\ one[x] = 1 /\ one[x] \in Int /\ most[x] = b * one[x]
                   /\ f[x] \in Int /\ most[x] \in Int /\ f[x] <= most[x]
  OBVIOUS
<1> HIDE DEF one, most
<1>2. SumFunctionOnSet(one, T) = Cardinality(T)
  BY <1>1, SumOfOnes
<1>3. SumFunctionOnSet(most, T) = b * SumFunctionOnSet(one, T)
  <2>1. \A x \in T : one[x] \in Int /\ most[x] = b * one[x]
    BY <1>1
  <2>2. b \in Int
    OBVIOUS
  <2> QED
    BY <2>1, <2>2, SumOfMultiples
<1>4. SumFunctionOnSet(f, T) <= SumFunctionOnSet(most, T)
  <2>1. \A x \in T : f[x] \in Int /\ most[x] \in Int /\ f[x] <= most[x]
    BY <1>1
  <2> QED
    BY <2>1, SumMonotone
<1>5. Cardinality(T) \in Nat
  BY FS_CardinalityType
<1> QED
  BY <1>2, <1>3, <1>4, <1>5

\* Doubling keeps order.
LEMMA PowersGrow ==
    ASSUME NEW i \in Nat, NEW j \in Nat, i <= j
    PROVE  2 ^ i \in Nat /\ 2 ^ j \in Nat /\ 2 ^ i <= 2 ^ j
<1>1. ASSUME NEW k \in Nat
      PROVE  IsFiniteSet(SUBSET (1..k)) /\ Cardinality(SUBSET (1..k)) = 2 ^ k
  <2>1. IsFiniteSet(1..k) /\ Cardinality(1..k) = k
    BY FS_Interval
  <2> QED
    BY <2>1, FS_SUBSET
<1>2. SUBSET (1..i) \in SUBSET (SUBSET (1..j))
  OBVIOUS
<1>3. IsFiniteSet(SUBSET (1..i)) /\ IsFiniteSet(SUBSET (1..j))
      /\ Cardinality(SUBSET (1..i)) = 2 ^ i /\ Cardinality(SUBSET (1..j)) = 2 ^ j
  BY <1>1
<1>4. Cardinality(SUBSET (1..i)) <= Cardinality(SUBSET (1..j))
  BY <1>2, <1>3, FS_Subset
<1>5. Cardinality(SUBSET (1..i)) \in Nat /\ Cardinality(SUBSET (1..j)) \in Nat
  BY <1>3, FS_CardinalityType
<1> QED
  BY <1>3, <1>4, <1>5

\* The waits a server may ask for.
Paused(given) == \A i \in 1..MaxRetries : given[i].after \in Int \cup {None}

\* No call sends more than its retries and the limit allow, or waits longer than
\* its delays and the pauses it honours; and it gives up only over an answer worth
\* no retry or when all were used.
THEOREM CallsStayWithinTheirLimits ==
    ASSUME NEW client, NEW given, NEW left \in Nat, Paused(given)
    PROVE  CallsAreBounded(client, given, left)
<1> DEFINE last == LastAttempt(client, given)
           limited == client = "naver" /\ left < last
           call == Call(client, given, left)
           slept == IF limited THEN left ELSE last - 1
           most == MaxAfter + BaseDelay * 2 ^ MaxRetries
           wait == [i \in 1..slept |-> RetryDelay(given[i], i - 1)]
<1>1. /\ last \in 1..(MaxRetries + 1) /\ MaxRetries \in Nat /\ BaseDelay \in Nat /\ MaxAfter \in Nat
  BY LastAttemptEnds, ClientsAssumption
<1>2. slept \in 0..MaxRetries
  <2> HIDE DEF last
  <2> QED
    BY <1>1
<1>3. 2 ^ MaxRetries \in Nat /\ BaseDelay * 2 ^ MaxRetries \in Nat /\ most \in Nat
  <2>1. 2 ^ MaxRetries \in Nat
    BY <1>1, PowersGrow
  <2> QED
    BY <1>1, <2>1
<1>4. ASSUME NEW i \in 1..slept PROVE wait[i] \in 0..most
  <2>1. i - 1 \in Nat /\ i - 1 <= MaxRetries /\ i \in 1..MaxRetries
    <3> HIDE DEF slept
    <3> QED
      BY <1>1, <1>2
  <2>2. 2 ^ (i - 1) \in Nat /\ 2 ^ (i - 1) <= 2 ^ MaxRetries
    BY <1>1, <2>1, PowersGrow
  <2>3. BaseDelay * 2 ^ (i - 1) \in Nat /\ BaseDelay * 2 ^ (i - 1) <= BaseDelay * 2 ^ MaxRetries
    <3> DEFINE x == 2 ^ (i - 1)
               y == 2 ^ MaxRetries
    <3>1. x \in Int /\ y \in Int /\ x <= y /\ x \in Nat
      BY <1>3, <2>2
    <3> HIDE DEF x, y
    <3>2. BaseDelay * x <= BaseDelay * y /\ BaseDelay * x \in Nat
      BY <1>1, <3>1, ProductsGrow
    <3> QED
      BY <3>2 DEF x, y
  <2>4. given[i].after \in Int \cup {None}
    BY <2>1 DEF Paused
  <2>5. wait[i] = RetryDelay(given[i], i - 1)
    <3> HIDE DEF slept
    <3> QED
      OBVIOUS
  <2> DEFINE x == BaseDelay * 2 ^ (i - 1)
             y == BaseDelay * 2 ^ MaxRetries
             a == given[i].after
  <2>6. RetryDelay(given[i], i - 1) =
            IF given[i].kind = "throttled" /\ a # None
            THEN IF a < 0 THEN 0 ELSE IF a > MaxAfter THEN MaxAfter ELSE a
            ELSE x
    BY Zenon DEF RetryDelay
  <2>7. x \in Nat /\ y \in Nat /\ x <= y /\ most = MaxAfter + y
    BY <1>3, <2>3
  <2> HIDE DEF x, y, most, wait, a
  <2>8. RetryDelay(given[i], i - 1) \in 0..most
    <3>1. CASE given[i].kind = "throttled" /\ a # None
      BY <1>1, <2>4, <2>6, <2>7, <3>1 DEF a
    <3>2. CASE ~(given[i].kind = "throttled" /\ a # None)
      BY <1>1, <2>6, <2>7, <3>2
    <3> QED
      BY <3>1, <3>2
  <2> QED
    BY <2>5, <2>8
<1>5. call.waited <= MaxRetries * most
  <2>1. call.waited = SumFunction(wait)
    BY Zenon DEF Call
  <2>2. SumFunction(wait) = SumFunctionOnSet(wait, 1..slept)
    <3>1. DOMAIN wait = 1..slept
      <4> HIDE DEF slept
      <4> QED
        OBVIOUS
    <3> HIDE DEF wait, slept
    <3> QED
      BY <3>1, SumOfAll
  <2> HIDE DEF wait, slept, most, call
  <2>3. IsFiniteSet(1..slept) /\ Cardinality(1..slept) = slept
    BY <1>2, FS_Interval
  <2>4. SumFunctionOnSet(wait, 1..slept) <= slept * most
    BY <1>3, <1>4, <2>3, SumIsBounded
  <2>5. (\A i \in 1..slept : wait[i] \in Int)
    BY <1>4
  <2>6. SumFunctionOnSet(wait, 1..slept) \in Int
    BY <2>3, <2>5, SumStep
  <2>7. most * slept <= most * MaxRetries
    BY <1>1, <1>2, <1>3, ProductsGrow
  <2>8. slept * most = most * slept /\ MaxRetries * most = most * MaxRetries
        /\ most * slept \in Int /\ most * MaxRetries \in Int
    BY <1>1, <1>2, <1>3
  <2> QED
    BY <2>1, <2>2, <2>4, <2>6, <2>7, <2>8
<1> QED
  BY <1>5, RequestsAreLimited, Zenon DEF CallsAreBounded

-----------------------------------------------------------------------------
(* The rules together. *)

\* An input of an estimate is what the code hands to its function: rows of
\* finite sets, with levels, weights and times of the kinds they have.
EstimateInput ==
    /\ Picked("estimate") => NoneIsApart /\ Levelled(sample.in)
    /\ Picked("polygons") => Outlined(sample.in)
    /\ Picked("report") => Reported(sample.in)
    /\ Picked("grid") => Drawn(In(1), In(2))
    /\ Picked("quality") => Rated(In(1), In(2))
    /\ Picked("pressure") => Sized(In(1), In(2), In(3))
    /\ Picked("anomaly") => Dated(In(1))

\* Whatever is estimated, and in whichever model, rests on the nearest current
\* evidence (score_cafe, score_cafe_polygon_shadow, score_cafe_density_shadow,
\* run_shadow_snapshot, calculate_confidence_v2, calculate_capacity_shadow,
\* calculate_activity_shadow and the grid of build_population_hotspot_cells).
THEOREM EstimatesRestOnEvidence == ASSUME EstimateInput PROVE EstimateRules
<1>1. Picked("estimate") => /\ LevelIsOfNeighbours(sample.in)
                            /\ FitsCafeScores(sample.in)
                            /\ ConfidenceIsOfNeighbours(sample.in)
  BY LevelsComeFromNeighbours, ScoresFitTheTable, ConfidenceComesFromNeighbours DEF EstimateInput, Levelled
<1>2. Picked("polygons") => PolygonsOnlyMove(sample.in)
  BY PolygonModelsOnlyMove DEF EstimateInput
<1>3. Picked("report") => ReportIsWhole(sample.in)
  BY ReportsAreWhole DEF EstimateInput
<1>4. Picked("grid") => WeightsDivide(In(1), In(2))
  BY WeightsAreDivided DEF EstimateInput
<1>5. Picked("quality") => QualityFollowsEvidence(In(1), In(2))
  BY QualitiesFollowEvidence DEF EstimateInput
<1>6. Picked("pressure") => PressureFallsWithSpace(In(1), In(2), In(3))
  BY SpaceEasesPressure DEF EstimateInput
<1>7. Picked("anomaly") => AnomaliesAreCurrent(In(1), In(2))
  BY AnomaliesAreOfNow DEF EstimateInput
<1> QED
  BY <1>1, <1>2, <1>3, <1>4, <1>5, <1>6, <1>7 DEF EstimateRules

\* What a request reads: rows with an id of their own, at most one place of a
\* provider per cafe, and ages in ticks, or none.
ReadInput ==
    /\ Picked("search") => SearchInput(In(1), In(4), In(5))
    /\ Picked("listing") => ListingInput(In(1))
    /\ Picked("links") => \A p, q \in sample.in.places : p.provider = q.provider => p = q
    /\ Picked("age") => /\ In(1) \in Int \cup {None}
                         /\ In(2) \in Nat /\ In(3) \in Int /\ In(4) \in BOOLEAN
    /\ Picked("health") => In(1) \in Statuses \cup {None} /\ In(2) \in Int \cup {None}

\* Whatever is read, only what is active and verified is answered, the best of
\* it, and lit only when young enough; the browser keeps a level lit for at most
\* the time its answer waited in caches beyond that (search_cafes, list_cafes,
\* list_cafe_summaries, _cafe_external_links, _observation_freshness,
\* _observation_age_minutes, currentObservationAgeMinutes, ageCafe).
THEOREM ReadsShowTheBest == ASSUME ReadInput PROVE ReadRules
<1>1. Picked("search") => SearchIsBest(In(1), In(2), In(3), In(4), In(5))
  BY SearchesReturnTheBest DEF ReadInput
<1>2. Picked("listing") => ListingIsWhole(In(1), In(2), In(3))
  BY ListingsAreWhole DEF ReadInput
<1>3. Picked("links") => LinksAreVerified(sample.in)
  BY LinksLeadToVerifiedPlaces DEF ReadInput
<1>4. Picked("age") => AgeLagsByItsWait(In(1), In(2), In(3), In(4))
  BY AgesLagByTheirWait DEF ReadInput
<1>5. Picked("health") => LiveIsHealthy(In(1), In(2))
  BY LiveMeansHealthy DEF ReadInput
<1> QED
  BY <1>1, <1>2, <1>3, <1>4, <1>5 DEF ReadRules

\* What the builders are handed: finite catalogs, permits of the box (as
\* resolve_permit_candidates leaves them), rows in a list, and ranked lists in
\* which no record stands twice.
CatalogInput ==
    /\ Picked("catalog") => /\ IsFiniteSet(In(1)) /\ IsFiniteSet(In(2)) /\ IsFiniteSet(In(3))
                            /\ \A p \in In(2) : p.at \in SeoulBox
    /\ Picked("permits") => \A p \in DOMAIN sample.in : IsFiniteSet(sample.in[p])
    /\ Picked("rows") => Len(sample.in) \in Nat /\ DOMAIN sample.in = 1..Len(sample.in)
    /\ Picked("review") => Categorised(In(1), In(2))

\* Whatever is linked, a place, a permit or an identity is linked once, whatever
\* the order of rows and builders (build_curated_catalog, build_provider_cafe_catalog,
\* resolve_permit_candidate_sets, resolve_permit_candidates, build_kakao_expansion
\* and select_review_sample).
THEOREM CatalogsAreOfOnePiece == ASSUME CatalogInput PROVE CatalogRules
<1>1. Picked("catalog") => CatalogLinksOnce(In(1), In(2), In(3))
  BY CatalogsLinkOnce DEF CatalogInput
<1>2. Picked("permits") => PermitsVerifiedOnce(sample.in)
  BY PermitsAreVerifiedOnce DEF CatalogInput
<1>3. Picked("rows") => RowsHaveNoOrder(sample.in)
  BY RowsGiveTheirPermits DEF CatalogInput
<1>4. Picked("expansion") => ExpandsOnce(In(1), In(2), In(3))
  BY ExpansionsAddOnce
<1>5. Picked("review") => SampleIsFair(In(1), In(2))
  BY SamplesAreFair DEF CatalogInput
<1> QED
  BY <1>1, <1>2, <1>3, <1>4, <1>5 DEF CatalogRules

\* What the report, the scheduler and the clients meet: starts that keep to their
\* slots, a ledger in order, rows of cron.job, and answers whose Retry-After is a
\* number or missing; and the factor above which a gap is reported is no larger
\* than INGEST_SLO_CADENCE_GAP_FACTOR.
OperationInput ==
    /\ Picked("missed") => GapFactor <= 2 /\ KeepsSlots(In(1), 0, 40, In(2))
    /\ Picked("attribution") => Ledgered(In(1), In(2), 6)
    /\ Picked("scheduler") => Scheduled(sample.in)
    /\ Picked("calls") => Paused(In(2)) /\ In(3) \in Nat
    /\ Picked("payload") => DOMAIN sample.in \subseteq Nat

\* The monitor follows every poll, what is missed is counted once, snapshots count
\* for the cycle that fetched them, and a client stays within its calls
\* (minute_schedule, analyze_ingest_slo, configure_supabase_scheduler,
\* search_category_raw, search_local_raw and fetch_population).
THEOREM OperationsAreAccounted == ASSUME OperationInput PROVE OperationRules
<1>1. Picked("missed") => MissedAreCounted(In(1), 0, 40, In(2))
  BY MissedCyclesAreCounted DEF OperationInput
<1>2. Picked("attribution") => CountsForItsCycle(In(1), In(2), 6)
  BY SnapshotsCountOnce DEF OperationInput
<1>3. Picked("scheduler") => ApplyIsAccepted(sample.in)
  BY AppliesAreAccepted DEF OperationInput
<1>4. Picked("calls") => CallsAreBounded(In(1), In(2), In(3))
  BY CallsStayWithinTheirLimits DEF OperationInput
<1>5. Picked("payload") => ErrorsAreNoData(sample.in)
  BY ErrorsAreNeverData DEF OperationInput
<1> QED
  BY MonitorsFollowPolls, <1>1, <1>2, <1>3, <1>4, <1>5 DEF OperationRules
=============================================================================
