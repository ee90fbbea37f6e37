--------------------------- MODULE BrowserProofs ---------------------------
(***************************************************************************)
(* Proofs about the tiles of the browser (TileProvider) and about what the *)
(* map makes of them (MapView, as Map), for any calls, cafes, views, loads *)
(* and bounds.                                                             *)
(***************************************************************************)
EXTENDS TileProvider, MCMapView, FiniteSetTheorems, SequenceTheorems, WellFoundedInduction, TLAPS

-----------------------------------------------------------------------------
(* The map. *)

\* What is displayed once it has aged is of the same cafes.
LEMMA AgedIsOfTheSame ==
    ASSUME NEW STATE collection, collection \in Map!Collection, NEW STATE known, known \in BOOLEAN
    PROVE  /\ Map!Aged(collection, known) \in Map!Collection
           /\ Map!Aged(collection, known).of = collection.of
<1> DEFINE stays == collection.lit /\ (known => collection.obs > outdated)
<1>1. Map!Aged(collection, known) = [collection EXCEPT !.lit = stays]
  BY Zenon DEF Map!Aged
<1>2. stays \in BOOLEAN
  BY DEF Map!Collection
<1> HIDE DEF stays
<1> QED
  BY <1>1, <1>2 DEF Map!Collection

\* An answer is a collection of what was asked for.
LEMMA AnswerIsOfTheAsked ==
    ASSUME NEW o \in Map!Observation, NEW STATE of, of \in Map!Views \cup Searches
    PROVE  Map!Answer(of, o) \in Map!Collection /\ Map!Answer(of, o).of = of
<1> DEFINE fresh == o > outdated
<1>1. Map!Answer(of, o) = [of |-> of, obs |-> o, lit |-> fresh]
  BY Zenon DEF Map!Answer
<1>2. fresh \in BOOLEAN
  OBVIOUS
<1> HIDE DEF fresh
<1> QED
  BY <1>1, <1>2 DEF Map!Collection, Map!Observation

\* Nothing is a collection of no cafes.
LEMMA NothingIsTyped ==
    Map!Nothing \in Map!Collection /\ Map!Nothing.of = None
BY MapViewAssumption DEF Map!Nothing, Map!Collection

\* A refresh begins a load of the viewport it finds, or clears a map that is
\* zoomed out; what was loaded before stays or is gone.
LEMMA RefreshIsOfTheView ==
    ASSUME Map!TypeOK,
           NEW STATE before, before \in Map!Collection, Map!Refresh(before),
           search # None => before.of \in {None, search.of}
    PROVE  /\ controller' \in Loads \cup {None} /\ latest' \in Loads \cup {None}
           /\ load' \in [Loads -> Near \cup {None}]
           /\ raw' \in Map!Collection /\ shown' \in Map!Collection /\ hasLoaded' \in BOOLEAN
           /\ viewport \in Near => latest' \in Loads
           /\ latest' # None /\ load'[latest'] # None => load'[latest'] = viewport
           /\ viewport \in Far => shown'.of \notin Map!Views /\ ~hasLoaded'
           /\ search # None => shown'.of \in {None, search.of}
           /\ raw' = raw \/ raw'.of = None
<1>1. /\ viewport \in Near \cup Far /\ Near \cap Far = {}
      /\ None \notin Near \cup Far \cup Loads
      /\ load \in [Loads -> Near \cup {None}]
      /\ raw \in Map!Collection /\ shown \in Map!Collection /\ hasLoaded \in BOOLEAN
  BY MapViewAssumption DEF Map!TypeOK, Map!Views
<1>2. CASE viewport \in Far
  <2>1. /\ controller' = None /\ latest' = None
        /\ raw' = Map!Nothing /\ hasLoaded' = FALSE /\ shown' = Map!Nothing
        /\ UNCHANGED load
    BY <1>2 DEF Map!Refresh
  <2>2. Map!Nothing \in Map!Collection /\ Map!Nothing.of = None
    BY NothingIsTyped
  <2> QED
    BY <1>1, <1>2, <2>1, <2>2 DEF Map!Views
<1>3. CASE viewport \notin Far
  <2>1. PICK l \in Loads :
           /\ load' = [load EXCEPT ![l] = viewport]
           /\ controller' = l /\ latest' = l
           /\ shown' = before
           /\ UNCHANGED <<raw, hasLoaded>>
    BY <1>3 DEF Map!Refresh
  <2>2. load' \in [Loads -> Near \cup {None}] /\ load'[latest'] = viewport
    BY <1>1, <1>3, <2>1
  <2> QED
    BY <1>1, <1>3, <2>1, <2>2
<1> QED
  BY <1>2, <1>3

\* A display with the limits of now, or with those that become known.
LEMMA DisplayedKeepsSearch ==
    ASSUME Map!MapInv, NEW STATE known, known \in BOOLEAN
    PROVE  /\ Map!Displayed(search, raw, hasLoaded, known) \in Map!Collection
           /\ search # None => Map!Displayed(search, raw, hasLoaded, known).of = search.of
           /\ search = None /\ ~hasLoaded =>
                 Map!Displayed(search, raw, hasLoaded, known).of = shown.of
           /\ search = None \/ search.of \in Searches
<1>1. /\ search = None \/ (search \in Map!Collection /\ search.of \in Searches)
      /\ raw \in Map!Collection /\ shown \in Map!Collection /\ hasLoaded \in BOOLEAN
  BY DEF Map!MapInv, Map!TypeOK
<1>2. CASE search # None
  <2>1. Map!Displayed(search, raw, hasLoaded, known) = Map!Aged(search, known)
    BY <1>2 DEF Map!Displayed
  <2>2. /\ Map!Aged(search, known) \in Map!Collection
        /\ Map!Aged(search, known).of = search.of
    BY <1>1, <1>2, AgedIsOfTheSame
  <2> QED
    BY <1>1, <1>2, <2>1, <2>2
<1>3. CASE search = None /\ hasLoaded
  <2>1. Map!Displayed(search, raw, hasLoaded, known) = Map!Aged(raw, known)
    BY <1>3 DEF Map!Displayed
  <2>2. Map!Aged(raw, known) \in Map!Collection
    BY <1>1, AgedIsOfTheSame
  <2> QED
    BY <1>3, <2>1, <2>2
<1>4. CASE search = None /\ ~hasLoaded
  <2>1. Map!Displayed(search, raw, hasLoaded, known) = shown
    BY <1>4 DEF Map!Displayed
  <2> QED
    BY <1>1, <1>4, <2>1
<1> QED
  BY <1>2, <1>3, <1>4

\* The loads that are settled, applied or not.
LEMMA SettledLoadKeepsInv ==
    ASSUME Map!MapInv, NEW l \in Loads,
           Map!LoadFails(l) \/ \E o \in Map!Observation : Map!LoadSucceeds(l, o)
    PROVE  /\ Map!MapInv'
           /\ raw' # raw /\ raw'.of # None /\ ~moving => raw'.of = viewport
<1>0. /\ Map!TypeOK /\ Map!LatestLoadIsOfTheView /\ Map!FarShowsNoViewport
      /\ Map!SearchHidesOthers
      /\ load \in [Loads -> Near \cup {None}] /\ load[l] # None
      /\ raw \in Map!Collection /\ shown \in Map!Collection
      /\ search = None \/ (search \in Map!Collection /\ search.of \in Searches)
      /\ hasLoaded \in BOOLEAN /\ limits \in BOOLEAN
      /\ None \notin Near \cup Far \cup Searches \cup Loads /\ Near \cap Far = {}
      /\ Searches \cap (Near \cup Far) = {}
  BY MapViewAssumption DEF Map!MapInv, Map!TypeOK, Map!LoadFails, Map!LoadSucceeds
<1>1. /\ load' = [load EXCEPT ![l] = None]
      /\ controller' \in Loads \cup {None}
      /\ boot' \in Loads \cup {"check", "done"}
      /\ UNCHANGED <<moving, viewport, located, outdated, limits, check, latest, search, moves>>
  BY <1>0 DEF Map!LoadFails, Map!LoadSucceeds, Map!Released, Map!TypeOK
<1>2. failures' \in 0 .. MaxFailures
  <2>1. failures \in Nat /\ failures <= MaxFailures /\ MaxFailures \in Nat
    BY <1>0, MapViewAssumption DEF Map!TypeOK
  <2>2. failures' = failures \/ (failures' = failures + 1 /\ failures' <= MaxFailures)
    BY <1>0 DEF Map!LoadFails, Map!LoadSucceeds
  <2> QED
    BY <2>1, <2>2
<1>3. Map!LatestLoadIsOfTheView'
  <2>1. load' \in [Loads -> Near \cup {None}]
        /\ \A m \in Loads : load'[m] = None \/ load'[m] = load[m]
    BY <1>0, <1>1
  <2>2. latest \in Loads \cup {None}
    BY <1>0 DEF Map!TypeOK
  <2> QED
    BY <1>0, <1>1, <2>1, <2>2 DEF Map!LatestLoadIsOfTheView
<1>4. CASE UNCHANGED <<raw, hasLoaded, shown>>
  <2>1. Map!TypeOK'
    BY <1>0, <1>1, <1>2, <1>4 DEF Map!TypeOK, Map!Collection, Map!Views
  <2>2. Map!FarShowsNoViewport' /\ Map!SearchHidesOthers'
    BY <1>0, <1>1, <1>4 DEF Map!FarShowsNoViewport, Map!SearchHidesOthers, Map!Views
  <2> QED
    BY <1>3, <1>4, <2>1, <2>2 DEF Map!MapInv
<1>5. ASSUME NEW o \in Map!Observation, Map!LoadSucceeds(l, o), Map!Applies(l)
      PROVE  /\ Map!MapInv'
             /\ raw' # raw /\ raw'.of # None /\ ~moving => raw'.of = viewport
  <2> DEFINE answer == Map!Answer(load[l], o)
             display == Map!Displayed(search, answer, TRUE, limits)
  <2>1. raw' = answer /\ hasLoaded' = TRUE /\ shown' = display
    BY <1>5 DEF Map!LoadSucceeds
  <2>2. load[l] \in Near /\ load[l] \in Map!Views \cup Searches
    BY <1>0 DEF Map!Views
  <2>3. answer \in Map!Collection /\ answer.of = load[l]
    BY <2>2, AnswerIsOfTheAsked
  <2> HIDE DEF answer
  <2>4. /\ display \in Map!Collection
        /\ display.of = IF search # None THEN search.of ELSE answer.of
    <3>1. CASE search # None
      <4>1. display = Map!Aged(search, limits)
        BY <3>1 DEF Map!Displayed
      <4>2. search \in Map!Collection
        BY <1>0, <3>1
      <4> QED
        BY <1>0, <3>1, <4>1, <4>2, AgedIsOfTheSame
    <3>2. CASE search = None
      <4>1. display = Map!Aged(answer, limits)
        BY <3>2 DEF Map!Displayed
      <4> QED
        BY <1>0, <2>3, <3>2, <4>1, AgedIsOfTheSame
    <3> QED
      BY <3>1, <3>2
  <2> HIDE DEF display
  <2>5. ~moving => load[l] = viewport
    BY <1>0, <1>5 DEF Map!LatestLoadIsOfTheView, Map!Applies
  <2>6. Map!TypeOK'
    <3>1. raw' \in Map!Collection' /\ shown' \in Map!Collection'
      BY <2>1, <2>3, <2>4 DEF Map!Collection, Map!Views
    <3>2. load' \in [Loads -> Near \cup {None}] /\ hasLoaded' \in BOOLEAN
      BY <1>0, <1>1, <2>1
    <3>3. search' = None \/ (search' \in Map!Collection' /\ search'.of \in Searches)
      BY <1>0, <1>1 DEF Map!Collection, Map!Views
    <3> QED
      BY <1>0, <1>1, <1>2, <3>1, <3>2, <3>3 DEF Map!TypeOK, Map!Views
  <2>7. Map!FarShowsNoViewport'
    BY <1>0, <1>1, <2>2, <2>5 DEF Map!FarShowsNoViewport
  <2>8. Map!SearchHidesOthers'
    BY <1>1, <2>1, <2>4 DEF Map!SearchHidesOthers
  <2> QED
    BY <1>3, <2>1, <2>3, <2>5, <2>6, <2>7, <2>8 DEF Map!MapInv
<1> QED
  BY <1>4, <1>5 DEF Map!LoadFails, Map!LoadSucceeds

\* A step that shows the search, or else what was shown, and refreshes nothing.
LEMMA RedisplayKeepsInv ==
    ASSUME Map!MapInv,
           search' = search \/ search' = None
              \/ (search' \in Map!Collection /\ search'.of \in Searches),
           shown' \in Map!Collection,
           search' # None => shown'.of \in {None, search'.of},
           search' = None /\ ~hasLoaded => shown'.of = shown.of \/ shown'.of \in Searches,
           search' # None => search'.of \notin Near \cup Far,
           None \notin Near \cup Far,
           Searches \cap (Near \cup Far) = {},
           outdated' \in 0 .. MaxObservation, located' \in BOOLEAN,
           check' \in [Checks -> {"boot", "background", None}],
           UNCHANGED <<boot, moving, viewport, limits, controller, latest, load, raw, hasLoaded,
                       moves, failures>>
    PROVE  Map!MapInv'
<1>0. /\ Map!TypeOK /\ Map!LatestLoadIsOfTheView /\ Map!FarShowsNoViewport
  BY DEF Map!MapInv
<1>1. Map!Collection' = Map!Collection /\ Map!Views' = Map!Views
  BY DEF Map!Collection, Map!Views
<1>2. Map!TypeOK'
  BY <1>0, <1>1 DEF Map!TypeOK
<1>3. Map!LatestLoadIsOfTheView'
  BY <1>0 DEF Map!LatestLoadIsOfTheView
<1>4. Map!FarShowsNoViewport'
  BY <1>0, <1>1 DEF Map!FarShowsNoViewport, Map!Views
<1>5. Map!SearchHidesOthers'
  BY DEF Map!SearchHidesOthers
<1> QED
  BY <1>2, <1>3, <1>4, <1>5 DEF Map!MapInv

\* A step that refreshes: the end of a move, or the answer to a check.
LEMMA RefreshingKeepsInv ==
    ASSUME Map!MapInv,
           NEW STATE before, before \in Map!Collection, Map!Refresh(before),
           search # None => before.of \in {None, search.of},
           boot' = boot \/ boot' = "done" \/ (viewport \in Near /\ boot' = latest'),
           moving' \in BOOLEAN, limits' \in BOOLEAN,
           check' \in [Checks -> {"boot", "background", None}],
           UNCHANGED <<viewport, located, outdated, search, moves, failures>>
    PROVE  /\ Map!MapInv'
           /\ raw' = raw \/ raw'.of = None
<1>0. Map!TypeOK /\ Map!SearchHidesOthers
  BY DEF Map!MapInv
<1>1. /\ controller' \in Loads \cup {None} /\ latest' \in Loads \cup {None}
      /\ load' \in [Loads -> Near \cup {None}]
      /\ raw' \in Map!Collection /\ shown' \in Map!Collection /\ hasLoaded' \in BOOLEAN
      /\ viewport \in Near => latest' \in Loads
      /\ latest' # None /\ load'[latest'] # None => load'[latest'] = viewport
      /\ viewport \in Far => shown'.of \notin Map!Views /\ ~hasLoaded'
      /\ search # None => shown'.of \in {None, search.of}
      /\ raw' = raw \/ raw'.of = None
  BY <1>0, RefreshIsOfTheView
<1>2. Map!Collection' = Map!Collection /\ Map!Views' = Map!Views
  BY DEF Map!Collection, Map!Views
<1>3. Map!TypeOK'
  BY <1>0, <1>1, <1>2 DEF Map!TypeOK
<1>4. Map!LatestLoadIsOfTheView' /\ Map!FarShowsNoViewport' /\ Map!SearchHidesOthers'
  BY <1>1, <1>2 DEF Map!LatestLoadIsOfTheView, Map!FarShowsNoViewport, Map!SearchHidesOthers
<1> QED
  BY <1>1, <1>3, <1>4 DEF Map!MapInv

\* What follows a check: a refresh, or a display with the limits it brought.
LEMMA ContinuingKeepsInv ==
    ASSUME Map!MapInv, NEW k \in Checks,
           Map!CheckAnswers(k) \/ Map!CheckFails(k)
    PROVE  /\ Map!MapInv'
           /\ raw' = raw \/ raw'.of = None
<1>0. /\ Map!TypeOK /\ shown \in Map!Collection /\ TRUE \in BOOLEAN
      /\ search # None => shown.of \in {None, search.of}
      /\ Near \cap Far = {} /\ None \notin Near \cup Far
      /\ Searches \cap (Near \cup Far) = {}
  BY MapViewAssumption DEF Map!MapInv, Map!TypeOK, Map!SearchHidesOthers
<1> DEFINE aged == Map!Displayed(search, raw, hasLoaded, TRUE)
<1>1. /\ aged \in Map!Collection
      /\ search # None => aged.of = search.of
      /\ search = None /\ ~hasLoaded => aged.of = shown.of
      /\ search = None \/ search.of \in Searches
  BY <1>0, DisplayedKeepsSearch
<1> HIDE DEF aged
<1>2. /\ check' \in [Checks -> {"boot", "background", None}]
      /\ limits' \in BOOLEAN
      /\ UNCHANGED <<moving, viewport, located, outdated, search, moves, failures>>
  BY <1>0 DEF Map!CheckAnswers, Map!CheckFails, Map!TypeOK
<1>3. ASSUME NEW STATE before, before \in Map!Collection, Map!Continue(k, before),
             search # None => before.of \in {None, search.of},
             search = None /\ ~hasLoaded => before.of = shown.of
      PROVE  /\ Map!MapInv'
             /\ raw' = raw \/ raw'.of = None
  <2>1. boot' = boot \/ boot' = "done" \/ (viewport \in Near /\ boot' = latest')
    BY <1>0, <1>3 DEF Map!Continue, Map!TypeOK, Map!Views
  <2>2. CASE Map!Refresh(before)
    BY <1>0, <1>1, <1>2, <1>3, <2>1, <2>2, RefreshingKeepsInv DEF Map!TypeOK
  <2>3. CASE ~(check[k] = "boot" \/ controller = None)
    <3>1. shown' = before /\ UNCHANGED <<boot, controller, latest, load, raw, hasLoaded>>
      BY <1>3, <2>3 DEF Map!Continue, Map!requestVars
    <3>2. Map!TypeOK'
      BY <1>0, <1>2, <1>3, <3>1 DEF Map!TypeOK, Map!Collection, Map!Views
    <3>3. Map!LatestLoadIsOfTheView' /\ Map!FarShowsNoViewport'
      BY <1>0, <1>1, <1>2, <1>3, <3>1
         DEF Map!MapInv, Map!LatestLoadIsOfTheView, Map!FarShowsNoViewport, Map!Views
    <3>4. Map!SearchHidesOthers'
      BY <1>2, <1>3, <3>1 DEF Map!SearchHidesOthers
    <3> QED
      BY <3>1, <3>2, <3>3, <3>4 DEF Map!MapInv
  <2> QED
    BY <1>3, <2>2, <2>3 DEF Map!Continue
<1>4. CASE Map!CheckAnswers(k)
  <2>1. Map!Continue(k, aged)
    BY <1>4 DEF Map!CheckAnswers, aged
  <2> QED
    BY <1>1, <1>3, <2>1
<1>5. CASE Map!CheckFails(k)
  <2>1. Map!Continue(k, shown)
    BY <1>5 DEF Map!CheckFails
  <2> QED
    BY <1>0, <1>3, <2>1
<1> QED
  BY <1>4, <1>5

\* MapInv is an invariant, and every step keeps what the loads are of.
LEMMA MapStep ==
    ASSUME Map!MapInv, [Map!Next]_Map!vars
    PROVE  /\ Map!MapInv'
           /\ raw' # raw /\ raw'.of # None /\ ~moving => raw'.of = viewport
<1>0. /\ Map!TypeOK /\ Map!LatestLoadIsOfTheView /\ Map!FarShowsNoViewport
      /\ Map!SearchHidesOthers
      /\ shown \in Map!Collection /\ limits \in BOOLEAN
      /\ outdated \in 0 .. MaxObservation /\ located \in BOOLEAN
      /\ check \in [Checks -> {"boot", "background", None}]
      /\ search = None \/ (search \in Map!Collection /\ search.of \in Searches)
      /\ Near \cap Far = {} /\ None \notin Near \cup Far
      /\ Searches \cap (Near \cup Far) = {}
  BY MapViewAssumption DEF Map!MapInv, Map!TypeOK
<1> DEFINE now == Map!Displayed(search, raw, hasLoaded, limits)
<1>1. /\ now \in Map!Collection
      /\ search # None => now.of = search.of
      /\ search = None /\ ~hasLoaded => now.of = shown.of
  BY <1>0, DisplayedKeepsSearch
<1> HIDE DEF now
<1>2. CASE UNCHANGED Map!vars
  <2>1. UNCHANGED <<moving, viewport, located, outdated, limits, boot, check, controller, latest,
                    load, raw, hasLoaded, search, shown, moves, failures>>
    BY <1>2 DEF Map!vars, Map!requestVars
  <2>2. search # None => shown.of \in {None, search.of}
    BY <1>0 DEF Map!SearchHidesOthers
  <2> QED
    BY <1>0, <2>1, <2>2, RedisplayKeepsInv
<1>3. ASSUME NEW l \in Loads,
             Map!LoadFails(l) \/ \E o \in Map!Observation : Map!LoadSucceeds(l, o)
      PROVE  /\ Map!MapInv'
             /\ raw' # raw /\ raw'.of # None /\ ~moving => raw'.of = viewport
  BY <1>3, SettledLoadKeepsInv
<1>4. CASE Map!MoveStart
  <2>1. /\ moving' = TRUE /\ latest' = None /\ hasLoaded' = FALSE
        /\ moves < MaxMoves /\ moves' = moves + 1
        /\ UNCHANGED <<boot, viewport, located, outdated, limits, check, controller, load, raw,
                       search, shown, failures>>
    BY <1>4 DEF Map!MoveStart
  <2>2. moves' \in 0 .. MaxMoves
    BY <1>0, <2>1, MapViewAssumption DEF Map!TypeOK
  <2>3. Map!TypeOK'
    <3>1. moving' \in BOOLEAN /\ hasLoaded' \in BOOLEAN
      BY <2>1
    <3>2. search' = None \/ (search' \in Map!Collection' /\ search'.of \in Searches)
      BY <1>0, <2>1 DEF Map!Collection, Map!Views
    <3> QED
      BY <1>0, <2>1, <2>2, <3>1, <3>2 DEF Map!TypeOK, Map!Collection, Map!Views
  <2>4. Map!LatestLoadIsOfTheView' /\ Map!FarShowsNoViewport' /\ Map!SearchHidesOthers'
    BY <1>0, <2>1 DEF Map!LatestLoadIsOfTheView, Map!FarShowsNoViewport, Map!SearchHidesOthers
  <2> QED
    BY <2>1, <2>3, <2>4 DEF Map!MapInv
<1>5. ASSUME NEW v \in Map!Views, Map!Drift(v)
      PROVE  Map!MapInv' /\ raw' = raw
  <2>1. /\ moving /\ viewport' = v
        /\ UNCHANGED <<boot, moving, located, outdated, limits, check, controller, latest, load,
                       raw, hasLoaded, search, shown, moves, failures>>
    BY <1>5 DEF Map!Drift, Map!requestVars
  <2>3. Map!TypeOK'
    BY <1>0, <2>1 DEF Map!TypeOK, Map!Collection, Map!Views
  <2>4. Map!LatestLoadIsOfTheView' /\ Map!FarShowsNoViewport' /\ Map!SearchHidesOthers'
    BY <1>0, <2>1 DEF Map!LatestLoadIsOfTheView, Map!FarShowsNoViewport, Map!SearchHidesOthers
  <2> QED
    BY <2>1, <2>3, <2>4 DEF Map!MapInv
<1>6. CASE Map!MoveEnd
  <2> DEFINE before == IF search # None /\ ~ located THEN now ELSE shown
  <2>1. /\ Map!Refresh(before) /\ moving' = FALSE
        /\ UNCHANGED <<boot, viewport, located, outdated, limits, check, search, moves, failures>>
    BY <1>6 DEF Map!MoveEnd, now
  <2>2. before \in Map!Collection /\ (search # None => before.of \in {None, search.of})
    BY <1>0, <1>1 DEF Map!SearchHidesOthers
  <2> HIDE DEF before
  <2>3. moving' \in BOOLEAN /\ limits' \in BOOLEAN
        /\ check' \in [Checks -> {"boot", "background", None}]
    BY <1>0, <2>1
  <2> QED
    BY <2>1, <2>2, <2>3, RefreshingKeepsInv
<1>7. CASE Map!Geolocate
  <2>1. /\ located' = TRUE
        /\ shown' = IF search # None THEN now ELSE shown
        /\ UNCHANGED <<boot, moving, viewport, outdated, limits, check, controller, latest, load,
                       raw, hasLoaded, search, moves, failures>>
    BY <1>7 DEF Map!Geolocate, Map!requestVars, now
  <2> QED
    BY <1>0, <1>1, <2>1, RedisplayKeepsInv
<1>8. ASSUME NEW s \in Searches, NEW o \in Map!Observation, Map!SearchPublishes(s, o)
      PROVE  Map!MapInv' /\ raw' = raw
  <2> DEFINE answer == Map!Answer(s, o)
             aged == Map!Aged(answer, limits)
  <2>1. answer \in Map!Collection /\ answer.of = s
    <3>1. s \in Map!Views \cup Searches
      OBVIOUS
    <3> QED
      BY <3>1, AnswerIsOfTheAsked
  <2>2. answer # None
    BY <2>1, MapViewAssumption
  <2> HIDE DEF answer
  <2>3. aged \in Map!Collection /\ aged.of = s
    BY <1>0, <2>1, AgedIsOfTheSame
  <2>4. /\ search' = answer
        /\ UNCHANGED <<boot, moving, viewport, located, outdated, limits, check, controller,
                       latest, load, raw, hasLoaded, moves, failures>>
        /\ shown' = Map!Displayed(answer, raw, hasLoaded, limits)
    BY <1>8 DEF Map!SearchPublishes, Map!requestVars, answer
  <2>5. shown' = aged
    BY <2>2, <2>4 DEF Map!Displayed
  <2> HIDE DEF aged
  <2> QED
    BY <1>0, <2>1, <2>3, <2>4, <2>5, RedisplayKeepsInv
<1>9. CASE Map!SearchClears
  <2> DEFINE left == Map!Displayed(None, raw, hasLoaded, limits)
  <2>1. /\ search' = None /\ shown' = left
        /\ UNCHANGED <<boot, moving, viewport, located, outdated, limits, check, controller,
                       latest, load, raw, hasLoaded, moves, failures>>
    BY <1>9 DEF Map!SearchClears, Map!requestVars
  <2>2. raw \in Map!Collection /\ hasLoaded \in BOOLEAN
    BY <1>0 DEF Map!TypeOK
  <2>3. left \in Map!Collection /\ (~hasLoaded => left.of = shown.of)
    <3>1. CASE hasLoaded
      <4>1. left = Map!Aged(raw, limits)
        BY <3>1 DEF Map!Displayed
      <4>2. Map!Aged(raw, limits) \in Map!Collection
        BY <1>0, <2>2, AgedIsOfTheSame
      <4> QED
        BY <3>1, <4>1, <4>2
    <3>2. CASE ~hasLoaded
      BY <1>0, <3>2 DEF Map!Displayed
    <3> QED
      BY <3>1, <3>2
  <2> HIDE DEF left
  <2> QED
    BY <1>0, <2>1, <2>3, RedisplayKeepsInv
<1>10. ASSUME NEW due \in BOOLEAN, Map!Tick(due)
       PROVE  Map!MapInv' /\ raw' = raw
  <2>1. /\ shown' = now /\ check' \in [Checks -> {"boot", "background", None}]
        /\ UNCHANGED <<boot, moving, viewport, located, outdated, limits, controller, latest,
                       load, raw, hasLoaded, search, moves, failures>>
    BY <1>0, <1>10 DEF Map!Tick, Map!BeginCheck, Map!requestVars, now
  <2> QED
    BY <1>0, <1>1, <2>1, RedisplayKeepsInv
<1>11. CASE Map!Resume
  <2>1. /\ check' \in [Checks -> {"boot", "background", None}]
        /\ UNCHANGED <<boot, moving, viewport, located, outdated, limits, controller, latest,
                       load, raw, hasLoaded, search, shown, moves, failures>>
    BY <1>0, <1>11 DEF Map!Resume, Map!BeginCheck, Map!requestVars
  <2>2. search # None => shown.of \in {None, search.of}
    BY <1>0 DEF Map!SearchHidesOthers
  <2> QED
    BY <1>0, <2>1, <2>2, RedisplayKeepsInv
<1>12. ASSUME NEW k \in Checks, Map!CheckAnswers(k) \/ Map!CheckFails(k)
       PROVE  /\ Map!MapInv'
              /\ raw' = raw \/ raw'.of = None
  BY <1>12, ContinuingKeepsInv
<1>13. CASE Map!TimePasses
  <2>1. /\ outdated < MaxObservation /\ outdated' = outdated + 1
        /\ UNCHANGED <<boot, moving, viewport, located, limits, check, controller, latest,
                       load, raw, hasLoaded, search, shown, moves, failures>>
    BY <1>13 DEF Map!TimePasses, Map!requestVars
  <2>2. search # None => shown.of \in {None, search.of}
    BY <1>0 DEF Map!SearchHidesOthers
  <2>3. outdated' \in 0 .. MaxObservation
    BY <1>0, <2>1, MapViewAssumption
  <2> QED
    BY <1>0, <2>1, <2>2, <2>3, RedisplayKeepsInv
<1>14. CASE Map!Next
  BY <1>14, <1>3, <1>4, <1>5, <1>6, <1>7, <1>8, <1>9, <1>10, <1>11, <1>12, <1>13 DEF Map!Next
<1> QED
  BY <1>2, <1>14

\* Whatever loads are answered late, the map that rests below the minimum zoom
\* shows no viewport's cafes, and a search hides what is not its own.
THEOREM MapInvariant == Map!Spec => []MapInv
<1>1. Map!Init => Map!MapInv
  <2> SUFFICES ASSUME Map!Init PROVE Map!MapInv
    OBVIOUS
  <2>1. Map!Nothing \in Map!Collection /\ Map!Nothing.of = None
    BY NothingIsTyped
  <2>2. Map!TypeOK
    <3>1. check \in [Checks -> {"boot", "background", None}]
      BY DEF Map!Init
    <3>2. 0 \in 0 .. MaxObservation /\ 0 \in 0 .. MaxMoves /\ 0 \in 0 .. MaxFailures
      BY MapViewAssumption
    <3> QED
      BY <2>1, <3>1, <3>2 DEF Map!Init, Map!TypeOK, Map!Views
  <2>3. Map!LatestLoadIsOfTheView /\ Map!FarShowsNoViewport /\ Map!SearchHidesOthers
    BY <2>1, MapViewAssumption 
    DEF Map!Init, Map!LatestLoadIsOfTheView, Map!FarShowsNoViewport, Map!SearchHidesOthers
  <2> QED
    BY <2>2, <2>3 DEF Map!MapInv
<1>2. Map!MapInv /\ [Map!Next]_Map!vars => Map!MapInv'
  BY MapStep
<1>3. Map!Spec => []Map!MapInv
  BY <1>1, <1>2, PTL DEF Map!Spec
<1> QED
  BY <1>3 DEF MapInv

\* Cafes loaded while the map rests are those of the viewport it rests on.
THEOREM LoadsAreOfTheRestingView == Map!Spec => LoadsRestingView
<1>1. Map!MapInv /\ [Map!Next]_Map!vars =>
         [(raw' # raw /\ raw'.of # None /\ ~ moving) => raw'.of = viewport]_Map!vars
  BY MapStep
<1>2. Map!Spec => []Map!MapInv
  BY MapInvariant DEF MapInv
<1> QED
  BY <1>1, <1>2, PTL DEF Map!Spec, LoadsRestingView, Map!LoadsRestingView

-----------------------------------------------------------------------------
(* Sequences of quadrants. *)

\* A set of numbers that is not empty has a least one.
LEMMA LeastExists ==
    ASSUME NEW S \in SUBSET Nat, NEW n \in S
    PROVE  \E m \in S : \A i \in S : m <= i
<1>1. IsWellFoundedOn(OpToRel(<, Nat), Nat)
  BY NatLessThanWellFounded
<1>2. \A x \in Nat, y \in Nat : x < y => <<x, y>> \in OpToRel(<, Nat)
  BY Zenon DEF OpToRel
<1>3. PICK R : IsWellFoundedOn(R, Nat) /\ \A x \in Nat, y \in Nat : x < y => <<x, y>> \in R
  BY <1>1, <1>2, Zenon
<1>4. IsWellFoundedOn(R, Nat) /\ S \subseteq Nat /\ S # {}
  BY <1>3
<1>5. \E m \in S : \A i \in S : ~(<<i, m>> \in R)
  BY <1>4, WFMin, Zenon
<1>6. PICK m \in S : \A i \in S : ~(<<i, m>> \in R)
  BY <1>5
<1>7. \A i \in S : ~(i < m)
  BY <1>3, <1>6
<1>8. \A i \in S : m <= i
  BY <1>7
<1> QED
  BY <1>8

\* The first n elements of a sequence.
LEMMA FirstElements ==
    ASSUME NEW S, NEW s \in Seq(S), NEW n \in Nat, n <= Len(s)
    PROVE  /\ SubSeq(s, 1, n) \in Seq(S)
           /\ Len(SubSeq(s, 1, n)) = n
           /\ \A i \in 1..n : SubSeq(s, 1, n)[i] = s[i]
<1>1. Len(s) \in Nat /\ \A i \in 1..n : s[i] \in S
  OBVIOUS
<1>2. 1 \in Int /\ n \in Int
  OBVIOUS
<1> QED
  BY <1>1, <1>2, SubSeqProperties

\* A prefix is no longer and has the same elements.
LEMMA PrefixIsPointwise ==
    ASSUME NEW S, NEW s \in Seq(S), NEW t \in Seq(S)
    PROVE  IsPrefix(s, t) <=> Len(s) <= Len(t) /\ \A i \in 1..Len(s) : s[i] = t[i]
<1>1. SubSeq(s, 1, Len(s)) = s
  BY SubSeqFull
<1>2. Len(s) \in Nat /\ Len(t) \in Nat
  OBVIOUS
<1>3. ASSUME Len(s) <= Len(t)
      PROVE  /\ SubSeq(t, 1, Len(s)) \in Seq(S)
             /\ Len(SubSeq(t, 1, Len(s))) = Len(s)
             /\ \A i \in 1..Len(s) : SubSeq(t, 1, Len(s))[i] = t[i]
  BY <1>2, <1>3, FirstElements
<1>4. ASSUME Len(s) <= Len(t), \A i \in 1..Len(s) : s[i] = t[i]
      PROVE  SubSeq(t, 1, Len(s)) = s
  BY <1>2, <1>3, <1>4, SeqEqual
<1> QED
  BY <1>1, <1>3, <1>4 DEF IsPrefix

LEMMA PrefixOfPrefix ==
    ASSUME NEW S, NEW s \in Seq(S), NEW t \in Seq(S), NEW u \in Seq(S),
           IsPrefix(s, t), IsPrefix(t, u)
    PROVE  IsPrefix(s, u)
<1>1. /\ Len(s) \in Nat /\ Len(t) \in Nat /\ Len(u) \in Nat
      /\ Len(s) <= Len(t) /\ \A i \in 1..Len(s) : s[i] = t[i]
      /\ Len(t) <= Len(u) /\ \A i \in 1..Len(t) : t[i] = u[i]
  BY PrefixIsPointwise
<1>2. Len(s) <= Len(u) /\ \A i \in 1..Len(s) : s[i] = u[i]
  BY <1>1
<1> QED
  BY <1>2, PrefixIsPointwise

\* Of two prefixes of one sequence the shorter is a prefix of the longer.
LEMMA PrefixesAreNested ==
    ASSUME NEW S, NEW s \in Seq(S), NEW t \in Seq(S), NEW u \in Seq(S),
           IsPrefix(s, u), IsPrefix(t, u), Len(s) <= Len(t)
    PROVE  IsPrefix(s, t)
<1>1. /\ Len(s) \in Nat /\ Len(t) \in Nat /\ Len(u) \in Nat
      /\ \A i \in 1..Len(s) : s[i] = u[i]
      /\ \A i \in 1..Len(t) : t[i] = u[i]
  BY PrefixIsPointwise
<1>2. \A i \in 1..Len(s) : s[i] = t[i]
  BY <1>1
<1> QED
  BY <1>2, PrefixIsPointwise

\* The tiles on the way to a tile.
LEMMA PathIsNested ==
    ASSUME NEW S, NEW u \in Seq(S), NEW n \in Nat, n <= Len(u)
    PROVE  /\ SubSeq(u, 1, n) \in Seq(S) /\ Len(SubSeq(u, 1, n)) = n
           /\ IsPrefix(SubSeq(u, 1, n), u)
           /\ \A i \in 0..n : SubSeq(SubSeq(u, 1, n), 1, i) = SubSeq(u, 1, i)
<1> DEFINE p == SubSeq(u, 1, n)
<1>1. p \in Seq(S) /\ Len(p) = n /\ \A i \in 1..n : p[i] = u[i]
  BY FirstElements
<1>2. Len(u) \in Nat
  OBVIOUS
<1> HIDE DEF p
<1>3. IsPrefix(p, u)
  BY <1>1, <1>2, PrefixIsPointwise
<1>4. ASSUME NEW i \in 0..n
      PROVE  SubSeq(p, 1, i) = SubSeq(u, 1, i)
  <2>1. i \in Nat /\ i <= Len(p) /\ i <= Len(u)
    BY <1>1, <1>2
  <2>2. SubSeq(p, 1, i) \in Seq(S) /\ Len(SubSeq(p, 1, i)) = i
        /\ \A j \in 1..i : SubSeq(p, 1, i)[j] = p[j]
    BY <1>1, <2>1, FirstElements
  <2>3. SubSeq(u, 1, i) \in Seq(S) /\ Len(SubSeq(u, 1, i)) = i
        /\ \A j \in 1..i : SubSeq(u, 1, i)[j] = u[j]
    BY <2>1, FirstElements
  <2>4. \A j \in 1..i : SubSeq(p, 1, i)[j] = SubSeq(u, 1, i)[j]
    BY <1>1, <2>1, <2>2, <2>3
  <2> QED
    BY <2>2, <2>3, <2>4, SeqEqual
<1> QED
  BY <1>1, <1>3, <1>4 DEF p

-----------------------------------------------------------------------------
(* Tiles. *)

\* The tiles are what lies at most MaxSplitDepth below a root.
LEMMA TilesAreBelowRoots ==
    /\ Tiles \subseteq Seq(Quadrants)
    /\ \A t \in Seq(Quadrants), c \in Calls : \A r \in Roots[c] :
          IsPrefix(r, t) /\ Len(t) <= Len(r) + MaxSplitDepth => t \in Tiles
<1>0. MaxSplitDepth \in Nat /\ \A c \in Calls : Roots[c] \subseteq Seq(Quadrants)
  BY TileAssumption
<1>1. ASSUME NEW t \in Tiles
      PROVE  t \in Seq(Quadrants)
  <2>1. PICK c \in Calls : \E r \in Roots[c] : t \in Below(r)
    BY DEF Tiles
  <2>2. PICK r \in Roots[c] : t \in Below(r)
    BY <2>1
  <2>3. PICK n \in 0..MaxSplitDepth : \E s \in [1..n -> Quadrants] : t = r \o s
    BY <2>2 DEF Below
  <2>4. PICK s \in [1..n -> Quadrants] : t = r \o s
    BY <2>3
  <2>5. s \in Seq(Quadrants) /\ r \in Seq(Quadrants)
    BY <1>0, SeqDef
  <2> QED
    BY <2>4, <2>5, ConcatProperties
<1>2. ASSUME NEW t \in Seq(Quadrants), NEW c \in Calls, NEW r \in Roots[c],
             IsPrefix(r, t), Len(t) <= Len(r) + MaxSplitDepth
      PROVE  t \in Tiles
  <2> DEFINE n == Len(t) - Len(r)
             s == SubSeq(t, Len(r) + 1, Len(t))
  <2>1. /\ r \in Seq(Quadrants) /\ Len(t) \in Nat /\ Len(r) \in Nat /\ Len(r) <= Len(t)
        /\ \A i \in 1..Len(r) : r[i] = t[i]
    BY <1>0, <1>2, PrefixIsPointwise
  <2>2. n \in 0..MaxSplitDepth
    BY <1>0, <1>2, <2>1
  <2>3. /\ s \in Seq(Quadrants) /\ Len(s) = n
        /\ \A i \in 1..n : s[i] = t[Len(r) + i]
    <3>1. \A i \in (Len(r) + 1) .. Len(t) : t[i] \in Quadrants
      BY <2>1
    <3>2. Len(r) + 1 \in Int /\ Len(t) \in Int
      BY <2>1
    <3>3. /\ s \in Seq(Quadrants)
          /\ Len(s) = IF Len(r) + 1 <= Len(t) THEN Len(t) - (Len(r) + 1) + 1 ELSE 0
          /\ \A i \in 1 .. Len(t) - (Len(r) + 1) + 1 : s[i] = t[(Len(r) + 1) + i - 1]
      BY <3>1, <3>2, SubSeqProperties
    <3> QED
      BY <2>1, <3>3
  <2> HIDE DEF s
  <2>4. /\ r \o s \in Seq(Quadrants) /\ Len(r \o s) = Len(r) + Len(s)
        /\ \A i \in 1 .. Len(r) + Len(s) :
              (r \o s)[i] = IF i <= Len(r) THEN r[i] ELSE s[i - Len(r)]
    BY <2>1, <2>3, ConcatProperties
  <2>5. \A i \in 1..Len(t) : (r \o s)[i] = t[i]
    <3> SUFFICES ASSUME NEW i \in 1..Len(t)
                 PROVE  (r \o s)[i] = t[i]
      OBVIOUS
    <3>1. i \in 1 .. Len(r) + Len(s)
      BY <2>1, <2>3
    <3>2. CASE i <= Len(r)
      BY <2>1, <2>4, <3>1, <3>2
    <3>3. CASE ~(i <= Len(r))
      <4>1. i - Len(r) \in 1..n /\ Len(r) + (i - Len(r)) = i
        BY <2>1, <3>3
      <4> QED
        BY <2>3, <2>4, <3>1, <3>3, <4>1
    <3> QED
      BY <3>2, <3>3
  <2>6. t = r \o s
    <3>1. Len(r \o s) = Len(t)
      BY <2>1, <2>3, <2>4
    <3>2. r \o s \in Seq(Quadrants) /\ \A i \in 1..Len(r \o s) : (r \o s)[i] = t[i]
      BY <2>4, <2>5, <3>1
    <3> QED
      BY <3>1, <3>2, SeqEqual
  <2>7. s \in [1..n -> Quadrants]
    BY <2>3, LenProperties
  <2>8. t \in Below(r)
    BY <2>2, <2>6, <2>7 DEF Below
  <2> QED
    BY <2>8 DEF Tiles
<1> QED
  BY <1>1, <1>2

\* The roots are tiles, and so are the children of a tile that may be split.
LEMMA RootsAndChildrenAreTiles ==
    /\ \A c \in Calls : Roots[c] \subseteq Tiles
    /\ \A t \in Tiles, q \in Quadrants : Splittable(t) => Append(t, q) \in Tiles
<1>0. MaxSplitDepth \in Nat /\ \A c \in Calls : Roots[c] \subseteq Seq(Quadrants)
  BY TileAssumption
<1>1. ASSUME NEW c \in Calls, NEW r \in Roots[c]
      PROVE  r \in Tiles
  <2>1. r \in Seq(Quadrants) /\ Len(r) \in Nat
    BY <1>0
  <2>2. IsPrefix(r, r)
    BY <2>1, PrefixIsPointwise
  <2> QED
    BY <1>0, <2>1, <2>2, TilesAreBelowRoots
<1>2. ASSUME NEW t \in Tiles, NEW q \in Quadrants, Splittable(t)
      PROVE  Append(t, q) \in Tiles
  <2>1. t \in Seq(Quadrants)
    BY TilesAreBelowRoots
  <2>2. PICK c \in Calls : \E r \in Roots[c] : IsPrefix(r, t) /\ Len(t) < Len(r) + MaxSplitDepth
    BY <1>2 DEF Splittable
  <2>3. PICK r \in Roots[c] : IsPrefix(r, t) /\ Len(t) < Len(r) + MaxSplitDepth
    BY <2>2
  <2>4. r \in Seq(Quadrants) /\ Len(r) \in Nat /\ Len(t) \in Nat
    BY <1>0, <2>1
  <2> DEFINE child == Append(t, q)
  <2>5. /\ child \in Seq(Quadrants) /\ Len(child) = Len(t) + 1
        /\ \A i \in 1..Len(t) : child[i] = t[i]
    BY <2>1, AppendProperties
  <2> HIDE DEF child
  <2>6. Len(t) <= Len(child) /\ \A i \in 1..Len(t) : t[i] = child[i]
    BY <2>4, <2>5
  <2>7. IsPrefix(t, child)
    BY <2>1, <2>5, <2>6, PrefixIsPointwise
  <2>8. IsPrefix(r, child)
    BY <2>1, <2>3, <2>4, <2>5, <2>7, PrefixOfPrefix
  <2>9. Len(child) <= Len(r) + MaxSplitDepth
    BY <1>0, <2>3, <2>4, <2>5
  <2> QED
    BY <2>5, <2>8, <2>9, TilesAreBelowRoots DEF child
<1> QED
  BY <1>1, <1>2

\* A cafe within a tile that may be split lies in one of its children.
LEMMA CafesLieInChildren ==
    ASSUME NEW t \in Tiles, Splittable(t), NEW k \in Within(t)
    PROVE  /\ Len(t) < Len(Location[k])
           /\ Append(t, Location[k][Len(t) + 1]) \in Children(t)
           /\ Append(t, Location[k][Len(t) + 1]) \in Tiles
           /\ k \in Within(Append(t, Location[k][Len(t) + 1]))
<1> DEFINE loc == Location[k]
           q == loc[Len(t) + 1]
<1>1. /\ MaxSplitDepth \in Nat /\ k \in Cafes /\ loc \in Seq(Quadrants) /\ t \in Seq(Quadrants)
      /\ IsPrefix(t, loc) /\ Len(t) \in Nat /\ Len(loc) \in Nat
  BY TileAssumption, TilesAreBelowRoots DEF Within
<1>2. PICK c \in Calls : \E r \in Roots[c] : IsPrefix(r, t) /\ Len(t) < Len(r) + MaxSplitDepth
  BY DEF Splittable
<1>3. PICK r \in Roots[c] : IsPrefix(r, t) /\ Len(t) < Len(r) + MaxSplitDepth
  BY <1>2
<1>4. r \in Seq(Quadrants) /\ Len(r) \in Nat
  BY TileAssumption
<1>5. IsPrefix(r, loc)
  BY <1>1, <1>3, <1>4, PrefixOfPrefix
<1>6. Len(r) + MaxSplitDepth <= Len(loc)
  BY <1>1, <1>5, TileAssumption
<1>7. Len(t) < Len(loc)
  BY <1>1, <1>3, <1>4, <1>6
<1>8. q \in Quadrants
  BY <1>1, <1>7
<1>9. /\ Append(t, q) \in Seq(Quadrants) /\ Len(Append(t, q)) = Len(t) + 1
      /\ \A i \in 1..Len(t) : Append(t, q)[i] = t[i]
      /\ Append(t, q)[Len(t) + 1] = q
  BY <1>1, <1>8, AppendProperties
<1>10. \A i \in 1..Len(t) : t[i] = loc[i]
  BY <1>1, PrefixIsPointwise
<1>11. IsPrefix(Append(t, q), loc)
  <2>1. \A i \in 1..Len(Append(t, q)) : Append(t, q)[i] = loc[i]
    <3> SUFFICES ASSUME NEW i \in 1..Len(Append(t, q))
                 PROVE  Append(t, q)[i] = loc[i]
      OBVIOUS
    <3>1. i \in 1..Len(t) \/ i = Len(t) + 1
      BY <1>1, <1>9
    <3> QED
      BY <1>9, <1>10, <3>1
  <2>2. Len(Append(t, q)) <= Len(loc)
    BY <1>1, <1>7, <1>9
  <2> QED
    BY <1>1, <1>9, <2>1, <2>2, PrefixIsPointwise
<1> QED
  BY <1>1, <1>7, <1>8, <1>11, RootsAndChildrenAreTiles DEF Children, Within

\* The descent through remembered splits ends, for every cafe of the tiles it
\* starts from, in a tile that is answered by the cache or has to be asked for.
LEMMA VisitLeavesNoGap ==
    ASSUME NEW STATE start, NEW STATE splits, start \in SUBSET Tiles, splits \in SUBSET Tiles,
           \A t \in splits : Splittable(t),
           NEW r \in start, NEW k \in Within(r)
    PROVE  \E t \in Reached(start, splits) :
              /\ k \in Within(t) /\ IsPrefix(r, t)
              /\ t \notin splits \/ Cached(t) # {}
<1> DEFINE loc == Location[k]
           path(n) == SubSeq(loc, 1, n)
           passed(n) == path(n) \in splits /\ Cached(path(n)) = {}
           stops == {n \in Nat : Len(r) <= n /\ n <= Len(loc) /\ ~passed(n)}
<1>1. /\ k \in Cafes /\ loc \in Seq(Quadrants) /\ Len(loc) \in Nat
      /\ r \in Tiles /\ r \in Seq(Quadrants) /\ Len(r) \in Nat
      /\ IsPrefix(r, loc) /\ Len(r) <= Len(loc)
  <2>1. k \in Cafes /\ IsPrefix(r, loc) /\ r \in Tiles
    BY DEF Within
  <2>2. loc \in Seq(Quadrants) /\ r \in Seq(Quadrants)
    BY <2>1, TileAssumption, TilesAreBelowRoots
  <2>3. Len(r) <= Len(loc)
    BY <2>1 DEF IsPrefix
  <2> QED
    BY <2>1, <2>2, <2>3
<1>2. \A n \in Nat : n <= Len(loc) =>
         /\ path(n) \in Seq(Quadrants) /\ Len(path(n)) = n /\ IsPrefix(path(n), loc)
         /\ \A i \in 0..n : SubSeq(path(n), 1, i) = path(i)
  BY <1>1, PathIsNested
<1>3. path(Len(r)) = r /\ path(Len(loc)) = loc
  <2>1. SubSeq(r, 1, Len(r)) = r /\ SubSeq(loc, 1, Len(loc)) = loc
    BY <1>1, SubSeqFull
  <2> QED
    BY <1>1, <2>1 DEF IsPrefix
<1>4. \A n \in Nat : n <= Len(loc) /\ path(n) \in Tiles => k \in Within(path(n))
  BY <1>1, <1>2 DEF Within
<1>5. \A n \in Nat : n <= Len(loc) /\ path(n) \in splits => n < Len(loc)
  <2> SUFFICES ASSUME NEW n \in Nat, n <= Len(loc), path(n) \in splits
               PROVE  n < Len(loc)
    OBVIOUS
  <2>1. path(n) \in Tiles /\ Splittable(path(n)) /\ k \in Within(path(n)) /\ Len(path(n)) = n
    BY <1>2, <1>4
  <2>2. Len(path(n)) < Len(Location[k])
    BY <2>1, CafesLieInChildren
  <2> QED
    BY <2>1, <2>2
<1>6. Len(loc) \in stops
  BY <1>1, <1>5
<1> HIDE DEF path
<1>7. stops \in SUBSET Nat
  OBVIOUS
<1>8. \E m \in stops : \A i \in stops : m <= i
  BY <1>6, <1>7, LeastExists
<1>9. PICK m \in stops : \A i \in stops : m <= i
  BY <1>8
<1>10. /\ m \in Nat /\ Len(r) <= m /\ m <= Len(loc) /\ ~passed(m)
       /\ \A n \in Nat : Len(r) <= n /\ n < m => passed(n)
  <2>1. m \in Nat /\ Len(r) <= m /\ m <= Len(loc) /\ ~passed(m)
    OBVIOUS
  <2>2. ASSUME NEW n \in Nat, Len(r) <= n, n < m
        PROVE  passed(n)
    BY <1>1, <1>9, <2>1, <2>2
  <2> QED
    BY <2>1, <2>2
<1> HIDE DEF stops
<1>11. path(m) \in Tiles
  <2>1. CASE m = Len(r)
    BY <1>1, <1>3, <2>1
  <2>2. CASE m # Len(r)
    <3> DEFINE n == m - 1
               p == path(n)
    <3>1. n \in Nat /\ Len(r) <= n /\ n < m /\ n <= Len(loc) /\ m = n + 1
      BY <1>1, <1>10, <2>2
    <3> HIDE DEF n
    <3>2. p \in splits /\ p \in Tiles /\ Splittable(p)
      BY <1>10, <3>1
    <3>3. p \in Seq(Quadrants) /\ Len(p) = n /\ k \in Within(p)
      BY <1>2, <1>4, <3>1, <3>2
    <3>4. Append(p, loc[n + 1]) \in Tiles
      <4>1. Append(p, Location[k][Len(p) + 1]) \in Tiles
        BY <3>2, <3>3, CafesLieInChildren
      <4> QED
        BY <3>3, <4>1
    <3>5. path(m) = Append(p, loc[n + 1])
      <4>1. /\ path(m) \in Seq(Quadrants) /\ Len(path(m)) = m
            /\ \A i \in 1..m : path(m)[i] = loc[i]
        BY <1>1, <1>10, FirstElements DEF path
      <4>2. \A i \in 1..n : p[i] = loc[i]
        BY <1>1, <3>1, FirstElements DEF path
      <4>3. loc[n + 1] \in Quadrants
        BY <1>1, <1>10, <3>1
      <4> DEFINE child == Append(p, loc[n + 1])
      <4>4. /\ child \in Seq(Quadrants) /\ Len(child) = n + 1
            /\ \A i \in 1..n : child[i] = p[i]
            /\ child[n + 1] = loc[n + 1]
        BY <3>3, <4>3, AppendProperties
      <4> HIDE DEF child
      <4>5. \A i \in 1..m : path(m)[i] = child[i]
        <5> SUFFICES ASSUME NEW i \in 1..m
                     PROVE  path(m)[i] = child[i]
          OBVIOUS
        <5>1. i \in 1..n \/ i = n + 1
          BY <3>1
        <5> QED
          BY <4>1, <4>2, <4>4, <5>1
      <4>6. Len(path(m)) = Len(child) /\ \A i \in 1..Len(path(m)) : path(m)[i] = child[i]
        BY <3>1, <4>1, <4>4, <4>5
      <4> QED
        BY <4>1, <4>4, <4>6, SeqEqual DEF child
    <3> QED
      BY <3>4, <3>5
  <2> QED
    BY <2>1, <2>2
<1>12. IsPrefix(r, path(m))
  <2>1. path(m) \in Seq(Quadrants) /\ Len(path(m)) = m /\ IsPrefix(path(m), loc)
    BY <1>2, <1>10
  <2> QED
    BY <1>1, <1>10, <2>1, PrefixesAreNested
<1>13. path(m) \in Reached(start, splits)
  <2>1. Len(path(m)) = m
    BY <1>2, <1>10
  <2>2. \A n \in Len(r)..(Len(path(m)) - 1) :
           SubSeq(path(m), 1, n) \in splits /\ Cached(SubSeq(path(m), 1, n)) = {}
    <3> SUFFICES ASSUME NEW n \in Len(r)..(Len(path(m)) - 1)
                 PROVE  SubSeq(path(m), 1, n) \in splits /\ Cached(SubSeq(path(m), 1, n)) = {}
      OBVIOUS
    <3>1. n \in Nat /\ Len(r) <= n /\ n < m /\ n \in 0..m
      BY <1>1, <1>10, <2>1
    <3>2. SubSeq(path(m), 1, n) = path(n)
      BY <1>2, <1>10, <3>1
    <3>3. passed(n)
      BY <1>10, <3>1
    <3> QED
      BY <3>2, <3>3
  <2> QED
    BY <1>11, <1>12, <2>2 DEF Reached
<1>14. k \in Within(path(m)) /\ (path(m) \notin splits \/ Cached(path(m)) # {})
  BY <1>4, <1>10, <1>11
<1> QED
  BY <1>12, <1>13, <1>14

-----------------------------------------------------------------------------
(* The tasks of a call. *)

\* What a visit makes of the tasks: only tiles it reaches change, and what is
\* taken from the cache is whole and of the version of now.
LEMMA VisitedTasks ==
    ASSUME TypeOK, AnswersAreWhole,
           NEW STATE start, NEW STATE splits, NEW STATE tasks,
           start \in SUBSET Tiles, splits \in SUBSET Tiles, tasks \in [Tiles -> TaskStates]
    PROVE  /\ Visited(start, splits, tasks) \in [Tiles -> TaskStates]
           /\ \A t \in Tiles \ Reached(start, splits) : Visited(start, splits, tasks)[t] = tasks[t]
           /\ \A t \in Reached(start, splits) :
                 LET visited == Visited(start, splits, tasks)[t] IN
                 /\ visited.at \in {"done", "split", "queued"}
                 /\ t \notin splits \/ Cached(t) # {} => visited.at \in {"done", "queued"}
                 /\ visited.at = "done" =>
                       WholeAnswer(t, visited.answer) /\ visited.asked = visited.version
<1> DEFINE visits == Visited(start, splits, tasks)
           of(t) == IF t \notin Reached(start, splits) THEN tasks[t]
                    ELSE IF Cached(t) # {}
                         THEN LET e == CHOOSE e \in Cached(t) : TRUE
                              IN [at |-> "done", version |-> version,
                                  asked |-> e.asked, answer |-> e.answer]
                    ELSE IF t \in splits THEN [at |-> "split"]
                    ELSE [at |-> "queued", version |-> version]
<1>1. visits = [t \in Tiles |-> of(t)]
  BY DEF Visited
<1>2. Reached(start, splits) \subseteq Tiles
  BY DEF Reached
<1>3. ASSUME NEW t \in Tiles, t \notin Reached(start, splits)
      PROVE  of(t) = tasks[t] /\ of(t) \in TaskStates
  BY <1>3
<1>4. ASSUME NEW t \in Reached(start, splits)
      PROVE  /\ of(t) \in TaskStates
             /\ of(t).at \in {"done", "split", "queued"}
             /\ t \notin splits \/ Cached(t) # {} => of(t).at \in {"done", "queued"}
             /\ of(t).at = "done" => WholeAnswer(t, of(t).answer) /\ of(t).asked = of(t).version
  <2>0. version \in Versions
    BY DEF TypeOK
  <2>1. CASE Cached(t) # {}
    <3> DEFINE e == CHOOSE e \in Cached(t) : TRUE
               d == [at |-> "done", version |-> version, asked |-> e.asked, answer |-> e.answer]
    <3>1. e \in Cached(t)
      BY <2>1
    <3> HIDE DEF e
    <3>2. /\ e \in tileCache /\ e.version = version /\ e.tile = t
          /\ e.asked \in Versions /\ e.answer \in SUBSET Cafes
      BY <3>1 DEF Cached, TypeOK
    <3>3. WholeAnswer(t, e.answer) /\ e.asked = version
      BY <3>2 DEF AnswersAreWhole
    <3>4. of(t) = d
      BY <1>4, <2>1 DEF e
    <3>5. /\ d.at = "done" /\ d.version = version /\ d.asked = e.asked /\ d.answer = e.answer
          /\ d \in [at : {"done"}, version : Versions, asked : Versions, answer : SUBSET Cafes]
      BY <2>0, <3>2
    <3> HIDE DEF d, of
    <3> QED
      BY <3>3, <3>4, <3>5 DEF TaskStates
  <2>2. CASE Cached(t) = {} /\ t \in splits
    <3>1. of(t) = [at |-> "split"]
      BY <1>4, <2>2
    <3>2. of(t) \in [at : {"none", "split", "failed"}] /\ of(t).at = "split"
      BY <3>1
    <3> HIDE DEF of
    <3> QED
      BY <2>2, <3>2 DEF TaskStates
  <2>3. CASE Cached(t) = {} /\ t \notin splits
    <3>1. of(t) = [at |-> "queued", version |-> version]
      BY <1>4, <2>3
    <3>2. of(t) \in [at : {"queued", "fetching"}, version : Versions] /\ of(t).at = "queued"
      BY <2>0, <3>1
    <3> HIDE DEF of
    <3> QED
      BY <2>3, <3>2 DEF TaskStates
  <2> QED
    BY <2>1, <2>2, <2>3
<1> HIDE DEF of
<1>5. visits \in [Tiles -> TaskStates]
  BY <1>1, <1>3, <1>4
<1>6. \A t \in Tiles : visits[t] = of(t)
  BY <1>1
<1> HIDE DEF visits
<1>7. \A t \in Tiles \ Reached(start, splits) : visits[t] = tasks[t]
  BY <1>3, <1>6
<1>8. \A t \in Reached(start, splits) :
         /\ visits[t].at \in {"done", "split", "queued"}
         /\ t \notin splits \/ Cached(t) # {} => visits[t].at \in {"done", "queued"}
         /\ visits[t].at = "done" =>
               WholeAnswer(t, visits[t].answer) /\ visits[t].asked = visits[t].version
  BY <1>2, <1>4, <1>6
<1> QED
  BY <1>5, <1>7, <1>8 DEF visits

\* A step that starts no request leaves the slots as many or more free.
LEMMA NoRequestStarted ==
    ASSUME SlotsSuffice, TypeOK,
           NEW c \in Calls, NEW STATE tasks, tasks \in [Tiles -> TaskStates],
           task' = [task EXCEPT ![c] = tasks],
           \A t \in Tiles : tasks[t].at = "fetching" => task[c][t].at = "fetching"
    PROVE  IsFiniteSet(Fetching') /\ Cardinality(Fetching') <= MaxRequests
<1>1. Fetching' \subseteq Fetching
  BY DEF Fetching, TypeOK
<1>2. IsFiniteSet(Fetching) /\ Cardinality(Fetching) <= MaxRequests /\ MaxRequests \in Nat
  BY TileAssumption DEF SlotsSuffice
<1> DEFINE before == Fetching
           after == Fetching'
<1>3. IsFiniteSet(after) /\ Cardinality(after) <= Cardinality(before)
  BY <1>1, <1>2, FS_Subset
<1>4. Cardinality(after) \in Nat /\ Cardinality(before) \in Nat
  BY <1>2, <1>3, FS_CardinalityType
<1> HIDE DEF before
<1> QED
  BY <1>2, <1>3, <1>4 DEF before

\* Every step of a call changes its own tasks, status and result only: what has
\* to be shown of these.
LEMMA CallStepKeepsInv ==
    ASSUME TileInv,
           NEW c \in Calls, NEW tasks \in [Tiles -> TaskStates],
           NEW status \in {"open", "resolved", "rejected"}, NEW cafes \in SUBSET Cafes,
           task' = [task EXCEPT ![c] = tasks],
           call' = [call EXCEPT ![c] = status],
           result' = [result EXCEPT ![c] = cafes],
           UNCHANGED <<version, active, past>>,
           splitTiles' \in SUBSET Tiles, \A t \in splitTiles' : Splittable(t),
           tileCache' \subseteq [version : Versions, tile : Tiles, answer : SUBSET Cafes,
                                 asked : Versions],
           \A e \in tileCache' : WholeAnswer(e.tile, e.answer) /\ e.asked = e.version,
           aborted \subseteq aborted', aborted' \subseteq aborted \cup {c},
           c \in aborted' => \A t \in Tiles : tasks[t].at # "queued",
           IsFiniteSet(Fetching') /\ Cardinality(Fetching') <= MaxRequests,
           \A t \in Tiles : tasks[t].at # "none" => \E r \in Roots[c] : IsPrefix(r, t),
           \A t \in Tiles : tasks[t].at = "done" =>
               WholeAnswer(t, tasks[t].answer) /\ tasks[t].asked = tasks[t].version,
           status = "open" => \A t \in Tiles : tasks[t].at # "failed",
           status = "open" => \A k \in Inside(c) : \E t \in Tiles :
               k \in Within(t) /\ tasks[t].at \in {"queued", "fetching", "done"},
           status = "resolved" => \A k \in Inside(c) :
               /\ (\A served \in past : k \in served) => k \in cafes
               /\ k \in cafes => \E served \in past : k \in served
    PROVE  TileInv'
<1>0. /\ TypeOK /\ SlotsSuffice /\ TasksFollowCalls /\ SplitsStayInReach
      /\ AnswersAreWhole /\ OpenCallsCover /\ ResultIsWhole /\ AnswersMatchVersion
  BY DEF TileInv
<1>1. /\ task' \in [Calls -> [Tiles -> TaskStates]]
      /\ task'[c] = tasks /\ \A d \in Calls \ {c} : task'[d] = task[d]
      /\ call' \in [Calls -> {"idle", "open", "resolved", "rejected"}]
      /\ call'[c] = status /\ \A d \in Calls \ {c} : call'[d] = call[d]
      /\ result' \in [Calls -> SUBSET Cafes]
      /\ result'[c] = cafes /\ \A d \in Calls \ {c} : result'[d] = result[d]
  BY <1>0 DEF TypeOK
<1>2. TypeOK'
  BY <1>0, <1>1 DEF TypeOK
<1>3. SlotsSuffice'
  <2>1. ASSUME NEW d \in aborted', NEW t \in Tiles
        PROVE  task'[d][t].at # "queued"
    BY <1>0, <1>1, <2>1 DEF SlotsSuffice, TypeOK
  <2> QED
    BY <2>1 DEF SlotsSuffice
<1>4. TasksFollowCalls'
  BY <1>0, <1>1 DEF TasksFollowCalls, TypeOK
<1>5. SplitsStayInReach'
  <2>1. \A t \in splitTiles' : Splittable(t)'
    BY DEF Splittable
  <2>2. \A d \in Calls, t \in Tiles : task'[d][t].at # "none" => \E r \in Roots[d] : IsPrefix(r, t)
    BY <1>0, <1>1 DEF SplitsStayInReach
  <2> QED
    BY <2>1, <2>2 DEF SplitsStayInReach
<1>6. AnswersAreWhole'
  BY <1>0, <1>1 DEF AnswersAreWhole, WholeAnswer
<1>7. OpenCallsCover'
  BY <1>0, <1>1 DEF OpenCallsCover
<1>8. ResultIsWhole'
  BY <1>0, <1>1 DEF ResultIsWhole
<1>9. AnswersMatchVersion'
  BY <1>0, <1>1 DEF AnswersMatchVersion
<1> QED
  BY <1>2, <1>3, <1>4, <1>5, <1>6, <1>7, <1>8, <1>9 DEF TileInv

\* What the invariant says of one call and its tasks.
LEMMA CallOfInv ==
    ASSUME TileInv, NEW c \in Calls
    PROVE  /\ task \in [Calls -> [Tiles -> TaskStates]] /\ task[c] \in [Tiles -> TaskStates]
           /\ call \in [Calls -> {"idle", "open", "resolved", "rejected"}]
           /\ result \in [Calls -> SUBSET Cafes] /\ result[c] \in SUBSET Cafes
           /\ call[c] \in {"idle", "open", "resolved", "rejected"}
           /\ call[c] = "idle" => c \notin aborted /\ \A t \in Tiles : task[c][t].at = "none"
           /\ call[c] = "open" => \A t \in Tiles : task[c][t].at # "failed"
           /\ c \in aborted => \A t \in Tiles : task[c][t].at # "queued"
           /\ \A t \in Tiles : task[c][t].at # "none" => \E r \in Roots[c] : IsPrefix(r, t)
           /\ \A t \in Tiles : task[c][t].at = "done" =>
                 WholeAnswer(t, task[c][t].answer) /\ task[c][t].asked = task[c][t].version
           /\ call[c] = "open" => \A k \in Inside(c) : \E t \in Tiles :
                 k \in Within(t) /\ task[c][t].at \in {"queued", "fetching", "done"}
           /\ call[c] = "resolved" => \A k \in Inside(c) :
                 /\ (\A served \in past : k \in served) => k \in result[c]
                 /\ k \in result[c] => \E served \in past : k \in served
<1>1. task \in [Calls -> [Tiles -> TaskStates]] /\ task[c] \in [Tiles -> TaskStates]
  BY DEF TileInv, TypeOK
<1>2. /\ call \in [Calls -> {"idle", "open", "resolved", "rejected"}]
      /\ result \in [Calls -> SUBSET Cafes]
  BY DEF TileInv, TypeOK
<1>3. call[c] \in {"idle", "open", "resolved", "rejected"} /\ result[c] \in SUBSET Cafes
  BY <1>2
<1>4. /\ call[c] = "idle" => c \notin aborted /\ \A t \in Tiles : task[c][t].at = "none"
      /\ call[c] = "open" => \A t \in Tiles : task[c][t].at # "failed"
  BY DEF TileInv, TasksFollowCalls
<1>5. c \in aborted => \A t \in Tiles : task[c][t].at # "queued"
  BY DEF TileInv, SlotsSuffice
<1>6. \A t \in Tiles : task[c][t].at # "none" => \E r \in Roots[c] : IsPrefix(r, t)
  BY DEF TileInv, SplitsStayInReach
<1>7. \A t \in Tiles : task[c][t].at = "done" =>
         WholeAnswer(t, task[c][t].answer) /\ task[c][t].asked = task[c][t].version
  BY DEF TileInv, AnswersAreWhole, AnswersMatchVersion
<1>8. call[c] = "open" => \A k \in Inside(c) : \E t \in Tiles :
         k \in Within(t) /\ task[c][t].at \in {"queued", "fetching", "done"}
  BY DEF TileInv, OpenCallsCover
<1>9. call[c] = "resolved" => \A k \in Inside(c) :
         /\ (\A served \in past : k \in served) => k \in result[c]
         /\ k \in result[c] => \E served \in past : k \in served
  BY DEF TileInv, ResultIsWhole
<1> QED
  BY <1>1, <1>2, <1>3, <1>4, <1>5, <1>6, <1>7, <1>8, <1>9

\* What the invariant says of the caches.
LEMMA CachesOfInv ==
    ASSUME TileInv
    PROVE  /\ splitTiles \in SUBSET Tiles /\ \A t \in splitTiles : Splittable(t)
           /\ tileCache \subseteq [version : Versions, tile : Tiles, answer : SUBSET Cafes,
                                   asked : Versions]
           /\ \A e \in tileCache : WholeAnswer(e.tile, e.answer) /\ e.asked = e.version
           /\ IsFiniteSet(Fetching) /\ Cardinality(Fetching) <= MaxRequests
           /\ past \subseteq SUBSET Cafes
<1>1. splitTiles \in SUBSET Tiles /\ \A t \in splitTiles : Splittable(t)
  BY DEF TileInv, TypeOK, SplitsStayInReach
<1>2. /\ tileCache \subseteq [version : Versions, tile : Tiles, answer : SUBSET Cafes,
                              asked : Versions]
      /\ past \subseteq SUBSET Cafes
  BY DEF TileInv, TypeOK
<1>3. \A e \in tileCache : WholeAnswer(e.tile, e.answer) /\ e.asked = e.version
  BY DEF TileInv, AnswersAreWhole
<1>4. IsFiniteSet(Fetching) /\ Cardinality(Fetching) <= MaxRequests
  BY DEF TileInv, SlotsSuffice
<1> QED
  BY <1>1, <1>2, <1>3, <1>4

\* A step of one task that is asked for, or under way.
LEMMA TaskStepKeepsInv ==
    ASSUME TileInv,
           NEW c \in Calls, NEW t \in Tiles, NEW next \in TaskStates,
           task[c][t].at \in {"queued", "fetching"},
           next.at \in {"fetching", "done", "failed"},
           next.at = "done" => WholeAnswer(t, next.answer) /\ next.asked = next.version,
           task' = [task EXCEPT ![c] = [task[c] EXCEPT ![t] = next]],
           call' = [call EXCEPT ![c] = IF next.at = "failed" /\ call[c] = "open"
                                       THEN "rejected" ELSE call[c]],
           UNCHANGED <<version, splitTiles, active, past, aborted, result>>,
           tileCache' \subseteq [version : Versions, tile : Tiles, answer : SUBSET Cafes,
                                 asked : Versions],
           \A e \in tileCache' : WholeAnswer(e.tile, e.answer) /\ e.asked = e.version,
           IsFiniteSet(Fetching') /\ Cardinality(Fetching') <= MaxRequests
    PROVE  TileInv'
<1> DEFINE tasks == [task[c] EXCEPT ![t] = next]
           status == IF next.at = "failed" /\ call[c] = "open" THEN "rejected" ELSE call[c]
           cafes == result[c]
<1>1. /\ task \in [Calls -> [Tiles -> TaskStates]] /\ task[c] \in [Tiles -> TaskStates]
      /\ result \in [Calls -> SUBSET Cafes] /\ result[c] \in SUBSET Cafes
      /\ call[c] \in {"idle", "open", "resolved", "rejected"}
      /\ call[c] = "idle" => c \notin aborted /\ \A u \in Tiles : task[c][u].at = "none"
      /\ call[c] = "open" => \A u \in Tiles : task[c][u].at # "failed"
      /\ c \in aborted => \A u \in Tiles : task[c][u].at # "queued"
      /\ \A u \in Tiles : task[c][u].at # "none" => \E r \in Roots[c] : IsPrefix(r, u)
      /\ \A u \in Tiles : task[c][u].at = "done" =>
            WholeAnswer(u, task[c][u].answer) /\ task[c][u].asked = task[c][u].version
      /\ call[c] = "open" => \A k \in Inside(c) : \E u \in Tiles :
            k \in Within(u) /\ task[c][u].at \in {"queued", "fetching", "done"}
      /\ call[c] = "resolved" => \A k \in Inside(c) :
            /\ (\A served \in past : k \in served) => k \in result[c]
            /\ k \in result[c] => \E served \in past : k \in served
  BY CallOfInv
<1>2. splitTiles' \in SUBSET Tiles /\ \A u \in splitTiles' : Splittable(u)
  BY CachesOfInv
<1>3. /\ tasks \in [Tiles -> TaskStates] /\ tasks[t] = next
      /\ \A u \in Tiles \ {t} : tasks[u] = task[c][u]
  BY <1>1
<1>4. call[c] # "idle"
  BY <1>1
<1>5. status \in {"open", "resolved", "rejected"} /\ cafes \in SUBSET Cafes
  BY <1>1, <1>4
<1>6. /\ status = "open" => call[c] = "open" /\ next.at # "failed"
      /\ status = "resolved" => call[c] = "resolved"
  BY <1>1
<1>7. result' = [result EXCEPT ![c] = cafes]
  BY <1>1
<1>8. task' = [task EXCEPT ![c] = tasks] /\ call' = [call EXCEPT ![c] = status]
  OBVIOUS
<1> HIDE DEF tasks, status, cafes
<1>9. c \in aborted' => \A u \in Tiles : tasks[u].at # "queued"
  BY <1>1, <1>3
<1>10. \A u \in Tiles : tasks[u].at # "none" => \E r \in Roots[c] : IsPrefix(r, u)
  BY <1>1, <1>3
<1>11. \A u \in Tiles : tasks[u].at = "done" =>
          WholeAnswer(u, tasks[u].answer) /\ tasks[u].asked = tasks[u].version
  BY <1>1, <1>3
<1>12. status = "open" => \A u \in Tiles : tasks[u].at # "failed"
  BY <1>1, <1>3, <1>6
<1>13. status = "open" => \A k \in Inside(c) : \E u \in Tiles :
          k \in Within(u) /\ tasks[u].at \in {"queued", "fetching", "done"}
  <2> SUFFICES ASSUME status = "open", NEW k \in Inside(c)
               PROVE  \E u \in Tiles :
                         k \in Within(u) /\ tasks[u].at \in {"queued", "fetching", "done"}
    OBVIOUS
  <2>1. PICK u \in Tiles : k \in Within(u) /\ task[c][u].at \in {"queued", "fetching", "done"}
    BY <1>1, <1>6
  <2> QED
    BY <1>3, <1>6, <2>1
<1>14. status = "resolved" => \A k \in Inside(c) :
          /\ (\A served \in past : k \in served) => k \in cafes
          /\ k \in cafes => \E served \in past : k \in served
  BY <1>1, <1>6 DEF cafes
<1>15. aborted \subseteq aborted' /\ aborted' \subseteq aborted \cup {c}
  OBVIOUS
<1>16. tasks \in [Tiles -> TaskStates] /\ UNCHANGED <<version, active, past>>
  BY <1>3
<1>17. /\ tileCache' \subseteq [version : Versions, tile : Tiles, answer : SUBSET Cafes,
                                 asked : Versions]
       /\ \A e \in tileCache' : WholeAnswer(e.tile, e.answer) /\ e.asked = e.version
       /\ IsFiniteSet(Fetching') /\ Cardinality(Fetching') <= MaxRequests
  OBVIOUS
<1> QED
  BY <1>2, <1>16, <1>17, <1>5, <1>7, <1>8, <1>9, <1>10, <1>11, <1>12, <1>13, <1>14, <1>15,
     CallStepKeepsInv, ZenonT(30)

\* A task that is asked for knows the version it was visited under.
LEMMA TaskHasVersion ==
    ASSUME NEW STATE now, now \in TaskStates, now.at \in {"queued", "fetching"}
    PROVE  now \in [at : {"queued", "fetching"}, version : Versions] /\ now.version \in Versions
<1>1. now \in [at : {"queued", "fetching"}, version : Versions]
  BY DEF TaskStates
<1> QED
  BY <1>1

LEMMA SendKeepsInv ==
    ASSUME TileInv, NEW c \in Calls, NEW t \in Tiles, Send(c, t)
    PROVE  TileInv'
<1> DEFINE next == [task[c][t] EXCEPT !.at = "fetching"]
           tasks == [task[c] EXCEPT ![t] = next]
<1>1. /\ task \in [Calls -> [Tiles -> TaskStates]] /\ task[c] \in [Tiles -> TaskStates]
      /\ call \in [Calls -> {"idle", "open", "resolved", "rejected"}]
  BY CallOfInv
<1>2. /\ tileCache \subseteq [version : Versions, tile : Tiles, answer : SUBSET Cafes,
                              asked : Versions]
      /\ \A e \in tileCache : WholeAnswer(e.tile, e.answer) /\ e.asked = e.version
      /\ IsFiniteSet(Fetching) /\ Cardinality(Fetching) <= MaxRequests
  BY CachesOfInv
<1>3. task[c][t].at = "queued" /\ task[c][t] \in TaskStates
  BY <1>1 DEF Send
<1>4. task[c][t] \in [at : {"queued", "fetching"}, version : Versions]
  BY <1>3, TaskHasVersion
<1>5. next \in [at : {"queued", "fetching"}, version : Versions] /\ next.at = "fetching"
  BY <1>4
<1>6. task' = [task EXCEPT ![c] = tasks]
  BY DEF Send
<1>7. tasks[t] = next /\ \A u \in Tiles \ {t} : tasks[u] = task[c][u]
  BY <1>1
<1>8. next \in TaskStates
  BY <1>5 DEF TaskStates
<1> HIDE DEF next
<1>9. UNCHANGED <<version, splitTiles, active, past, aborted, result, tileCache, call>>
  BY DEF Send, server
<1>10. call' = [call EXCEPT ![c] = IF next.at = "failed" /\ call[c] = "open"
                                   THEN "rejected" ELSE call[c]]
  BY <1>1, <1>5, <1>9
<1>11. IsFiniteSet(Fetching') /\ Cardinality(Fetching') <= MaxRequests
  <2> DEFINE slot == <<c, t>>
             before == Fetching
  <2>1. task'[c] = tasks /\ \A d \in Calls \ {c} : task'[d] = task[d]
    BY <1>1, <1>6
  <2> HIDE DEF tasks
  <2>2. Fetching' = before \cup {slot} /\ slot \notin before
    BY <1>3, <1>5, <1>7, <2>1 DEF Fetching
  <2>3. IsFiniteSet(before) /\ Cardinality(before) < MaxRequests /\ MaxRequests \in Nat
    BY <1>2, TileAssumption DEF Send
  <2> HIDE DEF before, slot
  <2>4. IsFiniteSet(before \cup {slot}) /\ Cardinality(before \cup {slot}) = Cardinality(before) + 1
    BY <2>2, <2>3, FS_AddElement
  <2>5. Cardinality(before) \in Nat
    BY <2>3, FS_CardinalityType
  <2>6. Cardinality(before \cup {slot}) <= MaxRequests
    BY <2>3, <2>4, <2>5
  <2> QED
    BY <2>2, <2>4, <2>6
<1>12. /\ tileCache' \subseteq [version : Versions, tile : Tiles, answer : SUBSET Cafes,
                                asked : Versions]
       /\ \A e \in tileCache' : WholeAnswer(e.tile, e.answer) /\ e.asked = e.version
  BY <1>2, <1>9
<1>13. task' = [task EXCEPT ![c] = [task[c] EXCEPT ![t] = next]]
  BY <1>6
<1> QED
  BY <1>3, <1>5, <1>8, <1>9, <1>10, <1>11, <1>12, <1>13, TaskStepKeepsInv

\* A task that fails, whatever the reason, rejects the call that is open.
LEMMA FailureKeepsInv ==
    ASSUME TileInv, NEW c \in Calls, NEW t \in Tiles, task[c][t].at = "fetching",
           Reject(c, [task[c] EXCEPT ![t] = [at |-> "failed"]]),
           UNCHANGED <<version, tileCache, splitTiles, server, aborted, result>>
    PROVE  TileInv'
<1> DEFINE next == [at |-> "failed"]
           tasks == [task[c] EXCEPT ![t] = next]
<1>1. /\ task \in [Calls -> [Tiles -> TaskStates]] /\ task[c] \in [Tiles -> TaskStates]
      /\ call \in [Calls -> {"idle", "open", "resolved", "rejected"}]
  BY CallOfInv
<1>2. /\ tileCache \subseteq [version : Versions, tile : Tiles, answer : SUBSET Cafes,
                              asked : Versions]
      /\ \A e \in tileCache : WholeAnswer(e.tile, e.answer) /\ e.asked = e.version
  BY CachesOfInv
<1>3. next \in [at : {"none", "split", "failed"}] /\ next.at = "failed"
  OBVIOUS
<1>4. task' = [task EXCEPT ![c] = tasks]
  BY DEF Reject
<1>5. \A u \in Tiles : tasks[u].at = "fetching" => task[c][u].at = "fetching"
  BY <1>1
<1>6. tasks \in [Tiles -> TaskStates] /\ next \in TaskStates
  BY <1>1, <1>3 DEF TaskStates
<1>7. task' = [task EXCEPT ![c] = [task[c] EXCEPT ![t] = next]]
  BY <1>4
<1>8. call' = [call EXCEPT ![c] = IF call[c] = "open" THEN "rejected" ELSE call[c]]
  BY DEF Reject
<1> HIDE DEF next
<1>9. call' = [call EXCEPT ![c] = IF next.at = "failed" /\ call[c] = "open"
                                  THEN "rejected" ELSE call[c]]
  BY <1>3, <1>8
<1>10. UNCHANGED <<version, splitTiles, active, past, aborted, result, tileCache>>
  BY DEF server
<1>11. IsFiniteSet(Fetching') /\ Cardinality(Fetching') <= MaxRequests
  <2> HIDE DEF tasks
  <2>1. SlotsSuffice /\ TypeOK
    BY DEF TileInv
  <2> QED
    BY <1>4, <1>5, <1>6, <2>1, NoRequestStarted
<1>12. /\ tileCache' \subseteq [version : Versions, tile : Tiles, answer : SUBSET Cafes,
                                asked : Versions]
       /\ \A e \in tileCache' : WholeAnswer(e.tile, e.answer) /\ e.asked = e.version
  BY <1>2, <1>10
<1> QED
  BY <1>3, <1>6, <1>7, <1>9, <1>10, <1>11, <1>12, TaskStepKeepsInv

LEMMA FetchWholeKeepsInv ==
    ASSUME TileInv, NEW c \in Calls, NEW t \in Tiles, FetchWhole(c, t)
    PROVE  TileInv'
<1>1. /\ task \in [Calls -> [Tiles -> TaskStates]] /\ task[c] \in [Tiles -> TaskStates]
      /\ call \in [Calls -> {"idle", "open", "resolved", "rejected"}]
  BY CallOfInv
<1>2. /\ tileCache \subseteq [version : Versions, tile : Tiles, answer : SUBSET Cafes,
                              asked : Versions]
      /\ \A e \in tileCache : WholeAnswer(e.tile, e.answer) /\ e.asked = e.version
  BY CachesOfInv
<1>3. task[c][t].at = "fetching" /\ task[c][t] \in TaskStates
  BY <1>1 DEF FetchWhole
<1> DEFINE v == task[c][t].version
<1>4. v \in Versions
  BY <1>3, TaskHasVersion
<1>5. PICK served \in past :
        /\ CacheTile(v, t, Within(t) \cap served, v)
        /\ task' = [task EXCEPT ![c][t] = [at |-> "done", version |-> @.version,
                                           asked |-> @.version, answer |-> Within(t) \cap served]]
  BY DEF FetchWhole
<1> DEFINE answer == Within(t) \cap served
           next == [at |-> "done", version |-> v, asked |-> v, answer |-> answer]
           tasks == [task[c] EXCEPT ![t] = next]
           entry == [version |-> v, tile |-> t, answer |-> answer, asked |-> v]
<1>6. answer \in SUBSET Cafes /\ WholeAnswer(t, answer)
  BY DEF Within, WholeAnswer
<1>7. task' = [task EXCEPT ![c] = tasks]
  BY <1>5
<1>8. tileCache' \subseteq tileCache \cup {entry}
  BY <1>5 DEF CacheTile
<1> HIDE DEF v, answer
<1>9. /\ next \in [at : {"done"}, version : Versions, asked : Versions, answer : SUBSET Cafes]
      /\ next.at = "done" /\ next.answer = answer /\ next.asked = v /\ next.version = v
      /\ entry \in [version : Versions, tile : Tiles, answer : SUBSET Cafes, asked : Versions]
      /\ entry.tile = t /\ entry.answer = answer /\ entry.asked = v /\ entry.version = v
  BY <1>4, <1>6
<1> HIDE DEF next, entry
<1>10. /\ tileCache' \subseteq [version : Versions, tile : Tiles, answer : SUBSET Cafes,
                                asked : Versions]
       /\ \A e \in tileCache' : WholeAnswer(e.tile, e.answer) /\ e.asked = e.version
  BY <1>2, <1>6, <1>8, <1>9
<1>11. next \in TaskStates /\ WholeAnswer(t, next.answer) /\ next.asked = next.version
  BY <1>6, <1>9 DEF TaskStates
<1>12. UNCHANGED <<version, splitTiles, active, past, aborted, result, call>>
  BY DEF FetchWhole, server
<1>13. call' = [call EXCEPT ![c] = IF next.at = "failed" /\ call[c] = "open"
                                   THEN "rejected" ELSE call[c]]
  BY <1>1, <1>9, <1>12
<1>14. tasks \in [Tiles -> TaskStates]
       /\ \A u \in Tiles : tasks[u].at = "fetching" => task[c][u].at = "fetching"
  BY <1>1, <1>9, <1>11
<1>15. IsFiniteSet(Fetching') /\ Cardinality(Fetching') <= MaxRequests
  <2> HIDE DEF tasks
  <2>1. SlotsSuffice /\ TypeOK
    BY DEF TileInv
  <2> QED
    BY <1>7, <1>14, <2>1, NoRequestStarted
<1>16. task' = [task EXCEPT ![c] = [task[c] EXCEPT ![t] = next]]
  BY <1>7
<1> QED
  BY <1>3, <1>9, <1>10, <1>11, <1>12, <1>13, <1>15, <1>16, TaskStepKeepsInv

LEMMA StartKeepsInv ==
    ASSUME TileInv, NEW c \in Calls, Start(c)
    PROVE  TileInv'
<1> DEFINE tasks == Visited(Roots[c], splitTiles, task[c])
           start == Roots[c]
<1>1. /\ task \in [Calls -> [Tiles -> TaskStates]] /\ task[c] \in [Tiles -> TaskStates]
      /\ result \in [Calls -> SUBSET Cafes] /\ result[c] \in SUBSET Cafes
      /\ call[c] = "idle" => c \notin aborted /\ \A t \in Tiles : task[c][t].at = "none"
  BY CallOfInv
<1>2. /\ splitTiles \in SUBSET Tiles /\ \A t \in splitTiles : Splittable(t)
      /\ tileCache \subseteq [version : Versions, tile : Tiles, answer : SUBSET Cafes,
                              asked : Versions]
      /\ \A e \in tileCache : WholeAnswer(e.tile, e.answer) /\ e.asked = e.version
  BY CachesOfInv
<1>3. TypeOK /\ AnswersAreWhole /\ SlotsSuffice
  BY DEF TileInv
<1>4. Roots[c] \in SUBSET Tiles
  BY RootsAndChildrenAreTiles
<1>5. /\ tasks \in [Tiles -> TaskStates]
      /\ \A t \in Tiles \ Reached(Roots[c], splitTiles) : tasks[t] = task[c][t]
      /\ \A t \in Reached(Roots[c], splitTiles) :
            /\ tasks[t].at \in {"done", "split", "queued"}
            /\ t \notin splitTiles \/ Cached(t) # {} => tasks[t].at \in {"done", "queued"}
            /\ tasks[t].at = "done" =>
                  WholeAnswer(t, tasks[t].answer) /\ tasks[t].asked = tasks[t].version
  BY <1>1, <1>2, <1>3, <1>4, VisitedTasks
<1>6. task' = [task EXCEPT ![c] = tasks] /\ call[c] = "idle"
      /\ call' = [call EXCEPT ![c] = "open"]
  BY DEF Start
<1> HIDE DEF tasks
<1>7. c \notin aborted /\ \A t \in Tiles : task[c][t].at = "none"
  BY <1>1, <1>6
<1>8. \A t \in Reached(Roots[c], splitTiles) : t \in Tiles /\ \E r \in Roots[c] : IsPrefix(r, t)
  BY DEF Reached
<1>9. /\ splitTiles' \in SUBSET Tiles /\ \A t \in splitTiles' : Splittable(t)
      /\ tileCache' \subseteq [version : Versions, tile : Tiles, answer : SUBSET Cafes,
                               asked : Versions]
      /\ \A e \in tileCache' : WholeAnswer(e.tile, e.answer) /\ e.asked = e.version
  BY <1>2 DEF Start
<1>10. /\ UNCHANGED <<version, active, past>>
       /\ result' = [result EXCEPT ![c] = result[c]]
       /\ aborted \subseteq aborted' /\ aborted' \subseteq aborted \cup {c} /\ c \notin aborted'
  BY <1>1, <1>7 DEF Start, server
<1>11. IsFiniteSet(Fetching') /\ Cardinality(Fetching') <= MaxRequests
  <2>1. \A t \in Tiles : tasks[t].at = "fetching" => task[c][t].at = "fetching"
    BY <1>5
  <2> QED
    BY <1>3, <1>5, <1>6, <2>1, NoRequestStarted
<1>12. \A t \in Tiles : tasks[t].at # "none" => \E r \in Roots[c] : IsPrefix(r, t)
  BY <1>5, <1>7, <1>8
<1>13. \A t \in Tiles : tasks[t].at = "done" =>
          WholeAnswer(t, tasks[t].answer) /\ tasks[t].asked = tasks[t].version
  BY <1>5, <1>7
<1>14. \A t \in Tiles : tasks[t].at # "failed"
  BY <1>5, <1>7
<1>15. \A k \in Inside(c) : \E t \in Tiles :
          k \in Within(t) /\ tasks[t].at \in {"queued", "fetching", "done"}
  <2> SUFFICES ASSUME NEW k \in Inside(c)
               PROVE  \E t \in Tiles :
                         k \in Within(t) /\ tasks[t].at \in {"queued", "fetching", "done"}
    OBVIOUS
  <2>1. PICK r \in Roots[c] : k \in Within(r)
    BY DEF Inside
  <2>2. \E t \in Reached(Roots[c], splitTiles) :
           /\ k \in Within(t) /\ IsPrefix(r, t)
           /\ t \notin splitTiles \/ Cached(t) # {}
    BY <1>2, <1>4, <2>1, VisitLeavesNoGap
  <2>3. PICK t \in Reached(Roots[c], splitTiles) :
           k \in Within(t) /\ (t \notin splitTiles \/ Cached(t) # {})
    BY <2>2
  <2> QED
    BY <1>5, <1>8, <2>3
<1> QED
  BY <1>1, <1>5, <1>6, <1>9, <1>10, <1>11, <1>12, <1>13, <1>14, <1>15, CallStepKeepsInv

\* What a visit of the children of a tile reaches lies below the tile.
LEMMA ReachedLiesBelow ==
    ASSUME NEW t \in Tiles, NEW STATE splits, NEW u \in Reached(Children(t), splits)
    PROVE  /\ u \in Tiles /\ u # t /\ IsPrefix(t, u)
           /\ Len(t) \in Nat /\ Len(u) \in Nat /\ Len(t) < Len(u)
<1>1. PICK child \in Children(t) : IsPrefix(child, u)
  BY DEF Reached
<1>2. PICK q \in Quadrants : child = Append(t, q)
  BY <1>1 DEF Children
<1>3. u \in Tiles /\ u \in Seq(Quadrants) /\ t \in Seq(Quadrants)
  BY TilesAreBelowRoots DEF Reached
<1>4. /\ child \in Seq(Quadrants) /\ Len(child) = Len(t) + 1
      /\ \A i \in 1..Len(t) : child[i] = t[i]
  BY <1>2, <1>3, AppendProperties
<1>5. Len(t) \in Nat /\ Len(u) \in Nat
  BY <1>3
<1>6. Len(t) <= Len(child) /\ \A i \in 1..Len(t) : t[i] = child[i]
  BY <1>4, <1>5
<1>7. IsPrefix(t, child)
  BY <1>3, <1>4, <1>6, PrefixIsPointwise
<1>8. IsPrefix(t, u)
  BY <1>1, <1>3, <1>4, <1>7, PrefixOfPrefix
<1>9. Len(child) <= Len(u)
  BY <1>1, <1>3, <1>4, PrefixIsPointwise
<1>10. Len(t) < Len(u)
  BY <1>4, <1>5, <1>9
<1> QED
  BY <1>3, <1>5, <1>8, <1>10

LEMMA SplitKeepsInv ==
    ASSUME TileInv, NEW c \in Calls, NEW t \in Tiles, FetchTruncatedSplits(c, t)
    PROVE  TileInv'
<1> DEFINE splits == splitTiles \cup {t}
           start == Children(t)
           visits == Visited(start, splits, task[c])
           tasks == [visits EXCEPT ![t] = [at |-> "split"]]
           status == call[c]
<1>1. /\ task \in [Calls -> [Tiles -> TaskStates]] /\ task[c] \in [Tiles -> TaskStates]
      /\ call \in [Calls -> {"idle", "open", "resolved", "rejected"}]
      /\ call[c] \in {"idle", "open", "resolved", "rejected"}
      /\ result \in [Calls -> SUBSET Cafes] /\ result[c] \in SUBSET Cafes
      /\ call[c] = "idle" => c \notin aborted /\ \A u \in Tiles : task[c][u].at = "none"
      /\ call[c] = "open" => \A u \in Tiles : task[c][u].at # "failed"
      /\ \A u \in Tiles : task[c][u].at # "none" => \E r \in Roots[c] : IsPrefix(r, u)
      /\ \A u \in Tiles : task[c][u].at = "done" =>
            WholeAnswer(u, task[c][u].answer) /\ task[c][u].asked = task[c][u].version
      /\ call[c] = "open" => \A k \in Inside(c) : \E u \in Tiles :
            k \in Within(u) /\ task[c][u].at \in {"queued", "fetching", "done"}
      /\ call[c] = "resolved" => \A k \in Inside(c) :
            /\ (\A served \in past : k \in served) => k \in result[c]
            /\ k \in result[c] => \E served \in past : k \in served
  BY CallOfInv
<1>2. /\ splitTiles \in SUBSET Tiles /\ \A u \in splitTiles : Splittable(u)
      /\ tileCache \subseteq [version : Versions, tile : Tiles, answer : SUBSET Cafes,
                              asked : Versions]
      /\ \A e \in tileCache : WholeAnswer(e.tile, e.answer) /\ e.asked = e.version
  BY CachesOfInv
<1>3. TypeOK /\ AnswersAreWhole /\ SlotsSuffice
  BY DEF TileInv
<1>4. /\ task[c][t].at = "fetching" /\ Depth(c, t) < MaxSplitDepth /\ c \notin aborted
      /\ splitTiles' = splits /\ task' = [task EXCEPT ![c] = tasks]
  BY DEF FetchTruncatedSplits
<1>5. PICK root \in Roots[c] : IsPrefix(root, t)
  BY <1>1, <1>4
<1>6. Splittable(t)
  <2> DEFINE r == RootOf(c, t)
  <2>1. r \in Roots[c] /\ IsPrefix(r, t)
    BY <1>5 DEF RootOf
  <2>2. Len(t) - Len(r) < MaxSplitDepth
    BY <1>4 DEF Depth
  <2> HIDE DEF r
  <2>3. Roots[c] \subseteq Seq(Quadrants) /\ MaxSplitDepth \in Nat
    BY TileAssumption
  <2>4. r \in Seq(Quadrants) /\ t \in Seq(Quadrants)
    BY <2>1, <2>3, TilesAreBelowRoots
  <2>5. Len(t) \in Nat /\ Len(r) \in Nat
    BY <2>4
  <2>6. Len(t) < Len(r) + MaxSplitDepth
    BY <2>2, <2>3, <2>5
  <2> QED
    BY <2>1, <2>6 DEF Splittable
<1>7. splits \in SUBSET Tiles /\ \A u \in splits : Splittable(u)
  BY <1>2, <1>6
<1>8. start \in SUBSET Tiles
  BY <1>6, RootsAndChildrenAreTiles DEF Children
<1> HIDE DEF splits, start
<1>9. /\ visits \in [Tiles -> TaskStates]
      /\ \A u \in Tiles \ Reached(start, splits) : visits[u] = task[c][u]
      /\ \A u \in Reached(start, splits) :
            /\ visits[u].at \in {"done", "split", "queued"}
            /\ u \notin splits \/ Cached(u) # {} => visits[u].at \in {"done", "queued"}
            /\ visits[u].at = "done" =>
                  WholeAnswer(u, visits[u].answer) /\ visits[u].asked = visits[u].version
  BY <1>1, <1>3, <1>7, <1>8, VisitedTasks
<1>10. \A u \in Reached(start, splits) : u \in Tiles /\ u # t /\ IsPrefix(t, u)
  BY ReachedLiesBelow DEF start
<1> HIDE DEF visits
<1>11. [at |-> "split"] \in TaskStates /\ [at |-> "split"].at = "split"
  <2>1. [at |-> "split"] \in [at : {"none", "split", "failed"}]
    OBVIOUS
  <2> QED
    BY <2>1 DEF TaskStates
<1>12. /\ tasks \in [Tiles -> TaskStates] /\ tasks[t].at = "split"
       /\ \A u \in Tiles \ {t} : tasks[u] = visits[u]
  BY <1>9, <1>11
<1>13. call[c] # "idle"
  BY <1>1, <1>4
<1>14. UNCHANGED <<version, active, past, call, aborted, result, tileCache>>
  BY DEF FetchTruncatedSplits, server
<1> HIDE DEF tasks
<1>15. /\ call' = [call EXCEPT ![c] = status] /\ status \in {"open", "resolved", "rejected"}
       /\ result' = [result EXCEPT ![c] = result[c]]
  BY <1>1, <1>13, <1>14
<1>16. /\ splitTiles' \in SUBSET Tiles /\ \A u \in splitTiles' : Splittable(u)
       /\ tileCache' \subseteq [version : Versions, tile : Tiles, answer : SUBSET Cafes,
                                asked : Versions]
       /\ \A e \in tileCache' : WholeAnswer(e.tile, e.answer) /\ e.asked = e.version
  BY <1>2, <1>4, <1>7, <1>14
<1>17. aborted \subseteq aborted' /\ aborted' \subseteq aborted \cup {c} /\ c \notin aborted'
  BY <1>4, <1>14
<1>18. IsFiniteSet(Fetching') /\ Cardinality(Fetching') <= MaxRequests
  <2>1. \A u \in Tiles : tasks[u].at = "fetching" => task[c][u].at = "fetching"
    BY <1>9, <1>12
  <2> QED
    BY <1>3, <1>4, <1>12, <2>1, NoRequestStarted
<1>19. \A u \in Tiles : tasks[u].at # "none" => \E r \in Roots[c] : IsPrefix(r, u)
  <2> SUFFICES ASSUME NEW u \in Tiles, tasks[u].at # "none"
               PROVE  \E r \in Roots[c] : IsPrefix(r, u)
    OBVIOUS
  <2>1. CASE u = t
    BY <1>5, <2>1
  <2>2. CASE u \in Reached(start, splits)
    <3>1. IsPrefix(t, u)
      BY <1>10, <2>2
    <3>2. root \in Seq(Quadrants) /\ t \in Seq(Quadrants) /\ u \in Seq(Quadrants)
      BY TileAssumption, TilesAreBelowRoots
    <3>3. IsPrefix(root, u)
      BY <1>5, <3>1, <3>2, PrefixOfPrefix
    <3> QED
      BY <3>3
  <2>3. CASE u # t /\ u \notin Reached(start, splits)
    BY <1>1, <1>9, <1>12, <2>3
  <2> QED
    BY <2>1, <2>2, <2>3
<1>20. \A u \in Tiles : tasks[u].at = "done" =>
          WholeAnswer(u, tasks[u].answer) /\ tasks[u].asked = tasks[u].version
  BY <1>1, <1>9, <1>12
<1>21. status = "open" => \A u \in Tiles : tasks[u].at # "failed"
  BY <1>1, <1>9, <1>12
<1>22. status = "open" => \A k \in Inside(c) : \E u \in Tiles :
          k \in Within(u) /\ tasks[u].at \in {"queued", "fetching", "done"}
  <2> SUFFICES ASSUME status = "open", NEW k \in Inside(c)
               PROVE  \E u \in Tiles :
                         k \in Within(u) /\ tasks[u].at \in {"queued", "fetching", "done"}
    OBVIOUS
  <2>1. CASE k \in Within(t)
    <3> DEFINE child == Append(t, Location[k][Len(t) + 1])
    <3>1. child \in start /\ k \in Within(child)
      BY <1>6, <2>1, CafesLieInChildren DEF start
    <3> HIDE DEF child
    <3>2. \E u \in Reached(start, splits) :
             /\ k \in Within(u) /\ IsPrefix(child, u)
             /\ u \notin splits \/ Cached(u) # {}
      BY <1>7, <1>8, <3>1, VisitLeavesNoGap
    <3>3. PICK u \in Reached(start, splits) :
             k \in Within(u) /\ (u \notin splits \/ Cached(u) # {})
      BY <3>2
    <3>4. u \in Tiles /\ tasks[u] = visits[u] /\ visits[u].at \in {"done", "queued"}
      BY <1>9, <1>10, <1>12, <3>3
    <3> QED
      BY <3>3, <3>4
  <2>2. CASE k \notin Within(t)
    <3>1. PICK u \in Tiles : k \in Within(u) /\ task[c][u].at \in {"queued", "fetching", "done"}
      BY <1>1
    <3>2. u # t
      BY <2>2, <3>1
    <3>3. u \notin Reached(start, splits)
      <4> SUFFICES ASSUME IsPrefix(t, u)
                   PROVE  FALSE
        BY <1>10
      <4>1. k \in Cafes /\ IsPrefix(u, Location[k])
        BY <3>1 DEF Within
      <4>2. t \in Seq(Quadrants) /\ u \in Seq(Quadrants) /\ Location[k] \in Seq(Quadrants)
        BY <4>1, TileAssumption, TilesAreBelowRoots
      <4>3. IsPrefix(t, Location[k])
        BY <4>1, <4>2, PrefixOfPrefix
      <4> QED
        BY <2>2, <4>1, <4>3 DEF Within
    <3>4. tasks[u] = task[c][u]
      BY <1>9, <1>12, <3>2, <3>3
    <3> QED
      BY <3>1, <3>4
  <2> QED
    BY <2>1, <2>2
<1>23. status = "resolved" => \A k \in Inside(c) :
          /\ (\A served \in past : k \in served) => k \in result[c]
          /\ k \in result[c] => \E served \in past : k \in served
  BY <1>1
<1> HIDE DEF status
<1>24. /\ task' = [task EXCEPT ![c] = tasks] /\ tasks \in [Tiles -> TaskStates]
       /\ result[c] \in SUBSET Cafes
       /\ UNCHANGED <<version, active, past>>
       /\ c \in aborted' => \A u \in Tiles : tasks[u].at # "queued"
  BY <1>1, <1>4, <1>12, <1>14, <1>17
<1> QED
  BY <1>15, <1>16, <1>17, <1>18, <1>19, <1>20, <1>21, <1>22, <1>23, <1>24, CallStepKeepsInv

LEMMA ResolveKeepsInv ==
    ASSUME TileInv, NEW c \in Calls, Resolve(c)
    PROVE  TileInv'
<1> DEFINE tasks == [t \in Tiles |-> NoTask]
           cafes == UNION {task[c][t].answer : t \in DoneTasks(c)}
<1>1. /\ task \in [Calls -> [Tiles -> TaskStates]] /\ task[c] \in [Tiles -> TaskStates]
      /\ call[c] = "idle" => c \notin aborted /\ \A t \in Tiles : task[c][t].at = "none"
      /\ \A t \in Tiles : task[c][t].at = "done" =>
            WholeAnswer(t, task[c][t].answer) /\ task[c][t].asked = task[c][t].version
      /\ call[c] = "open" => \A k \in Inside(c) : \E t \in Tiles :
            k \in Within(t) /\ task[c][t].at \in {"queued", "fetching", "done"}
  BY CallOfInv
<1>2. /\ splitTiles \in SUBSET Tiles /\ \A t \in splitTiles : Splittable(t)
      /\ tileCache \subseteq [version : Versions, tile : Tiles, answer : SUBSET Cafes,
                              asked : Versions]
      /\ \A e \in tileCache : WholeAnswer(e.tile, e.answer) /\ e.asked = e.version
      /\ past \subseteq SUBSET Cafes
  BY CachesOfInv
<1>3. SlotsSuffice /\ TypeOK
  BY DEF TileInv
<1>4. /\ call[c] = "open" /\ \A t \in Tiles : task[c][t].at \in {"none", "done", "split"}
      /\ task' = [task EXCEPT ![c] = tasks] /\ call' = [call EXCEPT ![c] = "resolved"]
      /\ result' = [result EXCEPT ![c] = cafes]
      /\ UNCHANGED <<version, tileCache, splitTiles, active, past, aborted>>
  BY DEF Resolve, server
<1>5. NoTask \in TaskStates /\ NoTask.at = "none"
  <2>1. NoTask \in [at : {"none", "split", "failed"}] /\ NoTask.at = "none"
    BY DEF NoTask
  <2> QED
    BY <2>1 DEF TaskStates
<1>6. tasks \in [Tiles -> TaskStates] /\ \A t \in Tiles : tasks[t].at = "none"
  BY <1>5
<1> HIDE DEF tasks
<1>7. ASSUME NEW k \in cafes
      PROVE  k \in Cafes /\ \E served \in past : k \in served
  <2>1. PICK t \in Tiles : task[c][t].at = "done" /\ k \in task[c][t].answer
    BY <1>7 DEF DoneTasks
  <2>2. k \in UNION past
    BY <1>1, <2>1 DEF WholeAnswer
  <2> QED
    BY <1>2, <2>2
<1>8. ASSUME NEW k \in Inside(c), \A served \in past : k \in served
      PROVE  k \in cafes
  <2>1. PICK t \in Tiles : k \in Within(t) /\ task[c][t].at \in {"queued", "fetching", "done"}
    BY <1>1, <1>4
  <2>2. task[c][t].at = "done"
    BY <1>4, <2>1
  <2>3. k \in task[c][t].answer
    BY <1>1, <1>8, <2>1, <2>2 DEF WholeAnswer
  <2> QED
    BY <2>2, <2>3 DEF DoneTasks
<1> HIDE DEF cafes
<1>9. cafes \in SUBSET Cafes
  BY <1>7
<1>10. IsFiniteSet(Fetching') /\ Cardinality(Fetching') <= MaxRequests
  <2>1. \A t \in Tiles : tasks[t].at = "fetching" => task[c][t].at = "fetching"
    BY <1>6
  <2> QED
    BY <1>3, <1>4, <1>6, <2>1, NoRequestStarted
<1>11. /\ \A t \in Tiles : tasks[t].at # "none" => \E r \in Roots[c] : IsPrefix(r, t)
       /\ \A t \in Tiles : tasks[t].at = "done" =>
             WholeAnswer(t, tasks[t].answer) /\ tasks[t].asked = tasks[t].version
       /\ \A t \in Tiles : tasks[t].at # "queued"
  BY <1>6
<1>12. \A k \in Inside(c) :
          /\ (\A served \in past : k \in served) => k \in cafes
          /\ k \in cafes => \E served \in past : k \in served
  BY <1>7, <1>8
<1>13. /\ splitTiles' \in SUBSET Tiles /\ \A t \in splitTiles' : Splittable(t)
       /\ tileCache' \subseteq [version : Versions, tile : Tiles, answer : SUBSET Cafes,
                                asked : Versions]
       /\ \A e \in tileCache' : WholeAnswer(e.tile, e.answer) /\ e.asked = e.version
       /\ aborted \subseteq aborted' /\ aborted' \subseteq aborted \cup {c}
  BY <1>2, <1>4
<1> QED
  BY <1>4, <1>6, <1>9, <1>10, <1>11, <1>12, <1>13, CallStepKeepsInv

LEMMA AbortKeepsInv ==
    ASSUME TileInv, NEW c \in Calls, Abort(c)
    PROVE  TileInv'
<1> DEFINE rejected == [t \in Tiles |-> IF task[c][t].at = "queued"
                                        THEN [at |-> "failed"] ELSE task[c][t]]
           waits == \E t \in Tiles : task[c][t].at = "queued"
           tasks == IF waits THEN rejected ELSE task[c]
           status == IF waits /\ call[c] = "open" THEN "rejected" ELSE call[c]
<1>1. /\ task \in [Calls -> [Tiles -> TaskStates]] /\ task[c] \in [Tiles -> TaskStates]
      /\ call \in [Calls -> {"idle", "open", "resolved", "rejected"}]
      /\ call[c] \in {"idle", "open", "resolved", "rejected"}
      /\ result \in [Calls -> SUBSET Cafes] /\ result[c] \in SUBSET Cafes
      /\ call[c] = "open" => \A u \in Tiles : task[c][u].at # "failed"
      /\ \A u \in Tiles : task[c][u].at # "none" => \E r \in Roots[c] : IsPrefix(r, u)
      /\ \A u \in Tiles : task[c][u].at = "done" =>
            WholeAnswer(u, task[c][u].answer) /\ task[c][u].asked = task[c][u].version
      /\ call[c] = "open" => \A k \in Inside(c) : \E u \in Tiles :
            k \in Within(u) /\ task[c][u].at \in {"queued", "fetching", "done"}
      /\ call[c] = "resolved" => \A k \in Inside(c) :
            /\ (\A served \in past : k \in served) => k \in result[c]
            /\ k \in result[c] => \E served \in past : k \in served
  BY CallOfInv
<1>2. /\ splitTiles \in SUBSET Tiles /\ \A t \in splitTiles : Splittable(t)
      /\ tileCache \subseteq [version : Versions, tile : Tiles, answer : SUBSET Cafes,
                              asked : Versions]
      /\ \A e \in tileCache : WholeAnswer(e.tile, e.answer) /\ e.asked = e.version
  BY CachesOfInv
<1>3. SlotsSuffice /\ TypeOK
  BY DEF TileInv
<1>4. [at |-> "failed"] \in TaskStates
  <2>1. [at |-> "failed"] \in [at : {"none", "split", "failed"}]
    OBVIOUS
  <2> QED
    BY <2>1 DEF TaskStates
<1>5. rejected \in [Tiles -> TaskStates]
  BY <1>1, <1>4
<1>6. task' = [task EXCEPT ![c] = tasks] /\ call' = [call EXCEPT ![c] = status]
  <2>1. CASE waits
    BY <1>1, <2>1 DEF Abort, Reject
  <2>2. CASE ~waits
    BY <1>1, <2>2 DEF Abort
  <2> QED
    BY <2>1, <2>2
<1>7. /\ tasks \in [Tiles -> TaskStates]
      /\ \A t \in Tiles : tasks[t].at # "queued"
      /\ \A t \in Tiles :
            \/ tasks[t] = task[c][t]
            \/ task[c][t].at = "queued" /\ waits /\ tasks[t].at = "failed"
  BY <1>1, <1>5
<1>8. status \in {"open", "resolved", "rejected"}
  BY <1>1 DEF Abort
<1>9. /\ status = "open" => call[c] = "open" /\ ~waits /\ tasks = task[c]
      /\ status = "resolved" => call[c] = "resolved"
  BY <1>1
<1>10. /\ UNCHANGED <<version, active, past>>
       /\ result' = [result EXCEPT ![c] = result[c]]
       /\ splitTiles' \in SUBSET Tiles /\ \A t \in splitTiles' : Splittable(t)
       /\ tileCache' \subseteq [version : Versions, tile : Tiles, answer : SUBSET Cafes,
                                asked : Versions]
       /\ \A e \in tileCache' : WholeAnswer(e.tile, e.answer) /\ e.asked = e.version
       /\ aborted \subseteq aborted' /\ aborted' \subseteq aborted \cup {c}
  BY <1>1, <1>2 DEF Abort, server
<1> HIDE DEF tasks, status, waits, rejected
<1>11. IsFiniteSet(Fetching') /\ Cardinality(Fetching') <= MaxRequests
  <2>1. \A t \in Tiles : tasks[t].at = "fetching" => task[c][t].at = "fetching"
    BY <1>7
  <2> QED
    BY <1>3, <1>6, <1>7, <2>1, NoRequestStarted
<1>12. \A t \in Tiles : tasks[t].at # "none" => \E r \in Roots[c] : IsPrefix(r, t)
  BY <1>1, <1>7
<1>13. \A t \in Tiles : tasks[t].at = "done" =>
          WholeAnswer(t, tasks[t].answer) /\ tasks[t].asked = tasks[t].version
  BY <1>1, <1>7
<1>14. status = "open" => \A t \in Tiles : tasks[t].at # "failed"
  BY <1>1, <1>9
<1>15. status = "open" => \A k \in Inside(c) : \E t \in Tiles :
          k \in Within(t) /\ tasks[t].at \in {"queued", "fetching", "done"}
  BY <1>1, <1>9
<1>16. status = "resolved" => \A k \in Inside(c) :
          /\ (\A served \in past : k \in served) => k \in result[c]
          /\ k \in result[c] => \E served \in past : k \in served
  BY <1>1, <1>9
<1> QED
  BY <1>1, <1>6, <1>7, <1>8, <1>10, <1>11, <1>12, <1>13, <1>14, <1>15, <1>16, CallStepKeepsInv

\* Steps that no call takes: what a cache loses opens no gap in what calls have
\* visited, and with more catalogs behind them answers stay whole.
LEMMA OtherStepKeepsInv ==
    ASSUME TileInv, UNCHANGED <<call, aborted, result, task>>,
           version' \in Versions, active' \in SUBSET Cafes,
           tileCache' \subseteq tileCache, splitTiles' \subseteq splitTiles,
           past \subseteq past', past' \subseteq SUBSET Cafes
    PROVE  TileInv'
<1>0. /\ TypeOK /\ SlotsSuffice /\ TasksFollowCalls /\ SplitsStayInReach
      /\ AnswersAreWhole /\ OpenCallsCover /\ ResultIsWhole /\ AnswersMatchVersion
  BY DEF TileInv
<1>1. TypeOK'
  BY <1>0 DEF TypeOK
<1>2. SlotsSuffice'
  BY <1>0 DEF SlotsSuffice, Fetching
<1>3. TasksFollowCalls'
  BY <1>0 DEF TasksFollowCalls
<1>4. SplitsStayInReach'
  BY <1>0 DEF SplitsStayInReach, Splittable
<1>5. \A t, answer : WholeAnswer(t, answer) => WholeAnswer(t, answer)'
  BY DEF WholeAnswer
<1>6. AnswersAreWhole'
  BY <1>0, <1>5 DEF AnswersAreWhole
<1>7. OpenCallsCover'
  BY <1>0 DEF OpenCallsCover
<1>8. ResultIsWhole'
  BY <1>0 DEF ResultIsWhole
<1>9. AnswersMatchVersion'
  BY <1>0 DEF AnswersMatchVersion
<1> QED
  BY <1>1, <1>2, <1>3, <1>4, <1>6, <1>7, <1>8, <1>9 DEF TileInv

LEMMA TileInit == Init => TileInv
<1> SUFFICES ASSUME Init
             PROVE  TileInv
  OBVIOUS
<1>1. NoTask \in TaskStates /\ NoTask.at = "none"
  <2>1. NoTask \in [at : {"none", "split", "failed"}] /\ NoTask.at = "none"
    BY DEF NoTask
  <2> QED
    BY <2>1 DEF TaskStates
<1>2. \A c \in Calls, t \in Tiles : task[c][t].at = "none"
  BY <1>1 DEF Init
<1>3. task \in [Calls -> [Tiles -> TaskStates]]
  BY <1>1 DEF Init
<1>4. TypeOK
  BY <1>3, TileAssumption DEF Init, TypeOK
<1>5. SlotsSuffice
  <2>1. Fetching = {}
    BY <1>2 DEF Fetching
  <2>2. IsFiniteSet({}) /\ Cardinality({}) = 0
    BY FS_EmptySet
  <2>3. aborted = {} /\ MaxRequests \in Nat /\ 0 <= MaxRequests
    BY TileAssumption DEF Init
  <2> QED
    BY <2>1, <2>2, <2>3 DEF SlotsSuffice
<1>6. TasksFollowCalls
  BY <1>2 DEF Init, TasksFollowCalls
<1>7. SplitsStayInReach
  BY <1>2 DEF Init, SplitsStayInReach
<1>8. AnswersAreWhole
  BY <1>2 DEF Init, AnswersAreWhole
<1>9. OpenCallsCover /\ ResultIsWhole
  BY DEF Init, OpenCallsCover, ResultIsWhole
<1>10. AnswersMatchVersion
  BY <1>2 DEF AnswersMatchVersion
<1> QED
  BY <1>4, <1>5, <1>6, <1>7, <1>8, <1>9, <1>10 DEF TileInv

LEMMA TileStep == TileInv /\ [Next]_vars => TileInv'
<1> SUFFICES ASSUME TileInv, [Next]_vars
             PROVE  TileInv'
  OBVIOUS
<1>0. /\ version \in Versions /\ active \in SUBSET Cafes /\ past \subseteq SUBSET Cafes
      /\ tileCache \subseteq tileCache
  BY DEF TileInv, TypeOK
<1>1. ASSUME NEW c \in Calls, Start(c)
      PROVE  TileInv'
  BY <1>1, StartKeepsInv
<1>2. ASSUME NEW c \in Calls, Resolve(c)
      PROVE  TileInv'
  BY <1>2, ResolveKeepsInv
<1>3. ASSUME NEW c \in Calls, Abort(c)
      PROVE  TileInv'
  BY <1>3, AbortKeepsInv
<1>4. ASSUME NEW c \in Calls, NEW t \in Tiles, Send(c, t)
      PROVE  TileInv'
  BY <1>4, SendKeepsInv
<1>5. ASSUME NEW c \in Calls, NEW t \in Tiles, FetchWhole(c, t)
      PROVE  TileInv'
  BY <1>5, FetchWholeKeepsInv
<1>6. ASSUME NEW c \in Calls, NEW t \in Tiles, FetchTruncatedThrows(c, t)
      PROVE  TileInv'
  <2>1. /\ task[c][t].at = "fetching"
        /\ Reject(c, [task[c] EXCEPT ![t] = [at |-> "failed"]])
        /\ UNCHANGED <<version, tileCache, splitTiles, server, aborted, result>>
    BY <1>6 DEF FetchTruncatedThrows
  <2> QED
    BY <2>1, FailureKeepsInv
<1>7. ASSUME NEW c \in Calls, NEW t \in Tiles, FetchTruncatedSplits(c, t)
      PROVE  TileInv'
  BY <1>7, SplitKeepsInv
<1>8. ASSUME NEW c \in Calls, NEW t \in Tiles, FetchFails(c, t)
      PROVE  TileInv'
  <2>1. /\ task[c][t].at = "fetching"
        /\ Reject(c, [task[c] EXCEPT ![t] = [at |-> "failed"]])
        /\ UNCHANGED <<version, tileCache, splitTiles, server, aborted, result>>
    BY <1>8 DEF FetchFails
  <2> QED
    BY <2>1, FailureKeepsInv
<1>9. ASSUME NEW v \in Versions, SetCacheVersion(v)
      PROVE  TileInv'
  <2>1. /\ UNCHANGED <<call, aborted, result, task>> /\ version' \in Versions
        /\ active' \in SUBSET Cafes /\ tileCache' \subseteq tileCache
        /\ splitTiles' \subseteq splitTiles /\ past \subseteq past' /\ past' \subseteq SUBSET Cafes
    BY <1>0, <1>9 DEF SetCacheVersion, server
  <2> QED
    BY <2>1, OtherStepKeepsInv
<1>10. ASSUME Expire
       PROVE  TileInv'
  <2>1. /\ UNCHANGED <<call, aborted, result, task>> /\ version' \in Versions
        /\ active' \in SUBSET Cafes /\ tileCache' \subseteq tileCache
        /\ splitTiles' \subseteq splitTiles /\ past \subseteq past' /\ past' \subseteq SUBSET Cafes
    BY <1>0, <1>10 DEF Expire, server
  <2> QED
    BY <2>1, OtherStepKeepsInv
<1>11. ASSUME ChangeCatalog
       PROVE  TileInv'
  <2>1. active' \in SUBSET Cafes
    BY <1>0, <1>11 DEF ChangeCatalog
  <2>2. /\ UNCHANGED <<call, aborted, result, task>> /\ version' \in Versions
        /\ active' \in SUBSET Cafes /\ tileCache' \subseteq tileCache
        /\ splitTiles' \subseteq splitTiles /\ past \subseteq past' /\ past' \subseteq SUBSET Cafes
    BY <1>0, <1>11, <2>1 DEF ChangeCatalog
  <2> QED
    BY <2>2, OtherStepKeepsInv
<1>12. ASSUME UNCHANGED vars
       PROVE  TileInv'
  <2>1. /\ UNCHANGED <<call, aborted, result, task>> /\ version' \in Versions
        /\ active' \in SUBSET Cafes /\ tileCache' \subseteq tileCache
        /\ splitTiles' \subseteq splitTiles /\ past \subseteq past' /\ past' \subseteq SUBSET Cafes
    BY <1>0, <1>12 DEF vars, server
  <2> QED
    BY <2>1, OtherStepKeepsInv
<1>13. CASE Over
  BY <1>12, <1>13 DEF Over
<1> QED
  BY <1>1, <1>2, <1>3, <1>4, <1>5, <1>6, <1>7, <1>8, <1>9, <1>10, <1>11, <1>12, <1>13
  DEF Next, Answered

\* However calls run together, are aborted and find splits and entries that
\* others left, and however the catalog and the version change under them: a
\* viewport that resolves shows every cafe that was there all along, an answer
\* is of the version it was asked with, and no more requests than
\* MAX_CONCURRENT_REQUESTS are under way.
THEOREM TileInvariant == Spec => []TileInv
<1> QED
  BY TileInit, TileStep, PTL DEF Spec

\* A call that is open has all its answers, or a request is under way, or one
\* that is queued may be sent: splitting tiles never exhausts the slots.
THEOREM OpenCallsKeepProceeding == Spec => []OpenCallsProceed
<1>1. TileInv => OpenCallsProceed
  <2> SUFFICES ASSUME TileInv, NEW c \in Calls, call[c] = "open",
                      NEW t \in Tiles, task[c][t].at \notin {"none", "done", "split"},
                      \A d \in Calls, u \in Tiles : task[d][u].at # "fetching"
               PROVE  /\ Cardinality(Fetching) < MaxRequests
                      /\ \E d \in Calls \ aborted, u \in Tiles : task[d][u].at = "queued"
    BY DEF OpenCallsProceed
  <2>1. /\ task[c] \in [Tiles -> TaskStates]
        /\ call[c] = "open" => \A u \in Tiles : task[c][u].at # "failed"
        /\ c \in aborted => \A u \in Tiles : task[c][u].at # "queued"
    BY CallOfInv
  <2>2. task[c][t] \in TaskStates /\ task[c][t].at \notin {"failed", "fetching"}
    BY <2>1
  <2>3. task[c][t].at = "queued"
    BY <2>2 DEF TaskStates
  <2>4. Fetching = {}
    BY DEF Fetching
  <2>5. Cardinality(Fetching) < MaxRequests
    BY <2>4, FS_EmptySet, TileAssumption
  <2> QED
    BY <2>1, <2>3, <2>5
<1> QED
  BY <1>1, TileInvariant, PTL

=============================================================================
