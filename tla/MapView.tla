------------------------------ MODULE MapView ------------------------------
(***************************************************************************)
(* The cafes on the map (map.ts): the load of the viewport the user looks  *)
(* at, the background refresh that follows a health check, the search that *)
(* replaces the viewport's cafes, and the ticks that let levels go dark    *)
(* once their observation is too old to be shown.                          *)
(*                                                                         *)
(* A collection of cafes is what it is of (a viewport, a search, None), an *)
(* observation its levels come from and whether these are lit.             *)
(* Observations are numbered in time; "outdated" is the last one beyond    *)
(* the display limit.                                                      *)
(*                                                                         *)
(* requestSequence only matters for whose it is, so "latest" names the     *)
(* load that holds it.  abort() needs no flag: whoever calls it increments *)
(* the sequence in the same stretch of code, and requestController is      *)
(* cleared by the aborted load itself, later.  Resizing the window moves   *)
(* no viewport: its events are marked and both handlers ignore them.       *)
(***************************************************************************)
EXTENDS Naturals

CONSTANTS
    Near,           \* viewports at a zoom where cafes are shown
    Far,            \* viewports below MIN_CAFE_ZOOM
    Searches,       \* searches with results
    Loads,          \* bound: viewport loads in flight at once
    Checks,         \* bound: health checks in flight at once
    MaxObservation, \* bound: observations
    MaxMoves,       \* bound: moves of the map
    MaxFailures,    \* bound: failures of the load that counts
    None            \* null

Views == Near \cup Far
Observation == 1 .. MaxObservation
Collection == [of : Views \cup Searches \cup {None},
               obs : 0 .. MaxObservation, lit : BOOLEAN]
Nothing == [of |-> None, obs |-> 0, lit |-> FALSE]

VARIABLES
    moving,      \* between movestart and moveend
    viewport,    \* what the map looks at, and where it passes while moving
    located,     \* userDistanceOrigin is known
    outdated,    \* observations up to this one are beyond the display limit
    limits,      \* freshnessLimits are known
    boot,        \* "check", then the first load, then "done": the search,
                 \* the timer and the resume handlers are set up after it
    check,       \* what follows each health check in flight
    controller,  \* requestController
    latest,      \* the load holding requestSequence
    load,        \* the viewport each load in flight was asked for
    raw,         \* rawCafeCollection
    hasLoaded,   \* hasLoadedCafeData
    search,      \* activeSearchResults
    shown,       \* displayedCafeCollection, the source of the map's layers
    moves,       \* bound: moves so far
    failures     \* bound: failures so far

requestVars == <<controller, latest, load, raw, hasLoaded>>
vars == <<moving, viewport, located, outdated, limits, boot, check,
          requestVars, search, shown, moves, failures>>

TypeOK ==
    /\ moving \in BOOLEAN /\ located \in BOOLEAN /\ limits \in BOOLEAN
    /\ hasLoaded \in BOOLEAN
    /\ viewport \in Views
    /\ outdated \in 0 .. MaxObservation
    /\ boot \in Loads \cup {"check", "done"}
    /\ check \in [Checks -> {"boot", "background", None}]
    /\ controller \in Loads \cup {None} /\ latest \in Loads \cup {None}
    /\ load \in [Loads -> Near \cup {None}]
    /\ raw \in Collection /\ shown \in Collection
    /\ search = None \/ (search \in Collection /\ search.of \in Searches)
    /\ moves \in 0 .. MaxMoves /\ failures \in 0 .. MaxFailures

\* The map style is loaded and the first health check is under way.
Init ==
    /\ moving = FALSE /\ located = FALSE /\ limits = FALSE
    /\ viewport \in Near
    /\ outdated = 0 /\ boot = "check"
    /\ \E k \in Checks :
          check = [c \in Checks |-> IF c = k THEN "boot" ELSE None]
    /\ controller = None /\ latest = None
    /\ load = [l \in Loads |-> None]
    /\ raw = Nothing /\ hasLoaded = FALSE
    /\ search = None /\ shown = Nothing
    /\ moves = 0 /\ failures = 0

-----------------------------------------------------------------------------
(* What the map displays. *)

\* What the server answers: levels of outdated observations are masked.
Answer(of, o) == [of |-> of, obs |-> o, lit |-> o > outdated]

\* ageCafeCollection: without limits nothing ages.
Aged(collection, known) ==
    [collection EXCEPT !.lit = @ /\ (known => collection.obs > outdated)]

\* Mutant: the search is forgotten as soon as the viewport is loaded.
DisplayedLoadFirst(s, r, loaded, known) ==
    IF loaded THEN Aged(r, known)
    ELSE IF s # None THEN Aged(s, known)
    ELSE shown

\* Mutant: levels are taken as they were answered.
DisplayedUnaged(s, r, loaded, known) ==
    IF s # None THEN s ELSE IF loaded THEN r ELSE shown

\* updateDisplayedCollection, with the results, the collection, the load and
\* the limits it finds.
Displayed(s, r, loaded, known) ==
    IF s # None THEN Aged(s, known)
    ELSE IF loaded THEN Aged(r, known)
    ELSE shown

\* Mutant: a zoomed-out map leaves the sequence to the load in flight.
RefreshKeepingSequence(before) ==
    IF viewport \in Far
    THEN /\ controller' = None
         /\ raw' = Nothing /\ hasLoaded' = FALSE /\ shown' = Nothing
         /\ UNCHANGED <<load, latest>>
    ELSE \E l \in Loads :
            /\ load[l] = None
            /\ load' = [load EXCEPT ![l] = viewport]
            /\ controller' = l /\ latest' = l
            /\ shown' = before
            /\ UNCHANGED <<raw, hasLoaded>>

\* refresh, up to its await: supersede the load in flight, and clear a map
\* that is zoomed out or load its viewport.
Refresh(before) ==
    IF viewport \in Far
    THEN /\ controller' = None /\ latest' = None
         /\ raw' = Nothing /\ hasLoaded' = FALSE /\ shown' = Nothing
         /\ UNCHANGED load
    ELSE \E l \in Loads :
            /\ load[l] = None
            /\ load' = [load EXCEPT ![l] = viewport]
            /\ controller' = l /\ latest' = l
            /\ shown' = before
            /\ UNCHANGED <<raw, hasLoaded>>

\* Mutant: a result is taken unless the map is moving.
AppliesUnlessMoving(l) == ~ moving

\* "sequence !== requestSequence"
Applies(l) == latest = l

\* The finally block.
Released(l) == IF controller = l THEN None ELSE controller

LoadSucceeds(l, o) ==
    /\ load[l] # None
    /\ load' = [load EXCEPT ![l] = None]
    /\ controller' = Released(l)
    /\ boot' = IF boot = l THEN "done" ELSE boot
    /\ IF Applies(l)
       THEN /\ raw' = Answer(load[l], o)
            /\ hasLoaded' = TRUE
            /\ shown' = Displayed(search, raw', TRUE, limits)
       ELSE UNCHANGED <<raw, hasLoaded, shown>>
    /\ UNCHANGED <<moving, viewport, located, outdated, limits, check, latest,
                   search, moves, failures>>

\* Only the status line tells of a failure.
LoadFails(l) ==
    /\ load[l] # None
    /\ load' = [load EXCEPT ![l] = None]
    /\ controller' = Released(l)
    /\ boot' = IF boot = l THEN "done" ELSE boot
    /\ failures' = IF Applies(l) THEN failures + 1 ELSE failures
    /\ failures' =< MaxFailures
    /\ UNCHANGED <<moving, viewport, located, outdated, limits, check, latest,
                   raw, hasLoaded, search, shown, moves>>

-----------------------------------------------------------------------------
(* The user. *)

MoveStart ==
    /\ ~ moving /\ moves < MaxMoves
    /\ moving' = TRUE
    /\ moves' = moves + 1
    /\ latest' = None
    /\ hasLoaded' = FALSE
    /\ UNCHANGED <<boot, viewport, located, outdated, limits, check,
                   controller, load, raw, search, shown, failures>>

\* The map passes over viewports; handlers see where it is.
Drift(v) ==
    /\ moving
    /\ viewport' = v
    /\ UNCHANGED <<boot, moving, located, outdated, limits, check,
                   requestVars, search, shown, moves, failures>>

\* Unless the user's place is known the search is ranked and published anew.
MoveEnd ==
    /\ moving
    /\ moving' = FALSE
    /\ Refresh(IF search # None /\ ~ located
               THEN Displayed(search, raw, hasLoaded, limits) ELSE shown)
    /\ UNCHANGED <<boot, viewport, located, outdated, limits, check, search,
                   moves, failures>>

Geolocate ==
    /\ ~ located
    /\ located' = TRUE
    /\ shown' = IF search # None THEN Displayed(search, raw, hasLoaded, limits)
                ELSE shown
    /\ UNCHANGED <<boot, moving, viewport, outdated, limits, check,
                   requestVars, search, moves, failures>>

\* onResultsChange with the results of a search
SearchPublishes(s, o) ==
    /\ boot = "done"
    /\ search' = Answer(s, o)
    /\ shown' = Displayed(search', raw, hasLoaded, limits)
    /\ UNCHANGED <<boot, moving, viewport, located, outdated, limits, check,
                   requestVars, moves, failures>>

\* Mutant: a search without results is published as an empty list.
SearchPublishesEmpty ==
    /\ boot = "done"
    /\ search' = Nothing
    /\ shown' = Nothing
    /\ UNCHANGED <<boot, moving, viewport, located, outdated, limits, check,
                   requestVars, moves, failures>>

\* onResultsChange with null: cleared, running, failed or without a result
SearchClears ==
    /\ boot = "done"
    /\ search' = None
    /\ shown' = Displayed(None, raw, hasLoaded, limits)
    /\ UNCHANGED <<boot, moving, viewport, located, outdated, limits, check,
                   requestVars, moves, failures>>

-----------------------------------------------------------------------------
(* Health checks and time. *)

\* refreshInBackground
BeginCheck ==
    /\ controller = None
    /\ \E k \in Checks :
          check[k] = None /\ check' = [check EXCEPT ![k] = "background"]

\* Every 30 seconds; every fifth minute with a check.
Tick(due) ==
    /\ boot = "done"
    /\ ~ moving
    /\ shown' = Displayed(search, raw, hasLoaded, limits)
    /\ IF due THEN BeginCheck ELSE UNCHANGED check
    /\ UNCHANGED <<boot, moving, viewport, located, outdated, limits,
                   requestVars, search, moves, failures>>

\* visibilitychange and focus, each for itself, also during a move.
Resume ==
    /\ boot = "done"
    /\ BeginCheck
    /\ UNCHANGED <<boot, moving, viewport, located, outdated, limits,
                   requestVars, search, shown, moves, failures>>

\* Mutant: the background refreshes only what was loaded before.
ContinueIfLoaded(k, before) ==
    /\ IF check[k] = "boot" \/ (controller = None /\ hasLoaded)
       THEN Refresh(before)
       ELSE shown' = before /\ UNCHANGED requestVars
    /\ boot' = IF check[k] # "boot" THEN boot
               ELSE IF viewport \in Far THEN "done" ELSE latest'

\* refresh() follows the first check, refresh(true) the others.
Continue(k, before) ==
    /\ IF check[k] = "boot" \/ controller = None
       THEN Refresh(before)
       ELSE shown' = before /\ UNCHANGED requestVars
    /\ boot' = IF check[k] # "boot" THEN boot
               ELSE IF viewport \in Far THEN "done" ELSE latest'

CheckAnswers(k) ==
    /\ check[k] # None
    /\ check' = [check EXCEPT ![k] = None]
    /\ limits' = TRUE
    /\ Continue(k, Displayed(search, raw, hasLoaded, TRUE))
    /\ UNCHANGED <<moving, viewport, located, outdated, search, moves,
                   failures>>

CheckFails(k) ==
    /\ check[k] # None
    /\ check' = [check EXCEPT ![k] = None]
    /\ Continue(k, shown)
    /\ UNCHANGED <<moving, viewport, located, outdated, limits, search, moves,
                   failures>>

TimePasses ==
    /\ outdated < MaxObservation
    /\ outdated' = outdated + 1
    /\ UNCHANGED <<boot, moving, viewport, located, limits, check,
                   requestVars, search, shown, moves, failures>>

Next ==
    \/ \E l \in Loads, o \in Observation : LoadSucceeds(l, o)
    \/ \E l \in Loads : LoadFails(l)
    \/ MoveStart
    \/ \E v \in Views : Drift(v)
    \/ MoveEnd
    \/ Geolocate
    \/ \E s \in Searches, o \in Observation : SearchPublishes(s, o)
    \/ SearchClears
    \/ \E due \in BOOLEAN : Tick(due)
    \/ Resume
    \/ \E k \in Checks : CheckAnswers(k) \/ CheckFails(k)
    \/ TimePasses

\* Gestures end, fetches and checks are settled, and the interval timer of a
\* visible tab fires.
Fairness ==
    /\ WF_vars(MoveEnd)
    /\ \A l \in Loads :
          WF_vars(LoadFails(l) \/ \E o \in Observation : LoadSucceeds(l, o))
    /\ \A k \in Checks : WF_vars(CheckAnswers(k) \/ CheckFails(k))
    /\ WF_vars(Tick(FALSE)) /\ WF_vars(Tick(TRUE))

Spec == Init /\ [][Next]_vars
FairSpec == Spec /\ Fairness

-----------------------------------------------------------------------------
(* Properties. *)

\* Cafes loaded while the map rests are those of the viewport it rests on,
\* whichever loads of earlier viewports, of the way there or of background
\* refreshes are answered late.
LoadsRestingView ==
    [][(raw' # raw /\ raw'.of # None /\ ~ moving) => raw'.of = viewport]_vars

\* Of a map that rests only a load of the viewport it rests on can still be
\* applied.
LatestLoadIsOfTheView ==
    ~ moving /\ latest # None /\ load[latest] # None => load[latest] = viewport

\* A map resting below the minimum zoom shows no viewport's cafes: no load
\* begun before fills it again, and nothing loaded is left to be shown later.
FarShowsNoViewport ==
    (~ moving /\ viewport \in Far) => shown.of \notin Views /\ ~ hasLoaded

\* While a search has results the map shows no cafe outside of them,
\* whatever moves, loads and refreshes go on underneath.
SearchHidesOthers == search # None => shown.of \in {None, search.of}

\* What is on the map at any time.
MapInv == TypeOK /\ LatestLoadIsOfTheView /\ FarShowsNoViewport /\ SearchHidesOthers

\* Once the user rests, the map comes to show the viewport's cafes, unless it
\* is zoomed out or a search replaces them: no failure, superseded load or
\* lost controller leaves it on another viewport.
MapSettles == []<>(search # None \/ viewport \in Far \/ shown.of = viewport)

\* A level does not stay lit for ever after its observation was outdated.
Misleading == limits /\ shown.lit /\ shown.obs =< outdated
LevelsGoDark == Misleading ~> ~ Misleading
=============================================================================
