----------------------------- MODULE MCMapView -----------------------------
(* MapView for TLC: two viewports with cafes and one without, overlapping   *)
(* loads and health checks, one search.  The map is an instance, so that it *)
(* can be reasoned about beside the tiles it loads (BrowserProofs).         *)
EXTENDS Naturals

CONSTANTS Near, Far, Searches, Loads, Checks, MaxObservation, MaxMoves, MaxFailures, None

VARIABLES
    moving, viewport, located, outdated, limits, boot, check, controller, latest, load,
    raw, hasLoaded, search, shown, moves, failures

Map == INSTANCE MapView

\* Bounds are numbers, and views, searches and loads are told apart.
ASSUME MapViewAssumption ==
    /\ MaxObservation \in Nat /\ MaxMoves \in Nat /\ MaxFailures \in Nat
    /\ Near # {} /\ Near \cap Far = {} /\ Searches \cap (Near \cup Far) = {}
    /\ {"check", "done"} \cap Loads = {}
    /\ None \notin Near \cup Far \cup Searches \cup Loads \cup Map!Collection

MapSpec == Map!FairSpec

MapInv == Map!MapInv
LoadsRestingView == Map!LoadsRestingView
MapSettles == Map!MapSettles
LevelsGoDark == Map!LevelsGoDark
=============================================================================
