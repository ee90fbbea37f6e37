----------------------------- MODULE MCRequests -----------------------------
(* What asks the server from the page: tile requests, of which five of two   *)
(* calls of getCafes share two slots (RequestSlots), and the search box,     *)
(* which takes no slot (CafeSearch).  They share nothing, so each is         *)
(* explored while the other is at rest: every tile request over, or the      *)
(* search box torn down.                                                     *)
EXTENDS RequestSlots, TLC

CONSTANTS
    t1, t2, t3, t4, t5, s1, s2,
    Blank, Short, Queries, Brands, Origins, MaxInputs, MaxReports, None

ASSUME SearchAssumption ==
    /\ MaxInputs \in Nat /\ MaxReports \in Nat
    /\ None \notin Nat \cup Queries \cup {Blank, Short} \cup Brands \cup Origins
    /\ Blank # Short /\ {Blank, Short} \cap Queries = {}

VARIABLES
    input, selectedBrand, distanceOrigin, timer, requestSequence, controller, asked,
    calls, results, rankedBy, published, message, form, reportState, reportStatus,
    sent, onTheWay, chosen, inputs, destroyed

Search == INSTANCE CafeSearch

searchVars == <<input, selectedBrand, distanceOrigin, timer, requestSequence, controller,
                asked, calls, results, rankedBy, published, message, form, reportState,
                reportStatus, sent, onTheWay, chosen, inputs, destroyed>>

MCSignalOf == (t1 :> s1) @@ (t2 :> s1) @@ (t3 :> s1) @@ (t4 :> s2) @@ (t5 :> s2)

\* A search box torn down before its first use.
NoSearch ==
    /\ input = Blank /\ selectedBrand = None /\ chosen = FALSE
    /\ inputs = 0 /\ destroyed = TRUE
    /\ distanceOrigin = CHOOSE o \in Origins : TRUE
    /\ timer = FALSE /\ requestSequence = 0 /\ controller = None
    /\ asked = [n \in Search!Searches |-> None] /\ calls = {} /\ message = "none"
    /\ results = None /\ rankedBy = None /\ published = None
    /\ form = FALSE /\ reportState = "idle" /\ reportStatus = "none"
    /\ sent = 0 /\ onTheWay = 0

NoTiles ==
    /\ activeRequestCount = 0 /\ requestWaiters = {}
    /\ ahead = [t \in Tasks |-> {}]
    /\ aborted = Signals
    /\ pc = [t \in Tasks |-> "done"]

MCInit == (Init /\ NoSearch) \/ (NoTiles /\ Search!Init)

MCNext ==
    \/ Next /\ UNCHANGED searchVars
    \/ Search!Next /\ UNCHANGED vars

MCSpec == MCInit /\ [][MCNext]_<<vars, searchVars>> /\ Fairness /\ Search!Fairness

SearchInv == Search!SearchInv

\* Every request of either kind comes to an end: a waiting tile gets its turn or
\* is given up, and a search box shows the answer to what was typed last.
RequestsSettle == WaitersProceed /\ Search!SearchSettles

=============================================================================
