----------------------------- MODULE CafeSearch -----------------------------
(***************************************************************************)
(* The search box of the browser, frontend/src/cafe-search.ts: a debounced *)
(* query, brand filters, answers that arrive late or not at all, results   *)
(* that are published to the map, and the report of a missing cafe.        *)
(*                                                                         *)
(* A query is Blank, Short (less than two characters) or a longer one, and *)
(* so is a cafe's name.  A search is the number requestSequence had when   *)
(* it began.  Whether the popover is open is left out: it hides and shows  *)
(* the same results.                                                       *)
(***************************************************************************)
EXTENDS Naturals

CONSTANTS
    Blank, Short, Queries,  \* what the input may hold, trimmed
    Brands, Origins,        \* filters, and places to measure distances from
    MaxInputs,              \* bound: what the user does to query and filters
    MaxReports,             \* bound: submissions of the missing-cafe form
    None

VARIABLES
    input, selectedBrand, distanceOrigin,
    timer,              \* whether the debounce timer runs
    requestSequence,
    controller,         \* the search whose abort controller is held, or None
    asked,              \* asked[n]: query and brand of search n
    calls,              \* searches whose call is open, aborted or not
    results,            \* the search whose results are listed, None without
    rankedBy,           \* the origin they are ordered by
    published,          \* what onResultsChange told the map last
    message,
    form,               \* whether the missing-cafe form is shown
    reportState, reportStatus,
    sent, onTheWay,     \* reports: how many were sent, and are not answered
    chosen,             \* the input is the name of a chosen result, not searched for
    inputs,             \* how often the user has acted
    destroyed

reporting == <<form, reportState, reportStatus>>
sending == <<sent, onTheWay>>
listing == <<results, rankedBy, published>>
searching == <<timer, requestSequence, controller, asked, calls, message>>
typing == <<input, selectedBrand, chosen, inputs, destroyed>>
vars == <<typing, distanceOrigin, searching, listing, reporting, sending>>

Searches == 1..(2 * MaxInputs)
TooShort(query, brand) == brand = None /\ query \in {Blank, Short}

\* An empty box, with the map's first centre for an origin.
Init ==
    /\ input = Blank /\ selectedBrand = None /\ chosen = FALSE
    /\ inputs = 0 /\ destroyed = FALSE
    /\ distanceOrigin \in Origins
    /\ timer = FALSE /\ requestSequence = 0 /\ controller = None
    /\ asked = [n \in Searches |-> None]
    /\ calls = {} /\ message = "none"
    /\ results = None /\ rankedBy = None /\ published = None
    /\ form = FALSE /\ reportState = "idle" /\ reportStatus = "none"
    /\ sent = 0 /\ onTheWay = 0

-----------------------------------------------------------------------------
(* Parts of the handlers. *)

ClearResults == results' = None /\ published' = None /\ rankedBy' = None

MissingReport(shown) == form' = shown /\ reportState' = "idle" /\ reportStatus' = "none"

\* renderResults: ordered by the origin of now, not of when it was asked.
Render(n) == results' = n /\ published' = n /\ rankedBy' = distanceOrigin

\* cancelPending
CancelPending ==
    /\ timer' = FALSE
    /\ controller' = None
    /\ requestSequence' = requestSequence + 1

\* runSearch up to its first await: nothing of an earlier search is left, and
\* a query that is too short only cancels what is open.
RunSearch(query, brand) ==
    /\ ClearResults /\ MissingReport(FALSE)
    /\ chosen' = FALSE
    /\ IF TooShort(query, brand)
       THEN /\ CancelPending
            /\ message' = IF query = Short THEN "too_short" ELSE "none"
            /\ UNCHANGED <<asked, calls>>
       ELSE /\ timer' = FALSE
            /\ requestSequence' = requestSequence + 1
            /\ controller' = requestSequence'
            /\ asked' = [asked EXCEPT ![requestSequence'] = <<query, brand>>]
            /\ calls' = calls \cup {requestSequence'}
            /\ message' = "searching"

\* Mutant: the check after the await is left out.
AlwaysCurrent(n) == TRUE

\* Neither aborted nor overtaken.
IsCurrent(n) == controller = n /\ requestSequence = n

-----------------------------------------------------------------------------
(* The user. *)

UserActs ==
    /\ ~destroyed
    /\ inputs < MaxInputs
    /\ inputs' = inputs + 1
    /\ UNCHANGED <<distanceOrigin, destroyed, sending>>

\* Mutant: a pending search is kept when the box is emptied.
TypeKeepsTimer(query) ==
    /\ UserActs
    /\ query # input
    /\ input' = query /\ chosen' = FALSE
    /\ timer' = (query # Blank \/ timer)
    /\ UNCHANGED <<selectedBrand, requestSequence, controller, asked, calls, message,
                   listing, reporting>>

\* onInput: at once if nothing is left to search for, else debounced.
Type(query) ==
    /\ UserActs
    /\ query # input
    /\ input' = query
    /\ UNCHANGED selectedBrand
    /\ IF query = Blank /\ selectedBrand = None
       THEN RunSearch(query, None)
       ELSE /\ timer' = TRUE /\ chosen' = FALSE
            /\ UNCHANGED <<requestSequence, controller, asked, calls, message,
                           listing, reporting>>

\* onFilterClick
ToggleBrand(brand) ==
    /\ UserActs
    /\ selectedBrand' = IF selectedBrand = brand THEN None ELSE brand
    /\ UNCHANGED input
    /\ RunSearch(input, selectedBrand')

\* onSubmit
Submit ==
    /\ UserActs
    /\ UNCHANGED <<input, selectedBrand>>
    /\ RunSearch(input, selectedBrand)

\* onResultClick: the name of the result fills the input; a timer that still
\* runs will search for it.
ChooseResult(name) ==
    /\ UserActs
    /\ results # None
    /\ input' = name /\ chosen' = TRUE
    /\ UNCHANGED <<selectedBrand, searching, listing, reporting>>

\* onMissingReportSubmit, of whatever name the form holds by then.
SubmitReport(name) ==
    /\ ~destroyed
    /\ form
    /\ reportState = "idle"
    /\ IF name \in {Blank, Short}
       THEN reportStatus' = "too_short" /\ UNCHANGED <<reportState, sending>>
       ELSE /\ sent < MaxReports
            /\ sent' = sent + 1 /\ onTheWay' = onTheWay + 1
            /\ reportState' = "submitting" /\ reportStatus' = "sending"
    /\ UNCHANGED <<typing, distanceOrigin, searching, listing, form>>

-----------------------------------------------------------------------------
(* Timers and answers. *)

TimerFires ==
    /\ timer
    /\ RunSearch(input, selectedBrand)
    /\ UNCHANGED <<input, selectedBrand, inputs, destroyed, distanceOrigin, sending>>

\* An answer with or without results; an answer nobody waits for is dropped.
SearchAnswers(n, found) ==
    /\ n \in calls
    /\ calls' = calls \ {n}
    /\ controller' = IF controller = n THEN None ELSE controller
    /\ IF IsCurrent(n)
       THEN IF found
            THEN Render(n) /\ message' = "count" /\ UNCHANGED reporting
            ELSE ClearResults /\ message' = "nothing" /\ MissingReport(TRUE)
       ELSE UNCHANGED <<listing, message, reporting>>
    /\ UNCHANGED <<typing, distanceOrigin, timer, requestSequence, asked, sending>>

SearchFails(n) ==
    /\ n \in calls
    /\ calls' = calls \ {n}
    /\ controller' = IF controller = n THEN None ELSE controller
    /\ IF IsCurrent(n)
       THEN ClearResults /\ message' = "error" /\ MissingReport(FALSE)
       ELSE UNCHANGED <<listing, message, reporting>>
    /\ UNCHANGED <<typing, distanceOrigin, timer, requestSequence, asked, sending>>

\* Mutant: the new origin is kept for the next search.
OriginForNextSearch(origin) ==
    /\ ~destroyed
    /\ distanceOrigin' = origin
    /\ UNCHANGED <<typing, searching, listing, reporting, sending>>

\* The map moved or the user was located: what is listed is ordered anew.
UpdateDistanceOrigin(origin) ==
    /\ ~destroyed
    /\ distanceOrigin' = origin
    /\ IF results = None THEN UNCHANGED <<listing, message>>
       ELSE /\ rankedBy' = origin /\ published' = results
            /\ message' = "count"
            /\ UNCHANGED results
    /\ UNCHANGED <<typing, timer, requestSequence, controller, asked, calls, reporting, sending>>

\* The answer to a report meets whatever form is there by then.
ReportSettles(accepted) ==
    /\ onTheWay > 0
    /\ onTheWay' = onTheWay - 1
    /\ reportState' = IF accepted THEN "submitted" ELSE "idle"
    /\ reportStatus' = IF accepted THEN "thanks" ELSE "failed"
    /\ UNCHANGED <<typing, distanceOrigin, searching, listing, form, sent>>

Destroy ==
    /\ ~destroyed
    /\ destroyed' = TRUE
    /\ CancelPending
    /\ UNCHANGED <<input, selectedBrand, chosen, inputs, distanceOrigin, asked, calls, message,
                   listing, reporting, sending>>

Settles(n) == SearchFails(n) \/ \E found \in BOOLEAN : SearchAnswers(n, found)

Next ==
    \/ \E query \in Queries \cup {Blank, Short} :
          Type(query) \/ (query # Blank /\ ChooseResult(query)) \/ SubmitReport(query)
    \/ \E brand \in Brands : ToggleBrand(brand)
    \/ Submit \/ TimerFires
    \/ \E n \in calls : Settles(n)
    \/ \E origin \in Origins : UpdateDistanceOrigin(origin)
    \/ \E accepted \in BOOLEAN : ReportSettles(accepted)
    \/ Destroy

Spec == Init /\ [][Next]_vars

\* Timers fire, and the browser answers or fails every call it made.
Fairness ==
    /\ WF_vars(TimerFires)
    /\ \A n \in Searches : WF_vars(n \in calls /\ Settles(n))
    /\ WF_vars(\E accepted \in BOOLEAN : ReportSettles(accepted))

FairSpec == Spec /\ Fairness

-----------------------------------------------------------------------------
(* Properties. *)

TypeOK ==
    /\ input \in Queries \cup {Blank, Short} /\ selectedBrand \in Brands \cup {None}
    /\ timer \in BOOLEAN /\ chosen \in BOOLEAN /\ form \in BOOLEAN /\ destroyed \in BOOLEAN
    /\ inputs \in Nat /\ inputs <= MaxInputs /\ requestSequence \in Nat /\ onTheWay \in Nat
    /\ calls \subseteq 1..requestSequence
    /\ DOMAIN asked = Searches
    /\ controller \in Searches \cup {None} /\ results \in Searches \cup {None}
    /\ distanceOrigin \in Origins /\ rankedBy \in Origins \cup {None}

\* An input begins at most two searches: one at once, one when its timer fires.
SearchesAreAskedFor ==
    ~destroyed => requestSequence + (IF timer THEN 1 ELSE 0) <= 2 * inputs

\* Only the newest search can still be shown, and none after the box is gone.
OneSearchOpen ==
    /\ controller # None => controller = requestSequence /\ controller \in calls
    /\ destroyed => ~timer /\ controller = None

\* The list, the map and the order on the screen are those of one search, the
\* newest: no answer of a search that was replaced, cleared or too short, and
\* none that is ordered by a place the map has left.
OneSearchShown ==
    /\ published = results
    /\ results # None /\ ~destroyed => results = requestSequence /\ rankedBy = distanceOrigin

\* A missing cafe can be reported only after the newest search found nothing,
\* the box counts what it lists, and it says that it searches only while an
\* answer can still come.
MessageIsTrue ==
    /\ form => message = "nothing" /\ results = None
    /\ results # None => message = "count"
    /\ ~destroyed => (message = "searching" <=> controller # None)
    /\ reportState = "submitting" => onTheWay > 0

\* A box with no timer running has searched for what it holds, and shows nothing
\* when it holds too little, unless a result was chosen from it.
AtRestIsCurrent ==
    destroyed \/ chosen \/ timer \/
    IF TooShort(input, selectedBrand)
    THEN results = None /\ message \in {"none", "too_short"}
    ELSE requestSequence # 0 /\ asked[requestSequence] = <<input, selectedBrand>>

SearchInv ==
    /\ TypeOK /\ SearchesAreAskedFor /\ OneSearchOpen
    /\ OneSearchShown /\ MessageIsTrue /\ AtRestIsCurrent

\* In whatever order queries, filters, answers and timers came, the box ends on
\* the query and filter it holds, unless a result was chosen from it.
SearchSettles ==
    <>[](destroyed \/ chosen \/
         IF TooShort(input, selectedBrand) THEN results = None /\ message \in {"none", "too_short"}
         ELSE /\ requestSequence # 0 /\ asked[requestSequence] = <<input, selectedBrand>>
              /\ message # "searching")

=============================================================================
