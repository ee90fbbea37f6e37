----------------------------- MODULE CafePanel -----------------------------
(***************************************************************************)
(* The panel of the map: which cafe is open, the detail request that fills *)
(* it (map.ts selectCafe), the summaries of the map that update it         *)
(* (panel.ts updateOpenCafePanel), and the two forms it carries, the       *)
(* crowd feedback and the place report, whose submissions outlive it.      *)
(*                                                                         *)
(* Everything runs on the browser's one thread: an action is a stretch of  *)
(* code between two awaits, and what interleaves is the order in which the *)
(* user, the map and the answers of the server get their turn.             *)
(*                                                                         *)
(* An observation is a number, its place in the order of observation       *)
(* times; Unobserved stands for observedAt === null.  The level a detail   *)
(* shows is named by the observation it was computed from, and Unobserved  *)
(* says that no level is shown (level === null, or masked as stale).       *)
(* Details and search results bring a level with the observation it was    *)
(* computed from, its hotspot and distance; the summaries of the viewport  *)
(* (/api/cafes/summary) bring the level alone, as old as the tile they     *)
(* were cached in.                                                         *)
(*                                                                         *)
(* An aborted detail request needs no flag of its own: every abort() of    *)
(* map.ts is followed, in the same stretch, by a new value of              *)
(* detailRequestSequence.  "latest" is the request that holds it.          *)
(***************************************************************************)
EXTENDS Naturals

CONSTANTS
    Cafes,          \* identifiers of cafes
    Requests,       \* bound: detail requests in flight at once
    Submissions,    \* bound: submissions in flight at once
    MaxObservation, \* bound: observations the server makes
    None            \* null

ASSUME PanelAssumption ==
    /\ MaxObservation \in Nat
    /\ None \notin Cafes /\ None \notin Requests
    /\ None \notin {"feedback", "report"} \X Cafes

Unobserved == 0
Observation == 0 .. MaxObservation
Form == {"feedback", "report"}
Detail == [cafe : Cafes, observedAt : Observation, level : Observation,
           bare : BOOLEAN]   \* history: the level came without an observation

VARIABLES
    openCafeId,     \* the cafe the panel shows, None when it is hidden
    openCafeDetail, \* its details once they are here
    latest,         \* the request holding detailRequestSequence
    request,        \* the cafe each detail request in flight asks for
    answered,       \* both feedback answers are picked
    form,           \* feedbackState and reportState
    submission,     \* the form and cafe each submission in flight is for
    chosen,         \* history: the cafe the user selected last
    stored          \* history: what the server has accepted

vars == <<openCafeId, openCafeDetail, latest, request, answered, form,
          submission, chosen, stored>>

TypeOK ==
    /\ openCafeId \in Cafes \cup {None}
    /\ openCafeDetail \in Detail \cup {None}
    /\ latest \in Requests \cup {None}
    /\ request \in [Requests -> Cafes \cup {None}]
    /\ answered \in BOOLEAN
    /\ form \in [Form -> {"idle", "submitting", "submitted"}]
    /\ submission \in [Submissions -> (Form \X Cafes) \cup {None}]
    /\ chosen \in Cafes \cup {None}
    /\ stored \subseteq Form \X Cafes

Init ==
    /\ openCafeId = None
    /\ openCafeDetail = None
    /\ latest = None
    /\ request = [r \in Requests |-> None]
    /\ answered = FALSE
    /\ form = [f \in Form |-> "idle"]
    /\ submission = [s \in Submissions |-> None]
    /\ chosen = None
    /\ stored = {}

-----------------------------------------------------------------------------
(* Selecting a cafe. *)

\* resetCrowdFeedback and resetPlaceReport.  Submissions in flight go on.
ResetForms ==
    /\ answered' = FALSE
    /\ form' = [f \in Form |-> "idle"]

\* hideCafePanel
Hide ==
    /\ openCafeId' = None
    /\ openCafeDetail' = None
    /\ ResetForms

\* A marker or a search result: the loading panel, and a new request.
Select(c, r) ==
    /\ request[r] = None
    /\ latest' = r
    /\ request' = [request EXCEPT ![r] = c]
    /\ openCafeId' = c
    /\ openCafeDetail' = None
    /\ ResetForms
    /\ chosen' = c
    /\ UNCHANGED <<submission, stored>>

\* Mutant: the answer is shown whenever its request was not superseded, so that a
\* panel closed meanwhile opens again
AwaitedUnlessSuperseded(r) == r = latest

\* Mutant: the answer is shown to any open panel
AwaitedByAnyPanel(r) == openCafeId # None

\* The three conditions under which an answer may still be shown.
Awaited(r) == r = latest /\ openCafeId = request[r]

\* showCafePanel; the answer's observation and level are the server's.
DetailArrives(r, o, level) ==
    /\ request[r] # None
    /\ request' = [request EXCEPT ![r] = None]
    /\ IF Awaited(r)
       THEN openCafeDetail' =
              [cafe |-> request[r], observedAt |-> o, level |-> level,
               bare |-> FALSE]
       ELSE UNCHANGED openCafeDetail
    /\ openCafeId' = IF Awaited(r) THEN request[r] ELSE openCafeId
    /\ UNCHANGED <<latest, answered, form, submission, chosen, stored>>

\* showCafePanelError, which leaves a closed panel closed.
DetailFails(r) ==
    /\ request[r] # None
    /\ request' = [request EXCEPT ![r] = None]
    /\ IF Awaited(r)
       THEN openCafeDetail' = None /\ ResetForms
       ELSE UNCHANGED <<openCafeDetail, answered, form>>
    /\ UNCHANGED <<openCafeId, latest, submission, chosen, stored>>

\* The map starts to move: the request is aborted and the panel hidden.
MoveStarts ==
    /\ latest' = None
    /\ Hide
    /\ UNCHANGED <<request, submission, chosen, stored>>

\* The close button, or a refresh of the map that lost the cafe: no abort.
Close ==
    /\ openCafeId # None
    /\ Hide
    /\ UNCHANGED <<latest, request, submission, chosen, stored>>

\* Mutant: a summary always wins over the details
SummaryArrivesUnordered(o, level) ==
    /\ openCafeId # None
    /\ openCafeDetail # None
    /\ openCafeDetail' =
         [openCafeDetail EXCEPT
            !.level = level, !.bare = (o = Unobserved /\ level # Unobserved),
            !.observedAt = IF o = Unobserved THEN @ ELSE o]
    /\ UNCHANGED <<openCafeId, latest, request, answered, form, submission,
                   chosen, stored>>

\* Mutant: the level is refreshed although the older evidence is refused
SummaryArrivesLevelFirst(o, level) ==
    /\ openCafeId # None
    /\ openCafeDetail # None
    /\ openCafeDetail' =
         [openCafeDetail EXCEPT
            !.level = level, !.bare = (o = Unobserved /\ level # Unobserved),
            !.observedAt = IF o < @ THEN @ ELSE o]
    /\ UNCHANGED <<openCafeId, latest, request, answered, form, submission,
                   chosen, stored>>

\* A search result or a summary of the viewport, older, newer or without evidence,
\* reaches the panel of the open cafe.  Hotspot name, distance and observation
\* come together or not at all: without them the level is replaced and the old
\* citation stays.
SummaryArrives(o, level) ==
    /\ openCafeId # None
    /\ openCafeDetail # None
    /\ ~ (o # Unobserved /\ o < openCafeDetail.observedAt)
    /\ openCafeDetail' =
         [openCafeDetail EXCEPT
            !.level = level, !.bare = (o = Unobserved /\ level # Unobserved),
            !.observedAt = IF o = Unobserved THEN @ ELSE o]
    /\ UNCHANGED <<openCafeId, latest, request, answered, form, submission,
                   chosen, stored>>

-----------------------------------------------------------------------------
(* The forms. *)

\* The questions are on screen only beside a level (syncFeedbackVisibility).
Eligible == openCafeDetail # None /\ openCafeDetail.level # Unobserved

Answer ==
    /\ Eligible
    /\ form["feedback"] = "idle"
    /\ answered' = TRUE
    /\ UNCHANGED <<openCafeId, openCafeDetail, latest, request, form,
                   submission, chosen, stored>>

Submit(f, s) ==
    /\ submission[s] = None
    /\ openCafeDetail # None
    /\ form[f] = "idle"
    /\ f = "feedback" => answered /\ Eligible
    /\ form' = [form EXCEPT ![f] = "submitting"]
    /\ submission' = [submission EXCEPT ![s] = <<f, openCafeDetail.cafe>>]
    /\ UNCHANGED <<openCafeId, openCafeDetail, latest, request, answered,
                   chosen, stored>>

\* Mutant: the answer of a submission is shown on whatever panel is open
AnswersAnyPanel(s, outcome) ==
    LET f == submission[s][1]
    IN  form' = IF openCafeId # None
                THEN [form EXCEPT ![f] = outcome]
                ELSE form

\* Mutant: a refused submission leaves the form locked
AnswersOnlySuccess(s, outcome) ==
    LET f == submission[s][1]
    IN  form' = IF openCafeId = submission[s][2] /\ outcome = "submitted"
                THEN [form EXCEPT ![f] = outcome]
                ELSE form

\* An answer changes the panel only if it still shows the cafe.
Answers(s, outcome) ==
    LET f == submission[s][1]
    IN  form' = IF openCafeId = submission[s][2]
                THEN [form EXCEPT ![f] = outcome]
                ELSE form

SubmissionSucceeds(s) ==
    /\ submission[s] # None
    /\ Answers(s, "submitted")
    /\ stored' = stored \cup {submission[s]}
    /\ submission' = [submission EXCEPT ![s] = None]
    /\ UNCHANGED <<openCafeId, openCafeDetail, latest, request, answered,
                   chosen>>

\* Mutant: a refusal leaves a state the form does not know.
SubmissionFailsInLimbo(s) ==
    /\ submission[s] # None
    /\ Answers(s, "failed")
    /\ stored' \in {stored, stored \cup {submission[s]}}
    /\ submission' = [submission EXCEPT ![s] = None]
    /\ UNCHANGED <<openCafeId, openCafeDetail, latest, request, answered,
                   chosen>>

\* A refusal, or an answer that was lost after the row was written.
SubmissionFails(s) ==
    /\ submission[s] # None
    /\ Answers(s, "idle")
    /\ stored' \in {stored, stored \cup {submission[s]}}
    /\ submission' = [submission EXCEPT ![s] = None]
    /\ UNCHANGED <<openCafeId, openCafeDetail, latest, request, answered,
                   chosen>>

\* What a detail or a search result may say: nothing seen yet, or an observation
\* whose level is shown or masked.
Evidenced == {p \in Observation \X Observation : p[2] \in {Unobserved, p[1]}}

\* What the map may bring: a search result, or a summary of the viewport, which
\* has a level without the observation it was computed from.
Summaries == Evidenced \cup ({Unobserved} \X Observation)

Next ==
    \/ \E c \in Cafes, r \in Requests : Select(c, r)
    \/ \E r \in Requests, p \in Evidenced : DetailArrives(r, p[1], p[2])
    \/ \E r \in Requests : DetailFails(r)
    \/ MoveStarts
    \/ Close
    \/ \E p \in Summaries : SummaryArrives(p[1], p[2])
    \/ Answer
    \/ \E f \in Form, s \in Submissions : Submit(f, s)
    \/ \E s \in Submissions : SubmissionSucceeds(s) \/ SubmissionFails(s)

\* Every request of the browser is answered, refused or times out.
Fairness ==
    /\ \A r \in Requests :
         WF_vars(DetailFails(r) \/ \E p \in Evidenced : DetailArrives(r, p[1], p[2]))
    /\ \A s \in Submissions : WF_vars(SubmissionSucceeds(s) \/ SubmissionFails(s))

Spec == Init /\ [][Next]_vars
FairSpec == Spec /\ Fairness

-----------------------------------------------------------------------------
(* Properties. *)

\* The panel shows the cafe the user selected last or nothing, and the
\* details in it are that cafe's: no late answer of an earlier selection, of
\* a panel closed since or of a map moved since puts another cafe there.
PanelFollowsUser ==
    /\ openCafeId \in {None, chosen}
    /\ openCafeDetail # None => openCafeDetail.cafe = openCafeId

\* A panel opens in answer to the user only: what reopens a hidden panel or
\* turns it to another cafe is a selection, never an answer that came late.
OnlySelectionOpens ==
    [][openCafeId' \notin {openCafeId, None}
         => \E r \in Requests : Select(openCafeId', r)]_vars

\* Whatever mix of details, search results and summaries went into the panel, a
\* level that came with an observation stands beside that very observation.  A
\* level from a summary of the viewport stands beside the observation cited
\* before, which it need not have been computed from (panel.ts:438-454).
LevelMatchesEvidence ==
    openCafeDetail # None /\ ~openCafeDetail.bare =>
        openCafeDetail.level \in {Unobserved, openCafeDetail.observedAt}

\* While the details of a cafe stay on screen the observation they cite is
\* never replaced by an older one, nor forgotten for a summary that has none.
EvidenceNeverAges ==
    [][(openCafeDetail # None /\ openCafeDetail' # None)
         => openCafeDetail'.observedAt >= openCafeDetail.observedAt]_vars

\* The panel thanks the user for a submission only if the server has stored
\* one of that kind for that very cafe.
ThanksAreEarned ==
    \A f \in Form : form[f] = "submitted" => <<f, openCafeId>> \in stored

\* A locked form is waiting for something: a submission of its kind for the
\* cafe on screen is in flight, so its answer will unlock or thank.
LockedFormIsPending ==
    \A f \in Form : form[f] = "submitting"
        => \E s \in Submissions : submission[s] = <<f, openCafeId>>

\* What the forms of the panel say of the user's submissions is true.
FormsHonest == ThanksAreEarned /\ LockedFormIsPending

\* While the request last made is in flight there are no details yet, so its
\* answer replaces none.
LoadingHasNoDetails ==
    \A r \in Requests : (request[r] # None /\ Awaited(r)) => openCafeDetail = None

\* What is true of the panel at any time, together inductive: the cafe chosen,
\* its own evidence, and forms that say what became of a submission.
PanelInv ==
    /\ TypeOK
    /\ LoadingHasNoDetails
    /\ PanelFollowsUser
    /\ LevelMatchesEvidence
    /\ ThanksAreEarned
    /\ LockedFormIsPending

\* The lock of a form comes to an end.
LockEnds ==
    \A f \in Form : form[f] = "submitting" ~> form[f] # "submitting"
=============================================================================
