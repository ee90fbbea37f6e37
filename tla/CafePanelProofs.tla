-------------------------- MODULE CafePanelProofs --------------------------
(***************************************************************************)
(* The safety of the panel, for any number of cafes, of requests and       *)
(* submissions in flight and of observations.  The properties the runs     *)
(* check are inductive together: a form may be submitted only from details *)
(* that are the open cafe's, which is why its lock is waiting for that     *)
(* cafe.                                                                   *)
(***************************************************************************)
EXTENDS CafePanel, TLAPS

\* The initial state is typed and satisfies the invariant: nothing is open.
LEMMA InitInv == Init => PanelInv
BY PanelAssumption
   DEF Init, PanelInv, TypeOK, PanelFollowsUser, LevelMatchesEvidence,
       ThanksAreEarned, LockedFormIsPending, LoadingHasNoDetails, Form

\* Every step keeps the variables in their types.
LEMMA TypeStep == TypeOK /\ [Next]_vars => TypeOK'
<1> SUFFICES ASSUME TypeOK, [Next]_vars PROVE TypeOK'
    OBVIOUS
<1> USE PanelAssumption DEF TypeOK, Form
<1>1. ASSUME NEW c \in Cafes, NEW r \in Requests, Select(c, r) PROVE TypeOK'
    BY <1>1 DEF Select, ResetForms
<1>2. ASSUME NEW r \in Requests, NEW p \in Evidenced,
             DetailArrives(r, p[1], p[2])
      PROVE TypeOK'
    <2>1. p[1] \in Observation /\ p[2] \in Observation
        BY DEF Evidenced
    <2>2. request[r] \in Cafes
        BY <1>2 DEF DetailArrives
    <2>3. [cafe |-> request[r], observedAt |-> p[1], level |-> p[2], bare |-> FALSE]
              \in Detail
        BY <2>1, <2>2 DEF Detail
    <2>4. openCafeDetail' \in Detail \cup {None} /\ openCafeId' \in Cafes \cup {None}
        BY <1>2, <2>2, <2>3 DEF DetailArrives
    <2> QED
        BY <1>2, <2>4 DEF DetailArrives
<1>3. ASSUME NEW r \in Requests, DetailFails(r) PROVE TypeOK'
    <2>1. answered' \in BOOLEAN /\ form' \in [Form -> {"idle", "submitting", "submitted"}]
        <3>1. CASE answered' = answered /\ form' = form
            BY <3>1
        <3>2. CASE answered' = FALSE /\ form' = [f \in Form |-> "idle"]
            BY <3>2
        <3> QED
            BY <1>3, <3>1, <3>2 DEF DetailFails, ResetForms
    <2>2. openCafeDetail' \in Detail \cup {None}
        BY <1>3 DEF DetailFails
    <2> QED
        BY <1>3, <2>1, <2>2 DEF DetailFails
<1>4. ASSUME MoveStarts PROVE TypeOK'
    BY <1>4 DEF MoveStarts, Hide, ResetForms
<1>5. ASSUME Close PROVE TypeOK'
    BY <1>5 DEF Close, Hide, ResetForms
<1>6. ASSUME NEW p \in Summaries, SummaryArrives(p[1], p[2]) PROVE TypeOK'
    <2>1. p[1] \in Observation /\ p[2] \in Observation
        BY PanelAssumption DEF Summaries, Evidenced, Observation, Unobserved
    <2>2. openCafeDetail \in Detail
        BY <1>6 DEF SummaryArrives
    <2>3. openCafeDetail' \in Detail
        BY <1>6, <2>1, <2>2 DEF SummaryArrives, Detail
    <2> QED
        BY <1>6, <2>3 DEF SummaryArrives
<1>7. ASSUME Answer PROVE TypeOK'
    BY <1>7 DEF Answer
<1>8. ASSUME NEW f \in Form, NEW s \in Submissions, Submit(f, s) PROVE TypeOK'
    <2>1. openCafeDetail.cafe \in Cafes
        BY <1>8 DEF Submit, Detail
    <2> QED
        BY <1>8, <2>1 DEF Submit
<1>9. ASSUME NEW s \in Submissions, SubmissionSucceeds(s) PROVE TypeOK'
    <2>1. submission[s] \in Form \X Cafes
        BY <1>9 DEF SubmissionSucceeds
    <2> QED
        BY <1>9, <2>1 DEF SubmissionSucceeds, Answers
<1>10. ASSUME NEW s \in Submissions, SubmissionFails(s) PROVE TypeOK'
    <2>1. submission[s] \in Form \X Cafes
        BY <1>10 DEF SubmissionFails
    <2> QED
        BY <1>10, <2>1 DEF SubmissionFails, Answers
<1>11. ASSUME UNCHANGED vars PROVE TypeOK'
    BY <1>11 DEF vars
<1> QED
    BY <1>1, <1>2, <1>3, <1>4, <1>5, <1>6, <1>7, <1>8, <1>9, <1>10, <1>11 DEF Next

\* Every step keeps the panel on the cafe the user chose.
LEMMA FollowsStep ==
    TypeOK /\ PanelFollowsUser /\ [Next]_vars => PanelFollowsUser'
<1> SUFFICES ASSUME TypeOK, PanelFollowsUser, [Next]_vars
             PROVE PanelFollowsUser'
    OBVIOUS
<1> USE PanelAssumption DEF TypeOK, PanelFollowsUser
<1>1. ASSUME NEW r \in Requests, NEW p \in Evidenced,
             DetailArrives(r, p[1], p[2])
      PROVE PanelFollowsUser'
    BY <1>1 DEF DetailArrives, Awaited
<1>2. ASSUME NEW r \in Requests, DetailFails(r) PROVE PanelFollowsUser'
    BY <1>2 DEF DetailFails
<1>3. ASSUME NEW p \in Summaries, SummaryArrives(p[1], p[2])
      PROVE PanelFollowsUser'
    BY <1>3 DEF SummaryArrives, Detail
<1>4. CASE UNCHANGED <<openCafeId, openCafeDetail, chosen>>
    BY <1>4
<1> QED
    BY <1>1, <1>2, <1>3, <1>4
       DEF Next, vars, Select, MoveStarts, Close, Hide, Answer, Submit,
           SubmissionSucceeds, SubmissionFails

\* Every step keeps the level beside its own observation.
LEMMA EvidenceStep ==
    TypeOK /\ LevelMatchesEvidence /\ [Next]_vars => LevelMatchesEvidence'
<1> SUFFICES ASSUME TypeOK, LevelMatchesEvidence, [Next]_vars
             PROVE LevelMatchesEvidence'
    OBVIOUS
<1> USE DEF TypeOK, LevelMatchesEvidence
<1>1. ASSUME NEW r \in Requests, NEW p \in Evidenced,
             DetailArrives(r, p[1], p[2])
      PROVE LevelMatchesEvidence'
    BY <1>1 DEF DetailArrives, Evidenced
<1>2. ASSUME NEW p \in Summaries, SummaryArrives(p[1], p[2])
      PROVE LevelMatchesEvidence'
    BY <1>2 DEF SummaryArrives, Summaries, Evidenced, Detail
<1>3. CASE openCafeDetail' \in {openCafeDetail, None}
    BY <1>3
<1> QED
    BY <1>1, <1>2, <1>3
       DEF Next, vars, Select, DetailFails, MoveStarts, Close, Hide, Answer,
           Submit, SubmissionSucceeds, SubmissionFails

\* Every step leaves a request in flight without details to replace.
LEMMA LoadingStep ==
    TypeOK /\ LoadingHasNoDetails /\ [Next]_vars => LoadingHasNoDetails'
<1> SUFFICES ASSUME TypeOK, LoadingHasNoDetails, [Next]_vars
             PROVE LoadingHasNoDetails'
    OBVIOUS
<1> USE PanelAssumption DEF TypeOK, LoadingHasNoDetails, Awaited
<1>1. CASE openCafeDetail' = None
    BY <1>1
<1>2. CASE UNCHANGED <<openCafeId, openCafeDetail, latest, request>>
    BY <1>2
<1>3. ASSUME NEW r \in Requests, NEW p \in Evidenced,
             DetailArrives(r, p[1], p[2])
      PROVE LoadingHasNoDetails'
    BY <1>3 DEF DetailArrives
<1>4. ASSUME NEW r \in Requests, DetailFails(r) PROVE LoadingHasNoDetails'
    BY <1>4 DEF DetailFails
<1>5. ASSUME NEW p \in Summaries, SummaryArrives(p[1], p[2])
      PROVE LoadingHasNoDetails'
    BY <1>5 DEF SummaryArrives
<1> QED
    BY <1>1, <1>2, <1>3, <1>4, <1>5
       DEF Next, vars, Select, MoveStarts, Close, Hide, Answer, Submit,
           SubmissionSucceeds, SubmissionFails

\* Every step keeps the thanks true and the locks waiting.
LEMMA FormStep == PanelInv /\ [Next]_vars => (ThanksAreEarned /\ LockedFormIsPending)'
<1> SUFFICES ASSUME PanelInv, [Next]_vars
             PROVE ThanksAreEarned' /\ LockedFormIsPending'
    OBVIOUS
<1> USE PanelAssumption
        DEF PanelInv, TypeOK, ThanksAreEarned, LockedFormIsPending
<1>1. CASE \A f \in Form : form'[f] = "idle"
    BY <1>1
<1>2. CASE UNCHANGED <<openCafeId, form, submission, stored>>
    BY <1>2
<1>3. ASSUME NEW r \in Requests, NEW p \in Evidenced,
             DetailArrives(r, p[1], p[2])
      PROVE UNCHANGED <<openCafeId, form, submission, stored>>
    BY <1>3 DEF DetailArrives, Awaited
<1>4. ASSUME NEW r \in Requests, DetailFails(r)
      PROVE \/ \A f \in Form : form'[f] = "idle"
            \/ UNCHANGED <<openCafeId, form, submission, stored>>
    BY <1>4 DEF DetailFails, ResetForms
<1>5. ASSUME NEW f \in Form, NEW s \in Submissions, Submit(f, s)
      PROVE ThanksAreEarned' /\ LockedFormIsPending'
    <2>1. openCafeDetail.cafe = openCafeId /\ openCafeId \in Cafes
        BY <1>5 DEF Submit, PanelFollowsUser, Detail
    <2>2. submission' = [submission EXCEPT ![s] = <<f, openCafeId>>]
        BY <1>5, <2>1 DEF Submit
    <2>3. form' = [form EXCEPT ![f] = "submitting"] /\ submission[s] = None
          /\ UNCHANGED <<openCafeId, stored>>
        BY <1>5 DEF Submit
    <2>4. ThanksAreEarned'
        BY <2>3
    <2>5. ASSUME NEW g \in Form, form'[g] = "submitting"
          PROVE \E t \in Submissions : submission'[t] = <<g, openCafeId>>
        <3>1. CASE g = f
            BY <3>1, <2>2
        <3>2. CASE g # f
            <4>1. PICK t \in Submissions : submission[t] = <<g, openCafeId>>
                BY <3>2, <2>3, <2>5
            <4>2. submission[s] # <<g, openCafeId>>
                BY <2>1, <2>3 DEF Form
            <4> QED
                BY <4>1, <4>2, <2>2
        <3> QED
            BY <3>1, <3>2
    <2> QED
        BY <2>3, <2>4, <2>5
<1>6. ASSUME NEW s \in Submissions, submission[s] # None,
             NEW outcome \in {"idle", "submitted"}, Answers(s, outcome),
             submission' = [submission EXCEPT ![s] = None],
             openCafeId' = openCafeId, stored \subseteq stored',
             outcome = "submitted" => submission[s] \in stored'
      PROVE ThanksAreEarned' /\ LockedFormIsPending'
    <2> DEFINE k == submission[s][1]
    <2>0. submission[s] \in Form \X Cafes
        BY <1>6
    <2>1. k \in Form /\ submission[s] = <<k, submission[s][2]>>
        BY <2>0
    <2>2. ASSUME NEW g \in Form, form'[g] = "submitted"
          PROVE <<g, openCafeId>> \in stored'
        <3>1. CASE form'[g] = form[g]
            BY <3>1, <2>2, <1>6
        <3>2. CASE form'[g] # form[g]
            BY <3>2, <2>2, <2>1, <1>6 DEF Answers
        <3> QED
            BY <3>1, <3>2
    <2>3. ASSUME NEW g \in Form, form'[g] = "submitting"
          PROVE \E t \in Submissions : submission'[t] = <<g, openCafeId>>
        <3>1. form[g] = "submitting"
            BY <2>3, <2>1, <1>6 DEF Answers
        <3>2. ~ (openCafeId = submission[s][2] /\ k = g)
            BY <2>3, <2>1, <1>6 DEF Answers
        <3>3. PICK t \in Submissions : submission[t] = <<g, openCafeId>>
            BY <3>1
        <3>4. t # s
            BY <3>2, <3>3, <2>1
        <3> QED
            BY <3>3, <3>4, <1>6
    <2> QED
        BY <2>2, <2>3, <1>6
<1>7. ASSUME NEW s \in Submissions, SubmissionSucceeds(s)
      PROVE ThanksAreEarned' /\ LockedFormIsPending'
    <2>1. submission[s] # None /\ Answers(s, "submitted")
          /\ submission' = [submission EXCEPT ![s] = None]
          /\ openCafeId' = openCafeId /\ stored \subseteq stored'
          /\ submission[s] \in stored'
        BY <1>7 DEF SubmissionSucceeds
    <2> QED
        BY <2>1, <1>6
<1>8. ASSUME NEW s \in Submissions, SubmissionFails(s)
      PROVE ThanksAreEarned' /\ LockedFormIsPending'
    <2>1. submission[s] # None /\ Answers(s, "idle")
          /\ submission' = [submission EXCEPT ![s] = None]
          /\ openCafeId' = openCafeId /\ stored \subseteq stored'
        BY <1>8 DEF SubmissionFails
    <2> QED
        BY <2>1, <1>6
<1> QED
    BY <1>1, <1>2, <1>3, <1>4, <1>5, <1>7, <1>8
       DEF Next, vars, Select, ResetForms, MoveStarts, Close, Hide,
           SummaryArrives, Answer

\* Every reachable state of the panel satisfies the invariant.
THEOREM PanelInvariant == Spec => []PanelInv
<1>1. PanelInv /\ [Next]_vars => PanelInv'
    BY TypeStep, FollowsStep, EvidenceStep, LoadingStep, FormStep DEF PanelInv
<1> QED
    BY <1>1, InitInv, PTL DEF Spec

\* The variables keep their types.
THEOREM PanelIsTyped == Spec => []TypeOK
<1>1. PanelInv => TypeOK
    BY DEF PanelInv
<1> QED
    BY <1>1, PanelInvariant, PTL

\* The panel shows what the user selected last, with that cafe's details.
THEOREM PanelFollowsTheUser == Spec => []PanelFollowsUser
<1>1. PanelInv => PanelFollowsUser
    BY DEF PanelInv
<1> QED
    BY <1>1, PanelInvariant, PTL

\* A level that came with an observation, by a detail or a search result, is on
\* the panel only beside that observation; only a summary of the viewport puts a
\* level beside a citation it was not computed from.
THEOREM LevelsMatchEvidence == Spec => []LevelMatchesEvidence
<1>1. PanelInv => LevelMatchesEvidence
    BY DEF PanelInv
<1> QED
    BY <1>1, PanelInvariant, PTL

\* The panel thanks only for what the server stored, and its locks wait for
\* a submission in flight.
THEOREM FormsAreHonest == Spec => []FormsHonest
<1>1. PanelInv => FormsHonest
    BY DEF PanelInv, FormsHonest
<1> QED
    BY <1>1, PanelInvariant, PTL

\* Only a selection of the user opens the panel or turns it to another cafe.
THEOREM SelectionOpens == Spec => OnlySelectionOpens
<1>1. PanelInv /\ [Next]_vars =>
        [openCafeId' \notin {openCafeId, None}
           => \E r \in Requests : Select(openCafeId', r)]_vars
    <2> SUFFICES ASSUME PanelInv, Next, openCafeId' \notin {openCafeId, None}
                 PROVE \E r \in Requests : Select(openCafeId', r)
        BY DEF vars
    <2>1. ASSUME NEW c \in Cafes, NEW r \in Requests, Select(c, r)
          PROVE Select(openCafeId', r)
        BY <2>1 DEF Select
    <2>2. ASSUME NEW r \in Requests, NEW p \in Evidenced,
                 DetailArrives(r, p[1], p[2])
          PROVE FALSE
        BY <2>2 DEF DetailArrives, Awaited
    <2> QED
        BY <2>1, <2>2
           DEF Next, DetailFails, MoveStarts, Close, Hide, SummaryArrives,
               Answer, Submit, SubmissionSucceeds, SubmissionFails
<1> QED
    BY <1>1, PanelInvariant, PTL DEF Spec, OnlySelectionOpens

\* The observation cited on screen is never replaced by an older one, and no
\* summary of the viewport, which has none, makes the panel forget it.
THEOREM EvidenceAdvances == Spec => EvidenceNeverAges
<1>1. PanelInv /\ [Next]_vars =>
        [(openCafeDetail # None /\ openCafeDetail' # None)
           => openCafeDetail'.observedAt >= openCafeDetail.observedAt]_vars
    <2> SUFFICES ASSUME PanelInv, Next,
                        openCafeDetail # None, openCafeDetail' # None
                 PROVE openCafeDetail'.observedAt >= openCafeDetail.observedAt
        BY DEF vars
    <2>0. openCafeDetail \in Detail /\ openCafeDetail.observedAt \in Nat
        BY PanelAssumption DEF PanelInv, TypeOK, Detail, Observation
    <2>1. ASSUME NEW r \in Requests, NEW p \in Evidenced,
                 DetailArrives(r, p[1], p[2])
          PROVE openCafeDetail' = openCafeDetail
        BY <2>1 DEF DetailArrives, PanelInv, LoadingHasNoDetails
    <2>2. ASSUME NEW p \in Summaries, SummaryArrives(p[1], p[2])
          PROVE openCafeDetail'.observedAt >= openCafeDetail.observedAt
        <3>1. p[1] \in Nat
            BY PanelAssumption DEF Summaries, Evidenced, Observation, Unobserved
        <3> QED
            BY <2>0, <2>2, <3>1 DEF SummaryArrives, Detail
    <2>3. CASE openCafeDetail' \in {openCafeDetail, None}
        BY <2>0, <2>3
    <2> QED
        BY <2>1, <2>2, <2>3
           DEF Next, Select, DetailFails, MoveStarts, Close, Hide, Answer,
               Submit, SubmissionSucceeds, SubmissionFails
<1> QED
    BY <1>1, PanelInvariant, PTL DEF Spec, EvidenceNeverAges
=============================================================================
