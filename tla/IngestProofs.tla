---------------------------- MODULE IngestProofs ----------------------------
(***************************************************************************)
(* Ingest: one polling pass (PollOnce), for any number of targets,         *)
(* retries, circuit and pool size, then the cycle around it                *)
(* (IngestWorker), for any number of workers, hotspots, cycles and faults. *)
(***************************************************************************)
EXTENDS PollOnce, IngestWorker, FiniteSetTheorems, WellFoundedInduction, TLAPS

-----------------------------------------------------------------------------
(* The polling pass. *)

\* The smaller of two integers is one of them and at most both.
LEMMA SmallerIsLeast ==
    ASSUME NEW a \in Int, NEW b \in Int
    PROVE  /\ Smaller(a, b) \in {a, b}
           /\ Smaller(a, b) <= a
           /\ Smaller(a, b) <= b
  BY DEF Smaller

\* The saved targets of the processed prefix form a finite set.
LEMMA SavedPrefixFinite ==
    ASSUME PollTypeOK
    PROVE  IsFiniteSet(SavedPrefix) /\ Cardinality(SavedPrefix) \in Nat
  <1>1. IsFiniteSet(1..processed)
    BY PollAssumption, FS_Interval DEF PollTypeOK
  <1>2. SavedPrefix \subseteq 1..processed
    BY DEF SavedPrefix
  <1> QED
    BY <1>1, <1>2, FS_Subset, FS_CardinalityType

\* While the pass runs a batch is never empty and never over the budget.
LEMMA BatchFits ==
    ASSUME PollInv, caller = "running"
    PROVE  /\ BatchSize \in Nat \ {0}
           /\ BatchSize <= MaxConsecutiveFailures - consecutive
  BY PollAssumption, SmallerIsLeast
     DEF BatchSize, PollInv, PollTypeOK, Accounting

LEMMA InitEstablishesPollInv == PollInit => PollInv
  <1> SUFFICES ASSUME PollInit PROVE PollInv
    OBVIOUS
  <1>1. SavedPrefix = {}
    BY DEF PollInit, SavedPrefix
  <1>2. Cardinality(SavedPrefix) = 0
    BY <1>1, FS_EmptySet
  <1> QED
    BY <1>2, PollAssumption
       DEF PollInit, PollInv, PollTypeOK, InOrder, TrailingRun, CircuitBudget, Accounting,
           Targets

LEMMA SubmitBatchKeepsPollInv == PollInv /\ SubmitBatch => PollInv'
  <1> SUFFICES ASSUME PollInv, SubmitBatch PROVE PollInv'
    OBVIOUS
  <1> USE PollAssumption
  <1>1. /\ submitted' \in Nat
        /\ submitted < submitted'
        /\ submitted' <= TargetCount
        /\ submitted' - processed + consecutive <= MaxConsecutiveFailures
    BY BatchFits, SmallerIsLeast DEF SubmitBatch, PollInv, PollTypeOK
  <1>2. PollTypeOK'
    BY <1>1 DEF SubmitBatch, PollInv, PollTypeOK, Targets
  <1>3. InOrder'
    BY <1>1 DEF SubmitBatch, PollInv, PollTypeOK, InOrder, Targets
  <1>4. TrailingRun' /\ CircuitBudget'
    BY <1>1 DEF SubmitBatch, PollInv, TrailingRun, CircuitBudget
  <1>5. Accounting'
    BY DEF SubmitBatch, PollInv, Accounting, SavedPrefix
  <1> QED
    BY <1>2, <1>3, <1>4, <1>5 DEF PollInv

\* A thread's step disturbs neither the order nor the counters.
LEMMA FetchKeepsPollInv ==
    ASSUME NEW t \in Targets, PollInv, Fetch(t)
    PROVE  PollInv'
  <1> USE PollAssumption
  <1>0. /\ fetch[t] = "fetching" /\ t > processed
        /\ attempts[t] \in Nat /\ attempts[t] <= MaxRetries
        /\ attempts' = [attempts EXCEPT ![t] = attempts[t] + 1]
        /\ \E f \in {"fetching", "payload", "none"} :
              /\ fetch' = [fetch EXCEPT ![t] = f]
              /\ f = "fetching" => attempts[t] # MaxRetries
        /\ UNCHANGED <<caller, submitted, processed, outcome, saved, failed, consecutive>>
    BY DEF Fetch, FetchSucceeds, FetchApiError, FetchCrashes, PollInv, PollTypeOK, InOrder
  <1>1. PollTypeOK'
    BY <1>0 DEF PollInv, PollTypeOK
  <1>2. InOrder'
    BY <1>0 DEF PollInv, PollTypeOK, InOrder
  <1>3. TrailingRun' /\ CircuitBudget' /\ Accounting'
    BY DEF Fetch, FetchSucceeds, FetchApiError, FetchCrashes, PollInv,
           TrailingRun, CircuitBudget, Accounting, SavedPrefix
  <1> QED
    BY <1>1, <1>2, <1>3 DEF PollInv

\* A counted failure adds nothing to the saved prefix; the one that opens the
\* circuit is the last result the pass was waiting for.
LEMMA FailTargetKeepsPollInv ==
    ASSUME NEW t \in Targets, NEW result \in {"none", "payload"},
           NEW how \in Failures,
           PollInv, ResultReady(t, result), FailTarget(t, how)
    PROVE  PollInv'
  <1> USE PollAssumption
  <1>1. /\ t = processed + 1 /\ t <= submitted /\ caller = "running"
        /\ consecutive < MaxConsecutiveFailures /\ failed = processed - saved
        /\ saved <= processed
    BY DEF PollInv, Accounting, ResultReady
  <1>2. consecutive + 1 = MaxConsecutiveFailures => submitted = t
    BY <1>1 DEF PollInv, PollTypeOK, CircuitBudget
  <1>3. SavedPrefix' = SavedPrefix
    BY <1>1 DEF FailTarget, SavedPrefix, PollInv, PollTypeOK, Failures, Targets
  <1>4. PollTypeOK'
    BY <1>1, <1>2 DEF FailTarget, RecordTargetFailure, PollInv, PollTypeOK, Failures,
                      Targets, InFlight
  <1>5. InOrder'
    <2>1. \A u \in Targets : fetch'[u] = fetch[u]
                              \/ (fetch[u] = "fetching" /\ fetch'[u] = "cancelled")
      <3>1. CASE UNCHANGED fetch
        BY <3>1
      <3>2. ASSUME NEW dropped \in SUBSET InFlight,
                   fetch' = [u \in Targets |->
                                IF u \in dropped THEN "cancelled" ELSE fetch[u]]
            PROVE  \A u \in Targets : fetch'[u] = fetch[u]
                              \/ (fetch[u] = "fetching" /\ fetch'[u] = "cancelled")
        BY <3>2 DEF InFlight
      <3> QED
        BY <3>1, <3>2 DEF FailTarget, RecordTargetFailure
    <2>2. \A u \in Targets : outcome'[u] = IF u = t THEN how ELSE outcome[u]
      BY DEF FailTarget, PollInv, PollTypeOK
    <2>3. fetch[t] # "fetching" /\ how # "pending"
      BY DEF ResultReady, Failures
    <2> SUFFICES ASSUME NEW u \in Targets
                 PROVE  /\ fetch'[u] = "unsubmitted" <=> u > submitted
                        /\ outcome'[u] = "pending" <=> u > t
                        /\ fetch'[u] = "fetching" => u > t
                        /\ fetch'[u] \in {"unsubmitted", "fetching"} =>
                              attempts[u] <= MaxRetries
      BY DEF FailTarget, InOrder
    <2> QED
      BY <1>1, <2>1, <2>2, <2>3 DEF PollInv, PollTypeOK, InOrder, Targets
  <1>6. TrailingRun'
    BY <1>1 DEF FailTarget, RecordTargetFailure, PollInv, PollTypeOK, TrailingRun,
                Failures, Targets
  <1>7. CircuitBudget'
    BY <1>1 DEF FailTarget, RecordTargetFailure, PollInv, PollTypeOK, CircuitBudget
  <1>8. Accounting'
    BY <1>1, <1>2, <1>3
       DEF FailTarget, RecordTargetFailure, PollInv, PollTypeOK, Accounting
  <1> QED
    BY <1>4, <1>5, <1>6, <1>7, <1>8 DEF PollInv

LEMMA ProcessSavedKeepsPollInv ==
    ASSUME NEW t \in Targets, PollInv, ProcessSaved(t)
    PROVE  PollInv'
  <1> USE PollAssumption
  <1>1. /\ t = processed + 1 /\ t <= submitted /\ caller = "running"
        /\ failed = processed - saved /\ saved <= processed
    BY DEF PollInv, Accounting, ProcessSaved, ResultReady
  <1>2. SavedPrefix' = SavedPrefix \cup {t} /\ t \notin SavedPrefix
    BY <1>1 DEF ProcessSaved, SavedPrefix, PollInv, PollTypeOK, Targets
  <1>3. Cardinality(SavedPrefix') = Cardinality(SavedPrefix) + 1
    BY <1>2, SavedPrefixFinite, FS_AddElement DEF PollInv
  <1>4. PollTypeOK'
    BY <1>1 DEF ProcessSaved, PollInv, PollTypeOK, Targets
  <1>5. InOrder'
    BY <1>1 DEF ProcessSaved, ResultReady, PollInv, PollTypeOK, InOrder, Targets
  <1>6. TrailingRun' /\ CircuitBudget'
    BY <1>1 DEF ProcessSaved, PollInv, PollTypeOK, TrailingRun, CircuitBudget, Targets
  <1>7. Accounting'
    BY <1>1, <1>3 DEF ProcessSaved, PollInv, PollTypeOK, Accounting
  <1> QED
    BY <1>4, <1>5, <1>6, <1>7 DEF PollInv

\* The steps that leave the pass change only where the caller's thread is, and
\* the interrupt of a lone target the state of its request.
LEMMA LeavingKeepsPollInv ==
    PollInv /\ (FinishLoop \/ ReturnReport \/ Interrupt \/ Unwind) => PollInv'
  <1> USE PollAssumption
  <1>1. ASSUME PollInv, FinishLoop \/ ReturnReport \/ Unwind PROVE PollInv'
    BY <1>1 DEF FinishLoop, ReturnReport, Unwind, PollInv, PollTypeOK, InOrder,
                TrailingRun, CircuitBudget, Accounting, SavedPrefix
  <1>2. ASSUME PollInv, Interrupt PROVE PollInv'
    <2>1. PollTypeOK' /\ InOrder'
      BY <1>2 DEF Interrupt, PollInv, PollTypeOK, InOrder, InFlight, Targets
    <2>2. TrailingRun' /\ CircuitBudget' /\ Accounting'
      BY <1>2 DEF Interrupt, PollInv, TrailingRun, CircuitBudget, Accounting,
                  SavedPrefix
    <2> QED
      BY <2>1, <2>2 DEF PollInv
  <1> QED
    BY <1>1, <1>2

LEMMA NextKeepsPollInv == PollInv /\ [PollNext]_pollVars => PollInv'
  <1> SUFFICES ASSUME PollInv, [PollNext]_pollVars PROVE PollInv'
    OBVIOUS
  <1>1. CASE SubmitBatch
    BY <1>1, SubmitBatchKeepsPollInv
  <1>2. ASSUME NEW t \in Targets, Process(t) PROVE PollInv'
    <2>1. CASE ProcessMissing(t)
      BY <2>1, FailTargetKeepsPollInv DEF ProcessMissing, Failures
    <2>2. CASE ProcessLocalError(t)
      BY <2>2, FailTargetKeepsPollInv DEF ProcessLocalError, Failures
    <2>3. CASE ProcessInvalid(t)
      BY <2>3, FailTargetKeepsPollInv DEF ProcessInvalid, Failures
    <2>4. CASE ProcessSaved(t)
      BY <2>4, ProcessSavedKeepsPollInv
    <2> QED
      BY <1>2, <2>1, <2>2, <2>3, <2>4 DEF Process
  <1>3. ASSUME NEW t \in Targets, Fetch(t) PROVE PollInv'
    BY <1>3, FetchKeepsPollInv
  <1>4. CASE FinishLoop \/ ReturnReport \/ Interrupt \/ Unwind
    BY <1>4, LeavingKeepsPollInv
  <1>5. CASE Over \/ UNCHANGED pollVars
    BY <1>5 DEF Over, pollVars, PollInv, PollTypeOK, InOrder, TrailingRun, CircuitBudget,
                Accounting, SavedPrefix
  <1> QED
    BY <1>1, <1>2, <1>3, <1>4, <1>5 DEF PollNext, Caller

\* The inductive invariant of the pass holds in every reachable state.
THEOREM PollInvariant == PollSpec => []PollInv
  BY InitEstablishesPollInv, NextKeepsPollInv, PTL DEF PollSpec

\* Every variable keeps its type and no fetch exceeds its retries.
THEOREM PollTypes == PollSpec => []PollTypeOK
  <1>1. PollInv => PollTypeOK
    BY DEF PollInv
  <1> QED
    BY <1>1, PollInvariant, PTL

\* An outage never costs more called targets than the circuit's bound.
THEOREM CallsStayInBudget == PollSpec => []CircuitBudget
  <1>1. PollInv => CircuitBudget
    BY DEF PollInv
  <1> QED
    BY <1>1, PollInvariant, PTL

\* No answer that was fetched is dropped when the circuit opens.
THEOREM NothingFetchedIsDropped == PollSpec => []NoDiscardedFetch
  <1>1. PollInv => NoDiscardedFetch
    BY PollAssumption DEF PollInv, PollTypeOK, InOrder, Accounting, NoDiscardedFetch, Targets
  <1> QED
    BY <1>1, PollInvariant, PTL

-----------------------------------------------------------------------------
(* The pass implements the sequential circuit breaker. *)

LEMMA PassLogIsSequence ==
    ASSUME PollTypeOK
    PROVE  /\ PassLog \in Seq({"saved", "failed"})
           /\ Len(PassLog) = processed
           /\ DOMAIN PassLog = 1..processed
           /\ \A i \in 1..processed :
                 PassLog[i] = IF outcome[i] = "saved" THEN "saved" ELSE "failed"
  BY PollAssumption DEF PassLog, PollTypeOK

\* The counter and the log agree on whether the circuit is open.
LEMMA TrippedIffCounterFull ==
    ASSUME PollInv
    PROVE  Breaker!Tripped(PassLog) <=> consecutive = MaxConsecutiveFailures
  <1> USE PollAssumption, PassLogIsSequence
  <1>1. ASSUME consecutive = MaxConsecutiveFailures
        PROVE  Breaker!Tripped(PassLog)
    BY <1>1 DEF PollInv, PollTypeOK, TrailingRun, Failures, Breaker!Tripped
  <1>2. ASSUME consecutive # MaxConsecutiveFailures, Breaker!Tripped(PassLog)
        PROVE  FALSE
    <2>1. /\ consecutive < MaxConsecutiveFailures
          /\ MaxConsecutiveFailures <= processed
      BY <1>2 DEF PollInv, PollTypeOK, Breaker!Tripped
    <2>2. /\ processed - consecutive \in
                (processed - MaxConsecutiveFailures + 1)..processed
          /\ processed - consecutive \in 1..processed
      BY <2>1 DEF PollInv, PollTypeOK
    <2>3. PassLog[processed - consecutive] = "saved"
      BY <2>1, <2>2 DEF PollInv, PollTypeOK, TrailingRun
    <2> QED
      BY <1>2, <2>2, <2>3 DEF PollInv, Breaker!Tripped
  <1> QED
    BY <1>1, <1>2

\* The report's saved count is the number of saved outcomes in the log.
LEMMA GoodIsSavedPrefix ==
    ASSUME PollTypeOK
    PROVE  Breaker!Good(PassLog) = SavedPrefix
  BY PassLogIsSequence DEF Breaker!Good, SavedPrefix

LEMMA InitIsBreakerInit == PollInit => Breaker!Init
  BY PollAssumption DEF PollInit, Breaker!Init, Breaker!NoReport, PassLog, PassReport

\* One processed result is one observation of the breaker.
LEMMA ProcessIsObserve ==
    ASSUME NEW t \in Targets, PollInv, PollInv', Process(t)
    PROVE  Breaker!Observe
  <1> DEFINE o == IF outcome'[t] = "saved" THEN "saved" ELSE "failed"
  <1> USE PollAssumption
  <1>1. /\ t = processed + 1 /\ t <= submitted /\ caller = "running" /\ processed' = t
        /\ caller' \in {"running", "closing"}
        /\ consecutive < MaxConsecutiveFailures
        /\ \A i \in 1..processed : outcome'[i] = outcome[i]
    <2>1. /\ t = processed + 1 /\ t <= submitted /\ caller = "running"
          /\ consecutive < MaxConsecutiveFailures
      BY DEF Process, ProcessMissing, ProcessLocalError, ProcessInvalid,
             ProcessSaved, ResultReady, PollInv, Accounting
    <2>2. /\ processed' = t
          /\ \E how : outcome' = [outcome EXCEPT ![t] = how]
      BY DEF Process, ProcessMissing, ProcessLocalError, ProcessInvalid,
             ProcessSaved, FailTarget
    <2>3. caller' \in {"running", "closing"}
      BY <2>1 DEF Process, ProcessMissing, ProcessLocalError, ProcessInvalid,
             ProcessSaved, FailTarget, RecordTargetFailure
    <2>4. \A i \in 1..processed : outcome'[i] = outcome[i]
      BY <2>1, <2>2 DEF PollInv, PollTypeOK, Targets
    <2> QED
      BY <2>1, <2>2, <2>3, <2>4
  <1>2. PassReport = Breaker!NoReport /\ PassReport' = PassReport
    BY <1>1 DEF PassReport, Breaker!NoReport
  <1>3. Len(PassLog) < TargetCount
    BY <1>1, PassLogIsSequence DEF PollInv, PollTypeOK
  <1>4. ~Breaker!Tripped(PassLog)
    BY <1>1, TrippedIffCounterFull DEF PollInv, PollTypeOK
  <1>5. PassLog' = Append(PassLog, o)
    <2>1. PassLog' = [i \in 1..(processed + 1) |->
                        IF outcome'[i] = "saved" THEN "saved" ELSE "failed"]
      BY <1>1 DEF PassLog
    <2>2. Append(PassLog, o) = [i \in 1..(processed + 1) |->
                        IF i = processed + 1 THEN o ELSE PassLog[i]]
      BY PassLogIsSequence DEF PollInv, PollTypeOK
    <2>3. \A i \in 1..(processed + 1) :
             (IF outcome'[i] = "saved" THEN "saved" ELSE "failed")
             = (IF i = processed + 1 THEN o ELSE PassLog[i])
      BY <1>1, PassLogIsSequence DEF PollInv, PollTypeOK
    <2> QED
      BY <2>1, <2>2, <2>3
  <1>6. o \in {"saved", "failed"}
    OBVIOUS
  <1> QED
    BY <1>2, <1>3, <1>4, <1>5, <1>6 DEF Breaker!Observe

LEMMA ReturnIsAnswer ==
    ASSUME PollInv, ReturnReport
    PROVE  Breaker!Answer
  <1>1. PassReport = Breaker!NoReport
    BY DEF ReturnReport, PassReport, Breaker!NoReport
  <1>2. Breaker!Tripped(PassLog) \/ Len(PassLog) = TargetCount
    BY TrippedIffCounterFull, PassLogIsSequence DEF ReturnReport, PollInv, Accounting
  <1>3. /\ saved = Cardinality(Breaker!Good(PassLog))
        /\ failed = TargetCount - saved
    BY GoodIsSavedPrefix DEF ReturnReport, PollInv, Accounting
  <1>4. Breaker!Cardinality(Breaker!Good(PassLog)) = Cardinality(Breaker!Good(PassLog))
    BY DEF Breaker!Cardinality, Cardinality
  <1>5. PassReport' = [state  |-> "answered",
                       saved  |-> Cardinality(Breaker!Good(PassLog)),
                       failed |-> TargetCount - Cardinality(Breaker!Good(PassLog))]
    BY <1>3 DEF ReturnReport, PassReport
  <1>6. PassLog' = PassLog
    BY DEF ReturnReport, PassLog
  <1> QED
    BY <1>1, <1>2, <1>3, <1>4, <1>5, <1>6 DEF Breaker!Answer

LEMMA NextIsBreakerStep ==
    PollInv /\ PollInv' /\ [PollNext]_pollVars => [Breaker!Next]_(Breaker!vars)
  <1> SUFFICES ASSUME PollInv, PollInv', [PollNext]_pollVars
               PROVE  Breaker!Next \/ UNCHANGED <<PassLog, PassReport>>
    BY DEF Breaker!vars
  <1>1. CASE SubmitBatch
    BY <1>1 DEF SubmitBatch, PassLog, PassReport
  <1>2. ASSUME NEW t \in Targets, Process(t)
        PROVE  Breaker!Next
    BY <1>2, ProcessIsObserve DEF Breaker!Next
  <1>3. ASSUME NEW t \in Targets, Fetch(t)
        PROVE  UNCHANGED <<PassLog, PassReport>>
    BY <1>3 DEF Fetch, FetchSucceeds, FetchApiError, FetchCrashes, PassLog, PassReport
  <1>4. CASE FinishLoop \/ Unwind
    BY <1>4 DEF FinishLoop, Unwind, PassLog, PassReport
  <1>5. CASE ReturnReport
    BY <1>5, ReturnIsAnswer DEF Breaker!Next
  <1>6. CASE Interrupt
    BY <1>6 DEF Interrupt, PassLog, PassReport, Breaker!Next, Breaker!Abort,
                Breaker!NoReport, Breaker!Aborted
  <1>7. CASE Over \/ UNCHANGED pollVars
    BY <1>7 DEF Over, pollVars, PassLog, PassReport
  <1> QED
    BY <1>1, <1>2, <1>3, <1>4, <1>5, <1>6, <1>7 DEF PollNext, Caller

\*\* With any pool, any interleaving of its threads and any retries, poll_once is
\* the sequential circuit breaker.
THEOREM PollImplementsBreaker == PollSpec => IsCircuitBreaker
  <1>1. PollSpec => Breaker!Init /\ [][Breaker!Next]_(Breaker!vars)
    BY PollInvariant, InitIsBreakerInit, NextIsBreakerStep, PTL DEF PollSpec
  <1> QED
    BY <1>1, PTL DEF IsCircuitBreaker, Breaker!Spec

-----------------------------------------------------------------------------
(* The cycle. *)

\* A nonempty set of bounded naturals has a greatest element: the one with the
\* fewest elements above it.
LEMMA BoundedSetHasMax ==
    ASSUME NEW B \in Nat, NEW S, S \subseteq 0..B, S # {}
    PROVE  \E t \in S : \A u \in S : u <= t
  <1> DEFINE Above(t) == {u \in S : u > t}
             Tails == {Above(t) : t \in S}
             R == StrictSubsetOrdering(S)
  <1>1. IsFiniteSet(S) /\ S \subseteq Int
    <2>1. IsFiniteSet(0..B)
      BY FS_Interval
    <2>2. S \in SUBSET (0..B)
      OBVIOUS
    <2>3. IsFiniteSet(S)
      BY <2>1, <2>2, FS_Subset
    <2> QED
      BY <2>3
  <1>2. Tails \subseteq FiniteSubsetsOf(S) /\ Tails # {}
    <2>1. ASSUME NEW t \in S
          PROVE  Above(t) \subseteq S /\ IsFiniteSet(Above(t))
      <3>1. Above(t) \in SUBSET S
        OBVIOUS
      <3> HIDE DEF Above
      <3> QED
        BY <1>1, <3>1, FS_Subset
    <2> HIDE DEF Above
    <2> QED
      BY <2>1 DEF FiniteSubsetsOf
  <1>3. PICK d \in Tails : \A e \in Tails : ~(<<e, d>> \in R)
    <2>1. IsWellFoundedOn(R, FiniteSubsetsOf(S))
      BY FS_StrictSubsetOrderingWellFounded
    <2> HIDE DEF Tails, R
    <2> QED
      BY <1>2, <2>1, WFMin
  <1>4. PICK t \in S : d = Above(t)
    OBVIOUS
  <1>5. ASSUME NEW u \in S, u > t
        PROVE FALSE
    <2>1. u \in Int /\ t \in Int /\ \A v \in S : v \in Int
      BY <1>1
    <2>2. Above(u) \subseteq Above(t) /\ u \in Above(t) /\ u \notin Above(u)
      <3> HIDE DEF Tails, R
      <3>1. \A v \in S : v > u => v > t
        BY <2>1, <1>5
      <3>2. ~(u > u)
        BY <2>1
      <3>3. Above(u) \subseteq Above(t)
        BY <3>1
      <3> QED
        BY <3>2, <3>3, <1>5
    <2>3. <<Above(u), Above(t)>> \in R
      BY <2>2 DEF StrictSubsetOrdering
    <2> QED
      BY <1>3, <1>4, <2>3
  <1> QED
    BY <1>5, <1>1

\* The newest stored snapshot of a hotspot that has one.
LEMMA NewestRow ==
    ASSUME rows \subseteq Hotspots \X Times, NEW r \in rows
    PROVE  \E m \in rows : m[1] = r[1] /\ m[2] \in Times
                           /\ \A q \in rows : q[1] = r[1] => q[2] <= m[2]
  <1>1. TimesOf(r[1]) \subseteq 0..MaxTime /\ TimesOf(r[1]) # {}
    BY WorkerAssumption DEF TimesOf, Times
  <1>2. PICK t \in TimesOf(r[1]) : \A u \in TimesOf(r[1]) : u <= t
    BY <1>1, BoundedSetHasMax, WorkerAssumption
  <1>3. PICK m \in rows : m[1] = r[1] /\ m[2] = t
    BY <1>2 DEF TimesOf
  <1>4. \A q \in rows : q[1] = r[1] => q[2] <= m[2]
    BY <1>2, <1>3 DEF TimesOf
  <1> QED
    BY <1>3, <1>4

LEMMA LatestIsObserved ==
    ASSUME rows \subseteq Hotspots \X Times
    PROVE  Latest \in Observed
  <1>1. ASSUME NEW h \in Hotspots
        PROVE  NewestOf(TimesOf(h)) \in 0..MaxTime
    <2>1. CASE TimesOf(h) = {}
      BY <2>1, WorkerAssumption DEF NewestOf, NoAnswer
    <2>2. CASE TimesOf(h) # {}
      <3>1. TimesOf(h) \subseteq 0..MaxTime
        BY WorkerAssumption DEF TimesOf, Times
      <3>2. \E t \in TimesOf(h) : \A u \in TimesOf(h) : u <= t
        BY <2>2, <3>1, BoundedSetHasMax, WorkerAssumption
      <3>3. NewestOf(TimesOf(h)) \in TimesOf(h)
        BY <2>2, <3>2 DEF NewestOf
      <3> QED
        BY <3>1, <3>3
    <2> QED
      BY <2>1, <2>2
  <1> QED
    BY <1>1 DEF Latest, Observed

LEMMA NumTargetsType == NumTargets \in Nat /\ Nothing \in Observed
  BY WorkerAssumption, FS_CardinalityType DEF NumTargets, Nothing, NoAnswer, Observed

\* The answered and the unanswered targets add up.
LEMMA AnsweredCounts ==
    ASSUME NEW w \in Workers
    PROVE  /\ IsFiniteSet(Answered(w))
           /\ Cardinality(Answered(w)) \in Nat
           /\ Unanswered(w) \in Nat
           /\ Cardinality(Answered(w)) + Unanswered(w) = NumTargets
           /\ Unanswered(w) = 0 => Answered(w) = Hotspots
  <1>1. IsFiniteSet(Hotspots) /\ Answered(w) \in SUBSET Hotspots
    BY WorkerAssumption DEF Answered
  <1>2. IsFiniteSet(Answered(w)) /\ IsFiniteSet(Hotspots \ Answered(w))
    BY <1>1, FS_Subset, FS_Difference
  <1>3. Cardinality(Hotspots \ Answered(w))
          = Cardinality(Hotspots) - Cardinality(Answered(w))
    <2>1. Hotspots \cap Answered(w) = Answered(w)
      BY <1>1
    <2> QED
      BY <1>1, <2>1, FS_Difference
  <1>4. /\ Cardinality(Answered(w)) \in Nat
        /\ Cardinality(Hotspots \ Answered(w)) \in Nat
        /\ Cardinality(Hotspots) \in Nat
    BY <1>1, <1>2, FS_CardinalityType
  <1>5. Cardinality(Hotspots \ Answered(w)) = 0 => Answered(w) = Hotspots
    BY <1>1, <1>2, FS_EmptySet
  <1> QED
    BY <1>2, <1>3, <1>4, <1>5 DEF Unanswered, NumTargets

LEMMA InitEstablishesWorkInv == Init => WorkInv
  <1> SUFFICES ASSUME Init PROVE WorkInv
    OBVIOUS
  <1>1. TypeOK
    BY WorkerAssumption, NumTargetsType
       DEF Init, TypeOK, Times, Places, Tally, Counts, Observed, Nothing, NoAnswer
  <1>2. OwnsCycle /\ OwnersDiffer /\ VictimsReplaced /\ ReportBacked
    BY DEF Init, OwnsCycle, OwnersDiffer, VictimsReplaced, ReportBacked
  <1>3. ReportBounded /\ FallbackAccounts /\ StatusJustified
    BY NumTargetsType
       DEF Init, ReportBounded, FallbackAccounts, StatusJustified, Counts
  <1> QED
    BY <1>1, <1>2, <1>3 DEF WorkInv

-----------------------------------------------------------------------------
(* Types. *)

\* An exit leaves well-typed locals.
LEMMA ExitTyped ==
    ASSUME TypeOK, NEW w \in Workers, Exit(w)
    PROVE  /\ pc' \in [Workers -> Places] /\ cyc' \in [Workers -> Nat]
           /\ got' \in [Workers -> Observed] /\ report' \in [Workers -> Tally]
           /\ tally' \in [Workers -> Tally]
           /\ todo' \in [Workers -> SUBSET Hotspots]
           /\ view' \in [Workers -> Observed]
           /\ victims' \in [Workers -> SUBSET (Hotspots \X Times)]
           /\ status' \in [Workers -> {"running", "complete", "partial", "failed"}]
  <1>1. Counts(0, 0, 0) \in Tally
    BY DEF Counts, Tally
  <1> QED
    BY <1>1, NumTargetsType DEF Exit, TypeOK, Places

\* A close leaves a well-typed ledger.
LEMMA ClosedTyped ==
    ASSUME WorkInv, NEW w \in Workers, pc[w] # "idle",
           NEW st \in {"running", "complete", "partial", "failed"}
    PROVE  Closed(w, st) \in Seq(Cycle)
  <1>1. cycles \in Seq(Cycle) /\ cyc[w] \in DOMAIN cycles
    BY DEF WorkInv, TypeOK, OwnsCycle
  <1>2. cycles[cyc[w]] \in Cycle /\ report[w] \in Tally
    BY <1>1 DEF WorkInv, TypeOK
  <1>3. [cycles[cyc[w]] EXCEPT !.saved = report[w].saved,
                               !.failed = report[w].failed,
                               !.status = st] \in Cycle
    BY <1>2 DEF Cycle, Tally
  <1> HIDE DEF Cycle
  <1> QED
    BY <1>1, <1>3 DEF Closed

\* The rows a worker can add are well-typed.
LEMMA FetchedTyped ==
    ASSUME TypeOK, NEW w \in Workers
    PROVE  /\ Fetched(w) \subseteq Hotspots \X Times
           /\ \A h \in Answered(w) : <<h, got[w][h]>> \in Hotspots \X Times
  <1>1. \A h \in Answered(w) : h \in Hotspots /\ got[w][h] \in Times
    BY WorkerAssumption DEF TypeOK, Observed, Answered, Times, NoAnswer
  <1> QED
    BY <1>1 DEF Fetched

LEMMA StepTyped ==
    ASSUME WorkInv, NEW w \in Workers, Step(w)
    PROVE  TypeOK'
  <1> USE DEF Goto, db
  <1>0. TypeOK
    BY DEF WorkInv
  <1>1. CASE EnterTry(w)
    BY <1>0, <1>1 DEF EnterTry, TypeOK, Places, TryBlock
  <1>2. CASE PollReturns(w)
    <2>1. PICK answer \in Answers :
             /\ got' = [got EXCEPT ![w] = answer]
             /\ report' = [report EXCEPT ![w] =
                   Counts(Cardinality({h \in Hotspots : answer[h] # NoAnswer}),
                          NumTargets - Cardinality({h \in Hotspots : answer[h] # NoAnswer}),
                          0)]
      BY <1>2 DEF PollReturns
    <2>2. answer \in Observed
      <3>1. {now, now - 1, NoAnswer} \subseteq 0..MaxTime
        BY <1>0, WorkerAssumption DEF TypeOK, Times, NoAnswer
      <3> QED
        BY <2>1, <3>1 DEF Answers, Observed
    <2>3. got' \in [Workers -> Observed]
      BY <1>0, <2>1, <2>2 DEF TypeOK
    <2>4. DEFINE S == {h \in Hotspots : answer[h] # NoAnswer}
    <2>5. Cardinality(S) \in Nat /\ Cardinality(S) <= NumTargets
      BY WorkerAssumption, FS_Subset, FS_CardinalityType DEF NumTargets
    <2>6. Counts(Cardinality(S), NumTargets - Cardinality(S), 0) \in Tally
      BY <2>5, NumTargetsType DEF Counts, Tally
    <2>7. report' \in [Workers -> Tally]
      BY <1>0, <2>1, <2>6 DEF TypeOK
    <2> QED
      BY <1>0, <1>2, <2>3, <2>7 DEF PollReturns, TypeOK, Places, TryBlock
  <1>3. CASE MarkUnsaved(w)
    <2>1. Counts(0, NumTargets, 0) \in Tally
      BY NumTargetsType DEF Counts, Tally
    <2> QED
      BY <1>0, <1>3, <2>1 DEF MarkUnsaved, TypeOK, Places, TryBlock
  <1>4. CASE SaveBatch(w)
    <2>1. Cardinality(Fetched(w) \ rows) \in Nat
      <3>1. IsFiniteSet(Fetched(w))
        <4>0. IsFiniteSet(Times)
          BY WorkerAssumption, FS_Interval DEF Times
        <4>1. IsFiniteSet(Hotspots \X Times)
          BY <4>0, WorkerAssumption, FS_Product
        <4>2. Fetched(w) \in SUBSET (Hotspots \X Times)
          BY <1>0, FetchedTyped
        <4> QED
          BY <4>1, <4>2, FS_Subset
      <3> QED
        BY <3>1, FS_Difference, FS_CardinalityType
    <2>2. Counts(Cardinality(Answered(w)), Unanswered(w),
                 Cardinality(Fetched(w) \ rows)) \in Tally
      BY <2>1, AnsweredCounts DEF Counts, Tally
    <2> QED
      BY <1>0, <1>4, <2>2, FetchedTyped DEF SaveBatch, TypeOK, Places, TryBlock
  <1>5. CASE FallbackSave(w)
    <2>1. PICK h \in todo[w] :
             /\ rows' = rows \cup {<<h, got[w][h]>>}
             /\ \E i \in {tally[w].inserted, tally[w].inserted + 1} :
                   tally' = [tally EXCEPT ![w] =
                                Counts(tally[w].saved + 1, tally[w].failed, i)]
             /\ todo' = [todo EXCEPT ![w] = @ \ {h}]
      BY <1>5 DEF FallbackSave
    <2>2. rows' \subseteq Hotspots \X Times
      BY <1>0, <1>5, <2>1, FetchedTyped
         DEF FallbackSave, WorkInv, FallbackAccounts, TypeOK
    <2>3. tally' \in [Workers -> Tally]
      <3>1. tally[w] \in Tally
        BY <1>0 DEF TypeOK
      <3>2. \A i \in {tally[w].inserted, tally[w].inserted + 1} :
               Counts(tally[w].saved + 1, tally[w].failed, i) \in Tally
        BY <3>1 DEF Counts, Tally
      <3> HIDE DEF Tally
      <3> QED
        BY <1>0, <2>1, <3>2 DEF TypeOK
    <2>4. todo' \in [Workers -> SUBSET Hotspots]
      BY <1>0, <2>1 DEF TypeOK
    <2> QED
      BY <1>0, <1>5, <2>2, <2>3, <2>4 DEF FallbackSave, TypeOK
  <1>6. CASE FallbackDone(w)
    <2>1. tally[w] \in Tally
      BY <1>0 DEF TypeOK
    <2>2. Counts(tally[w].saved, Unanswered(w) + tally[w].failed,
                 tally[w].inserted) \in Tally
      BY <2>1, AnsweredCounts DEF Counts, Tally
    <2> QED
      BY <1>0, <1>6, <2>2 DEF FallbackDone, TypeOK, Places, TryBlock
  <1>7. CASE AfterSave(w)
    BY <1>0, <1>7 DEF AfterSave, TypeOK, Places, TryBlock, OutsideTry
  <1>8. CASE ReadLatest(w)
    BY <1>0, <1>8, LatestIsObserved DEF ReadLatest, TypeOK, Places, TryBlock
  <1>9. CASE CommitScores(w)
    BY <1>0, <1>9 DEF CommitScores, TypeOK, Places, OutsideTry
  <1>10. CASE Classify(w)
    BY <1>0, <1>10 DEF Classify, TypeOK, Places, OutsideTry
  <1>11. CASE SelectOld(w)
    <2>1. Prunable \subseteq rows
      BY DEF Prunable
    <2> QED
      BY <1>0, <1>11, <2>1 DEF SelectOld, TypeOK, Places, OutsideTry
  <1>12. CASE DeleteOld(w)
    BY <1>0, <1>12 DEF DeleteOld, TypeOK, Places, OutsideTry
  <1>13. CASE FinishCycle(w)
    <2>1. cycles' \in Seq(Cycle)
      BY <1>0, <1>13, ClosedTyped DEF FinishCycle, TypeOK
    <2> QED
      BY <1>0, <1>13, <2>1, ExitTyped DEF FinishCycle, TypeOK
  <1>14. CASE AbortCycle(w)
    <2>1. cycles' \in Seq(Cycle)
      BY <1>14, ClosedTyped DEF AbortCycle
    <2> QED
      BY <1>0, <1>14, <2>1, ExitTyped DEF AbortCycle, TypeOK
  <1> QED
    BY <1>1, <1>2, <1>3, <1>4, <1>5, <1>6, <1>7, <1>8, <1>9, <1>10, <1>11, <1>12,
       <1>13, <1>14 DEF Step

LEMMA FaultTyped ==
    ASSUME WorkInv, NEW w \in Workers,
           DbFault(w) \/ InterruptTry(w) \/ InterruptOutside(w) \/ Kill(w)
    PROVE  TypeOK'
  <1> USE DEF Goto, Fault
  <1>0. TypeOK
    BY DEF WorkInv
  <1>1. ASSUME NEW kind, Fault(kind) PROVE faults' \in 0..MaxFaults
    BY <1>0, <1>1, WorkerAssumption DEF TypeOK
  <1>c. \A how \in Cuts : cut \cup {<<cyc[w], how>>} \subseteq Nat \X Cuts
    BY <1>0 DEF TypeOK
  <1>2. CASE SaveBatchFails(w)
    <2>1. rows' \subseteq Hotspots \X Times
      BY <1>0, <1>2, FetchedTyped DEF SaveBatchFails, TypeOK
    <2>2. todo' \in [Workers -> SUBSET Hotspots]
      BY <1>0, <1>2 DEF SaveBatchFails, TypeOK, Answered
    <2> QED
      BY <1>0, <1>1, <1>2, <2>1, <2>2 DEF SaveBatchFails, TypeOK, Places, TryBlock
  <1>3. CASE FallbackError(w)
    <2>1. PICK h \in todo[w] :
             /\ rows' \in {rows, rows \cup {<<h, got[w][h]>>}}
             /\ tally' = [tally EXCEPT ![w] =
                             Counts(@.saved, @.failed + 1, @.inserted)]
             /\ todo' = [todo EXCEPT ![w] = @ \ {h}]
      BY <1>3 DEF FallbackError
    <2>2. rows' \subseteq Hotspots \X Times
      <3>1. h \in Answered(w)
        BY <1>3, <2>1 DEF FallbackError, WorkInv, FallbackAccounts
      <3>2. <<h, got[w][h]>> \in Hotspots \X Times
        BY <1>0, <3>1, FetchedTyped
      <3> QED
        BY <1>0, <2>1, <3>2 DEF TypeOK
    <2>3. tally' \in [Workers -> Tally]
      <3>1. tally[w] \in Tally
        BY <1>0 DEF TypeOK
      <3>2. Counts(tally[w].saved, tally[w].failed + 1, tally[w].inserted) \in Tally
        BY <3>1 DEF Counts, Tally
      <3> QED
        BY <1>0, <2>1, <3>2 DEF TypeOK
    <2>4. todo' \in [Workers -> SUBSET Hotspots]
      BY <1>0, <2>1 DEF TypeOK
    <2> QED
      BY <1>0, <1>1, <1>3, <2>2, <2>3, <2>4 DEF FallbackError, TypeOK
  <1>4. CASE ScoringFails(w)
    BY <1>0, <1>1, <1>4 DEF ScoringFails, TypeOK, Places, OutsideTry
  <1>5. CASE PruneFails(w)
    BY <1>0, <1>1, <1>5 DEF PruneFails, TypeOK, Places, OutsideTry
  <1>6. CASE FinishFails(w)
    <2>1. cycles' \in Seq(Cycle)
      BY <1>0, <1>6, ClosedTyped DEF FinishFails, TypeOK
    <2>2. cut' \subseteq Nat \X Cuts
      BY <1>c, <1>6 DEF FinishFails, Cuts
    <2> QED
      BY <1>0, <1>1, <1>6, <2>1, <2>2, ExitTyped DEF FinishFails, TypeOK
  <1>7. CASE InterruptTry(w)
    <2>1. rows' \subseteq Hotspots \X Times
      <3>1. rows \subseteq Hotspots \X Times /\ todo[w] \in SUBSET Hotspots
        BY <1>0 DEF TypeOK
      <3>2. /\ Fetched(w) \subseteq Hotspots \X Times
            /\ \A h \in Answered(w) : <<h, got[w][h]>> \in Hotspots \X Times
        BY <1>0, FetchedTyped
      <3>3. pc[w] = "fallback" => todo[w] \subseteq Answered(w)
        BY <1>0 DEF WorkInv, FallbackAccounts
      <3>4. rows' \in AppliedRows(w)
        BY <1>7 DEF InterruptTry
      <3>5. CASE pc[w] = "saving"
        BY <3>1, <3>2, <3>4, <3>5 DEF AppliedRows
      <3>6. CASE pc[w] = "fallback"
        BY <3>1, <3>2, <3>3, <3>4, <3>6 DEF AppliedRows
      <3>7. CASE pc[w] \notin {"saving", "fallback"}
        BY <3>1, <3>4, <3>7 DEF AppliedRows
      <3> QED
        BY <3>5, <3>6, <3>7
    <2>2. scored' \in Observed
      BY <1>0, <1>7 DEF InterruptTry, AppliedScores, TypeOK
    <2>3. cut' \subseteq cut \cup {<<cyc[w], "polled">>}
      BY <1>7 DEF InterruptTry
    <2>4. cut' \subseteq Nat \X Cuts
      BY <1>c, <2>3 DEF Cuts
    <2> QED
      BY <1>0, <1>1, <1>7, <2>1, <2>2, <2>4 DEF InterruptTry, TypeOK, Places, OutsideTry
  <1>8. CASE InterruptOutside(w)
    <2>1. cut' \subseteq Nat \X Cuts
      BY <1>c, <1>8 DEF InterruptOutside, Cuts
    <2> QED
      BY <1>0, <1>1, <1>8, <2>1, ExitTyped DEF InterruptOutside, TypeOK
  <1>9. CASE Kill(w)
    <2>1. cut' \subseteq Nat \X Cuts
      BY <1>c, <1>9 DEF Kill, Cuts
    <2> QED
      BY <1>0, <1>1, <1>9, <2>1, ExitTyped DEF Kill, TypeOK
  <1> QED
    BY <1>2, <1>3, <1>4, <1>5, <1>6, <1>7, <1>8, <1>9 DEF DbFault

LEMMA OpenTyped ==
    ASSUME WorkInv, NEW w \in Workers, OpenCycle(w)
    PROVE  TypeOK'
  <1>1. [targets |-> NumTargets, saved |-> 0, failed |-> 0, status |-> "running"]
          \in Cycle
    BY NumTargetsType DEF Cycle
  <1>2. Counts(0, NumTargets, 0) \in Tally
    BY NumTargetsType DEF Counts, Tally
  <1>3. cycles' \in Seq(Cycle) /\ cyc' \in [Workers -> Nat]
    <2> HIDE DEF Cycle
    <2> QED
      BY <1>1 DEF OpenCycle, WorkInv, TypeOK
  <1> QED
    BY <1>2, <1>3 DEF OpenCycle, Goto, WorkInv, TypeOK, Places, OutsideTry

LEMMA NextKeepsTypes == WorkInv /\ [Next]_vars => TypeOK'
  <1> SUFFICES ASSUME WorkInv, [Next]_vars PROVE TypeOK'
    OBVIOUS
  <1>1. CASE Publish
    BY <1>1, WorkerAssumption DEF Publish, WorkInv, TypeOK, Times
  <1>2. CASE UNCHANGED vars
    BY <1>2 DEF vars, WorkInv, TypeOK
  <1> QED
    BY <1>1, <1>2, OpenTyped, StepTyped, FaultTyped DEF Next

-----------------------------------------------------------------------------
(* Ownership of the cycles, and the ledger. *)

\* Every step opens a cycle, ends a worker's cycle in the table or without it,
\* or leaves the table and the workers' hold on it alone.
Quiet == /\ UNCHANGED <<cycles, cyc>>
         /\ \A u \in Workers : pc'[u] # "idle" => pc[u] # "idle"

Leaves(w) == /\ pc[w] # "idle" /\ Exit(w)
             /\ \/ cycles' = cycles
                \/ \E st \in Ledger!Final :
                      /\ st = "complete" => IsComplete(report[w])
                      /\ cycles' = Closed(w, st)

LEMMA NextByLedger ==
    ASSUME WorkInv, [Next]_vars
    PROVE  Quiet \/ \E w \in Workers : OpenCycle(w) \/ Leaves(w)
  <1>0. pc \in [Workers -> Places]
    BY DEF WorkInv, TypeOK
  <1>1. CASE Publish \/ UNCHANGED vars
    BY <1>1 DEF Publish, vars, Quiet
  <1>2. ASSUME NEW w \in Workers, Step(w)
        PROVE  Quiet \/ Leaves(w)
    <2>1. CASE EnterTry(w) \/ PollReturns(w) \/ MarkUnsaved(w) \/ SaveBatch(w)
      BY <2>1, <1>0 DEF EnterTry, PollReturns, MarkUnsaved, SaveBatch, Goto, Quiet, db
    <2>2. CASE FallbackSave(w) \/ FallbackDone(w) \/ AfterSave(w) \/ ReadLatest(w)
      BY <2>2, <1>0 DEF FallbackSave, FallbackDone, AfterSave, ReadLatest, Goto, Quiet, db
    <2>3. CASE CommitScores(w) \/ Classify(w) \/ SelectOld(w) \/ DeleteOld(w)
      BY <2>3, <1>0 DEF CommitScores, Classify, SelectOld, DeleteOld, Goto, Quiet, db
    <2>4. CASE FinishCycle(w)
      BY <2>4 DEF FinishCycle, Leaves, WorkInv, StatusJustified
    <2>5. CASE AbortCycle(w)
      BY <2>5 DEF AbortCycle, Leaves, Ledger!Final
    <2> QED
      BY <1>2, <2>1, <2>2, <2>3, <2>4, <2>5 DEF Step
  <1>3. ASSUME NEW w \in Workers, DbFault(w)
        PROVE  Quiet \/ Leaves(w)
    <2>1. CASE SaveBatchFails(w) \/ FallbackError(w)
      BY <2>1, <1>0 DEF SaveBatchFails, FallbackError, Goto, Quiet
    <2>2. CASE ScoringFails(w) \/ PruneFails(w)
      BY <2>2, <1>0 DEF ScoringFails, PruneFails, Goto, Quiet
    <2>3. CASE FinishFails(w)
      BY <2>3 DEF FinishFails, Leaves, WorkInv, StatusJustified, Ledger!Final
    <2> QED
      BY <1>3, <2>1, <2>2, <2>3 DEF DbFault
  <1>4. ASSUME NEW w \in Workers, InterruptTry(w) \/ InterruptOutside(w) \/ Kill(w)
        PROVE  Quiet \/ Leaves(w)
    BY <1>4, <1>0
       DEF InterruptTry, InterruptOutside, Kill, Goto, Quiet, Leaves, TryBlock, OutsideTry
  <1> QED
    BY <1>1, <1>2, <1>3, <1>4 DEF Next

LEMMA NextKeepsOwnership ==
    ASSUME WorkInv, [Next]_vars
    PROVE  OwnsCycle' /\ OwnersDiffer'
  <1>0. /\ TypeOK /\ OwnsCycle /\ OwnersDiffer
    BY DEF WorkInv
  <1>1. CASE Quiet
    BY <1>0, <1>1 DEF Quiet, OwnsCycle, OwnersDiffer, Ledger!Opened
  <1>2. ASSUME NEW w \in Workers, OpenCycle(w)
        PROVE  OwnsCycle' /\ OwnersDiffer'
    <2>1. /\ cycles \in Seq(Cycle) /\ cycles' = Append(cycles, Ledger!Opened)
          /\ cyc' = [cyc EXCEPT ![w] = Len(cycles) + 1]
          /\ pc[w] = "idle" /\ pc' = [pc EXCEPT ![w] = "opened"]
      BY <1>0, <1>2 DEF OpenCycle, Goto, TypeOK, Ledger!Opened
    <2>2. Len(cycles) \in Nat /\ DOMAIN cycles = 1..Len(cycles)
      <3> HIDE DEF Cycle
      <3> QED
        BY <2>1
    <2>3. /\ DOMAIN cycles' = 1..(Len(cycles) + 1)
          /\ \A i \in 1..Len(cycles) : cycles'[i] = cycles[i]
          /\ cycles'[Len(cycles) + 1] = Ledger!Opened
      <3> HIDE DEF Cycle
      <3> QED
        BY <2>1, <2>2
    <2>4. OwnsCycle'
      BY <1>0, <2>1, <2>2, <2>3 DEF OwnsCycle, TypeOK, Ledger!Opened
    <2>5. OwnersDiffer'
      BY <1>0, <2>1, <2>2 DEF OwnersDiffer, OwnsCycle, TypeOK
    <2> QED
      BY <2>4, <2>5
  <1>3. ASSUME NEW w \in Workers, Leaves(w)
        PROVE  OwnsCycle' /\ OwnersDiffer'
    <2>1. /\ pc' = [pc EXCEPT ![w] = "idle"] /\ cyc' = [cyc EXCEPT ![w] = 0]
          /\ pc[w] # "idle"
      BY <1>3 DEF Leaves, Exit
    <2>2. /\ DOMAIN cycles' = DOMAIN cycles
          /\ \A i \in DOMAIN cycles : i # cyc[w] => cycles'[i] = cycles[i]
      BY <1>3 DEF Leaves, Closed
    <2> QED
      BY <1>0, <2>1, <2>2 DEF OwnsCycle, OwnersDiffer, TypeOK, Ledger!Opened
  <1> QED
    BY <1>1, <1>2, <1>3, NextByLedger

\* A cycle that ends in the table is a lawful close of the ledger.
LEMMA LeavesIsClose ==
    ASSUME WorkInv, NEW w \in Workers, Leaves(w)
    PROVE  Ledger!Close(cyc[w]) \/ cycles' = cycles
  <1>1. CASE cycles' = cycles
    BY <1>1
  <1>2. ASSUME NEW st \in Ledger!Final,
               st = "complete" => IsComplete(report[w]),
               cycles' = Closed(w, st)
        PROVE  Ledger!Close(cyc[w])
    <2> DEFINE s == report[w].saved
               f == report[w].failed
               closed == [cycles[cyc[w]] EXCEPT !.saved = s, !.failed = f, !.status = st]
    <2>1. cycles[cyc[w]] = Ledger!Opened /\ cyc[w] \in DOMAIN cycles
      BY <1>2 DEF WorkInv, OwnsCycle, Leaves
    <2>2. s \in Nat /\ f \in Nat /\ s + f <= NumTargets /\ NumTargets \in Nat
      BY NumTargetsType DEF WorkInv, TypeOK, Tally, ReportBounded
    <2>3. s \in 0..NumTargets /\ f \in 0..NumTargets
      BY <2>2
    <2>4. closed = [targets |-> NumTargets, saved |-> s, failed |-> f, status |-> st]
      <3>1. closed = [Ledger!Opened EXCEPT !.saved = s, !.failed = f, !.status = st]
        BY <2>1
      <3> HIDE DEF s, f, closed
      <3> QED
        BY <3>1 DEF Ledger!Opened
    <2>5. Ledger!Lawful(closed)
      <3>1. st = "complete" => NumTargets > 0 /\ s = NumTargets /\ f = 0
        BY <1>2 DEF IsComplete
      <3> HIDE DEF s, f, closed
      <3> QED
        BY <1>2, <2>2, <2>4, <3>1 DEF Ledger!Lawful, Ledger!Final
    <2>6. cycles' = [cycles EXCEPT ![cyc[w]] = closed]
      BY <1>2 DEF Closed
    <2>7. cycles[cyc[w]].status = "running"
      BY <2>1 DEF Ledger!Opened
    <2> QED
      BY <2>3, <2>5, <2>6, <2>7 DEF Ledger!Close
  <1> QED
    BY <1>1, <1>2 DEF Leaves

LEMMA NextIsLedgerStep ==
    WorkInv /\ [Next]_vars => [Ledger!Next]_cycles
  <1> SUFFICES ASSUME WorkInv, [Next]_vars
               PROVE  Ledger!Next \/ cycles' = cycles
    OBVIOUS
  <1>1. CASE Quiet
    BY <1>1 DEF Quiet
  <1>2. ASSUME NEW w \in Workers, OpenCycle(w)
        PROVE  Ledger!Open
    BY <1>2 DEF OpenCycle, Ledger!Open, Ledger!Opened
  <1>3. ASSUME NEW w \in Workers, Leaves(w)
        PROVE  Ledger!Next \/ cycles' = cycles
    <2>1. cyc[w] \in DOMAIN cycles
      BY <1>3 DEF WorkInv, OwnsCycle, Leaves
    <2> QED
      BY <1>3, <2>1, LeavesIsClose DEF Ledger!Next
  <1> QED
    BY <1>1, <1>2, <1>3, NextByLedger DEF Ledger!Next

-----------------------------------------------------------------------------
(* Counters and status. *)

Act(w) == OpenCycle(w) \/ Step(w) \/ DbFault(w) \/ InterruptTry(w)
          \/ InterruptOutside(w) \/ Kill(w)

\* The locals of u that the invariant's parts are about.
Locals(u) == <<pc[u], cyc[u], got[u], report[u], tally[u], todo[u], victims[u], status[u]>>

\* A worker's step touches no other worker's locals.
LEMMA ActIsLocal ==
    ASSUME TypeOK, NEW w \in Workers, Act(w), NEW u \in Workers \ {w}
    PROVE  Locals(u)' = Locals(u)
  <1> USE DEF TypeOK, Goto, db
  <1>1. CASE OpenCycle(w)
    BY <1>1 DEF OpenCycle, Locals
  <1>2. CASE EnterTry(w) \/ MarkUnsaved(w) \/ SaveBatch(w) \/ FallbackDone(w)
    BY <1>2 DEF EnterTry, MarkUnsaved, SaveBatch, FallbackDone, Locals
  <1>3. CASE PollReturns(w) \/ FallbackSave(w)
    BY <1>3 DEF PollReturns, FallbackSave, Locals
  <1>4. CASE AfterSave(w) \/ ReadLatest(w) \/ CommitScores(w)
    BY <1>4 DEF AfterSave, ReadLatest, CommitScores, Locals
  <1>5. CASE Classify(w) \/ SelectOld(w) \/ DeleteOld(w)
    BY <1>5 DEF Classify, SelectOld, DeleteOld, Locals
  <1>6. CASE FinishCycle(w) \/ AbortCycle(w) \/ FinishFails(w)
    BY <1>6 DEF FinishCycle, AbortCycle, FinishFails, Exit, Locals
  <1>7. CASE SaveBatchFails(w) \/ FallbackError(w)
    BY <1>7 DEF SaveBatchFails, FallbackError, Locals
  <1>8. CASE ScoringFails(w) \/ PruneFails(w)
    BY <1>8 DEF ScoringFails, PruneFails, Locals
  <1>9. CASE InterruptTry(w)
    BY <1>9 DEF InterruptTry, Locals
  <1>10. CASE InterruptOutside(w) \/ Kill(w)
    BY <1>10 DEF InterruptOutside, Kill, Exit, Locals
  <1> QED
    BY <1>1, <1>2, <1>3, <1>4, <1>5, <1>6, <1>7, <1>8, <1>9, <1>10
       DEF Act, Step, DbFault

\* What ReportBounded, FallbackAccounts and StatusJustified say of one worker.
Bounded(w) == report[w].saved + report[w].failed <= NumTargets

Accounted(w) ==
    /\ pc[w] \in {"idle", "opened", "polling", "polled", "saving"} =>
          tally[w] = Counts(0, 0, 0)
    /\ pc[w] = "fallback" =>
          /\ todo[w] \subseteq Answered(w)
          /\ tally[w].saved + tally[w].failed + Cardinality(todo[w])
                = Cardinality(Answered(w))

Justified(w) ==
    IF pc[w] \in {"pruning", "deleting", "finishing"}
    THEN /\ status[w] \in Ledger!Final
         /\ status[w] = "complete" => IsComplete(report[w])
    ELSE status[w] = "running"

LEMMA CountsByWorker ==
    /\ ReportBounded <=> \A w \in Workers : Bounded(w)
    /\ FallbackAccounts <=> \A w \in Workers : Accounted(w)
    /\ StatusJustified <=> \A w \in Workers : Justified(w)
  BY DEF ReportBounded, FallbackAccounts, StatusJustified, Bounded, Accounted, Justified

LEMMA ActKeepsBounded ==
    ASSUME WorkInv, NEW w \in Workers, Act(w)
    PROVE  Bounded(w)'
  <1> USE DEF Goto, db, Counts
  <1>0. Bounded(w) /\ TypeOK /\ NumTargets \in Nat
    BY CountsByWorker, NumTargetsType DEF WorkInv
  <1>1. CASE report'[w] = report[w]
    BY <1>0, <1>1 DEF Bounded
  <1>2. CASE OpenCycle(w) \/ MarkUnsaved(w)
    <2>1. report'[w] = Counts(0, NumTargets, 0)
      BY <1>0, <1>2 DEF OpenCycle, MarkUnsaved, TypeOK
    <2> QED
      BY <1>0, <2>1 DEF Bounded
  <1>3. CASE Exit(w)
    <2>1. report'[w] = Counts(0, 0, 0)
      BY <1>0, <1>3 DEF Exit, TypeOK
    <2> QED
      BY <1>0, <2>1 DEF Bounded
  <1>4. CASE PollReturns(w)
    <2>1. PICK a \in Answers :
             report'[w] = Counts(Cardinality({h \in Hotspots : a[h] # NoAnswer}),
                        NumTargets - Cardinality({h \in Hotspots : a[h] # NoAnswer}), 0)
      BY <1>0, <1>4 DEF PollReturns, TypeOK
    <2>2. Cardinality({h \in Hotspots : a[h] # NoAnswer}) \in Nat
      BY WorkerAssumption, FS_Subset, FS_CardinalityType
    <2> QED
      BY <1>0, <2>1, <2>2 DEF Bounded
  <1>5. CASE SaveBatch(w)
    <2>1. report'[w] = Counts(Cardinality(Answered(w)), Unanswered(w),
                              Cardinality(Fetched(w) \ rows))
      BY <1>0, <1>5 DEF SaveBatch, TypeOK
    <2> QED
      BY <1>0, <2>1, AnsweredCounts DEF Bounded
  <1>6. CASE FallbackDone(w)
    <2>1. report'[w] = Counts(tally[w].saved, Unanswered(w) + tally[w].failed,
                              tally[w].inserted)
      BY <1>0, <1>6 DEF FallbackDone, TypeOK
    <2>2. tally[w].saved + tally[w].failed = Cardinality(Answered(w))
      <3>1. tally[w].saved \in Nat /\ tally[w].failed \in Nat
        BY <1>0 DEF TypeOK, Tally
      <3>2. Cardinality(todo[w]) = 0
        BY <1>6, FS_EmptySet DEF FallbackDone
      <3>3. Accounted(w) /\ pc[w] = "fallback"
        BY <1>6, CountsByWorker DEF FallbackDone, WorkInv
      <3>4. tally[w].saved + tally[w].failed + Cardinality(todo[w])
              = Cardinality(Answered(w))
        BY <3>3 DEF Accounted
      <3> QED
        BY <3>1, <3>2, <3>4
    <2>3. tally[w].saved \in Nat /\ tally[w].failed \in Nat
      BY <1>0 DEF TypeOK, Tally
    <2> QED
      BY <1>0, <2>1, <2>2, <2>3, AnsweredCounts DEF Bounded
  <1>7. CASE EnterTry(w) \/ FallbackSave(w) \/ AfterSave(w) \/ ReadLatest(w)
             \/ CommitScores(w)
    BY <1>0, <1>1, <1>7
       DEF EnterTry, FallbackSave, AfterSave, ReadLatest, CommitScores
  <1>8. CASE Classify(w) \/ SelectOld(w) \/ DeleteOld(w)
    BY <1>0, <1>1, <1>8 DEF Classify, SelectOld, DeleteOld
  <1>9. CASE SaveBatchFails(w) \/ FallbackError(w) \/ ScoringFails(w)
             \/ PruneFails(w) \/ InterruptTry(w)
    BY <1>0, <1>1, <1>9
       DEF SaveBatchFails, FallbackError, ScoringFails, PruneFails, InterruptTry
  <1>10. CASE FinishCycle(w) \/ AbortCycle(w) \/ FinishFails(w)
              \/ InterruptOutside(w) \/ Kill(w)
    BY <1>3, <1>10 DEF FinishCycle, AbortCycle, FinishFails, InterruptOutside, Kill
  <1> QED
    BY <1>2, <1>4, <1>5, <1>6, <1>7, <1>8, <1>9, <1>10 DEF Act, Step, DbFault

LEMMA ActKeepsAccounted ==
    ASSUME WorkInv, NEW w \in Workers, Act(w)
    PROVE  Accounted(w)'
  <1> USE DEF Goto, db
  <1>0. Accounted(w) /\ TypeOK
    BY CountsByWorker DEF WorkInv
  <1>1. CASE OpenCycle(w) \/ EnterTry(w) \/ PollReturns(w) \/ MarkUnsaved(w)
    BY <1>0, <1>1 DEF OpenCycle, EnterTry, PollReturns, MarkUnsaved, TypeOK, Accounted
  <1>2. CASE Exit(w)
    BY <1>0, <1>2 DEF Exit, TypeOK, Accounted
  <1>3. CASE SaveBatchFails(w)
    <2>1. /\ pc'[w] = "fallback" /\ got' = got /\ tally'[w] = Counts(0, 0, 0)
          /\ todo'[w] = Answered(w)
      BY <1>0, <1>3 DEF SaveBatchFails, TypeOK, Accounted
    <2>2. Answered(w)' = Answered(w)
      BY <2>1 DEF Answered
    <2> QED
      BY <2>1, <2>2, AnsweredCounts DEF Accounted, Counts
  <1>4. CASE FallbackSave(w) \/ FallbackError(w)
    <2>1. PICK h \in todo[w], t \in {Counts(tally[w].saved + 1, tally[w].failed,
                                           tally[w].inserted),
                                    Counts(tally[w].saved + 1, tally[w].failed,
                                           tally[w].inserted + 1),
                                    Counts(tally[w].saved, tally[w].failed + 1,
                                           tally[w].inserted)} :
             /\ tally'[w] = t
             /\ todo'[w] = todo[w] \ {h}
             /\ pc[w] = "fallback" /\ pc'[w] = pc[w] /\ got' = got
      BY <1>0, <1>4 DEF FallbackSave, FallbackError, TypeOK
    <2>2. tally[w].saved \in Nat /\ tally[w].failed \in Nat
      BY <1>0 DEF TypeOK, Tally
    <2>3. t.saved + t.failed = tally[w].saved + tally[w].failed + 1
      BY <2>1, <2>2 DEF Counts
    <2>4. /\ todo[w] \subseteq Answered(w)
          /\ tally[w].saved + tally[w].failed + Cardinality(todo[w])
                = Cardinality(Answered(w))
      BY <1>0, <2>1 DEF Accounted
    <2>5. IsFiniteSet(todo[w])
      BY <2>4, AnsweredCounts, FS_Subset
    <2>6. /\ Cardinality(todo[w] \ {h}) = Cardinality(todo[w]) - 1
          /\ Cardinality(todo[w]) \in Nat
      BY <2>1, <2>5, FS_RemoveElement, FS_CardinalityType
    <2>7. Answered(w)' = Answered(w)
      BY <2>1 DEF Answered
    <2>8. t.saved + t.failed \in Nat /\ t.saved \in Nat /\ t.failed \in Nat
      BY <2>1, <2>2 DEF Counts
    <2>9. /\ todo'[w] \subseteq Answered(w)'
          /\ tally'[w].saved + tally'[w].failed + Cardinality(todo'[w])
                = Cardinality(Answered(w)')
      BY <2>1, <2>2, <2>3, <2>4, <2>6, <2>7, <2>8
    <2> QED
      BY <2>1, <2>9 DEF Accounted
  <1>5. CASE SaveBatch(w) \/ FallbackDone(w) \/ AfterSave(w) \/ ReadLatest(w)
             \/ CommitScores(w)
    BY <1>0, <1>5
       DEF SaveBatch, FallbackDone, AfterSave, ReadLatest, CommitScores, TypeOK, Accounted
  <1>6. CASE Classify(w) \/ SelectOld(w) \/ DeleteOld(w)
    BY <1>0, <1>6 DEF Classify, SelectOld, DeleteOld, TypeOK, Accounted
  <1>7. CASE ScoringFails(w) \/ PruneFails(w) \/ InterruptTry(w)
    BY <1>0, <1>7 DEF ScoringFails, PruneFails, InterruptTry, TypeOK, Accounted
  <1>8. CASE FinishCycle(w) \/ AbortCycle(w) \/ FinishFails(w)
             \/ InterruptOutside(w) \/ Kill(w)
    BY <1>2, <1>8 DEF FinishCycle, AbortCycle, FinishFails, InterruptOutside, Kill
  <1> QED
    BY <1>1, <1>3, <1>4, <1>5, <1>6, <1>7, <1>8 DEF Act, Step, DbFault

LEMMA ActKeepsJustified ==
    ASSUME WorkInv, NEW w \in Workers, Act(w)
    PROVE  Justified(w)'
  <1> USE DEF Goto, db
  <1>0. Justified(w) /\ TypeOK
    BY CountsByWorker DEF WorkInv
  <1>1. CASE OpenCycle(w) \/ EnterTry(w) \/ PollReturns(w) \/ MarkUnsaved(w)
    BY <1>0, <1>1 DEF OpenCycle, EnterTry, PollReturns, MarkUnsaved, TypeOK, Justified
  <1>2. CASE Exit(w)
    BY <1>0, <1>2 DEF Exit, TypeOK, Justified
  <1>3. CASE SaveBatch(w) \/ SaveBatchFails(w) \/ FallbackSave(w) \/ FallbackError(w)
             \/ FallbackDone(w)
    BY <1>0, <1>3
       DEF SaveBatch, SaveBatchFails, FallbackSave, FallbackError, FallbackDone,
           TypeOK, Justified
  <1>4. CASE AfterSave(w) \/ ReadLatest(w) \/ CommitScores(w) \/ ScoringFails(w)
    BY <1>0, <1>4
       DEF AfterSave, ReadLatest, CommitScores, ScoringFails, TypeOK, Justified
  <1>5. CASE Classify(w)
    <2>1. /\ pc'[w] \in {"pruning", "finishing"} /\ report' = report
          /\ status'[w] = IF IsComplete(report[w]) THEN "complete"
                          ELSE IF report[w].saved > 0 THEN "partial" ELSE "failed"
      BY <1>0, <1>5 DEF Classify, TypeOK
    <2> QED
      BY <2>1 DEF Justified, IsComplete, Ledger!Final
  <1>6. CASE SelectOld(w) \/ DeleteOld(w) \/ PruneFails(w)
    BY <1>0, <1>6 DEF SelectOld, DeleteOld, PruneFails, TypeOK, Justified, IsComplete
  <1>7. CASE InterruptTry(w)
    BY <1>0, <1>7 DEF InterruptTry, TryBlock, TypeOK, Justified
  <1>8. CASE FinishCycle(w) \/ AbortCycle(w) \/ FinishFails(w)
             \/ InterruptOutside(w) \/ Kill(w)
    BY <1>2, <1>8 DEF FinishCycle, AbortCycle, FinishFails, InterruptOutside, Kill
  <1> QED
    BY <1>1, <1>3, <1>4, <1>5, <1>6, <1>7, <1>8 DEF Act, Step, DbFault

LEMMA NextKeepsCounts ==
    ASSUME WorkInv, [Next]_vars
    PROVE  ReportBounded' /\ FallbackAccounts' /\ StatusJustified'
  <1>0. TypeOK /\ ReportBounded /\ FallbackAccounts /\ StatusJustified
    BY DEF WorkInv
  <1>1. CASE Publish \/ UNCHANGED vars
    BY <1>0, <1>1
       DEF Publish, vars, ReportBounded, FallbackAccounts, StatusJustified, Answered,
           IsComplete
  <1>2. ASSUME NEW w \in Workers, Act(w), NEW u \in Workers
        PROVE  Bounded(u)' /\ Accounted(u)' /\ Justified(u)'
    <2>1. CASE u = w
      BY <1>2, <2>1, ActKeepsBounded, ActKeepsAccounted, ActKeepsJustified
    <2>2. CASE u # w
      <3>1. Locals(u)' = Locals(u)
        BY <1>0, <1>2, <2>2, ActIsLocal
      <3>2. Bounded(u) /\ Accounted(u) /\ Justified(u)
        BY <1>0, CountsByWorker
      <3> QED
        BY <3>1, <3>2 DEF Locals, Bounded, Accounted, Justified, Answered, IsComplete
    <2> QED
      BY <2>1, <2>2
  <1>3. ASSUME NEW w \in Workers, Act(w)
        PROVE  ReportBounded' /\ FallbackAccounts' /\ StatusJustified'
    BY <1>2, <1>3
       DEF ReportBounded, FallbackAccounts, StatusJustified, Bounded, Accounted, Justified
  <1> QED
    BY <1>1, <1>3 DEF Next, Act

-----------------------------------------------------------------------------
(* Snapshots are only replaced by newer ones. *)

\* A prune deletes no hotspot's newest snapshot, since each of its victims has
\* a newer one; every other step keeps all rows.
LEMMA NextKeepsNewest ==
    ASSUME WorkInv, [Next]_vars, NEW r \in rows
    PROVE  \E q \in rows' : q[1] = r[1] /\ q[2] >= r[2]
  <1> USE DEF db
  <1>0. rows \subseteq Hotspots \X Times /\ r[2] \in Times
    BY DEF WorkInv, TypeOK
  <1>1. CASE rows \subseteq rows'
    BY <1>0, <1>1 DEF Times
  <1>2. ASSUME NEW w \in Workers, DeleteOld(w)
        PROVE  \E q \in rows' : q[1] = r[1] /\ q[2] >= r[2]
    <2>1. PICK m \in rows : /\ m[1] = r[1] /\ m[2] \in Times
                            /\ \A q \in rows : q[1] = r[1] => q[2] <= m[2]
      BY <1>0, NewestRow
    <2>2. m \notin victims[w]
      <3>1. ASSUME m \in victims[w] PROVE FALSE
        <4>1. PICK q \in rows : q[1] = m[1] /\ q[2] > m[2]
          BY <1>2, <3>1 DEF DeleteOld, WorkInv, VictimsReplaced
        <4>2. q[2] <= m[2] /\ q[2] \in Times
          BY <1>0, <2>1, <4>1
        <4> QED
          BY <2>1, <4>1, <4>2 DEF Times
      <3> QED
        BY <3>1
    <2>3. m \in rows'
      BY <1>2, <2>2 DEF DeleteOld
    <2> QED
      BY <1>0, <2>1, <2>3 DEF Times
  <1>3. CASE Publish \/ UNCHANGED vars
    BY <1>1, <1>3 DEF Publish, vars
  <1>4. ASSUME NEW w \in Workers, Act(w), ~DeleteOld(w)
        PROVE  rows \subseteq rows'
    <2>1. CASE OpenCycle(w) \/ EnterTry(w) \/ PollReturns(w) \/ MarkUnsaved(w)
      BY <2>1 DEF OpenCycle, EnterTry, PollReturns, MarkUnsaved
    <2>2. CASE SaveBatch(w) \/ SaveBatchFails(w) \/ FallbackSave(w)
               \/ FallbackError(w) \/ FallbackDone(w)
      BY <2>2 DEF SaveBatch, SaveBatchFails, FallbackSave, FallbackError, FallbackDone
    <2>3. CASE AfterSave(w) \/ ReadLatest(w) \/ CommitScores(w) \/ ScoringFails(w)
      BY <2>3 DEF AfterSave, ReadLatest, CommitScores, ScoringFails
    <2>4. CASE Classify(w) \/ SelectOld(w) \/ PruneFails(w)
      BY <2>4 DEF Classify, SelectOld, PruneFails
    <2>5. CASE InterruptTry(w)
      BY <2>5 DEF InterruptTry, AppliedRows
    <2>6. CASE FinishCycle(w) \/ AbortCycle(w) \/ FinishFails(w)
               \/ InterruptOutside(w) \/ Kill(w)
      BY <2>6 DEF FinishCycle, AbortCycle, FinishFails, InterruptOutside, Kill
    <2> QED
      BY <1>4, <2>1, <2>2, <2>3, <2>4, <2>5, <2>6 DEF Act, Step, DbFault
  <1> QED
    BY <1>1, <1>2, <1>3, <1>4 DEF Next, Act

Replaced(w) ==
    pc[w] = "deleting" =>
        \A v \in victims[w] : \E q \in rows : q[1] = v[1] /\ q[2] > v[2]

Backed(w) ==
    /\ pc[w] = "fallback" /\ tally[w].failed = 0 =>
          \A h \in Answered(w) \ todo[w] : Durable(w, h)
    /\ /\ pc[w] \in {"stored", "scoring", "computed", "closing", "pruning",
                      "deleting", "finishing"}
       /\ report[w].failed = 0
       => \A h \in Hotspots : got[w][h] # NoAnswer /\ Durable(w, h)

LEMMA RowsByWorker ==
    /\ VictimsReplaced <=> \A w \in Workers : Replaced(w)
    /\ ReportBacked <=> \A w \in Workers : Backed(w)
  BY DEF VictimsReplaced, ReportBacked, Replaced, Backed

\* A step that leaves a worker's part alone leaves its rows replaced or better.
LEMMA ReplacedPersists ==
    ASSUME WorkInv, TypeOK', [Next]_vars, NEW u \in Workers,
           pc'[u] = "deleting" => pc[u] = "deleting" /\ victims'[u] = victims[u]
    PROVE  Replaced(u)'
  <1> SUFFICES ASSUME pc'[u] = "deleting", NEW v \in victims'[u]
               PROVE  \E q \in rows' : q[1] = v[1] /\ q[2] > v[2]
    BY DEF Replaced
  <1>1. PICK p \in rows : p[1] = v[1] /\ p[2] > v[2]
    BY DEF WorkInv, VictimsReplaced
  <1>2. PICK q \in rows' : q[1] = p[1] /\ q[2] >= p[2]
    BY <1>1, NextKeepsNewest
  <1>3. p[2] \in Times /\ q[2] \in Times /\ v[2] \in Times
    BY <1>1, <1>2 DEF WorkInv, TypeOK
  <1> QED
    BY <1>1, <1>2, <1>3 DEF Times

\* What is durable stays so while the fetched answers are the same.
LEMMA DurablePersists ==
    ASSUME WorkInv, TypeOK', [Next]_vars, NEW u \in Workers, NEW h \in Hotspots,
           got'[u] = got[u], Durable(u, h)
    PROVE  Durable(u, h)'
  <1>1. PICK p \in rows : p[1] = h /\ p[2] >= got[u][h]
    BY DEF Durable
  <1>2. PICK q \in rows' : q[1] = p[1] /\ q[2] >= p[2]
    BY <1>1, NextKeepsNewest
  <1>3. p[2] \in Times /\ q[2] \in Times /\ got[u][h] \in 0..MaxTime
    BY <1>1, <1>2 DEF WorkInv, TypeOK, Observed
  <1>4. q[2] >= got[u][h]
    BY <1>1, <1>2, <1>3, WorkerAssumption DEF Times
  <1> QED
    BY <1>1, <1>2, <1>4 DEF Durable

\* A worker whose report, tally and answers a step leaves alone stays backed,
\* unless it enters the fallback or the part after the batch.
LEMMA BackedPersists ==
    ASSUME WorkInv, TypeOK', [Next]_vars, NEW u \in Workers,
           \/ pc'[u] \notin {"fallback", "stored", "scoring", "computed", "closing",
                             "pruning", "deleting", "finishing"}
           \/ /\ got'[u] = got[u] /\ report'[u] = report[u]
              /\ \/ /\ pc'[u] = "fallback" /\ pc[u] = "fallback"
                    /\ tally'[u] = tally[u] /\ todo'[u] = todo[u]
                 \/ /\ pc'[u] # "fallback"
                    /\ pc[u] \in {"stored", "scoring", "computed", "closing",
                                  "pruning", "deleting", "finishing"}
    PROVE  Backed(u)'
  <1>0. Backed(u)
    BY RowsByWorker DEF WorkInv
  <1>1. CASE pc'[u] \notin {"fallback", "stored", "scoring", "computed", "closing",
                            "pruning", "deleting", "finishing"}
    BY <1>1 DEF Backed
  <1>2. ASSUME got'[u] = got[u]
        PROVE  \A h \in Hotspots : Durable(u, h) => Durable(u, h)'
    BY <1>2, DurablePersists
  <1>3. ASSUME got'[u] = got[u]
        PROVE  Answered(u)' = Answered(u) /\ Answered(u) \subseteq Hotspots
    BY <1>3 DEF Answered
  <1>4. CASE /\ got'[u] = got[u] /\ pc'[u] = "fallback" /\ pc[u] = "fallback"
             /\ tally'[u] = tally[u] /\ todo'[u] = todo[u]
    BY <1>0, <1>2, <1>3, <1>4 DEF Backed
  <1>5. CASE /\ got'[u] = got[u] /\ report'[u] = report[u] /\ pc'[u] # "fallback"
             /\ pc[u] \in {"stored", "scoring", "computed", "closing", "pruning",
                           "deleting", "finishing"}
    BY <1>0, <1>2, <1>5 DEF Backed
  <1> QED
    BY <1>1, <1>4, <1>5

LEMMA ActKeepsReplaced ==
    ASSUME WorkInv, TypeOK', NEW w \in Workers, Act(w), [Next]_vars
    PROVE  Replaced(w)'
  <1> USE DEF Goto, db
  <1>0. TypeOK
    BY DEF WorkInv
  <1>1. CASE SelectOld(w)
    <2>1. /\ victims'[w] \subseteq Prunable /\ rows' = rows
      BY <1>0, <1>1 DEF SelectOld, TypeOK
    <2>2. \A v \in Prunable : \E q \in rows : q[1] = v[1] /\ q[2] > v[2]
      BY DEF Prunable
    <2> QED
      BY <2>1, <2>2 DEF Replaced
  <1>2. ASSUME pc'[w] # "deleting"
        PROVE  Replaced(w)'
    BY <1>2 DEF Replaced
  <1>3. CASE Exit(w)
    BY <1>0, <1>2, <1>3 DEF Exit, TypeOK
  <1>4. CASE OpenCycle(w) \/ EnterTry(w) \/ PollReturns(w) \/ MarkUnsaved(w)
             \/ SaveBatch(w) \/ SaveBatchFails(w) \/ FallbackDone(w)
    BY <1>0, <1>2, <1>4
       DEF OpenCycle, EnterTry, PollReturns, MarkUnsaved, SaveBatch, SaveBatchFails,
           FallbackDone, TypeOK
  <1>5. CASE FallbackSave(w) \/ FallbackError(w)
    BY <1>0, <1>2, <1>5 DEF FallbackSave, FallbackError, TypeOK
  <1>6. CASE AfterSave(w) \/ ReadLatest(w) \/ CommitScores(w) \/ ScoringFails(w)
             \/ Classify(w) \/ InterruptTry(w)
    BY <1>0, <1>2, <1>6
       DEF AfterSave, ReadLatest, CommitScores, ScoringFails, Classify, InterruptTry,
           TypeOK
  <1>7. CASE DeleteOld(w) \/ PruneFails(w)
    BY <1>0, <1>2, <1>7 DEF DeleteOld, PruneFails, TypeOK
  <1>8. CASE FinishCycle(w) \/ AbortCycle(w) \/ FinishFails(w)
             \/ InterruptOutside(w) \/ Kill(w)
    BY <1>3, <1>8 DEF FinishCycle, AbortCycle, FinishFails, InterruptOutside, Kill
  <1> QED
    BY <1>1, <1>4, <1>5, <1>6, <1>7, <1>8 DEF Act, Step, DbFault

LEMMA ActKeepsBacked ==
    ASSUME WorkInv, TypeOK', NEW w \in Workers, Act(w), [Next]_vars
    PROVE  Backed(w)'
  <1> USE DEF Goto, db
  <1>0. TypeOK /\ Backed(w)
    BY RowsByWorker DEF WorkInv
  <1>1. CASE SaveBatch(w)
    <2>1. /\ pc'[w] = "stored" /\ got' = got /\ rows' = rows \cup Fetched(w)
          /\ report'[w].failed = Unanswered(w)
      BY <1>0, <1>1 DEF SaveBatch, TypeOK, Counts
    <2>2. ASSUME Unanswered(w) = 0, NEW h \in Hotspots
          PROVE  got'[w][h] # NoAnswer /\ Durable(w, h)'
      <3>1. h \in Answered(w)
        BY <2>2, AnsweredCounts
      <3>2. <<h, got[w][h]>> \in rows' /\ got[w][h] # NoAnswer
        BY <2>1, <3>1 DEF Fetched, Answered
      <3>3. got[w][h] \in 0..MaxTime
        BY <1>0 DEF TypeOK, Observed
      <3>4. got[w][h] >= got[w][h]
        BY <3>3, WorkerAssumption
      <3>5. Durable(w, h)'
        BY <2>1, <3>2, <3>4 DEF Durable
      <3> QED
        BY <2>1, <3>2, <3>5
    <2> QED
      BY <2>1, <2>2 DEF Backed
  <1>2. CASE SaveBatchFails(w)
    <2>1. /\ pc'[w] = "fallback" /\ got' = got /\ todo'[w] = Answered(w)
      BY <1>0, <1>2 DEF SaveBatchFails, TypeOK
    <2>2. Answered(w)' \ todo'[w] = {}
      BY <2>1 DEF Answered
    <2> QED
      BY <2>1, <2>2 DEF Backed
  <1>3. CASE FallbackSave(w)
    <2>1. PICK h \in todo[w] :
             /\ rows' = rows \cup {<<h, got[w][h]>>}
             /\ todo'[w] = todo[w] \ {h}
             /\ tally'[w].failed = tally[w].failed
             /\ pc[w] = "fallback" /\ pc' = pc /\ got' = got
      BY <1>0, <1>3 DEF FallbackSave, TypeOK, Counts
    <2>2. Answered(w)' = Answered(w) /\ Answered(w) \subseteq Hotspots
      BY <2>1 DEF Answered
    <2>3. ASSUME tally[w].failed = 0, NEW g \in Answered(w) \ todo'[w]
          PROVE  Durable(w, g)'
      <3>1. CASE g = h
        <4>1. <<g, got[w][g]>> \in rows'
          BY <2>1, <3>1
        <4>2. got[w][g] \in 0..MaxTime
          BY <1>0, <2>2 DEF TypeOK, Observed
        <4>3. got[w][g] >= got[w][g]
          BY <4>2, WorkerAssumption
        <4> QED
          BY <2>1, <4>1, <4>3 DEF Durable
      <3>2. CASE g # h
        <4>1. Durable(w, g)
          BY <1>0, <2>1, <2>3, <3>2 DEF Backed
        <4> QED
          BY <2>1, <2>2, <2>3, <4>1, DurablePersists
      <3> QED
        BY <3>1, <3>2
    <2> QED
      BY <2>1, <2>2, <2>3 DEF Backed
  <1>4. CASE FallbackError(w)
    <2>1. /\ pc'[w] = "fallback"
          /\ tally'[w].failed = tally[w].failed + 1
      BY <1>0, <1>4 DEF FallbackError, TypeOK, Counts
    <2>2. tally[w].failed \in Nat
      BY <1>0 DEF TypeOK, Tally
    <2> QED
      BY <2>1, <2>2 DEF Backed
  <1>5. CASE FallbackDone(w)
    <2>1. /\ pc'[w] = "stored" /\ got' = got /\ rows' = rows
          /\ report'[w].failed = Unanswered(w) + tally[w].failed
          /\ todo[w] = {} /\ pc[w] = "fallback"
      BY <1>0, <1>5 DEF FallbackDone, TypeOK, Counts
    <2>2. tally[w].failed \in Nat
      BY <1>0 DEF TypeOK, Tally
    <2>3. ASSUME report'[w].failed = 0, NEW h \in Hotspots
          PROVE  got'[w][h] # NoAnswer /\ Durable(w, h)'
      <3>1. Unanswered(w) = 0 /\ tally[w].failed = 0
        BY <2>1, <2>2, <2>3, AnsweredCounts
      <3>2. h \in Answered(w)
        BY <3>1, AnsweredCounts
      <3>3. Durable(w, h)
        BY <1>0, <2>1, <3>1, <3>2 DEF Backed
      <3> QED
        BY <2>1, <3>2, <3>3 DEF Durable, Answered
    <2> QED
      BY <2>1, <2>3 DEF Backed
  <1>6. CASE OpenCycle(w) \/ EnterTry(w) \/ PollReturns(w) \/ MarkUnsaved(w)
             \/ InterruptTry(w) \/ ScoringFails(w)
    <2>1. pc'[w] \in {"opened", "polling", "polled", "saving", "failing"}
      BY <1>0, <1>6 DEF OpenCycle, EnterTry, PollReturns, MarkUnsaved, InterruptTry,
                        ScoringFails, TypeOK
    <2> QED
      BY <2>1, BackedPersists
  <1>7. CASE AfterSave(w) \/ ReadLatest(w) \/ CommitScores(w)
    <2>1. /\ got' = got /\ report' = report
          /\ pc'[w] # "fallback" /\ pc[w] \in {"stored", "scoring", "computed"}
      BY <1>0, <1>7 DEF AfterSave, ReadLatest, CommitScores, TypeOK
    <2> QED
      BY <2>1, BackedPersists
  <1>8. CASE Classify(w) \/ SelectOld(w) \/ DeleteOld(w) \/ PruneFails(w)
    <2>1. /\ got' = got /\ report' = report
          /\ pc'[w] # "fallback" /\ pc[w] \in {"closing", "pruning", "deleting"}
      BY <1>0, <1>8 DEF Classify, SelectOld, DeleteOld, PruneFails, TypeOK
    <2> QED
      BY <2>1, BackedPersists
  <1>9. CASE FinishCycle(w) \/ AbortCycle(w) \/ FinishFails(w)
             \/ InterruptOutside(w) \/ Kill(w)
    <2>1. pc'[w] = "idle"
      BY <1>0, <1>9 DEF FinishCycle, AbortCycle, FinishFails, InterruptOutside, Kill,
                        Exit, TypeOK
    <2> QED
      BY <2>1, BackedPersists
  <1> QED
    BY <1>1, <1>2, <1>3, <1>4, <1>5, <1>6, <1>7, <1>8, <1>9 DEF Act, Step, DbFault

LEMMA NextKeepsRows ==
    ASSUME WorkInv, [Next]_vars
    PROVE  ReportBacked' /\ VictimsReplaced'
  <1>0. TypeOK /\ TypeOK'
    BY NextKeepsTypes DEF WorkInv
  <1>1. ASSUME NEW u \in Workers, Locals(u)' = Locals(u)
        PROVE  Backed(u)' /\ Replaced(u)'
    BY <1>0, <1>1, BackedPersists, ReplacedPersists DEF Locals
  <1>2. ASSUME NEW u \in Workers
        PROVE  Backed(u)' /\ Replaced(u)'
    <2>1. CASE Publish \/ UNCHANGED vars
      BY <1>1, <2>1 DEF Publish, vars, Locals
    <2>2. ASSUME NEW w \in Workers, Act(w)
          PROVE  Backed(u)' /\ Replaced(u)'
      BY <1>0, <1>1, <2>2, ActIsLocal, ActKeepsBacked, ActKeepsReplaced
    <2> QED
      BY <2>1, <2>2 DEF Next, Act
  <1> QED
    BY <1>2 DEF ReportBacked, VictimsReplaced, Backed, Replaced

-----------------------------------------------------------------------------
(* Theorems. *)

\* Whatever workers, faults and signals do, the inductive invariant holds.
THEOREM WorkInvariant == Spec => []WorkInv
  <1>1. WorkInv /\ [Next]_vars => WorkInv'
    BY NextKeepsTypes, NextKeepsOwnership, NextKeepsCounts, NextKeepsRows DEF WorkInv
  <1> QED
    BY <1>1, InitEstablishesWorkInv, PTL DEF Spec

\* Every variable of the ingest model keeps its type.
THEOREM WorkTypes == Spec => []TypeOK
  <1>1. WorkInv => TypeOK
    BY DEF WorkInv
  <1> QED
    BY <1>1, WorkInvariant, PTL

\* The worker implements the abstract ledger: each cycle is opened running,
\* closed at most once, by its own worker, to a lawful record.
THEOREM WorkersKeepLedger == Spec => KeepsLedger
  <1>1. Init => Ledger!Init
    BY DEF Init, Ledger!Init
  <1>2. WorkInv /\ [Next]_vars => [Ledger!Next]_cycles
    BY NextIsLedgerStep
  <1>3. Spec => Ledger!Init /\ [][Ledger!Next]_cycles
    BY <1>1, <1>2, WorkInvariant, PTL DEF Spec
  <1> QED
    BY <1>3, PTL DEF KeepsLedger, Ledger!Spec

\* A cycle published as complete is backed by a stored snapshot, no older than
\* the one it fetched, of every hotspot.
THEOREM CompleteCyclesAreDurable == Spec => []CompleteIsDurable
  <1>1. WorkInv => CompleteIsDurable
    <2> SUFFICES ASSUME WorkInv, NEW w \in Workers, status[w] = "complete",
                        NEW h \in Hotspots
                 PROVE  got[w][h] # NoAnswer /\ Durable(w, h)
      BY DEF CompleteIsDurable
    <2>1. pc[w] \in {"pruning", "deleting", "finishing"} /\ IsComplete(report[w])
      BY DEF WorkInv, StatusJustified
    <2>2. report[w].failed = 0
      BY <2>1 DEF IsComplete
    <2> QED
      BY <2>1, <2>2 DEF WorkInv, ReportBacked
  <1> QED
    BY <1>1, WorkInvariant, PTL

\* No step, prune or race of two prunes leaves a hotspot's newest snapshot older.
THEOREM NewestSnapshotsPersist == Spec => LatestNeverMovesBack
  <1>1. WorkInv /\ [Next]_vars =>
          [\A r \in rows : \E q \in rows' : q[1] = r[1] /\ q[2] >= r[2]]_vars
    BY NextKeepsNewest
  <1> QED
    BY <1>1, WorkInvariant, PTL DEF Spec, LatestNeverMovesBack


-----------------------------------------------------------------------------
(* Who closes a running cycle.                                               *)

\* A cycle that was cut short stays so.
LEMMA CutGrows ==
    ASSUME [Next]_vars
    PROVE  cut \subseteq cut'
  <1>1. CASE Publish \/ UNCHANGED vars
    BY <1>1 DEF Publish, vars
  <1>2. ASSUME NEW w \in Workers, OpenCycle(w) \/ Step(w)
        PROVE  cut \subseteq cut'
    BY <1>2 DEF OpenCycle, Step, db, EnterTry, PollReturns, MarkUnsaved, SaveBatch,
           FallbackSave, FallbackDone, AfterSave, ReadLatest, CommitScores, Classify,
           SelectOld, DeleteOld, FinishCycle, AbortCycle
  <1>3. ASSUME NEW w \in Workers, DbFault(w)
        PROVE  cut \subseteq cut'
    BY <1>3 DEF DbFault, SaveBatchFails, FallbackError, ScoringFails, PruneFails, FinishFails
  <1>4. ASSUME NEW w \in Workers, InterruptTry(w) \/ InterruptOutside(w) \/ Kill(w)
        PROVE  cut \subseteq cut'
    BY <1>4 DEF InterruptTry, InterruptOutside, Kill
  <1> QED
    BY <1>1, <1>2, <1>3, <1>4 DEF Next

\* A step leaves w's cycle to nobody.
CutHere(w) == <<cyc[w], "outside">> \in cut' \/ <<cyc[w], "lost">> \in cut'

LEMMA NextKeepsHeld ==
    ASSUME WorkInv, NoStrandedCycle, [Next]_vars
    PROVE  NoStrandedCycle'
  <1>0. pc \in [Workers -> Places] /\ cyc \in [Workers -> Nat] /\ cycles \in Seq(Cycle)
    BY DEF WorkInv, TypeOK
  <1>c. \A i : Abandoned(i) => Abandoned(i)'
    BY CutGrows DEF Abandoned
  <1>1. ASSUME cycles' = cycles, cyc' = cyc,
               \A u \in Workers : pc[u] # "idle" => pc'[u] # "idle"
        PROVE  NoStrandedCycle'
    <2>1. \A i : Held(i) => Held(i)'
      BY <1>1 DEF Held
    <2> QED
      BY <1>1, <1>c, <2>1 DEF NoStrandedCycle
  <1>2. ASSUME NEW w \in Workers, OpenCycle(w)
        PROVE  NoStrandedCycle'
    <2>1. /\ cycles' = Append(cycles, Ledger!Opened)
          /\ cyc' = [cyc EXCEPT ![w] = Len(cycles) + 1]
          /\ pc[w] = "idle" /\ pc' = [pc EXCEPT ![w] = "opened"]
      BY <1>2 DEF OpenCycle, Goto, Ledger!Opened
    <2>2. /\ DOMAIN cycles' = DOMAIN cycles \cup {Len(cycles) + 1}
          /\ \A i \in DOMAIN cycles : cycles'[i] = cycles[i]
      <3> HIDE DEF Cycle
      <3> QED
        BY <1>0, <2>1
    <2>3. ASSUME NEW i \in DOMAIN cycles', cycles'[i].status = "running"
          PROVE  Held(i)' \/ Abandoned(i)'
      <3>1. CASE i = Len(cycles) + 1
        BY <1>0, <2>1, <3>1 DEF Held
      <3>2. CASE i \in DOMAIN cycles /\ Held(i)
        <4>1. PICK u \in Workers : pc[u] # "idle" /\ cyc[u] = i
          BY <3>2 DEF Held
        <4> QED
          BY <1>0, <2>1, <4>1 DEF Held
      <3>3. i \in DOMAIN cycles => Held(i) \/ Abandoned(i)
        BY <2>2, <2>3 DEF NoStrandedCycle
      <3> QED
        BY <1>c, <2>2, <3>1, <3>2, <3>3
    <2> QED
      BY <2>3 DEF NoStrandedCycle
  <1>3. ASSUME NEW w \in Workers, pc[w] # "idle", Exit(w),
               \/ \E st \in Ledger!Final : cycles' = Closed(w, st)
               \/ cycles' = cycles /\ CutHere(w)
        PROVE  NoStrandedCycle'
    <2>1. cyc[w] \in DOMAIN cycles /\ cycles[cyc[w]] \in Cycle
      BY <1>0, <1>3 DEF WorkInv, OwnsCycle
    <2>2. /\ DOMAIN cycles' = DOMAIN cycles
          /\ \A i \in DOMAIN cycles : i # cyc[w] => cycles'[i] = cycles[i]
          /\ cycles'[cyc[w]].status = "running" => CutHere(w)
      BY <1>3, <2>1 DEF Closed, Cycle, Ledger!Final
    <2>3. /\ pc' = [pc EXCEPT ![w] = "idle"] /\ cyc' = [cyc EXCEPT ![w] = 0]
      BY <1>3 DEF Exit
    <2>4. ASSUME NEW i \in DOMAIN cycles', cycles'[i].status = "running", i # cyc[w]
          PROVE  Held(i)' \/ Abandoned(i)'
      <3>1. Held(i) \/ Abandoned(i)
        BY <2>2, <2>4 DEF NoStrandedCycle
      <3>2. CASE Held(i)
        <4>1. PICK u \in Workers : pc[u] # "idle" /\ cyc[u] = i
          BY <3>2 DEF Held
        <4> QED
          BY <1>0, <2>3, <2>4, <4>1 DEF Held
      <3> QED
        BY <1>c, <3>1, <3>2
    <2>5. ASSUME NEW i \in DOMAIN cycles', cycles'[i].status = "running", i = cyc[w]
          PROVE  Abandoned(i)'
      BY <2>2, <2>5 DEF CutHere, Abandoned
    <2> QED
      BY <2>4, <2>5 DEF NoStrandedCycle
  <1>4. ASSUME NEW w \in Workers, Step(w)
        PROVE  NoStrandedCycle'
    <2>1. CASE EnterTry(w) \/ PollReturns(w) \/ MarkUnsaved(w) \/ SaveBatch(w)
      BY <1>0, <1>1, <2>1 DEF EnterTry, PollReturns, MarkUnsaved, SaveBatch, Goto, db
    <2>2. CASE FallbackSave(w) \/ FallbackDone(w) \/ AfterSave(w) \/ ReadLatest(w)
      BY <1>0, <1>1, <2>2 DEF FallbackSave, FallbackDone, AfterSave, ReadLatest, Goto, db
    <2>3. CASE CommitScores(w) \/ Classify(w) \/ SelectOld(w) \/ DeleteOld(w)
      BY <1>0, <1>1, <2>3 DEF CommitScores, Classify, SelectOld, DeleteOld, Goto, db
    <2>4. CASE FinishCycle(w)
      <3>1. /\ pc[w] # "idle" /\ Exit(w) /\ cycles' = Closed(w, status[w])
            /\ status[w] \in Ledger!Final
        BY <2>4 DEF FinishCycle, WorkInv, StatusJustified
      <3> QED
        BY <1>3, <3>1
    <2>5. CASE AbortCycle(w)
      <3>1. /\ pc[w] # "idle" /\ Exit(w) /\ cycles' = Closed(w, "failed")
            /\ "failed" \in Ledger!Final
        BY <2>5 DEF AbortCycle, Ledger!Final
      <3> QED
        BY <1>3, <3>1
    <2> QED
      BY <1>4, <2>1, <2>2, <2>3, <2>4, <2>5 DEF Step
  <1>5. ASSUME NEW w \in Workers, InterruptTry(w)
        PROVE  NoStrandedCycle'
    BY <1>0, <1>1, <1>5 DEF InterruptTry, Goto
  <1>6. ASSUME NEW w \in Workers, InterruptOutside(w) \/ Kill(w)
        PROVE  NoStrandedCycle'
    <2>1. pc[w] # "idle" /\ Exit(w) /\ cycles' = cycles /\ CutHere(w)
      BY <1>6 DEF InterruptOutside, Kill, OutsideTry, CutHere
    <2> QED
      BY <1>3, <2>1
  <1>7. CASE Publish \/ UNCHANGED vars
    BY <1>1, <1>7 DEF Publish, vars
  <1>8. ASSUME NEW w \in Workers, DbFault(w)
        PROVE  NoStrandedCycle'
    <2>1. CASE SaveBatchFails(w) \/ FallbackError(w) \/ ScoringFails(w) \/ PruneFails(w)
      BY <1>0, <1>1, <2>1 DEF SaveBatchFails, FallbackError, ScoringFails, PruneFails, Goto
    <2>2. CASE FinishFails(w)
      <3> DEFINE st == IF pc[w] = "failing" THEN "failed" ELSE status[w]
      <3>1. /\ pc[w] \in {"finishing", "failing"} /\ Exit(w)
            /\ cycles' \in {cycles, Closed(w, st)}
            /\ CutHere(w)
        BY <2>2 DEF FinishFails, CutHere
      <3>2. st \in Ledger!Final
        BY <3>1 DEF WorkInv, StatusJustified, Ledger!Final
      <3> HIDE DEF st
      <3> QED
        BY <1>3, <3>1, <3>2
    <2> QED
      BY <1>8, <2>1, <2>2 DEF DbFault
  <1> QED
    BY <1>2, <1>4, <1>5, <1>6, <1>7, <1>8 DEF Next

\* However many workers there are and whatever faults they meet, a running cycle
\* has a process that will close it, or one that was taken away where no handler
\* is: by SIGINT outside the try block, by a kill, or by a close that raised.
THEOREM InterruptedCyclesAreHeld == Spec => []NoStrandedCycle
  <1>1. Init => NoStrandedCycle
    BY DEF Init, NoStrandedCycle
  <1>2. WorkInv /\ NoStrandedCycle /\ [Next]_vars => NoStrandedCycle'
    BY NextKeepsHeld
  <1> QED
    BY <1>1, <1>2, WorkInvariant, PTL DEF Spec

-----------------------------------------------------------------------------
(* What a report counts as saved.                                            *)

Kept(w) == {h \in Answered(w) : Durable(w, h)}

\* The report of w is no longer, or not to be published as, the poll's own.
Reported(w) == pc[w] # "polled" /\ <<cyc[w], "polled">> \notin cut

SavedBacked(w) ==
    /\ Reported(w) => report[w].saved <= Cardinality(Kept(w))
    /\ pc[w] = "fallback" => tally[w].saved <= Cardinality(Kept(w) \ todo[w])

LEMMA SavedByWorker == SavedIsDurable <=> \A w \in Workers : SavedBacked(w)
  BY DEF SavedIsDurable, SavedBacked, Kept, Reported

\* Among the answers, a larger set is at least as large.
LEMMA KeptCounts ==
    ASSUME NEW S \in SUBSET Hotspots, NEW T \in SUBSET S
    PROVE  /\ IsFiniteSet(S) /\ Cardinality(S) \in Nat
           /\ Cardinality(T) \in Nat /\ Cardinality(T) <= Cardinality(S)
  <1>1. IsFiniteSet(S)
    BY WorkerAssumption, FS_Subset
  <1>2. IsFiniteSet(T) /\ Cardinality(T) <= Cardinality(S)
    BY <1>1, FS_Subset
  <1> QED
    BY <1>1, <1>2, FS_CardinalityType

\* While a worker keeps its answers, it loses none that the table has.
LEMMA KeptGrows ==
    ASSUME WorkInv, TypeOK', [Next]_vars, NEW u \in Workers, got'[u] = got[u]
    PROVE  Kept(u) \subseteq Kept(u)' /\ Kept(u)' \subseteq Hotspots
  <1>1. Answered(u)' = Answered(u) /\ Answered(u) \subseteq Hotspots
    BY DEF Answered
  <1>2. \A h \in Hotspots : Durable(u, h) => Durable(u, h)'
    BY DurablePersists
  <1> QED
    BY <1>1, <1>2 DEF Kept

\* A step that raises neither counter keeps both backed.
LEMMA SavedPersists ==
    ASSUME WorkInv, TypeOK', [Next]_vars, NEW u \in Workers, SavedBacked(u),
           \/ report'[u].saved = 0 /\ pc'[u] # "fallback"
           \/ pc'[u] = "polled"
           \/ /\ got'[u] = got[u] /\ report'[u] = report[u]
              /\ Reported(u)' => Reported(u)
              /\ pc'[u] = "fallback" =>
                    /\ pc[u] = "fallback"
                    /\ tally'[u] = tally[u] /\ todo'[u] = todo[u]
    PROVE  SavedBacked(u)'
  <1>1. CASE pc'[u] = "polled"
    BY <1>1 DEF SavedBacked, Reported
  <1>2. CASE report'[u].saved = 0 /\ pc'[u] # "fallback"
    <2>1. Kept(u)' \in SUBSET Hotspots
      BY DEF Kept, Answered
    <2>2. Cardinality(Kept(u)') \in Nat
      BY <2>1, KeptCounts
    <2> QED
      BY <1>2, <2>2 DEF SavedBacked
  <1>3. CASE /\ got'[u] = got[u] /\ report'[u] = report[u]
             /\ Reported(u)' => Reported(u)
             /\ pc'[u] = "fallback" =>
                   pc[u] = "fallback" /\ tally'[u] = tally[u] /\ todo'[u] = todo[u]
    <2>1. Kept(u) \subseteq Kept(u)' /\ Kept(u)' \subseteq Hotspots
      BY <1>3, KeptGrows
    <2>2. /\ Cardinality(Kept(u)) <= Cardinality(Kept(u)')
          /\ Cardinality(Kept(u)) \in Nat /\ Cardinality(Kept(u)') \in Nat
      BY <2>1, KeptCounts
    <2>3. Kept(u)' \ todo[u] \in SUBSET Hotspots /\ Kept(u) \ todo[u] \in SUBSET (Kept(u)' \ todo[u])
      BY <2>1
    <2>4. /\ Cardinality(Kept(u) \ todo[u]) <= Cardinality(Kept(u)' \ todo[u])
          /\ Cardinality(Kept(u) \ todo[u]) \in Nat /\ Cardinality(Kept(u)' \ todo[u]) \in Nat
      BY <2>3, KeptCounts
    <2>5. report[u].saved \in Nat /\ tally[u].saved \in Nat
      BY DEF WorkInv, TypeOK, Tally
    <2>6. Reported(u)' => report'[u].saved <= Cardinality(Kept(u)')
      BY <1>3, <2>2, <2>5 DEF SavedBacked
    <2>7. ASSUME pc'[u] = "fallback"
          PROVE  tally'[u].saved <= Cardinality(Kept(u)' \ todo'[u])
      <3>1. pc[u] = "fallback" /\ tally'[u] = tally[u] /\ todo'[u] = todo[u]
        BY <1>3, <2>7
      <3>2. tally[u].saved <= Cardinality(Kept(u) \ todo[u])
        BY <3>1 DEF SavedBacked
      <3>3. tally[u].saved <= Cardinality(Kept(u)' \ todo[u])
        BY <2>4, <2>5, <3>2
      <3> QED
        BY <3>1, <3>3
    <2> QED
      BY <2>6, <2>7 DEF SavedBacked
  <1> QED
    BY <1>1, <1>2, <1>3

\* The fallback counts a record as saved once it has stored it.
LEMMA FallbackKeepsSaved ==
    ASSUME WorkInv, TypeOK', [Next]_vars, NEW w \in Workers, SavedBacked(w),
           FallbackSave(w) \/ FallbackError(w)
    PROVE  SavedBacked(w)'
  <1>0. TypeOK
    BY DEF WorkInv
  <1>1. PICK h \in todo[w], s \in {0, 1} :
           /\ tally'[w].saved = tally[w].saved + s
           /\ todo'[w] = todo[w] \ {h} /\ todo' = [todo EXCEPT ![w] = @ \ {h}]
           /\ s = 1 => rows' = rows \cup {<<h, got[w][h]>>}
           /\ pc[w] = "fallback" /\ pc' = pc /\ got' = got /\ report' = report
    <2>1. tally[w].saved \in Nat
      BY <1>0 DEF TypeOK, Tally
    <2>2. CASE FallbackSave(w)
      <3>1. PICK h \in todo[w] :
               /\ rows' = rows \cup {<<h, got[w][h]>>}
               /\ \E i \in {tally[w].inserted, tally[w].inserted + 1} :
                     tally' = [tally EXCEPT ![w] =
                                  Counts(tally[w].saved + 1, tally[w].failed, i)]
               /\ todo' = [todo EXCEPT ![w] = @ \ {h}]
        BY <2>2 DEF FallbackSave
      <3>2. tally'[w].saved = tally[w].saved + 1 /\ todo'[w] = todo[w] \ {h}
        BY <1>0, <3>1 DEF TypeOK, Counts
      <3> QED
        BY <2>2, <3>1, <3>2 DEF FallbackSave
    <2>3. CASE FallbackError(w)
      <3>1. PICK h \in todo[w] :
               /\ tally' = [tally EXCEPT ![w] =
                               Counts(tally[w].saved, tally[w].failed + 1, tally[w].inserted)]
               /\ todo' = [todo EXCEPT ![w] = @ \ {h}]
        BY <2>3 DEF FallbackError
      <3>2. tally'[w].saved = tally[w].saved /\ todo'[w] = todo[w] \ {h}
        BY <1>0, <3>1 DEF TypeOK, Counts
      <3>3. /\ tally'[w].saved = tally[w].saved + 0 /\ 0 \in {0, 1} /\ 0 # 1
            /\ pc[w] = "fallback" /\ pc' = pc /\ got' = got /\ report' = report
        BY <2>1, <2>3, <3>2 DEF FallbackError
      <3> WITNESS h \in todo[w], 0 \in {0, 1}
      <3> QED
        BY <3>1, <3>2, <3>3
    <2> QED
      BY <2>2, <2>3
  <1>2. Kept(w) \subseteq Kept(w)' /\ Kept(w)' \subseteq Hotspots
    BY <1>1, KeptGrows
  <1>3. report[w].saved \in Nat /\ tally[w].saved \in Nat
    BY <1>0 DEF TypeOK, Tally
  <1>4. Reported(w)' => report'[w].saved <= Cardinality(Kept(w)')
    <2>0. Reported(w)' => Reported(w)
      <3>1. cyc' = cyc
        BY DEF FallbackSave, FallbackError
      <3> QED
        BY <1>1, <3>1, CutGrows DEF Reported
    <2>1. /\ Cardinality(Kept(w)) <= Cardinality(Kept(w)')
          /\ Cardinality(Kept(w)) \in Nat /\ Cardinality(Kept(w)') \in Nat
      BY <1>2, KeptCounts
    <2> QED
      BY <1>1, <1>3, <2>0, <2>1 DEF SavedBacked
  <1>5. tally'[w].saved <= Cardinality(Kept(w)' \ todo'[w])
    <2> DEFINE before == Kept(w) \ todo[w]
               after == Kept(w)' \ todo'[w]
    <2>1. before \in SUBSET Hotspots /\ after \in SUBSET Hotspots /\ before \in SUBSET after
          /\ h \notin before
      BY <1>1, <1>2
    <2>2. /\ IsFiniteSet(before) /\ Cardinality(before) \in Nat
          /\ Cardinality(after) \in Nat /\ Cardinality(before) <= Cardinality(after)
      BY <2>1, KeptCounts
    <2>3. tally[w].saved <= Cardinality(before)
      BY <1>1 DEF SavedBacked
    <2>4. CASE s = 0
      BY <1>1, <1>3, <2>2, <2>3, <2>4
    <2>5. CASE s = 1
      <3>1. h \in Answered(w) /\ todo[w] \subseteq Hotspots
        BY <1>0, <1>1 DEF WorkInv, FallbackAccounts, TypeOK
      <3>2. got[w][h] \in Times
        BY <1>0, <3>1, WorkerAssumption DEF Answered, TypeOK, Observed, NoAnswer, Times
      <3>3. Durable(w, h)' /\ h \in Answered(w)'
        <4>1. <<h, got[w][h]>> \in rows' /\ got[w][h] >= got[w][h]
          BY <1>1, <2>5, <3>2 DEF Times
        <4> QED
          BY <1>1, <3>1, <4>1 DEF Durable, Answered
      <3>4. before \cup {h} \in SUBSET after
        BY <1>1, <2>1, <3>3 DEF Kept
      <3>5. Cardinality(before \cup {h}) = Cardinality(before) + 1
        <4> HIDE DEF before
        <4> QED
          BY <2>1, <2>2, FS_AddElement
      <3>6. Cardinality(before \cup {h}) <= Cardinality(after)
        <4> HIDE DEF before, after
        <4> QED
          BY <2>1, <3>4, KeptCounts
      <3> HIDE DEF before, after
      <3>7. tally[w].saved + 1 <= Cardinality(after)
        BY <1>3, <2>2, <2>3, <3>5, <3>6
      <3> QED
        BY <1>1, <2>5, <3>7 DEF after
    <2> QED
      BY <1>1, <2>4, <2>5
  <1> QED
    BY <1>4, <1>5 DEF SavedBacked

LEMMA ActKeepsSaved ==
    ASSUME WorkInv, TypeOK', [Next]_vars, NEW w \in Workers, SavedBacked(w), Act(w)
    PROVE  SavedBacked(w)'
  <1> USE DEF Goto, db
  <1>0. TypeOK
    BY DEF WorkInv
  <1>1. CASE OpenCycle(w) \/ MarkUnsaved(w)
    <2>1. report'[w].saved = 0 /\ pc'[w] # "fallback"
      BY <1>0, <1>1 DEF OpenCycle, MarkUnsaved, TypeOK, Counts
    <2> QED
      BY <2>1, SavedPersists
  <1>2. CASE PollReturns(w)
    <2>1. pc'[w] = "polled"
      BY <1>0, <1>2 DEF PollReturns, TypeOK
    <2> QED
      BY <2>1, SavedPersists
  <1>3. CASE SaveBatch(w)
    <2>1. /\ pc'[w] = "stored" /\ got' = got /\ rows' = rows \cup Fetched(w)
          /\ report'[w].saved = Cardinality(Answered(w))
      BY <1>0, <1>3 DEF SaveBatch, TypeOK, Counts
    <2>2. Answered(w)' = Answered(w)
      BY <2>1 DEF Answered
    <2>3. ASSUME NEW h \in Answered(w)
          PROVE  Durable(w, h)'
      <3>1. got[w][h] \in 0..MaxTime
        BY <1>0, <2>3 DEF TypeOK, Observed, Answered
      <3>2. <<h, got[w][h]>> \in rows' /\ got[w][h] >= got[w][h]
        BY <2>1, <2>3, <3>1, WorkerAssumption DEF Fetched
      <3> QED
        BY <2>1, <3>2 DEF Durable
    <2>4. Kept(w)' = Answered(w)
      BY <2>2, <2>3 DEF Kept
    <2>5. report'[w].saved <= Cardinality(Kept(w)')
      BY <2>1, <2>4, AnsweredCounts
    <2> QED
      BY <2>1, <2>5 DEF SavedBacked
  <1>4. CASE SaveBatchFails(w)
    <2>1. /\ pc[w] = "saving" /\ pc'[w] = "fallback" /\ got' = got /\ report' = report
          /\ tally' = tally /\ cyc' = cyc
      BY <1>0, <1>4 DEF SaveBatchFails, TypeOK
    <2>2. tally'[w].saved = 0
      BY <2>1 DEF WorkInv, FallbackAccounts, Counts
    <2>3. Kept(w) \subseteq Kept(w)' /\ Kept(w)' \subseteq Hotspots
      BY <2>1, KeptGrows
    <2>4. /\ Cardinality(Kept(w)) <= Cardinality(Kept(w)')
          /\ Cardinality(Kept(w)) \in Nat /\ Cardinality(Kept(w)') \in Nat
      BY <2>3, KeptCounts
    <2>5. Cardinality(Kept(w)' \ todo'[w]) \in Nat
      BY <2>3, KeptCounts
    <2>6. /\ Reported(w)' => Reported(w)
          /\ report[w].saved \in Nat
          /\ Reported(w) => report[w].saved <= Cardinality(Kept(w))
      BY <1>0, <2>1, CutGrows DEF TypeOK, Tally, SavedBacked, Reported
    <2>7. Reported(w)' => report'[w].saved <= Cardinality(Kept(w)')
      BY <2>1, <2>4, <2>6
    <2>8. tally'[w].saved <= Cardinality(Kept(w)' \ todo'[w])
      BY <2>2, <2>5
    <2> QED
      BY <2>7, <2>8 DEF SavedBacked
  <1>5. CASE FallbackSave(w) \/ FallbackError(w)
    BY <1>5, FallbackKeepsSaved
  <1>6. CASE FallbackDone(w)
    <2>1. /\ pc[w] = "fallback" /\ pc'[w] = "stored" /\ got' = got /\ rows' = rows
          /\ todo[w] = {} /\ report'[w].saved = tally[w].saved
      BY <1>0, <1>6 DEF FallbackDone, TypeOK, Counts
    <2>2. Kept(w)' = Kept(w) /\ Kept(w) \ todo[w] = Kept(w)
      BY <2>1 DEF Kept, Answered, Durable
    <2>3. tally[w].saved <= Cardinality(Kept(w) \ todo[w])
      BY <2>1 DEF SavedBacked
    <2>4. report'[w].saved <= Cardinality(Kept(w)')
      BY <2>1, <2>2, <2>3
    <2> QED
      BY <2>1, <2>4 DEF SavedBacked
  <1>7. CASE EnterTry(w) \/ AfterSave(w) \/ ReadLatest(w) \/ CommitScores(w)
             \/ Classify(w) \/ SelectOld(w) \/ DeleteOld(w) \/ ScoringFails(w) \/ PruneFails(w)
    <2>1. /\ got' = got /\ report' = report /\ cyc' = cyc
          /\ pc[w] # "polled" /\ pc'[w] # "fallback"
      BY <1>0, <1>7 DEF EnterTry, AfterSave, ReadLatest, CommitScores, Classify, SelectOld,
                        DeleteOld, ScoringFails, PruneFails, TypeOK
    <2>2. Reported(w)' => Reported(w)
      BY <2>1, CutGrows DEF Reported
    <2> QED
      BY <2>1, <2>2, SavedPersists
  <1>8. CASE InterruptTry(w)
    <2>1. /\ got' = got /\ report' = report /\ cyc' = cyc
          /\ pc'[w] # "fallback"
          /\ pc[w] = "polled" => <<cyc[w], "polled">> \in cut'
      BY <1>0, <1>8 DEF InterruptTry, TypeOK
    <2>2. Reported(w)' => Reported(w)
      BY <2>1, CutGrows DEF Reported
    <2> QED
      BY <2>1, <2>2, SavedPersists
  <1>9. CASE FinishCycle(w) \/ AbortCycle(w) \/ FinishFails(w)
             \/ InterruptOutside(w) \/ Kill(w)
    <2>1. report'[w].saved = 0 /\ pc'[w] # "fallback"
      BY <1>0, <1>9 DEF FinishCycle, AbortCycle, FinishFails, InterruptOutside, Kill,
                        Exit, Counts, TypeOK
    <2> QED
      BY <2>1, SavedPersists
  <1> QED
    BY <1>1, <1>2, <1>3, <1>4, <1>5, <1>6, <1>7, <1>8, <1>9 DEF Act, Step, DbFault

LEMMA NextKeepsSaved ==
    ASSUME WorkInv, SavedIsDurable, [Next]_vars
    PROVE  SavedIsDurable'
  <1>0. TypeOK /\ TypeOK'
    BY NextKeepsTypes DEF WorkInv
  <1>1. ASSUME NEW u \in Workers, Locals(u)' = Locals(u)
        PROVE  SavedBacked(u)'
    <2>1. SavedBacked(u)
      BY SavedByWorker
    <2>2. /\ got'[u] = got[u] /\ report'[u] = report[u] /\ pc'[u] = pc[u]
          /\ cyc'[u] = cyc[u] /\ tally'[u] = tally[u] /\ todo'[u] = todo[u]
      BY <1>1 DEF Locals
    <2>3. Reported(u)' => Reported(u)
      BY <2>2, CutGrows DEF Reported
    <2> QED
      BY <1>0, <2>1, <2>2, <2>3, SavedPersists
  <1>2. ASSUME NEW u \in Workers
        PROVE  SavedBacked(u)'
    <2>0. SavedBacked(u)
      BY SavedByWorker
    <2>1. CASE Publish \/ UNCHANGED vars
      BY <1>1, <2>1 DEF Publish, vars, Locals
    <2>2. ASSUME NEW w \in Workers, Act(w)
          PROVE  SavedBacked(u)'
      <3>1. CASE u = w
        BY <1>0, <2>0, <2>2, <3>1, ActKeepsSaved
      <3>2. CASE u # w
        BY <1>0, <1>1, <2>2, <3>2, ActIsLocal
      <3> QED
        BY <3>1, <3>2
    <2> QED
      BY <2>1, <2>2 DEF Next, Act
  <1> QED
    BY <1>2 DEF SavedIsDurable, SavedBacked, Kept, Reported

\* Neither the handler nor finish_cycle ever publishes a count of saved targets
\* that the table does not have: with any number of workers, any database
\* errors, kills and interrupts, a cycle is closed with counts the table backs,
\* unless SIGINT took that very cycle between the poll's return and the line that
\* takes its report back.
THEOREM SavedCountsAreDurable ==
    Spec => [](SavedIsDurable /\ PublishedSavedIsDurable)
  <1>1. Init => SavedIsDurable
    <2> SUFFICES ASSUME Init, NEW w \in Workers PROVE SavedBacked(w)
      BY SavedByWorker
    <2>1. Cardinality(Kept(w)) \in Nat
      BY KeptCounts DEF Kept, Answered
    <2> QED
      BY <2>1 DEF Init, SavedBacked, Counts
  <1>2. WorkInv /\ SavedIsDurable /\ [Next]_vars => SavedIsDurable'
    BY NextKeepsSaved
  <1>3. SavedIsDurable => PublishedSavedIsDurable
    BY DEF SavedIsDurable, PublishedSavedIsDurable
  <1> QED
    BY <1>1, <1>2, <1>3, WorkInvariant, PTL DEF Spec

-----------------------------------------------------------------------------
(* The scores of a worker that is alone.                                     *)

LEMMA NewestOfIs ==
    ASSUME NEW S, S \subseteq 0..MaxTime, NEW t \in S, \A u \in S : u <= t
    PROVE  NewestOf(S) = t
  <1>1. NewestOf(S) = CHOOSE x \in S : \A u \in S : u <= x
    BY DEF NewestOf
  <1>2. NewestOf(S) \in S /\ \A u \in S : u <= NewestOf(S)
    <2>1. \E x \in S : \A u \in S : u <= x
      OBVIOUS
    <2> QED
      BY <1>1, <2>1
  <1>3. NewestOf(S) <= t /\ t <= NewestOf(S)
    BY <1>2
  <1>4. t \in 0..MaxTime /\ NewestOf(S) \in 0..MaxTime
    BY <1>2
  <1> QED
    BY <1>3, <1>4, WorkerAssumption

\* A step that stores nothing leaves what the scores call latest alone, even
\* when it prunes.
LEMMA LatestStays ==
    ASSUME WorkInv, [Next]_vars, rows' \subseteq rows
    PROVE  Latest' = Latest
  <1>1. ASSUME NEW h \in Hotspots
        PROVE  NewestOf(TimesOf(h)) = NewestOf(TimesOf(h)')
    <2>0. TimesOf(h)' \subseteq TimesOf(h) /\ TimesOf(h) \subseteq 0..MaxTime
      BY WorkerAssumption DEF TimesOf, WorkInv, TypeOK, Times
    <2>1. CASE TimesOf(h) = {}
      BY <2>0, <2>1
    <2>2. CASE TimesOf(h) # {}
      <3>1. PICK r \in rows : r[1] = h
        BY <2>2 DEF TimesOf
      <3>2. PICK m \in rows : m[1] = h /\ m[2] \in Times
                              /\ \A q \in rows : q[1] = h => q[2] <= m[2]
        BY <3>1, NewestRow DEF WorkInv, TypeOK
      <3>3. PICK q \in rows' : q[1] = h /\ q[2] >= m[2]
        BY <3>2, NextKeepsNewest
      <3>4. q[2] = m[2]
        <4>1. q[2] <= m[2] /\ q[2] \in Times
          BY <3>2, <3>3 DEF WorkInv, TypeOK
        <4> QED
          BY <3>2, <3>3, <4>1 DEF Times
      <3>5. m[2] \in TimesOf(h)' /\ m[2] \in TimesOf(h) /\ \A u \in TimesOf(h) : u <= m[2]
        BY <3>2, <3>3, <3>4 DEF TimesOf
      <3>6. NewestOf(TimesOf(h)) = m[2]
        BY <2>0, <3>5, NewestOfIs
      <3>7. TimesOf(h)' \subseteq 0..MaxTime /\ \A u \in TimesOf(h)' : u <= m[2]
        BY <2>0, <3>5
      <3>8. NewestOf(TimesOf(h)') = m[2]
        BY <3>5, <3>7, NewestOfIs
      <3> QED
        BY <3>6, <3>8
    <2> QED
      BY <2>1, <2>2
  <1>2. \A h \in Hotspots : NewestOf(TimesOf(h))' = NewestOf(TimesOf(h)')
    BY DEF NewestOf
  <1> QED
    BY <1>1, <1>2 DEF Latest

Follows(w) ==
    /\ pc[w] # "fallback"
    /\ pc[w] = "computed" => view[w] = Latest
    /\ /\ Untainted(w)
       /\ pc[w] = "stored" => report[w].inserted = 0
       /\ pc[w] \notin {"scoring", "computed", "failing"}
       => scored = Latest

\* A step on the way that stores nothing and leaves the scores alone.
LEMMA FollowsPersists ==
    ASSUME WorkInv, [Next]_vars, NEW w \in Workers, Follows(w),
           rows' \subseteq rows, scored' = scored, Untainted(w)' => Untainted(w),
           pc'[w] \notin {"fallback", "computed"},
           \/ pc'[w] \in {"scoring", "failing"}
           \/ /\ pc[w] \notin {"scoring", "computed", "failing"}
              /\ pc[w] = "stored" => report[w].inserted = 0
    PROVE  Follows(w)'
  <1>1. Latest' = Latest
    BY LatestStays
  <1> QED
    BY <1>1 DEF Follows

\* Nobody but w itself is cut outside its try block in this step.
OwnCut(w) == \A i \in DOMAIN cycles : i # cyc[w] /\ <<i, "outside">> \in cut' => <<i, "outside">> \in cut

\* A worker that goes on taints nothing that was not, nor one whose cycle SIGINT
\* ends outside the try block; one that is lost or fails taints its own cycle.
LEMMA TaintIs ==
    ASSUME WorkInv, NEW w \in Workers, OwnCut(w), pc[w] # "idle"
    PROVE  /\ cycles' = cycles /\ (cyc'[w] = cyc[w] \/ pc'[w] = "idle") =>
                 (Untainted(w)' => Untainted(w))
           /\ /\ cycles' = cycles /\ pc'[w] = "idle"
              /\ <<cyc[w], "outside">> \notin cut'
              => ~Untainted(w)'
           /\ \A st \in Ledger!Final :
                 cycles' = Closed(w, st) /\ pc'[w] = "idle" =>
                    /\ Untainted(w)' => Untainted(w)
                    /\ st = "failed" /\ <<cyc[w], "outside">> \notin cut' => ~Untainted(w)'
  <1>1. /\ cyc[w] \in DOMAIN cycles /\ cycles[cyc[w]] = Ledger!Opened
        /\ cycles[cyc[w]] \in Cycle
    BY DEF WorkInv, OwnsCycle, TypeOK
  <1>2. Ledger!Opened.status = "running"
    BY DEF Ledger!Opened
  <1>3. ASSUME NEW st \in Ledger!Final, cycles' = Closed(w, st), pc'[w] = "idle"
        PROVE  /\ Untainted(w)' => Untainted(w)
               /\ st = "failed" /\ <<cyc[w], "outside">> \notin cut' => ~Untainted(w)'
    <2>1. /\ DOMAIN cycles' = DOMAIN cycles /\ cycles'[cyc[w]].status = st
          /\ \A i \in DOMAIN cycles : i # cyc[w] => cycles'[i] = cycles[i]
      BY <1>1, <1>3 DEF Closed, Cycle
    <2>2. Untainted(w)' => Untainted(w)
      BY <1>1, <1>3, <2>1 DEF Untainted, Settled, OwnCut
    <2>3. st = "failed" /\ <<cyc[w], "outside">> \notin cut' => ~Untainted(w)'
      BY <1>1, <1>3, <2>1 DEF Untainted, Settled
    <2> QED
      BY <2>2, <2>3
  <1>4. ASSUME cycles' = cycles, cyc'[w] = cyc[w] \/ pc'[w] = "idle", Untainted(w)'
        PROVE  Untainted(w)
    BY <1>4 DEF Untainted, Settled, OwnCut
  <1>5. ASSUME cycles' = cycles, pc'[w] = "idle", <<cyc[w], "outside">> \notin cut'
        PROVE  ~Untainted(w)'
    BY <1>1, <1>2, <1>5 DEF Untainted, Settled
  <1> QED
    BY <1>3, <1>4, <1>5

\* After the opening a worker's step is on its own cycle, and cuts that alone.
LEMMA StepsCut ==
    ASSUME TypeOK, NEW w \in Workers, Act(w), ~OpenCycle(w)
    PROVE  /\ pc[w] # "idle" /\ DOMAIN cycles' = DOMAIN cycles
           /\ pc'[w] = "idle" \/ cyc'[w] = cyc[w]
           /\ \A i : <<i, "outside">> \in cut' =>
                 <<i, "outside">> \in cut \/ (i = cyc[w] /\ pc'[w] = "idle")
  <1> USE DEF Goto, db
  <1>1. CASE Step(w) /\ ~FinishCycle(w) /\ ~AbortCycle(w)
    BY <1>1 DEF Step, EnterTry, PollReturns, MarkUnsaved, SaveBatch, FallbackSave,
                FallbackDone, AfterSave, ReadLatest, CommitScores, Classify, SelectOld,
                DeleteOld
  <1>2. CASE FinishCycle(w) \/ AbortCycle(w)
    BY <1>2 DEF FinishCycle, AbortCycle, Closed, Exit, TypeOK
  <1>3. CASE SaveBatchFails(w) \/ FallbackError(w) \/ ScoringFails(w) \/ PruneFails(w)
    BY <1>3 DEF SaveBatchFails, FallbackError, ScoringFails, PruneFails
  <1>4. CASE FinishFails(w)
    BY <1>4 DEF FinishFails, Closed, Exit, TypeOK
  <1>5. CASE InterruptTry(w)
    BY <1>5 DEF InterruptTry, TryBlock
  <1>6. CASE InterruptOutside(w) \/ Kill(w)
    BY <1>6 DEF InterruptOutside, Kill, Exit, OutsideTry, TypeOK
  <1> QED
    BY <1>1, <1>2, <1>3, <1>4, <1>5, <1>6 DEF Act, DbFault

\* What SIGINT ends outside the try block was opened, and has no process any more.
OutsideIsOver ==
    \A i \in Nat : <<i, "outside">> \in cut => i \in DOMAIN cycles /\ ~Held(i)

\* It stays so.
LEMMA NextKeepsOver ==
    ASSUME WorkInv, OutsideIsOver, [Next]_vars
    PROVE  OutsideIsOver'
  <1>0. TypeOK
    BY DEF WorkInv
  <1>1. ASSUME cut' = cut, cycles' = cycles, cyc' = cyc, pc' = pc
        PROVE  OutsideIsOver'
    BY <1>1 DEF OutsideIsOver, Held
  <1>2. ASSUME NEW w \in Workers, Act(w)
        PROVE  OutsideIsOver'
    <2>1. \A u \in Workers \ {w} : pc'[u] = pc[u] /\ cyc'[u] = cyc[u]
      BY <1>0, <1>2, ActIsLocal DEF Locals
    <2>2. CASE OpenCycle(w)
      <3>1. /\ cycles' = Append(cycles, Ledger!Opened) /\ cut' = cut
            /\ cyc'[w] = Len(cycles) + 1
        BY <1>0, <2>2 DEF OpenCycle, Ledger!Opened, TypeOK
      <3>2. DOMAIN cycles \subseteq DOMAIN cycles' /\ Len(cycles) + 1 \notin DOMAIN cycles
        <4>1. cycles \in Seq(Cycle)
          BY <1>0 DEF TypeOK
        <4> HIDE DEF Cycle
        <4> QED
          BY <3>1, <4>1
      <3>3. ASSUME NEW i \in DOMAIN cycles, Held(i)' PROVE Held(i)
        BY <2>1, <3>1, <3>2, <3>3 DEF Held
      <3> QED
        BY <3>1, <3>2, <3>3 DEF OutsideIsOver
    <2>3. CASE ~OpenCycle(w)
      <3>1. /\ pc[w] # "idle" /\ DOMAIN cycles' = DOMAIN cycles
            /\ pc'[w] = "idle" \/ cyc'[w] = cyc[w]
            /\ \A i : <<i, "outside">> \in cut' =>
                  <<i, "outside">> \in cut \/ (i = cyc[w] /\ pc'[w] = "idle")
        BY <1>0, <1>2, <2>3, StepsCut
      <3>2. cyc[w] \in DOMAIN cycles
        BY <3>1 DEF WorkInv, OwnsCycle
      <3>3. ASSUME NEW i, Held(i)', i # cyc[w] \/ pc'[w] # "idle"
            PROVE  Held(i)
        BY <2>1, <3>1, <3>3 DEF Held
      <3>4. ASSUME NEW i, i = cyc[w], pc'[w] = "idle"
            PROVE  ~Held(i)'
        BY <2>1, <3>1, <3>4 DEF WorkInv, OwnersDiffer, Held
      <3>5. ASSUME NEW i \in Nat, <<i, "outside">> \in cut'
            PROVE  i \in DOMAIN cycles' /\ ~Held(i)'
        <4>1. CASE i = cyc[w] /\ pc'[w] = "idle"
          BY <3>1, <3>2, <3>4, <4>1
        <4>2. CASE <<i, "outside">> \in cut /\ ~(i = cyc[w] /\ pc'[w] = "idle")
          <5>1. i \in DOMAIN cycles /\ ~Held(i)
            BY <4>2 DEF OutsideIsOver
          <5> QED
            BY <3>1, <3>3, <4>2, <5>1
        <4> QED
          BY <3>1, <3>5, <4>1, <4>2
      <3> QED
        BY <3>5 DEF OutsideIsOver
    <2> QED
      BY <2>2, <2>3
  <1> QED
    BY <1>1, <1>2 DEF Next, Act, Publish, vars

LEMMA ActKeepsFollows ==
    ASSUME NEW w \in Workers, "db" \notin Faults,
           WorkInv, OutsideIsOver, TypeOK', [Next]_vars, Act(w), Follows(w)
    PROVE  Follows(w)'
  <1> USE DEF Goto, db
  <1>0. TypeOK
    BY DEF WorkInv
  <1>o. ~OpenCycle(w) => OwnCut(w) /\ pc[w] # "idle"
    BY <1>0, StepsCut DEF OwnCut
  <1>h. pc[w] # "idle" => <<cyc[w], "outside">> \notin cut
    BY <1>0 DEF OutsideIsOver, Held, TypeOK
  <1>t. Untainted(w)' \in BOOLEAN /\ Untainted(w) \in BOOLEAN
    BY DEF Untainted
  <1>1. CASE OpenCycle(w)
    <2>1. /\ pc[w] = "idle" /\ pc'[w] = "opened" /\ cyc'[w] = Len(cycles) + 1
          /\ rows' = rows /\ scored' = scored /\ cut' = cut
          /\ cycles' = Append(cycles, Ledger!Opened)
      BY <1>0, <1>1 DEF OpenCycle, TypeOK, Ledger!Opened
    <2>2. /\ DOMAIN cycles = 1..Len(cycles) /\ Len(cycles) \in Nat
          /\ DOMAIN cycles \subseteq DOMAIN cycles'
          /\ \A i \in DOMAIN cycles : cycles'[i] = cycles[i]
      <3>1. cycles \in Seq(Cycle)
        BY <1>0 DEF TypeOK
      <3> HIDE DEF Cycle
      <3> QED
        BY <2>1, <3>1
    <2>3. Untainted(w)' => Untainted(w)
      <3> SUFFICES ASSUME Untainted(w)', NEW i \in DOMAIN cycles
                   PROVE  Settled(i)
        BY DEF Untainted
      <3>1. i \in DOMAIN cycles' /\ cycles'[i] = cycles[i] /\ i # cyc'[w]
        BY <2>1, <2>2
      <3>2. Settled(i)'
        BY <3>1 DEF Untainted
      <3> QED
        BY <2>1, <3>1, <3>2 DEF Settled
    <2> QED
      BY <2>1, <2>3, FollowsPersists
  <1>2. CASE EnterTry(w) \/ PollReturns(w) \/ MarkUnsaved(w) \/ Classify(w) \/ SelectOld(w)
             \/ DeleteOld(w)
    <2>1. /\ cycles' = cycles /\ cyc' = cyc /\ rows' \subseteq rows /\ scored' = scored
          /\ pc[w] \in {"opened", "polling", "polled", "closing", "pruning", "deleting"}
          /\ pc'[w] \in {"polling", "polled", "saving", "pruning", "deleting", "finishing"}
      BY <1>0, <1>2 DEF EnterTry, PollReturns, MarkUnsaved, Classify, SelectOld, DeleteOld, TypeOK
    <2>o. OwnCut(w) /\ pc[w] # "idle"
      BY <1>o, <2>1 DEF OpenCycle
    <2>2. Untainted(w)' => Untainted(w)
      BY <2>o, <2>1, TaintIs
    <2> QED
      BY <2>1, <2>2, FollowsPersists
  <1>3. CASE SaveBatch(w)
    <2>1. /\ cycles' = cycles /\ cyc' = cyc /\ scored' = scored
          /\ pc[w] = "saving" /\ pc'[w] = "stored"
          /\ rows' = rows \cup Fetched(w)
          /\ report'[w].inserted = Cardinality(Fetched(w) \ rows)
      BY <1>0, <1>3 DEF SaveBatch, TypeOK, Counts
    <2>2. ASSUME Untainted(w)', report'[w].inserted = 0
          PROVE  scored' = Latest'
      <3>1. IsFiniteSet(Fetched(w) \ rows)
        <4>0. IsFiniteSet(Times)
          BY WorkerAssumption, FS_Interval DEF Times
        <4>1. IsFiniteSet(Hotspots \X Times)
          BY <4>0, WorkerAssumption, FS_Product
        <4>2. Fetched(w) \ rows \in SUBSET (Hotspots \X Times)
          BY <1>0, FetchedTyped
        <4> QED
          BY <4>1, <4>2, FS_Subset
      <3>2. Fetched(w) \ rows = {}
        BY <2>1, <2>2, <3>1, FS_EmptySet
      <3>3. rows' \subseteq rows
        BY <2>1, <3>2
      <3>o. OwnCut(w) /\ pc[w] # "idle"
        BY <1>o, <2>1 DEF OpenCycle
      <3>4. Latest' = Latest /\ Untainted(w)
        BY <3>o, <2>1, <2>2, <3>3, LatestStays, TaintIs
      <3> QED
        BY <2>1, <3>4 DEF Follows
    <2> QED
      BY <2>1, <2>2 DEF Follows
  <1>4. CASE FallbackSave(w) \/ FallbackDone(w) \/ FallbackError(w)
    BY <1>4 DEF FallbackSave, FallbackDone, FallbackError, Follows
  <1>5. CASE AfterSave(w)
    <2>1. /\ cycles' = cycles /\ cyc' = cyc /\ rows' = rows /\ scored' = scored
          /\ pc[w] = "stored"
          /\ pc'[w] = IF report[w].inserted > 0 THEN "scoring" ELSE "closing"
      BY <1>0, <1>5 DEF AfterSave, TypeOK
    <2>2. report[w].inserted \in Nat
      BY <1>0 DEF TypeOK, Tally
    <2>3. pc'[w] \in {"scoring", "closing"} /\ (pc'[w] = "scoring" \/ report[w].inserted = 0)
      BY <2>1, <2>2
    <2>o. OwnCut(w) /\ pc[w] # "idle"
      BY <1>o, <2>1 DEF OpenCycle
    <2>4. Untainted(w)' => Untainted(w)
      BY <2>o, <2>1, TaintIs
    <2> QED
      BY <2>1, <2>3, <2>4, FollowsPersists
  <1>6. CASE ReadLatest(w)
    <2>1. rows' = rows /\ pc'[w] = "computed" /\ view'[w] = Latest
      BY <1>0, <1>6 DEF ReadLatest, TypeOK
    <2>2. Latest' = Latest
      BY <2>1, LatestStays
    <2> QED
      BY <2>1, <2>2 DEF Follows
  <1>7. CASE CommitScores(w)
    <2>1. rows' = rows /\ pc[w] = "computed" /\ pc'[w] = "closing" /\ scored' = view[w]
      BY <1>0, <1>7 DEF CommitScores, TypeOK
    <2>2. Latest' = Latest
      BY <2>1, LatestStays
    <2> QED
      BY <2>1, <2>2 DEF Follows
  <1>8. CASE FinishCycle(w)
    <2>1. /\ pc[w] = "finishing" /\ cycles' = Closed(w, status[w]) /\ pc'[w] = "idle"
          /\ rows' = rows /\ scored' = scored
      BY <1>0, <1>8 DEF FinishCycle, Exit, TypeOK
    <2>2. status[w] \in Ledger!Final
      BY <2>1 DEF WorkInv, StatusJustified
    <2>o. OwnCut(w) /\ pc[w] # "idle"
      BY <1>o, <2>1 DEF OpenCycle
    <2>3. Untainted(w)' => Untainted(w)
      BY <2>o, <2>1, <2>2, TaintIs
    <2> QED
      BY <2>1, <2>3, FollowsPersists
  <1>9. CASE AbortCycle(w)
    <2>1. /\ pc[w] = "failing" /\ cycles' = Closed(w, "failed") /\ pc'[w] = "idle"
          /\ cut' = cut
      BY <1>0, <1>9 DEF AbortCycle, Exit, TypeOK
    <2>o. OwnCut(w) /\ pc[w] # "idle" /\ <<cyc[w], "outside">> \notin cut'
      BY <1>o, <1>h, <2>1 DEF OpenCycle
    <2>2. ~Untainted(w)'
      BY <2>o, <2>1, TaintIs DEF Ledger!Final
    <2> QED
      BY <2>1, <2>2 DEF Follows
  <1>10. CASE InterruptTry(w)
    <2>1. pc'[w] = "failing"
      BY <1>0, <1>10 DEF InterruptTry, TypeOK
    <2> QED
      BY <2>1 DEF Follows
  <1>11. CASE Kill(w) \/ (InterruptOutside(w) /\ pc[w] = "failing")
    <2>1. /\ pc[w] # "idle" /\ cycles' = cycles /\ pc'[w] = "idle"
          /\ cut' = cut \cup {<<cyc[w], "lost">>}
      BY <1>0, <1>11 DEF InterruptOutside, Kill, Exit, TypeOK
    <2>o. OwnCut(w) /\ <<cyc[w], "outside">> \notin cut'
      BY <1>h, <2>1 DEF OwnCut
    <2>2. ~Untainted(w)'
      BY <2>o, <2>1, TaintIs
    <2> QED
      BY <2>1, <2>2 DEF Follows
  <1>13. CASE InterruptOutside(w) /\ pc[w] # "failing"
    <2>1. /\ pc[w] \in {"opened", "closing", "pruning", "deleting", "finishing"}
          /\ cycles' = cycles /\ pc'[w] = "idle" /\ rows' = rows /\ scored' = scored
      BY <1>0, <1>13 DEF InterruptOutside, Exit, OutsideTry, TypeOK
    <2>o. OwnCut(w) /\ pc[w] # "idle"
      BY <1>o, <2>1 DEF OpenCycle
    <2>2. Untainted(w)' => Untainted(w)
      BY <2>o, <2>1, TaintIs
    <2> QED
      BY <2>1, <2>2, FollowsPersists
  <1>12. ~DbFault(w) /\ ~SaveBatchFails(w)
    BY DEF DbFault, SaveBatchFails, FallbackError, ScoringFails, PruneFails, FinishFails, Fault
  <1> QED
    BY <1>1, <1>2, <1>3, <1>4, <1>5, <1>6, <1>7, <1>8, <1>9, <1>10, <1>11, <1>12, <1>13
       DEF Act, Step

\* While one worker runs at a time and no database error sends it to the
\* fallback, a cycle that stored something new never ends well, nor is stopped by
\* SIGINT outside its try block, before its scores are committed, whatever
\* signals and kills there were before it.
THEOREM ScoresSettle ==
    ASSUME NEW alone, Workers = {alone}, "db" \notin Faults
    PROVE  Spec => [](OutsideIsOver /\ ScoresFollow /\ SettledScoresAreCurrent)
  <1>1. Init => OutsideIsOver /\ ScoresFollow
    <2> SUFFICES ASSUME Init
                 PROVE  scored = Latest /\ \A w \in Workers : pc[w] = "idle"
      BY DEF ScoresFollow, OutsideIsOver, Init
    <2>1. \A h \in Hotspots : NewestOf(TimesOf(h)) = NoAnswer
      BY DEF Init, TimesOf, NewestOf
    <2> QED
      BY <2>1 DEF Init, Nothing, Latest
  <1>2. WorkInv /\ OutsideIsOver /\ [Next]_vars => OutsideIsOver'
    BY NextKeepsOver
  <1>3. WorkInv /\ OutsideIsOver /\ ScoresFollow /\ [Next]_vars => ScoresFollow'
    <2> SUFFICES ASSUME WorkInv, OutsideIsOver, ScoresFollow, [Next]_vars
                 PROVE  Follows(alone)'
      BY DEF ScoresFollow, Follows
    <2>0. TypeOK' /\ Follows(alone)
      BY NextKeepsTypes DEF ScoresFollow, Follows
    <2>1. CASE Publish \/ UNCHANGED vars
      <3>1. /\ rows' = rows /\ scored' = scored /\ cycles' = cycles /\ cyc' = cyc /\ pc' = pc
            /\ view' = view /\ report' = report /\ cut' = cut
        BY <2>1 DEF Publish, vars
      <3>2. Latest' = Latest
        BY <3>1, LatestStays
      <3> QED
        BY <2>0, <3>1, <3>2 DEF Follows, Untainted, Settled
    <2>2. CASE Act(alone)
      BY <2>0, <2>2, ActKeepsFollows
    <2> QED
      BY <2>1, <2>2 DEF Next, Act
  <1>4. ScoresFollow => SettledScoresAreCurrent
    BY DEF ScoresFollow, SettledScoresAreCurrent, Untainted
  <1> QED
    BY <1>1, <1>2, <1>3, <1>4, WorkInvariant, PTL DEF Spec

\* A worker alone, without errors of the database, wherever SIGINT or a hard kill
\* takes it: a running cycle is held or was cut short where nothing finishes it,
\* no unsaved target is published as saved but right after the poll, and settled
\* scores are current.
THEOREM AloneInvariant ==
    ASSUME NEW alone, Workers = {alone}, "db" \notin Faults
    PROVE  Spec => []AloneInv
  <1>1. Spec => []NoStrandedCycle
    BY InterruptedCyclesAreHeld
  <1>2. Spec => [](SavedIsDurable /\ PublishedSavedIsDurable)
    BY SavedCountsAreDurable
  <1>3. Spec => [](OutsideIsOver /\ ScoresFollow /\ SettledScoresAreCurrent)
    BY ScoresSettle
  <1> QED
    BY <1>1, <1>2, <1>3, PTL DEF AloneInv
=============================================================================
