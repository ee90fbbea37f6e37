------------------------------- MODULE PollOnce -------------------------------
(***************************************************************************)
(* poll_once of backend/app/ingest/poller.py: one pass over the polled     *)
(* hotspots.  A batch of fetches runs on a thread pool, each with its own  *)
(* retries; the caller's thread takes the results in target order, saves   *)
(* or counts them, and opens a circuit after a run of failures.  Targets   *)
(* are 1..TargetCount, in the order of load_poll_targets.                  *)
(***************************************************************************)
EXTENDS Integers, FiniteSets, Sequences

CONSTANTS TargetCount,              \* len(target_list)
          MaxRetries,               \* HTTP_MAX_RETRIES
          MaxConsecutiveFailures,   \* POLL_MAX_CONSECUTIVE_FAILURES
          FetchConcurrency          \* POLL_FETCH_CONCURRENCY

\* The argument checks at the head of poll_once.
ASSUME PollAssumption ==
    /\ TargetCount \in Nat
    /\ MaxRetries \in Nat
    /\ MaxConsecutiveFailures \in Nat \ {0}
    /\ FetchConcurrency \in Nat \ {0}

VARIABLES
    caller,       \* the caller's thread
    submitted,    \* targets handed to the executor so far: 1..submitted
    processed,    \* results taken so far, in order: 1..processed
    fetch,        \* fetch[t]: the future of fetch_target(t)
    attempts,     \* attempts[t]: requests fetch_target(t) has made
    outcome,      \* outcome[t]: what the pass made of target t
    saved, failed, consecutive   \* the counters of the pass

pollVars == <<caller, submitted, processed, fetch, attempts, outcome,
              saved, failed, consecutive>>

Targets == 1..TargetCount

Smaller(a, b) == IF a <= b THEN a ELSE b

InFlight == {t \in Targets : fetch[t] = "fetching"}

PollInit ==
    /\ caller = "running"
    /\ submitted = 0
    /\ processed = 0
    /\ fetch = [t \in Targets |-> "unsubmitted"]
    /\ attempts = [t \in Targets |-> 0]
    /\ outcome = [t \in Targets |-> "pending"]
    /\ saved = 0
    /\ failed = 0
    /\ consecutive = 0

-----------------------------------------------------------------------------
(* The caller's thread: batches. *)

\* Mutant: the batch is as wide as the pool, whatever the circuit has left.
BatchSizeIgnoringBudget == FetchConcurrency

BatchSize == Smaller(FetchConcurrency, MaxConsecutiveFailures - consecutive)

SubmitBatch ==
    /\ caller = "running"
    /\ processed = submitted
    /\ submitted < TargetCount
    /\ submitted' = Smaller(TargetCount, submitted + BatchSize)
    /\ fetch' = [t \in Targets |->
                    IF t \in (submitted + 1)..submitted' THEN "fetching"
                                                         ELSE fetch[t]]
    /\ UNCHANGED <<caller, processed, attempts, outcome, saved, failed, consecutive>>

-----------------------------------------------------------------------------
(* The executor's threads: fetch_target. *)

FetchSucceeds(t) ==
    /\ fetch[t] = "fetching"
    /\ attempts' = [attempts EXCEPT ![t] = @ + 1]
    /\ fetch' = [fetch EXCEPT ![t] = "payload"]
    /\ UNCHANGED <<caller, submitted, processed, outcome, saved, failed, consecutive>>

\* Mutant: every error starts the count of attempts again.
FetchApiErrorForever(t) ==
    /\ fetch[t] = "fetching"
    /\ attempts' = [attempts EXCEPT ![t] = (@ + 1) % (MaxRetries + 1)]
    /\ UNCHANGED <<caller, submitted, processed, fetch, outcome, saved, failed,
                   consecutive>>

\* SeoulAPIError: back off and try again, or give up after the last attempt.
FetchApiError(t) ==
    /\ fetch[t] = "fetching"
    /\ attempts' = [attempts EXCEPT ![t] = @ + 1]
    /\ fetch' = [fetch EXCEPT ![t] =
                    IF attempts[t] = MaxRetries THEN "none" ELSE "fetching"]
    /\ UNCHANGED <<caller, submitted, processed, outcome, saved, failed, consecutive>>

\* Any other exception ends the fetch without a retry.
FetchCrashes(t) ==
    /\ fetch[t] = "fetching"
    /\ attempts' = [attempts EXCEPT ![t] = @ + 1]
    /\ fetch' = [fetch EXCEPT ![t] = "none"]
    /\ UNCHANGED <<caller, submitted, processed, outcome, saved, failed, consecutive>>

-----------------------------------------------------------------------------
(* The caller's thread: one result, in target order. *)

\* future.result() has returned for the next target in order.
ResultReady(t, result) ==
    /\ caller = "running"
    /\ t = processed + 1
    /\ t <= submitted
    /\ fetch[t] = result

\* Mutant: the failure that opens the circuit forgets the targets it skips.
RecordFailureWithoutSkipped(t) ==
    /\ consecutive' = consecutive + 1
    /\ failed' = failed + 1
    /\ IF consecutive + 1 < MaxConsecutiveFailures
       THEN UNCHANGED <<caller, fetch>>
       ELSE caller' = "closing" /\ UNCHANGED fetch

\* record_target_failure and, when it opens the circuit, the early return:
\* later futures of the batch that have not started may be cancelled.
RecordTargetFailure(t) ==
    /\ consecutive' = consecutive + 1
    /\ IF consecutive + 1 < MaxConsecutiveFailures
       THEN /\ failed' = failed + 1
            /\ UNCHANGED <<caller, fetch>>
       ELSE /\ failed' = failed + 1 + (TargetCount - t)
            /\ caller' = "closing"
            /\ \E dropped \in SUBSET {u \in InFlight : u > t /\ attempts[u] = 0} :
                  fetch' = [u \in Targets |->
                               IF u \in dropped THEN "cancelled" ELSE fetch[u]]

\* What the failure leaves of the target: "invalid" when a parse failure was
\* handed to the writer, "failed" otherwise.
FailTarget(t, how) ==
    /\ RecordTargetFailure(t)
    /\ outcome' = [outcome EXCEPT ![t] = how]
    /\ processed' = t
    /\ UNCHANGED <<submitted, attempts, saved>>

\* fetch_target returned None.
ProcessMissing(t) ==
    /\ ResultReady(t, "none")
    /\ FailTarget(t, "failed")

\* clock() raised, or the snapshot's writer did, or the payload was rejected
\* and the parse failure's writer raised too.
ProcessLocalError(t) ==
    /\ ResultReady(t, "payload")
    /\ FailTarget(t, "failed")

\* The payload does not parse or answers for another hotspot.
ProcessInvalid(t) ==
    /\ ResultReady(t, "payload")
    /\ FailTarget(t, "invalid")

\* Mutant: a saved target leaves the run of failures as it was.
ProcessSavedKeepingRun(t) ==
    /\ ResultReady(t, "payload")
    /\ saved' = saved + 1
    /\ outcome' = [outcome EXCEPT ![t] = "saved"]
    /\ processed' = t
    /\ UNCHANGED <<caller, submitted, fetch, attempts, failed, consecutive>>

ProcessSaved(t) ==
    /\ ResultReady(t, "payload")
    /\ saved' = saved + 1
    /\ consecutive' = 0
    /\ outcome' = [outcome EXCEPT ![t] = "saved"]
    /\ processed' = t
    /\ UNCHANGED <<caller, submitted, fetch, attempts, failed>>

-----------------------------------------------------------------------------
(* Leaving the pass. *)

\* The while loop has run out of targets: leave the executor's block.
FinishLoop ==
    /\ caller = "running"
    /\ processed = TargetCount
    /\ caller' = "closing"
    /\ UNCHANGED <<submitted, processed, fetch, attempts, outcome,
                   saved, failed, consecutive>>

\* The executor's __exit__ waits for every thread, then the report returns.
ReturnReport ==
    /\ caller = "closing"
    /\ InFlight = {}
    /\ caller' = "returned"
    /\ UNCHANGED <<submitted, processed, fetch, attempts, outcome,
                   saved, failed, consecutive>>

\* KeyboardInterrupt on the caller's thread.  A single target is fetched on
\* that thread, so its request dies with it; a pool's threads go on.
Interrupt ==
    /\ caller \in {"running", "closing"}
    /\ IF TargetCount = 1
       THEN /\ caller' = "interrupted"
            /\ fetch' = [t \in Targets |->
                            IF t \in InFlight THEN "cancelled" ELSE fetch[t]]
       ELSE caller' = "unwinding" /\ UNCHANGED fetch
    /\ UNCHANGED <<submitted, processed, attempts, outcome,
                   saved, failed, consecutive>>

\* shutdown(wait=True) returns once the retries in flight are over.
Unwind ==
    /\ caller = "unwinding"
    /\ InFlight = {}
    /\ caller' = "interrupted"
    /\ UNCHANGED <<submitted, processed, fetch, attempts, outcome,
                   saved, failed, consecutive>>

\* The pass is over.
Over ==
    /\ caller \in {"returned", "interrupted"}
    /\ UNCHANGED pollVars

Fetch(t) == FetchSucceeds(t) \/ FetchApiError(t) \/ FetchCrashes(t)

Process(t) == \/ ProcessMissing(t) \/ ProcessLocalError(t)
              \/ ProcessInvalid(t) \/ ProcessSaved(t)

Caller == \/ SubmitBatch
          \/ \E t \in Targets : Process(t)
          \/ FinishLoop
          \/ ReturnReport
          \/ Unwind

PollNext == \/ Caller
            \/ \E t \in Targets : Fetch(t)
            \/ Interrupt
            \/ Over

PollSpec == PollInit /\ [][PollNext]_pollVars

\* Every request ends (the HTTP client has a timeout, a backoff is finite), and
\* the caller's thread is scheduled; nobody has to interrupt it.
PollFairness ==
    /\ WF_pollVars(Caller)
    /\ \A t \in Targets : WF_pollVars(Fetch(t))

FairPollSpec == PollSpec /\ PollFairness
-----------------------------------------------------------------------------
(* Properties. *)

Failures == {"failed", "invalid"}

\* The types, with the order the batches impose: results are taken only of
\* submitted targets, and a thread never makes more than MaxRetries + 1 requests.
PollTypeOK ==
    /\ caller \in {"running", "closing", "returned", "unwinding", "interrupted"}
    /\ submitted \in 0..TargetCount
    /\ processed \in 0..submitted
    /\ fetch \in [Targets ->
                    {"unsubmitted", "fetching", "payload", "none", "cancelled"}]
    /\ attempts \in [Targets -> 0..(MaxRetries + 1)]
    /\ outcome \in [Targets -> {"pending", "saved", "failed", "invalid"}]
    /\ saved \in 0..TargetCount
    /\ failed \in 0..TargetCount
    /\ consecutive \in 0..MaxConsecutiveFailures

\* "Never speculatively call beyond the remaining circuit budget": the targets
\* called since the last saved one, answered or not, never outnumber the run of
\* failures that opens the circuit, so an outage costs at most that many targets.
CircuitBudget ==
    submitted - processed + consecutive <= MaxConsecutiveFailures

\* When the circuit opens, no fetched answer is thrown away: every target that
\* was requested has been counted, the cancel loop finds nothing to cancel, and
\* the executor has nothing to wait for.
NoDiscardedFetch ==
    caller \in {"closing", "returned"} =>
        \A t \in Targets : fetch[t] # "unsubmitted" <=> outcome[t] # "pending"

\* Whatever the interleaving of the fetches, the pass is the sequential circuit
\* breaker: the same outcomes in target order, cut at the same target, and a
\* report that counts every target once.
PassLog == [i \in 1..processed |->
                IF outcome[i] = "saved" THEN "saved" ELSE "failed"]

PassReport ==
    IF caller = "returned"
    THEN [state |-> "answered", saved |-> saved, failed |-> failed]
    ELSE [state |-> IF caller \in {"unwinding", "interrupted"} THEN "aborted" ELSE "open",
          saved |-> 0, failed |-> 0]

Breaker == INSTANCE CircuitBreaker
    WITH NumTargets <- TargetCount, log <- PassLog, report <- PassReport

IsCircuitBreaker == Breaker!Spec

\* The inductive invariant behind the three: results are taken in order, the
\* consecutive counter is the length of the trailing run of failures, and the
\* counters account for the processed prefix, or for every target once the
\* circuit has opened.
SavedPrefix == {i \in 1..processed : outcome[i] = "saved"}

InOrder == \A t \in Targets :
    /\ fetch[t] = "unsubmitted" <=> t > submitted
    /\ outcome[t] = "pending" <=> t > processed
    /\ fetch[t] = "fetching" => t > processed
    /\ fetch[t] \in {"unsubmitted", "fetching"} => attempts[t] <= MaxRetries

TrailingRun ==
    /\ consecutive <= processed
    /\ \A i \in (processed - consecutive + 1)..processed : outcome[i] \in Failures
    /\ consecutive < processed => outcome[processed - consecutive] = "saved"

Accounting ==
    /\ saved = Cardinality(SavedPrefix)
    /\ saved <= processed
    /\ caller = "running" => /\ consecutive < MaxConsecutiveFailures
                         /\ failed = processed - saved
    /\ caller \in {"closing", "returned"} =>
          /\ failed = TargetCount - saved
          /\ submitted = processed
          /\ processed = TargetCount \/ consecutive = MaxConsecutiveFailures

PollInv == PollTypeOK /\ InOrder /\ TrailingRun /\ CircuitBudget /\ Accounting

\* The pass ends: with a report, or with the interrupt once the threads that
\* were still retrying have finished.
PassEnds == <>(caller \in {"returned", "interrupted"})

=============================================================================
