--------------------------- MODULE CircuitBreaker ---------------------------
(***************************************************************************)
(* What one polling pass promises its caller, with no threads and no       *)
(* counters: the outcomes of a prefix of the targets in target order, cut  *)
(* at the first run of MaxConsecutiveFailures failures, and one report     *)
(* that accounts for every target.  PollOnce is shown to implement this.   *)
(***************************************************************************)
EXTENDS Integers, Sequences, FiniteSets

CONSTANTS NumTargets,               \* how many targets the pass was given
          MaxConsecutiveFailures    \* failures in a row that end the pass

VARIABLES log,     \* the outcomes so far, one per target, in target order
          report   \* what the caller has been told

vars == <<log, report>>

NoReport == [state |-> "open", saved |-> 0, failed |-> 0]
Aborted  == [state |-> "aborted", saved |-> 0, failed |-> 0]

Good(l) == {i \in DOMAIN l : l[i] = "saved"}

\* The last MaxConsecutiveFailures outcomes are all failures.
Tripped(l) ==
    /\ Len(l) >= MaxConsecutiveFailures
    /\ \A i \in (Len(l) - MaxConsecutiveFailures + 1)..Len(l) : l[i] = "failed"

Init ==
    /\ log = <<>>
    /\ report = NoReport

\* One more target answered; never after the circuit tripped.
Observe ==
    /\ report = NoReport
    /\ Len(log) < NumTargets
    /\ ~Tripped(log)
    /\ \E o \in {"saved", "failed"} : log' = Append(log, o)
    /\ UNCHANGED report

\* Every target is either saved or failed in the report, the skipped ones too.
Answer ==
    /\ report = NoReport
    /\ Tripped(log) \/ Len(log) = NumTargets
    /\ report' = [state  |-> "answered",
                  saved  |-> Cardinality(Good(log)),
                  failed |-> NumTargets - Cardinality(Good(log))]
    /\ UNCHANGED log

\* The caller's thread was interrupted before the report.
Abort ==
    /\ report = NoReport
    /\ report' = Aborted
    /\ UNCHANGED log

Next == Observe \/ Answer \/ Abort

Spec == Init /\ [][Next]_vars

=============================================================================
