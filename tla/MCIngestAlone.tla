--------------------------- MODULE MCIngestAlone ---------------------------
(* What one process does: the pass over five targets with a circuit of three *)
(* and a pool of two (batches of two and of one, a circuit that opens before *)
(* and at the last target), and the cycles of one worker, which takes the    *)
(* pass as one step.  They share no variable, so the worker is explored      *)
(* after one ending of the pass only.                                        *)
EXTENDS PollOnce, IngestWorker

Anywhere == TryBlock \cup OutsideTry

\* The pass that was interrupted before it had asked anything.
PassSkipped == caller = "interrupted" /\ submitted = 0

AloneInit == PollInit /\ Init

AloneNext ==
    \/ PollNext /\ UNCHANGED vars
    \/ PassSkipped /\ Next /\ UNCHANGED pollVars

AloneSpec ==
    /\ AloneInit /\ [][AloneNext]_<<pollVars, vars>>
    /\ PollFairness
    /\ \A w \in Workers : WF_vars(Step(w))

\* What a process begins comes to an end: the pass, and every cycle.
CycleEnds == PassEnds /\ CyclesClose
=============================================================================
