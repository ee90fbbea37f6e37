------------------------------ MODULE Semaphore ------------------------------
(***************************************************************************)
(* What a limit on concurrent requests promises: at most Slots tasks hold  *)
(* a slot at a time, and a task that holds one gives it back once.         *)
(***************************************************************************)
EXTENDS Naturals, FiniteSets

CONSTANTS Tasks, Slots

VARIABLE holders    \* the tasks that hold a slot

Init == holders = {}

Take(t) ==
    /\ t \notin holders
    /\ Cardinality(holders) < Slots
    /\ holders' = holders \cup {t}

Release(t) ==
    /\ t \in holders
    /\ holders' = holders \ {t}

\* The slot goes from one task to the next without being free in between.
HandOver(t, u) ==
    /\ t \in holders
    /\ u \notin holders
    /\ holders' = (holders \ {t}) \cup {u}

Next ==
    \/ \E t \in Tasks : Take(t) \/ Release(t)
    \/ \E t, u \in Tasks : HandOver(t, u)

Spec == Init /\ [][Next]_holders

=============================================================================
