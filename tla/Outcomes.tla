------------------------------ MODULE Outcomes ------------------------------
(***************************************************************************)
(* What the offline modules and the read API share: None is Python's None  *)
(* and an absent value, Refused a call that raised instead of returning.   *)
(***************************************************************************)
EXTENDS Integers, FiniteSets

CONSTANTS None, Refused

ASSUME OutcomesAssumption == None \notin Int /\ Refused \notin Int /\ None # Refused

\* ORDER BY and sorted: the members of a finite set, each after those before it.
InOrder(set, before(_, _)) ==
    [i \in 1..Cardinality(set) |->
        CHOOSE c \in set : Cardinality({d \in set : before(d, c)}) = i - 1]
=============================================================================
