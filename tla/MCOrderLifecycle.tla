-------------------------- MODULE MCOrderLifecycle --------------------------
(* Small instances of OrderLifecycle for TLC. *)
EXTENDS OrderSettlement, TLC

CONSTANTS o1, o2, l1, l2, l3, a1, a2, a3, cheese

\* o1 is an old order: recibida, with line l1 and attempt a1 confirmed.
WithOldLine    == [l \in Lines |-> IF l = l1 THEN o1 ELSE NoOrder]
WithOldAttempt == [a \in Attempts |-> IF a = a1 THEN o1 ELSE NoOrder]

\* The old line needs no ingredient; the others share one, of which there is enough for one,
\* and are interchangeable, as the other attempts are.
MCRecipe == [l \in Lines |-> IF l = l1 THEN {} ELSE {cheese}]
MCStock0 == [g \in Ingredients |-> 1]
Symmetry == Permutations({a2, a3}) \cup Permutations({l2, l3})

\* The bound of core: nothing more is explored once every order is over.
SomeOrderOpen == \E o \in Orders : Status(o) \notin Terminal
=============================================================================
