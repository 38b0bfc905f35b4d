--------------------------- MODULE LineSettlement ---------------------------
(***************************************************************************)
(* What the order component promises about each line, and nothing else:    *)
(* once ordered it is owed, and then it is either charged, once, or        *)
(* dropped, for good.  How orders, payment attempts, table sessions and    *)
(* the kitchen bring this about is OrderLifecycle.                         *)
(***************************************************************************)
CONSTANT Lines

VARIABLE fate

Fates == {"free", "owed", "charged", "dropped"}

TypeOK == fate \in [Lines -> Fates]

\* Lines may already be owed when the system starts.
Init == fate \in [Lines -> {"free", "owed"}]

Move(S, from, to) ==
  /\ \A l \in S : fate[l] = from
  /\ fate' = [l \in Lines |-> IF l \in S THEN to ELSE fate[l]]

\* The lines of an order are sent, charged together, or dropped together.
Order(S)  == Move(S, "free", "owed")
Charge(S) == Move(S, "owed", "charged")
Drop(S)   == Move(S, "owed", "dropped")

\* A line is exchanged for another one, in one step.
Replace(l, new) ==
  /\ fate[l] = "owed" /\ fate[new] = "free"
  /\ fate' = [fate EXCEPT ![l] = "dropped", ![new] = "owed"]

Next ==
  \/ \E S \in SUBSET Lines : Order(S) \/ Charge(S) \/ Drop(S)
  \/ \E l, new \in Lines : Replace(l, new)

Spec == Init /\ [][Next]_fate

\* Charged and dropped are for good.
Settled(l) == fate[l] \in {"charged", "dropped"}
SettledIsFinal == [][\A l \in Lines : Settled(l) => fate'[l] = fate[l]]_fate
=============================================================================
