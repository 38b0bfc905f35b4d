------------------------ MODULE MCOrderTransactions ------------------------
(* Small instances of OrderTransactions for TLC. *)
EXTENDS OrderTransactions, OrderSettlement, TLC

CONSTANTS o1, l1, l2, l3, a1

\* Stock for one of two lines, and only l1 needs it.
MCRecipe == [l \in Lines |-> IF l = l1 THEN Ingredients ELSE {}]
MCStock0 == [g \in Ingredients |-> 1]

NoOldLine    == [l \in Lines |-> NoOrder]
NoOldAttempt == [a \in Attempts |-> NoOrder]

Symmetry == Permutations(Requests) \cup Permutations(Attempts)

-----------------------------------------------------------------------------
(* The handlers that lock overlap, the others are serial and edit confirmed orders only. *)

\* l1 and l2 share an ingredient, of which there is enough for both; o1 is an old order:
\* recibida, with line l1 and attempt a1 confirmed.
EditedRecipe   == [l \in Lines |-> IF l = l3 THEN {} ELSE Ingredients]
EditedStock0   == [g \in Ingredients |-> 2]
WithOldLine    == [l \in Lines |-> IF l = l1 THEN o1 ELSE NoOrder]
WithOldAttempt == [a \in Attempts |-> IF a = a1 THEN o1 ELSE NoOrder]

Nobody == \A r \in Requests : tx[r] = Idle
Serial == Nobody /\ Next /\ EditsOnlyConfirmed /\ UNCHANGED tx

\* The fairness of FairTxSpec.
FairLockedSpec ==
  TxInit /\ [][TxNext \/ Serial]_txVars /\ \A r \in Requests : SF_txVars(Progress(r))

\* The bounds.  Requests overlap about the old order, or about a new one once the old one is
\* cancelled; of the lines only l2 is looked at while it is being cooked, the others are ready at
\* once; l3 is in no order that is still recibida; and what follows when all the orders are terminal
\* and nobody is half way is not followed.  None keeps a request half way from its end.
OneOrder   == Status(o1) = "cancelada" \/ \A o \in Orders \ {o1} : Status(o) = "ausente"
FewCook    == \A l \in Lines \ {l2} : line[l].cocina # "en_preparacion"
ComesLate  == line[l3].order # NoOrder => Status(line[l3].order) # "recibida"
NotAllOver == \E o \in Orders : Status(o) \notin Terminal

Meets == (Nobody => NotAllOver) /\ (Nobody \/ OneOrder) /\ FewCook /\ ComesLate
=============================================================================
