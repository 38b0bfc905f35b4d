---------------------------- MODULE MCAccount ----------------------------
(* Two diners at a table that sells two sizes, with a topping and a side. *)
EXTENDS Account, TLC

CONSTANTS ana, luis, topping, side, o1, o2

MCPrice == 1 :> 7 @@ 2 :> 5
MCExtra == topping :> 2 @@ side :> 3

Item(v, q, t, s) == [variant |-> v, quantity |-> q, chosen |-> topping :> t @@ side :> s]
MCMenu == {Item(1, 2, 1, 1), Item(2, 1, 0, 0)}

Rule(t, x, q, S) == [type |-> t, value |-> x, min_qty |-> q, set |-> S]
\* The package ends.
MCRulesAt == <<{Rule("package_price", 9, 2, {1, 2})}, {}>>

\* Of the many ways to get to a bill: one cart by diner, nothing cooked before it is accepted,
\* at most one line voided or of a cancelled order, and at most one that is another's than who
\* sent it; and the staff names a diner when there is food to share out.  The package ends once
\* there is an order, at a table where nothing was voided or shared out.
Short ==
  /\ \A d \in Guests : cart[d] # <<>> => \A o \in Orders : order[o].diner # d
  /\ LET lines == {l \in Lines : line[l] # NoLine}
     IN  /\ Cardinality({l \in lines : ~Live(l) \/ order[line[l].order].status = "cancelada"}) <= 1
         /\ Cardinality({l \in lines : line[l].diner # order[line[l].order].diner}) <= 1
         /\ \A l \in lines : order[line[l].order].status = "recibida" => line[l].kitchen # "listo"
         /\ present \subseteq Guests \/ \E l \in lines : line[l].kitchen = "listo"
         /\ period = 2 => /\ \E o \in Orders : order[o].status # "absent"
                          /\ \A d \in Guests : Len(cart[d]) <= 1
                          /\ \A l \in lines : Live(l) /\ line[l].diner = order[line[l].order].diner

Symmetry == Permutations(Orders)
=============================================================================
