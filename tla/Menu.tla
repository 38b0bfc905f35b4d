--------------------------------- MODULE Menu ---------------------------------
(***************************************************************************)
(* What is foreseen of a selection before a diner makes it: the public     *)
(* menu, which says what can be ordered (api/v1/menu/router.py), and the   *)
(* cost of goods of the profitability report (api/v1/reports/service.py).  *)
(* Both repeat, from the catalogue alone, what Consumption takes out of    *)
(* the inventory once the selection is made and OptionGroups accepted it.  *)
(*                                                                         *)
(* The state is the catalogue of OptionGroups.  What a catalogue foresees  *)
(* is for any stock and any costs, so these are parameters here.           *)
(***************************************************************************)
EXTENDS OptionGroups

CONSTANTS
  Levels,     \* current_stock of an item
  UnitCosts   \* unit_cost of an item

\* Any catalogue that edits can leave, with nothing in flight.
Catalogues ==
  /\ group \in [Groups -> {g \in GroupRow : g.active}]
  /\ option \in [Options -> {o \in OptionRow : /\ o.there
                                               /\ o.item = NoItem => o.quantity = 0}]
  /\ \A o \in Options : PriceFits(GroupOf[o], option[o].price)
  /\ links \in [Variants -> LinkSets]
  /\ req = [r \in Requests |-> Idle] /\ accepted = Nothing

OptionsOf(g) == {o \in Options : GroupOf[o] = g /\ option[o].there /\ option[o].active}
Linking(g)   == {v \in Variants : links[v][g] # NoLink}

-----------------------------------------------------------------------------
(* The menu. *)

\* The most any size takes of an option of the group, and whether some size lets the option's
\* own quantity rule.
Greatest(g) == LET Q == {links[v][g].per : v \in Linking(g)} IN IF Q = {} THEN 0 ELSE Max(Q)
SomeSayNothing(g) == Linking(g) = {} \/ \E v \in Linking(g) : links[v][g].per = 0

Worst_Greatest(o) == Greatest(GroupOf[o])
Worst(o) ==
  LET g == GroupOf[o]
  IN  IF SomeSayNothing(g) THEN Max({Greatest(g), option[o].quantity}) ELSE Greatest(g)

\* _option_availability.  s is the stock, inUse the items that are active.
OptionAvailable(o, s, inUse) ==
  LET i == option[o].item
  IN  i # NoItem => i \in inUse /\ (Worst(o) <= 0 \/ s[i] >= Worst(o))

\* _build_menu, of one variant.
Mandatory(v, g) == Counted(g) /\ links[v][g].min > 0
VariantAvailable(v, s, inUse) ==
  \A g \in Offered(v) : group[g].active /\ Mandatory(v, g) =>
    \E o \in OptionsOf(g) : OptionAvailable(o, s, inUse)

\* check_availability, when a line is added or edited.
InStock(need, s) == \A i \in Items : need[i] <= s[i]

-----------------------------------------------------------------------------
(* The report. *)

\* _option_group_cost_basis: the sums whose averages it takes.
Linked(g) == {o \in OptionsOf(g) : option[o].item # NoItem}
Basis(g, cost) ==
  [count    |-> Cardinality(Linked(g)),
   cost     |-> MapThenSumSet(LAMBDA o : cost[option[o].item], Linked(g)),
   quantity |-> MapThenSumSet(LAMBDA o : option[o].quantity, Linked(g))]

\* _variant_unit_cost_map, what a group adds: por_opcion * min_select * cost, in units of one
\* over the square of the count, because two averages are multiplied.
PerOption_BySize(v, g, b) == links[v][g].per * b.count
PerOption(v, g, b) == IF links[v][g].per > 0 THEN links[v][g].per * b.count ELSE b.quantity
Estimated(v, g, cost) ==
  LET basis == Basis(g, cost) IN PerOption(v, g, basis) * links[v][g].min * basis.cost

-----------------------------------------------------------------------------
(* Properties. *)

Line(sel) == [n |-> 1, chosen |-> sel, perLine |-> {}]
Configured(v) == [tracks |-> TRUE, recipe |-> [i \in Items |-> 0], offered |-> Offered(v),
                  perOption |-> [g \in Groups |-> links[v][g].per]]
Drawn(v, sel) == C!Required(Configured(v), Line(sel))

One(o) == [p \in Options |-> IF p = o THEN 1 ELSE 0]
Selections(v) == {sel \in [Options -> {0, 1}] : Accepts(v, sel)}

\* An option the menu marks as available can be served of any size that offers it: the one
\* flag covers the worst case (menu/router.py: "se compara el stock contra el peor caso").
MarkedIsServable ==
  \A s \in [Items -> Levels], o \in Options : OptionAvailable(o, s, Items) =>
    \A v \in Linking(GroupOf[o]) : InStock(Drawn(v, One(o)), s)

\* A size the menu marks as unavailable could not be ordered: every selection that would be
\* accepted fails for stock, provided no other size asks for more of the group.
UnmarkedIsRefused ==
  \A s \in [Items -> Levels], v \in Variants :
    /\ ~VariantAvailable(v, s, Items)
    /\ \A g \in Offered(v) : Linking(g) = {v} /\ (Mandatory(v, g) => g \in Discounting(v))
    => \A sel \in Selections(v) : ~InStock(Drawn(v, sel), s)

CostOf(v, sel, cost) == MapThenSumSet(LAMBDA i : Drawn(v, sel)[i] * cost[i], Items)

\* The report's cost of a mandatory group is what its selections cost on average: exactly, for a
\* group of min = max whose options all take something out, and by the same rule, the size's
\* quantity before the option's own (reports/service.py:_variant_unit_cost_map).
EstimateIsTheMean ==
  \A cost \in [Items -> UnitCosts], v \in Variants, g \in Groups :
    LET l    == links[v][g]
        sels == {sel \in Selections(v) : \A o \in Options : sel[o] > 0 => GroupOf[o] = g}
        n    == Basis(g, cost).count
    IN  /\ g \in Offered(v) /\ Mandatory(v, g) /\ l.min = l.max /\ Linked(g) = OptionsOf(g)
        /\ l.per > 0 \/ \E q \in Quantities \ {0} : \A o \in Linked(g) : option[o].quantity = q
        => MapThenSumSet(LAMBDA sel : CostOf(v, sel, cost), sels) * n * n
             = Estimated(v, g, cost) * Cardinality(sels)
=============================================================================
