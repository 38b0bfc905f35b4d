----------------------------- MODULE Consumption -----------------------------
(***************************************************************************)
(* What a sold line takes out of the inventory: catalog_engine/            *)
(* consumption.py, the one definition that deducting and reversing share.  *)
(*                                                                         *)
(* A configuration c of a variant is a record:                             *)
(*   tracks   the product's tracks_inventory                               *)
(*   recipe   [Items -> Nat], its recipe_items (0: not in the recipe)      *)
(*   offered  the groups the variant offers (variant_option_groups)        *)
(*   perOption [Groups -> Nat], their quantity_per_option (0: not offered, *)
(*            or the size does not say)                                    *)
(* and a line ln: n units of the variant, `chosen` the units of each       *)
(* option (0: not chosen), perLine the options charged once per line.      *)
(***************************************************************************)
EXTENDS Integers, FiniteSets, FiniteSetsExt

CONSTANTS
  Items,      \* inventory_items
  Groups,     \* option_groups
  Options,    \* options
  Option,     \* Option[o]: its group, item (or NoItem), item_quantity, active
  NoItem

\* Rows of the catalogue and of a line.
OptionRow  == [group : Groups, item : Items \cup {NoItem}, quantity : Nat, active : BOOLEAN]
VariantRow == [tracks : BOOLEAN, recipe : [Items -> Nat], offered : SUBSET Groups,
               perOption : [Groups -> Nat]]
LineRow    == [n : Nat \ {0}, chosen : [Options -> Nat], perLine : SUBSET Options]

\* The size's quantity rules; the option's own is for groups whose size says nothing.
\* The two are never added.
PerUnit(c, o) ==
  IF c.perOption[Option[o].group] > 0 THEN c.perOption[Option[o].group]
                                      ELSE Option[o].quantity

\* A per_line option is consumed once per line, any other once per unit of product.
OptionConsumes(c, ln, o) ==
  PerUnit(c, o) * ln.chosen[o] * (IF o \in ln.perLine THEN 1 ELSE ln.n)

Chosen(ln, g) == {o \in Options : ln.chosen[o] > 0 /\ Option[o].item = g}

\* required_consumption: the plan of the line, added up by item.
Required(c, ln) ==
  [g \in Items |->
     IF ~c.tracks THEN 0
     ELSE c.recipe[g] * ln.n
          + MapThenSumSet(LAMBDA o : OptionConsumes(c, ln, o), Chosen(ln, g))]

Consumes(c, ln) == \E g \in Items : Required(c, ln)[g] > 0

\* Choosing an option of the group would move stock.
GroupDiscounts(c, h) ==
  \/ c.perOption[h] > 0
  \/ \E o \in Options : /\ Option[o].group = h /\ Option[o].active
                        /\ Option[o].item # NoItem /\ Option[o].quantity > 0

\* ensure_lines_consume_inventory: a tracked line that would move nothing is refused,
\* and told apart by whether the variant is configured at all.
Verdict(c, ln) ==
  CASE ~c.tracks \/ Consumes(c, ln) -> "ok"
    [] OTHER -> IF \/ \E g \in Items : c.recipe[g] > 0
                   \/ \E h \in c.offered : GroupDiscounts(c, h)
                THEN "sin_eleccion" ELSE "sin_receta"
=============================================================================
