--------------------------------- MODULE MCShop ---------------------------------
(***************************************************************************)
(* What the shop offers, for TLC: the promotions, a product's variants,    *)
(* the options of their groups, and what the menu and the reports foresee  *)
(* of them.  They share no row: a behaviour is of one of them, and the     *)
(* rest stays as it began.                                                 *)
(***************************************************************************)
EXTENDS Shop, TLC

CONSTANTS a, b   \* promotions, and requests

-----------------------------------------------------------------------------
(* Promotions: two, over two sizes of one product and one of another, around one midnight. *)

CONSTANTS cone, cup

MCProductOf == 1 :> cone @@ 2 :> cone @@ 3 :> cup

Row(s, e, d, f, u) == [starts |-> s, ends |-> e, days |-> d, from |-> f, until |-> u]
MCWindows == {Row(0, Never, {}, Never, Never),
              Row(0, Never, {0}, 2, 0),      \* Monday evening, past midnight
              Row(0, 3, {1}, 0, 1)}          \* Tuesday morning, for one day

Rule(t, x, q, S) == [type |-> t, value |-> x, min_qty |-> q, set |-> S]
MCRuleSets == {{}, {Rule("package_price", 9, 2, {1, 2})},
               {Rule("percent", 25, 1, {2}), Rule("percent", 33, 2, {1, 3})},
               {Rule("percent", 25, 1, {1}), Rule("percent", 33, 2, {1, 2})}}

Item(v, t, q, i) == [variant |-> v, topping |-> t, quantity |-> q, id |-> i]
MCCarts == {<<Item(1, 0, 1, 1), Item(2, 0, 2, 2)>>,
            <<Item(2, 0, 1, 1), Item(1, 3, 2, 2), Item(3, 0, 2, 3)>>}

\* At most one variant is off sale or has another price than the rest.
OneOff == Cardinality({v \in Variants : ~active[v] \/ price[v] # 7}) <= 1

-----------------------------------------------------------------------------
(* Variants: one product, in at most three sizes. *)

Entry(i, s, on) == [id |-> i, size |-> s, active |-> on]
MCForms == {<<Entry(0, 1, TRUE), Entry(0, 3, TRUE)>>, <<Entry(2, 3, TRUE), Entry(0, 0, TRUE)>>,
            <<Entry(2, 2, FALSE), Entry(1, 3, TRUE)>>}

\* The third presentation is the one that comes, goes and is renamed; a save and another
\* request overlap, or two that add a variant, to a product of one or two.
OneSizeMoves ==
  LET flying == \A r \in {a, b} : saveReq[r].kind # "idle"
  IN  /\ {1, 2} \subseteq known /\ onOffer \in {{1, 2}, {1, 2, 3}} /\ unica \in {0, 3}
      /\ habitual \in {{}, {1, 2}}
      /\ \/ \E r \in {a, b} : saveReq[r].kind \in {"idle", "save"}
         \/ \A r \in {a, b} : saveReq[r].kind = "create"
      /\ flying => /\ onOffer = known /\ unica = IF 3 \in known THEN 3 ELSE 0
                   /\ Len(variants) <= 2

-----------------------------------------------------------------------------
(* Options: two toppings of one group. *)

CONSTANTS milk, toppings, nata, fresa

Link(lo, hi, per) == toppings :> [min |-> lo, max |-> hi, per |-> per]
NotLinked         == Link(-1, -1, 0)

MCGroupOf  == nata :> toppings @@ fresa :> toppings
MCLinkSets == {NotLinked, Link(0, 1, 1), Link(1, 2, 3), Link(1, 2, 0)}

ASSUME O!Ruled

\* The menu: two sizes that share the group, two options of either of two items.
CONSTANTS fruit
MCTwoItems  == {milk, fruit}
MCTwoSizes  == {cup, cone}
MCSizeLinks == {NotLinked, Link(0, 1, 2), Link(1, 1, 2), Link(2, 2, 0)}
MCLevels    == 0 .. 2
MCCosts     == {1, 3}
MCNone      == {0}

M == INSTANCE Menu WITH
       Items <- MCTwoItems, Variants <- MCTwoSizes, LinkSets <- MCSizeLinks, Prices <- MCNone,
       Caps <- MCNone, Alone <- EditsAlone, req <- editReq, Levels <- MCLevels,
       UnitCosts <- MCCosts

Changes(q) == {f \in DOMAIN q.want : q.want[f] # q.read[f]}

\* One edit changes one field; fresa is plain; a cap only where it counts; two edits
\* overlap, one of them of an option, before the group is offered.
\* What was accepted decides nothing after it.
PlainEdits ==
  /\ accepted = O!Nothing
  /\ option[fresa] \in {O!NoOption, [O!NoOption EXCEPT !.there = TRUE, !.active = TRUE,
                                                       !.item = milk]}
  /\ option[nata].quantity > 0 => option[nata].item # NoItem
  /\ group[toppings].total = 0 /\ (group[toppings].mode = "conteo" => group[toppings].each = 0)
  /\ \A r \in {a, b} : LET q == editReq[r] IN
       /\ q.kind = "add" => q.want.quantity = 0
       /\ q.kind \notin {"idle", "add"} =>
            Cardinality(Changes(q)) <= 1
  /\ \E r \in {a, b} : editReq[r].kind \in {"idle", "add", "option"}
  /\ (\A r \in {a, b} : editReq[r].kind # "idle") =>
       /\ group[toppings].mode = "conteo" /\ group[toppings].pricing = "con_recargo"
       /\ links[cup] = NotLinked

-----------------------------------------------------------------------------
VARIABLE part

MCInit ==
  /\ part \in {"promotions", "variants", "options", "menu"} /\ Init /\ K!Init
  /\ part # "promotions" => \A v \in Variants : price[v] = 7
  /\ part # "variants" => known = {}
  /\ \/ part # "menu" /\ O!Init
     \/ part = "menu" /\ M!Catalogues

MCNext ==
  /\ UNCHANGED part
  /\ \/ part = "promotions" /\ Next /\ UNCHANGED <<variantVars, optionVars>>
     \/ part = "variants" /\ K!Next /\ UNCHANGED <<vars, optionVars>>
     \/ part = "options" /\ O!Next /\ UNCHANGED <<vars, variantVars>>
     \/ part = "menu" /\ UNCHANGED <<vars, variantVars, optionVars>>   \* it is only read

MCSpec == MCInit /\ [][MCNext]_<<vars, variantVars, optionVars, part>>

Few == CASE part = "promotions" -> OneOff
         [] part = "variants" -> OneSizeMoves
         [] part = "options" -> PlainEdits
         [] part = "menu" -> TRUE

\* Once the product exists, its category's presentations are read no more.
View == <<part, CASE part = "promotions" -> vars
                  [] part = "variants" -> <<known, onOffer, unica, variants, saveReq, saved,
                                            variants = <<>> /\ habitual # {}>>
                  [] part \in {"options", "menu"} -> optionVars>>

Symmetry == Permutations({a, b})

-----------------------------------------------------------------------------
(* Properties of what options serve and what the menu foresees of it. *)

\* The stock that an accepted selection will draw covers every unit that was chosen; the menu
\* marks as available what can be served and as unavailable what would be refused, and the
\* report's cost of a group is what its selections cost on average.
PouredAsForeseen ==
  /\ part = "options" => O!ServedIsPoured
  /\ part = "menu" => M!MarkedIsServable /\ M!UnmarkedIsRefused /\ M!EstimateIsTheMean
=============================================================================
