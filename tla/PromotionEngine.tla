-------------------------- MODULE PromotionEngine --------------------------
(***************************************************************************)
(* The promotion engine: what the rules in force take off a list of lines  *)
(* (promotions/service.py: evaluate_variant_sets and what it calls), and   *)
(* the price that the public menu shows for one unit.                      *)
(*                                                                         *)
(* Amounts are whole pesos; the menu's, hundredths of a peso.  A variant   *)
(* is a number, and so is a line's id: the engine breaks ties by them.     *)
(***************************************************************************)
EXTENDS Integers, FiniteSets, Sequences, SequencesExt

RuleTypes == {"percent", "package_price"}

\* A rule's value is a percentage or the price of min_qty units; a line's base is its unit
\* price without the options that are charged by unit.
Amount   == Nat
RuleRow  == [type : RuleTypes, value : Amount, min_qty : Nat \ {0}, set : SUBSET Nat]
PromoLine == [variant : Nat, unit : Amount, base : Amount, quantity : Nat, active : BOOLEAN,
              id : Nat]

AddUp(f, S) == FoldSet(LAMBDA i, acc : f[i] + acc, 0, S)
\* The elements of a set as a sequence in an order.
InOrder(S, Before(_, _)) == SortSeq(FoldSet(LAMBDA u, acc : Append(acc, u), <<>>, S), Before)
AtLeastZero(n) == IF n < 0 THEN 0 ELSE n

\* A percentage of an amount, rounded half up to the peso.
PercentOf_Down(amount, value) == (amount * value) \div 100
PercentOf(amount, value) == (amount * value + 50) \div 100

-----------------------------------------------------------------------------
(* The units of a list of lines that a rule covers: dear ones first, then by variant and line. *)

Covered(rule, lines) == {i \in DOMAIN lines : lines[i].variant \in rule.set /\ lines[i].active}

UnitSet(rule, lines) ==
  UNION {{i} \X (1..lines[i].quantity) : i \in Covered(rule, lines)}

Sooner_CheapFirst(l, m) ==
  \/ l.unit < m.unit
  \/ l.unit = m.unit /\ l.id < m.id

Sooner(l, m) ==
  \/ l.unit > m.unit
  \/ l.unit = m.unit /\ l.variant < m.variant
  \/ l.unit = m.unit /\ l.variant = m.variant /\ l.id < m.id

UnitOrder(lines, u, v) ==
  \/ Sooner(lines[u[1]], lines[v[1]])
  \/ u[1] = v[1] /\ u[2] < v[2]

SortedUnits(rule, lines) ==
  InOrder(UnitSet(rule, lines), LAMBDA u, v : UnitOrder(lines, u, v))

\* _greedy_units: the complete groups of min_qty units; what is left pays its price.
GreedyGroups(rule, lines) ==
  LET units == SortedUnits(rule, lines)
      q     == rule.min_qty
  IN  [g \in 1..(Len(units) \div q) |-> SubSeq(units, (g - 1) * q + 1, g * q)]

\* How many units of line i are in a group, and what they add to its price.
UnitsIn(group, i) == Cardinality({k \in DOMAIN group : group[k][1] = i})
LinesOf(group)    == {group[k][1] : k \in DOMAIN group}
Shares(group, lines) == [i \in LinesOf(group) |-> UnitsIn(group, i) * lines[i].base]

GroupDiscount(rule, base) ==
  IF rule.type = "package_price" THEN AtLeastZero(base - rule.value)
                                 ELSE PercentOf(base, rule.value)

\* _distribute_group_discount: each line is charged its part, rounded down; the line of the
\* highest variant, and of the highest id, is charged what is missing.
Top(S, lines) ==
  CHOOSE i \in S : \A j \in S :
    \/ lines[j].variant < lines[i].variant
    \/ lines[j].variant = lines[i].variant /\ lines[j].id <= lines[i].id

Remainder_Dropped(total, discount, charged, S) == 0
Remainder(total, discount, charged, S) == total - discount - AddUp(charged, S)

Distribute(group, discount, lines) ==
  LET share   == Shares(group, lines)
      S       == DOMAIN share
      total   == AddUp(share, S)
      charged == [i \in S |-> ((total - discount) * share[i]) \div total]
      rest    == Remainder(total, discount, charged, S)
  IN  [i \in S |-> share[i] - charged[i] - (IF i = Top(S, lines) THEN rest ELSE 0)]

\* What one rule takes off each line.
GroupBase(group, lines) == AddUp(Shares(group, lines), LinesOf(group))
GroupParts(rule, group, lines) ==
  LET off == GroupDiscount(rule, GroupBase(group, lines))
  IN  IF off > 0 THEN Distribute(group, off, lines) ELSE [i \in LinesOf(group) |-> 0]

RuleDiscount(rule, lines) ==
  FoldLeft(LAMBDA acc, group :
             LET part == GroupParts(rule, group, lines)
             IN  [i \in DOMAIN lines |-> acc[i] + (IF i \in DOMAIN part THEN part[i] ELSE 0)],
           [i \in DOMAIN lines |-> 0], GreedyGroups(rule, lines))

\* evaluate_variant_sets: what the rules take off all of them.
Discount(rules, lines) ==
  FoldSet(LAMBDA r, acc : AddUp(RuleDiscount(r, lines), DOMAIN lines) + acc, 0, rules)

-----------------------------------------------------------------------------
(* menu_unit_discount: the price of one unit in hundredths, when a rule of one unit covers it. *)

MenuPrice(rule, price) ==
  IF rule.type = "package_price" THEN 100 * rule.value ELSE price * (100 - rule.value)

\* menu_variant_promotion: what each unit of a group comes to, as a fraction; the peso it is
\* rounded to; and whether the menu says that it was.
EachComesTo(rule, price) ==
  IF rule.type = "package_price" THEN [n |-> rule.value, of |-> rule.min_qty]
                                 ELSE [n |-> price * (100 - rule.value), of |-> 100]
Equivalent(rule, price) ==
  LET e == EachComesTo(rule, price) IN (2 * e.n + e.of) \div (2 * e.of)
Approximate(rule, price) ==
  LET e == EachComesTo(rule, price) IN e.n % e.of # 0
=============================================================================
