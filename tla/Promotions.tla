----------------------------- MODULE Promotions -----------------------------
(***************************************************************************)
(* The life of the promotions: draft, active, paused, finished, the guards *)
(* that keep two of them from covering the same product, and what they do  *)
(* to a sale (promotions/service.py and router.py, the model's rules, and  *)
(* the nightly job core/scheduler.py: expire_promotions).                  *)
(*                                                                         *)
(* Handlers run one after the other: two activations at once both pass the *)
(* guards, as the README says.  A promotion's name is left out but for the *)
(* duplication that takes over another's.                                  *)
(*                                                                         *)
(* Time is a number of hours of a day of HoursPerDay; a date is a multiple *)
(* of it, and day 0 is a Monday.                                           *)
(***************************************************************************)
EXTENDS PromotionEngine

CONSTANTS
  Promos,       \* rows of promotions
  Products,     \* products
  ProductOf,    \* variant -> its product
  Prices,       \* prices of a variant
  Windows,      \* validity windows
  RuleSets,     \* lists of rules of a form: disjoint, or it is refused
  Carts,        \* lists of [variant, topping, quantity, id] that are charged
  HoursPerDay, Offset,   \* the tenant's hours behind UTC, in which the job reckons
  MaxTime

Variants == DOMAIN ProductOf
Days     == 0..6
Never    == -1

WindowRow == [starts : Int, ends : Int, days : SUBSET Days,
              from : Int, until : Int]   \* Never: no end, or no hours; no days: all of them

ASSUME PromotionAssumption ==
  /\ ProductOf \in [Variants -> Products] /\ Variants \subseteq Nat
  /\ Prices \subseteq Nat
  /\ Windows \subseteq WindowRow
  /\ \A w \in Windows : (w.from = Never) = (w.until = Never)
  /\ RuleSets \subseteq SUBSET RuleRow
  /\ \A R \in RuleSets : \A r \in R : r.set # {} /\ r.set \subseteq Variants
  /\ HoursPerDay \in Nat \ {0} /\ Offset \in Nat /\ MaxTime \in Nat

Statuses == {"absent", "draft", "active", "paused", "finished"}

VARIABLES
  status,    \* status of each promotion; "absent": no row
  window,    \* its validity
  rules,     \* its rules with their variants
  price,     \* price of each variant
  active,    \* variants on sale
  now,       \* local time
  charged    \* the last list charged: its lines and the rules in force

vars == <<status, window, rules, price, active, now, charged>>

Nothing == [lines |-> <<>>, rules |-> {}]

TypeOK ==
  /\ status \in [Promos -> Statuses]
  /\ window \in [Promos -> WindowRow]
  /\ rules \in [Promos -> RuleSets]
  /\ price \in [Variants -> Prices]
  /\ active \in [Variants -> BOOLEAN]
  /\ now \in 0..MaxTime

NoWindow == [starts |-> 0, ends |-> Never, days |-> {}, from |-> Never, until |-> Never]

Init ==
  /\ status = [p \in Promos |-> "absent"]
  /\ window = [p \in Promos |-> NoWindow]
  /\ rules = [p \in Promos |-> {}]
  /\ price \in [Variants -> Prices]
  /\ active = [v \in Variants |-> TRUE]
  /\ now = 0
  /\ charged = Nothing

-----------------------------------------------------------------------------
(* Validity. *)

DateOf(t) == t \div HoursPerDay
HourOf(t) == t % HoursPerDay
WeekDay(date) == date % 7

\* _in_time_window, which may cross midnight.
InHours(h, from, until) ==
  IF from = Never THEN TRUE
  ELSE IF from <= until THEN from <= h /\ h <= until
       ELSE h >= from \/ h <= until

\* _valid_now: after midnight, a window that crosses it belongs to the day before.
Valid(p, t) ==
  LET w   == window[p]
      day == IF w.from > w.until /\ HourOf(t) <= w.until THEN DateOf(t) - 1 ELSE DateOf(t)
  IN  /\ status[p] = "active"
      /\ w.starts <= t
      /\ w.ends # Never => day <= DateOf(w.ends)
      /\ w.days # {} => WeekDay(day) \in w.days
      /\ InHours(HourOf(t), w.from, w.until)

\* active_variant_set_rules.
InForce(t) == UNION {rules[p] : p \in {q \in Promos : Valid(q, t)}}

-----------------------------------------------------------------------------
(* The guards. *)

VariantsOf(R)  == UNION {r.set : r \in R}
ProductsOf(R)  == {ProductOf[v] : v \in VariantsOf(R)}

\* _guard_no_shared_variants_within_payload.
Disjoint(R) == \A r, s \in R : r # s => r.set \cap s.set = {}

RangesOverlap(w, x) ==
  /\ x.ends # Never => DateOf(w.starts) <= DateOf(x.ends)
  /\ w.ends # Never => DateOf(x.starts) <= DateOf(w.ends)
DaysOverlap(w, x)  == w.days = {} \/ x.days = {} \/ w.days \cap x.days # {}
TimesOverlap(w, x) ==
  \/ w.from = Never \/ x.from = Never
  \/ InHours(w.from, x.from, x.until) \/ InHours(x.from, w.from, w.until)

\* _guard_variant_overlap.
VariantsFree(p, R, w) ==
  \A q \in Promos \ {p} :
    /\ status[q] \in {"draft", "active", "paused"}
    /\ RangesOverlap(w, window[q]) /\ DaysOverlap(w, window[q]) /\ TimesOverlap(w, window[q])
    => VariantsOf(R) \cap VariantsOf(rules[q]) = {}

\* _guard_product_overlap: whatever the hours.
ProductsFree_Draft(p, R) == TRUE
ProductsFree(p, R) ==
  \A q \in Promos \ {p} :
    status[q] = "active" => ProductsOf(R) \cap ProductsOf(rules[q]) = {}

\* _guard_package_is_discount.
Cheaper(R) ==
  \A r \in R : r.type = "package_price" => \A v \in r.set : r.value < r.min_qty * price[v]

Guards(p, R, w) == Cheaper(R) /\ VariantsFree(p, R, w) /\ ProductsFree(p, R)

-----------------------------------------------------------------------------
(* The administrator's requests. *)

Write(p, st, w, R) ==
  /\ status' = [status EXCEPT ![p] = st]
  /\ window' = [window EXCEPT ![p] = w]
  /\ rules' = [rules EXCEPT ![p] = R]
  /\ charged' = Nothing
  /\ UNCHANGED <<price, active, now>>

Create(p, st, w, R) ==
  /\ status[p] = "absent"
  /\ st \in {"draft", "active"} /\ (st = "active" => R # {})
  /\ w.ends # Never => DateOf(w.starts) <= DateOf(w.ends)
  /\ Disjoint(R) /\ Guards(p, R, w)
  /\ Write(p, st, w, R)

\* update: everything but the start, without the guards.
Update(p, w) ==
  /\ status[p] \in {"draft", "paused", "finished"}
  /\ Write(p, status[p], [w EXCEPT !.starts = window[p].starts], rules[p])

UpdateShape(p, R) ==
  /\ status[p] \in {"draft", "paused"}
  /\ R # {} /\ Disjoint(R) /\ Guards(p, R, window[p])
  /\ Write(p, status[p], window[p], R)

\* PROMOTION_TRANSITIONS.
Transitions ==
  [absent |-> {}, draft |-> {"active", "finished"}, active |-> {"paused", "finished"},
   paused |-> {"active", "finished"}, finished |-> {}]

ChangeStatus(p, st) ==
  /\ st \in Transitions[status[p]]
  /\ st = "active" => rules[p] # {} /\ Guards(p, rules[p], window[p])
  /\ Write(p, st, window[p], rules[p])

\* duplicate, and duplicate_replacing, which deletes the promotion whose name the copy takes.
Duplicate(p, copy) ==
  /\ status[p] # "absent" /\ status[copy] = "absent"
  /\ Write(copy, "draft", window[p], rules[p])

DuplicateReplacing(p, copy, old) ==
  /\ status[p] # "absent" /\ status[copy] = "absent"
  /\ status[old] \in {"draft", "paused", "finished"}
  /\ status' = [status EXCEPT ![copy] = "draft", ![old] = "absent"]
  /\ window' = [window EXCEPT ![copy] = window[p], ![old] = NoWindow]
  /\ rules' = [rules EXCEPT ![copy] = rules[p], ![old] = {}]
  /\ charged' = Nothing
  /\ UNCHANGED <<price, active, now>>

Delete(p) ==
  /\ status[p] # "absent"
  /\ Write(p, "absent", NoWindow, {})

\* expire_promotions: ends_at, an hour of the tenant, against the hour of UTC.
Expire ==
  LET due == {p \in Promos : /\ status[p] \in {"active", "paused", "draft"}
                             /\ window[p].ends # Never /\ window[p].ends < now + Offset}
  IN  /\ due # {} /\ HourOf(now + Offset) = 0
      /\ status' = [p \in Promos |-> IF p \in due THEN "finished" ELSE status[p]]
      /\ charged' = Nothing
      /\ UNCHANGED <<window, rules, price, active, now>>

\* The catalog goes its own way meanwhile.
SetPrice(v, a) ==
  /\ price' = [price EXCEPT ![v] = a]
  /\ charged' = Nothing
  /\ UNCHANGED <<status, window, rules, active, now>>

SetActive(v, b) ==
  /\ active' = [active EXCEPT ![v] = b]
  /\ charged' = Nothing
  /\ UNCHANGED <<status, window, rules, price, now>>

Tick ==
  /\ now < MaxTime /\ now' = now + 1
  /\ charged' = Nothing
  /\ UNCHANGED <<status, window, rules, price, active>>

\* auto_discount of an order whose instant is now: promo_lines_for and the rules in force.
LineOf(c) == [variant |-> c.variant, unit |-> price[c.variant] + c.topping,
              base |-> price[c.variant], quantity |-> c.quantity,
              active |-> active[c.variant], id |-> c.id]

Charge(cart) ==
  /\ charged' = [lines |-> [i \in DOMAIN cart |-> LineOf(cart[i])], rules |-> InForce(now)]
  /\ UNCHANGED <<status, window, rules, price, active, now>>

Next ==
  \/ \E p \in Promos :
       \/ \E st \in Statuses, w \in Windows, R \in RuleSets : Create(p, st, w, R)
       \/ \E w \in Windows : Update(p, w)
       \/ \E R \in RuleSets : UpdateShape(p, R)
       \/ \E st \in Statuses : ChangeStatus(p, st)
       \/ \E copy \in Promos : \/ Duplicate(p, copy)
                               \/ \E old \in Promos : DuplicateReplacing(p, copy, old)
       \/ Delete(p)
  \/ Expire
  \/ \E v \in Variants : (\E a \in Prices : SetPrice(v, a)) \/ (\E b \in BOOLEAN : SetActive(v, b))
  \/ Tick
  \/ \E cart \in Carts : Charge(cart)

Spec == Init /\ [][Next]_vars

-----------------------------------------------------------------------------
(* Properties. *)

\* What makes it inductive: two active promotions share no product, whatever their hours, and
\* the rules of a promotion share no variant.
IInv ==
  /\ status \in [Promos -> Statuses] /\ rules \in [Promos -> SUBSET RuleRow]
  /\ \A p \in Promos : Disjoint(rules[p])
  /\ \A p, q \in Promos : p # q /\ status[p] = "active" /\ status[q] = "active" =>
       ProductsOf(rules[p]) \cap ProductsOf(rules[q]) = {}

\* At no instant do two rules in force cover the same variant, so the engine needs no order
\* between them (service.py: "una variante nunca está en dos promociones vigentes al mismo
\* instante").  The guard on hours alone would not do: it compares the days of a window that
\* crosses midnight with the days of one that does not.
OneRulePerVariant ==
  \A t \in 0..MaxTime : \A p, q \in Promos : Valid(p, t) /\ Valid(q, t) =>
    \A r \in rules[p], s \in rules[q] : <<p, r>> # <<q, s>> => r.set \cap s.set = {}

\* The parts of a discount add up to what the groups lose, however the division rounds, and a
\* line outside every group loses nothing.
DiscountAddsUp ==
  \A r \in charged.rules :
    LET lines  == charged.lines
        groups == GreedyGroups(r, lines)
        base(g) == AddUp([k \in DOMAIN groups[g] |-> lines[groups[g][k][1]].base],
                         DOMAIN groups[g])
        part   == RuleDiscount(r, lines)
    IN  /\ AddUp(part, DOMAIN lines)
             = AddUp([g \in DOMAIN groups |-> GroupDiscount(r, base(g))], DOMAIN groups)
        /\ \A i \in DOMAIN lines :
             (\A g \in DOMAIN groups : i \notin LinesOf(groups[g])) => part[i] = 0

\* Among lines without toppings, no other choice of complete groups is better for the customer
\* than the dearest units first.
Groupings(U, q) ==
  {G \in SUBSET kSubset(q, U) : \A g, h \in G : g # h => g \cap h = {}}

NoBetterGrouping ==
  \A r \in charged.rules :
    LET lines == charged.lines
        off(g) == GroupDiscount(r, FoldSet(LAMBDA u, acc : lines[u[1]].base + acc, 0, g))
    IN  r.type = "package_price" /\ (\A i \in DOMAIN lines : lines[i].unit = lines[i].base) =>
          \A G \in Groupings(UnitSet(r, lines), r.min_qty) :
            FoldSet(LAMBDA g, acc : off(g) + acc, 0, G)
              <= LET part == RuleDiscount(r, lines) IN AddUp(part, DOMAIN lines)

\* What the menu shows is what is charged: for one unit, to within half a peso; and for a group
\* of one variant, what it says that each unit comes to, exactly unless it says that it is
\* approximate, and else to within half a peso a unit.  Packages that are no discount by now,
\* because the price went down, are out: the menu shows their price, and the price is charged.
MenuIsCharged ==
  \A v \in Variants : \A r \in InForce(now) :
    LET Charged(n) ==
          n * price[v]
            - Discount(InForce(now), <<[variant |-> v, unit |-> price[v], base |-> price[v],
                                        quantity |-> n, active |-> TRUE, id |-> 1]>>)
        one   == MenuPrice(r, price[v]) - 100 * Charged(1)
        group == r.min_qty * Equivalent(r, price[v]) - Charged(r.min_qty)
    IN  v \in r.set /\ (r.type = "package_price" => r.value <= r.min_qty * price[v]) =>
          /\ r.min_qty = 1 => -50 <= one /\ one <= 50
          /\ IF Approximate(r, price[v]) THEN 2 * group \in -(r.min_qty + 1) .. (r.min_qty + 1)
                                         ELSE group = 0
=============================================================================
