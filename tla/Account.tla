------------------------------ MODULE Account ------------------------------
(***************************************************************************)
(* The account of one table in pesos: the carts of its diners, the orders  *)
(* they become, how the staff shares their lines out among the diners, the *)
(* bills that are shown, and the sales that charge them, with what the     *)
(* promotions in force take off each (cart/service.py, orders/checkout.py, *)
(* orders/service.py, table_sessions/service.py).                          *)
(*                                                                         *)
(* Which handler may charge which order when, and their interleavings, are *)
(* the subject of OrderLifecycle and TableSessions; handlers run here one  *)
(* after the other.  Prices stay as they are, and stock is there: those    *)
(* are Promotions and Inventory.  Promotions come and go with the periods  *)
(* of the day, and an order keeps the period it was sent in.               *)
(***************************************************************************)
EXTENDS PromotionEngine

CONSTANTS
  Diners,     \* participants of the session
  Guests,     \* those of them who came by the QR code; the others are labels of the staff
  Orders,     \* ids of orders
  Lines,      \* ids of their lines: numbers, by which the engine breaks ties
  Price,      \* price of each variant
  Options,    \* options
  Extra,      \* extra_price of each option
  Surcharge,  \* options of groups with a surcharge: in the QR menu, charged once per line
  Menu,       \* what can be asked for: [variant, quantity, chosen]
  RulesAt,    \* rules of the promotions in force in each period: a sequence
  Quantities, \* that a line of a cart is changed to
  MaxCart     \* bound: lines of a cart

NoDiner == "nadie"
NoOrder == 0

ChosenRow == [Options -> Nat]
ItemRow   == [variant : DOMAIN Price, quantity : Nat \ {0}, chosen : ChosenRow]
CartRow   == [variant : DOMAIN Price, quantity : Nat \ {0}, chosen : ChosenRow,
              once : SUBSET Options, unit : Amount, addons : Amount]
Kitchen   == {"pendiente", "listo", "anulado"}
Statuses  == {"absent", "recibida", "abierta", "pagada", "cancelada"}

ASSUME AccountAssumption ==
  /\ Menu \subseteq ItemRow /\ \A t \in DOMAIN RulesAt : RulesAt[t] \subseteq RuleRow
  /\ Lines \subseteq Nat /\ NoOrder \notin Orders /\ NoDiner \notin Diners
  /\ Guests \subseteq Diners
  /\ Extra \in [Options -> Amount] /\ Surcharge \subseteq Options /\ MaxCart \in Nat
  /\ Quantities \subseteq Nat \ {0}

VARIABLES
  cart,     \* cart[d]: the lines of a diner's open cart
  line,     \* line[l]: a line of an order, or NoLine
  order,    \* order[o]: its status, who sent it, and what his cart showed that it would cost
  present,  \* diners of the session
  session,  \* "active" or "closed"
  period,   \* what time it is, as far as promotions can tell
  sales     \* the sales, in their order, with what each charges

vars == <<cart, line, order, present, session, period, sales>>

NoLine == [order |-> NoOrder]
LineRow == [order : Orders, diner : Diners \cup {NoDiner}, row : CartRow, kitchen : Kitchen,
            root : Lines, asked : CartRow]   \* root: the line it was split from, or itself;
                                             \* asked: what that line was when it was sent
OrderRow == [status : Statuses, diner : Diners \cup {NoDiner}, shown : Amount,
             frozen : DOMAIN RulesAt]   \* promotion_evaluated_at
\* A sale: its order or diner if it has one, units charged by root, total and discount.
SaleRow == [order : Orders \cup {NoOrder}, diner : Diners \cup {NoDiner},
            units : [Lines -> Nat], raw : Amount, discount : Amount]

TypeOK ==
  /\ cart \in [Guests -> Seq(CartRow)]
  /\ line \in [Lines -> LineRow \cup {NoLine}]
  /\ order \in [Orders -> OrderRow]
  /\ present \subseteq Diners
  /\ session \in {"active", "closed"} /\ period \in DOMAIN RulesAt
  /\ sales \in Seq(SaleRow)

Init ==
  /\ cart = [d \in Guests |-> <<>>]
  /\ line = [l \in Lines |-> NoLine]
  /\ order = [o \in Orders |-> [status |-> "absent", diner |-> NoDiner, shown |-> 0, frozen |-> 1]]
  /\ present = Guests
  /\ session = "active" /\ period = 1
  /\ sales = <<>>

-----------------------------------------------------------------------------
(* What a line costs (catalog_engine/core.py). *)

ExtrasOf(chosen, S) == FoldSet(LAMBDA o, acc : Extra[o] * chosen[o] + acc, 0, S)

\* _mark_addons: only the QR menu marks the options that are charged once per line.
Priced(item, once) ==
  [variant |-> item.variant, quantity |-> item.quantity, chosen |-> item.chosen, once |-> once,
   unit   |-> Price[item.variant] + ExtrasOf(item.chosen, Options \ once),
   addons |-> ExtrasOf(item.chosen, once)]

LineTotal(row) == row.unit * row.quantity + row.addons
BasePrice(row) == row.unit - ExtrasOf(row.chosen, Options \ row.once)

\* The lines that the engine sees, of a cart and of a charge.
CartBase_NoAddons(row) == row.unit - ExtrasOf(row.chosen, Options)
CartBase(row) == BasePrice(row)
Seen(row, base, id) == [variant |-> row.variant, unit |-> row.unit, base |-> base,
                        quantity |-> row.quantity, active |-> TRUE, id |-> id]
CartLines(c) == FoldLeft(LAMBDA acc, row : Append(acc, Seen(row, CartBase(row), Len(acc) + 1)),
                         <<>>, c)
SaleLines(rows) ==
  FoldLeft(LAMBDA acc, l : Append(acc, Seen(rows[l], BasePrice(rows[l]), l)), <<>>,
           InOrder(DOMAIN rows, <))

\* order_sale_lines, auto_discount, and what a charge of these lines comes to.
Now(l) == line[l].row
RawOf(S)         == AddUp([l \in S |-> LineTotal(Now(l))], S)
DiscountOf(S, t) == Discount(RulesAt[t], SaleLines([l \in S |-> Now(l)]))
DueOf(S, t)      == RawOf(S) - DiscountOf(S, t)

-----------------------------------------------------------------------------
(* What is to be charged. *)

Live(l)     == line[l] # NoLine /\ line[l].kitchen # "anulado"
LiveOf(o)   == {l \in Lines : Live(l) /\ line[l].order = o}
\* _venta_propia, order_has_sale; _sesion_tiene_venta.
OwnSale(o)  == {i \in DOMAIN sales : sales[i].order = o}
Sold(o)     == OwnSale(o) # {}
SessionSold == sales # <<>>
Billable    == {o \in Orders : order[o].status \in {"recibida", "abierta"} /\ ~Sold(o)}
ToCharge    == UNION {LiveOf(o) : o \in Billable}
OfDiner(S, d) == {l \in S : line[l].diner = d}

\* promotion_evaluation_instant: of several orders, the first one's.
Instant_Now(Os) == period
Instant(Os) == Min({order[o].frozen : o \in Os})

\* _participantes_con_consumo.
Consumers_Named(S) == {line[l].diner : l \in S} \ {NoDiner}
Consumers(S) == {line[l].diner : l \in S}

\* compute_bill: one part for each diner.
BillOf(d) == DueOf(OfDiner(ToCharge, d), Instant(Billable))
Bill == AddUp([d \in Consumers(ToCharge) |-> BillOf(d)], Consumers(ToCharge))

\* compute_checkout_preview.
Preview(o) == AtLeastZero(DueOf(LiveOf(o), Instant({o})))

\* group_bill: what the tables that were put together owe.  Any orders may form a group
\* (merge_orders), and each is evaluated at its own instant.
GroupBill_OneInstant(Os) ==
  LET owing == {o \in Os : order[o].status \in {"recibida", "abierta"}}
  IN  AddUp([o \in owing |-> DueOf(LiveOf(o), Instant(owing))], owing)
GroupBill(Os) ==
  LET owing == {o \in Os : order[o].status \in {"recibida", "abierta"}}
  IN  AddUp([o \in owing |-> DueOf(LiveOf(o), Instant({o}))], owing)

\* _close_unified evaluates the lines of all the orders together.
UnifiedDue(Os) == DueOf(UNION {LiveOf(o) : o \in Os}, Instant(Os))

\* What the terminal's bill of the table adds up: every order that was not cancelled, charged
\* or not, without promotions (orders/checkout.py: compute_bill).
OnTable == UNION {LiveOf(o) : o \in {p \in Orders : order[p].status # "cancelada"}}

\* build_billing_summary: how the panel says that an order was charged.
Summary(o) ==
  IF Sold(o) THEN "factura_propia"
  ELSE IF order[o].status # "cancelada" /\ SessionSold THEN "factura_agrupada"
       ELSE "sin_factura"

-----------------------------------------------------------------------------
(* A diner's cart. *)

Active == session = "active"

SetCart(d, c) ==
  /\ cart' = [cart EXCEPT ![d] = c]
  /\ UNCHANGED <<line, order, present, session, period, sales>>

AddItem(d, item) ==
  /\ Active /\ d \in present /\ Len(cart[d]) < MaxCart
  /\ SetCart(d, Append(cart[d], Priced(item, Surcharge)))

\* update_item: the quantity alone keeps the marks of the options, a new selection sets them.
UpdateItem(d, i, q) ==
  /\ Active /\ i \in DOMAIN cart[d]
  /\ LET row == cart[d][i]
     IN  SetCart(d, [cart[d] EXCEPT ![i] = Priced([row EXCEPT !.quantity = q], row.once)])

ReplaceItem(d, i, item) ==
  /\ Active /\ i \in DOMAIN cart[d] /\ item.variant = cart[d][i].variant
  /\ SetCart(d, [cart[d] EXCEPT ![i] = Priced(item, Surcharge)])

RemoveItem(d, i) ==
  /\ Active /\ i \in DOMAIN cart[d]
  /\ SetCart(d, RemoveAt(cart[d], i))

-----------------------------------------------------------------------------
(* Orders. *)

Free == {l \in Lines : line[l] = NoLine}
\* Ids are random: the lines of an order have theirs in any order.  (Of the free ids the next
\* are taken: other orders only rename the lines of different requests.)
NextFree(n) == {l \in Free : Cardinality({m \in Free : m < l}) < n}
IdsFor(d)   == {f \in [1..Len(cart[d]) -> NextFree(Len(cart[d]))] : IsInjective(f)}
NewLine(o, d, row, l) ==
  [order |-> o, diner |-> d, row |-> row, kitchen |-> "pendiente", root |-> l, asked |-> row]

\* serialize_cart: the lines less what the promotions take off.
Shown(c) ==
  AddUp([i \in DOMAIN c |-> LineTotal(c[i])], DOMAIN c) - Discount(RulesAt[period], CartLines(c))

\* submit_cart: the lines are copied with ids of their own, and the cart is deleted.
SubmitCart(d, o, ids) ==
  /\ Active /\ cart[d] # <<>> /\ order[o].status = "absent"
  /\ \A p \in Orders : ~(order[p].diner = d /\ order[p].status \in {"recibida", "abierta"})
  /\ order' = [order EXCEPT ![o] = [status |-> "recibida", diner |-> d, shown |-> Shown(cart[d]),
                                    frozen |-> period]]
  /\ line' = [l \in Lines |-> IF \E i \in DOMAIN ids : ids[i] = l
                              THEN NewLine(o, d, cart[d][CHOOSE i \in DOMAIN ids : ids[i] = l], l)
                              ELSE line[l]]
  /\ cart' = [cart EXCEPT ![d] = <<>>]
  /\ UNCHANGED <<present, session, period, sales>>

\* compute_draft_preview, of an order of the staff before it exists.
DraftPreview_Menu(item) == Shown(<<Priced(item, Surcharge)>>)
DraftPreview(item) ==
  LET row == Priced(item, {})
  IN  AtLeastZero(LineTotal(row) - Discount(RulesAt[period], <<Seen(row, BasePrice(row), 0)>>))

\* create_order of the staff: nobody's lines, its options charged by unit.
CreateOrder(o, l, item, st) ==
  /\ Active /\ order[o].status = "absent"
  /\ st \in {"recibida", "abierta"}
  /\ order' = [order EXCEPT ![o] = [status |-> st, diner |-> NoDiner,
                                    shown |-> DraftPreview(item), frozen |-> period]]
  /\ line' = [line EXCEPT ![l] = NewLine(o, NoDiner, Priced(item, {}), l)]
  /\ UNCHANGED <<cart, present, session, period, sales>>

Cook(l) ==
  /\ Live(l) /\ line[l].kitchen = "pendiente"
  /\ line' = [line EXCEPT ![l].kitchen = "listo"]
  /\ UNCHANGED <<cart, order, present, session, period, sales>>

VoidItem(l) ==
  /\ Live(l) /\ order[line[l].order].status # "pagada" /\ ~Sold(line[l].order)
  /\ line' = [line EXCEPT ![l].kitchen = "anulado"]
  /\ UNCHANGED <<cart, order, present, session, period, sales>>

CancelOrder(o) ==
  /\ o \in Billable
  /\ order' = [order EXCEPT ![o].status = "cancelada"]
  /\ UNCHANGED <<cart, line, present, session, period, sales>>

-----------------------------------------------------------------------------
(* Diners, and sharing out. *)

AddParticipant(d) ==
  /\ Active /\ d \notin present \cup Guests
  /\ present' = present \cup {d}
  /\ UNCHANGED <<cart, line, order, session, period, sales>>

\* Whatever became of his lines, they keep him.
RemoveParticipant(d) ==
  /\ d \in present /\ \A l \in Lines : line[l] # NoLine => line[l].diner # d
  /\ present' = present \ {d}
  /\ cart' = [c \in Guests |-> IF c = d THEN <<>> ELSE cart[c]]
  /\ UNCHANGED <<line, order, session, period, sales>>

\* A clone has the line's price and loses the addons and how many of each option.
Clone_WithAddons(l, d, q) == [line[l] EXCEPT !.diner = d, !.row.quantity = q]
Clone(l, d, q) ==
  [line[l] EXCEPT !.diner = d,
     !.row = [@ EXCEPT !.quantity = q, !.once = {}, !.addons = 0,
                       !.chosen = [o \in Options |->
                                     IF @[o] > 0 /\ o \notin line[l].row.once THEN 1 ELSE 0]]]

\* set_assignments of one line: to one diner whole, or in parts of which the first stays in
\* the line and the others are lines of their own.
Assignable == {l \in Lines : Live(l) /\ order[line[l].order].status \in {"recibida", "abierta"}}
Payers == present \cup {NoDiner}

AssignWhole(l, d) ==
  /\ Active
  /\ line' = [line EXCEPT ![l].diner = d]
  /\ UNCHANGED <<cart, order, present, session, period, sales>>

\* The quantities add up to the line's, whose food is ready.
AssignParts(l, d, m, e, q) ==
  /\ Active /\ line[l].kitchen = "listo"
  /\ line' = [line EXCEPT ![l].diner = d, ![l].row.quantity = @ - q, ![m] = Clone(l, e, q)]
  /\ UNCHANGED <<cart, order, present, session, period, sales>>

ShareOut ==
  \E l \in Assignable, d \in Payers, m \in NextFree(1), e \in Payers :
    \E q \in 1..(line[l].row.quantity - 1) : AssignParts(l, d, m, e, q)

-----------------------------------------------------------------------------
(* Charging. *)

UnitsOf(S) ==
  [r \in Lines |-> LET T == {l \in S : line[l].root = r}
                   IN  AddUp([l \in T |-> line[l].row.quantity], T)]

Sale(o, d, S, discount) ==
  [order |-> o, diner |-> d, units |-> UnitsOf(S), raw |-> RawOf(S), discount |-> discount]

\* The doors that charge an order by itself: pagada at the counter, abierta from the QR; and
\* pay_order, once it is cooked and blocked.
ChargeOrder(o, st) ==
  /\ o \in Billable
  /\ \/ order[o].status = "recibida" /\ st \in {"pagada", "abierta"}
     \/ order[o].status = "abierta" /\ st = "pagada"
        /\ \A l \in LiveOf(o) : line[l].kitchen = "listo"
  /\ sales' = Append(sales, Sale(o, order[o].diner, LiveOf(o),
                               DiscountOf(LiveOf(o), Instant({o}))))
  /\ order' = [order EXCEPT ![o].status = st]
  /\ UNCHANGED <<cart, line, present, session, period>>

Closable ==
  /\ Active /\ Billable # {}
  /\ \A o \in Billable : order[o].status # "recibida"
  /\ \A l \in ToCharge : line[l].kitchen # "pendiente"

Close(newSales) ==
  /\ sales' = sales \o newSales
  /\ order' = [o \in Orders |-> IF o \in Billable THEN [order[o] EXCEPT !.status = "pagada"]
                                                  ELSE order[o]]
  /\ session' = "closed"
  /\ cart' = [d \in Guests |-> <<>>]
  /\ UNCHANGED <<line, present, period>>

CloseUnified ==
  /\ Closable
  /\ LET only == IF Cardinality(Billable) = 1 THEN CHOOSE o \in Billable : TRUE ELSE NoOrder
     IN  Close(<<Sale(only, NoDiner, ToCharge, RawOf(ToCharge) - UnifiedDue(Billable))>>)

\* One block for each diner with something to pay, no more and no fewer, its discount as the
\* caller says: what the bill showed, or none.
CloseSplit(blocks, given) ==
  /\ Closable /\ IsInjective(blocks)
  /\ Range(blocks) = Consumers(ToCharge) /\ blocks # <<>>
  /\ Close([i \in DOMAIN blocks |->
              LET S == OfDiner(ToCharge, blocks[i])
              IN  Sale(NoOrder, blocks[i], S, IF given THEN DiscountOf(S, Instant(Billable)) ELSE 0)])

\* What the reports add up of the sales' lines: the units of each (products_report, by variant),
\* and what they came to before promotions (categories_report).
SoldUnits(r) == AddUp([i \in DOMAIN sales |-> sales[i].units[r]], DOMAIN sales)
Revenue      == AddUp([i \in DOMAIN sales |-> sales[i].raw], DOMAIN sales)

\* A promotion begins, or ends.
Passes ==
  /\ period + 1 \in DOMAIN RulesAt /\ period' = period + 1
  /\ UNCHANGED <<cart, line, order, present, session, sales>>

Blocks == UNION {[1..n -> Diners \cup {NoDiner}] : n \in 1..(Cardinality(Diners) + 1)}

Next ==
  \/ \E d \in Guests :
       \/ \E item \in Menu : AddItem(d, item)
       \/ \E i \in 1..MaxCart : \/ \E q \in Quantities : UpdateItem(d, i, q)
                                \/ \E item \in Menu : ReplaceItem(d, i, item)
                                \/ RemoveItem(d, i)
       \/ \E o \in Orders : \E ids \in IdsFor(d) : SubmitCart(d, o, ids)
  \/ \E d \in Diners : AddParticipant(d) \/ RemoveParticipant(d)
  \/ \E o \in Orders :
       \/ \E l \in NextFree(1), item \in Menu : \E st \in {"recibida", "abierta"} :
            CreateOrder(o, l, item, st)
       \/ CancelOrder(o)
       \/ \E st \in {"pagada", "abierta"} : ChargeOrder(o, st)
  \/ \E l \in Lines : Cook(l) \/ VoidItem(l)
  \/ \E l \in Assignable, d \in Payers : AssignWhole(l, d)
  \/ ShareOut
  \/ CloseUnified \/ Passes
  \/ \E blocks \in Blocks, given \in BOOLEAN : CloseSplit(blocks, given)

Spec == Init /\ [][Next]_vars

-----------------------------------------------------------------------------
(* Properties. *)

\* No line of the order has been voided, split or given to another.
Untouched(o) ==
  \A l \in Lines : line[l] # NoLine /\ line[l].order = o =>
    line[l].kitchen # "anulado" /\ line[l].root = l /\ line[l].diner = order[o].diner

\* The bill of the orders of Os is what they come to when each is charged by itself, if none
\* of them was: group_bill counts an order that was charged and is still abierta once more.
GroupAgrees(Os) ==
  (\A o \in Os : Sold(o) => order[o].status # "abierta") =>
    GroupBill(Os) = AddUp([o \in Os \cap Billable |-> Preview(o)], Os \cap Billable)

\* What the cart showed when it was sent, or the draft of the staff, is what a charge of the
\* order comes to while nobody has voided or shared out its lines: though a promotion has begun
\* or ended meanwhile, and though the cart and the charge each reckon the base of the promotions
\* from rows of their own and their lines have other ids (cart/service.py: "el snapshot de
\* descuento ... debe coincidir exactamente"; checkout.py: "coincida centavo a centavo").  And the bill of
\* tables put together is the sum of those charges (tables_advanced.py: "debe coincidir con el
\* cobro pedido-por-pedido").
ShownIsCharged ==
  /\ \A o \in Billable : Untouched(o) => Preview(o) = order[o].shown
  /\ \A Os \in SUBSET Orders : Cardinality(Os) > 1 => GroupAgrees(Os)

\* Sharing the lines out changes nothing of what they cost together, promotions included
\* (set_assignments: "la invariante que hace segura esta operación").  Options by unit that are
\* chosen twice are out: their clones say once, as the code knows (A-97).
SplitKeepsTheBill ==
  LET lines   == {l \in Lines : line[l] # NoLine}
      Asked(l) == line[l].asked
      roots   == {l \in lines : line[l].root = l}
  IN  /\ roots # lines /\ lines = Assignable
      /\ \A l \in lines : \A o \in Options : Asked(l).chosen[o] < 2
      =>
        /\ RawOf(lines) = AddUp([l \in roots |-> LineTotal(Asked(l))], roots)
        /\ \A t \in DOMAIN RulesAt :
             DiscountOf(lines, t) = Discount(RulesAt[t], SaleLines([l \in roots |-> Asked(l)]))

\* When the table is closed every unit that was asked for and not voided has been charged
\* exactly once, by whichever of the doors, and so has every peso that the table's bill adds up:
\* the reports of products and of categories show neither more nor less.
EveryUnitChargedOnce ==
  session = "closed" =>
    /\ \A r \in Lines : SoldUnits(r) = UnitsOf(OnTable)[r]
    /\ Revenue = RawOf(OnTable)

\* An order that is still to be charged is not shown as charged along with others
\* (build_billing_summary: that would affirm "un cobro inexistente").
NotYetCharged == \A o \in Billable : Summary(o) = "sin_factura"
=============================================================================
