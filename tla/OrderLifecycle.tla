--------------------------- MODULE OrderLifecycle ---------------------------
(***************************************************************************)
(* Orders, their lines, their payment attempts and the stock they consume. *)
(*                                                                         *)
(* Every action is one request handler of app/api/v1/orders, and of the    *)
(* diner's side of app/api/v1/cart, run as ONE database transaction: its   *)
(* guards are the handler's early returns, a rejected request rolls back   *)
(* and is a stuttering step.  What happens when two handlers overlap is    *)
(* the subject of OrderTransactions, which reuses the operators below.     *)
(* An operator named X_Variant is X with a plausible bug: no action uses   *)
(* it; put in the place of X, it breaks the property README.md names.      *)
(*                                                                         *)
(* A line stands for an order_items row.  Quantities are abstracted to one *)
(* unit of each ingredient in the line's recipe; an empty recipe is a      *)
(* product that does not track inventory.  Amounts of money are abstracted *)
(* away: a billing handler only succeeds when the payments cover the       *)
(* total, and that is the client's choice.                                 *)
(***************************************************************************)
EXTENDS Integers, FiniteSets

CONSTANTS
  Orders,       \* ids of customer_orders rows
  Lines,        \* ids of order_items rows
  Attempts,     \* ids of order_payment_attempts rows
  Ingredients,  \* ids of inventory_items rows
  Recipe,       \* Recipe[l]: the ingredients that line l consumes
  Stock0,       \* Stock0[g]: units of g in stock at the start
  NoOrder,      \* the order of a row that has not been inserted yet
  OldLine,      \* OldLine[l]: the order line l already belongs to at the start
  OldAttempt    \* OldAttempt[a]: the order that attempt a already paid at the start

(***************************************************************************)
(* OldLine and OldAttempt describe rows older than the fusion of "confirm  *)
(* the payment" and "send to the kitchen" into one transaction: an order   *)
(* still recibida whose payment attempt is already confirmado.             *)
(***************************************************************************)
OldOrders == {OldLine[l] : l \in Lines} \ {NoOrder}

ASSUME LifecycleAssumption ==
  /\ NoOrder \notin Orders
  /\ IsFiniteSet(Lines)
  /\ Recipe \in [Lines -> SUBSET Ingredients]
  /\ Stock0 \in [Ingredients -> Nat]
  /\ OldLine \in [Lines -> Orders \cup {NoOrder}]
  /\ OldAttempt \in [Attempts -> OldOrders \cup {NoOrder}]

VARIABLES
  order,     \* customer_orders: status, version, diner (participant_id set), pooled
  line,      \* order_items: the order it belongs to and its estado_cocina
  attempt,   \* order_payment_attempts: order, status, cash method, receipt attached
  billed,    \* billed[l]: sale_items rows built from line l
  saleOf,    \* saleOf[o]: sales rows whose customer_order_id is o
  stock,     \* inventory_items.current_stock
  taken,     \* taken[l]: times the kardex took line l's recipe out
  returned   \* returned[l]: times the kardex put line l's recipe back

saleVars  == <<billed, saleOf>>
stockVars == <<stock, taken, returned>>
vars      == <<order, line, attempt, billed, saleOf, stock, taken, returned>>

Statuses == {"ausente", "recibida", "abierta", "bloqueada", "pagada", "cancelada"}
Terminal == {"pagada", "cancelada"}
Cocina   == {"pendiente", "en_preparacion", "listo", "anulado"}
EnCurso  == {"pendiente", "en_preparacion"}

OrderRow   == [status : Statuses, version : Nat, diner : BOOLEAN, pooled : BOOLEAN]
LineRow    == [order : Orders \cup {NoOrder}, cocina : Cocina]
AttemptRow == [order : Orders \cup {NoOrder},
               status : {"pendiente", "confirmado", "rechazado"},
               cash : BOOLEAN, receipt : BOOLEAN]

TypeOK ==
  /\ order \in [Orders -> OrderRow]
  /\ line \in [Lines -> LineRow]
  /\ attempt \in [Attempts -> AttemptRow]
  /\ billed \in [Lines -> Nat]
  /\ saleOf \in [Orders -> Nat]
  /\ stock \in [Ingredients -> Nat]
  /\ taken \in [Lines -> Nat]
  /\ returned \in [Lines -> Nat]

Init ==
  /\ order = [o \in Orders |->
                [status  |-> IF o \in OldOrders THEN "recibida" ELSE "ausente",
                 version |-> 0, diner |-> o \in OldOrders, pooled |-> FALSE]]
  /\ line = [l \in Lines |-> [order |-> OldLine[l], cocina |-> "pendiente"]]
  /\ attempt = [a \in Attempts |->
                  [order   |-> OldAttempt[a],
                   status  |-> IF OldAttempt[a] = NoOrder
                               THEN "pendiente" ELSE "confirmado",
                   cash    |-> TRUE, receipt |-> FALSE]]
  /\ billed = [l \in Lines |-> 0]
  /\ saleOf = [o \in Orders |-> 0]
  /\ stock = Stock0
  /\ taken = [l \in Lines |-> 0]
  /\ returned = [l \in Lines |-> 0]

-----------------------------------------------------------------------------
(* What the handlers read. *)

Status(o)  == order[o].status
LinesOf(o) == {l \in Lines : line[l].order = o}
Unsent     == {l \in Lines : line[l].order = NoOrder}
Untried    == {a \in Attempts : attempt[a].order = NoOrder}

\* The lines order_sale_lines charges, and _deduct_and_open deducts.
Live(o) == {l \in LinesOf(o) : line[l].cocina # "anulado"}

Cooking(o) == {l \in LinesOf(o) : line[l].cocina \in EnCurso}

AttemptsOf(o, s) == {a \in Attempts : attempt[a].order = o /\ attempt[a].status = s}

HasSale(o) == saleOf[o] > 0

Billable(o) == Status(o) \notin Terminal \cup {"ausente"} /\ ~HasSale(o)

-----------------------------------------------------------------------------
(* What the handlers write: rows of the kardex, sales, statuses. *)

Uses(S, g) == Cardinality({l \in S : g \in Recipe[l]})

\* The kardex movements of one transaction: the recipes of the lines of `back`
\* come in, those of `out` go out.
Movements(back, out) ==
  /\ stock' = [g \in Ingredients |-> stock[g] + Uses(back, g) - Uses(out, g)]
  /\ taken' = [l \in Lines |-> IF l \in out THEN taken[l] + 1 ELSE taken[l]]
  /\ returned' = [l \in Lines |-> IF l \in back THEN returned[l] + 1 ELSE returned[l]]

\* A single ingredient short rolls everything back.
MoveStock(back, out) ==
  /\ \A g \in Ingredients : Uses(out, g) <= stock[g] + Uses(back, g)
  /\ Movements(back, out)

Deduct(S)  == MoveStock({}, S)
Reverse(S) == MoveStock(S, {})

\* build_sale over the lines of S; refs are the orders named by customer_order_id.
BuildSale(S, refs) ==
  /\ S # {}
  /\ billed' = [l \in Lines |-> IF l \in S THEN billed[l] + 1 ELSE billed[l]]
  /\ saleOf' = [o \in Orders |-> IF o \in refs THEN saleOf[o] + 1 ELSE saleOf[o]]

Inserted(S, o) ==
  [l \in Lines |-> IF l \in S THEN [order |-> o, cocina |-> "pendiente"] ELSE line[l]]

SetCocina(S, c) ==
  line' = [l \in Lines |-> IF l \in S THEN [line[l] EXCEPT !.cocina = c] ELSE line[l]]

SetStatus(o, s) == order' = [order EXCEPT ![o].status = s]

\* The status changes that also bump the optimistic version.
Advance(o, s) ==
  order' = [order EXCEPT ![o].status = s, ![o].version = order[o].version + 1]

Resolve(A, s) ==
  attempt' = [a \in Attempts |->
                IF a \in A THEN [attempt[a] EXCEPT !.status = s] ELSE attempt[a]]

Opened(o, s, diner, pooled) ==
  order' = [order EXCEPT ![o] = [status |-> s, version |-> 0,
                                 diner |-> diner, pooled |-> pooled]]

-----------------------------------------------------------------------------
(* Orders are born. *)

\* create_order: with hold_for_payment it waits, recibida, for checkout_and_send;
\* otherwise it is abierta and commits the stock at once.
CreateOrder(o, S, hold, diner) ==
  /\ Status(o) = "ausente"
  /\ S # {} /\ S \subseteq Unsent
  /\ line' = Inserted(S, o)
  /\ \/ /\ hold
        /\ Opened(o, "recibida", diner, FALSE)
        /\ UNCHANGED stockVars
     \/ /\ ~hold
        /\ Opened(o, "abierta", diner, FALSE)
        /\ Deduct(S)
  /\ UNCHANGED <<attempt, saleVars>>

\* submit_cart: the diner's cart becomes a recibida order with its first payment
\* attempt; a receipt comes with every method but cash.  check_availability only
\* looks at the stock.
SubmitCart(o, S, a, cash) ==
  /\ Status(o) = "ausente"
  /\ S # {} /\ S \subseteq Unsent
  /\ a \in Untried
  /\ \A g \in Ingredients : Uses(S, g) <= stock[g]
  /\ Opened(o, "recibida", TRUE, FALSE)
  /\ line' = Inserted(S, o)
  /\ attempt' = [attempt EXCEPT ![a] = [order |-> o, status |-> "pendiente",
                                        cash |-> cash, receipt |-> ~cash]]
  /\ UNCHANGED <<saleVars, stockVars>>

\* consolidate_table: the open carts of a table join its abierta pooled order, or a
\* new one.
ConsolidateTable(o, S) ==
  /\ S # {} /\ S \subseteq Unsent
  /\ \/ /\ Status(o) = "abierta" /\ order[o].pooled
        /\ UNCHANGED order
     \/ /\ Status(o) = "ausente"
        /\ Opened(o, "abierta", FALSE, TRUE)
  /\ line' = Inserted(S, o)
  /\ Deduct(S)
  /\ UNCHANGED <<attempt, saleVars>>

-----------------------------------------------------------------------------
(* Lines are added, cooked and voided. *)

\* add_item_to_order refuses a terminal order only: the line is deducted even when
\* the order still is recibida.
AddItemReads(o) == Status(o) \notin Terminal \cup {"ausente"}
AddItemWrites(o, l) ==
  /\ l \in Unsent
  /\ line' = Inserted({l}, o)
  /\ Deduct({l})
  /\ UNCHANGED <<order, attempt, saleVars>>
AddItemToOrder(o, l) == AddItemReads(o) /\ AddItemWrites(o, l)

KitchenAllows(from, to) ==
  \/ from = "pendiente" /\ to \in {"en_preparacion", "listo"}
  \/ from = "en_preparacion" /\ to = "listo"

\* transition_kitchen looks at the line alone, whatever its order's status.
KitchenReads(l, to)  == line[l].order # NoOrder /\ KitchenAllows(line[l].cocina, to)
KitchenWrites(l, to) ==
  /\ SetCocina({l}, to)
  /\ UNCHANGED <<order, attempt, saleVars, stockVars>>
TransitionKitchen(l, to) == KitchenReads(l, to) /\ KitchenWrites(l, to)

MarkReadyReads(o)  == Status(o) \notin Terminal \cup {"ausente"} /\ Cooking(o) # {}
MarkReadyWrites(S) ==
  /\ SetCocina(S, "listo")
  /\ UNCHANGED <<order, attempt, saleVars, stockVars>>
MarkOrderReady(o) == MarkReadyReads(o) /\ MarkReadyWrites(Cooking(o))

\* void_item: refused once the order is paid; only a line the kitchen has not started
\* gives its ingredients back.
InPlay(l) == line[l].order # NoOrder /\ line[l].cocina # "anulado"

VoidReads(l) ==
  /\ InPlay(l)
  /\ Status(line[l].order) # "pagada"
  /\ ~HasSale(line[l].order)

ToReturn(l) == IF line[l].cocina = "pendiente" THEN {l} ELSE {}

VoidWrites(l, back) ==
  /\ SetCocina({l}, "anulado")
  /\ Reverse(back)
  /\ UNCHANGED <<order, attempt, saleVars>>
VoidItem(l) == VoidReads(l) /\ VoidWrites(l, ToReturn(l))

\* void_item with a replacement: a new pendiente line, deducted after the reversal.
ReplaceItem(l, new) ==
  /\ VoidReads(l)
  /\ new \in Unsent
  /\ line' = [line EXCEPT ![l].cocina = "anulado",
                          ![new] = [order |-> line[l].order, cocina |-> "pendiente"]]
  /\ MoveStock(ToReturn(l), {new})
  /\ UNCHANGED <<order, attempt, saleVars>>

-----------------------------------------------------------------------------
(* Orders are charged. *)

\* block_order: the kitchen has finished and the client knows the current version.
BlockReads(o, v) == Status(o) = "abierta" /\ order[o].version = v /\ Cooking(o) = {}
BlockWrites(o) ==
  /\ Advance(o, "bloqueada")
  /\ UNCHANGED <<line, attempt, saleVars, stockVars>>
BlockOrder(o, v) == BlockReads(o, v) /\ BlockWrites(o)

\* pay_order: the stock left when the order was confirmed, so it does not move.
PayReads_Again(o) == Status(o) \in {"bloqueada", "pagada"}
PayReads(o) == Status(o) = "bloqueada"
PayWrites(o, S) ==
  /\ BuildSale(S, {o})
  /\ SetStatus(o, "pagada")
  /\ UNCHANGED <<line, attempt, stockVars>>
PayOrder(o) == PayReads(o) /\ PayWrites(o, Live(o))

\* Charge a recibida order and send it to the kitchen: build_sale, then
\* _deduct_and_open, then pagada, over the lines S that the transaction read.
ChargeAndSend(o, S) ==
  /\ BuildSale(S, {o})
  /\ Deduct(S)
  /\ Advance(o, "pagada")
  /\ UNCHANGED line

SendReads(o, v)  == Status(o) = "recibida" /\ order[o].version = v
SendWrites(o, S) == ChargeAndSend(o, S) /\ UNCHANGED attempt
CheckoutAndSend(o, v) == SendReads(o, v) /\ SendWrites(o, Live(o))

\* _confirm_order_impl wants exactly one confirmed attempt: none is a 409, two make
\* scalar_one_or_none raise.  confirm_order is that alone, kept as a way to recover.
ConfirmReads(o) ==
  /\ Status(o) = "recibida"
  /\ Cardinality(AttemptsOf(o, "confirmado")) = 1

ConfirmOrder_NoStock(o) ==
  ConfirmReads(o) /\ Advance(o, "abierta") /\ UNCHANGED <<line, attempt, saleVars, stockVars>>

ConfirmOrder(o) ==
  /\ ConfirmReads(o)
  /\ Live(o) # {}
  /\ Deduct(Live(o))
  /\ Advance(o, "abierta")
  /\ UNCHANGED <<line, attempt, saleVars>>

Pendiente(a) == attempt[a].order # NoOrder /\ attempt[a].status = "pendiente"

\* approve_payment_attempt (a transfer with its receipt) and
\* confirm_cash_payment_attempt read the attempt under its lock ...
ApproveReads(a) == Pendiente(a) /\ ~attempt[a].cash /\ attempt[a].receipt
CashReads(a)    == Pendiente(a) /\ attempt[a].cash

\* ... and then confirm it, charge the order and send it, or do nothing at all.
ConfirmedBy_AnyStatus(a, o) == AttemptsOf(o, "confirmado") = {}
ConfirmedBy(a, o) == Status(o) = "recibida" /\ AttemptsOf(o, "confirmado") = {}

PayAttemptWrites(a, o, S) ==
  /\ Resolve({a}, "confirmado")
  /\ ChargeAndSend(o, S)
PayAttempt(a) ==
  LET o == attempt[a].order
  IN  ConfirmedBy(a, o) /\ PayAttemptWrites(a, o, Live(o))

ApprovePaymentAttempt(a)     == ApproveReads(a) /\ PayAttempt(a)
ConfirmCashPaymentAttempt(a) == CashReads(a) /\ PayAttempt(a)

RejectReads(a)  == Pendiente(a) /\ ~attempt[a].cash
RejectWrites(a) ==
  /\ Resolve({a}, "rechazado")
  /\ UNCHANGED <<order, line, saleVars, stockVars>>
RejectPaymentAttempt(a) == RejectReads(a) /\ RejectWrites(a)

\* create_payment_attempt, by the diner who owns the order.  The partial unique index
\* idx_pending_payment_attempt_per_order backs the check when the row is inserted.
NoneUnderReview(o) == AttemptsOf(o, "pendiente") = {}
AttemptReads(o) == order[o].diner /\ Status(o) = "recibida" /\ NoneUnderReview(o)
AttemptInsert(a, o, cash) ==
  /\ a \in Untried
  /\ attempt' = [attempt EXCEPT ![a] = [order |-> o, status |-> "pendiente",
                                        cash |-> cash, receipt |-> FALSE]]
  /\ UNCHANGED <<order, line, saleVars, stockVars>>
AttemptWrites(a, o, cash) == NoneUnderReview(o) /\ AttemptInsert(a, o, cash)
CreatePaymentAttempt(a, o, cash) == AttemptReads(o) /\ AttemptWrites(a, o, cash)

\* _load_own_pending_attempt: of the diner's own order.
OwnPending(a) == Pendiente(a) /\ order[attempt[a].order].diner
AttachReceipt(a) ==
  /\ OwnPending(a)
  /\ ~attempt[a].cash /\ ~attempt[a].receipt
  /\ attempt' = [attempt EXCEPT ![a].receipt = TRUE]
  /\ UNCHANGED <<order, line, saleVars, stockVars>>

\* close_session over S, the billable orders of one table session.  Which orders share
\* a session is the subject of another component: here any set may.  A unified account
\* is one sale, naming its order only when there is one; a split account is one sale
\* per diner and names none.  Either way each live line is charged by one sale.
CloseReads(S) ==
  /\ S # {}
  /\ \A o \in S : Billable(o) /\ Status(o) # "recibida" /\ Cooking(o) = {}
CloseWrites(S, L, split) ==
  /\ BuildSale(L, IF Cardinality(S) = 1 /\ ~split THEN S ELSE {})
  /\ order' = [o \in Orders |->
                 IF o \in S THEN [order[o] EXCEPT !.status = "pagada"] ELSE order[o]]
  /\ UNCHANGED <<line, attempt, stockVars>>
CloseSession(S, split) == CloseReads(S) /\ CloseWrites(S, UNION {Live(o) : o \in S}, split)

-----------------------------------------------------------------------------
(* Orders are cancelled. *)

\* cancel_order: a recibida order never left stock; otherwise the lines the kitchen
\* has not started come back and the others are a loss.  A pending attempt is rejected.
CancelReads_SaleOnly(o) == Status(o) # "ausente" /\ ~HasSale(o)
CancelReads(o) == Billable(o)

Unstarted(o) == {l \in LinesOf(o) : line[l].cocina = "pendiente"}
Uncooked(o)  == IF Status(o) = "recibida" THEN {} ELSE Unstarted(o)

CancelWrites(o, back) ==
  /\ Reverse(back)
  /\ SetStatus(o, "cancelada")
  /\ Resolve(AttemptsOf(o, "pendiente"), "rechazado")
  /\ UNCHANGED <<line, saleVars>>
CancelOrder(o) == CancelReads(o) /\ CancelWrites(o, Uncooked(o))

\* cancel_my_order: the diner, until the kitchen starts.
DinerMayCancel(o) ==
  /\ order[o].diner
  /\ \/ Status(o) = "recibida"
     \/ Status(o) = "abierta" /\ \A l \in Live(o) : line[l].cocina = "pendiente"
CancelMyOrder(o) == DinerMayCancel(o) /\ CancelOrder(o)

-----------------------------------------------------------------------------

Versions == 0 .. 2

NextOrder(o) ==
  \/ \E S \in SUBSET Lines, hold, diner \in BOOLEAN : CreateOrder(o, S, hold, diner)
  \/ \E S \in SUBSET Lines, a \in Attempts, cash \in BOOLEAN : SubmitCart(o, S, a, cash)
  \/ \E S \in SUBSET Lines : ConsolidateTable(o, S)
  \/ \E l \in Lines : AddItemToOrder(o, l)
  \/ MarkOrderReady(o)
  \/ \E v \in Versions : BlockOrder(o, v) \/ CheckoutAndSend(o, v)
  \/ PayOrder(o)
  \/ ConfirmOrder(o)
  \/ \E a \in Attempts, cash \in BOOLEAN : CreatePaymentAttempt(a, o, cash)
  \/ CancelOrder(o)
  \/ CancelMyOrder(o)

NextLine(l) ==
  \/ \E to \in Cocina : TransitionKitchen(l, to)
  \/ VoidItem(l)
  \/ \E new \in Lines : ReplaceItem(l, new)

NextAttempt(a) ==
  \/ ApprovePaymentAttempt(a)
  \/ ConfirmCashPaymentAttempt(a)
  \/ RejectPaymentAttempt(a)
  \/ AttachReceipt(a)

Next ==
  \/ \E o \in Orders : NextOrder(o)
  \/ \E l \in Lines : NextLine(l)
  \/ \E a \in Attempts : NextAttempt(a)
  \/ \E S \in SUBSET Orders, split \in BOOLEAN : CloseSession(S, split)

Spec == Init /\ [][Next]_vars

-----------------------------------------------------------------------------
(* Safety. *)

\* No line is charged by two sales, whichever of the six billing handlers ran.
OneChargePerLine == \A l \in Lines : billed[l] <= 1

\* A pagada order has nothing left to charge: every line of it that was not voided is
\* in a sale, even though lines may be added until the very payment.
PaidIsCharged ==
  \A o \in Orders : Status(o) = "pagada" => \A l \in Live(o) : billed[l] = 1

\* A charged line stays served: its order is pagada, never cancelada, and void_item
\* does not reach it (spec 029: a paid order is no longer voidable).
ChargedIsServed ==
  \A l \in Lines : billed[l] > 0 =>
    /\ line[l].order # NoOrder
    /\ line[l].cocina # "anulado"
    /\ Status(line[l].order) = "pagada"

\* Whatever was charged and not voided left the stock at least once.
ChargedLeftStock == \A l \in Lines : billed[l] > 0 => taken[l] > returned[l]

\* Confirming an attempt, charging its order and sending it are one step: a confirmed
\* attempt (but for the old ones) always has its pagada order and exactly one sale.
ConfirmedIsPaid ==
  \A a \in Attempts :
    attempt[a].status = "confirmado" /\ OldAttempt[a] = NoOrder =>
      /\ Status(attempt[a].order) = "pagada"
      /\ saleOf[attempt[a].order] = 1

\* Cancelling leaves nothing behind: no sale and no attempt waiting for the cashier.
CancelledIsSettled ==
  \A o \in Orders : Status(o) = "cancelada" =>
    ~HasSale(o) /\ AttemptsOf(o, "pendiente") = {}

\* An order has at most one attempt under review.
OnePendingAttempt ==
  \A o \in Orders : \A a, b \in AttemptsOf(o, "pendiente") : a = b

\* pagada and cancelada are final, for the order and for its sale, and no line ever
\* changes order.
KeepsTerminal ==
  /\ \A o \in Orders : Status(o) \in Terminal =>
       order'[o] = order[o] /\ saleOf'[o] = saleOf[o]
  /\ \A l \in Lines : line[l].order # NoOrder => line'[l].order = line[l].order
TerminalIsFinal == [][KeepsTerminal]_vars

-----------------------------------------------------------------------------
(* The inductive invariant: the safety properties above, and what they rest on. *)

\* Rows point at orders that exist.
RowsHaveOrder ==
  /\ \A l \in Lines : line[l].order # NoOrder => Status(line[l].order) # "ausente"
  /\ \A a \in Attempts : attempt[a].order # NoOrder => Status(attempt[a].order) # "ausente"
  /\ \A a \in Attempts : attempt[a].order = NoOrder => attempt[a].status = "pendiente"

\* The sales that name an order: at most one, and only of a pagada order.
SaleIsOfPaid ==
  \A o \in Orders : saleOf[o] <= 1 /\ (HasSale(o) => Status(o) = "pagada")

\* A line in play never came back to the stock, and left it once confirmed.
PlayedIsTaken ==
  \A l \in Lines :
    /\ line[l].order = NoOrder => returned[l] = 0
    /\ /\ line[l].order # NoOrder /\ line[l].cocina # "anulado"
       /\ Status(line[l].order) # "cancelada"
       => /\ returned[l] = 0
          /\ Status(line[l].order) \in {"abierta", "bloqueada", "pagada"} => taken[l] > 0

Charging == OneChargePerLine /\ PaidIsCharged /\ ChargedIsServed /\ SaleIsOfPaid
Settling == CancelledIsSettled /\ ConfirmedIsPaid /\ OnePendingAttempt

\* Rows are well linked, sales and attempts agree with the status, stock with both.
IInv == TypeOK /\ RowsHaveOrder /\ Charging /\ Settling /\ PlayedIsTaken

-----------------------------------------------------------------------------
(* The stock, when the staff only edits orders that are confirmed and live. *)

\* add_item_to_order and void_item used on abierta or bloqueada orders only.  The
\* handlers do not insist on it: README.md says what follows from that.
EditsOnlyConfirmed ==
  \A l \in Lines :
    /\ /\ line[l].order = NoOrder /\ line'[l].order # NoOrder
       /\ Status(line'[l].order) # "ausente"
       => Status(line'[l].order) \in {"abierta", "bloqueada"}
    /\ line'[l].cocina = "anulado" /\ line[l].cocina # "anulado"
       => Status(line[l].order) \in {"abierta", "bloqueada"}

EditedSpec == Init /\ [][Next /\ EditsOnlyConfirmed]_vars

\* Stock follows the status: nothing is taken for a recibida order, each live line of
\* a confirmed one is taken once and kept, and nothing comes back that was not taken.
StockFollowsStatus ==
  \A l \in Lines :
    /\ returned[l] <= taken[l] /\ taken[l] <= 1
    /\ line[l].order = NoOrder \/ Status(line[l].order) = "recibida" => taken[l] = 0
    /\ /\ line[l].order # NoOrder /\ line[l].cocina # "anulado"
       /\ Status(line[l].order) \in {"abierta", "bloqueada", "pagada"}
       => taken[l] = 1 /\ returned[l] = 0

\* When a taken line is dropped (its order cancelled, or the line voided), it comes
\* back to the stock exactly when the kitchen had not started it.
Dropped(l) ==
  /\ line[l].order # NoOrder
  /\ line[l].cocina = "anulado" \/ Status(line[l].order) = "cancelada"
DropReturnsUncooked ==
  [][\A l \in Lines : taken[l] = 1 /\ ~Dropped(l) /\ Dropped(l)' =>
       returned'[l] = IF line[l].cocina = "pendiente" THEN 1 ELSE 0]_vars
=============================================================================
