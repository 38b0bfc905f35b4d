------------------------ MODULE OrderLifecycleProofs ------------------------
(***************************************************************************)
(* Theorems about OrderLifecycle, for every set of orders, lines, attempts *)
(* and ingredients and every recipe.                                       *)
(***************************************************************************)
EXTENDS OrderSettlement, FiniteSetTheorems, TLAPS

(* Counting the lines that use an ingredient gives a natural number. *)
LEMMA UsesIsNat ==
  ASSUME NEW S \in SUBSET Lines, NEW g \in Ingredients
  PROVE  Uses(S, g) \in Nat
<1> DEFINE T == {l \in S : g \in Recipe[l]}
<1>1. IsFiniteSet(Lines)
  BY LifecycleAssumption
<1>2. T \subseteq Lines
  OBVIOUS
<1>3. IsFiniteSet(T)
  BY <1>1, <1>2, FS_Subset
<1>4. Cardinality(T) \in Nat
  BY <1>3, FS_CardinalityType
<1> QED
  BY <1>4 DEF Uses

(* The kardex movements keep the stock and the counters natural numbers: the *)
(* refusal of a shortage is what keeps current_stock from going negative.    *)
LEMMA MoveStockType ==
  ASSUME TypeOK, NEW back \in SUBSET Lines, NEW out \in SUBSET Lines,
         MoveStock(back, out)
  PROVE  /\ stock' \in [Ingredients -> Nat]
         /\ taken' \in [Lines -> Nat]
         /\ returned' \in [Lines -> Nat]
<1>1. ASSUME NEW g \in Ingredients
      PROVE  stock[g] + Uses(back, g) - Uses(out, g) \in Nat
  <2>1. Uses(back, g) \in Nat /\ Uses(out, g) \in Nat
    BY UsesIsNat
  <2>2. Uses(out, g) <= stock[g] + Uses(back, g)
    BY DEF MoveStock, Movements
  <2>3. stock[g] \in Nat
    BY DEF TypeOK
  <2> QED
    BY <2>1, <2>2, <2>3
<1>2. stock' \in [Ingredients -> Nat]
  BY <1>1 DEF MoveStock, Movements
<1>3. taken' \in [Lines -> Nat] /\ returned' \in [Lines -> Nat]
  BY DEF MoveStock, Movements, TypeOK
<1> QED
  BY <1>2, <1>3

-----------------------------------------------------------------------------
(* What each write operator makes of the rows it writes. *)

LEMMA RowTypes ==
  ASSUME TypeOK, NEW o \in Orders
  PROVE  /\ \A s \in Statuses : SetStatus(o, s) => order' \in [Orders -> OrderRow]
         /\ \A s \in Statuses : Advance(o, s) => order' \in [Orders -> OrderRow]
         /\ \A s \in Statuses, d, p \in BOOLEAN :
              Opened(o, s, d, p) => order' \in [Orders -> OrderRow]
         /\ \A S \in SUBSET Lines : Inserted(S, o) \in [Lines -> LineRow]
<1>1. ASSUME NEW s \in Statuses, SetStatus(o, s) PROVE order' \in [Orders -> OrderRow]
  BY <1>1 DEF TypeOK, OrderRow, SetStatus
<1>2. ASSUME NEW s \in Statuses, Advance(o, s) PROVE order' \in [Orders -> OrderRow]
  BY <1>2 DEF TypeOK, OrderRow, Advance
<1>3. ASSUME NEW s \in Statuses, NEW d \in BOOLEAN, NEW p \in BOOLEAN,
             Opened(o, s, d, p)
      PROVE  order' \in [Orders -> OrderRow]
  <2>1. [status |-> s, version |-> 0, diner |-> d, pooled |-> p] \in OrderRow
    BY DEF OrderRow
  <2> QED
    BY <1>3, <2>1 DEF TypeOK, Opened
<1>4. ASSUME NEW S \in SUBSET Lines PROVE Inserted(S, o) \in [Lines -> LineRow]
  <2>1. [order |-> o, cocina |-> "pendiente"] \in LineRow
    BY DEF LineRow, Cocina
  <2> QED
    BY <2>1 DEF TypeOK, Inserted
<1> QED
  BY <1>1, <1>2, <1>3, <1>4

LEMMA CocinaType ==
  ASSUME TypeOK, NEW S \in SUBSET Lines, NEW c \in Cocina, SetCocina(S, c)
  PROVE  line' \in [Lines -> LineRow]
BY DEF TypeOK, LineRow, SetCocina

LEMMA ResolveType ==
  ASSUME TypeOK, NEW A \in SUBSET Attempts,
         NEW s \in {"confirmado", "rechazado"}, Resolve(A, s)
  PROVE  attempt' \in [Attempts -> AttemptRow]
BY DEF TypeOK, AttemptRow, Resolve

LEMMA SaleType ==
  ASSUME TypeOK, NEW S \in SUBSET Lines, NEW refs \in SUBSET Orders,
         BuildSale(S, refs)
  PROVE  billed' \in [Lines -> Nat] /\ saleOf' \in [Orders -> Nat]
BY DEF TypeOK, BuildSale

LEMMA ChargeType ==
  ASSUME TypeOK, NEW o \in Orders, ChargeAndSend(o, Live(o))
  PROVE  /\ order' \in [Orders -> OrderRow] /\ line' \in [Lines -> LineRow]
         /\ billed' \in [Lines -> Nat] /\ saleOf' \in [Orders -> Nat]
         /\ stock' \in [Ingredients -> Nat]
         /\ taken' \in [Lines -> Nat] /\ returned' \in [Lines -> Nat]
<1>1. Live(o) \in SUBSET Lines /\ {} \in SUBSET Lines /\ {o} \in SUBSET Orders
  BY DEF Live, LinesOf
<1>2. BuildSale(Live(o), {o}) /\ MoveStock({}, Live(o)) /\ Advance(o, "pagada")
  BY DEF ChargeAndSend, Deduct
<1>3. "pagada" \in Statuses
  BY DEF Statuses
<1>4. line' = line
  BY DEF ChargeAndSend
<1> QED
  BY <1>1, <1>2, <1>3, <1>4, RowTypes, SaleType, MoveStockType DEF TypeOK

LEMMA CancelType ==
  ASSUME TypeOK, NEW o \in Orders, CancelOrder(o)
  PROVE  TypeOK'
<1>1. Uncooked(o) \in SUBSET Lines /\ AttemptsOf(o, "pendiente") \in SUBSET Attempts
  BY DEF Uncooked, Unstarted, LinesOf, AttemptsOf
<1>2. MoveStock(Uncooked(o), {}) /\ SetStatus(o, "cancelada")
      /\ Resolve(AttemptsOf(o, "pendiente"), "rechazado")
  BY DEF CancelOrder, CancelWrites, Reverse
<1>3. "cancelada" \in Statuses
  BY DEF Statuses
<1> QED
  BY <1>1, <1>2, <1>3, RowTypes, MoveStockType, ResolveType
  DEF CancelOrder, CancelWrites, saleVars, TypeOK

-----------------------------------------------------------------------------
(* Rows have their types at the start, and every handler keeps them. *)
LEMMA TypeInit == Init => TypeOK
BY LifecycleAssumption DEF Init, TypeOK, OrderRow, LineRow, AttemptRow, Statuses, Cocina,
                           OldOrders

LEMMA TypeStep ==
  ASSUME TypeOK, [Next]_vars
  PROVE  TypeOK'
<1> USE DEF saleVars, stockVars, Statuses
<1>1. ASSUME NEW o \in Orders, NextOrder(o) PROVE TypeOK'
  <2>1. ASSUME NEW S \in SUBSET Lines, NEW hold \in BOOLEAN, NEW diner \in BOOLEAN,
               CreateOrder(o, S, hold, diner)
        PROVE  TypeOK'
    BY <2>1, RowTypes, MoveStockType DEF CreateOrder, Deduct, TypeOK
  <2>2. ASSUME NEW S \in SUBSET Lines, NEW a \in Attempts, NEW cash \in BOOLEAN,
               SubmitCart(o, S, a, cash)
        PROVE  TypeOK'
    <3>1. [order |-> o, status |-> "pendiente", cash |-> cash, receipt |-> ~cash]
            \in AttemptRow
      BY DEF AttemptRow
    <3>2. attempt' \in [Attempts -> AttemptRow]
      BY <2>2, <3>1 DEF SubmitCart, TypeOK
    <3> QED
      BY <2>2, <3>2, RowTypes DEF SubmitCart, TypeOK
  <2>3. ASSUME NEW S \in SUBSET Lines, ConsolidateTable(o, S) PROVE TypeOK'
    BY <2>3, RowTypes, MoveStockType DEF ConsolidateTable, Deduct, TypeOK
  <2>4. ASSUME NEW l \in Lines, AddItemToOrder(o, l) PROVE TypeOK'
    BY <2>4, RowTypes, MoveStockType DEF AddItemToOrder, AddItemWrites, Deduct, TypeOK
  <2>5. CASE MarkOrderReady(o)
    BY <2>5, CocinaType DEF MarkOrderReady, MarkReadyWrites, Cooking, LinesOf, Cocina, TypeOK
  <2>6. ASSUME NEW v \in Versions, BlockOrder(o, v) PROVE TypeOK'
    BY <2>6, RowTypes DEF BlockOrder, BlockReads, BlockWrites, TypeOK
  <2>7. ASSUME NEW v \in Versions, CheckoutAndSend(o, v) PROVE TypeOK'
    BY <2>7, ChargeType DEF CheckoutAndSend, SendWrites, TypeOK
  <2>8. CASE PayOrder(o)
    BY <2>8, RowTypes, SaleType DEF PayOrder, PayWrites, Live, LinesOf, TypeOK
  <2>9. CASE ConfirmOrder(o)
    BY <2>9, RowTypes, MoveStockType DEF ConfirmOrder, ConfirmReads, Live, LinesOf, Deduct,
                                         TypeOK
  <2>10. ASSUME NEW a \in Attempts, NEW cash \in BOOLEAN,
                CreatePaymentAttempt(a, o, cash)
         PROVE  TypeOK'
    <3>1. [order |-> o, status |-> "pendiente", cash |-> cash, receipt |-> FALSE]
            \in AttemptRow
      BY DEF AttemptRow
    <3> QED
      BY <2>10, <3>1 DEF CreatePaymentAttempt, AttemptReads, AttemptWrites, AttemptInsert,
                         NoneUnderReview, TypeOK
  <2>11. CASE CancelOrder(o)
    BY <2>11, CancelType
  <2>12. CASE CancelMyOrder(o)
    BY <2>12, CancelType DEF CancelMyOrder
  <2> QED
    BY <1>1, <2>1, <2>2, <2>3, <2>4, <2>5, <2>6, <2>7, <2>8, <2>9, <2>10, <2>11, <2>12
    DEF NextOrder
<1>2. ASSUME NEW l \in Lines, NextLine(l) PROVE TypeOK'
  <2>1. ASSUME NEW to \in Cocina, TransitionKitchen(l, to) PROVE TypeOK'
    BY <2>1, CocinaType DEF TransitionKitchen, KitchenWrites, TypeOK
  <2>2. CASE VoidItem(l)
    <3>1. ToReturn(l) \in SUBSET Lines
      BY DEF ToReturn
    <3> QED
      BY <2>2, <3>1, CocinaType, MoveStockType
      DEF VoidItem, VoidWrites, Reverse, Cocina, TypeOK
  <2>3. ASSUME NEW new \in Lines, ReplaceItem(l, new) PROVE TypeOK'
    <3>1. ToReturn(l) \in SUBSET Lines
      BY DEF ToReturn
    <3>2. [order |-> line[l].order, cocina |-> "pendiente"] \in LineRow
      BY DEF LineRow, Cocina, TypeOK
    <3>3. line' \in [Lines -> LineRow]
      BY <2>3, <3>2 DEF ReplaceItem, TypeOK, LineRow, Cocina
    <3> QED
      BY <2>3, <3>1, <3>3, MoveStockType DEF ReplaceItem, TypeOK
  <2> QED
    BY <1>2, <2>1, <2>2, <2>3 DEF NextLine
<1>3. ASSUME NEW a \in Attempts, NextAttempt(a) PROVE TypeOK'
  <2>1. ASSUME PayAttempt(a), attempt[a].order # NoOrder PROVE TypeOK'
    <3>1. attempt[a].order \in Orders
      BY <2>1 DEF TypeOK, AttemptRow
    <3> QED
      BY <2>1, <3>1, ChargeType, ResolveType DEF PayAttempt, PayAttemptWrites, TypeOK
  <2>2. CASE RejectPaymentAttempt(a)
    BY <2>2, ResolveType DEF RejectPaymentAttempt, RejectReads, RejectWrites, TypeOK
  <2>3. CASE AttachReceipt(a)
    BY <2>3 DEF AttachReceipt, OwnPending, TypeOK, AttemptRow
  <2> QED
    BY <1>3, <2>1, <2>2, <2>3
    DEF NextAttempt, ApprovePaymentAttempt, ApproveReads, ConfirmCashPaymentAttempt,
        CashReads, Pendiente
<1>4. ASSUME NEW S \in SUBSET Orders, NEW split \in BOOLEAN, CloseSession(S, split)
      PROVE  TypeOK'
  <2> DEFINE L == UNION {Live(o) : o \in S}
             refs == IF Cardinality(S) = 1 /\ ~split THEN S ELSE {}
  <2>1. L \in SUBSET Lines /\ refs \in SUBSET Orders
    BY DEF Live, LinesOf
  <2>2. order' \in [Orders -> OrderRow]
    BY <1>4 DEF CloseSession, CloseWrites, TypeOK, OrderRow
  <2>3. BuildSale(L, refs)
    BY <1>4 DEF CloseSession, CloseWrites
  <2>4. billed' \in [Lines -> Nat] /\ saleOf' \in [Orders -> Nat]
    BY <2>1, <2>3, SaleType
  <2> QED
    BY <1>4, <2>2, <2>4 DEF CloseSession, CloseWrites, TypeOK
<1>5. CASE UNCHANGED vars
  BY <1>5 DEF vars, TypeOK
<1> QED
  BY <1>1, <1>2, <1>3, <1>4, <1>5 DEF Next

(* Type correctness: every row of every table stays a row of its table, and *)
(* in particular the stock never goes negative, whatever the handlers do.   *)
THEOREM TypeCorrect == Spec => []TypeOK
BY TypeInit, TypeStep, PTL DEF Spec

-----------------------------------------------------------------------------
(* No handler touches an order that is pagada or cancelada, nor its sale, and *)
(* none moves a line to another order.                                        *)
LEMMA TerminalKept ==
  ASSUME TypeOK, [Next]_vars
  PROVE  KeepsTerminal
<1> USE DEF KeepsTerminal, TypeOK, Status, Terminal, saleVars, stockVars
<1>1. ASSUME NEW o \in Orders, NextOrder(o) PROVE KeepsTerminal
  <2>1. ASSUME NEW S \in SUBSET Lines, NEW hold \in BOOLEAN, NEW diner \in BOOLEAN,
               CreateOrder(o, S, hold, diner)
        PROVE  KeepsTerminal
    BY <2>1 DEF CreateOrder, Opened, Inserted, Unsent
  <2>2. ASSUME NEW S \in SUBSET Lines, NEW a \in Attempts, NEW cash \in BOOLEAN,
               SubmitCart(o, S, a, cash)
        PROVE  KeepsTerminal
    BY <2>2 DEF SubmitCart, Opened, Inserted, Unsent
  <2>3. ASSUME NEW S \in SUBSET Lines, ConsolidateTable(o, S) PROVE KeepsTerminal
    BY <2>3 DEF ConsolidateTable, Opened, Inserted, Unsent
  <2>4. ASSUME NEW l \in Lines, AddItemToOrder(o, l) PROVE KeepsTerminal
    BY <2>4 DEF AddItemToOrder, AddItemWrites, Inserted, Unsent
  <2>5. CASE MarkOrderReady(o)
    BY <2>5 DEF MarkOrderReady, MarkReadyWrites, SetCocina, LineRow
  <2>6. ASSUME NEW v \in Versions, BlockOrder(o, v) PROVE KeepsTerminal
    BY <2>6 DEF BlockOrder, BlockReads, BlockWrites, Advance
  <2>7. ASSUME NEW v \in Versions, CheckoutAndSend(o, v) PROVE KeepsTerminal
    BY <2>7 DEF CheckoutAndSend, SendReads, SendWrites, ChargeAndSend, Advance, BuildSale
  <2>8. CASE PayOrder(o)
    BY <2>8 DEF PayOrder, PayReads, PayWrites, SetStatus, BuildSale
  <2>9. CASE ConfirmOrder(o)
    BY <2>9 DEF ConfirmOrder, ConfirmReads, Advance
  <2>10. ASSUME NEW a \in Attempts, NEW cash \in BOOLEAN, CreatePaymentAttempt(a, o, cash)
         PROVE  KeepsTerminal
    BY <2>10 DEF CreatePaymentAttempt, AttemptReads, AttemptWrites, AttemptInsert,
                 NoneUnderReview
  <2>11. CASE CancelOrder(o)
    BY <2>11 DEF CancelOrder, CancelReads, Billable, CancelWrites, SetStatus
  <2>12. CASE CancelMyOrder(o)
    BY <2>11, <2>12 DEF CancelMyOrder
  <2> HIDE DEF KeepsTerminal, TypeOK
  <2> QED
    BY <1>1, <2>1, <2>2, <2>3, <2>4, <2>5, <2>6, <2>7, <2>8, <2>9, <2>10, <2>11, <2>12
    DEF NextOrder
<1>2. ASSUME NEW l \in Lines, NextLine(l) PROVE KeepsTerminal
  <2>1. ASSUME NEW to \in Cocina, TransitionKitchen(l, to) PROVE KeepsTerminal
    BY <2>1 DEF TransitionKitchen, KitchenWrites, SetCocina, LineRow
  <2>2. CASE VoidItem(l)
    BY <2>2 DEF VoidItem, VoidWrites, SetCocina, LineRow
  <2>3. ASSUME NEW new \in Lines, ReplaceItem(l, new) PROVE KeepsTerminal
    BY <2>3 DEF ReplaceItem, Unsent, LineRow
  <2> HIDE DEF KeepsTerminal, TypeOK
  <2> QED
    BY <1>2, <2>1, <2>2, <2>3 DEF NextLine
<1>3. ASSUME NEW a \in Attempts, NextAttempt(a) PROVE KeepsTerminal
  <2>1. ASSUME PayAttempt(a) PROVE KeepsTerminal
    BY <2>1 DEF PayAttempt, ConfirmedBy, PayAttemptWrites, ChargeAndSend, Advance, BuildSale
  <2>2. CASE RejectPaymentAttempt(a)
    BY <2>2 DEF RejectPaymentAttempt, RejectReads, RejectWrites
  <2>3. CASE AttachReceipt(a)
    BY <2>3 DEF AttachReceipt, OwnPending
  <2> HIDE DEF KeepsTerminal, TypeOK
  <2> QED
    BY <1>3, <2>1, <2>2, <2>3
    DEF NextAttempt, ApprovePaymentAttempt, ConfirmCashPaymentAttempt
<1>4. ASSUME NEW S \in SUBSET Orders, NEW split \in BOOLEAN, CloseSession(S, split)
      PROVE  KeepsTerminal
  BY <1>4 DEF CloseSession, CloseReads, Billable, CloseWrites, BuildSale
<1>5. CASE UNCHANGED vars
  BY <1>5 DEF vars
<1> HIDE DEF KeepsTerminal, TypeOK, Status, Terminal, saleVars, stockVars
<1> QED
  BY <1>1, <1>2, <1>3, <1>4, <1>5 DEF Next

(* A paid or cancelled order stays as it is, for good. *)
THEOREM TerminalFinal == Spec => TerminalIsFinal
<1>1. TypeOK /\ [Next]_vars => [KeepsTerminal]_vars
  BY TerminalKept
<1> QED
  BY <1>1, TypeCorrect, PTL DEF Spec, TerminalIsFinal

-----------------------------------------------------------------------------
(* The inductive invariant: IInv /\ [Next]_vars => IInv', part by part. *)

(* Rows keep pointing at orders that exist: an order never goes back to *)
(* ausente, and every insertion names an order that is there.           *)
LEMMA RowsFrame ==
  ASSUME TypeOK, RowsHaveOrder,
         \A p \in Orders : Status(p) # "ausente" => order'[p].status # "ausente",
         \A l \in Lines :
           \/ line'[l].order = line[l].order
           \/ line'[l].order \in Orders /\ order'[line'[l].order].status # "ausente",
         \A a \in Attempts :
           \/ /\ attempt'[a].order = attempt[a].order
              /\ attempt[a].order = NoOrder => attempt'[a].status = attempt[a].status
           \/ attempt'[a].order \in Orders /\ order'[attempt'[a].order].status # "ausente"
  PROVE  RowsHaveOrder'
<1>1. \A l \in Lines : line[l].order \in Orders \cup {NoOrder}
  BY DEF TypeOK, LineRow
<1>2. \A a \in Attempts : attempt[a].order \in Orders \cup {NoOrder}
  BY DEF TypeOK, AttemptRow
<1> QED
  BY <1>1, <1>2, LifecycleAssumption DEF RowsHaveOrder, Status

LEMMA RowsHaveOrderKept ==
  ASSUME TypeOK, RowsHaveOrder, [Next]_vars
  PROVE  RowsHaveOrder'
<1> USE DEF Status, saleVars, stockVars
<1>1. ASSUME NEW o \in Orders, NextOrder(o) PROVE RowsHaveOrder'
  <2>1. ASSUME NEW S \in SUBSET Lines, NEW hold \in BOOLEAN, NEW diner \in BOOLEAN,
               CreateOrder(o, S, hold, diner)
        PROVE  RowsHaveOrder'
    BY <2>1, RowsFrame DEF TypeOK, CreateOrder, Opened, Inserted, LineRow, AttemptRow
  <2>2. ASSUME NEW S \in SUBSET Lines, NEW a \in Attempts, NEW cash \in BOOLEAN,
               SubmitCart(o, S, a, cash)
        PROVE  RowsHaveOrder'
    BY <2>2, RowsFrame DEF TypeOK, SubmitCart, Opened, Inserted
  <2>3. ASSUME NEW S \in SUBSET Lines, ConsolidateTable(o, S) PROVE RowsHaveOrder'
    BY <2>3, RowsFrame
    DEF TypeOK, ConsolidateTable, Opened, Inserted, LineRow, AttemptRow
  <2>4. ASSUME NEW l \in Lines, AddItemToOrder(o, l) PROVE RowsHaveOrder'
    BY <2>4, RowsFrame DEF TypeOK, AddItemToOrder, AddItemReads, AddItemWrites, Inserted
  <2>5. CASE MarkOrderReady(o)
    BY <2>5, RowsFrame DEF TypeOK, MarkOrderReady, MarkReadyWrites, SetCocina, LineRow
  <2>6. ASSUME NEW v \in Versions, BlockOrder(o, v) PROVE RowsHaveOrder'
    BY <2>6, RowsFrame DEF TypeOK, BlockOrder, BlockReads, BlockWrites, Advance, LineRow,
                           AttemptRow, OrderRow
  <2>7. ASSUME NEW v \in Versions, CheckoutAndSend(o, v) PROVE RowsHaveOrder'
    BY <2>7, RowsFrame DEF TypeOK, CheckoutAndSend, SendWrites, ChargeAndSend, Advance,
                           LineRow, AttemptRow, OrderRow
  <2>8. CASE PayOrder(o)
    BY <2>8, RowsFrame DEF TypeOK, PayOrder, PayWrites, SetStatus, LineRow, AttemptRow, OrderRow
  <2>9. CASE ConfirmOrder(o)
    BY <2>9, RowsFrame DEF TypeOK, ConfirmOrder, ConfirmReads, Advance, LineRow, AttemptRow,
                           OrderRow
  <2>10. ASSUME NEW a \in Attempts, NEW cash \in BOOLEAN, CreatePaymentAttempt(a, o, cash)
         PROVE  RowsHaveOrder'
    BY <2>10, RowsFrame DEF TypeOK, CreatePaymentAttempt, AttemptReads, AttemptWrites,
                            AttemptInsert, NoneUnderReview, AttemptRow
  <2>11. CASE CancelOrder(o)
    BY <2>11, RowsFrame DEF TypeOK, CancelOrder, CancelReads, Billable, CancelWrites,
                            SetStatus, Resolve, AttemptsOf, AttemptRow, OrderRow
  <2>12. CASE CancelMyOrder(o)
    BY <2>11, <2>12 DEF CancelMyOrder
  <2> QED
    BY <1>1, <2>1, <2>2, <2>3, <2>4, <2>5, <2>6, <2>7, <2>8, <2>9, <2>10, <2>11, <2>12
    DEF NextOrder
<1>2. ASSUME NEW l \in Lines, NextLine(l) PROVE RowsHaveOrder'
  <2>1. ASSUME NEW to \in Cocina, TransitionKitchen(l, to) PROVE RowsHaveOrder'
    BY <2>1, RowsFrame DEF TypeOK, TransitionKitchen, KitchenWrites, SetCocina, LineRow
  <2>2. CASE VoidItem(l)
    BY <2>2, RowsFrame DEF TypeOK, VoidItem, VoidWrites, SetCocina, LineRow
  <2>3. ASSUME NEW new \in Lines, ReplaceItem(l, new) PROVE RowsHaveOrder'
    <3>1. line[l].order \in Orders /\ Status(line[l].order) # "ausente"
      BY <2>3 DEF ReplaceItem, VoidReads, InPlay, RowsHaveOrder, TypeOK, LineRow
    <3> QED
      BY <2>3, <3>1, RowsFrame DEF TypeOK, ReplaceItem, LineRow
  <2> QED
    BY <1>2, <2>1, <2>2, <2>3 DEF NextLine
<1>3. ASSUME NEW a \in Attempts, NextAttempt(a) PROVE RowsHaveOrder'
  <2>1. ASSUME PayAttempt(a), Pendiente(a) PROVE RowsHaveOrder'
    BY <2>1, RowsFrame DEF TypeOK, PayAttempt, PayAttemptWrites, Resolve,
                           ChargeAndSend, Advance, Pendiente, LineRow, AttemptRow, OrderRow
  <2>2. CASE RejectPaymentAttempt(a)
    BY <2>2, RowsFrame DEF TypeOK, RejectPaymentAttempt, RejectReads, RejectWrites, Resolve,
                           Pendiente, AttemptRow
  <2>3. CASE AttachReceipt(a)
    BY <2>3, RowsFrame DEF TypeOK, AttachReceipt, OwnPending, Pendiente, AttemptRow
  <2> QED
    BY <1>3, <2>1, <2>2, <2>3
    DEF NextAttempt, ApprovePaymentAttempt, ApproveReads, ConfirmCashPaymentAttempt,
        CashReads
<1>4. ASSUME NEW S \in SUBSET Orders, NEW split \in BOOLEAN, CloseSession(S, split)
      PROVE  RowsHaveOrder'
  BY <1>4, RowsFrame DEF TypeOK, CloseSession, CloseWrites, LineRow, AttemptRow, OrderRow
<1>5. CASE UNCHANGED vars
  BY <1>5, RowsFrame DEF TypeOK, vars
<1> HIDE DEF Status
<1> QED
  BY <1>1, <1>2, <1>3, <1>4, <1>5 DEF Next

(* Whoever bills nothing keeps the charges right if it makes no order pagada, *)
(* voids nothing in a pagada order and adds nothing to one.                   *)
LEMMA UnbilledFrame ==
  ASSUME TypeOK, Charging, KeepsTerminal, billed' = billed, saleOf' = saleOf,
         \A o \in Orders : order'[o].status = "pagada" => Status(o) = "pagada",
         \A l \in Lines :
           IF line[l].order = NoOrder
           THEN line'[l].order # NoOrder => Status(line'[l].order) # "pagada"
           ELSE Status(line[l].order) = "pagada" =>
                  (line'[l].cocina = "anulado" <=> line[l].cocina = "anulado")
  PROVE  Charging'
<1> USE DEF Charging
<1>1. OneChargePerLine'
  BY DEF OneChargePerLine
<1>2. PaidIsCharged'
  <2> SUFFICES ASSUME NEW o \in Orders, Status(o)' = "pagada", NEW l \in Live(o)'
               PROVE  billed'[l] = 1
    BY DEF PaidIsCharged
  <2>1. Status(o) = "pagada"
    BY DEF Status
  <2>2. l \in Lines /\ line'[l].order = o /\ line'[l].cocina # "anulado"
    BY DEF Live, LinesOf
  <2>3. line[l].order # NoOrder
    BY <2>1, <2>2, LifecycleAssumption
  <2>4. line[l].order = o /\ line[l].cocina # "anulado"
    BY <2>1, <2>2, <2>3 DEF KeepsTerminal
  <2> QED
    BY <2>1, <2>2, <2>4 DEF PaidIsCharged, Live, LinesOf
<1>3. ChargedIsServed'
  <2> SUFFICES ASSUME NEW l \in Lines, billed[l] > 0
               PROVE  /\ line'[l].order # NoOrder /\ line'[l].cocina # "anulado"
                      /\ order'[line'[l].order].status = "pagada"
    BY DEF ChargedIsServed, Status
  <2>1. line[l].order \in Orders /\ line[l].cocina # "anulado"
        /\ Status(line[l].order) = "pagada"
    BY DEF ChargedIsServed, TypeOK, LineRow
  <2>2. line'[l].order = line[l].order /\ order'[line[l].order] = order[line[l].order]
    BY <2>1, LifecycleAssumption DEF KeepsTerminal, Terminal
  <2> QED
    BY <2>1, <2>2, LifecycleAssumption DEF Status
<1>4. SaleIsOfPaid'
  BY DEF SaleIsOfPaid, HasSale, KeepsTerminal, Terminal, Status
<1> QED
  BY <1>1, <1>2, <1>3, <1>4

(* Whoever bills keeps the charges right if it bills exactly the live lines *)
(* of orders that were not pagada and makes those orders pagada.            *)
LEMMA BilledFrame ==
  ASSUME TypeOK, Charging, NEW S \in SUBSET Orders, NEW refs \in SUBSET S,
         \A o \in S : Status(o) # "pagada",
         BuildSale(UNION {Live(o) : o \in S}, refs),
         line' = line,
         \A o \in Orders : order'[o].status = IF o \in S THEN "pagada" ELSE Status(o)
  PROVE  Charging'
<1> DEFINE L == UNION {Live(o) : o \in S}
<1>1. \A l \in L : l \in Lines /\ line[l].order \in S /\ line[l].cocina # "anulado"
  BY DEF Live, LinesOf
<1>2. \A l \in L : billed[l] = 0
  <2> SUFFICES ASSUME NEW l \in L PROVE ~(billed[l] > 0)
    BY <1>1 DEF TypeOK
  <2> QED
    BY <1>1 DEF Charging, ChargedIsServed
<1>3. billed' = [l \in Lines |-> IF l \in L THEN billed[l] + 1 ELSE billed[l]]
  BY DEF BuildSale
<1>4. saleOf' = [o \in Orders |-> IF o \in refs THEN saleOf[o] + 1 ELSE saleOf[o]]
  BY DEF BuildSale
<1> HIDE DEF L
<1>5. OneChargePerLine'
  BY <1>2, <1>3 DEF Charging, OneChargePerLine
<1>6. PaidIsCharged'
  <2> SUFFICES ASSUME NEW o \in Orders, Status(o)' = "pagada", NEW l \in Live(o)'
               PROVE  billed'[l] = 1
    BY DEF PaidIsCharged
  <2>1. l \in Lines /\ l \in Live(o)
    BY DEF Live, LinesOf
  <2>2. CASE o \in S
    <3>1. l \in L
      BY <2>1, <2>2 DEF L
    <3> QED
      BY <1>2, <1>3, <2>1, <3>1
  <2>3. CASE o \notin S
    <3>1. Status(o) = "pagada"
      BY <2>3 DEF Status
    <3>2. l \notin L
      BY <1>1, <2>1, <2>3 DEF Live, LinesOf
    <3> QED
      BY <1>3, <2>1, <3>1, <3>2 DEF Charging, PaidIsCharged
  <2> QED
    BY <2>2, <2>3
<1>7. ChargedIsServed'
  <2> SUFFICES ASSUME NEW l \in Lines, billed'[l] > 0
               PROVE  /\ line[l].order # NoOrder /\ line[l].cocina # "anulado"
                      /\ order'[line[l].order].status = "pagada"
    BY DEF ChargedIsServed, Status
  <2>1. CASE l \in L
    BY <1>1, <2>1, LifecycleAssumption
  <2>2. CASE l \notin L
    <3>1. billed[l] > 0
      BY <1>3, <2>2
    <3>2. line[l].order \in Orders
      BY <3>1 DEF Charging, ChargedIsServed, TypeOK, LineRow
    <3> QED
      BY <3>1, <3>2 DEF Charging, ChargedIsServed, Status
  <2> QED
    BY <2>1, <2>2
<1>8. SaleIsOfPaid'
  <2> SUFFICES ASSUME NEW o \in Orders
               PROVE  saleOf'[o] <= 1 /\ (saleOf'[o] > 0 => order'[o].status = "pagada")
    BY DEF SaleIsOfPaid, HasSale, Status
  <2>1. saleOf[o] \in Nat /\ saleOf[o] <= 1 /\ (saleOf[o] > 0 => Status(o) = "pagada")
    BY DEF TypeOK, Charging, SaleIsOfPaid, HasSale
  <2> QED
    BY <1>4, <2>1
<1> QED
  BY <1>5, <1>6, <1>7, <1>8 DEF Charging

(* Four handlers bill the lines of one order, close_session those of several; *)
(* all the others leave the charges alone.                                    *)
LEMMA BillOne ==
  ASSUME TypeOK, Charging, NEW o \in Orders, Status(o) # "pagada",
         BuildSale(Live(o), {o}), line' = line,
         \/ SetStatus(o, "pagada")
         \/ Advance(o, "pagada")
  PROVE  Charging'
<1>1. UNION {Live(p) : p \in {o}} = Live(o)
  OBVIOUS
<1>2. \A p \in Orders : order'[p].status = IF p \in {o} THEN "pagada" ELSE Status(p)
  BY DEF SetStatus, Advance, TypeOK, OrderRow, Status
<1> QED
  BY <1>1, <1>2, BilledFrame

LEMMA ChargingKept ==
  ASSUME TypeOK, RowsHaveOrder, Charging, [Next]_vars
  PROVE  Charging'
<1>0. KeepsTerminal
  BY TerminalKept
<1>a. \A l \in Lines : line[l].order # NoOrder =>
        line[l].order \in Orders /\ Status(line[l].order) # "ausente"
  BY DEF TypeOK, LineRow, RowsHaveOrder
<1> USE DEF Status, saleVars
<1>1. ASSUME NEW o \in Orders, NextOrder(o) PROVE Charging'
  <2>1. ASSUME NEW S \in SUBSET Lines, NEW hold \in BOOLEAN, NEW diner \in BOOLEAN,
               CreateOrder(o, S, hold, diner)
        PROVE  Charging'
    BY <1>0, <2>1, UnbilledFrame DEF TypeOK, CreateOrder, Opened, Inserted, Unsent
  <2>2. ASSUME NEW S \in SUBSET Lines, NEW a \in Attempts, NEW cash \in BOOLEAN,
               SubmitCart(o, S, a, cash)
        PROVE  Charging'
    BY <1>0, <2>2, UnbilledFrame DEF TypeOK, SubmitCart, Opened, Inserted, Unsent
  <2>3. ASSUME NEW S \in SUBSET Lines, ConsolidateTable(o, S) PROVE Charging'
    BY <1>0, <2>3, UnbilledFrame DEF TypeOK, ConsolidateTable, Opened, Inserted, Unsent
  <2>4. ASSUME NEW l \in Lines, AddItemToOrder(o, l) PROVE Charging'
    BY <1>0, <2>4, UnbilledFrame
    DEF AddItemToOrder, AddItemReads, AddItemWrites, Inserted, Unsent, Terminal
  <2>5. CASE MarkOrderReady(o)
    BY <1>0, <2>5, UnbilledFrame
    DEF TypeOK, MarkOrderReady, MarkReadyWrites, SetCocina, Cooking, LinesOf, EnCurso, LineRow
  <2>6. ASSUME NEW v \in Versions, BlockOrder(o, v) PROVE Charging'
    BY <1>0, <2>6, UnbilledFrame DEF TypeOK, OrderRow, BlockOrder, BlockReads, BlockWrites,
                                     Advance
  <2>7. ASSUME NEW v \in Versions, CheckoutAndSend(o, v) PROVE Charging'
    BY <2>7, BillOne DEF CheckoutAndSend, SendReads, SendWrites, ChargeAndSend
  <2>8. CASE PayOrder(o)
    BY <2>8, BillOne DEF PayOrder, PayReads, PayWrites
  <2>9. CASE ConfirmOrder(o)
    BY <1>0, <2>9, UnbilledFrame DEF TypeOK, OrderRow, ConfirmOrder, ConfirmReads, Advance
  <2>10. ASSUME NEW a \in Attempts, NEW cash \in BOOLEAN, CreatePaymentAttempt(a, o, cash)
         PROVE  Charging'
    BY <1>0, <2>10, UnbilledFrame DEF CreatePaymentAttempt, AttemptReads, AttemptWrites,
                                      AttemptInsert, NoneUnderReview
  <2>11. CASE CancelOrder(o)
    BY <1>0, <2>11, UnbilledFrame DEF TypeOK, OrderRow, CancelOrder, CancelWrites, SetStatus
  <2>12. CASE CancelMyOrder(o)
    BY <2>11, <2>12 DEF CancelMyOrder
  <2> QED
    BY <1>1, <2>1, <2>2, <2>3, <2>4, <2>5, <2>6, <2>7, <2>8, <2>9, <2>10, <2>11, <2>12
    DEF NextOrder
<1>2. ASSUME NEW l \in Lines, NextLine(l) PROVE Charging'
  <2>1. ASSUME NEW to \in Cocina, TransitionKitchen(l, to) PROVE Charging'
    BY <1>0, <2>1, UnbilledFrame
    DEF TypeOK, TransitionKitchen, KitchenReads, KitchenAllows, KitchenWrites, SetCocina,
        LineRow
  <2>2. CASE VoidItem(l)
    BY <1>0, <2>2, UnbilledFrame DEF TypeOK, VoidItem, VoidReads, InPlay, VoidWrites,
                                     SetCocina, LineRow
  <2>3. ASSUME NEW new \in Lines, ReplaceItem(l, new) PROVE Charging'
    BY <1>0, <2>3, UnbilledFrame DEF TypeOK, ReplaceItem, VoidReads, InPlay, Unsent, LineRow
  <2> QED
    BY <1>2, <2>1, <2>2, <2>3 DEF NextLine
<1>3. ASSUME NEW a \in Attempts, NextAttempt(a) PROVE Charging'
  <2>1. ASSUME PayAttempt(a), Pendiente(a) PROVE Charging'
    <3>1. attempt[a].order \in Orders
      BY <2>1 DEF Pendiente, TypeOK, AttemptRow
    <3> QED
      BY <2>1, <3>1, BillOne DEF PayAttempt, ConfirmedBy, PayAttemptWrites, ChargeAndSend
  <2>2. CASE RejectPaymentAttempt(a)
    BY <1>0, <2>2, UnbilledFrame DEF RejectPaymentAttempt, RejectReads, RejectWrites
  <2>3. CASE AttachReceipt(a)
    BY <1>0, <2>3, UnbilledFrame DEF AttachReceipt, OwnPending
  <2> QED
    BY <1>3, <2>1, <2>2, <2>3
    DEF NextAttempt, ApprovePaymentAttempt, ApproveReads, ConfirmCashPaymentAttempt,
        CashReads
<1>4. ASSUME NEW S \in SUBSET Orders, NEW split \in BOOLEAN, CloseSession(S, split)
      PROVE  Charging'
  <2> DEFINE refs == IF Cardinality(S) = 1 /\ ~split THEN S ELSE {}
  <2>1. refs \in SUBSET S
    OBVIOUS
  <2>2. \A o \in S : Status(o) # "pagada"
    BY <1>4 DEF CloseSession, CloseReads, Billable, Terminal
  <2>3. \A o \in Orders : order'[o].status = IF o \in S THEN "pagada" ELSE Status(o)
    BY <1>4 DEF CloseSession, CloseWrites, TypeOK, OrderRow
  <2>4. BuildSale(UNION {Live(o) : o \in S}, refs) /\ line' = line
    BY <1>4 DEF CloseSession, CloseWrites
  <2> HIDE DEF refs
  <2> QED
    BY <2>1, <2>2, <2>3, <2>4, BilledFrame
<1>5. CASE UNCHANGED vars
  BY <1>0, <1>5, UnbilledFrame DEF vars
<1> HIDE DEF Status
<1> QED
  BY <1>1, <1>2, <1>3, <1>4, <1>5 DEF Next

(* Attempts may only be rejected by whoever cancels and pays nothing. *)
LEMMA SettlingFrame ==
  ASSUME TypeOK, RowsHaveOrder, Settling, KeepsTerminal,
         \A o \in Orders : order'[o].status = "cancelada" => Status(o) = "cancelada",
         \A a \in Attempts :
           /\ attempt'[a].order = attempt[a].order
           /\ attempt'[a].status \in {attempt[a].status, "rechazado"}
  PROVE  Settling'
<1>1. CancelledIsSettled'
  <2> SUFFICES ASSUME NEW o \in Orders, Status(o)' = "cancelada"
               PROVE  ~HasSale(o)' /\ AttemptsOf(o, "pendiente")' = {}
    BY DEF CancelledIsSettled
  <2>1. Status(o) = "cancelada"
    BY DEF Status
  <2>2. ~HasSale(o) /\ AttemptsOf(o, "pendiente") = {}
    BY <2>1 DEF Settling, CancelledIsSettled
  <2>3. saleOf'[o] = saleOf[o]
    BY <2>1 DEF KeepsTerminal, Terminal
  <2> QED
    BY <2>2, <2>3 DEF HasSale, AttemptsOf
<1>2. ConfirmedIsPaid'
  <2> SUFFICES ASSUME NEW a \in Attempts, attempt'[a].status = "confirmado",
                      OldAttempt[a] = NoOrder
               PROVE  /\ order'[attempt'[a].order].status = "pagada"
                      /\ saleOf'[attempt'[a].order] = 1
    BY DEF ConfirmedIsPaid, Status
  <2>1. attempt[a].status = "confirmado"
    OBVIOUS
  <2>2. attempt[a].order \in Orders
    BY <2>1 DEF RowsHaveOrder, TypeOK, AttemptRow
  <2>3. Status(attempt[a].order) = "pagada" /\ saleOf[attempt[a].order] = 1
    BY <2>1 DEF Settling, ConfirmedIsPaid
  <2> QED
    BY <2>2, <2>3 DEF KeepsTerminal, Terminal, Status
<1>3. OnePendingAttempt'
  BY DEF Settling, OnePendingAttempt, AttemptsOf
<1> QED
  BY <1>1, <1>2, <1>3 DEF Settling

(* A new attempt is the only one under review, of an order still recibida. *)
LEMMA NewAttemptFrame ==
  ASSUME TypeOK, RowsHaveOrder, Settling, KeepsTerminal,
         NEW o \in Orders, NEW a \in Attempts,
         attempt[a].order = NoOrder, AttemptsOf(o, "pendiente") = {},
         order'[o].status = "recibida",
         attempt'[a].order = o, attempt'[a].status = "pendiente",
         \A b \in Attempts : b # a => attempt'[b] = attempt[b],
         \A p \in Orders : order'[p].status = "cancelada" => Status(p) = "cancelada"
  PROVE  Settling'
<1>1. CancelledIsSettled'
  <2> SUFFICES ASSUME NEW p \in Orders, Status(p)' = "cancelada"
               PROVE  ~HasSale(p)' /\ AttemptsOf(p, "pendiente")' = {}
    BY DEF CancelledIsSettled
  <2>1. Status(p) = "cancelada" /\ p # o
    BY DEF Status
  <2>2. ~HasSale(p) /\ AttemptsOf(p, "pendiente") = {}
    BY <2>1 DEF Settling, CancelledIsSettled
  <2>3. saleOf'[p] = saleOf[p]
    BY <2>1 DEF KeepsTerminal, Terminal
  <2> QED
    BY <2>1, <2>2, <2>3 DEF HasSale, AttemptsOf
<1>2. ConfirmedIsPaid'
  <2> SUFFICES ASSUME NEW b \in Attempts, attempt'[b].status = "confirmado",
                      OldAttempt[b] = NoOrder
               PROVE  /\ order'[attempt'[b].order].status = "pagada"
                      /\ saleOf'[attempt'[b].order] = 1
    BY DEF ConfirmedIsPaid, Status
  <2>1. attempt[b].status = "confirmado" /\ attempt'[b] = attempt[b]
    OBVIOUS
  <2>2. attempt[b].order \in Orders
    BY <2>1 DEF RowsHaveOrder, TypeOK, AttemptRow
  <2>3. Status(attempt[b].order) = "pagada" /\ saleOf[attempt[b].order] = 1
    BY <2>1 DEF Settling, ConfirmedIsPaid
  <2> QED
    BY <2>1, <2>2, <2>3 DEF KeepsTerminal, Terminal, Status
<1>3. OnePendingAttempt'
  <2> SUFFICES ASSUME NEW p \in Orders, NEW b \in AttemptsOf(p, "pendiente")',
                      NEW c \in AttemptsOf(p, "pendiente")'
               PROVE  b = c
    BY DEF OnePendingAttempt
  <2>1. CASE p = o
    BY <2>1 DEF AttemptsOf
  <2>2. CASE p # o
    BY <2>2 DEF AttemptsOf, Settling, OnePendingAttempt
  <2> QED
    BY <2>1, <2>2
<1> QED
  BY <1>1, <1>2, <1>3 DEF Settling

(* Cancelling rejects what was under review; the order had no sale. *)
LEMMA CancelSettles ==
  ASSUME TypeOK, RowsHaveOrder, Settling, NEW o \in Orders, CancelOrder(o)
  PROVE  Settling'
<1>1. /\ \A p \in Orders : order'[p].status = IF p = o THEN "cancelada" ELSE Status(p)
      /\ saleOf' = saleOf /\ saleOf[o] = 0
      /\ Status(o) # "pagada"
  BY DEF CancelOrder, CancelReads, Billable, HasSale, CancelWrites, SetStatus, TypeOK,
         OrderRow, Status, saleVars, Terminal
<1>2. \A a \in Attempts :
        /\ attempt'[a].order = attempt[a].order
        /\ attempt'[a].status =
             IF attempt[a].order = o /\ attempt[a].status = "pendiente"
             THEN "rechazado" ELSE attempt[a].status
  BY DEF CancelOrder, CancelWrites, Resolve, AttemptsOf, TypeOK, AttemptRow
<1>3. CancelledIsSettled'
  BY <1>1, <1>2 DEF Settling, CancelledIsSettled, HasSale, AttemptsOf, Status, TypeOK
<1>4. ConfirmedIsPaid'
  <2> SUFFICES ASSUME NEW a \in Attempts, attempt'[a].status = "confirmado",
                      OldAttempt[a] = NoOrder
               PROVE  /\ order'[attempt'[a].order].status = "pagada"
                      /\ saleOf'[attempt'[a].order] = 1
    BY DEF ConfirmedIsPaid, Status
  <2>1. attempt[a].status = "confirmado"
    BY <1>2
  <2>2. attempt[a].order \in Orders
    BY <2>1 DEF RowsHaveOrder, TypeOK, AttemptRow
  <2>3. Status(attempt[a].order) = "pagada" /\ saleOf[attempt[a].order] = 1
    BY <2>1 DEF Settling, ConfirmedIsPaid
  <2> QED
    BY <1>1, <1>2, <2>2, <2>3
<1>5. OnePendingAttempt'
  BY <1>2 DEF Settling, OnePendingAttempt, AttemptsOf
<1> QED
  BY <1>3, <1>4, <1>5 DEF Settling

(* Confirming an attempt pays its order with the first sale that names it. *)
LEMMA PayAttemptSettles ==
  ASSUME TypeOK, RowsHaveOrder, Charging, Settling, KeepsTerminal,
         NEW a \in Attempts, Pendiente(a), PayAttempt(a)
  PROVE  Settling'
<1> DEFINE o == attempt[a].order
<1>1. o \in Orders
  BY DEF Pendiente, TypeOK, AttemptRow
<1>2. Status(o) = "recibida" /\ saleOf[o] = 0
  BY <1>1 DEF PayAttempt, ConfirmedBy, Charging, SaleIsOfPaid, HasSale, TypeOK
<1>3. \A p \in Orders : order'[p].status = IF p = o THEN "pagada" ELSE Status(p)
  BY <1>1 DEF PayAttempt, PayAttemptWrites, ChargeAndSend, Advance, TypeOK, OrderRow, Status
<1>4. \A p \in Orders : saleOf'[p] = IF p = o THEN 1 ELSE saleOf[p]
  BY <1>2 DEF PayAttempt, PayAttemptWrites, ChargeAndSend, BuildSale
<1>5. \A b \in Attempts : /\ attempt'[b].order = attempt[b].order
                          /\ attempt'[b].status = IF b = a THEN "confirmado"
                                                  ELSE attempt[b].status
  BY DEF PayAttempt, PayAttemptWrites, Resolve, TypeOK, AttemptRow
<1>6. CancelledIsSettled'
  BY <1>2, <1>3, <1>4, <1>5
  DEF Settling, CancelledIsSettled, HasSale, AttemptsOf, Status
<1>7. ConfirmedIsPaid'
  <2> SUFFICES ASSUME NEW b \in Attempts, attempt'[b].status = "confirmado",
                      OldAttempt[b] = NoOrder
               PROVE  /\ order'[attempt'[b].order].status = "pagada"
                      /\ saleOf'[attempt'[b].order] = 1
    BY DEF ConfirmedIsPaid, Status
  <2>1. CASE b = a
    BY <1>1, <1>3, <1>4, <1>5, <2>1
  <2>2. CASE b # a
    <3>1. attempt[b].status = "confirmado"
      BY <1>5, <2>2
    <3>2. attempt[b].order \in Orders
      BY <3>1 DEF RowsHaveOrder, TypeOK, AttemptRow
    <3>3. Status(attempt[b].order) = "pagada" /\ saleOf[attempt[b].order] = 1
      BY <3>1 DEF Settling, ConfirmedIsPaid
    <3> QED
      BY <1>2, <1>3, <1>4, <1>5, <3>2, <3>3
  <2> QED
    BY <2>1, <2>2
<1>8. OnePendingAttempt'
  BY <1>5 DEF Settling, OnePendingAttempt, AttemptsOf
<1> QED
  BY <1>6, <1>7, <1>8 DEF Settling

LEMMA SettlingKept ==
  ASSUME TypeOK, RowsHaveOrder, Charging, Settling, [Next]_vars
  PROVE  Settling'
<1>0. KeepsTerminal
  BY TerminalKept
<1> USE DEF Status, saleVars
<1>1. ASSUME NEW o \in Orders, NextOrder(o) PROVE Settling'
  <2>1. ASSUME NEW S \in SUBSET Lines, NEW hold \in BOOLEAN, NEW diner \in BOOLEAN,
               CreateOrder(o, S, hold, diner)
        PROVE  Settling'
    BY <1>0, <2>1, SettlingFrame DEF TypeOK, CreateOrder, Opened
  <2>2. ASSUME NEW S \in SUBSET Lines, NEW a \in Attempts, NEW cash \in BOOLEAN,
               SubmitCart(o, S, a, cash)
        PROVE  Settling'
    <3>1. AttemptsOf(o, "pendiente") = {}
      BY <2>2, LifecycleAssumption DEF SubmitCart, AttemptsOf, RowsHaveOrder
    <3> QED
      BY <1>0, <2>2, <3>1, NewAttemptFrame DEF TypeOK, SubmitCart, Opened, Untried
  <2>3. ASSUME NEW S \in SUBSET Lines, ConsolidateTable(o, S) PROVE Settling'
    BY <1>0, <2>3, SettlingFrame DEF TypeOK, ConsolidateTable, Opened
  <2>4. ASSUME NEW l \in Lines, AddItemToOrder(o, l) PROVE Settling'
    BY <1>0, <2>4, SettlingFrame DEF AddItemToOrder, AddItemWrites
  <2>5. CASE MarkOrderReady(o)
    BY <1>0, <2>5, SettlingFrame DEF MarkOrderReady, MarkReadyWrites
  <2>6. ASSUME NEW v \in Versions, BlockOrder(o, v) PROVE Settling'
    BY <1>0, <2>6, SettlingFrame DEF TypeOK, OrderRow, BlockOrder, BlockReads, BlockWrites,
                                     Advance
  <2>7. ASSUME NEW v \in Versions, CheckoutAndSend(o, v) PROVE Settling'
    BY <1>0, <2>7, SettlingFrame
    DEF TypeOK, OrderRow, CheckoutAndSend, SendWrites, ChargeAndSend, Advance
  <2>8. CASE PayOrder(o)
    BY <1>0, <2>8, SettlingFrame DEF TypeOK, OrderRow, PayOrder, PayWrites, SetStatus
  <2>9. CASE ConfirmOrder(o)
    BY <1>0, <2>9, SettlingFrame DEF TypeOK, OrderRow, ConfirmOrder, ConfirmReads, Advance
  <2>10. ASSUME NEW a \in Attempts, NEW cash \in BOOLEAN, CreatePaymentAttempt(a, o, cash)
         PROVE  Settling'
    BY <1>0, <2>10, NewAttemptFrame DEF TypeOK, CreatePaymentAttempt, AttemptReads,
                                        AttemptWrites, AttemptInsert, NoneUnderReview, Untried
  <2>11. CASE CancelOrder(o)
    BY <2>11, CancelSettles
  <2>12. CASE CancelMyOrder(o)
    BY <2>11, <2>12 DEF CancelMyOrder
  <2> QED
    BY <1>1, <2>1, <2>2, <2>3, <2>4, <2>5, <2>6, <2>7, <2>8, <2>9, <2>10, <2>11, <2>12
    DEF NextOrder
<1>2. ASSUME NEW l \in Lines, NextLine(l) PROVE Settling'
  BY <1>0, <1>2, SettlingFrame
  DEF NextLine, TransitionKitchen, KitchenWrites, VoidItem, VoidWrites, ReplaceItem
<1>3. ASSUME NEW a \in Attempts, NextAttempt(a) PROVE Settling'
  <2>1. CASE RejectPaymentAttempt(a)
    BY <1>0, <2>1, SettlingFrame DEF RejectPaymentAttempt, RejectReads, RejectWrites, Resolve,
                                     TypeOK, AttemptRow
  <2>2. CASE AttachReceipt(a)
    BY <1>0, <2>2, SettlingFrame DEF AttachReceipt, OwnPending, TypeOK, AttemptRow
  <2> QED
    BY <1>0, <1>3, <2>1, <2>2, PayAttemptSettles
    DEF NextAttempt, ApprovePaymentAttempt, ApproveReads, ConfirmCashPaymentAttempt,
        CashReads
<1>4. ASSUME NEW S \in SUBSET Orders, NEW split \in BOOLEAN, CloseSession(S, split)
      PROVE  Settling'
  BY <1>0, <1>4, SettlingFrame DEF CloseSession, CloseWrites, TypeOK, OrderRow
<1>5. CASE UNCHANGED vars
  BY <1>0, <1>5, SettlingFrame DEF vars
<1> HIDE DEF Status
<1> QED
  BY <1>1, <1>2, <1>3, <1>4, <1>5 DEF Next

(* The stock: only lines that leave the game come back, and a line enters a *)
(* confirmed order, or its order is confirmed, only by leaving the stock.   *)
LEMMA PlayedFrame ==
  ASSUME TypeOK, PlayedIsTaken, KeepsTerminal,
         NEW back \in SUBSET Lines, NEW out \in SUBSET Lines,
         returned' = [l \in Lines |-> IF l \in back THEN returned[l] + 1 ELSE returned[l]],
         taken' = [l \in Lines |-> IF l \in out THEN taken[l] + 1 ELSE taken[l]],
         \A l \in back :
           /\ line[l].order # NoOrder
           /\ \/ line'[l].cocina = "anulado"
              \/ order'[line'[l].order].status = "cancelada",
         \A l \in Lines \ out : line'[l].order # NoOrder =>
           \/ order'[line'[l].order].status \notin {"abierta", "bloqueada", "pagada"}
           \/ line'[l].cocina = "anulado"
           \/ /\ line[l].order # NoOrder
              /\ Status(line[l].order) \in {"abierta", "bloqueada", "pagada"},
         \A l \in Lines : line[l].order # NoOrder =>
           /\ line'[l].cocina # "anulado" => line[l].cocina # "anulado"
           /\ order'[line[l].order].status # "cancelada" =>
                Status(line[l].order) # "cancelada"
  PROVE  PlayedIsTaken'
<1> SUFFICES ASSUME NEW l \in Lines
    PROVE  /\ line'[l].order = NoOrder => returned'[l] = 0
           /\ /\ line'[l].order # NoOrder /\ line'[l].cocina # "anulado"
              /\ order'[line'[l].order].status # "cancelada"
              => /\ returned'[l] = 0
                 /\ order'[line'[l].order].status \in {"abierta", "bloqueada", "pagada"}
                      => taken'[l] > 0
  BY DEF PlayedIsTaken, Status
<1>1. line[l].order # NoOrder => line'[l].order = line[l].order
  BY DEF KeepsTerminal
<1>2. taken[l] \in Nat /\ returned[l] \in Nat
  BY DEF TypeOK
<1>3. /\ line[l].order = NoOrder => returned[l] = 0
      /\ /\ line[l].order # NoOrder /\ line[l].cocina # "anulado"
         /\ Status(line[l].order) # "cancelada"
         => /\ returned[l] = 0
            /\ Status(line[l].order) \in {"abierta", "bloqueada", "pagada"} => taken[l] > 0
  BY DEF PlayedIsTaken
<1>4. taken'[l] = IF l \in out THEN taken[l] + 1 ELSE taken[l]
  OBVIOUS
<1>5. returned'[l] = IF l \in back THEN returned[l] + 1 ELSE returned[l]
  OBVIOUS
<1> HIDE DEF PlayedIsTaken
<1>6. ASSUME line'[l].order = NoOrder PROVE returned'[l] = 0
  BY <1>1, <1>3, <1>5, <1>6
<1>7. ASSUME line'[l].order # NoOrder, line'[l].cocina # "anulado",
             order'[line'[l].order].status # "cancelada"
      PROVE  returned'[l] = 0
  BY <1>1, <1>3, <1>5, <1>7
<1>8. ASSUME line'[l].order # NoOrder, line'[l].cocina # "anulado",
             order'[line'[l].order].status \in {"abierta", "bloqueada", "pagada"}
      PROVE  taken'[l] > 0
  <2>1. CASE l \in out
    BY <1>2, <1>4, <2>1
  <2>2. CASE l \notin out
    <3>1. line[l].order # NoOrder
          /\ Status(line[l].order) \in {"abierta", "bloqueada", "pagada"}
      BY <1>8, <2>2
    <3> QED
      BY <1>1, <1>3, <1>4, <1>8, <2>2, <3>1
  <2> QED
    BY <2>1, <2>2
<1> QED
  BY <1>6, <1>7, <1>8

LEMMA PlayedStill ==
  ASSUME TypeOK, PlayedIsTaken, KeepsTerminal, UNCHANGED stockVars,
         \A l \in Lines :
           IF line[l].order = NoOrder
           THEN line'[l].order # NoOrder => order'[line'[l].order].status = "recibida"
           ELSE line'[l].cocina # "anulado" => line[l].cocina # "anulado",
         \A o \in Orders :
           order'[o].status \in {"abierta", "bloqueada", "pagada"} =>
             Status(o) \in {"abierta", "bloqueada", "pagada"}
  PROVE  PlayedIsTaken'
<1> SUFFICES ASSUME NEW l \in Lines
    PROVE  /\ line'[l].order = NoOrder => returned[l] = 0
           /\ /\ line'[l].order # NoOrder /\ line'[l].cocina # "anulado"
              /\ order'[line'[l].order].status # "cancelada"
              => /\ returned[l] = 0
                 /\ order'[line'[l].order].status \in {"abierta", "bloqueada", "pagada"}
                      => taken[l] > 0
  BY DEF PlayedIsTaken, Status, stockVars
<1>1. CASE line[l].order = NoOrder
  BY <1>1 DEF PlayedIsTaken
<1>2. CASE line[l].order # NoOrder
  <2>1. line'[l].order = line[l].order /\ line[l].order \in Orders
    BY <1>2 DEF KeepsTerminal, TypeOK, LineRow
  <2>2. Status(line[l].order) = "cancelada" => order'[line[l].order].status = "cancelada"
    BY <2>1 DEF KeepsTerminal, Terminal, Status
  <2> QED
    BY <1>2, <2>1, <2>2 DEF PlayedIsTaken
<1> QED
  BY <1>1, <1>2

LEMMA PlayedDrop ==
  ASSUME TypeOK, PlayedIsTaken, KeepsTerminal, order' = order,
         NEW back \in SUBSET Lines, NEW out \in SUBSET Lines, MoveStock(back, out),
         \A l \in back : line[l].order # NoOrder /\ line'[l].cocina = "anulado",
         \A l \in Lines \ out :
           /\ line'[l].order = line[l].order
           /\ line'[l].cocina \in {"anulado", line[l].cocina},
         \A l \in out : line[l].order = NoOrder
  PROVE  PlayedIsTaken'
<1> SUFFICES ASSUME NEW l \in Lines
    PROVE  /\ line'[l].order = NoOrder => returned'[l] = 0
           /\ /\ line'[l].order # NoOrder /\ line'[l].cocina # "anulado"
              /\ order[line'[l].order].status # "cancelada"
              => /\ returned'[l] = 0
                 /\ order[line'[l].order].status \in {"abierta", "bloqueada", "pagada"}
                      => taken'[l] > 0
  BY DEF PlayedIsTaken, Status
<1>1. /\ returned'[l] = IF l \in back THEN returned[l] + 1 ELSE returned[l]
      /\ taken'[l] = IF l \in out THEN taken[l] + 1 ELSE taken[l]
  BY DEF MoveStock, Movements
<1>2. taken[l] \in Nat
  BY DEF TypeOK
<1>3. CASE l \in out
  <2>1. returned[l] = 0 /\ l \notin back
    BY <1>3 DEF PlayedIsTaken
  <2> QED
    BY <1>1, <1>2, <1>3, <2>1
<1>4. CASE l \notin out
  <2>1. CASE l \in back
    BY <1>4, <2>1
  <2>2. CASE l \notin back
    BY <1>1, <1>4, <2>2 DEF PlayedIsTaken, Status
  <2> QED
    BY <2>1, <2>2
<1> QED
  BY <1>3, <1>4

LEMMA PlayedIn ==
  ASSUME TypeOK, RowsHaveOrder, PlayedIsTaken, KeepsTerminal,
         NEW S \in SUBSET Unsent, NEW o \in Orders,
         line' = Inserted(S, o), Deduct(S),
         \A p \in Orders : order'[p].status \in {"abierta", "bloqueada", "pagada"} =>
           Status(p) \in {"ausente", "abierta", "bloqueada", "pagada"}
  PROVE  PlayedIsTaken'
<1> SUFFICES ASSUME NEW l \in Lines
    PROVE  /\ line'[l].order = NoOrder => returned'[l] = 0
           /\ /\ line'[l].order # NoOrder /\ line'[l].cocina # "anulado"
              /\ order'[line'[l].order].status # "cancelada"
              => /\ returned'[l] = 0
                 /\ order'[line'[l].order].status \in {"abierta", "bloqueada", "pagada"}
                      => taken'[l] > 0
  BY DEF PlayedIsTaken, Status
<1>1. returned'[l] = returned[l] /\ taken'[l] = IF l \in S THEN taken[l] + 1 ELSE taken[l]
  BY DEF Deduct, MoveStock, Movements, TypeOK
<1>2. taken[l] \in Nat
  BY DEF TypeOK
<1>3. CASE l \in S
  <2>1. returned[l] = 0
    BY <1>3 DEF Unsent, PlayedIsTaken
  <2> QED
    BY <1>1, <1>2, <1>3, <2>1
<1>4. CASE l \notin S
  <2>1. line'[l] = line[l]
    BY <1>4 DEF Inserted
  <2>2. CASE line[l].order = NoOrder
    BY <1>1, <1>4, <2>1, <2>2 DEF PlayedIsTaken
  <2>3. CASE line[l].order # NoOrder
    <3>1. line[l].order \in Orders /\ Status(line[l].order) # "ausente"
      BY <2>3 DEF TypeOK, LineRow, RowsHaveOrder
    <3>2. Status(line[l].order) = "cancelada" => order'[line[l].order].status = "cancelada"
      BY <3>1 DEF KeepsTerminal, Terminal, Status
    <3> QED
      BY <1>1, <1>4, <2>1, <2>3, <3>1, <3>2 DEF PlayedIsTaken
  <2> QED
    BY <2>2, <2>3
<1> QED
  BY <1>3, <1>4

LEMMA PlayedKept ==
  ASSUME TypeOK, RowsHaveOrder, Charging, PlayedIsTaken, [Next]_vars
  PROVE  PlayedIsTaken'
<1>0. KeepsTerminal
  BY TerminalKept
<1>a. /\ \A l \in Lines : line[l].order \in Orders \cup {NoOrder}
      /\ \A l \in Lines : line[l].order # NoOrder => Status(line[l].order) # "ausente"
  BY DEF TypeOK, LineRow, RowsHaveOrder
<1>b. {} \in SUBSET Lines
  OBVIOUS
<1> USE DEF Status, saleVars
<1>1. ASSUME NEW o \in Orders, NextOrder(o) PROVE PlayedIsTaken'
  <2>0. /\ Live(o) \in SUBSET Lines
        /\ \A l \in Lines \ Live(o) : line[l].order = o => line[l].cocina = "anulado"
    BY DEF Live, LinesOf
  <2>1. ASSUME NEW S \in SUBSET Lines, NEW hold \in BOOLEAN, NEW diner \in BOOLEAN,
               CreateOrder(o, S, hold, diner)
        PROVE  PlayedIsTaken'
    <3>1. CASE hold
      BY <1>0, <2>1, <3>1, PlayedStill DEF TypeOK, CreateOrder, Opened, Inserted, Unsent
    <3>2. CASE ~hold
      BY <1>0, <2>1, <3>2, PlayedIn DEF TypeOK, CreateOrder, Opened
    <3> QED
      BY <3>1, <3>2
  <2>2. ASSUME NEW S \in SUBSET Lines, NEW a \in Attempts, NEW cash \in BOOLEAN,
               SubmitCart(o, S, a, cash)
        PROVE  PlayedIsTaken'
    BY <1>0, <2>2, PlayedStill DEF TypeOK, SubmitCart, Opened, Inserted, Unsent
  <2>3. ASSUME NEW S \in SUBSET Lines, ConsolidateTable(o, S) PROVE PlayedIsTaken'
    BY <1>0, <2>3, PlayedIn DEF TypeOK, ConsolidateTable, Opened
  <2>4. ASSUME NEW l \in Lines, AddItemToOrder(o, l) PROVE PlayedIsTaken'
    <3>1. {l} \in SUBSET Unsent
      BY <2>4 DEF AddItemToOrder, AddItemWrites
    <3> QED
      BY <1>0, <2>4, <3>1, PlayedIn DEF AddItemToOrder, AddItemWrites
  <2>5. CASE MarkOrderReady(o)
    BY <1>0, <2>5, PlayedStill
    DEF TypeOK, MarkOrderReady, MarkReadyWrites, SetCocina, Cooking, LinesOf, EnCurso, LineRow
  <2>6. ASSUME NEW v \in Versions, BlockOrder(o, v) PROVE PlayedIsTaken'
    BY <1>0, <1>a, <2>6, PlayedStill DEF TypeOK, OrderRow, BlockOrder, BlockReads,
                                         BlockWrites, Advance
  <2>7. ASSUME NEW v \in Versions, CheckoutAndSend(o, v) PROVE PlayedIsTaken'
    BY <1>0, <1>a, <1>b, <2>0, <2>7, PlayedFrame
    DEF TypeOK, OrderRow, CheckoutAndSend, SendReads, SendWrites, ChargeAndSend, Advance,
        Deduct, MoveStock, Movements
  <2>8. CASE PayOrder(o)
    BY <1>0, <1>a, <2>8, PlayedStill
    DEF TypeOK, OrderRow, PayOrder, PayReads, PayWrites, SetStatus
  <2>9. CASE ConfirmOrder(o)
    BY <1>0, <1>a, <1>b, <2>0, <2>9, PlayedFrame
    DEF TypeOK, OrderRow, ConfirmOrder, ConfirmReads, Advance, Deduct, MoveStock, Movements
  <2>10. ASSUME NEW a \in Attempts, NEW cash \in BOOLEAN, CreatePaymentAttempt(a, o, cash)
         PROVE  PlayedIsTaken'
    BY <1>0, <1>a, <2>10, PlayedStill DEF CreatePaymentAttempt, AttemptReads, AttemptWrites,
                                          AttemptInsert, NoneUnderReview
  <2>11. CASE CancelOrder(o)
    <3>1. /\ Uncooked(o) \in SUBSET Lines
          /\ \A l \in Uncooked(o) : line[l].order = o
      BY DEF Uncooked, Unstarted, LinesOf
    <3>2. \A p \in Orders : order'[p].status = IF p = o THEN "cancelada" ELSE Status(p)
      BY <2>11 DEF CancelOrder, CancelWrites, SetStatus, TypeOK, OrderRow
    <3>3. line' = line /\ Reverse(Uncooked(o))
      BY <2>11 DEF CancelOrder, CancelWrites
    <3>4. Status(o) # "cancelada"
      BY <2>11 DEF CancelOrder, CancelReads, Billable, Terminal
    <3> HIDE DEF Status
    <3>5. \A l \in Uncooked(o) : line[l].order # NoOrder
                               /\ order'[line'[l].order].status = "cancelada"
      BY <3>1, <3>2, <3>3, LifecycleAssumption
    <3>6. \A l \in Lines : line'[l].order # NoOrder =>
            \/ order'[line'[l].order].status \notin {"abierta", "bloqueada", "pagada"}
            \/ /\ line[l].order # NoOrder
               /\ Status(line[l].order) \in {"abierta", "bloqueada", "pagada"}
      BY <1>a, <3>2, <3>3
    <3>7. \A l \in Lines : line[l].order # NoOrder =>
            (order'[line[l].order].status # "cancelada" =>
               Status(line[l].order) # "cancelada")
      BY <1>a, <3>2
    <3> QED
      BY <1>0, <1>b, <3>1, <3>3, <3>5, <3>6, <3>7, PlayedFrame DEF Reverse, MoveStock, Movements
  <2>12. CASE CancelMyOrder(o)
    BY <2>11, <2>12 DEF CancelMyOrder
  <2> QED
    BY <1>1, <2>1, <2>2, <2>3, <2>4, <2>5, <2>6, <2>7, <2>8, <2>9, <2>10, <2>11, <2>12
    DEF NextOrder
<1>2. ASSUME NEW l \in Lines, NextLine(l) PROVE PlayedIsTaken'
  <2>0. ToReturn(l) \in SUBSET {l}
    BY DEF ToReturn
  <2>1. ASSUME NEW to \in Cocina, TransitionKitchen(l, to) PROVE PlayedIsTaken'
    BY <1>0, <2>1, PlayedStill
    DEF TypeOK, TransitionKitchen, KitchenReads, KitchenAllows, KitchenWrites, SetCocina,
        LineRow
  <2>2. CASE VoidItem(l)
    <3>1. \A m \in Lines : /\ line'[m].order = line[m].order
                           /\ line'[m].cocina = IF m = l THEN "anulado" ELSE line[m].cocina
      BY <2>2 DEF VoidItem, VoidWrites, SetCocina, TypeOK, LineRow
    <3>2. order' = order /\ Reverse(ToReturn(l)) /\ line[l].order # NoOrder
          /\ line[l].cocina # "anulado"
      BY <2>2 DEF VoidItem, VoidReads, InPlay, VoidWrites
    <3>3. ToReturn(l) \in SUBSET Lines
      BY <2>0
    <3>4. \A m \in ToReturn(l) : line[m].order # NoOrder /\ line'[m].cocina = "anulado"
      BY <2>0, <3>1, <3>2
    <3> QED
      BY <1>0, <1>b, <3>1, <3>2, <3>3, <3>4, PlayedDrop DEF Reverse
  <2>3. ASSUME NEW new \in Lines, ReplaceItem(l, new) PROVE PlayedIsTaken'
    <3>1. /\ line[l].order # NoOrder /\ line[l].cocina # "anulado"
          /\ line[new].order = NoOrder
          /\ order' = order /\ MoveStock(ToReturn(l), {new})
      BY <2>3 DEF ReplaceItem, VoidReads, InPlay, Unsent
    <3>2. line'[l].cocina = "anulado" /\ line'[l].order = line[l].order
      BY <2>3, <3>1 DEF ReplaceItem, TypeOK, LineRow
    <3>3. \A m \in Lines \ {l, new} : line'[m] = line[m]
      BY <2>3 DEF ReplaceItem, TypeOK
    <3>4. ToReturn(l) \in SUBSET Lines /\ {new} \in SUBSET Lines
      BY <2>0
    <3>5. \A m \in ToReturn(l) : line[m].order # NoOrder /\ line'[m].cocina = "anulado"
      BY <2>0, <3>1, <3>2
    <3> QED
      BY <1>0, <3>1, <3>2, <3>3, <3>4, <3>5, PlayedDrop
  <2> QED
    BY <1>2, <2>1, <2>2, <2>3 DEF NextLine
<1>3. ASSUME NEW a \in Attempts, NextAttempt(a) PROVE PlayedIsTaken'
  <2>1. ASSUME PayAttempt(a), Pendiente(a) PROVE PlayedIsTaken'
    <3> DEFINE o == attempt[a].order
    <3>0. o \in Orders
      BY <2>1 DEF Pendiente, TypeOK, AttemptRow
    <3>1. /\ Live(o) \in SUBSET Lines
          /\ \A l \in Lines \ Live(o) : line[l].order = o => line[l].cocina = "anulado"
      BY DEF Live, LinesOf
    <3> QED
      BY <1>0, <1>a, <1>b, <2>1, <3>0, <3>1, PlayedFrame
      DEF TypeOK, OrderRow, PayAttempt, ConfirmedBy, PayAttemptWrites, ChargeAndSend,
          Advance, Deduct, MoveStock, Movements
  <2>2. CASE RejectPaymentAttempt(a)
    BY <1>0, <1>a, <2>2, PlayedStill DEF RejectPaymentAttempt, RejectReads, RejectWrites
  <2>3. CASE AttachReceipt(a)
    BY <1>0, <1>a, <2>3, PlayedStill DEF AttachReceipt, OwnPending
  <2> QED
    BY <1>3, <2>1, <2>2, <2>3
    DEF NextAttempt, ApprovePaymentAttempt, ApproveReads, ConfirmCashPaymentAttempt,
        CashReads
<1>4. ASSUME NEW S \in SUBSET Orders, NEW split \in BOOLEAN, CloseSession(S, split)
      PROVE  PlayedIsTaken'
  <2>1. /\ \A o \in S : Status(o) \in {"abierta", "bloqueada"}
        /\ \A o \in Orders : order'[o].status = IF o \in S THEN "pagada" ELSE Status(o)
        /\ line' = line
        /\ UNCHANGED stockVars
    BY <1>4
    DEF CloseSession, CloseReads, Billable, Terminal, CloseWrites, TypeOK, OrderRow, Statuses
  <2> QED
    BY <1>0, <1>a, <2>1, PlayedStill
<1>5. CASE UNCHANGED vars
  BY <1>0, <1>a, <1>5, PlayedStill DEF vars, stockVars
<1> HIDE DEF Status
<1> QED
  BY <1>1, <1>2, <1>3, <1>4, <1>5 DEF Next

-----------------------------------------------------------------------------

(* The invariant itself. *)
THEOREM Invariance == Spec => []IInv
<1>1. Init => IInv
  <2> SUFFICES ASSUME Init PROVE IInv
    OBVIOUS
  <2>1. TypeOK
    BY TypeInit
  <2>2. RowsHaveOrder
    BY LifecycleAssumption DEF Init, RowsHaveOrder, OldOrders, Status
  <2>3. \A o \in Orders : Status(o) \in {"recibida", "ausente"} /\ saleOf[o] = 0
    BY DEF Init, Status
  <2>4. Charging
    BY <2>3
    DEF Init, Charging, OneChargePerLine, PaidIsCharged, ChargedIsServed, SaleIsOfPaid, HasSale
  <2>5. Settling
    BY <2>3, LifecycleAssumption
    DEF Init, Settling, CancelledIsSettled, ConfirmedIsPaid, OnePendingAttempt, AttemptsOf
  <2>6. PlayedIsTaken
    BY <2>1, <2>3 DEF Init, PlayedIsTaken, TypeOK, LineRow
  <2> QED
    BY <2>1, <2>2, <2>4, <2>5, <2>6 DEF IInv
<1>2. IInv /\ TypeOK' /\ [Next]_vars => IInv'
  BY RowsHaveOrderKept, ChargingKept, SettlingKept, PlayedKept DEF IInv
<1> QED
  BY <1>1, <1>2, TypeCorrect, PTL DEF Spec

(* No line is charged twice; a paid order has no live line left uncharged; what *)
(* is charged is served, and its stock has left.                                *)
THEOREM ChargedOnceAndServed ==
  Spec => [](OneChargePerLine /\ PaidIsCharged /\ ChargedIsServed /\ ChargedLeftStock)
<1>1. IInv => OneChargePerLine /\ PaidIsCharged /\ ChargedIsServed /\ ChargedLeftStock
  <2> SUFFICES ASSUME IInv PROVE ChargedLeftStock
    BY DEF IInv, Charging
  <2> SUFFICES ASSUME NEW l \in Lines, billed[l] > 0 PROVE taken[l] > returned[l]
    BY DEF ChargedLeftStock
  <2>1. /\ line[l].order # NoOrder /\ line[l].cocina # "anulado"
        /\ Status(line[l].order) = "pagada"
    BY DEF IInv, Charging, ChargedIsServed
  <2>2. returned[l] = 0 /\ taken[l] > 0
    BY <2>1 DEF IInv, PlayedIsTaken
  <2> QED
    BY <2>2
<1> QED
  BY <1>1, Invariance, PTL

(* A confirmed attempt has its paid order and one sale; a cancelled order has *)
(* neither a sale nor an attempt under review, of which there is at most one. *)
THEOREM AttemptsSettle ==
  Spec => [](ConfirmedIsPaid /\ CancelledIsSettled /\ OnePendingAttempt)
<1>1. IInv => ConfirmedIsPaid /\ CancelledIsSettled /\ OnePendingAttempt
  BY DEF IInv, Settling
<1> QED
  BY <1>1, Invariance, PTL

-----------------------------------------------------------------------------
(* The shapes a step can have, as far as lines, charges and stock go.  The two *)
(* theorems below look at the seven shapes, and no longer at the handlers.     *)

Owing     == {"recibida", "abierta", "bloqueada"}
LiveOf(S) == {l \in Lines : line[l].order \in S /\ line[l].cocina # "anulado"}

\* The status of the orders of S becomes s, the others keep theirs.
Become(S, s) == \A o \in Orders : order'[o].status = IF o \in S THEN s ELSE Status(o)

Sends(o, S) ==
  /\ S \subseteq Unsent /\ line' = Inserted(S, o) /\ billed' = billed
  /\ order'[o].status \in Owing /\ Status(o) \in {"ausente", order'[o].status}
  /\ Become({o}, order'[o].status)
  /\ \/ Status(o) = "ausente" /\ order'[o].status = "recibida" /\ UNCHANGED stockVars
     \/ Deduct(S) /\ (order'[o].status = "recibida" => Status(o) = "recibida")

Stays ==
  /\ billed' = billed /\ UNCHANGED stockVars
  /\ \A l \in Lines : /\ line'[l].order = line[l].order
                      /\ line'[l].cocina = "anulado" <=> line[l].cocina = "anulado"
  /\ \A o \in Orders : \/ order'[o].status = Status(o)
                       \/ Status(o) = "abierta" /\ order'[o].status = "bloqueada"

Voids(l) ==
  /\ VoidReads(l) /\ order' = order /\ billed' = billed
  /\ \A m \in Lines :
       /\ line'[m].order = line[m].order
       /\ line'[m].cocina = IF m = l THEN "anulado" ELSE line[m].cocina
  /\ Reverse(ToReturn(l))

Exchanges(l, new) ==
  /\ VoidReads(l) /\ new \in Unsent /\ order' = order /\ billed' = billed
  /\ line'[l].order = line[l].order /\ line'[l].cocina = "anulado"
  /\ line'[new].order = line[l].order /\ line'[new].cocina = "pendiente"
  /\ \A m \in Lines \ {l, new} : line'[m] = line[m]
  /\ MoveStock(ToReturn(l), {new})

Charges(S) ==
  /\ line' = line /\ Become(S, "pagada")
  /\ billed' = [l \in Lines |-> IF l \in LiveOf(S) THEN billed[l] + 1 ELSE billed[l]]
  /\ \/ (\A o \in S : Status(o) = "recibida") /\ Deduct(LiveOf(S))
     \/ (\A o \in S : Status(o) \in {"abierta", "bloqueada"}) /\ UNCHANGED stockVars

Confirms(o) ==
  /\ line' = line /\ billed' = billed /\ Become({o}, "abierta")
  /\ Status(o) = "recibida" /\ Deduct(LiveOf({o}))

Cancels(o) ==
  /\ line' = line /\ billed' = billed /\ Become({o}, "cancelada")
  /\ Status(o) \in Owing /\ Reverse(Uncooked(o))

Shaped ==
  \/ \E o \in Orders, S \in SUBSET Lines : Sends(o, S)
  \/ Stays
  \/ \E l \in Lines : Voids(l)
  \/ \E l, new \in Lines : Exchanges(l, new)
  \/ \E S \in SUBSET Orders : Charges(S)
  \/ \E o \in Orders : Confirms(o) \/ Cancels(o)

LEMMA SendShape ==
  ASSUME TypeOK, NEW o \in Orders, ChargeAndSend(o, Live(o)), Status(o) = "recibida"
  PROVE  Charges({o})
<1>1. Live(o) = LiveOf({o})
  BY DEF Live, LinesOf, LiveOf
<1>2. Become({o}, "pagada")
  BY DEF ChargeAndSend, Advance, TypeOK, OrderRow, Status, Become
<1> QED
  BY <1>1, <1>2 DEF ChargeAndSend, BuildSale, Charges

LEMMA EveryStepShaped ==
  ASSUME TypeOK, [Next]_vars
  PROVE  Shaped
<1> USE DEF saleVars
<1>1. ASSUME NEW o \in Orders, NextOrder(o) PROVE Shaped
  <2>1. ASSUME NEW S \in SUBSET Lines, NEW hold \in BOOLEAN, NEW diner \in BOOLEAN,
               CreateOrder(o, S, hold, diner)
        PROVE  Shaped
    <3>1. Sends(o, S)
      BY <2>1 DEF CreateOrder, Opened, Sends, Owing, Become, Status, TypeOK
    <3> QED
      BY <3>1 DEF Shaped
  <2>2. ASSUME NEW S \in SUBSET Lines, NEW a \in Attempts, NEW cash \in BOOLEAN,
               SubmitCart(o, S, a, cash)
        PROVE  Shaped
    <3>1. Sends(o, S)
      BY <2>2 DEF SubmitCart, Opened, Sends, Owing, Become, Status, TypeOK
    <3> QED
      BY <3>1 DEF Shaped
  <2>3. ASSUME NEW S \in SUBSET Lines, ConsolidateTable(o, S) PROVE Shaped
    <3>1. Sends(o, S)
      BY <2>3 DEF ConsolidateTable, Opened, Sends, Owing, Become, Status, TypeOK
    <3> QED
      BY <3>1 DEF Shaped
  <2>4. ASSUME NEW l \in Lines, AddItemToOrder(o, l) PROVE Shaped
    <3>1. Sends(o, {l})
      BY <2>4 DEF AddItemToOrder, AddItemReads, AddItemWrites, Terminal, Sends, Owing, Become,
                  Status, Statuses, TypeOK, OrderRow
    <3> QED
      BY <3>1 DEF Shaped
  <2>5. CASE MarkOrderReady(o)
    <3>1. Stays
      BY <2>5 DEF MarkOrderReady, MarkReadyWrites, SetCocina, Cooking, LinesOf, EnCurso, Stays,
                  Status, TypeOK, LineRow
    <3> QED
      BY <3>1 DEF Shaped
  <2>6. ASSUME NEW v \in Versions, BlockOrder(o, v) PROVE Shaped
    <3>1. Stays
      BY <2>6 DEF BlockOrder, BlockReads, BlockWrites, Advance, Stays, Status, TypeOK, OrderRow
    <3> QED
      BY <3>1 DEF Shaped
  <2>7. ASSUME NEW v \in Versions, CheckoutAndSend(o, v) PROVE Shaped
    <3>1. Charges({o})
      BY <2>7, SendShape DEF CheckoutAndSend, SendReads, SendWrites
    <3> QED
      BY <3>1 DEF Shaped
  <2>8. CASE PayOrder(o)
    <3>1. Live(o) = LiveOf({o})
      BY DEF Live, LinesOf, LiveOf
    <3>2. Become({o}, "pagada")
      BY <2>8 DEF PayOrder, PayWrites, SetStatus, TypeOK, OrderRow, Status, Become
    <3>3. Charges({o})
      BY <2>8, <3>1, <3>2 DEF PayOrder, PayReads, PayWrites, BuildSale, Charges
    <3> QED
      BY <3>3 DEF Shaped
  <2>9. CASE ConfirmOrder(o)
    <3>1. Live(o) = LiveOf({o})
      BY DEF Live, LinesOf, LiveOf
    <3>2. Become({o}, "abierta")
      BY <2>9 DEF ConfirmOrder, Advance, TypeOK, OrderRow, Status, Become
    <3>3. Confirms(o)
      BY <2>9, <3>1, <3>2 DEF ConfirmOrder, ConfirmReads, Confirms
    <3> QED
      BY <3>3 DEF Shaped
  <2>10. ASSUME NEW a \in Attempts, NEW cash \in BOOLEAN, CreatePaymentAttempt(a, o, cash)
         PROVE  Shaped
    <3>1. Stays
      BY <2>10 DEF CreatePaymentAttempt, AttemptWrites, AttemptInsert, Stays, Status
    <3> QED
      BY <3>1 DEF Shaped
  <2>11. ASSUME CancelOrder(o) PROVE Shaped
    <3>1. Become({o}, "cancelada")
      BY <2>11 DEF CancelOrder, CancelWrites, SetStatus, TypeOK, OrderRow, Status, Become
    <3>2. Status(o) \in Owing
      BY <2>11 DEF CancelOrder, CancelReads, Billable, Terminal, Owing, Status, Statuses,
                   TypeOK, OrderRow
    <3>3. Cancels(o)
      BY <2>11, <3>1, <3>2 DEF CancelOrder, CancelWrites, Cancels
    <3> QED
      BY <3>3 DEF Shaped
  <2>12. CASE CancelMyOrder(o)
    BY <2>11, <2>12 DEF CancelMyOrder
  <2> QED
    BY <1>1, <2>1, <2>2, <2>3, <2>4, <2>5, <2>6, <2>7, <2>8, <2>9, <2>10, <2>11, <2>12
    DEF NextOrder
<1>2. ASSUME NEW l \in Lines, NextLine(l) PROVE Shaped
  <2>1. ASSUME NEW to \in Cocina, TransitionKitchen(l, to) PROVE Shaped
    <3>1. Stays
      BY <2>1 DEF TransitionKitchen, KitchenReads, KitchenAllows, KitchenWrites, SetCocina,
                  Stays, Status, TypeOK, LineRow
    <3> QED
      BY <3>1 DEF Shaped
  <2>2. CASE VoidItem(l)
    <3>1. Voids(l)
      BY <2>2 DEF VoidItem, VoidWrites, SetCocina, Voids, TypeOK, LineRow
    <3> QED
      BY <3>1 DEF Shaped
  <2>3. ASSUME NEW new \in Lines, ReplaceItem(l, new) PROVE Shaped
    <3>1. l # new
      BY <2>3 DEF ReplaceItem, VoidReads, InPlay, Unsent
    <3>2. Exchanges(l, new)
      BY <2>3, <3>1 DEF ReplaceItem, Exchanges, TypeOK, LineRow
    <3> QED
      BY <3>2 DEF Shaped
  <2> QED
    BY <1>2, <2>1, <2>2, <2>3 DEF NextLine
<1>3. ASSUME NEW a \in Attempts, NextAttempt(a) PROVE Shaped
  <2>1. ASSUME PayAttempt(a), Pendiente(a) PROVE Shaped
    <3>1. attempt[a].order \in Orders
      BY <2>1 DEF Pendiente, TypeOK, AttemptRow
    <3>2. Charges({attempt[a].order})
      BY <2>1, <3>1, SendShape DEF PayAttempt, ConfirmedBy, PayAttemptWrites
    <3> QED
      BY <3>1, <3>2 DEF Shaped
  <2>2. CASE RejectPaymentAttempt(a) \/ AttachReceipt(a)
    <3>1. Stays
      BY <2>2 DEF RejectPaymentAttempt, RejectWrites, AttachReceipt, Stays, Status
    <3> QED
      BY <3>1 DEF Shaped
  <2> QED
    BY <1>3, <2>1, <2>2
    DEF NextAttempt, ApprovePaymentAttempt, ApproveReads, ConfirmCashPaymentAttempt,
        CashReads
<1>4. ASSUME NEW S \in SUBSET Orders, NEW split \in BOOLEAN, CloseSession(S, split)
      PROVE  Shaped
  <2>1. UNION {Live(o) : o \in S} = LiveOf(S)
    BY DEF Live, LinesOf, LiveOf
  <2>2. \A o \in S : Status(o) \in {"abierta", "bloqueada"}
    BY <1>4 DEF CloseSession, CloseReads, Billable, Terminal, Status, Statuses, TypeOK,
                OrderRow
  <2>3. Become(S, "pagada")
    BY <1>4 DEF CloseSession, CloseWrites, TypeOK, OrderRow, Status, Become
  <2>4. Charges(S)
    BY <1>4, <2>1, <2>2, <2>3 DEF CloseSession, CloseWrites, BuildSale, Charges
  <2> QED
    BY <2>4 DEF Shaped
<1>5. CASE UNCHANGED vars
  <2>1. Stays
    BY <1>5 DEF vars, stockVars, Stays, Status
  <2> QED
    BY <2>1 DEF Shaped
<1> QED
  BY <1>1, <1>2, <1>3, <1>4, <1>5 DEF Next

(* Stock moves line by line, and only the lines named move. *)
LEMMA MovedLines ==
  ASSUME TypeOK, NEW back, NEW out, MoveStock(back, out), NEW l \in Lines
  PROVE  /\ taken[l] \in Nat /\ returned[l] \in Nat
         /\ taken'[l] = IF l \in out THEN taken[l] + 1 ELSE taken[l]
         /\ returned'[l] = IF l \in back THEN returned[l] + 1 ELSE returned[l]
BY DEF MoveStock, Movements, TypeOK

(* The stock keeps following the status, line by line and shape by shape. *)
LEMMA StockKept ==
  ASSUME TypeOK, RowsHaveOrder, StockFollowsStatus, [Next /\ EditsOnlyConfirmed]_vars
  PROVE  StockFollowsStatus'
<1>1. CASE UNCHANGED vars
  BY <1>1 DEF vars, StockFollowsStatus, Status
<1>2. CASE Next /\ EditsOnlyConfirmed
  <2> SUFFICES ASSUME NEW l \in Lines
      PROVE  /\ returned'[l] <= taken'[l] /\ taken'[l] <= 1
             /\ line'[l].order = NoOrder \/ order'[line'[l].order].status = "recibida"
                => taken'[l] = 0
             /\ /\ line'[l].order # NoOrder /\ line'[l].cocina # "anulado"
                /\ order'[line'[l].order].status \in {"abierta", "bloqueada", "pagada"}
                => taken'[l] = 1 /\ returned'[l] = 0
    BY DEF StockFollowsStatus, Status
  <2> DEFINE Follows ==
               /\ returned'[l] <= taken'[l] /\ taken'[l] <= 1
               /\ line'[l].order = NoOrder \/ order'[line'[l].order].status = "recibida"
                  => taken'[l] = 0
               /\ /\ line'[l].order # NoOrder /\ line'[l].cocina # "anulado"
                  /\ order'[line'[l].order].status \in {"abierta", "bloqueada", "pagada"}
                  => taken'[l] = 1 /\ returned'[l] = 0
  <2>1. /\ taken[l] \in Nat /\ returned[l] \in Nat
        /\ returned[l] <= taken[l] /\ taken[l] <= 1
        /\ line[l].order = NoOrder \/ Status(line[l].order) = "recibida" => taken[l] = 0
        /\ /\ line[l].order # NoOrder /\ line[l].cocina # "anulado"
           /\ Status(line[l].order) \in {"abierta", "bloqueada", "pagada"}
           => taken[l] = 1 /\ returned[l] = 0
    BY DEF StockFollowsStatus, TypeOK
  <2>2. /\ line[l].order # NoOrder => Status(line[l].order) # "ausente"
        /\ line[l].order \in Orders \cup {NoOrder}
        /\ NoOrder \notin Orders
    BY LifecycleAssumption DEF RowsHaveOrder, TypeOK, LineRow
  <2>3. /\ /\ line[l].order = NoOrder /\ line'[l].order # NoOrder
           /\ Status(line'[l].order) # "ausente"
           => Status(line'[l].order) \in {"abierta", "bloqueada"}
        /\ line'[l].cocina = "anulado" /\ line[l].cocina # "anulado"
           => Status(line[l].order) \in {"abierta", "bloqueada"}
    BY <1>2 DEF EditsOnlyConfirmed
  <2>4. ASSUME NEW o \in Orders, NEW S \in SUBSET Lines, Sends(o, S) PROVE Follows
    <3>1. CASE l \in S
      <4>1. line[l].order = NoOrder /\ line'[l].order = o /\ line'[l].cocina = "pendiente"
        BY <2>4, <3>1 DEF Sends, Unsent, Inserted
      <4>2. CASE order'[o].status = "recibida" /\ UNCHANGED stockVars
        BY <2>1, <2>2, <4>1, <4>2 DEF stockVars
      <4>3. CASE Deduct(S) /\ (order'[o].status = "recibida" => Status(o) = "recibida")
        <5>1. taken'[l] = 1 /\ returned'[l] = 0
          BY <2>1, <3>1, <4>1, <4>3, MovedLines DEF Deduct
        <5>2. order'[o].status # "recibida"
          BY <2>2, <2>3, <4>1, <4>3
        <5> QED
          BY <2>2, <4>1, <5>1, <5>2
      <4> QED
        BY <2>4, <4>2, <4>3 DEF Sends
    <3>2. CASE l \notin S
      <4>1. line'[l] = line[l]
        BY <2>4, <3>2 DEF Sends, Inserted
      <4>2. taken'[l] = taken[l] /\ returned'[l] = returned[l]
        BY <2>4, <3>2, MovedLines DEF Sends, stockVars, Deduct
      <4>3. line[l].order # NoOrder =>
              order'[line[l].order].status = Status(line[l].order)
        BY <2>2, <2>4 DEF Sends, Become
      <4> QED
        BY <2>1, <4>1, <4>2, <4>3
    <3> QED
      BY <3>1, <3>2
  <2>5. CASE Stays
    BY <2>1, <2>2, <2>5 DEF Stays, stockVars
  <2>6. ASSUME NEW m \in Lines, Voids(m) PROVE Follows
    <3>1. CASE l = m
      <4>1. /\ line'[l].order = line[l].order /\ line'[l].cocina = "anulado"
            /\ line[l].order # NoOrder /\ line[l].cocina # "anulado" /\ order' = order
        BY <2>6, <3>1 DEF Voids, VoidReads, InPlay
      <4>2. Status(line[l].order) \in {"abierta", "bloqueada"}
        BY <2>3, <4>1
      <4>3. taken'[l] = taken[l] /\ returned'[l] \in {0, 1}
        BY <2>1, <2>6, <4>1, <4>2, MovedLines DEF Voids, Reverse
      <4> QED
        BY <2>1, <4>1, <4>2, <4>3 DEF Status
    <3>2. CASE l # m
      <4>1. /\ line'[l].order = line[l].order /\ line'[l].cocina = line[l].cocina
            /\ order' = order
        BY <2>6, <3>2 DEF Voids
      <4>2. taken'[l] = taken[l] /\ returned'[l] = returned[l]
        BY <2>6, <3>2, MovedLines DEF Voids, Reverse, ToReturn
      <4> QED
        BY <2>1, <4>1, <4>2 DEF Status
    <3> QED
      BY <3>1, <3>2
  <2>7. ASSUME NEW m \in Lines, NEW new \in Lines, Exchanges(m, new) PROVE Follows
    <3>1. /\ line[m].order # NoOrder /\ line[m].cocina # "anulado"
          /\ line[new].order = NoOrder /\ order' = order
          /\ line'[m].order = line[m].order /\ line'[m].cocina = "anulado"
          /\ line'[new].order = line[m].order
      BY <2>7 DEF Exchanges, VoidReads, InPlay, Unsent
    <3>2. CASE l = m
      <4>1. Status(line[l].order) \in {"abierta", "bloqueada"}
        BY <2>3, <3>1, <3>2
      <4>2. taken'[l] = taken[l] /\ returned'[l] \in {0, 1}
        BY <2>1, <2>7, <3>1, <3>2, <4>1, MovedLines DEF Exchanges
      <4> QED
        BY <2>1, <3>1, <3>2, <4>1, <4>2 DEF Status
    <3>3. CASE l = new
      <4>1. taken'[l] = 1 /\ returned'[l] = 0
        BY <2>1, <2>7, <3>1, <3>3, MovedLines DEF Exchanges, ToReturn
      <4>2. Status(line'[l].order) # "ausente"
        BY <3>1, <3>3 DEF RowsHaveOrder
      <4>3. Status(line'[l].order) \in {"abierta", "bloqueada"}
        BY <2>3, <3>1, <3>3, <4>2
      <4> QED
        BY <3>1, <3>3, <4>1, <4>3 DEF Status
    <3>4. CASE l \notin {m, new}
      <4>1. line'[l] = line[l]
        BY <2>7, <3>4 DEF Exchanges
      <4>2. taken'[l] = taken[l] /\ returned'[l] = returned[l]
        BY <2>7, <3>4, MovedLines DEF Exchanges, ToReturn
      <4> QED
        BY <2>1, <3>1, <4>1, <4>2 DEF Status
    <3> QED
      BY <3>2, <3>3, <3>4
  <2>8. ASSUME NEW S \in SUBSET Orders, Charges(S) PROVE Follows
    <3>1. line' = line
      BY <2>8 DEF Charges
    <3>2. line[l].order # NoOrder =>
            order'[line[l].order].status =
              IF line[l].order \in S THEN "pagada" ELSE Status(line[l].order)
      BY <2>2, <2>8 DEF Charges, Become
    <3>3. CASE (\A o \in S : Status(o) = "recibida") /\ Deduct(LiveOf(S))
      <4>1. /\ taken'[l] = IF l \in LiveOf(S) THEN taken[l] + 1 ELSE taken[l]
            /\ returned'[l] = returned[l]
        BY <3>3, MovedLines DEF Deduct
      <4>2. CASE line[l].order \in S
        BY <2>1, <2>2, <3>1, <3>2, <3>3, <4>1, <4>2 DEF LiveOf
      <4>3. CASE line[l].order \notin S
        BY <2>1, <3>1, <3>2, <4>1, <4>3 DEF LiveOf
      <4> QED
        BY <4>2, <4>3
    <3>4. CASE (\A o \in S : Status(o) \in {"abierta", "bloqueada"}) /\ UNCHANGED stockVars
      BY <2>1, <2>2, <3>1, <3>2, <3>4 DEF stockVars
    <3> QED
      BY <2>8, <3>3, <3>4 DEF Charges
  <2>9. ASSUME NEW o \in Orders, Confirms(o) PROVE Follows
    <3>1. line' = line /\ Status(o) = "recibida"
      BY <2>9 DEF Confirms
    <3>2. line[l].order # NoOrder =>
            order'[line[l].order].status =
              IF line[l].order = o THEN "abierta" ELSE Status(line[l].order)
      BY <2>2, <2>9 DEF Confirms, Become
    <3>3. /\ taken'[l] = IF l \in LiveOf({o}) THEN taken[l] + 1 ELSE taken[l]
          /\ returned'[l] = returned[l]
      BY <2>9, MovedLines DEF Confirms, Deduct
    <3>4. CASE line[l].order = o
      BY <2>1, <2>2, <3>1, <3>2, <3>3, <3>4 DEF LiveOf
    <3>5. CASE line[l].order # o
      BY <2>1, <3>1, <3>2, <3>3, <3>5 DEF LiveOf
    <3> QED
      BY <3>4, <3>5
  <2>10. ASSUME NEW o \in Orders, Cancels(o) PROVE Follows
    <3>1. line' = line
      BY <2>10 DEF Cancels
    <3>2. line[l].order # NoOrder =>
            order'[line[l].order].status =
              IF line[l].order = o THEN "cancelada" ELSE Status(line[l].order)
      BY <2>2, <2>10 DEF Cancels, Become
    <3>3. /\ taken'[l] = taken[l]
          /\ returned'[l] = IF l \in Uncooked(o) THEN returned[l] + 1 ELSE returned[l]
      BY <2>10, MovedLines DEF Cancels, Reverse
    <3>4. CASE l \in Uncooked(o)
      <4>1. /\ line[l].order = o /\ line[l].cocina = "pendiente"
            /\ Status(o) \in {"abierta", "bloqueada"}
        BY <2>10, <3>4 DEF Uncooked, Unstarted, LinesOf, Cancels, Owing
      <4> QED
        BY <2>1, <2>2, <3>1, <3>2, <3>3, <3>4, <4>1
    <3>5. CASE l \notin Uncooked(o)
      BY <2>1, <3>1, <3>2, <3>3, <3>5
    <3> QED
      BY <3>4, <3>5
  <2> QED
    BY <1>2, <2>4, <2>5, <2>6, <2>7, <2>8, <2>9, <2>10, EveryStepShaped DEF Shaped
<1> QED
  BY <1>1, <1>2

(* When lines are added to and voided in confirmed orders only, the stock follows *)
(* the status: nothing is out for an order nobody confirmed, each live line of a  *)
(* confirmed one is out once, and nothing comes back that did not leave.          *)
THEOREM StockFollows == EditedSpec => []StockFollowsStatus
<1>1. Init => StockFollowsStatus
  BY LifecycleAssumption DEF Init, StockFollowsStatus, OldOrders, Status
<1>2. TypeOK /\ RowsHaveOrder /\ StockFollowsStatus /\ [Next /\ EditsOnlyConfirmed]_vars
      => StockFollowsStatus'
  BY StockKept
<1>3. [Next /\ EditsOnlyConfirmed]_vars => [Next]_vars
  OBVIOUS
<1>4. EditedSpec => Spec
  BY <1>3, PTL DEF EditedSpec, Spec
<1>5. IInv => TypeOK /\ RowsHaveOrder
  BY DEF IInv
<1> QED
  BY <1>1, <1>2, <1>4, <1>5, Invariance, PTL DEF EditedSpec

-----------------------------------------------------------------------------
(* The refinement: every shape of step is a step of LineSettlement, or none. *)

(* A line nobody has charged or dropped is free or owed, as its order says. *)
LEMMA FateNow ==
  ASSUME IInv, NEW l \in Lines
  PROVE  /\ line[l].order = NoOrder => Fate[l] = "free" /\ billed[l] = 0
         /\ line[l].order # NoOrder =>
              line[l].order \in Orders /\ Status(line[l].order) # "ausente"
         /\ line[l].order # NoOrder /\ Status(line[l].order) \in Owing =>
              /\ billed[l] = 0
              /\ Fate[l] = IF line[l].cocina = "anulado" THEN "dropped" ELSE "owed"
<1>1. billed[l] \in Nat /\ (line[l].order # NoOrder => line[l].order \in Orders)
  BY DEF IInv, TypeOK, LineRow
<1>2. billed[l] > 0 => line[l].order # NoOrder /\ Status(line[l].order) = "pagada"
  BY DEF IInv, Charging, ChargedIsServed
<1> QED
  BY <1>1, <1>2 DEF IInv, RowsHaveOrder, Fate, FateOf, Owing

(* A line whose row, charge and order's status are as they were has its old fate; *)
(* so has one whose order merely moves on while it is still owed.                 *)
LEMMA FateKept ==
  ASSUME IInv, NEW l \in Lines, billed'[l] = billed[l],
         line'[l].order = line[l].order,
         line'[l].cocina = "anulado" <=> line[l].cocina = "anulado",
         line[l].order # NoOrder =>
           \/ order'[line[l].order].status = Status(line[l].order)
           \/ {order'[line[l].order].status, Status(line[l].order)} \subseteq Owing
  PROVE  FateOf(l)' = Fate[l]
<1>1. CASE line[l].order = NoOrder
  BY <1>1 DEF Fate, FateOf
<1>2. CASE /\ line[l].order # NoOrder
           /\ order'[line[l].order].status = Status(line[l].order)
  BY <1>2 DEF Fate, FateOf, Status
<1>3. CASE /\ line[l].order # NoOrder
           /\ {order'[line[l].order].status, Status(line[l].order)} \subseteq Owing
  BY <1>3 DEF Fate, FateOf, Status, Owing
<1> QED
  BY <1>1, <1>2, <1>3

LEMMA StepSettles ==
  ASSUME IInv, [Next /\ EditsOnlyConfirmed]_vars
  PROVE  [Settlement!Next]_Fate
<1> USE DEF Settlement!Order, Settlement!Charge, Settlement!Drop
<1>0. TypeOK /\ NoOrder \notin Orders
  BY LifecycleAssumption DEF IInv
<1>1. ASSUME \A l \in Lines : FateOf(l)' = Fate[l] PROVE [Settlement!Next]_Fate
  <2>1. Fate' = Fate
    BY <1>1 DEF Fate
  <2> QED
    BY <2>1
<1>2. ASSUME NEW S \in SUBSET Lines, NEW from, NEW to,
             \A l \in S : Fate[l] = from /\ FateOf(l)' = to,
             \A l \in Lines \ S : FateOf(l)' = Fate[l]
      PROVE  Settlement!Move(S, from, to)
  <2>1. Fate' = [l \in Lines |-> IF l \in S THEN to ELSE Fate[l]]
    BY <1>2 DEF Fate
  <2> QED
    BY <1>2, <2>1 DEF Settlement!Move
<1>3. CASE UNCHANGED vars
  BY <1>3 DEF vars, Fate, FateOf, Status
<1>4. CASE Next /\ EditsOnlyConfirmed
  <2>1. ASSUME NEW o \in Orders, NEW S \in SUBSET Lines, Sends(o, S)
        PROVE  [Settlement!Next]_Fate
    <3>1. ASSUME NEW l \in S PROVE Fate[l] = "free" /\ FateOf(l)' = "owed"
      <4>1. /\ line[l].order = NoOrder
            /\ line'[l].order = o /\ line'[l].cocina = "pendiente"
            /\ billed'[l] = billed[l] /\ order'[o].status \in Owing
        BY <2>1 DEF Sends, Unsent, Inserted
      <4>2. Fate[l] = "free" /\ billed[l] = 0
        BY <4>1, FateNow
      <4> QED
        BY <1>0, <4>1, <4>2 DEF FateOf, Status, Owing
    <3>2. ASSUME NEW l \in Lines \ S PROVE FateOf(l)' = Fate[l]
      <4>1. line'[l] = line[l] /\ billed'[l] = billed[l]
        BY <2>1 DEF Sends, Inserted
      <4>2. line[l].order # NoOrder =>
              order'[line[l].order].status = Status(line[l].order)
        BY <2>1, FateNow DEF Sends, Become
      <4> QED
        BY <4>1, <4>2, FateKept
    <3>3. Settlement!Order(S)
      BY <1>2, <3>1, <3>2
    <3> QED
      BY <3>3 DEF Settlement!Next
  <2>2. CASE Stays
    <3>1. ASSUME NEW l \in Lines PROVE FateOf(l)' = Fate[l]
      <4>1. line[l].order # NoOrder =>
              \/ order'[line[l].order].status = Status(line[l].order)
              \/ {order'[line[l].order].status, Status(line[l].order)} \subseteq Owing
        BY <2>2, FateNow DEF Stays, Owing
      <4> QED
        BY <2>2, <4>1, FateKept DEF Stays
    <3> QED
      BY <1>1, <3>1
  <2>3. ASSUME NEW m \in Lines, Voids(m) PROVE [Settlement!Next]_Fate
    <3>1. /\ line[m].order # NoOrder /\ line[m].cocina # "anulado"
          /\ line'[m].order = line[m].order /\ line'[m].cocina = "anulado"
          /\ order' = order /\ billed' = billed
      BY <2>3 DEF Voids, VoidReads, InPlay
    <3>2. Status(line[m].order) \in Owing
      BY <1>4, <3>1 DEF EditsOnlyConfirmed, Owing
    <3>3. Fate[m] = "owed" /\ FateOf(m)' = "dropped"
      BY <3>1, <3>2, FateNow DEF FateOf, Owing
    <3>4. ASSUME NEW l \in Lines \ {m} PROVE FateOf(l)' = Fate[l]
      BY <2>3, <3>1, FateKept DEF Voids, Status
    <3>5. Settlement!Drop({m})
      BY <1>2, <3>3, <3>4
    <3> QED
      BY <3>5 DEF Settlement!Next
  <2>4. ASSUME NEW m \in Lines, NEW new \in Lines, Exchanges(m, new)
        PROVE  [Settlement!Next]_Fate
    <3>1. /\ line[m].order # NoOrder /\ line[m].cocina # "anulado"
          /\ line'[m].order = line[m].order /\ line'[m].cocina = "anulado"
          /\ line[new].order = NoOrder
          /\ line'[new].order = line[m].order /\ line'[new].cocina = "pendiente"
          /\ order' = order /\ billed' = billed
      BY <2>4 DEF Exchanges, VoidReads, InPlay, Unsent
    <3>2. Status(line[m].order) \in Owing
      BY <1>4, <3>1 DEF EditsOnlyConfirmed, Owing
    <3>3. Fate[m] = "owed" /\ FateOf(m)' = "dropped"
      BY <3>1, <3>2, FateNow DEF FateOf, Owing
    <3>4. Fate[new] = "free" /\ billed[new] = 0
      BY <3>1, FateNow
    <3>5. FateOf(new)' = "owed"
      BY <3>1, <3>2, <3>4 DEF FateOf, Status, Owing
    <3>6. ASSUME NEW l \in Lines \ {m, new} PROVE FateOf(l)' = Fate[l]
      BY <2>4, <3>1, FateKept DEF Exchanges, Status
    <3>7. Fate' = [Fate EXCEPT ![m] = "dropped", ![new] = "owed"]
      BY <3>1, <3>3, <3>5, <3>6 DEF Fate
    <3>8. Settlement!Replace(m, new)
      BY <3>3, <3>4, <3>7 DEF Settlement!Replace
    <3> QED
      BY <3>8 DEF Settlement!Next
  <2>5. ASSUME NEW S \in SUBSET Orders, Charges(S) PROVE [Settlement!Next]_Fate
    <3>1. /\ line' = line /\ \A o \in S : Status(o) \in Owing
          /\ \A l \in Lines :
               billed'[l] = IF l \in LiveOf(S) THEN billed[l] + 1 ELSE billed[l]
          /\ \A o \in Orders :
               order'[o].status = IF o \in S THEN "pagada" ELSE Status(o)
      BY <2>5 DEF Charges, Become, Owing
    <3>2. ASSUME NEW l \in LiveOf(S) PROVE Fate[l] = "owed" /\ FateOf(l)' = "charged"
      <4>1. l \in Lines /\ line[l].order \in S /\ line[l].cocina # "anulado"
        BY DEF LiveOf
      <4>2. billed[l] = 0 /\ Fate[l] = "owed"
        BY <1>0, <3>1, <4>1, FateNow
      <4> QED
        BY <1>0, <3>1, <4>1, <4>2 DEF FateOf, Status
    <3>3. ASSUME NEW l \in Lines \ LiveOf(S) PROVE FateOf(l)' = Fate[l]
      <4>1. CASE line[l].order \in S
        <5>1. line[l].cocina = "anulado"
          BY <4>1 DEF LiveOf
        <5>2. billed[l] = 0 /\ Fate[l] = "dropped"
          BY <1>0, <3>1, <4>1, <5>1, FateNow
        <5> QED
          BY <1>0, <3>1, <4>1, <5>1, <5>2 DEF FateOf, Status
      <4>2. CASE line[l].order \notin S
        BY <3>1, <4>2, FateNow, FateKept
      <4> QED
        BY <4>1, <4>2
    <3>4. LiveOf(S) \in SUBSET Lines
      BY DEF LiveOf
    <3>5. Settlement!Charge(LiveOf(S))
      BY <1>2, <3>2, <3>3, <3>4
    <3> QED
      BY <3>4, <3>5 DEF Settlement!Next
  <2>6. ASSUME NEW o \in Orders, Confirms(o) PROVE [Settlement!Next]_Fate
    <3>1. ASSUME NEW l \in Lines PROVE FateOf(l)' = Fate[l]
      <4>1. line[l].order # NoOrder =>
              \/ order'[line[l].order].status = Status(line[l].order)
              \/ {order'[line[l].order].status, Status(line[l].order)} \subseteq Owing
        BY <2>6, FateNow DEF Confirms, Become, Owing
      <4> QED
        BY <2>6, <4>1, FateKept DEF Confirms
    <3> QED
      BY <1>1, <3>1
  <2>7. ASSUME NEW o \in Orders, Cancels(o) PROVE [Settlement!Next]_Fate
    <3>1. /\ line' = line /\ billed' = billed /\ Status(o) \in Owing
          /\ \A p \in Orders : order'[p].status = IF p = o THEN "cancelada" ELSE Status(p)
      BY <2>7 DEF Cancels, Become
    <3>2. ASSUME NEW l \in LiveOf({o}) PROVE Fate[l] = "owed" /\ FateOf(l)' = "dropped"
      <4>1. l \in Lines /\ line[l].order = o /\ line[l].cocina # "anulado"
        BY DEF LiveOf
      <4>2. billed[l] = 0 /\ Fate[l] = "owed"
        BY <1>0, <3>1, <4>1, FateNow
      <4> QED
        BY <1>0, <3>1, <4>1, <4>2 DEF FateOf, Status
    <3>3. ASSUME NEW l \in Lines \ LiveOf({o}) PROVE FateOf(l)' = Fate[l]
      <4>1. CASE line[l].order = o
        <5>1. line[l].cocina = "anulado"
          BY <4>1 DEF LiveOf
        <5>2. billed[l] = 0 /\ Fate[l] = "dropped"
          BY <1>0, <3>1, <4>1, <5>1, FateNow
        <5> QED
          BY <1>0, <3>1, <4>1, <5>1, <5>2 DEF FateOf, Status
      <4>2. CASE line[l].order # o
        BY <3>1, <4>2, FateNow, FateKept
      <4> QED
        BY <4>1, <4>2
    <3>4. LiveOf({o}) \in SUBSET Lines
      BY DEF LiveOf
    <3>5. Settlement!Drop(LiveOf({o}))
      BY <1>2, <3>2, <3>3, <3>4
    <3> QED
      BY <3>4, <3>5 DEF Settlement!Next
  <2> QED
    BY <1>0, <1>4, <2>1, <2>2, <2>3, <2>4, <2>5, <2>6, <2>7, EveryStepShaped DEF Shaped
<1> QED
  BY <1>3, <1>4

(* The orders implement LineSettlement: with lines edited in confirmed orders only, *)
(* each ordered line is charged by one sale or dropped, never both, for good.       *)
THEOREM Implements == EditedSpec => SettlesEveryLine
<1>1. Init => Settlement!Init
  <2> SUFFICES ASSUME Init PROVE \A l \in Lines : Fate[l] \in {"free", "owed"}
    BY DEF Settlement!Init, Fate
  <2>1. \A l \in Lines : /\ line[l].order \in OldOrders \cup {NoOrder} /\ billed[l] = 0
                         /\ line[l].cocina = "pendiente"
    BY LifecycleAssumption DEF Init, OldOrders
  <2>2. \A o \in OldOrders : Status(o) = "recibida"
    BY LifecycleAssumption DEF Init, OldOrders, Status
  <2> QED
    BY <2>1, <2>2 DEF Fate, FateOf
<1>2. IInv /\ [Next /\ EditsOnlyConfirmed]_vars => [Settlement!Next]_Fate
  BY StepSettles
<1>3. [Next /\ EditsOnlyConfirmed]_vars => [Next]_vars
  OBVIOUS
<1>4. EditedSpec => Spec
  BY <1>3, PTL DEF EditedSpec, Spec
<1> QED
  BY <1>1, <1>2, <1>4, Invariance, PTL DEF EditedSpec, SettlesEveryLine, Settlement!Spec

(* A taken line that is dropped, with its order or by itself, comes back to the *)
(* stock exactly when the kitchen had not started it.                           *)
THEOREM DroppedReturns == EditedSpec => DropReturnsUncooked
<1> DEFINE Returns ==
      \A l \in Lines : taken[l] = 1 /\ ~Dropped(l) /\ Dropped(l)' =>
        returned'[l] = IF line[l].cocina = "pendiente" THEN 1 ELSE 0
<1>1. IInv /\ StockFollowsStatus /\ [Next /\ EditsOnlyConfirmed]_vars => [Returns]_vars
  <2> SUFFICES ASSUME IInv, StockFollowsStatus, Next, ~UNCHANGED vars,
                      NEW l \in Lines, taken[l] = 1, ~Dropped(l), Dropped(l)'
               PROVE  returned'[l] = IF line[l].cocina = "pendiente" THEN 1 ELSE 0
    BY DEF vars
  <2>1. TypeOK /\ Shaped
    BY EveryStepShaped DEF IInv
  <2>2. /\ line[l].order # NoOrder /\ line[l].cocina # "anulado"
        /\ Status(line[l].order) \in {"abierta", "bloqueada", "pagada"}
        /\ returned[l] = 0 /\ line[l].order \in Orders
    <3>1. line[l].order # NoOrder /\ Status(line[l].order) # "recibida"
      BY DEF StockFollowsStatus
    <3>2. line[l].cocina # "anulado" /\ Status(line[l].order) # "cancelada"
      BY <3>1 DEF Dropped
    <3>3. line[l].order \in Orders /\ Status(line[l].order) # "ausente"
      BY <3>1, FateNow
    <3>4. Status(line[l].order) \in {"abierta", "bloqueada", "pagada"}
      BY <2>1, <3>1, <3>2, <3>3 DEF TypeOK, OrderRow, Status, Statuses
    <3> QED
      BY <3>1, <3>2, <3>3, <3>4 DEF StockFollowsStatus
  <2>3. \/ line'[l].cocina = "anulado"
        \/ order'[line'[l].order].status = "cancelada"
    BY DEF Dropped, Status
  <2>4. ASSUME NEW o \in Orders, NEW S \in SUBSET Lines, Sends(o, S) PROVE FALSE
    <3>1. line'[l] = line[l]
      BY <2>2, <2>4 DEF Sends, Unsent, Inserted
    <3>2. order'[line[l].order].status = Status(line[l].order)
      BY <2>2, <2>4 DEF Sends, Become
    <3> QED
      BY <2>2, <2>3, <3>1, <3>2
  <2>5. CASE Stays
    BY <2>2, <2>3, <2>5 DEF Stays
  <2>6. ASSUME NEW m \in Lines, Voids(m)
        PROVE  returned'[l] = IF line[l].cocina = "pendiente" THEN 1 ELSE 0
    <3>1. l = m
      BY <2>2, <2>3, <2>6 DEF Voids, Status
    <3> QED
      BY <2>1, <2>2, <2>6, <3>1, MovedLines DEF Voids, Reverse, ToReturn
  <2>7. ASSUME NEW m \in Lines, NEW new \in Lines, Exchanges(m, new)
        PROVE  returned'[l] = IF line[l].cocina = "pendiente" THEN 1 ELSE 0
    <3>1. l = m
      <4>1. l # new
        BY <2>2, <2>7 DEF Exchanges, Unsent
      <4> QED
        BY <2>2, <2>3, <2>7, <4>1 DEF Exchanges, Status
    <3> QED
      BY <2>1, <2>2, <2>7, <3>1, MovedLines DEF Exchanges, ToReturn
  <2>8. ASSUME NEW S \in SUBSET Orders, Charges(S) PROVE FALSE
    BY <2>2, <2>3, <2>8 DEF Charges, Become
  <2>9. ASSUME NEW o \in Orders, Confirms(o) PROVE FALSE
    BY <2>2, <2>3, <2>9 DEF Confirms, Become
  <2>10. ASSUME NEW o \in Orders, Cancels(o)
         PROVE  returned'[l] = IF line[l].cocina = "pendiente" THEN 1 ELSE 0
    <3>1. line[l].order = o
      BY <2>2, <2>3, <2>10 DEF Cancels, Become
    <3>2. l \in Uncooked(o) <=> line[l].cocina = "pendiente"
      BY <2>2, <3>1 DEF Uncooked, Unstarted, LinesOf
    <3>3. returned'[l] = IF l \in Uncooked(o) THEN returned[l] + 1 ELSE returned[l]
      BY <2>1, <2>10, MovedLines DEF Cancels, Reverse
    <3> QED
      BY <2>2, <3>2, <3>3
  <2> QED
    BY <2>1, <2>4, <2>5, <2>6, <2>7, <2>8, <2>9, <2>10 DEF Shaped
<1>2. [Next /\ EditsOnlyConfirmed]_vars => [Next]_vars
  OBVIOUS
<1>3. EditedSpec => Spec
  BY <1>2, PTL DEF EditedSpec, Spec
<1> QED
  BY <1>1, <1>3, Invariance, StockFollows, PTL DEF EditedSpec, DropReturnsUncooked

=============================================================================
