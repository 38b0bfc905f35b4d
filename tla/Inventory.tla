------------------------------ MODULE Inventory ------------------------------
(***************************************************************************)
(* Stock and its kardex when several requests run at once: the sales and   *)
(* voids of order lines (orders/consumption.py), the purchases and         *)
(* adjustments of api/v1/inventory, and the catalogue edited in between.   *)
(* inventory_engine/stock.py is where all of them end.                     *)
(*                                                                         *)
(* A request is a transaction under READ COMMITTED: a list of steps still  *)
(* to do, the row locks it holds, the rows it has in the ORM's identity    *)
(* map and what it will write when it commits.  SELECT ... FOR UPDATE      *)
(* waits for the row and locks it, but does not refresh a row that the     *)
(* request has loaded before: Read gives what the ORM gives.               *)
(*                                                                         *)
(* Which order a line belongs to, and that it is sold and voided once, is  *)
(* the subject of OrderLifecycle; here a line is taken by one request at a *)
(* time.                                                                   *)
(***************************************************************************)
EXTENDS Integers, FiniteSets, Sequences

CONSTANTS
  Items,       \* ids of inventory_items: numbers, because they are locked in their order
  Lines,       \* ids of the lines of orders
  Purchases,   \* ids of purchases created as orders
  Requests,    \* requests in flight at once
  Configs,     \* states of the catalogue: recipes, groups, quantities, switches
  Need,        \* Need[c][l]: what line l consumes of each item (Consumption!Required)
  Sellable,    \* Sellable[c]: the lines that ensure_lines_consume_inventory lets pass
  Batches,     \* the sets of lines that one request sells
  Amounts,     \* quantities of a purchase: functions on Items
  Stock0,      \* current_stock when the items were created
  Alone,       \* kinds of request that this instance does not let overlap others
  MaxEdits, MaxManual   \* bounds of the instance: edits; adjustments and direct purchases

Kinds == {"sell", "void", "replace", "buy", "receive", "adjust"}

ASSUME InventoryAssumption ==
  /\ Items \subseteq Nat /\ IsFiniteSet(Items)
  /\ Need \in [Configs -> [Lines -> [Items -> Nat]]]
  /\ Sellable \in [Configs -> SUBSET Lines]
  /\ Batches \subseteq SUBSET Lines
  /\ Amounts \subseteq [Items -> Nat]
  /\ Stock0 \in [Items -> Nat]
  /\ Alone \subseteq Kinds
  /\ MaxEdits \in Nat /\ MaxManual \in Nat

VARIABLES
  config,     \* the catalogue as committed
  stock,      \* inventory_items.current_stock
  net,        \* net[g]: the kardex rows of g added up with their sign
  stage,      \* a line: absent, sold, voided
  took, gave, \* kardex rows of a line: what its sale took out, what its void put back
  purchase,   \* purchases created as orders: status, quantities, received_quantity
  entered,    \* entered[p]: what the kardex rows that reference p brought in
  edited,     \* lines whose catalogue was edited after a request first read it
  count,      \* edits, and adjustments and direct purchases, so far: only for the bounds
  req         \* the requests in flight

kardexVars == <<stock, net, stage, took, gave, purchase, entered>>
vars == <<config, stock, net, stage, took, gave, purchase, entered, edited, count, req>>

None == [g \in Items |-> 0]

(* An item that a request has not loaded is not in its identity map. *)
Unseen == -1

Qty == [Items -> Nat]

PurchaseStatuses == {"absent", "draft", "partial", "received"}

PurchaseRow == [status : PurchaseStatuses, qty : Qty, got : Qty]

\* `ensure`, `lock` and `plan` are about lines; `locking`, `move` and `buy` about items.
StepRow == [op : {"ensure", "lock", "plan", "locking", "move", "buy"},
            lines : SUBSET Lines, dir : {-1, 1}, rem : Qty]

DrawRow == [line : Lines, dir : {-1, 1}, need : Qty]

RequestRow == [kind : Kinds \cup {"idle"}, todo : Seq(StepRow), held : SUBSET Items,
               seen : [Items -> Nat \cup {Unseen}], moved : [Items -> Int],
               lines : SUBSET Lines, drew : SUBSET DrawRow,
               order : SUBSET Purchases, got : Qty, now : Qty]

TypeOK ==
  /\ config \in Configs
  /\ stock \in Qty
  /\ net \in [Items -> Int]
  /\ stage \in [Lines -> {"absent", "sold", "voided"}]
  /\ took \in [Lines -> Qty] /\ gave \in [Lines -> Qty]
  /\ purchase \in [Purchases -> PurchaseRow]
  /\ entered \in [Purchases -> Qty]
  /\ edited \subseteq Lines
  /\ count \in [edits : Nat, manual : Nat]
  /\ req \in [Requests -> RequestRow]

Idle == [kind |-> "idle", todo |-> <<>>, held |-> {}, seen |-> [g \in Items |-> Unseen],
         moved |-> None, lines |-> {}, drew |-> {}, order |-> {}, got |-> None, now |-> None]

Init ==
  /\ config \in Configs
  /\ stock = Stock0
  /\ net = None
  /\ stage = [l \in Lines |-> "absent"]
  /\ took = [l \in Lines |-> None]
  /\ gave = [l \in Lines |-> None]
  /\ purchase = [p \in Purchases |-> [status |-> "absent", qty |-> None, got |-> None]]
  /\ entered = [p \in Purchases |-> None]
  /\ edited = {}
  /\ count = [edits |-> 0, manual |-> 0]
  /\ req = [r \in Requests |-> Idle]

-----------------------------------------------------------------------------
(* Rows: what a request reads, and which it may lock. *)

Free_NoLock(r, g) == TRUE
Free(r, g) == \A s \in Requests \ {r} : g \notin req[s].held

Read(r, g) == IF req[r].seen[g] = Unseen THEN stock[g] ELSE req[r].seen[g]

Pending(m) == {g \in Items : m[g] > 0}

Lowest(S) == {g \in S : \A h \in S : g <= h}

Head1(r) == Head(req[r].todo)
At(r, op) == req[r].todo # <<>> /\ Head1(r).op = op

Step(op, S, dir, m) == [op |-> op, lines |-> S, dir |-> dir, rem |-> m]
Then(r, steps) == steps \o Tail(req[r].todo)

Without(m, g) == [m EXCEPT ![g] = 0]
Rest(st, m) == IF Pending(m) = {} THEN <<>> ELSE <<[st EXCEPT !.rem = m]>>

-----------------------------------------------------------------------------
(* Requests begin. *)

MayStart(kind) ==
  \A s \in Requests : \/ req[s].kind = "idle"
                      \/ kind \notin Alone /\ req[s].kind \notin Alone

Claimed(l) == \E s \in Requests : l \in req[s].lines

Begin(r, kind, S, steps) ==
  /\ req[r] = Idle /\ MayStart(kind)
  /\ \A l \in S : ~Claimed(l)
  /\ req' = [req EXCEPT ![r] = [Idle EXCEPT !.kind = kind, !.lines = S, !.todo = steps]]
  /\ edited' = edited \ {l \in S : stage[l] = "absent"}
  /\ UNCHANGED <<config, kardexVars>>

\* deduct_order_items and deduct_sale: guard, ordered locks, then line by line.
Deduct_NoGuard(S) == <<Step("lock", S, -1, None), Step("plan", S, -1, None)>>
Deduct(S) == <<Step("ensure", S, -1, None), Step("lock", S, -1, None), Step("plan", S, -1, None)>>

\* reverse_order_items.
Reverse(S) == <<Step("lock", S, 1, None), Step("plan", S, 1, None)>>

BeginSell(r, S) ==
  /\ S # {} /\ \A l \in S : stage[l] = "absent"
  /\ Begin(r, "sell", S, Deduct(S))
  /\ UNCHANGED count

BeginVoid(r, S) ==
  /\ S # {} /\ \A l \in S : stage[l] = "sold"
  /\ Begin(r, "void", S, Reverse(S))
  /\ UNCHANGED count

\* void_item with a replacement: the reversal takes its locks, then the deduction.
BeginReplace(r, l, m) ==
  /\ stage[l] = "sold" /\ stage[m] = "absent"
  /\ Begin(r, "replace", {l, m}, Reverse({l}) \o Deduct({m}))
  /\ UNCHANGED count

\* create_purchase: every item is loaded, then received.
BeginBuy(r, q) ==
  /\ count.manual < MaxManual /\ Pending(q) # {}
  /\ Begin(r, "buy", {}, <<Step("buy", {}, 1, q)>>)
  /\ count' = [count EXCEPT !.manual = @ + 1]

\* The row that adjust_item reads first is dropped, so its movement reads a fresh one.
BeginAdjust(r, g, d) ==
  /\ count.manual < MaxManual
  /\ Begin(r, "adjust", {}, <<Step("move", {}, d, [None EXCEPT ![g] = 1])>>)
  /\ count' = [count EXCEPT !.manual = @ + 1]

\* receive_purchase reads the order and its items without a lock, and refuses more than
\* what is left of any of them.
Left_AllOrdered(p) == purchase[p].qty
Left(p) == [g \in Items |-> purchase[p].qty[g] - purchase[p].got[g]]

BeginReceive(r, p, q) ==
  /\ purchase[p].status \in {"draft", "partial"}
  /\ Pending(q) # {} /\ \A g \in Items : q[g] <= Left(p)[g]
  /\ req[r] = Idle /\ MayStart("receive")
  /\ req' = [req EXCEPT ![r] =
               [Idle EXCEPT !.kind = "receive", !.todo = <<Step("move", {}, 1, q)>>,
                            !.order = {p}, !.got = purchase[p].got, !.now = q]]
  /\ UNCHANGED <<config, kardexVars, edited, count>>

\* create_purchase_order: no stock moves yet.
CreatePurchaseOrder(p, q) ==
  /\ purchase[p].status = "absent" /\ Pending(q) # {}
  /\ purchase' = [purchase EXCEPT ![p] = [status |-> "draft", qty |-> q, got |-> None]]
  /\ UNCHANGED <<config, stock, net, stage, took, gave, entered, edited, count, req>>

\* A consolidated save of a product, or of an option: the catalogue changes at once.
EditCatalogue(c) ==
  /\ count.edits < MaxEdits /\ c # config
  /\ config' = c
  /\ edited' = edited \cup {l \in Lines : stage[l] = "sold" \/ Claimed(l)}
  /\ count' = [count EXCEPT !.edits = @ + 1]
  /\ UNCHANGED <<kardexVars, req>>

-----------------------------------------------------------------------------
(* Requests go on. *)

Update(r, row) ==
  /\ req' = [req EXCEPT ![r] = row]
  /\ UNCHANGED <<config, kardexVars, edited, count>>

Rollback(r) == req[r] # Idle /\ Update(r, Idle)

Ensure(r) ==
  /\ At(r, "ensure")
  /\ IF Head1(r).lines \subseteq Sellable[config]
     THEN Update(r, [req[r] EXCEPT !.todo = Tail(@)])
     ELSE Update(r, Idle)

\* lock_consumption: the items that the lines need, all of them at once.
Needed(S) == [g \in Items |-> IF \E l \in S : Need[config][l][g] > 0 THEN 1 ELSE 0]

Lock(r) ==
  /\ At(r, "lock")
  /\ Update(r, [req[r] EXCEPT !.todo =
                  Then(r, Rest(Step("locking", {}, 1, None), Needed(Head1(r).lines)))])

\* lock_items: SELECT ... ORDER BY id FOR UPDATE.
NextToLock_AnyOrder(m) == Pending(m)
NextToLock(m) == Lowest(Pending(m))

LockNext(r, g) ==
  /\ At(r, "locking") /\ g \in NextToLock(Head1(r).rem)
  /\ Free(r, g)
  /\ Update(r, [req[r] EXCEPT !.held = @ \cup {g}, !.seen[g] = Read(r, g),
                              !.todo = Then(r, Rest(Head1(r), Without(Head1(r).rem, g)))])

\* deduct_order_item, reverse_order_item: the plan is read again, line by line.
Plan(r, l) ==
  /\ At(r, "plan") /\ l \in Head1(r).lines
  /\ LET st   == Head1(r)
         rest == IF st.lines = {l} THEN <<>> ELSE <<[st EXCEPT !.lines = @ \ {l}]>>
         move == Rest(Step("move", {}, st.dir, None), Need[config][l])
     IN  Update(r, [req[r] EXCEPT
                      !.drew = @ \cup {[line |-> l, dir |-> st.dir, need |-> Need[config][l]]},
                      !.todo = Then(r, move \o rest)])

\* record_movement and apply_adjustment: lock, add to what the ORM holds, never below zero.
Delta(r, g) == IF Head1(r).dir = 1 THEN Head1(r).rem[g] ELSE -Head1(r).rem[g]
Moved(r, g) == Read(r, g) + Delta(r, g)

Write(r, g) ==
  [req[r] EXCEPT !.held = @ \cup {g}, !.seen[g] = Moved(r, g),
                 !.moved[g] = @ + Delta(r, g),
                 !.todo = Then(r, Rest(Head1(r), Without(Head1(r).rem, g)))]

Recorded(r, g) == IF Moved(r, g) >= 0 THEN Write(r, g) ELSE Idle

RecordMovement(r, g) ==
  /\ At(r, "move") /\ g \in Pending(Head1(r).rem)
  /\ Free(r, g)
  /\ Update(r, Recorded(r, g))

\* create_purchase takes its items one by one: load it, then record its movement.
Loaded(r) == {g \in Pending(Head1(r).rem) : req[r].seen[g] # Unseen}

LoadItem(r, g) ==
  /\ At(r, "buy") /\ g \in Pending(Head1(r).rem) /\ Loaded(r) = {}
  /\ Update(r, [req[r] EXCEPT !.seen[g] = stock[g]])

BuyItem(r, g) ==
  /\ At(r, "buy") /\ g \in Loaded(r)
  /\ Free(r, g)
  /\ Update(r, Recorded(r, g))

\* The rows of the purchase are written from what was read of them.
Received(r, p) ==
  LET got == [g \in Items |-> req[r].got[g] + req[r].now[g]]
      all == \A g \in Items : got[g] >= purchase[p].qty[g]
  IN  [purchase[p] EXCEPT !.got = got, !.status = IF all THEN "received" ELSE "partial"]

Drew(r, l, d) == {m \in req[r].drew : m.line = l /\ m.dir = d}
Written(r, l, d, old) == IF Drew(r, l, d) = {} THEN old ELSE (CHOOSE m \in Drew(r, l, d) : TRUE).need

Stored(r) == [g \in Items |-> IF req[r].moved[g] = 0 THEN stock[g] ELSE req[r].seen[g]]

Commit(r) ==
  /\ req[r].kind # "idle" /\ req[r].todo = <<>>
  /\ stock' = Stored(r)
  /\ net' = [g \in Items |-> net[g] + req[r].moved[g]]
  /\ stage' = [l \in Lines |-> IF Drew(r, l, -1) # {} THEN "sold"
                               ELSE IF Drew(r, l, 1) # {} THEN "voided" ELSE stage[l]]
  /\ took' = [l \in Lines |-> Written(r, l, -1, took[l])]
  /\ gave' = [l \in Lines |-> Written(r, l, 1, gave[l])]
  /\ purchase' = [p \in Purchases |-> IF p \in req[r].order THEN Received(r, p) ELSE purchase[p]]
  /\ entered' = [p \in Purchases |->
                   IF p \in req[r].order THEN [g \in Items |-> entered[p][g] + req[r].now[g]]
                                         ELSE entered[p]]
  /\ req' = [req EXCEPT ![r] = Idle]
  /\ UNCHANGED <<config, edited, count>>

-----------------------------------------------------------------------------
(* Waiting for a row, and waiting in a circle, which PostgreSQL breaks by making one of *)
(* the requests fail.                                                                   *)

Wants(r) ==
  CASE At(r, "locking") -> NextToLock(Head1(r).rem)
    [] At(r, "move")    -> Pending(Head1(r).rem)
    [] At(r, "buy")     -> Loaded(r)
    [] OTHER            -> {}

WaitsFor(r, s) == s # r /\ Wants(r) \cap req[s].held # {}

\* Everyone in C waits for someone in C, and someone in C waits for everyone.
Circle(C) == /\ C # {}
             /\ \A r \in C : (\E s \in C : WaitsFor(r, s)) /\ (\E s \in C : WaitsFor(s, r))

DeadlockVictim(r) ==
  /\ \E C \in SUBSET Requests : r \in C /\ Circle(C)
  /\ Update(r, Idle)

GoOn(r) ==
  \/ Ensure(r) \/ Lock(r) \/ Commit(r) \/ DeadlockVictim(r)
  \/ \E g \in Items : LockNext(r, g) \/ RecordMovement(r, g) \/ LoadItem(r, g) \/ BuyItem(r, g)
  \/ \E l \in Lines : Plan(r, l)

Next ==
  \/ \E r \in Requests :
       \/ \E S \in Batches : BeginSell(r, S) \/ BeginVoid(r, S)
       \/ \E l, m \in Lines : BeginReplace(r, l, m)
       \/ \E q \in Amounts : BeginBuy(r, q) \/ \E p \in Purchases : BeginReceive(r, p, q)
       \/ \E g \in Items, d \in {-1, 1} : BeginAdjust(r, g, d)
       \/ GoOn(r)
       \/ Rollback(r)
  \/ \E p \in Purchases, q \in Amounts : CreatePurchaseOrder(p, q)
  \/ \E c \in Configs : EditCatalogue(c)

Spec == Init /\ [][Next]_vars

-----------------------------------------------------------------------------
(* Properties. *)

\* The kardex explains the stock: current_stock is what the item was created with plus its
\* kardex rows (inventory_engine/stock.py:1: "variación atómica de stock"), whichever sales,
\* voids, adjustments, receptions and edits of the catalogue overlap.  Not so with "buy" out of
\* Alone: create_purchase loads the item before record_movement locks it (inventory/service.py:
\* 71), and overwrites what was committed in between.
KardexExplainsStock == \A g \in Items : stock[g] = Stock0[g] + net[g]

\* Of a line whose catalogue nobody edited meanwhile: its sale took out what the plan says,
\* which is something unless it is exempt, and its void put back exactly that
\* (orders/consumption.py: deducting and reversing share one plan).
LinesBalance ==
  \A l \in Lines \ edited :
    /\ stage[l] # "absent" => \E c \in Configs : l \in Sellable[c] /\ took[l] = Need[c][l]
    /\ stage[l] = "voided" => gave[l] = took[l]

\* What an order of purchase says it received is what its kardex rows brought in, never
\* more than was ordered, and its status follows (inventory/service.py: receive_purchase).
ReceivedIsEntered ==
  \A p \in Purchases :
    /\ purchase[p].got = entered[p]
    /\ \A g \in Items : purchase[p].got[g] <= purchase[p].qty[g]
    /\ purchase[p].status = "received" =>
         purchase[p].got = purchase[p].qty

\* What orders sent to the kitchen and receptions took and brought is what the kardex says of
\* them: no reception of a purchase enters more than was ordered, nor what it is not.
OrdersAreAccounted == LinesBalance /\ ReceivedIsEntered

\* Sales and voids that wait for their items in lock_items never wait in a circle: a circle
\* takes a replacement, a purchase, or a line whose recipe grew after its locks were taken.
OrderedLocksNoCircle ==
  \A C \in SUBSET Requests :
    Circle(C) => \E r \in C : req[r].kind = "replace" \/ ~At(r, "locking")

-----------------------------------------------------------------------------
(* The inductive invariant behind KardexExplainsStock. *)

\* A row is locked by one request at a time.
LocksExclude == \A r, s \in Requests : r # s => req[r].held \cap req[s].held = {}

\* While a direct purchase runs (it loads before it locks), nothing else does.
BuysAlone == \A r, s \in Requests : r # s /\ req[r].kind = "buy" => req[s].kind = "idle"

\* What a request will write of a row that it holds is the committed row plus its own
\* kardex rows; what it does not hold it has not changed, and only a purchase has it loaded.
WritesFresh ==
  \A r \in Requests, g \in Items :
    IF g \in req[r].held
    THEN req[r].seen[g] = stock[g] + req[r].moved[g] /\ req[r].seen[g] >= 0
    ELSE /\ req[r].moved[g] = 0
         /\ req[r].seen[g] \in {Unseen, stock[g]}
         /\ req[r].kind # "buy" => req[r].seen[g] = Unseen

\* Only a purchase has buying to do.
OnlyBuysBuy ==
  \A r \in Requests :
    /\ req[r].kind # "buy" =>
         \A i \in DOMAIN req[r].todo : req[r].todo[i].op # "buy"
    /\ req[r].kind = "idle" => req[r].todo = <<>>

IInv == TypeOK /\ LocksExclude /\ BuysAlone /\ WritesFresh /\ OnlyBuysBuy /\ KardexExplainsStock
=============================================================================
