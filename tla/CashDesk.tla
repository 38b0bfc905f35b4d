------------------------------ MODULE CashDesk ------------------------------
(***************************************************************************)
(* The cash desk: shifts, the sales and the manual movements that fall in  *)
(* them, the invoice numbers that build_sale takes and the numbers of the  *)
(* table orders of a shift, when several requests run at once.             *)
(*                                                                         *)
(* All the ways of charging end in sales/builder.py: build_sale, so a sale *)
(* here is what they all make: the doors of an order make one sale and     *)
(* pass no prefix, the closing of a table makes one or several in one      *)
(* transaction under the tenant's.  (The counter's own checkout is not     *)
(* here: it fails at checkout.auto_discount, where its own name hides the  *)
(* module's, before build_sale.)  Which lines are charged is the subject   *)
(* of OrderLifecycle and what they cost that of Account: here a bill is    *)
(* its amounts.                                                            *)
(*                                                                         *)
(* A request is a transaction under READ COMMITTED: every statement sees   *)
(* what is committed by then, and the locks it takes are held to its end.  *)
(* The shared locks of foreign keys are left out: they only make fewer     *)
(* interleavings.                                                          *)
(***************************************************************************)
EXTENDS Integers, FiniteSets, Sequences, SequencesExt

CONSTANTS
  Registers,   \* cash_registers
  Shifts,      \* ids of cash_shifts, numbers: they are opened in their order
  Requests,    \* requests in flight at once
  InvoicePrefixes,    \* invoice prefixes: the tenant's, and "" for the doors that pass none
  Openings,    \* amounts a shift is opened with
  Accounts,    \* what one request charges: sequences of bills with their payments
  Moves,       \* manual movements, with their sign: ingreso above zero, egreso and retiro below
  Counts,      \* amounts counted at a close
  Alone,       \* kinds of request that this instance does not let overlap others
  MaxSales, MaxOrders, MaxMoves   \* bounds of the instance

Kinds == {"sale", "order", "move", "close"}

\* A bill with its payments, apart: what is cash and what is not.
Money == 0..20
BillRow == [subtotal : Money, discount : Money, extra : Money, cash : Money, other : Money]

NoCount == -1

ShiftStatuses == {"absent", "open", "closed"}
ShiftRow == [status : ShiftStatuses, register : Registers, opening : Money,
             counted : Money \cup {NoCount}, noted : BOOLEAN]
SaleRow  == [shift : Shifts, total : Int, cash : Money, change : Int,
             prefix : InvoicePrefixes, number : Nat]

VARIABLES
  shift,    \* cash_shifts
  sales,    \* sales with their payments and invoices, in the order they commit
  counter,  \* invoice_counters.next_number; 0: no row of that prefix yet
  turn,     \* turn[s]: numbers of the table orders of shift s, in the order they commit
  moves,    \* moves[s]: manual movements of the shift, in the order they commit
  drawer,   \* drawer[s]: cash that is really in the drawer
  req       \* the requests in flight

vars == <<shift, sales, counter, turn, moves, drawer, req>>

RequestRow ==
  [kind : Kinds \cup {"idle"}, stage : {"start", "insert", "change", "moves", "done"},
   shift : Shifts \cup {0}, prefix : InvoicePrefixes, bills : Seq(BillRow), built : Seq(SaleRow),
   next : Nat, seen : SUBSET Shifts, amount : Int, counted : Money \cup {NoCount},
   noted : BOOLEAN]

TypeOK ==
  /\ shift \in [Shifts -> ShiftRow]
  /\ sales \in Seq(SaleRow)
  /\ counter \in [InvoicePrefixes -> Nat]
  /\ turn \in [Shifts -> Seq(Nat)]
  /\ moves \in [Shifts -> Seq(Int)]
  /\ drawer \in [Shifts -> Int]
  /\ req \in [Requests -> RequestRow]

Idle == [kind |-> "idle", stage |-> "start", shift |-> 0,
         prefix |-> CHOOSE x \in InvoicePrefixes : TRUE, bills |-> <<>>, built |-> <<>>, next |-> 0,
         seen |-> {}, amount |-> 0, counted |-> NoCount, noted |-> FALSE]

Init ==
  /\ shift = [s \in Shifts |-> [status |-> "absent", register |-> CHOOSE c \in Registers : TRUE,
                                opening |-> 0, counted |-> NoCount, noted |-> FALSE]]
  /\ sales = <<>>
  /\ counter = [x \in InvoicePrefixes |-> 0]
  /\ turn = [s \in Shifts |-> <<>>]
  /\ moves = [s \in Shifts |-> <<>>]
  /\ drawer = [s \in Shifts |-> 0]
  /\ req = [r \in Requests |-> Idle]

-----------------------------------------------------------------------------
(* Sums over what is committed. *)

SumOf(f(_), sq) == FoldLeft(LAMBDA acc, e : acc + f(e), 0, sq)

SalesOf(s)  == SelectSeq(sales, LAMBDA e : e.shift = s)
CashOf(s)   == SumOf(LAMBDA e : e.cash, SalesOf(s))
ChangeOf(s) == SumOf(LAMBDA e : e.change, SalesOf(s))
MovesOf(s)  == SumOf(LAMBDA m : m, moves[s])

\* get_open_shift and its partial unique index: one open shift per register.
OpenAt(c) == {s \in Shifts : shift[s].status = "open" /\ shift[s].register = c}

OpenShift(s, c, a) ==
  /\ shift[s].status = "absent" /\ \A t \in Shifts : t < s => shift[t].status # "absent"
  /\ OpenAt(c) = {}
  /\ shift' = [shift EXCEPT ![s] = [@ EXCEPT !.status = "open", !.register = c, !.opening = a]]
  /\ drawer' = [drawer EXCEPT ![s] = a]
  /\ UNCHANGED <<sales, counter, turn, moves, req>>

-----------------------------------------------------------------------------
(* Requests. *)

MayStart(kind) ==
  \A q \in Requests : \/ req[q].kind = "idle"
                      \/ kind \notin Alone /\ req[q].kind \notin Alone

Begin(r, row) ==
  /\ req[r] = Idle /\ MayStart(row.kind)
  /\ req' = [req EXCEPT ![r] = row]
  /\ UNCHANGED <<shift, sales, counter, turn, moves, drawer>>

Update(r, row) ==
  /\ req' = [req EXCEPT ![r] = row]
  /\ UNCHANGED <<shift, sales, counter, turn, moves, drawer>>

Rollback(r) == req[r] # Idle /\ Update(r, Idle)

\* A table order holds its shift's row FOR UPDATE once it has its number.
HoldsTurn(q, s) == req[q].kind = "order" /\ req[q].stage = "done" /\ req[q].shift = s
TurnFree_NoLock(r, s) == TRUE
TurnFree(r, s) == \A q \in Requests \ {r} : ~HoldsTurn(q, s)

\* A sale holds the counter of its prefix once it has a number.
HoldsCounter(q, x) == req[q].kind = "sale" /\ req[q].built # <<>> /\ req[q].prefix = x
CounterFree_NoLock(r, x) == TRUE
CounterFree(r, x) == \A q \in Requests \ {r} : ~HoldsCounter(q, x)

-----------------------------------------------------------------------------
(* Sales: ensure_open_shift reads the shift without a lock. *)

BeginSale(r, s, x, bills) ==
  /\ shift[s].status = "open" /\ bills # <<>>
  /\ Len(sales) + Len(bills) <= MaxSales
  /\ Begin(r, [Idle EXCEPT !.kind = "sale", !.shift = s, !.prefix = x, !.bills = bills])

\* compute_total.
Total(b) == b.subtotal - b.discount + b.extra

\* build_sale refuses a negative total, a payment that does not cover it, and payments
\* other than cash above it: the change can only come from cash.
Accepted(b) == Total(b) >= 0 /\ b.cash + b.other >= Total(b) /\ b.other <= Total(b)

Built(r, n) ==
  LET b == Head(req[r].bills)
  IN  [shift |-> req[r].shift, total |-> Total(b), cash |-> b.cash,
       change |-> b.cash + b.other - Total(b), prefix |-> req[r].prefix, number |-> n]

Numbered(r, n) ==
  [req[r] EXCEPT !.built = Append(@, Built(r, n)), !.bills = Tail(@), !.next = n + 1,
                 !.stage = "start"]

\* build_sale of the next bill, up to issue_for_sale: _next_number locks the counter of the
\* prefix, which may not be there yet.
BuildSale(r) ==
  /\ req[r].kind = "sale" /\ req[r].stage = "start" /\ req[r].bills # <<>>
  /\ LET x == req[r].prefix
     IN  CASE ~Accepted(Head(req[r].bills)) -> Update(r, Idle)
           [] req[r].built # <<>>           -> Update(r, Numbered(r, req[r].next))
           [] OTHER -> IF counter[x] = 0
                       THEN Update(r, [req[r] EXCEPT !.stage = "insert"])
                       ELSE CounterFree(r, x) /\ Update(r, Numbered(r, counter[x]))

\* The first counter of a prefix: whoever inserts it second waits, and then fails.
InsertCounter(r) ==
  /\ req[r].kind = "sale" /\ req[r].stage = "insert"
  /\ CounterFree(r, req[r].prefix)
  /\ Update(r, IF counter[req[r].prefix] = 0 THEN Numbered(r, 1) ELSE Idle)

NewCash(r, s) ==
  SumOf(LAMBDA e : IF e.shift = s THEN e.cash - e.change ELSE 0, req[r].built)

CommitSale(r) ==
  /\ req[r].kind = "sale" /\ req[r].bills = <<>>
  /\ sales' = sales \o req[r].built
  /\ counter' = [counter EXCEPT ![req[r].prefix] = req[r].next]
  /\ drawer' = [s \in Shifts |-> drawer[s] + NewCash(r, s)]
  /\ req' = [req EXCEPT ![r] = Idle]
  /\ UNCHANGED <<shift, turn, moves>>

-----------------------------------------------------------------------------
(* Table orders: resolve_dine_in_table_order. *)

Open == {s \in Shifts : shift[s].status = "open"}
Orders == SumOf(LAMBDA s : Len(turn[s]), SetToSeq(Shifts))

BeginOrder(r) ==
  /\ Orders < MaxOrders
  /\ Begin(r, [Idle EXCEPT !.kind = "order", !.seen = Open])

\* The shift last opened of those the statement saw, if it is still open when its lock is
\* granted, and the next number in it.
Latest(S) == {s \in S : \A t \in S : t <= s}

LockTurn(r) ==
  /\ req[r].kind = "order" /\ req[r].stage = "start"
  /\ IF req[r].seen = {}
     THEN Update(r, Idle)
     ELSE \E s \in Latest(req[r].seen) :
            /\ TurnFree(r, s)
            /\ Update(r, IF shift[s].status = "open"
                         THEN [req[r] EXCEPT !.stage = "done", !.shift = s,
                                             !.next = Len(turn[s]) + 1]
                         ELSE [req[r] EXCEPT !.seen = @ \ {s}])

CommitOrder(r) ==
  /\ req[r].kind = "order" /\ req[r].stage = "done"
  /\ turn' = [turn EXCEPT ![req[r].shift] = Append(@, req[r].next)]
  /\ req' = [req EXCEPT ![r] = Idle]
  /\ UNCHANGED <<shift, sales, counter, moves, drawer>>

-----------------------------------------------------------------------------
(* Manual movements, and the close. *)

BeginMove(r, s, m) ==
  /\ shift[s].status = "open" /\ SumOf(LAMBDA t : Len(moves[t]), SetToSeq(Shifts)) < MaxMoves
  /\ Begin(r, [Idle EXCEPT !.kind = "move", !.shift = s, !.amount = m])

CommitMove(r) ==
  /\ req[r].kind = "move"
  /\ moves' = [moves EXCEPT ![req[r].shift] = Append(@, req[r].amount)]
  /\ drawer' = [drawer EXCEPT ![req[r].shift] = @ + req[r].amount]
  /\ req' = [req EXCEPT ![r] = Idle]
  /\ UNCHANGED <<shift, sales, counter, turn>>

\* close_shift reads the shift without a lock; what is counted may be left out.
BeginClose(r, s, c, noted) ==
  /\ shift[s].status = "open"
  /\ Begin(r, [Idle EXCEPT !.kind = "close", !.shift = s, !.counted = c, !.noted = noted,
                           !.amount = shift[s].opening,
                           !.stage = IF c = NoCount THEN "done" ELSE "start"])

\* reconcile: three statements, each with its own snapshot.
SumPayments(r) ==
  /\ req[r].kind = "close" /\ req[r].stage = "start"
  /\ Update(r, [req[r] EXCEPT !.stage = "change", !.amount = @ + CashOf(req[r].shift)])

LessChange_Gross(r) == req[r].amount
LessChange(r) == req[r].amount - ChangeOf(req[r].shift)

SumChange(r) ==
  /\ req[r].kind = "close" /\ req[r].stage = "change"
  /\ Update(r, [req[r] EXCEPT !.stage = "moves", !.amount = LessChange(r)])

SumMoves(r) ==
  /\ req[r].kind = "close" /\ req[r].stage = "moves"
  /\ LET expected == req[r].amount + MovesOf(req[r].shift)
     IN  Update(r, IF req[r].counted = expected \/ req[r].noted
                   THEN [req[r] EXCEPT !.stage = "done", !.amount = expected]
                   ELSE Idle)

CommitClose(r) ==
  /\ req[r].kind = "close" /\ req[r].stage = "done"
  /\ TurnFree(r, req[r].shift)
  /\ shift' = [shift EXCEPT ![req[r].shift] =
                 [@ EXCEPT !.status = "closed", !.counted = req[r].counted, !.noted = req[r].noted]]
  /\ req' = [req EXCEPT ![r] = Idle]
  /\ UNCHANGED <<sales, counter, turn, moves, drawer>>

\* reconcile of a shift that nobody touches any more, and the difference that list_shifts
\* shows of it.
Expected_Gross(s) == shift[s].opening + CashOf(s) + MovesOf(s)
Expected(s) == shift[s].opening + (CashOf(s) - ChangeOf(s)) + MovesOf(s)
Difference(s) == shift[s].counted - Expected(s)

Next ==
  \/ \E s \in Shifts, c \in Registers, a \in Openings : OpenShift(s, c, a)
  \/ \E r \in Requests :
       \/ \E s \in Shifts :
            \/ \E x \in InvoicePrefixes, bills \in Accounts : BeginSale(r, s, x, bills)
            \/ \E m \in Moves : BeginMove(r, s, m)
            \/ \E c \in Counts \cup {NoCount}, noted \in BOOLEAN : BeginClose(r, s, c, noted)
       \/ BuildSale(r) \/ InsertCounter(r) \/ CommitSale(r)
       \/ BeginOrder(r) \/ LockTurn(r) \/ CommitOrder(r)
       \/ CommitMove(r)
       \/ SumPayments(r) \/ SumChange(r) \/ SumMoves(r) \/ CommitClose(r)
       \/ Rollback(r)

Spec == Init /\ [][Next]_vars

-----------------------------------------------------------------------------
(* Properties. *)

Issued(x) == {i \in DOMAIN sales : sales[i].prefix = x}

\* Invoices of a prefix are numbered in the order their sales commit, with no number twice and
\* none missing below the counter, whatever rolls back and whoever creates the counter
\* (invoices/service.py: "un consecutivo sin huecos").
InvoicesInOrder ==
  \A x \in InvoicePrefixes :
    /\ \A i, j \in Issued(x) : i < j => sales[i].number < sales[j].number
    /\ {sales[i].number : i \in Issued(x)} = 1 .. counter[x] - 1

\* Table orders of a shift are numbered 1, 2, 3, and the number that an order has counted is
\* still free when it commits (cash/service.py: the lock serialises count and assignment).
TurnInOrder ==
  /\ \A s \in Shifts : \A i \in DOMAIN turn[s] : turn[s][i] = i
  /\ \A r \in Requests, s \in Shifts : HoldsTurn(r, s) =>
       shift[s].status = "open" /\ req[r].next = Len(turn[s]) + 1

\* When closes do not overlap other requests, a shift that was closed with a count and
\* without a note holds in its drawer exactly what was counted, and no difference ever shows
\* in the list of shifts, which reckons it anew (cash/router.py: a difference demands a
\* close_note).
ClosedIsExplained ==
  \A s \in Shifts :
    shift[s].status = "closed" /\ shift[s].counted # NoCount /\ ~shift[s].noted =>
      drawer[s] = shift[s].counted /\ Difference(s) = 0
-----------------------------------------------------------------------------
(* The inductive invariant of the numbers: what a request has numbered goes on from what is
   committed, because it alone holds the counter, or the shift's turn. *)

First(x) == IF counter[x] = 0 THEN 1 ELSE counter[x]

SaleFits(k) ==
  k.kind = "sale" =>
    /\ k.shift \in Shifts /\ k.prefix \in InvoicePrefixes /\ k.stage \in {"start", "insert"}
    /\ k.bills \in Seq(BillRow) /\ k.built \in Seq(SaleRow)
    /\ k.built = <<>> => k.bills # <<>>
    /\ k.built # <<>> => k.stage = "start" /\ k.next = First(k.prefix) + Len(k.built)
    /\ \A i \in DOMAIN k.built : /\ k.built[i].prefix = k.prefix
                                 /\ k.built[i].number = First(k.prefix) + i - 1

OrderFits(k) ==
  k.kind = "order" =>
    k.seen \subseteq Shifts /\ (k.stage = "done" => k.shift \in Shifts)

OneHolder ==
  \A p, q \in Requests :
    \/ p = q
    \/ /\ \A x \in InvoicePrefixes : ~(HoldsCounter(p, x) /\ HoldsCounter(q, x))
       /\ \A s \in Shifts : ~(HoldsTurn(p, s) /\ HoldsTurn(q, s))

\* A bill is of whole amounts.
Billed == Accounts \subseteq Seq(BillRow)

NumberTypes ==
  /\ DOMAIN shift = Shifts
  /\ sales \in Seq(SaleRow)
  /\ counter \in [InvoicePrefixes -> Nat]
  /\ turn \in [Shifts -> Seq(Nat)]
  /\ req = [r \in Requests |-> req[r]]

IInv ==
  /\ NumberTypes
  /\ \A r \in Requests : DOMAIN req[r] = DOMAIN Idle /\ SaleFits(req[r]) /\ OrderFits(req[r])
  /\ OneHolder
  /\ InvoicesInOrder /\ TurnInOrder
=============================================================================
