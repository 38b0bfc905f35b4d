------------------------- MODULE OrderTransactions -------------------------
(***************************************************************************)
(* The handlers of OrderLifecycle when several requests run at once, under *)
(* READ COMMITTED.  A handler is cut where the others can get in between:  *)
(* between the statements that read its rows and the commit that writes    *)
(* them.  What it read is its snapshot, and the ORM writes the rows from   *)
(* it, whatever they have become.                                          *)
(*                                                                         *)
(* SELECT ... FOR UPDATE is what keeps the others out.  A row's lock is    *)
(* held by the requests that read it that way, until they commit or roll   *)
(* back; an UPDATE of the row, and the insertion of a row that references  *)
(* it, wait for the lock, and then write without looking again.            *)
(*                                                                         *)
(* The statements of one handler that only read are taken as one: its      *)
(* lines are read together with its order.                                 *)
(***************************************************************************)
EXTENDS OrderLifecycle

CONSTANTS
  Requests,   \* requests in flight at once
  Handlers,   \* the handlers that these requests run
  NoAttempt   \* the attempt of a request that has none

VARIABLE tx   \* tx[r]: the handler r is in, how far it is, and what it read

Ops == {"checkout", "block", "approve", "reject",
        "pay", "close", "cancel", "void", "add", "kitchen", "attempt"}

ASSUME TransactionAssumption == Handlers \subseteq Ops /\ NoAttempt \notin Attempts

\* lines: the lines it will write; back: those whose stock it will return; to: the
\* kitchen state it will set.
Idle == [op |-> "idle", step |-> "none", order |-> NoOrder, attempt |-> NoAttempt,
         lines |-> {}, back |-> {}, to |-> "pendiente"]

txVars == <<vars, tx>>

TxInit == Init /\ tx = [r \in Requests |-> Idle]

-----------------------------------------------------------------------------
(* Row locks, as the requests in flight hold them. *)

OrderLocked(o) ==
  \E r \in Requests : tx[r].step = "locked" /\ tx[r].order = o

AttemptLocked_ByApprovals(a) ==
  \E r \in Requests : tx[r].op = "approve" /\ tx[r].attempt = a
AttemptLocked(a) ==
  \E r \in Requests : tx[r].op \in {"approve", "reject"} /\ tx[r].attempt = a

\* close_session locks its session; here all the orders are of one session.
Closing == \E r \in Requests : tx[r].op = "close"

Start(r, op, step, o, a, lines, back, to) ==
  /\ op \in Handlers /\ tx[r] = Idle
  /\ tx' = [tx EXCEPT ![r] = [op |-> op, step |-> step, order |-> o, attempt |-> a,
                              lines |-> lines, back |-> back, to |-> to]]
  /\ UNCHANGED vars

-----------------------------------------------------------------------------
(* The reads.  First the handlers that lock the row they read. *)

BeginCheckout(r, o, v) ==
  /\ ~OrderLocked(o) /\ SendReads(o, v)
  /\ Start(r, "checkout", "locked", o, NoAttempt, Live(o), {}, "pendiente")

BeginBlock(r, o, v) ==
  /\ ~OrderLocked(o) /\ BlockReads(o, v)
  /\ Start(r, "block", "locked", o, NoAttempt, {}, {}, "pendiente")

\* approve_payment_attempt and confirm_cash_payment_attempt lock the attempt ...
BeginApprove(r, a) ==
  /\ ~AttemptLocked(a) /\ (ApproveReads(a) \/ CashReads(a))
  /\ Start(r, "approve", "read", attempt[a].order, a, {}, {}, "pendiente")

\* ... and then, in _confirm_order_impl, the order.
LockOrder_NoRecheck(r) ==
  /\ tx[r].op = "approve" /\ tx[r].step = "read" /\ ~OrderLocked(tx[r].order)
  /\ tx' = [tx EXCEPT ![r].step = "locked", ![r].lines = Live(tx[r].order)]
  /\ UNCHANGED vars

LockOrder(r) ==
  LET o == tx[r].order
  IN  /\ tx[r].op = "approve" /\ tx[r].step = "read"
      /\ ~OrderLocked(o) /\ ConfirmedBy(tx[r].attempt, o)
      /\ tx' = [tx EXCEPT ![r].step = "locked", ![r].lines = Live(o)]
      /\ UNCHANGED vars

BeginReject(r, a) ==
  /\ ~AttemptLocked(a) /\ RejectReads(a)
  /\ Start(r, "reject", "read", attempt[a].order, a, {}, {}, "pendiente")

\* Then those that lock nothing.
BeginPay(r, o) ==
  PayReads(o) /\ Start(r, "pay", "read", o, NoAttempt, Live(o), {}, "pendiente")

BeginClose(r, o) ==
  /\ ~Closing /\ CloseReads({o})
  /\ Start(r, "close", "read", o, NoAttempt, Live(o), {}, "pendiente")

BeginCancel(r, o) ==
  CancelReads(o) /\ Start(r, "cancel", "read", o, NoAttempt, {}, Uncooked(o), "pendiente")

BeginVoid(r, l) ==
  /\ VoidReads(l)
  /\ Start(r, "void", "read", line[l].order, NoAttempt, {l}, ToReturn(l), "anulado")

\* Two insertions never have the same id.
BeginAdd(r, o, l) ==
  /\ AddItemReads(o) /\ l \in Unsent
  /\ \A q \in Requests : tx[q].op = "add" => l \notin tx[q].lines
  /\ Start(r, "add", "read", o, NoAttempt, {l}, {}, "pendiente")

BeginKitchen(r, l, to) ==
  /\ KitchenReads(l, to)
  /\ Start(r, "kitchen", "read", line[l].order, NoAttempt, {l}, {}, to)

BeginAttempt(r, o, a) ==
  /\ AttemptReads(o) /\ a \in Untried
  /\ \A q \in Requests : tx[q].attempt # a
  /\ Start(r, "attempt", "read", o, a, {}, {}, "pendiente")

-----------------------------------------------------------------------------
(* The writes, and the commit. *)

Ends(r, op) == tx[r].op = op /\ tx' = [tx EXCEPT ![r] = Idle]

CommitCheckout(r) ==
  Ends(r, "checkout") /\ SendWrites(tx[r].order, tx[r].lines)

CommitBlock(r) == Ends(r, "block") /\ BlockWrites(tx[r].order)

CommitApprove(r) ==
  /\ Ends(r, "approve") /\ tx[r].step = "locked"
  /\ PayAttemptWrites(tx[r].attempt, tx[r].order, tx[r].lines)

CommitReject(r) == Ends(r, "reject") /\ RejectWrites(tx[r].attempt)

CommitPay(r) ==
  /\ Ends(r, "pay") /\ ~OrderLocked(tx[r].order)
  /\ PayWrites(tx[r].order, tx[r].lines)

CommitClose(r) ==
  /\ Ends(r, "close") /\ ~OrderLocked(tx[r].order)
  /\ \E split \in BOOLEAN : CloseWrites({tx[r].order}, tx[r].lines, split)

\* cancel_order reads the pending attempt at the end, and waits for its lock.
CommitCancel(r) ==
  /\ Ends(r, "cancel") /\ ~OrderLocked(tx[r].order)
  /\ \A a \in AttemptsOf(tx[r].order, "pendiente") : ~AttemptLocked(a)
  /\ CancelWrites(tx[r].order, tx[r].back)

CommitVoid(r) ==
  /\ Ends(r, "void")
  /\ \E l \in tx[r].lines : VoidWrites(l, tx[r].back)

\* The new order_items row references the order: the insertion waits for its lock.
CommitAdd(r) ==
  /\ Ends(r, "add") /\ ~OrderLocked(tx[r].order)
  /\ \E l \in tx[r].lines : AddItemWrites(tx[r].order, l)

CommitKitchen(r) ==
  /\ Ends(r, "kitchen")
  /\ \E l \in tx[r].lines : KitchenWrites(l, tx[r].to)

\* The same wait; the unique index has the last word.
CommitAttempt(r) ==
  /\ Ends(r, "attempt") /\ ~OrderLocked(tx[r].order)
  /\ \E cash \in BOOLEAN : AttemptWrites(tx[r].attempt, tx[r].order, cash)

\* The handler itself finds that it cannot go on, and rolls back: the order is no
\* longer recibida, an ingredient is short, there is nothing to charge, or the index
\* refuses the row.
Short(r) ==
  /\ tx[r].op \in {"checkout", "approve", "add"}
  /\ \E g \in Ingredients : Uses(tx[r].lines, g) > stock[g]

Refused(r) ==
  \/ /\ tx[r].op = "approve" /\ tx[r].step = "read" /\ ~OrderLocked(tx[r].order)
     /\ ~ConfirmedBy(tx[r].attempt, tx[r].order)
  \/ Short(r)
  \/ tx[r].lines = {} /\ (tx[r].step = "locked" \/ tx[r].op \in {"pay", "close"})
     /\ tx[r].op # "block"
  \/ tx[r].op = "attempt" /\ ~NoneUnderReview(tx[r].order)

Leave(r) == tx' = [tx EXCEPT ![r] = Idle] /\ UNCHANGED vars

Refuse(r) == tx[r] # Idle /\ Refused(r) /\ Leave(r)

\* A request may also be lost at any time (its connection, the whole process): the
\* database rolls it back and its locks go with it.
Crash(r) == tx[r] # Idle /\ Leave(r)

-----------------------------------------------------------------------------

Begin(r) ==
  \/ \E o \in Orders :
       \/ \E v \in Versions : BeginCheckout(r, o, v) \/ BeginBlock(r, o, v)
       \/ BeginPay(r, o) \/ BeginClose(r, o) \/ BeginCancel(r, o)
       \/ \E l \in Lines : BeginAdd(r, o, l)
       \/ \E a \in Attempts : BeginAttempt(r, o, a)
  \/ \E a \in Attempts : BeginApprove(r, a) \/ BeginReject(r, a)
  \/ \E l \in Lines : BeginVoid(r, l) \/ \E to \in Cocina : BeginKitchen(r, l, to)

Commit(r) ==
  \/ CommitCheckout(r) \/ CommitBlock(r) \/ CommitApprove(r) \/ CommitReject(r)
  \/ CommitPay(r) \/ CommitClose(r) \/ CommitCancel(r) \/ CommitVoid(r)
  \/ CommitAdd(r) \/ CommitKitchen(r) \/ CommitAttempt(r)

Progress(r) == LockOrder(r) \/ Commit(r) \/ Refuse(r)

\* Orders are born in one step: create_order and submit_cart insert rows that nobody
\* else knows yet.  The diner attaches the receipt in one step too.
Birth ==
  /\ \E o \in Orders, S \in SUBSET Lines :
       \/ \E hold, diner \in BOOLEAN : CreateOrder(o, S, hold, diner)
       \/ \E a \in Attempts, cash \in BOOLEAN :
            (\A r \in Requests : tx[r].attempt # a) /\ SubmitCart(o, S, a, cash)
  /\ UNCHANGED tx

Receipt ==
  /\ \E a \in Attempts : ~AttemptLocked(a) /\ AttachReceipt(a)
  /\ UNCHANGED tx

\* The kitchen goes on in one step, when its transitions are not among the handlers
\* that are interleaved.
Cook ==
  /\ "kitchen" \notin Handlers
  /\ \E l \in Lines, to \in Cocina : TransitionKitchen(l, to)
  /\ UNCHANGED tx

TxNext ==
  \/ Birth \/ Receipt \/ Cook
  \/ \E r \in Requests : Begin(r) \/ Progress(r) \/ Crash(r)

TxSpec == TxInit /\ [][TxNext]_txVars

\* PostgreSQL grants a row lock to its waiters in turn, so a request whose next step
\* is possible again and again takes it.
FairTxSpec == TxSpec /\ \A r \in Requests : SF_txVars(Progress(r))

-----------------------------------------------------------------------------

TxTypeOK ==
  /\ TypeOK
  /\ tx \in [Requests ->
              [op : Ops \cup {"idle"}, step : {"none", "read", "locked"},
               order : Orders \cup {NoOrder}, attempt : Attempts \cup {NoAttempt},
               lines : SUBSET Lines, back : SUBSET Lines, to : Cocina]]

\* The handlers that lock what they read are serializable: however they overlap, each
\* commit is a step of the serial OrderLifecycle, and all it promises holds.
Serializable == Spec

\* An attempt is resolved once, whoever else is at it (_load_pending_attempt_for_update:
\* "a second, almost simultaneous resolution of the same attempt has no effect").
ResolvedOnce ==
  [][\A a \in Attempts : attempt[a].status # "pendiente" =>
       attempt'[a].status = attempt[a].status]_txVars

\* The money of a confirmed attempt is in a sale, even of an order cancelled meanwhile.
ConfirmedHasSale ==
  \A a \in Attempts : attempt[a].status = "confirmado" => HasSale(attempt[a].order)

\* Nobody waits for ever: no circle of row locks, and every refusal lets its locks go.
EveryRequestEnds == \A r \in Requests : tx[r] # Idle ~> tx[r] = Idle

\* What cancel_order says of itself ("it could cancel an order already charged and
\* leave its sale orphan"), and does not ensure.
NoOrphanSale == \A o \in Orders : HasSale(o) => Status(o) # "cancelada"
=============================================================================
