------------------------ MODULE OrderTransactionsProofs ------------------------
(***************************************************************************)
(* Theorems about OrderTransactions, for every set of requests in flight.  *)
(***************************************************************************)
EXTENDS OrderTransactions, OrderLifecycleProofs

(* A request under way has the order it read, and it is a row. *)
Linked == \A r \in Requests : tx[r].op # "idle" => tx[r].order \in Orders

(* Types: whatever overlaps, the rows keep theirs, and the stock stays positive. *)
LEMMA StartType ==
  ASSUME TxTypeOK, Linked, NEW r \in Requests, NEW op, NEW step \in {"read", "locked"},
         NEW o \in Orders, NEW a \in Attempts \cup {NoAttempt},
         NEW L \in SUBSET Lines, NEW back \in SUBSET Lines, NEW to \in Cocina,
         Start(r, op, step, o, a, L, back, to)
  PROVE  TxTypeOK' /\ Linked'
<1>1. op \in Ops
  BY TransactionAssumption DEF Start
<1>2. TypeOK'
  BY DEF TxTypeOK, TypeOK, Start, vars
<1> QED
  BY <1>1, <1>2 DEF TxTypeOK, Linked, Start

LEMMA IdleType ==
  ASSUME TxTypeOK, Linked, TypeOK', NEW r \in Requests, tx' = [tx EXCEPT ![r] = Idle]
  PROVE  TxTypeOK' /\ Linked'
BY DEF TxTypeOK, Linked, Idle, Cocina

LEMMA BeginType ==
  ASSUME TxTypeOK, Linked, NEW r \in Requests, Begin(r)
  PROVE  TxTypeOK' /\ Linked'
<1> USE DEF Cocina
<1>0. /\ \A l \in Lines : line[l].order # NoOrder => line[l].order \in Orders
      /\ \A a \in Attempts : attempt[a].order # NoOrder => attempt[a].order \in Orders
  BY DEF TxTypeOK, TypeOK, LineRow, AttemptRow
<1>1. ASSUME NEW o \in Orders, NEW v \in Versions,
             BeginCheckout(r, o, v) \/ BeginBlock(r, o, v)
      PROVE  TxTypeOK' /\ Linked'
  BY <1>1, StartType DEF BeginCheckout, BeginBlock, Live, LinesOf
<1>2. ASSUME NEW o \in Orders, BeginPay(r, o) \/ BeginClose(r, o)
      PROVE  TxTypeOK' /\ Linked'
  BY <1>2, StartType DEF BeginPay, BeginClose, Live, LinesOf
<1>3. ASSUME NEW o \in Orders, BeginCancel(r, o) PROVE TxTypeOK' /\ Linked'
  BY <1>3, StartType DEF BeginCancel, Uncooked, Unstarted, LinesOf
<1>4. ASSUME NEW o \in Orders, NEW l \in Lines, BeginAdd(r, o, l)
      PROVE  TxTypeOK' /\ Linked'
  BY <1>4, StartType DEF BeginAdd
<1>5. ASSUME NEW o \in Orders, NEW a \in Attempts, BeginAttempt(r, o, a)
      PROVE  TxTypeOK' /\ Linked'
  BY <1>5, StartType DEF BeginAttempt
<1>6. ASSUME NEW a \in Attempts, BeginApprove(r, a) \/ BeginReject(r, a)
      PROVE  TxTypeOK' /\ Linked'
  <2>1. attempt[a].order \in Orders
    BY <1>0, <1>6 DEF BeginApprove, BeginReject, ApproveReads, CashReads, RejectReads,
                      Pendiente
  <2> QED
    BY <1>6, <2>1, StartType DEF BeginApprove, BeginReject
<1>7. ASSUME NEW l \in Lines, BeginVoid(r, l) PROVE TxTypeOK' /\ Linked'
  <2>1. line[l].order \in Orders /\ ToReturn(l) \in SUBSET Lines
    BY <1>0, <1>7 DEF BeginVoid, VoidReads, InPlay, ToReturn
  <2> QED
    BY <1>7, <2>1, StartType DEF BeginVoid
<1>8. ASSUME NEW l \in Lines, NEW to \in Cocina, BeginKitchen(r, l, to)
      PROVE  TxTypeOK' /\ Linked'
  <2>1. line[l].order \in Orders
    BY <1>0, <1>8 DEF BeginKitchen, KitchenReads
  <2> QED
    BY <1>8, <2>1, StartType DEF BeginKitchen
<1> QED
  BY <1>1, <1>2, <1>3, <1>4, <1>5, <1>6, <1>7, <1>8 DEF Begin

LEMMA CommitType ==
  ASSUME TxTypeOK, Linked, NEW r \in Requests, Commit(r)
  PROVE  TypeOK' /\ tx' = [tx EXCEPT ![r] = Idle]
<1> USE DEF saleVars, stockVars, Statuses, Ends
<1> DEFINE o == tx[r].order
           S == tx[r].lines
<1>0. /\ TypeOK /\ S \in SUBSET Lines /\ {} \in SUBSET Lines
      /\ tx[r].back \in SUBSET Lines /\ tx[r].attempt \in Attempts \cup {NoAttempt}
      /\ tx[r].op # "idle" => o \in Orders /\ {o} \in SUBSET Orders
  BY DEF TxTypeOK, Linked
<1> HIDE DEF o, S
<1>1. ASSUME o \in Orders, {o} \in SUBSET Orders, ChargeAndSend(o, S)
      PROVE  /\ order' \in [Orders -> OrderRow] /\ line' \in [Lines -> LineRow]
             /\ billed' \in [Lines -> Nat] /\ saleOf' \in [Orders -> Nat]
             /\ stock' \in [Ingredients -> Nat]
             /\ taken' \in [Lines -> Nat] /\ returned' \in [Lines -> Nat]
  BY <1>0, <1>1, RowTypes, SaleType, MoveStockType DEF ChargeAndSend, Deduct, TypeOK
<1>2. CASE CommitCheckout(r)
  BY <1>0, <1>1, <1>2 DEF CommitCheckout, SendWrites, TypeOK, o, S
<1>3. CASE CommitBlock(r)
  BY <1>0, <1>3, RowTypes DEF CommitBlock, BlockWrites, TypeOK, o
<1>4. CASE CommitApprove(r)
  <2>1. attempt' \in [Attempts -> AttemptRow]
    BY <1>0, <1>4 DEF CommitApprove, PayAttemptWrites, Resolve, TypeOK, AttemptRow
  <2> QED
    BY <1>0, <1>1, <1>4, <2>1 DEF CommitApprove, PayAttemptWrites, TypeOK, o, S
<1>5. CASE CommitReject(r)
  <2>1. attempt' \in [Attempts -> AttemptRow]
    BY <1>0, <1>5 DEF CommitReject, RejectWrites, Resolve, TypeOK, AttemptRow
  <2> QED
    BY <1>0, <1>5, <2>1 DEF CommitReject, RejectWrites, TypeOK
<1>6. CASE CommitPay(r)
  BY <1>0, <1>6, RowTypes, SaleType DEF CommitPay, PayWrites, TypeOK, o, S
<1>7. CASE CommitClose(r)
  <2>1. PICK split \in BOOLEAN : CloseWrites({o}, S, split)
    BY <1>7 DEF CommitClose, o, S
  <2> DEFINE refs == IF Cardinality({o}) = 1 /\ ~split THEN {o} ELSE {}
  <2>2. refs \in SUBSET Orders /\ BuildSale(S, refs)
    BY <1>0, <1>7, <2>1 DEF CloseWrites, CommitClose
  <2>3. order' \in [Orders -> OrderRow]
    BY <1>0, <2>1 DEF CloseWrites, TypeOK, OrderRow
  <2> HIDE DEF refs
  <2> QED
    BY <1>0, <1>7, <2>1, <2>2, <2>3, SaleType DEF CommitClose, CloseWrites, TypeOK
<1>8. CASE CommitCancel(r)
  <2>1. AttemptsOf(o, "pendiente") \in SUBSET Attempts
    BY DEF AttemptsOf
  <2> QED
    BY <1>0, <1>8, <2>1, RowTypes, MoveStockType, ResolveType
    DEF CommitCancel, CancelWrites, Reverse, TypeOK, o
<1>9. CASE CommitVoid(r)
  <2>1. PICK l \in Lines : VoidWrites(l, tx[r].back)
    BY <1>0, <1>9 DEF CommitVoid, S
  <2>2. {l} \in SUBSET Lines /\ "anulado" \in Cocina
    BY DEF Cocina
  <2> QED
    BY <1>0, <1>9, <2>1, <2>2, CocinaType, MoveStockType
    DEF CommitVoid, VoidWrites, Reverse, TypeOK
<1>10. CASE CommitAdd(r)
  <2>1. PICK l \in Lines : AddItemWrites(o, l)
    BY <1>0, <1>10 DEF CommitAdd, o, S
  <2>2. {l} \in SUBSET Lines
    OBVIOUS
  <2> QED
    BY <1>0, <1>10, <2>1, <2>2, RowTypes, MoveStockType
    DEF CommitAdd, AddItemWrites, Deduct, TypeOK
<1>11. CASE CommitKitchen(r)
  <2>1. PICK l \in Lines : KitchenWrites(l, tx[r].to)
    BY <1>0, <1>11 DEF CommitKitchen, S
  <2>2. {l} \in SUBSET Lines /\ tx[r].to \in Cocina
    BY DEF TxTypeOK
  <2> QED
    BY <1>0, <1>11, <2>1, <2>2, CocinaType DEF CommitKitchen, KitchenWrites, TypeOK
<1>12. CASE CommitAttempt(r)
  <2>1. PICK cash \in BOOLEAN : AttemptWrites(tx[r].attempt, o, cash)
    BY <1>12 DEF CommitAttempt, o
  <2>2. [order |-> o, status |-> "pendiente", cash |-> cash, receipt |-> FALSE]
          \in AttemptRow
    BY <1>0, <1>12 DEF AttemptRow, CommitAttempt
  <2>3. attempt' \in [Attempts -> AttemptRow]
    BY <1>0, <2>1, <2>2 DEF AttemptWrites, AttemptInsert, TypeOK
  <2> QED
    BY <1>0, <1>12, <2>1, <2>3 DEF CommitAttempt, AttemptWrites, AttemptInsert, TypeOK
<1> QED
  BY <1>2, <1>3, <1>4, <1>5, <1>6, <1>7, <1>8, <1>9, <1>10, <1>11, <1>12
  DEF Commit, CommitCheckout, CommitBlock, CommitApprove, CommitReject, CommitPay,
      CommitClose, CommitCancel, CommitVoid, CommitAdd, CommitKitchen, CommitAttempt

LEMMA TypeKept ==
  ASSUME TxTypeOK, Linked, [TxNext]_txVars
  PROVE  TxTypeOK' /\ Linked'
<1>1. TypeOK
  BY DEF TxTypeOK
<1>2. ASSUME Next, UNCHANGED tx PROVE TxTypeOK' /\ Linked'
  <2>1. TypeOK'
    BY <1>1, <1>2, TypeStep
  <2> QED
    BY <1>2, <2>1 DEF TxTypeOK, Linked
<1>3. CASE Birth \/ Receipt \/ Cook
  BY <1>2, <1>3 DEF Birth, Receipt, Cook, Next, NextOrder, NextAttempt, NextLine
<1>4. ASSUME NEW r \in Requests, LockOrder(r) PROVE TxTypeOK' /\ Linked'
  <2>1. Live(tx[r].order) \in SUBSET Lines
    BY DEF Live, LinesOf
  <2>2. TypeOK'
    BY <1>1, <1>4 DEF LockOrder, vars, TypeOK
  <2>3. tx' = [tx EXCEPT ![r] = [tx[r] EXCEPT !.step = "locked", !.lines = Live(tx[r].order)]]
    BY <1>4 DEF LockOrder
  <2>4. /\ tx[r] \in [op : Ops \cup {"idle"}, step : {"none", "read", "locked"},
                      order : Orders \cup {NoOrder}, attempt : Attempts \cup {NoAttempt},
                      lines : SUBSET Lines, back : SUBSET Lines, to : Cocina]
        /\ tx[r].order \in Orders \/ tx[r].op = "idle"
    BY DEF TxTypeOK, Linked
  <2> QED
    BY <2>1, <2>2, <2>3, <2>4 DEF TxTypeOK, Linked
<1>5. ASSUME NEW r \in Requests, Refuse(r) \/ Crash(r) PROVE TxTypeOK' /\ Linked'
  <2>1. TypeOK'
    BY <1>1, <1>5 DEF Refuse, Crash, Leave, vars, TypeOK
  <2> QED
    BY <1>5, <2>1, IdleType DEF Refuse, Crash, Leave
<1>6. ASSUME NEW r \in Requests, Commit(r) PROVE TxTypeOK' /\ Linked'
  BY <1>6, CommitType, IdleType
<1>7. CASE UNCHANGED txVars
  BY <1>7 DEF txVars, vars, TxTypeOK, TypeOK, Linked
<1> QED
  BY <1>3, <1>4, <1>5, <1>6, <1>7, BeginType DEF TxNext, Progress

(* However the requests overlap, crash and write from what they read before, rows *)
(* keep their types and no ingredient's stock goes below zero.                    *)
THEOREM TxTypeCorrect == TxSpec => []TxTypeOK
<1>1. TxInit => TxTypeOK /\ Linked
  BY TypeInit DEF TxInit, TxTypeOK, Linked, Idle, Cocina
<1>2. TxTypeOK /\ Linked /\ [TxNext]_txVars => TxTypeOK' /\ Linked'
  BY TypeKept
<1> QED
  BY <1>1, <1>2, PTL DEF TxSpec

-----------------------------------------------------------------------------
(* Attempts are resolved under their lock, which one request holds at a time. *)

Reviewing == {"approve", "reject"}

Reviewed ==
  /\ \A a \in Attempts : attempt[a].order = NoOrder => attempt[a].status = "pendiente"
  /\ \A r \in Requests : tx[r].op \in Reviewing =>
       /\ tx[r].attempt \in Attempts
       /\ attempt[tx[r].attempt].order = tx[r].order
       /\ attempt[tx[r].attempt].status = "pendiente"
  /\ \A r, q \in Requests :
       /\ tx[r].op \in Reviewing /\ tx[q].op \in Reviewing
       /\ tx[r].attempt = tx[q].attempt
       => r = q

\* What one step may do to the attempts.
ResolvesOnce ==
  \A a \in Attempts : attempt[a].status # "pendiente" =>
    attempt'[a].status = attempt[a].status

(* The requests that go on find their attempts as they left them. *)
LEMMA ReviewFrame ==
  ASSUME Reviewed,
         \A q \in Requests : tx'[q].op \in Reviewing =>
           /\ tx[q].op = tx'[q].op /\ tx[q].attempt = tx'[q].attempt
           /\ tx[q].order = tx'[q].order
           /\ attempt'[tx[q].attempt].order = attempt[tx[q].attempt].order
           /\ attempt'[tx[q].attempt].status = attempt[tx[q].attempt].status,
         \A a \in Attempts : attempt'[a].order = NoOrder =>
           attempt[a].order = NoOrder /\ attempt'[a].status = attempt[a].status
  PROVE  Reviewed'
BY DEF Reviewed

(* A request that starts is in the handler that started it, and no other moves. *)
LEMMA StartRow ==
  ASSUME TxTypeOK, NEW r \in Requests, NEW op, NEW step, NEW o, NEW a, NEW L, NEW back,
         NEW to, Start(r, op, step, o, a, L, back, to)
  PROVE  /\ tx'[r] = [op |-> op, step |-> step, order |-> o, attempt |-> a,
                      lines |-> L, back |-> back, to |-> to]
         /\ tx'[r].op = op
         /\ \A q \in Requests \ {r} : tx'[q] = tx[q]
BY DEF Start, TxTypeOK

LEMMA ReviewBegins ==
  ASSUME TxTypeOK, Linked, Reviewed, NEW r \in Requests, Begin(r)
  PROVE  Reviewed'
<1>1. attempt' = attempt /\ \A q \in Requests \ {r} : tx'[q] = tx[q]
  BY DEF Begin, BeginCheckout, BeginBlock, BeginApprove, BeginReject, BeginPay, BeginClose,
         BeginCancel, BeginVoid, BeginAdd, BeginKitchen, BeginAttempt, Start, vars, TxTypeOK
<1>2. CASE tx'[r].op \notin Reviewing
  BY <1>1, <1>2, ReviewFrame
<1>3. ASSUME NEW a \in Attempts, BeginApprove(r, a) \/ BeginReject(r, a) PROVE Reviewed'
  <2>1. /\ tx'[r].op \in Reviewing /\ tx'[r].attempt = a
        /\ tx'[r].order = attempt[a].order
        /\ attempt[a].status = "pendiente"
    BY <1>3 DEF BeginApprove, BeginReject, Start, TxTypeOK, Reviewing, ApproveReads,
                CashReads, RejectReads, Pendiente
  <2>2. \A q \in Requests : tx[q].op \in Reviewing => tx[q].attempt # a
    BY <1>3 DEF BeginApprove, BeginReject, AttemptLocked, Reviewing
  <2> QED
    BY <1>1, <2>1, <2>2 DEF Reviewed
<1>4. CASE tx'[r].op \in Reviewing
  <2>1. ASSUME NEW op \in Ops \ Reviewing, NEW step, NEW o, NEW a, NEW L, NEW back, NEW to,
               Start(r, op, step, o, a, L, back, to)
        PROVE  FALSE
    BY <1>4, <2>1, StartRow
  <2>2. {"checkout", "block", "pay", "close", "cancel", "void", "add", "kitchen", "attempt"}
          \subseteq Ops \ Reviewing
    BY DEF Ops, Reviewing
  <2> HIDE <1>4
  <2>3. ASSUME NEW o \in Orders, NEW v \in Versions,
               BeginCheckout(r, o, v) \/ BeginBlock(r, o, v)
        PROVE  FALSE
    BY <2>1, <2>2, <2>3 DEF BeginCheckout, BeginBlock
  <2>4. ASSUME NEW o \in Orders, BeginPay(r, o) \/ BeginClose(r, o) \/ BeginCancel(r, o)
        PROVE  FALSE
    BY <2>1, <2>2, <2>4 DEF BeginPay, BeginClose, BeginCancel
  <2>5. ASSUME NEW o \in Orders, NEW l \in Lines, BeginAdd(r, o, l) PROVE FALSE
    BY <2>1, <2>2, <2>5 DEF BeginAdd
  <2>6. ASSUME NEW o \in Orders, NEW a \in Attempts, BeginAttempt(r, o, a) PROVE FALSE
    BY <2>1, <2>2, <2>6 DEF BeginAttempt
  <2>7. ASSUME NEW l \in Lines, BeginVoid(r, l) PROVE FALSE
    BY <2>1, <2>2, <2>7 DEF BeginVoid
  <2>8. ASSUME NEW l \in Lines, NEW to \in Cocina, BeginKitchen(r, l, to) PROVE FALSE
    BY <2>1, <2>2, <2>8 DEF BeginKitchen
  <2> QED
    BY <1>3, <2>3, <2>4, <2>5, <2>6, <2>7, <2>8 DEF Begin
<1> QED
  BY <1>2, <1>4

LEMMA ReviewCommits ==
  ASSUME TxTypeOK, Linked, Reviewed, NEW r \in Requests, Commit(r)
  PROVE  ResolvesOnce /\ Reviewed'
<1> USE DEF ResolvesOnce
<1>0. /\ attempt \in [Attempts -> AttemptRow]
      /\ tx' = [tx EXCEPT ![r] = Idle] /\ tx[r].op # "idle"
      /\ \A q \in Requests : tx'[q] = IF q = r THEN Idle ELSE tx[q]
      /\ NoOrder \notin Orders /\ tx[r].order \in Orders
  BY CommitType, LifecycleAssumption
  DEF TxTypeOK, TypeOK, Commit, CommitCheckout, CommitBlock, CommitApprove, CommitReject,
      CommitPay, CommitClose, CommitCancel, CommitVoid, CommitAdd, CommitKitchen,
      CommitAttempt, Ends, Linked
<1>1. \A q \in Requests : tx'[q].op \in Reviewing => q # r /\ tx'[q] = tx[q]
  BY <1>0 DEF Idle, Reviewing
<1>2. ASSUME attempt' = attempt PROVE ResolvesOnce /\ Reviewed'
  BY <1>1, <1>2, ReviewFrame
<1>3. ASSUME tx[r].op \in Reviewing, NEW s \in {"confirmado", "rechazado"},
             Resolve({tx[r].attempt}, s)
      PROVE  ResolvesOnce /\ Reviewed'
  <2>1. \A a \in Attempts : /\ attempt'[a].order = attempt[a].order
                            /\ a # tx[r].attempt => attempt'[a] = attempt[a]
    BY <1>0, <1>3 DEF Resolve, AttemptRow
  <2>2. /\ tx[r].attempt \in Attempts /\ attempt[tx[r].attempt].status = "pendiente"
        /\ attempt[tx[r].attempt].order # NoOrder
    BY <1>0, <1>3 DEF Reviewed
  <2>3. \A q \in Requests : tx'[q].op \in Reviewing =>
          tx[q].attempt \in Attempts /\ tx[q].attempt # tx[r].attempt
    BY <1>1, <1>3 DEF Reviewed
  <2> QED
    BY <1>1, <2>1, <2>2, <2>3, ReviewFrame
<1>4. CASE CommitApprove(r)
  BY <1>3, <1>4 DEF CommitApprove, Ends, PayAttemptWrites, Reviewing
<1>5. CASE CommitReject(r)
  BY <1>3, <1>5 DEF CommitReject, Ends, RejectWrites, Reviewing
<1>6. CASE CommitCancel(r)
  <2> DEFINE A == AttemptsOf(tx[r].order, "pendiente")
  <2>1. /\ \A a \in Attempts : /\ attempt'[a].order = attempt[a].order
                               /\ a \notin A => attempt'[a] = attempt[a]
        /\ \A a \in A : attempt[a].status = "pendiente" /\ attempt[a].order # NoOrder
    BY <1>0, <1>6 DEF CommitCancel, CancelWrites, Resolve, AttemptRow, AttemptsOf
  <2>2. \A q \in Requests : tx'[q].op \in Reviewing =>
          tx[q].attempt \in Attempts /\ tx[q].attempt \notin A
    BY <1>1, <1>6 DEF CommitCancel, AttemptLocked, Reviewed, Reviewing
  <2> HIDE DEF A
  <2> QED
    BY <1>1, <2>1, <2>2, ReviewFrame
<1>7. CASE CommitAttempt(r)
  <2> DEFINE a == tx[r].attempt
  <2>1. /\ a \in Untried
        /\ attempt'[a].order = tx[r].order /\ attempt'[a].status = "pendiente"
        /\ \A b \in Attempts : b # a => attempt'[b] = attempt[b]
    BY <1>0, <1>7 DEF CommitAttempt, AttemptWrites, AttemptInsert, Untried
  <2>2. \A q \in Requests : tx'[q].op \in Reviewing =>
          tx[q].attempt \in Attempts /\ tx[q].attempt # a
    BY <1>0, <1>1, <2>1 DEF Reviewed, Linked, Untried, Reviewing
  <2> QED
    BY <1>0, <1>1, <2>1, <2>2, ReviewFrame DEF Reviewed, Untried
<1> QED
  BY <1>2, <1>4, <1>5, <1>6, <1>7
  DEF Commit, CommitCheckout, SendWrites, CommitBlock, BlockWrites, CommitPay, PayWrites,
      CommitClose, CloseWrites, CommitVoid, VoidWrites, CommitAdd, AddItemWrites,
      CommitKitchen, KitchenWrites

LEMMA ReviewKept ==
  ASSUME TxTypeOK, Linked, Reviewed, [TxNext]_txVars
  PROVE  ResolvesOnce /\ Reviewed'
<1>0. attempt \in [Attempts -> AttemptRow] /\ NoOrder \notin Orders
  BY LifecycleAssumption DEF TxTypeOK, TypeOK
<1>1. CASE Birth
  <2>1. tx' = tx
    BY <1>1 DEF Birth
  <2>2. ASSUME NEW o \in Orders, NEW S \in SUBSET Lines, NEW hold \in BOOLEAN,
               NEW diner \in BOOLEAN, CreateOrder(o, S, hold, diner)
        PROVE  ResolvesOnce /\ Reviewed'
    BY <2>1, <2>2, ReviewFrame DEF CreateOrder, ResolvesOnce
  <2>3. ASSUME NEW o \in Orders, NEW S \in SUBSET Lines, NEW a \in Attempts,
               NEW cash \in BOOLEAN, \A r \in Requests : tx[r].attempt # a,
               SubmitCart(o, S, a, cash)
        PROVE  ResolvesOnce /\ Reviewed'
    <3>1. /\ attempt[a].order = NoOrder
          /\ attempt'[a].order = o /\ attempt'[a].status = "pendiente"
          /\ \A b \in Attempts : b # a => attempt'[b] = attempt[b]
      BY <1>0, <2>3 DEF SubmitCart, Untried
    <3>2. ResolvesOnce
      BY <3>1 DEF ResolvesOnce, Reviewed
    <3>3. \A q \in Requests : tx[q].op \in Reviewing => tx[q].attempt \in Attempts
      BY DEF Reviewed
    <3> QED
      BY <1>0, <2>1, <2>3, <3>1, <3>2, <3>3, ReviewFrame
  <2> QED
    BY <1>1, <2>2, <2>3 DEF Birth
<1>2. CASE Receipt
  <2>1. tx' = tx /\ \A a \in Attempts : /\ attempt'[a].order = attempt[a].order
                                        /\ attempt'[a].status = attempt[a].status
    BY <1>0, <1>2 DEF Receipt, AttachReceipt, AttemptRow
  <2>2. \A q \in Requests : tx[q].op \in Reviewing => tx[q].attempt \in Attempts
    BY DEF Reviewed
  <2> QED
    BY <2>1, <2>2, ReviewFrame DEF ResolvesOnce
<1>3. CASE Cook
  BY <1>3, ReviewFrame DEF Cook, TransitionKitchen, KitchenWrites, ResolvesOnce
<1>4. ASSUME NEW r \in Requests, LockOrder(r) PROVE ResolvesOnce /\ Reviewed'
  BY <1>4, ReviewFrame DEF LockOrder, vars, ResolvesOnce, TxTypeOK
<1>5. ASSUME NEW r \in Requests, Refuse(r) \/ Crash(r) PROVE ResolvesOnce /\ Reviewed'
  BY <1>5, ReviewFrame
  DEF Refuse, Crash, Leave, vars, ResolvesOnce, TxTypeOK, Idle, Reviewing
<1>6. ASSUME NEW r \in Requests, Begin(r) PROVE ResolvesOnce /\ Reviewed'
  <2>1. attempt' = attempt
    BY <1>6
    DEF Begin, BeginCheckout, BeginBlock, BeginApprove, BeginReject, BeginPay, BeginClose,
        BeginCancel, BeginVoid, BeginAdd, BeginKitchen, BeginAttempt, Start, vars
  <2> QED
    BY <1>6, <2>1, ReviewBegins DEF ResolvesOnce
<1>7. CASE UNCHANGED txVars
  BY <1>7, ReviewFrame DEF txVars, vars, ResolvesOnce
<1> QED
  BY <1>1, <1>2, <1>3, <1>4, <1>5, <1>6, <1>7, ReviewCommits DEF TxNext, Progress

(* Whichever handlers overlap, an attempt is resolved once: who approves, confirms or *)
(* rejects it holds its lock, and who cancels its order waits for it.                 *)
THEOREM ResolvesAtMostOnce == TxSpec => ResolvedOnce
<1>1. TxInit => TxTypeOK /\ Linked /\ Reviewed
  <2>1. TxInit => TxTypeOK /\ Linked
    BY TypeInit DEF TxInit, TxTypeOK, Linked, Idle, Cocina
  <2> QED
    BY <2>1 DEF TxInit, Init, Reviewed, Reviewing, Idle
<1>2. TxTypeOK /\ Linked /\ Reviewed /\ [TxNext]_txVars => TxTypeOK' /\ Linked' /\ Reviewed'
  BY TypeKept, ReviewKept
<1>3. TxTypeOK /\ Linked /\ Reviewed /\ [TxNext]_txVars => [ResolvesOnce]_txVars
  BY ReviewKept
<1> QED
  BY <1>1, <1>2, <1>3, PTL DEF TxSpec, ResolvedOnce, ResolvesOnce

-----------------------------------------------------------------------------
(* The handlers that lock what they read: what a request read still holds when it writes. *)

Locking == {"checkout", "block", "approve", "reject"}

Holds(r) == tx[r].step = "locked"

Good(r) ==
  LET o == tx[r].order
      a == tx[r].attempt
  IN  /\ tx[r].op \in Locking \cup {"idle"}
      /\ tx[r].op \in {"checkout", "block"} => Holds(r)
      /\ tx[r].op \in {"reject", "idle"} => ~Holds(r)
      /\ tx[r].op = "checkout" =>
           Status(o) = "recibida" /\ order[o].version \in Versions /\ tx[r].lines = Live(o)
      /\ tx[r].op = "block" =>
           Status(o) = "abierta" /\ order[o].version \in Versions /\ Cooking(o) = {}
      /\ tx[r].op = "approve" => ApproveReads(a) \/ CashReads(a)
      /\ tx[r].op = "approve" /\ Holds(r) => ConfirmedBy(a, o) /\ tx[r].lines = Live(o)
      /\ tx[r].op = "reject" => RejectReads(a)

Apart(r, q) == Holds(r) /\ Holds(q) /\ tx[r].order = tx[q].order => r = q

Secured ==
  /\ \A r \in Requests : Good(r)
  /\ \A r, q \in Requests : Apart(r, q)

\* A step of somebody else that leaves the order o to who has it locked.
Leaves(o) ==
  /\ order'[o] = order[o]
  /\ Live(o)' = Live(o)
  /\ Cooking(o) = {} => Cooking(o)' = {}
  /\ AttemptsOf(o, "confirmado")' = AttemptsOf(o, "confirmado")

(* Who goes on, with its order and its attempt as it left them, still stands on them. *)
LEMMA GoodFrame ==
  ASSUME NEW r \in Requests, Good(r), tx'[r] = tx[r],
         Holds(r) => Leaves(tx[r].order),
         tx[r].op \in Reviewing => attempt'[tx[r].attempt] = attempt[tx[r].attempt]
  PROVE  Good(r)'
<1> DEFINE o == tx[r].order
           a == tx[r].attempt
<1>1. o' = o /\ a' = a /\ Holds(r)' = Holds(r)
  BY DEF Holds
<1>2. tx[r].op \in Reviewing =>
        /\ ApproveReads(a)' = ApproveReads(a) /\ CashReads(a)' = CashReads(a)
        /\ RejectReads(a)' = RejectReads(a)
  BY <1>1 DEF ApproveReads, CashReads, RejectReads, Pendiente
<1>3. Holds(r) => /\ Status(o)' = Status(o) /\ (order[o].version)' = order[o].version
                  /\ ConfirmedBy(a, o)' = ConfirmedBy(a, o)
                  /\ Live(o)' = Live(o) /\ (Cooking(o) = {} => Cooking(o)' = {})
  BY <1>1 DEF Leaves, Status, ConfirmedBy
<1> QED
  BY <1>1, <1>2, <1>3 DEF Good, Reviewing

(* A request's rows are not its own business alone: who else is in its way is refused. *)
LEMMA SecuredFrame ==
  ASSUME Secured, NEW r \in Requests, Good(r)',
         \A q \in Requests \ {r} :
           /\ tx'[q] = tx[q]
           /\ Holds(q) => Leaves(tx[q].order)
           /\ tx[q].op \in Reviewing => attempt'[tx[q].attempt] = attempt[tx[q].attempt],
         Holds(r)' => \A q \in Requests \ {r} : Holds(q) => tx[q].order # tx'[r].order
  PROVE  Secured'
<1>1. \A q \in Requests : Good(q)'
  BY GoodFrame DEF Secured
<1>2. \A p, q \in Requests : Apart(p, q)'
  BY DEF Secured, Apart, Holds
<1> QED
  BY <1>1, <1>2 DEF Secured

LEMMA LeavesUnchanged == ASSUME UNCHANGED <<order, line, attempt>>, NEW o PROVE Leaves(o)
BY DEF Leaves, Live, Cooking, LinesOf, AttemptsOf

(* The reads: a request that starts has just read what it stands on. *)
LEMMA SecuredBegins ==
  ASSUME TxTypeOK, Linked, Secured, Handlers \subseteq Locking, NEW r \in Requests, Begin(r)
  PROVE  UNCHANGED vars /\ Secured'
<1>1. UNCHANGED vars /\ \A q \in Requests \ {r} : tx'[q] = tx[q]
  BY DEF Begin, BeginCheckout, BeginBlock, BeginApprove, BeginReject, BeginPay, BeginClose,
         BeginCancel, BeginVoid, BeginAdd, BeginKitchen, BeginAttempt, Start, TxTypeOK
<1>2. ASSUME Good(r)',
             Holds(r)' => \A q \in Requests \ {r} : Holds(q) => tx[q].order # tx'[r].order
      PROVE  Secured'
  BY <1>1, <1>2, SecuredFrame, LeavesUnchanged DEF vars
<1>3. ASSUME NEW o \in Orders, NEW v \in Versions,
             BeginCheckout(r, o, v) \/ BeginBlock(r, o, v)
      PROVE  Secured'
  <2>1. /\ tx'[r].op \in {"checkout", "block"} /\ tx'[r].order = o /\ tx'[r].step = "locked"
        /\ tx'[r].op = "checkout" => SendReads(o, v) /\ tx'[r].lines = Live(o)
        /\ tx'[r].op = "block" => BlockReads(o, v)
        /\ ~OrderLocked(o)
    BY <1>3 DEF BeginCheckout, BeginBlock, Start, TxTypeOK
  <2>2. Live(o)' = Live(o) /\ Cooking(o)' = Cooking(o) /\ order' = order
    BY <1>1 DEF vars, Live, Cooking, LinesOf
  <2>3. Good(r)'
    BY <2>1, <2>2 DEF Good, Holds, Locking, SendReads, BlockReads, Status
  <2> QED
    BY <1>2, <2>1, <2>3 DEF OrderLocked, Holds
<1>4. ASSUME NEW a \in Attempts, BeginApprove(r, a) \/ BeginReject(r, a)
      PROVE  Secured'
  <2>1. /\ tx'[r].op \in {"approve", "reject"} /\ tx'[r].attempt = a /\ tx'[r].step = "read"
        /\ tx'[r].op = "approve" => ApproveReads(a) \/ CashReads(a)
        /\ tx'[r].op = "reject" => RejectReads(a)
    BY <1>4 DEF BeginApprove, BeginReject, Start, TxTypeOK
  <2>2. attempt' = attempt
    BY <1>1 DEF vars
  <2>3. Good(r)'
    BY <2>1, <2>2 DEF Good, Holds, Locking, ApproveReads, CashReads, RejectReads, Pendiente
  <2> QED
    BY <1>2, <2>1, <2>3 DEF Holds
<1>5. ASSUME NEW op, NEW step, NEW o, NEW a, NEW L, NEW back, NEW to, op \notin Locking,
             Start(r, op, step, o, a, L, back, to)
      PROVE  FALSE
  BY <1>5 DEF Start
<1>6. \A op \in {"pay", "close", "cancel", "void", "add", "kitchen", "attempt"} :
        op \notin Locking
  BY DEF Locking
<1>7. ASSUME NEW o \in Orders, BeginPay(r, o) \/ BeginClose(r, o) \/ BeginCancel(r, o)
      PROVE  FALSE
  BY <1>5, <1>6, <1>7 DEF BeginPay, BeginClose, BeginCancel
<1>8. ASSUME NEW o \in Orders, NEW l \in Lines, BeginAdd(r, o, l) PROVE FALSE
  BY <1>5, <1>6, <1>8 DEF BeginAdd
<1>9. ASSUME NEW o \in Orders, NEW a \in Attempts, BeginAttempt(r, o, a) PROVE FALSE
  BY <1>5, <1>6, <1>9 DEF BeginAttempt
<1>10. ASSUME NEW l \in Lines, BeginVoid(r, l) PROVE FALSE
  BY <1>5, <1>6, <1>10 DEF BeginVoid
<1>11. ASSUME NEW l \in Lines, NEW to \in Cocina, BeginKitchen(r, l, to) PROVE FALSE
  BY <1>5, <1>6, <1>11 DEF BeginKitchen
<1> QED
  BY <1>1, <1>3, <1>4, <1>7, <1>8, <1>9, <1>10, <1>11 DEF Begin

(* The commits: each is the serial handler, run on the rows as they are now. *)
LEMMA CommitsSerially ==
  ASSUME TxTypeOK, Linked, Reviewed, Secured, NEW r \in Requests, Commit(r)
  PROVE  Next /\ Secured'
<1> DEFINE o == tx[r].order
           a == tx[r].attempt
<1>0. /\ tx' = [tx EXCEPT ![r] = Idle] /\ tx'[r] = Idle
      /\ \A q \in Requests \ {r} : tx'[q] = tx[q]
      /\ tx[r].op \in Locking /\ o \in Orders /\ Good(r)
      /\ attempt \in [Attempts -> AttemptRow] /\ order \in [Orders -> OrderRow]
  BY CommitType
  DEF TxTypeOK, TypeOK, Commit, CommitCheckout, CommitBlock, CommitApprove, CommitReject,
      CommitPay, CommitClose, CommitCancel, CommitVoid, CommitAdd, CommitKitchen,
      CommitAttempt, Ends, Linked, Secured, Good
<1>1. ASSUME \A q \in Requests \ {r} :
               /\ Holds(q) => Leaves(tx[q].order)
               /\ tx[q].op \in Reviewing => attempt'[tx[q].attempt] = attempt[tx[q].attempt]
      PROVE  Secured'
  <2>1. Good(r)' /\ ~Holds(r)'
    BY <1>0 DEF Good, Holds, Idle, Locking
  <2> QED
    BY <1>0, <1>1, <2>1, SecuredFrame
<1>2. ASSUME Holds(r) PROVE \A q \in Requests \ {r} : Holds(q) => tx[q].order # o
  BY <1>2 DEF Secured, Apart
<1>3. ASSUME Holds(r), line' = line,
             \A p \in Orders : p # o =>
               /\ order'[p] = order[p]
               /\ AttemptsOf(p, "confirmado")' = AttemptsOf(p, "confirmado")
      PROVE  \A q \in Requests \ {r} : Holds(q) => Leaves(tx[q].order)
  <2>1. ASSUME NEW p \in Orders, p # o PROVE Leaves(p)
    BY <1>3, <2>1 DEF Leaves, Live, Cooking, LinesOf
  <2>2. \A q \in Requests : Holds(q) => tx[q].order \in Orders
    BY DEF Secured, Good, Linked
  <2> QED
    BY <1>2, <1>3, <2>1, <2>2
<1>5. CASE CommitCheckout(r)
  <2>1. Status(o) = "recibida" /\ order[o].version \in Versions /\ tx[r].lines = Live(o)
        /\ Holds(r)
    BY <1>0, <1>5 DEF CommitCheckout, Ends, Good
  <2>2. CheckoutAndSend(o, order[o].version)
    BY <1>5, <2>1 DEF CommitCheckout, CheckoutAndSend, SendReads
  <2>3. Next
    BY <1>0, <2>1, <2>2 DEF Next, NextOrder
  <2>4. /\ attempt' = attempt /\ line' = line
        /\ order' = [order EXCEPT ![o].status = "pagada", ![o].version = order[o].version + 1]
    BY <2>2 DEF CheckoutAndSend, SendWrites, ChargeAndSend, Advance
  <2>5. \A p \in Orders : p # o =>
          /\ order'[p] = order[p]
          /\ AttemptsOf(p, "confirmado")' = AttemptsOf(p, "confirmado")
    BY <1>0, <2>4 DEF AttemptsOf
  <2>6. \A q \in Requests \ {r} : Holds(q) => Leaves(tx[q].order)
    BY <1>3, <2>1, <2>4, <2>5
  <2> QED
    BY <1>1, <2>3, <2>4, <2>6
<1>6. CASE CommitBlock(r)
  <2>1. Status(o) = "abierta" /\ order[o].version \in Versions /\ Cooking(o) = {} /\ Holds(r)
    BY <1>0, <1>6 DEF CommitBlock, Ends, Good
  <2>2. BlockOrder(o, order[o].version)
    BY <1>6, <2>1 DEF CommitBlock, BlockOrder, BlockReads
  <2>3. Next
    BY <1>0, <2>1, <2>2 DEF Next, NextOrder
  <2>4. /\ attempt' = attempt /\ line' = line
        /\ order' = [order EXCEPT ![o].status = "bloqueada",
                                  ![o].version = order[o].version + 1]
    BY <2>2 DEF BlockOrder, BlockWrites, Advance
  <2>5. \A p \in Orders : p # o =>
          /\ order'[p] = order[p]
          /\ AttemptsOf(p, "confirmado")' = AttemptsOf(p, "confirmado")
    BY <1>0, <2>4 DEF AttemptsOf
  <2>6. \A q \in Requests \ {r} : Holds(q) => Leaves(tx[q].order)
    BY <1>3, <2>1, <2>4, <2>5
  <2> QED
    BY <1>1, <2>3, <2>4, <2>6
<1>7. CASE CommitApprove(r)
  <2>1. /\ ApproveReads(a) \/ CashReads(a)
        /\ ConfirmedBy(a, o) /\ tx[r].lines = Live(o) /\ Holds(r)
        /\ a \in Attempts /\ attempt[a].order = o /\ tx[r].op \in Reviewing
    BY <1>0, <1>7 DEF CommitApprove, Ends, Good, Reviewed, Holds, Reviewing
  <2>2. ApprovePaymentAttempt(a) \/ ConfirmCashPaymentAttempt(a)
    BY <1>7, <2>1
    DEF CommitApprove, ApprovePaymentAttempt, ConfirmCashPaymentAttempt, PayAttempt
  <2>3. Next
    BY <2>1, <2>2 DEF Next, NextAttempt
  <2>4. /\ line' = line /\ Resolve({a}, "confirmado")
        /\ order' = [order EXCEPT ![o].status = "pagada", ![o].version = order[o].version + 1]
    BY <1>7 DEF CommitApprove, PayAttemptWrites, ChargeAndSend, Advance
  <2>5. \A b \in Attempts : b # a => attempt'[b] = attempt[b]
    BY <2>4 DEF Resolve
  <2>6. attempt'[a].order = o
    BY <1>0, <2>1, <2>4 DEF Resolve, AttemptRow
  <2>7. \A p \in Orders : p # o =>
          /\ order'[p] = order[p]
          /\ AttemptsOf(p, "confirmado")' = AttemptsOf(p, "confirmado")
    <3> HIDE DEF o, a
    <3>1. \A p \in Orders : p # o => order'[p] = order[p]
      BY <1>0, <2>4
    <3> QED
      BY <2>1, <2>5, <2>6, <3>1 DEF AttemptsOf
  <2>8. \A q \in Requests \ {r} : Holds(q) => Leaves(tx[q].order)
    BY <1>3, <2>1, <2>4, <2>7
  <2>9. \A q \in Requests \ {r} : tx[q].op \in Reviewing =>
          attempt'[tx[q].attempt] = attempt[tx[q].attempt]
    BY <2>1, <2>5 DEF Reviewed
  <2> QED
    BY <1>1, <2>3, <2>8, <2>9
<1>8. CASE CommitReject(r)
  <2>1. RejectReads(a) /\ a \in Attempts /\ tx[r].op \in Reviewing
    BY <1>0, <1>8 DEF CommitReject, Ends, Good, Reviewed, Reviewing
  <2>2. RejectPaymentAttempt(a) /\ Next
    BY <1>8, <2>1 DEF CommitReject, RejectPaymentAttempt, Next, NextAttempt
  <2>3. order' = order /\ line' = line /\ Resolve({a}, "rechazado")
    BY <2>2 DEF RejectPaymentAttempt, RejectWrites
  <2>4. /\ \A b \in Attempts : b # a => attempt'[b] = attempt[b]
        /\ attempt[a].status = "pendiente" /\ attempt'[a].status = "rechazado"
    BY <1>0, <2>1, <2>3 DEF Resolve, AttemptRow, RejectReads, Pendiente
  <2>5. \A p : AttemptsOf(p, "confirmado")' = AttemptsOf(p, "confirmado")
    BY <2>4 DEF AttemptsOf
  <2>6. \A p : Leaves(p)
    BY <2>3, <2>5 DEF Leaves, Live, Cooking, LinesOf
  <2>7. \A q \in Requests \ {r} : tx[q].op \in Reviewing =>
          attempt'[tx[q].attempt] = attempt[tx[q].attempt]
    BY <2>1, <2>4 DEF Reviewed
  <2> QED
    BY <1>1, <2>2, <2>6, <2>7
<1> QED
  BY <1>0, <1>5, <1>6, <1>7, <1>8
  DEF Commit, Locking, CommitPay, CommitClose, CommitCancel, CommitVoid, CommitAdd,
      CommitKitchen, CommitAttempt, Ends

(* The handlers that lock what they read are serializable, whatever the number of requests, *)
(* orders, lines and attempts: what a request has read stays true until it writes.          *)
LEMMA SecuredKept ==
  ASSUME TxTypeOK, Linked, Reviewed, Secured,
         Handlers \subseteq Locking, [TxNext]_txVars
  PROVE  [Next]_vars /\ Secured'
<1>0. /\ line \in [Lines -> LineRow] /\ order \in [Orders -> OrderRow]
      /\ attempt \in [Attempts -> AttemptRow] /\ NoOrder \notin Orders
  BY LifecycleAssumption DEF TxTypeOK, TypeOK
<1>1. ASSUME tx' = tx,
             \A q \in Requests : Holds(q) => Leaves(tx[q].order),
             \A q \in Requests : tx[q].op \in Reviewing =>
               attempt'[tx[q].attempt] = attempt[tx[q].attempt]
      PROVE  Secured'
  <2>1. \A q \in Requests : Good(q)'
    BY <1>1, GoodFrame DEF Secured
  <2>2. \A p, q \in Requests : Apart(p, q)'
    BY <1>1 DEF Secured, Apart, Holds
  <2> QED
    BY <2>1, <2>2 DEF Secured
<1>2. \A q \in Requests : Holds(q) => /\ tx[q].order \in Orders
                                      /\ Status(tx[q].order) \in {"recibida", "abierta"}
  BY DEF Secured, Good, Linked, Locking, ConfirmedBy
<1>3. \A q \in Requests : tx[q].op \in Reviewing =>
        tx[q].attempt \in Attempts /\ attempt[tx[q].attempt].order # NoOrder
  BY <1>0 DEF Reviewed, Linked, Reviewing
<1>4. ASSUME NEW o \in Orders, NEW p \in Orders, p # o, Status(o) = "ausente",
             NEW S \in SUBSET Unsent, line' = Inserted(S, o), order'[p] = order[p],
             AttemptsOf(p, "confirmado")' = AttemptsOf(p, "confirmado")
      PROVE  Leaves(p)
  <2>1. /\ \A l \in Lines : (line'[l].order = p) = (line[l].order = p)
        /\ \A l \in Lines : line[l].order = p => line'[l] = line[l]
    BY <1>0, <1>4 DEF Inserted, Unsent
  <2> QED
    BY <1>4, <2>1 DEF Leaves, Live, Cooking, LinesOf
<1>5. CASE Birth
  <2>1. tx' = tx /\ Next
    BY <1>5 DEF Birth, Next, NextOrder
  <2>2. ASSUME NEW o \in Orders, NEW S \in SUBSET Lines, NEW hold \in BOOLEAN,
               NEW diner \in BOOLEAN, CreateOrder(o, S, hold, diner)
        PROVE  Secured'
    <3>1. /\ Status(o) = "ausente" /\ S \in SUBSET Unsent /\ line' = Inserted(S, o)
          /\ attempt' = attempt /\ \A p \in Orders : p # o => order'[p] = order[p]
      BY <1>0, <2>2 DEF CreateOrder, Opened
    <3>2. \A p \in Orders : AttemptsOf(p, "confirmado")' = AttemptsOf(p, "confirmado")
      BY <3>1 DEF AttemptsOf
    <3>3. \A q \in Requests : Holds(q) => Leaves(tx[q].order)
      BY <1>2, <1>4, <3>1, <3>2
    <3> QED
      BY <1>1, <2>1, <3>1, <3>3
  <2>3. ASSUME NEW o \in Orders, NEW S \in SUBSET Lines, NEW a \in Attempts,
               NEW cash \in BOOLEAN, SubmitCart(o, S, a, cash)
        PROVE  Secured'
    <3>1. /\ Status(o) = "ausente" /\ S \in SUBSET Unsent /\ line' = Inserted(S, o)
          /\ attempt[a].order = NoOrder /\ attempt'[a].order = o
          /\ \A b \in Attempts : b # a => attempt'[b] = attempt[b]
          /\ \A p \in Orders : p # o => order'[p] = order[p]
      BY <1>0, <2>3 DEF SubmitCart, Opened, Untried
    <3>2. \A p \in Orders : p # o => AttemptsOf(p, "confirmado")' = AttemptsOf(p, "confirmado")
      BY <1>0, <3>1 DEF AttemptsOf
    <3>3. \A q \in Requests : Holds(q) => Leaves(tx[q].order)
      BY <1>2, <1>4, <3>1, <3>2
    <3> QED
      BY <1>1, <1>3, <2>1, <3>1, <3>3
  <2> QED
    BY <1>5, <2>1, <2>2, <2>3 DEF Birth
<1>6. CASE Receipt
  <2>1. PICK a \in Attempts : ~AttemptLocked(a) /\ AttachReceipt(a)
    BY <1>6 DEF Receipt
  <2>2. Next /\ tx' = tx /\ UNCHANGED <<order, line>>
    BY <1>6, <2>1 DEF Receipt, Next, NextAttempt, AttachReceipt
  <2>3. /\ \A b \in Attempts : b # a => attempt'[b] = attempt[b]
        /\ \A b \in Attempts : /\ attempt'[b].order = attempt[b].order
                               /\ attempt'[b].status = attempt[b].status
    BY <1>0, <2>1 DEF AttachReceipt, AttemptRow
  <2>4. \A p : Leaves(p)
    BY <2>2, <2>3 DEF Leaves, Live, Cooking, LinesOf, AttemptsOf
  <2> QED
    BY <1>1, <1>3, <2>1, <2>2, <2>3, <2>4 DEF AttemptLocked, Reviewing
<1>7. CASE Cook
  <2>1. PICK l \in Lines, to \in Cocina : TransitionKitchen(l, to)
    BY <1>7 DEF Cook
  <2>2. Next /\ tx' = tx /\ UNCHANGED <<order, attempt>>
    BY <1>7, <2>1 DEF Cook, Next, NextLine, TransitionKitchen, KitchenWrites
  <2>3. /\ line[l].cocina \in EnCurso
        /\ to \in {"en_preparacion", "listo"}
        /\ line' = [line EXCEPT ![l].cocina = to]
    <3>1. line' = [k \in Lines |-> IF k \in {l} THEN [line[k] EXCEPT !.cocina = to]
                                                ELSE line[k]]
      BY <2>1 DEF TransitionKitchen, KitchenWrites, SetCocina
    <3> QED
      BY <1>0, <2>1, <3>1
      DEF TransitionKitchen, KitchenReads, KitchenAllows, EnCurso
  <2>4. \A k \in Lines : /\ line'[k].order = line[k].order
                         /\ k # l => line'[k] = line[k]
    BY <1>0, <2>3 DEF LineRow
  <2>5. line[l].cocina # "anulado" /\ line'[l].cocina # "anulado"
    BY <1>0, <2>3 DEF LineRow, EnCurso
  <2>6. \A p : Live(p)' = Live(p)
    BY <2>4, <2>5 DEF Live, LinesOf
  <2>7. \A p : Cooking(p) = {} => Cooking(p)' = {}
    BY <2>3, <2>4 DEF Cooking, LinesOf
  <2>8. \A p : Leaves(p)
    BY <2>2, <2>6, <2>7 DEF Leaves, AttemptsOf
  <2> QED
    BY <1>1, <2>2, <2>8
<1>8. ASSUME NEW r \in Requests, Begin(r) PROVE [Next]_vars /\ Secured'
  BY <1>8, SecuredBegins
<1>9. ASSUME NEW r \in Requests, LockOrder(r) PROVE [Next]_vars /\ Secured'
  <2> DEFINE o == tx[r].order
  <2>1. /\ UNCHANGED vars /\ \A q \in Requests \ {r} : tx'[q] = tx[q]
        /\ tx[r].op = "approve" /\ ConfirmedBy(tx[r].attempt, o) /\ ~OrderLocked(o)
        /\ tx'[r] = [tx[r] EXCEPT !.step = "locked", !.lines = Live(o)]
    BY <1>9 DEF LockOrder, TxTypeOK
  <2>2. /\ tx'[r].op = "approve" /\ tx'[r].order = o /\ tx'[r].attempt = tx[r].attempt
        /\ tx'[r].step = "locked" /\ tx'[r].lines = Live(o)
    BY <2>1 DEF TxTypeOK
  <2>3. /\ Live(o)' = Live(tx'[r].order) /\ ConfirmedBy(tx[r].attempt, o)' = ConfirmedBy(tx[r].attempt, o)
        /\ ApproveReads(tx[r].attempt)' = ApproveReads(tx[r].attempt)
        /\ CashReads(tx[r].attempt)' = CashReads(tx[r].attempt)
    BY <2>1, <2>2 DEF vars, Live, LinesOf, ConfirmedBy, Status, AttemptsOf, ApproveReads,
                      CashReads, Pendiente
  <2>4. Good(r)'
    BY <2>1, <2>2, <2>3 DEF Good, Holds, Locking, Secured
  <2>5. \A q \in Requests \ {r} : Holds(q) => tx[q].order # o
    BY <2>1 DEF OrderLocked, Holds
  <2> QED
    BY <2>1, <2>2, <2>4, <2>5, SecuredFrame, LeavesUnchanged DEF vars
<1>10. ASSUME NEW r \in Requests, Refuse(r) \/ Crash(r) PROVE [Next]_vars /\ Secured'
  <2>1. UNCHANGED vars /\ tx'[r] = Idle /\ \A q \in Requests \ {r} : tx'[q] = tx[q]
    BY <1>10 DEF Refuse, Crash, Leave, TxTypeOK
  <2>2. Good(r)' /\ ~Holds(r)'
    BY <2>1 DEF Good, Holds, Idle, Locking
  <2> QED
    BY <2>1, <2>2, SecuredFrame, LeavesUnchanged DEF vars
<1>11. CASE UNCHANGED txVars
  BY <1>1, <1>11, LeavesUnchanged DEF txVars, vars
<1> QED
  BY <1>5, <1>6, <1>7, <1>8, <1>9, <1>10, <1>11, <1>1, CommitsSerially DEF TxNext, Progress

THEOREM LockedHandlersSerialize ==
  ASSUME Handlers \subseteq Locking
  PROVE  TxSpec => Serializable
<1> DEFINE Inv == TxTypeOK /\ Linked /\ Reviewed /\ Secured
<1>1. TxInit => Init /\ Inv
  <2>1. TxInit => TxTypeOK /\ Linked
    BY TypeInit DEF TxInit, TxTypeOK, Linked, Idle, Cocina
  <2>2. TxInit => Reviewed /\ Secured
    BY DEF TxInit, Init, Reviewed, Reviewing, Idle, Secured, Good, Apart, Holds, Locking
  <2> QED
    BY <2>1, <2>2 DEF TxInit
<1>2. Inv /\ [TxNext]_txVars => Inv' /\ [Next]_vars
  BY TypeKept, ReviewKept, SecuredKept
<1> QED
  BY <1>1, <1>2, PTL DEF TxSpec, Serializable, Spec

(* Nothing that the serial handlers promise is lost when those overlap. *)
COROLLARY LockedHandlersKeepInvariant ==
  ASSUME Handlers \subseteq Locking
  PROVE  TxSpec => []IInv
BY LockedHandlersSerialize, Invariance, PTL DEF Serializable

-----------------------------------------------------------------------------
(* What holds of every handler, the ones that lock nothing included: money leaves a sale. *)

\* What one step may do to the sales and the confirmed attempts.
MoneyStays ==
  /\ \A o \in Orders : saleOf'[o] >= saleOf[o]
  /\ \A a \in Attempts : attempt'[a].status = "confirmado" =>
       \/ attempt[a].status = "confirmado" /\ attempt'[a].order = attempt[a].order
       \/ attempt'[a].order \in Orders /\ saleOf'[attempt'[a].order] > 0

LEMMA SaleGrows ==
  ASSUME TypeOK, NEW S \in SUBSET Lines, NEW refs \in SUBSET Orders, BuildSale(S, refs)
  PROVE  \A o \in Orders : /\ saleOf'[o] >= saleOf[o]
                           /\ o \in refs => saleOf'[o] > 0
BY DEF BuildSale, TypeOK

LEMMA CommitKeepsMoney ==
  ASSUME TxTypeOK, Linked, Reviewed, NEW r \in Requests, Commit(r)
  PROVE  MoneyStays
<1> DEFINE o == tx[r].order
           a == tx[r].attempt
           S == tx[r].lines
<1> USE DEF MoneyStays
<1>0. /\ TypeOK /\ S \in SUBSET Lines /\ tx[r].op # "idle" /\ o \in Orders
      /\ attempt \in [Attempts -> AttemptRow] /\ saleOf \in [Orders -> Nat]
      /\ {o} \in SUBSET Orders /\ {} \in SUBSET Orders
  BY DEF TxTypeOK, TypeOK, Linked, Commit, CommitCheckout, CommitBlock, CommitApprove,
         CommitReject, CommitPay, CommitClose, CommitCancel, CommitVoid, CommitAdd,
         CommitKitchen, CommitAttempt, Ends
<1>1. ASSUME attempt' = attempt, \A p \in Orders : saleOf'[p] >= saleOf[p]
      PROVE  MoneyStays
  BY <1>1
<1>2. ASSUME saleOf' = saleOf, NEW A \in SUBSET Attempts, Resolve(A, "rechazado")
      PROVE  MoneyStays
  <2>1. \A b \in Attempts : attempt'[b].status = "confirmado" => attempt'[b] = attempt[b]
    BY <1>0, <1>2 DEF Resolve, AttemptRow
  <2> QED
    BY <1>0, <1>2, <2>1
<1>3. CASE CommitCheckout(r)
  BY <1>0, <1>1, <1>3, SaleGrows DEF CommitCheckout, SendWrites, ChargeAndSend
<1>4. CASE CommitPay(r)
  BY <1>0, <1>1, <1>4, SaleGrows DEF CommitPay, PayWrites
<1>5. CASE CommitClose(r)
  BY <1>0, <1>1, <1>5, SaleGrows DEF CommitClose, CloseWrites
<1>6. CASE CommitApprove(r)
  <2>1. a \in Attempts /\ attempt[a].order = o
    BY <1>6 DEF CommitApprove, Ends, Reviewed, Reviewing
  <2>2. \A p \in Orders : saleOf'[p] >= saleOf[p] /\ (p = o => saleOf'[p] > 0)
    BY <1>0, <1>6, SaleGrows DEF CommitApprove, PayAttemptWrites, ChargeAndSend
  <2>3. \A b \in Attempts : /\ attempt'[b].order = attempt[b].order
                            /\ b # a => attempt'[b] = attempt[b]
    BY <1>0, <1>6 DEF CommitApprove, PayAttemptWrites, Resolve, AttemptRow
  <2> QED
    BY <1>0, <2>1, <2>2, <2>3
<1>7. CASE CommitReject(r)
  <2>1. {a} \in SUBSET Attempts
    BY <1>7 DEF CommitReject, Ends, Reviewed, Reviewing
  <2> QED
    BY <1>2, <1>7, <2>1 DEF CommitReject, RejectWrites, saleVars
<1>8. CASE CommitCancel(r)
  <2>1. AttemptsOf(o, "pendiente") \in SUBSET Attempts
    BY DEF AttemptsOf
  <2> QED
    BY <1>2, <1>8, <2>1 DEF CommitCancel, CancelWrites, saleVars
<1>9. CASE CommitAttempt(r)
  <2>1. PICK cash \in BOOLEAN : AttemptWrites(a, o, cash)
    BY <1>9 DEF CommitAttempt
  <2>2. \A b \in Attempts : attempt'[b].status = "confirmado" => attempt'[b] = attempt[b]
    BY <1>0, <2>1 DEF AttemptWrites, AttemptInsert
  <2> QED
    BY <1>0, <2>1, <2>2 DEF AttemptWrites, AttemptInsert, saleVars
<1>10. CASE CommitBlock(r) \/ CommitVoid(r) \/ CommitAdd(r) \/ CommitKitchen(r)
  <2>1. saleOf' = saleOf /\ attempt' = attempt
    BY <1>10
    DEF CommitBlock, BlockWrites, CommitVoid, VoidWrites, CommitAdd, AddItemWrites,
        CommitKitchen, KitchenWrites, saleVars
  <2> QED
    BY <1>0, <1>1, <2>1
<1> QED
  BY <1>3, <1>4, <1>5, <1>6, <1>7, <1>8, <1>9, <1>10 DEF Commit

LEMMA MoneyKept ==
  ASSUME TxTypeOK, Linked, Reviewed, [TxNext]_txVars
  PROVE  MoneyStays
<1> USE DEF MoneyStays
<1>0. attempt \in [Attempts -> AttemptRow] /\ saleOf \in [Orders -> Nat]
  BY DEF TxTypeOK, TypeOK
<1>1. ASSUME UNCHANGED <<attempt, saleOf>> PROVE MoneyStays
  BY <1>0, <1>1
<1>2. CASE Birth
  <2>1. /\ saleOf' = saleOf
        /\ \A b \in Attempts : attempt'[b].status = "confirmado" => attempt'[b] = attempt[b]
    <3>1. ASSUME NEW o, NEW S, NEW hold, NEW diner, CreateOrder(o, S, hold, diner)
          PROVE  saleOf' = saleOf /\ attempt' = attempt
      BY <3>1 DEF CreateOrder, saleVars
    <3>2. ASSUME NEW o, NEW S, NEW a \in Attempts, NEW cash, SubmitCart(o, S, a, cash)
          PROVE  /\ saleOf' = saleOf
                 /\ \A b \in Attempts : b # a => attempt'[b] = attempt[b]
                 /\ attempt'[a].status = "pendiente"
      BY <1>0, <3>2 DEF SubmitCart, saleVars
    <3> QED
      BY <1>0, <1>2, <3>1, <3>2 DEF Birth
  <2> QED
    BY <1>0, <2>1
<1>3. CASE Receipt
  BY <1>0, <1>3 DEF Receipt, AttachReceipt, AttemptRow, saleVars
<1>4. CASE Cook
  BY <1>1, <1>4 DEF Cook, TransitionKitchen, KitchenWrites, saleVars
<1>5. ASSUME NEW r \in Requests, Begin(r) \/ LockOrder(r) \/ Refuse(r) \/ Crash(r)
      PROVE  MoneyStays
  BY <1>1, <1>5
  DEF Begin, BeginCheckout, BeginBlock, BeginApprove, BeginReject, BeginPay, BeginClose,
      BeginCancel, BeginVoid, BeginAdd, BeginKitchen, BeginAttempt, Start, LockOrder,
      Refuse, Crash, Leave, vars
<1>6. CASE UNCHANGED txVars
  BY <1>1, <1>6 DEF txVars, vars
<1> QED
  BY <1>2, <1>3, <1>4, <1>5, <1>6, CommitKeepsMoney DEF TxNext, Progress

(* However all eleven handlers overlap and crash, the money of an attempt that was confirmed *)
(* since payment and dispatch are one step is in a sale of its order, even if a handler that *)
(* locks nothing has cancelled the order meanwhile (the run tx_orphan).                      *)
THEOREM ConfirmedMoneyIsSold ==
  ASSUME \A a \in Attempts : OldAttempt[a] = NoOrder
  PROVE  TxSpec => []ConfirmedHasSale
<1> DEFINE Sold == \A a \in Attempts : attempt[a].status = "confirmado" =>
                     attempt[a].order \in Orders /\ saleOf[attempt[a].order] > 0
           Inv == TxTypeOK /\ Linked /\ Reviewed /\ Sold
<1>1. TxInit => Inv
  <2>1. TxInit => TxTypeOK /\ Linked
    BY TypeInit DEF TxInit, TxTypeOK, Linked, Idle, Cocina
  <2>2. TxInit => Reviewed /\ Sold
    BY DEF TxInit, Init, Reviewed, Reviewing, Idle
  <2> QED
    BY <2>1, <2>2
<1>2. Inv /\ [TxNext]_txVars => Inv'
  <2>1. ASSUME Inv, [TxNext]_txVars PROVE Sold'
    <3>1. MoneyStays /\ saleOf \in [Orders -> Nat] /\ saleOf' \in [Orders -> Nat]
      BY <2>1, MoneyKept, TypeKept DEF TxTypeOK, TypeOK
    <3> QED
      BY <2>1, <3>1 DEF MoneyStays
  <2> QED
    BY <2>1, TypeKept, ReviewKept
<1>3. Inv => ConfirmedHasSale
  BY DEF ConfirmedHasSale, HasSale
<1> QED
  BY <1>1, <1>2, <1>3, PTL DEF TxSpec

================================================================================
